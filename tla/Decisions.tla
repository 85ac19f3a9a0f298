----------------------------- MODULE Decisions ------------------------------
(***************************************************************************)
(* The life of one schema version as its users see it: its question set is *)
(* validated, tried and saved (Questions), evaluated, calibrated and       *)
(* promoted on labelled evidence (Evaluation), then used for decisions     *)
(* (laya_decide) and for a batch job whose results are read page by page   *)
(* (laya_classify_batch, laya_job_results, laya_sample_for_labeling).      *)
(*                                                                         *)
(* The hook of an evaluate job and the second half of laya_calibrate run   *)
(* in threads and laya_promote_schema on the event loop, each in several   *)
(* transactions; at most one of each is under way here (Library has more). *)
(* What happens inside the batch job is the matter of Jobs.  What the      *)
(* model answers is external: any member of Answers.                       *)
(***************************************************************************)
EXTENDS Questions, Evaluation

CONSTANTS
    QuestionSets,     \* the question sets a user may try
    Evidences,        \* per set of questions, the evidence an evaluation may have
    FewEvidences,     \* bound: the same for a version that was evaluated before, or is used
    Answers,          \* [questions -> answer] the model may give for an item
    DefaultThreshold, \* Settings.default_threshold
    RowBudget,        \* Settings.sync_row_budget
    MaxCall,          \* bound: items of a synchronous call
    MaxItems,         \* bound: items of the batch job
    PageSize,         \* the limit a reader asks for
    Filters,          \* the filters a reader may use
    MaxReports,       \* bound: reports
    FewReports        \* bound: reports of a version that is used

\* Answers cover the questions they were asked, with a key of the question and a
\* probability each; the evidence of an evaluation is such answers to finitely many
\* examples.  A reader filters by one question at most, and by labels of it.
Keys(q) == CASE TypeOf[q] = "noul" -> BOOLEAN
             [] TypeOf[q] = "score" -> 0..(Len(LabelsOf[q]) - 1)
             [] TypeOf[q] = "choice" -> Range(LabelsOf[q])
Answered(questions, answers) ==
    /\ DOMAIN answers = questions
    /\ \A q \in questions : answers[q].key \in Keys(q) /\ answers[q].confidence \in 0..(2 * Top)
ASSUME DecisionsAssumption ==
    /\ \A questions \in DOMAIN Evidences :
         /\ questions # {} /\ \A q \in questions : TypeOf[q] \in {"noul", "score", "choice"}
         /\ FewEvidences[questions] \subseteq Evidences[questions]
         /\ \A ev \in Evidences[questions] :
              IsFiniteSet(DOMAIN ev) /\ \A i \in DOMAIN ev : Answered(questions, ev[i].answer)
         /\ \A answers \in Answers[questions] : Answered(questions, answers)
    /\ \A set \in QuestionSets :
         /\ IsFiniteSet(DOMAIN set)
         /\ \A x \in DOMAIN set : set[x].tokens \in Seq(Nat) /\ set[x].instructions \in Nat
    /\ \A f \in Filters : (\A p, q \in f.question : p = q) /\ (f.want # {} => f.question # {})
    /\ PageSize \in Nat \ {0}

VARIABLES
    author,    \* a question set that is being written, and what was said about it
    schema,    \* a saved version: status, question ids, thresholds, temperatures, report
    evidence,  \* the labelled answers of its evaluate jobs that ended
    hook,      \* the hook of an evaluate job: the status it read, and its report
    cal,       \* a laya_calibrate call: the status it read, and its report
    prom,      \* a laya_promote_schema call is between its read and its write
    decision,  \* the laya_decide call: the version it read, then its result
    job,       \* the batch job: its schema or none, and its items
    reader,    \* a client that reads the job's results page by page
    sample,    \* the last labelling sample
    reports    \* number of reports so far

vars == <<author, schema, evidence, hook, cal, prom, decision, job, reader, sample, reports>>
work == <<evidence, hook, cal, prom, reports>>
use == <<decision, job, reader, sample>>

None == [none |-> TRUE]
Empty == [q \in {} |-> 0]
Saved(questions) == [status |-> "draft", questions |-> questions, thresholds |-> Empty,
                     temps |-> [q \in questions |-> 1], report |-> None]
Closed == [pc |-> "idle", filter |-> None, offset |-> 0, got |-> <<>>, info |-> None,
           finished |-> TRUE, kept |-> TRUE, there |-> {}]
NoSample == [asked |-> 0, there |-> {}, items |-> <<>>]
NotAsked == [asked |-> FALSE]

\* A user writes a question set, or uses a version that was saved.
Init ==
    /\ \/ /\ \E set \in QuestionSets, loaded \in BOOLEAN :
               author = [set |-> set, loaded |-> loaded, told |-> NotAsked, saved |-> NotAsked, used |-> NotAsked]
          /\ schema = None
       \/ /\ author = None
          /\ \E questions \in DOMAIN Evidences : schema = Saved(questions)
    /\ evidence = {} /\ hook = None /\ cal = None /\ prom = FALSE
    /\ decision = None /\ job = None /\ reader = Closed /\ sample = NoSample /\ reports = 0

----------------------------------------------------------------------------
(* Writing the question set.                                               *)

Writing == author # None

\* The english checkpoint is loaded by a first call, or unloaded to make room.
LoadOrUnload ==
    /\ Writing
    /\ author' = [author EXCEPT !.loaded = ~@]
    /\ UNCHANGED <<schema, work, use>>

Validate ==
    /\ Writing /\ ~author.told.asked
    /\ \E r \in {laya_validate_questions(author.set, author.loaded)} :
         author' = [author EXCEPT !.told = [asked |-> TRUE, loaded |-> author.loaded, valid |-> r.valid,
                                            warnings |-> r.warnings]]
    /\ UNCHANGED <<schema, work, use>>

\* check_sync_budget: what a synchronous call of n items may cost.
WithinBudget(n, questions, big) == questions <= MaxQuestions /\ n * questions <= RowBudget /\ ~big

\* laya_classify, and laya_apply_preset with categories of the caller's: the items
\* are resolved and counted, the set validated, then the engine asked.  It may be
\* busy or too slow, and laya raises for a question it cannot lay out.
Classify(n, big) ==
    /\ Writing /\ ~author.used.asked
    /\ n > 0 /\ WithinBudget(n, Cardinality(DOMAIN author.set), big)
    /\ \A x \in DOMAIN author.set : Parses(author.set[x])
    /\ \E outcome \in
         IF validate(author.set, author.loaded).raises THEN {"refused"}
         ELSE {"busy", "timeout",
               IF \A x \in DOMAIN author.set : Answerable(author.set[x]) THEN "answered" ELSE "unanswerable"} :
         author' = [author EXCEPT !.used = [asked |-> TRUE, loaded |-> author.loaded, outcome |-> outcome]]
    /\ UNCHANGED <<schema, work, use>>

Save ==
    /\ Writing /\ ~author.saved.asked
    /\ \E r \in {laya_save_schema(author.set, author.loaded)} :
         author' = [author EXCEPT !.saved = [asked |-> TRUE, loaded |-> author.loaded, refused |-> r.raises,
                                             warnings |-> r.warnings]]
    /\ UNCHANGED <<schema, work, use>>

----------------------------------------------------------------------------
(* Evaluation, calibration, promotion.                                     *)

\* A decision or a job uses the version; bound: it may have few reports then.
InUse == decision # None \/ job # None
MoreReports == reports < IF InUse THEN FewReports ELSE MaxReports
Available == IF reports = 0 /\ ~InUse THEN Evidences[schema.questions] ELSE FewEvidences[schema.questions]
MayBeUsed ==
    /\ reports <= FewReports /\ evidence \subseteq FewEvidences[schema.questions]
    /\ hook # None => hook.report.ev \in FewEvidences[schema.questions]

Report(ev, temps) == build_report(ev, schema.questions, temps)

\* apply_report: the thresholds of the questions that have one, and the status,
\* which the caller read before it built the report.
Applied(rep, status) ==
    LET measured == {q \in schema.questions : rep.per[q].threshold # {}} IN
    [schema EXCEPT !.thresholds = [q \in measured |-> CHOOSE t \in rep.per[q].threshold : TRUE],
                   !.report = rep,
                   !.status = IF status = "trusted" /\ rep.passes THEN @ ELSE "evaluated"]

\* The hook of an evaluate job (handle_evaluate_complete): it reads the version and
\* builds its report, and applies it later.  When it raises the job ends as well.
EvaluateReads ==
    /\ schema # None /\ hook = None /\ MoreReports
    /\ \E ev \in Available :
         /\ \E i \in DOMAIN ev, q \in schema.questions : ev[i].expected[q] # NoLabel
         /\ hook' = [status |-> schema.status, report |-> Report(ev, schema.temps)]
    /\ reports' = reports + 1
    /\ UNCHANGED <<author, schema, evidence, cal, prom, use>>
EvaluateEnds(applied) ==
    /\ hook # None
    /\ schema' = IF applied THEN Applied(hook.report, hook.status) ELSE schema
    /\ evidence' = evidence \cup {hook.report.ev}
    /\ hook' = None
    /\ UNCHANGED <<author, cal, prom, reports, use>>

\* The thread of laya_calibrate, for any evaluate job that ended: temperatures
\* fitted on part of its evidence are written, then the report built again on all
\* of it is applied, unless a transaction raises or the process dies.
CalibrateTemps ==
    /\ schema # None /\ cal = None /\ MoreReports
    /\ \E ev \in evidence : \E hold \in Holdouts(ev) :
         \E temps \in [schema.questions -> {1, 2}] :
            /\ \A q \in schema.questions : temps[q] \in FitTemperatures(ev, q, hold)
            /\ schema' = [schema EXCEPT !.temps = temps]
            /\ cal' = [status |-> schema.status, report |-> Report(ev, temps)]
    /\ reports' = reports + 1
    /\ UNCHANGED <<author, evidence, hook, prom, use>>
CalibrateEnds(applied) ==
    /\ cal # None
    /\ schema' = IF applied THEN Applied(cal.report, cal.status) ELSE schema
    /\ cal' = None
    /\ UNCHANGED <<author, evidence, hook, prom, reports, use>>

\* laya_promote_schema reads the version and its latest report, and writes later.
PromoteReads ==
    /\ schema # None /\ ~prom
    /\ schema.report # None /\ schema.status # "trusted"
    /\ promotion_problems(schema.report, schema.questions) = {}
    /\ prom' = TRUE
    /\ UNCHANGED <<author, schema, evidence, hook, cal, reports, use>>
PromoteEnds(written) ==
    /\ prom
    /\ schema' = IF written THEN [schema EXCEPT !.status = "trusted"] ELSE schema
    /\ prom' = FALSE
    /\ UNCHANGED <<author, evidence, hook, cal, reports, use>>

----------------------------------------------------------------------------
(* Decisions.                                                              *)

\* to_item_result and normalize_answer with the temperatures and thresholds given.
\* The status compares the confidence itself with the threshold; an unverified
\* answer is sent to review by the confidence as it is shown, rounded.
Rounded(confidence) == IF confidence % 2 = 1 THEN confidence + 1 ELSE confidence
ThresholdOf(q, thresholds) == IF q \in DOMAIN thresholds THEN thresholds[q] ELSE DefaultThreshold
\* (Mutant: the status ignores the temperature.)
ItemResultRaw(answers, temps, thresholds, unverified) ==
    LET low(q) == answers[q].confidence < 2 * ThresholdOf(q, thresholds)
    IN  [review |-> {q \in DOMAIN answers : low(q)},
         status |-> [q \in DOMAIN answers |-> IF unverified THEN "unverified"
                                              ELSE IF low(q) THEN "needs_review" ELSE "decided"]]
to_item_result(answers, temps, thresholds, unverified) ==
    LET confidence(q) == apply_temperature(answers[q].confidence, temps[q])
        low(q) == (IF unverified THEN Rounded(confidence(q)) ELSE confidence(q)) < 2 * ThresholdOf(q, thresholds)
    IN  [review |-> {q \in DOMAIN answers : low(q)},
         status |-> [q \in DOMAIN answers |-> IF unverified THEN "unverified"
                                              ELSE IF low(q) THEN "needs_review" ELSE "decided"]]

\* laya_decide reads the version, then waits for the engine.
DecideReads ==
    /\ schema # None /\ decision = None /\ job = None /\ MayBeUsed
    /\ \E n \in 1..MaxCall : WithinBudget(n, Cardinality(schema.questions), FALSE)
    /\ decision' = [info |-> [status |-> schema.status, temps |-> schema.temps, thresholds |-> schema.thresholds,
                              passed |-> schema.report # None /\ schema.report.passes],
                    result |-> None]
    /\ UNCHANGED <<author, schema, work, job, reader, sample>>

Unverified(info) == info.status # "trusted"
DecideReturns ==
    /\ decision # None /\ decision.result = None
    /\ \E answers \in Answers[schema.questions] :
         decision' = [decision EXCEPT !.result =
             to_item_result(answers, decision.info.temps, decision.info.thresholds, Unverified(decision.info))]
    /\ UNCHANGED <<author, schema, work, job, reader, sample>>

\* The engine is busy, or does not answer in time.
DecideRaises ==
    /\ decision # None /\ decision.result = None
    /\ decision' = None
    /\ UNCHANGED <<author, schema, work, job, reader, sample>>

----------------------------------------------------------------------------
(* The batch job and its readers.  An item is pending, failed or answered. *)

Pending == [state |-> "pending"]
Failed == [state |-> "failed"]
Done(items) == {i \in DOMAIN items : items[i].state = "done"}
Finished == job.cancelled \/ \A i \in DOMAIN job.items : job.items[i] # Pending

\* laya_classify_batch with the version, or with its questions alone; they passed
\* validate when they were saved.
SubmitBatch ==
    /\ schema # None /\ job = None /\ MayBeUsed
    /\ Cardinality(schema.questions) <= MaxQuestions
    /\ \E n \in 1..MaxItems, bySchema \in BOOLEAN :
         job' = [bySchema |-> bySchema, cancelled |-> FALSE, items |-> [i \in 1..n |-> Pending]]
    /\ decision' = None
    /\ UNCHANGED <<author, schema, work, reader, sample>>

ItemEnds ==
    /\ job # None /\ ~job.cancelled
    /\ \E i \in DOMAIN job.items :
         /\ job.items[i] = Pending
         /\ \/ job' = [job EXCEPT !.items[i] = Failed]
            \/ \E answers \in Answers[schema.questions] :
                 job' = [job EXCEPT !.items[i] = [state |-> "done", answers |-> answers]]
    /\ UNCHANGED <<author, schema, work, decision, reader, sample>>

CancelBatch ==
    /\ job # None /\ ~Finished
    /\ job' = [job EXCEPT !.cancelled = TRUE]
    /\ UNCHANGED <<author, schema, work, decision, reader, sample>>

\* The temperatures and thresholds a reader applies: those of the version as it
\* is now, or none for a job without a schema.
Reading == IF job.bySchema THEN [temps |-> schema.temps, thresholds |-> schema.thresholds]
           ELSE [temps |-> [q \in schema.questions |-> 1], thresholds |-> Empty]
\* laya_job_results never says that a schema is unverified.
ItemOf(i, info) == to_item_result(job.items[i].answers, info.temps, info.thresholds, FALSE)

\* JobService._matches; a filter has a flag, at most one question and at most one
\* label asked for, which needs the question (here a choice).
Matches(i, info, f) ==
    /\ f.review => IF f.question # {} THEN f.question \subseteq ItemOf(i, info).review
                   ELSE ItemOf(i, info).review # {}
    /\ f.want # {} => \E q \in f.question \cap DOMAIN job.items[i].answers :
                           Lower(job.items[i].answers[q].key) \in f.want

\* The elements of the finite set S as the relation R orders them.
InOrder(s, S, R) == Range(s) = S /\ \A a, b \in DOMAIN s : a < b => <<s[a], s[b]>> \in R
Sorted(S, R) == CHOOSE s \in [1..Cardinality(S) -> S] : InOrder(s, S, R)
Before(S) == {p \in S \X S : p[1] < p[2]}

\* JobService.results: the matching items in index order, and a slice of them.
Matching(info, f) == {i \in Done(job.items) : Matches(i, info, f)}
Matched(info, f) == Sorted(Matching(info, f), Before(Matching(info, f)))
Page(matched, offset) == SubSeq(matched, offset + 1, AtMost(offset + PageSize, Len(matched)))
\* (Mutant: the next page starts one item late.)
NextOffsetLate(matched, offset) ==
    IF offset + PageSize < Len(matched) THEN offset + PageSize + 1 ELSE -1
\* (Mutant: a page with one item after it counts as the last.)
NextOffsetStops(matched, offset) ==
    IF offset + PageSize + 1 < Len(matched) THEN offset + PageSize ELSE -1
NextOffset(matched, offset) == IF offset + PageSize < Len(matched) THEN offset + PageSize ELSE -1

\* laya_job_results reads the job and the version, then the results; the client
\* passes next_offset on until there is none.  finished: the job was when it made its
\* first call; kept: the version was the same in every call; there: the items done
\* when it made the first one.
ReadVersion ==
    /\ job # None
    /\ \/ reader.pc = "idle" /\ \E f \in Filters :
            reader' = [reader EXCEPT !.pc = "results", !.filter = f, !.info = Reading,
                                         !.finished = Finished, !.there = Done(job.items)]
       \/ reader.pc = "next" /\
            reader' = [reader EXCEPT !.pc = "results", !.info = Reading, !.kept = @ /\ reader.info = Reading]
    /\ sample' = NoSample
    /\ UNCHANGED <<author, schema, work, decision, job>>
ReadPage ==
    /\ reader.pc = "results"
    /\ \E matched \in {Matched(reader.info, reader.filter)} :
         LET page == Page(matched, reader.offset)
             next == NextOffset(matched, reader.offset)
         IN  reader' = [reader EXCEPT !.got = @ \o page, !.pc = IF next = -1 THEN "done" ELSE "next",
                           !.offset = IF next = -1 THEN @ ELSE next]
    /\ UNCHANGED <<author, schema, work, decision, job, sample>>

\* laya_sample_for_labeling: the least confident items, random ones, or half of
\* each.  Of the job's tools only the results of the last one are remembered.
Confidence(i) ==
    Min({Rounded(apply_temperature(job.items[i].answers[q].confidence, Reading.temps[q])) : q \in schema.questions})
LessConfident(S) ==
    {p \in S \X S : \/ Confidence(p[1]) < Confidence(p[2])
                    \/ Confidence(p[1]) = Confidence(p[2]) /\ p[1] < p[2]}
ByConfidence == Sorted(Done(job.items), LessConfident(Done(job.items)))
\* (Mutant: the random half is drawn from all items.)
RestAll(order, k) == order
Rest(order, k) == SubSeq(order, k + 1, Len(order))
Sample(n, strategy) ==
    /\ job # None /\ Done(job.items) # {}
    /\ \E order \in {ByConfidence} :
         LET m == AtMost(n, Len(order))
             k == CASE strategy = "uncertain" -> m [] strategy = "random" -> 0 [] OTHER -> (m + 1) \div 2
         IN  \E drawn \in kSubset(AtMost(m - k, Len(Rest(order, k))), Range(Rest(order, k))) :
                sample' = [asked |-> n, there |-> Done(job.items),
                           items |-> SubSeq(order, 1, k) \o Sorted(drawn, Before(drawn))]
    /\ reader' = Closed
    /\ UNCHANGED <<author, schema, work, decision, job>>

Next ==
    \/ LoadOrUnload \/ Validate \/ Save
    \/ \E n \in 0..MaxCall, big \in BOOLEAN : Classify(n, big)
    \/ EvaluateReads \/ CalibrateTemps \/ PromoteReads
    \/ \E ok \in BOOLEAN : EvaluateEnds(ok) \/ CalibrateEnds(ok) \/ PromoteEnds(ok)
    \/ DecideReads \/ DecideReturns \/ DecideRaises
    \/ SubmitBatch \/ ItemEnds \/ CancelBatch \/ ReadVersion \/ ReadPage
    \/ \E n \in 1..MaxItems, strategy \in {"mixed", "uncertain", "random"} : Sample(n, strategy)
Spec == Init /\ [][Next]_vars

----------------------------------------------------------------------------
(* Properties.                                                             *)

\* A set that laya_validate_questions called valid, with the checkpoint loaded, is
\* accepted by laya_save_schema and never refused or raised on when it is used,
\* whatever is loaded then; and a set it called invalid is not saved while the
\* checkpoint is loaded.  The tools look at each question alone or at the set, and
\* only laya itself lays out the input.  This is about english, the checkpoint that
\* is validated, not about one that an item is routed to.
ValidMeansUsable ==
    author # None /\ author.told.asked /\ author.told.loaded =>
        IF author.told.valid
        THEN /\ author.used.asked => author.used.outcome \notin {"refused", "unanswerable"}
             /\ author.saved.asked => ~author.saved.refused
        ELSE author.saved.asked /\ author.saved.loaded => author.saved.refused

\* A set saved without a word about its token budget is read in full: no option
\* and no instruction is cut anywhere, neither by the cap of an option, nor by the
\* common cut, nor by the end of the input of the checkpoint that was validated
\* (english; an item routed to another one may be cut without a word).
FullyRead(q) ==
    /\ \A i \in DOMAIN q.tokens : Lengths(q)[i] = 1 + q.tokens[i]
    /\ option_layout(q).kept = q.instructions
    /\ 2 + q.instructions + SumFunction(Lengths(q)) + 1 <= InputMax
NoSilentCut ==
    author # None /\ author.saved.asked /\ ~author.saved.refused =>
        \/ author.saved.warnings \cap {"not checked", "options cut", "long option", "instructions cut", "little room"} # {}
        \/ \A x \in DOMAIN author.set : FullyRead(author.set[x])

\* The threshold of a question is the lowest one on the grid that enough answers
\* of the latest report clear with the target accuracy, and is missing only when
\* there is none: that the loop stops where too few answers are left loses nothing,
\* and no hook or calibration that ran beside this one left its own thresholds behind.
ThresholdIsLowest ==
    schema # None /\ schema.report # None =>
        \A q \in schema.questions :
            LET ev == schema.report.ev
                clears(t) == {i \in Scored(ev, q) :
                                apply_temperature(ev[i].answer[q].confidence, schema.report.temps[q]) >= 2 * t - 1}
                good == {t \in GridLow..GridHigh :
                            /\ Cardinality(clears(t)) >= MinAnswers
                            /\ 100 * Cardinality(clears(t) \cap Correct(ev, q)) >= TargetOf[q] * Cardinality(clears(t))}
            IN  IF good = {} THEN q \notin DOMAIN schema.thresholds
                ELSE q \in DOMAIN schema.thresholds /\ schema.thresholds[q] = Min(good)

\* The scored answers of the latest report that laya_decide returns as 'decided',
\* and whether enough of them are right.
Decided(q) ==
    {i \in Scored(schema.report.ev, q) :
        to_item_result(schema.report.ev[i].answer, schema.temps, schema.thresholds, FALSE).status[q] = "decided"}
ReachesTarget(q) ==
    /\ Cardinality(Decided(q)) >= MinAnswers
    /\ 100 * Cardinality(Decided(q) \cap Correct(schema.report.ev, q)) >= TargetOf[q] * Cardinality(Decided(q))
\* The version is trusted on the report it has, with the temperatures of that report.
Settled ==
    /\ schema # None /\ schema.status = "trusted" /\ schema.report.passes
    /\ schema.temps = schema.report.temps

\* On the evidence of its report the answers that a trusted version decides reach
\* the target of their question, after any number of evaluations and calibrations,
\* unless a promotion or a calibration was overtaken (library_promotion,
\* library_temperatures) or a confidence lies just below a threshold (decisions_tolerance).
DecidedMeetsTarget ==
    Settled =>
        \A q \in schema.questions :
            (\A i \in Scored(schema.report.ev, q) : schema.report.ev[i].answer[q].confidence % 2 = 0) => ReachesTarget(q)

\* "confidence: ... what `laya_decide` compares against a threshold" (evaluation.py:6-8):
\* what the report counted at the threshold is what laya_decide decides, so that the
\* decided answers reach the target.  The report allows _TOL and laya_decide does not.
MeasuredAsDecided == Settled => \A q \in schema.questions : ReachesTarget(q)

\* A report that passes has nothing left for promotion_problems to object to, and
\* a refusal always names what is wrong: the two implementations of the targets agree.
TargetsAgree ==
    schema # None /\ schema.report # None =>
        LET problems == promotion_problems(schema.report, schema.questions) IN
        (schema.report.passes <=> problems = {}) /\ <<"report">> \notin problems

\* "'decided': confidence is at or above the threshold measured for that question"
\* (decide.py:170), never the default threshold.  A promotion that a failing report
\* overtook leaves a trusted version without thresholds.
DecidedRestsOnReport ==
    decision # None /\ decision.result # None =>
        \A q \in DOMAIN decision.result.status :
            decision.result.status[q] = "decided" => q \in DOMAIN decision.info.thresholds

\* The items that a reader's filter asks for.
Wanted(i) ==
    LET asked == IF reader.filter.question = {} THEN schema.questions ELSE reader.filter.question IN
    /\ reader.filter.review => ItemOf(i, reader.info).review \cap asked # {}
    /\ reader.filter.want # {} =>
          \E q \in asked \cap schema.questions : Lower(job.items[i].answers[q].key) \in reader.filter.want

\* A client that follows next_offset through a finished job gets every item that
\* matches its filter, once and in index order; the version may change meanwhile
\* unless the filter asks for what needs review.
PagesComplete ==
    reader.pc = "done" /\ reader.finished /\ (reader.kept \/ ~reader.filter.review) =>
        LET wanted == {i \in Done(job.items) : Wanted(i)} IN InOrder(reader.got, wanted, Before(wanted))

\* Nor does a client that reads while the job runs miss an item that was done when
\* it began: items that end later only move the rest of the list further on.
PagesMissNothing ==
    reader.pc = "done" /\ (reader.kept \/ ~reader.filter.review) =>
        \A i \in reader.there : Wanted(i) => i \in Range(reader.got)

\* A labelling sample has as many items as were asked for and are there, none
\* twice, and what it suggests for an item reads back, once it is saved as an
\* expected value, as the value the evaluation will compare with, where the label
\* has no blanks around it.
ReadsAsPredicted(q, value) == coerce_expected(q, value) = canonical_prediction(q, value)
Suggested(a, q) == predicted_value(q, job.items[sample.items[a]].answers[q])
SampleUsable ==
    /\ Len(sample.items) = AtMost(sample.asked, Cardinality(sample.there))
    /\ \A a, b \in DOMAIN sample.items : sample.items[a] = sample.items[b] => a = b
    /\ \A a \in DOMAIN sample.items : \A q \in schema.questions :
         (TypeOf[q] = "choice" => Strip(Suggested(a, q).v) = Suggested(a, q).v) => ReadsAsPredicted(q, Suggested(a, q))

\* "`suggested_expected` pre-filled in dataset format" (workbench.py:549): every
\* suggestion can be read as an expected value.  coerce_expected strips the value
\* and not the labels, so a label with a blank around it is never found.
SuggestionsReadable ==
    \A a \in DOMAIN sample.items : \A q \in schema.questions : coerce_expected(q, Suggested(a, q)) # Unreadable
=============================================================================
