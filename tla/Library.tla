------------------------------ MODULE Library -------------------------------
(***************************************************************************)
(* The schema library and its workbench: the versions of one schema, one   *)
(* labelled dataset, evaluation reports, and the tools and hooks that      *)
(* change them (tools/library.py, tools/workbench.py, workbench/hooks.py   *)
(* and the schema, dataset and report parts of db/repo.py).                *)
(*                                                                         *)
(* Three kinds of threads meet in the tables.  Tools are coroutines of one *)
(* event loop and call Repo directly, so a tool that has not reached an    *)
(* await is alone on the loop, but not in the database: completion hooks   *)
(* run in job worker threads and the second half of laya_calibrate in a    *)
(* thread of its own.  Each Repo method is one transaction and one step.   *)
(*                                                                         *)
(* An example is represented by its state; its labels go with it.  A set   *)
(* of temperatures is represented by the number of the fit that made it,   *)
(* 0 when there is none.  Whether a report passes its targets is a choice. *)
(***************************************************************************)
EXTENDS Integers, Sequences, FiniteSets

CONSTANTS
    States,       \* the states examples are made of
    Questions,    \* the question sets a version can have
    Calibrators,  \* threads that run the second half of laya_calibrate
    MaxVersions,  \* bound: versions of the schema
    MaxExamples,  \* bound: examples of the dataset
    MaxEdits,     \* bound: calls of laya_save_dataset
    MaxJobs,      \* bound: evaluate jobs
    MaxReports,   \* bound: reports
    MaxFits,      \* bound: temperature fits
    MaxCrashes    \* bound: crashes of the server process

ASSUME LibraryAssumption ==
    /\ MaxVersions \in Nat /\ MaxExamples \in Nat /\ MaxEdits \in Nat
    /\ MaxJobs \in Nat /\ MaxReports \in Nat /\ MaxFits \in Nat /\ MaxCrashes \in Nat

VARIABLES
    ver,      \* sequence: the rows of schema_versions
    dataset,  \* sequence: the states of the dataset's examples
    report,   \* sequence: the reports table
    ejob,     \* sequence: the evaluate jobs
    hook,     \* per job, its completion hook
    cal,      \* per calibrator, its laya_calibrate call
    prom,     \* the laya_promote_schema call that is between its read and its write
    edits,    \* number of dataset edits so far
    fits,     \* number of temperature fits so far
    crashes   \* number of crashes so far

vars == <<ver, dataset, report, ejob, hook, cal, prom, edits, fits, crashes>>
tools == <<cal, prom>>
history == <<edits, fits, crashes>>

Statuses == {"draft", "evaluated", "trusted"}
Versions == [questions : Questions, status : Statuses, temps : Nat, thresholds : Nat, latest : Nat]
Reports == [ver : Nat, job : Nat, temps : Nat, examples : Seq(States), passes : BOOLEAN]
\* ref: 0 while there is no result_ref, -1 when it is the report_error.
JobRows == [status : {"running", "completed", "failed"}, ver : Nat,
            items : Seq(States), ref : Int, error : BOOLEAN]
HookPCs == {"idle", "examples", "save", "apply", "ref", "raised", "complete"}
CalPCs == {"idle", "temps", "save", "apply"}
\* What a thread has read and written so far: the status and the temperatures of
\* the version, the examples, and the number of the report it saved.
Hooks == [pc : HookPCs, status : Statuses, temps : Nat, examples : Seq(States),
          rid : 0..MaxReports, failed : BOOLEAN]
Calibrations == [pc : CalPCs, ver : Nat, job : Nat, status : Statuses, temps : Nat,
                 examples : Seq(States), rid : 0..MaxReports]

Draft(q) == [questions |-> q, status |-> "draft", temps |-> 0, thresholds |-> 0, latest |-> 0]
NoHook == [pc |-> "idle", status |-> "draft", temps |-> 0, examples |-> <<>>, rid |-> 0,
           failed |-> FALSE]
NoCal == [pc |-> "idle", ver |-> 0, job |-> 0, status |-> "draft", temps |-> 0,
          examples |-> <<>>, rid |-> 0]
NoPromotion == 0

Init ==
    /\ ver = <<>> /\ dataset = <<>> /\ report = <<>> /\ ejob = <<>>
    /\ hook = [j \in 1..MaxJobs |-> NoHook]
    /\ cal = [c \in Calibrators |-> NoCal]
    /\ prom = NoPromotion
    /\ edits = 0 /\ fits = 0 /\ crashes = 0

----------------------------------------------------------------------------
(* Shared parts.                                                           *)

\* No tool is between two of its transactions on the event loop.
LoopFree == prom = NoPromotion

\* evaluated_examples: the first n examples of the dataset, provided that
\* there are as many and their states are those the job was submitted with
\* (its fingerprint).
Evaluated(j) == SubSeq(dataset, 1, Len(ejob[j].items))
\* (Mutant: no comparison of the states.)
DatasetChangedSize(j) == Len(dataset) < Len(ejob[j].items)
DatasetChanged(j) == Len(dataset) < Len(ejob[j].items) \/ Evaluated(j) # ejob[j].items

SavedReport(v, j, temps, examples, passes) ==
    Append(report, [ver |-> v, job |-> j, temps |-> temps, examples |-> examples,
                    passes |-> passes])

\* apply_report: status is the one of the schema the caller read or updated
\* before it built the report.
Applied(v, status, rid) ==
    [ver EXCEPT ![v].status = IF status = "trusted" /\ report[rid].passes THEN @ ELSE "evaluated",
                ![v].thresholds = report[rid].temps,
                ![v].latest = rid]

----------------------------------------------------------------------------
(* Tools on the event loop.                                                *)

\* (Mutant: a new version inherits what was measured on the previous one.)
SaveSchemaInherits(q) ==
    /\ LoopFree /\ Len(ver) < MaxVersions
    /\ ver' = Append(ver, IF ver = <<>> THEN Draft(q) ELSE [ver[Len(ver)] EXCEPT !.questions = q])
    /\ UNCHANGED <<dataset, report, ejob, hook, tools, history>>
SaveSchema(q) ==
    /\ LoopFree /\ Len(ver) < MaxVersions
    /\ ver' = Append(ver, Draft(q))
    /\ UNCHANGED <<dataset, report, ejob, hook, tools, history>>

SaveDataset(examples, append) ==
    /\ LoopFree /\ edits < MaxEdits
    /\ examples # <<>>
    /\ dataset' = IF append THEN dataset \o examples ELSE examples
    /\ Len(dataset') <= MaxExamples
    /\ edits' = edits + 1
    /\ UNCHANGED <<ver, report, ejob, hook, tools, fits, crashes>>

\* The job is inserted in a thread after the dataset was read, from what was
\* read: an edit in between is as good as one right after.
Evaluate(v) ==
    /\ LoopFree /\ Len(ejob) < MaxJobs
    /\ dataset # <<>>
    /\ ejob' = Append(ejob, [status |-> "running", ver |-> v, items |-> dataset,
                             ref |-> 0, error |-> FALSE])
    /\ UNCHANGED <<ver, dataset, report, hook, tools, history>>

\* laya_calibrate up to its worker thread.  The job is the one of the latest
\* report or any other the caller names.
Calibrate(c, v, j) ==
    /\ LoopFree /\ cal[c].pc = "idle"
    /\ ejob[j].status = "completed"
    /\ ver[ejob[j].ver].questions = ver[v].questions
    /\ ~DatasetChanged(j)
    /\ cal' = [cal EXCEPT ![c] = [NoCal EXCEPT !.pc = "temps", !.ver = v, !.job = j,
                                               !.examples = Evaluated(j)]]
    /\ UNCHANGED <<ver, dataset, report, ejob, hook, prom, history>>

\* (Mutant: a promotion that only asks for an evaluation.)
PromotableUnread(v) == ver[v].latest # 0
\* promotion_problems finds none exactly when the report passes its targets.
Promotable(v) == ver[v].latest # 0 /\ report[ver[v].latest].passes
PromoteRead(v) ==
    /\ LoopFree
    /\ ver[v].status # "trusted" /\ Promotable(v)
    /\ prom' = v
    /\ UNCHANGED <<ver, dataset, report, ejob, hook, cal, history>>
PromoteWrite ==
    /\ ~LoopFree
    /\ ver' = [ver EXCEPT ![prom].status = "trusted"]
    /\ prom' = NoPromotion
    /\ UNCHANGED <<dataset, report, ejob, hook, cal, history>>

----------------------------------------------------------------------------
(* The rest of laya_calibrate, in its thread.                              *)

CalibrateTemps(c) ==
    /\ cal[c].pc = "temps" /\ fits < MaxFits
    /\ fits' = fits + 1
    /\ ver' = [ver EXCEPT ![cal[c].ver].temps = fits']
    /\ cal' = [cal EXCEPT ![c].pc = "save", ![c].temps = fits',
                          ![c].status = ver[cal[c].ver].status]
    /\ UNCHANGED <<dataset, report, ejob, hook, prom, edits, crashes>>
CalibrateSave(c, passes) ==
    /\ cal[c].pc = "save" /\ Len(report) < MaxReports
    /\ report' = SavedReport(cal[c].ver, cal[c].job, cal[c].temps, cal[c].examples, passes)
    /\ cal' = [cal EXCEPT ![c].pc = "apply", ![c].rid = Len(report')]
    /\ UNCHANGED <<ver, dataset, ejob, hook, prom, history>>
CalibrateApply(c) ==
    /\ cal[c].pc = "apply"
    /\ ver' = Applied(cal[c].ver, cal[c].status, cal[c].rid)
    /\ cal' = [cal EXCEPT ![c] = NoCal]
    /\ UNCHANGED <<dataset, report, ejob, hook, prom, history>>
\* One of the three transactions raises and the tool call fails.
CalibrateFails(c) ==
    /\ cal[c].pc # "idle"
    /\ cal' = [cal EXCEPT ![c] = NoCal]
    /\ UNCHANGED <<ver, dataset, report, ejob, hook, prom, history>>

----------------------------------------------------------------------------
(* The job service and the hook of an evaluate job.                        *)

\* Every item failed, or the job was cancelled before it was claimed: it ends
\* without its hook.
JobFails(j) ==
    /\ ejob[j].status = "running" /\ hook[j].pc = "idle"
    /\ ejob' = [ejob EXCEPT ![j].status = "failed"]
    /\ UNCHANGED <<ver, dataset, report, hook, tools, history>>

\* handle_evaluate_complete: get_schema, then the dataset, the report, ...
HookSchema(j) ==
    /\ ejob[j].status = "running" /\ hook[j].pc = "idle"
    /\ LET s == ver[ejob[j].ver]
       IN hook' = [hook EXCEPT ![j] = [NoHook EXCEPT !.pc = "examples", !.status = s.status,
                                                     !.temps = s.temps]]
    /\ UNCHANGED <<ver, dataset, report, ejob, tools, history>>
HookExamples(j) ==
    /\ hook[j].pc = "examples"
    /\ hook' = [hook EXCEPT ![j] =
                   IF DatasetChanged(j) THEN [@ EXCEPT !.pc = "raised"]
                   ELSE [@ EXCEPT !.pc = "save", !.examples = Evaluated(j)]]
    /\ UNCHANGED <<ver, dataset, report, ejob, tools, history>>
HookSave(j, passes) ==
    /\ hook[j].pc = "save" /\ Len(report) < MaxReports
    /\ report' = SavedReport(ejob[j].ver, j, hook[j].temps, hook[j].examples, passes)
    /\ hook' = [hook EXCEPT ![j].pc = "apply", ![j].rid = Len(report')]
    /\ UNCHANGED <<ver, dataset, ejob, tools, history>>
HookApply(j) ==
    /\ hook[j].pc = "apply"
    /\ ver' = Applied(ejob[j].ver, hook[j].status, hook[j].rid)
    /\ hook' = [hook EXCEPT ![j].pc = "ref"]
    /\ UNCHANGED <<dataset, report, ejob, tools, history>>
\* (Mutant: the job refers to the newest report.)
HookRefNewest(j) ==
    /\ hook[j].pc = "ref"
    /\ ejob' = [ejob EXCEPT ![j].ref = Len(report)]
    /\ hook' = [hook EXCEPT ![j].pc = "complete"]
    /\ UNCHANGED <<ver, dataset, report, tools, history>>
HookRef(j) ==
    /\ hook[j].pc = "ref"
    /\ ejob' = [ejob EXCEPT ![j].ref = hook[j].rid]
    /\ hook' = [hook EXCEPT ![j].pc = "complete"]
    /\ UNCHANGED <<ver, dataset, report, tools, history>>

\* A transaction of the hook raises.
HookFails(j) ==
    /\ hook[j].pc \in {"examples", "save", "apply", "ref"}
    /\ hook' = [hook EXCEPT ![j].pc = "raised"]
    /\ UNCHANGED <<ver, dataset, report, ejob, tools, history>>
\* _on_evaluate_complete records the error on the job, or fails to, and raises;
\* _run_hooks keeps it for complete_job.
HookRaised(j) ==
    /\ hook[j].pc = "raised"
    /\ \E ref \in {-1, ejob[j].ref} : ejob' = [ejob EXCEPT ![j].ref = ref]
    /\ hook' = [hook EXCEPT ![j].pc = "complete", ![j].failed = TRUE]
    /\ UNCHANGED <<ver, dataset, report, tools, history>>
CompleteJob(j) ==
    /\ hook[j].pc = "complete"
    /\ ejob' = [ejob EXCEPT ![j].status = "completed", ![j].error = hook[j].failed]
    /\ hook' = [hook EXCEPT ![j] = NoHook]
    /\ UNCHANGED <<ver, dataset, report, tools, history>>

\* All threads are gone; the next start releases the claims of the running
\* jobs, so that their hooks run again.
Crash ==
    /\ crashes < MaxCrashes
    /\ crashes' = crashes + 1
    /\ hook' = [j \in 1..MaxJobs |-> NoHook]
    /\ cal' = [c \in Calibrators |-> NoCal]
    /\ prom' = NoPromotion
    /\ UNCHANGED <<ver, dataset, report, ejob, edits, fits>>

----------------------------------------------------------------------------
Hook(j) ==
    \/ HookSchema(j) \/ HookExamples(j) \/ HookApply(j) \/ HookRef(j)
    \/ \E passes \in BOOLEAN : HookSave(j, passes)
    \/ HookFails(j) \/ HookRaised(j) \/ CompleteJob(j)
Calibration(c) ==
    \/ \E v \in DOMAIN ver, j \in DOMAIN ejob : Calibrate(c, v, j)
    \/ CalibrateTemps(c) \/ CalibrateApply(c) \/ CalibrateFails(c)
    \/ \E passes \in BOOLEAN : CalibrateSave(c, passes)
Next ==
    \/ \E q \in Questions : SaveSchema(q)
    \/ \E n \in 1..MaxExamples : \E s \in [1..n -> States], append \in BOOLEAN :
          SaveDataset(s, append)
    \/ \E v \in DOMAIN ver : Evaluate(v) \/ PromoteRead(v)
    \/ PromoteWrite
    \/ \E j \in DOMAIN ejob : JobFails(j) \/ Hook(j)
    \/ \E c \in Calibrators : Calibration(c)
    \/ Crash

Spec == Init /\ [][Next]_vars
----------------------------------------------------------------------------
(* Properties.                                                             *)

TypeOK ==
    /\ ver \in Seq(Versions) /\ dataset \in Seq(States) /\ report \in Seq(Reports)
    /\ ejob \in Seq(JobRows)
    /\ Len(ejob) <= MaxJobs /\ Len(report) <= MaxReports
    /\ hook \in [1..MaxJobs -> Hooks]
    /\ cal \in [Calibrators -> Calibrations]
    /\ prom \in 0..Len(ver)
    /\ edits \in 0..MaxEdits /\ fits \in 0..MaxFits /\ crashes \in 0..MaxCrashes

\* Every report compares answer k with the labels of the state that was
\* answered k-th, although the dataset may be replaced or extended between the
\* submission of the job, the hook and a calibration months later
\* (evaluated_examples, dataset_fingerprint).
AnswersMeetTheirLabels ==
    \A k \in DOMAIN report : report[k].examples = ejob[report[k].job].items

\* What a version carries was measured on that version: its latest report is
\* one about it, its thresholds are the ones of that report, and it is a draft
\* exactly while it has none ("they belong to the version they were fit on",
\* repo.py:256).
EvidenceIsOwn ==
    \A v \in DOMAIN ver :
        /\ ver[v].status = "draft" <=> ver[v].latest = 0
        /\ ver[v].latest # 0 => /\ ver[v].latest \in DOMAIN report
                                /\ report[ver[v].latest].ver = v
                                /\ ver[v].thresholds = report[ver[v].latest].temps

\* No version is trusted without a report about it that passed its targets,
\* whatever hooks, calibrations and crashes happened around the promotion.
TrustedOnEvidence ==
    \A v \in DOMAIN ver : ver[v].status = "trusted" =>
        \E k \in DOMAIN report : report[k].ver = v /\ report[k].passes

\* The report an evaluate job leads its caller to is the one about that job and
\* version, however many hooks and calibrations ran at the same time; a
\* completed job without a report carries an error.
RefIsOwnReport ==
    \A j \in DOMAIN ejob :
        /\ ejob[j].ref > 0 => /\ ejob[j].ref \in DOMAIN report
                              /\ report[ejob[j].ref].job = j
                              /\ report[ejob[j].ref].ver = ejob[j].ver
        /\ ejob[j].status = "completed" => ejob[j].ref > 0 \/ ejob[j].error

\* "Refuses unless that version's latest evaluation report meets its targets"
\* (library.py:190): the latest report of a trusted version passes.
TrustedMeetsTargets ==
    \A v \in DOMAIN ver : ver[v].status = "trusted" => report[ver[v].latest].passes

\* "A trusted version stays trusted while its new report still passes" (hooks.py:97):
\* trust is not taken away by a report that passes.  The hook goes by the status it
\* read before it built the report, and a promotion may have come in between.
TrustIsKept ==
    [][\A v \in DOMAIN ver : ver[v].status = "trusted" /\ ver'[v].status # "trusted" =>
           ~report'[ver'[v].latest].passes]_vars

\* "The report is rebuilt on all examples with calibration applied, which refreshes
\* the recommended thresholds" (workbench.py:399-400): once the thresholds of a version
\* were measured with its temperatures, only other temperatures change that.  A hook
\* that read the version before the calibration puts its own thresholds back.
ThresholdsStayCalibrated ==
    [][\A v \in DOMAIN ver :
           ver[v].latest # 0 /\ ver[v].thresholds = ver[v].temps /\ ver'[v].temps = ver[v].temps
               => ver'[v].thresholds = ver'[v].temps]_vars
=============================================================================
