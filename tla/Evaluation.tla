----------------------------- MODULE Evaluation -----------------------------
(***************************************************************************)
(* From labelled examples and stored answers to a report and thresholds:   *)
(* workbench/evaluation.py, workbench/calibration.py and the answers of    *)
(* engine/answers.py they are computed from.                               *)
(*                                                                         *)
(* Thresholds are counted in steps of the threshold grid, from GridLow to  *)
(* GridHigh, and confidences in half steps: 2 * t is a confidence of t and *)
(* above, 2 * t - 1 one that falls short of t by less than _TOL, as 1 - p  *)
(* does for many a yes/no answer (1 - 0.34 = 0.6599999999999999).  An      *)
(* answer is the key it predicts and the probability of that key.  An      *)
(* expected value is what the dataset's JSON holds: a kind and a value,    *)
(* floats in halves.                                                       *)
(***************************************************************************)
EXTENDS Integers, Sequences, FiniteSets, FiniteSetsExt

CONSTANTS
    Top,          \* probability 1
    GridLow,      \* the first of THRESHOLD_GRID
    GridHigh,     \* the last of THRESHOLD_GRID
    MinAnswers,   \* MIN_ANSWERS_AT_THRESHOLD
    MinExamples,  \* effective_min_examples
    MinFit,       \* MIN_FIT_SAMPLES
    TypeOf,       \* [question id -> "choice", "score" or "noul"]
    LabelsOf,     \* [question id -> its labels, in order]
    TargetOf      \* [question id -> its target accuracy in percent]

ASSUME EvaluationAssumption ==
    /\ Top \in Nat /\ GridLow \in 1..Top /\ GridHigh \in GridLow..Top
    /\ MinAnswers \in Nat \ {0} /\ MinExamples \in Nat \ {0} /\ MinFit \in Nat \ {0}
    /\ \A q \in DOMAIN TargetOf : TargetOf[q] \in 0..100

----------------------------------------------------------------------------
(* Answers and expected values.                                            *)

Unreadable == [kind |-> "unreadable", v |-> 0]
\* lower() and strip(), on the strings there are.
Lower(s) == IF s = "X" THEN "x" ELSE s
Strip(s) == IF s = "z " THEN "z" ELSE s

\* The labels of a choice that are the key in lower case, and the first of them.
LabelsAlike(q, key) == {i \in DOMAIN LabelsOf[q] : Lower(LabelsOf[q][i]) = key}
FirstAlike(q, key) == LabelsOf[q][CHOOSE i \in LabelsAlike(q, key) : \A j \in LabelsAlike(q, key) : i <= j]

\* coerce_expected: the canonical bool, level or label, or a ValueError.  For a choice
\* a number is read as text, and no label here is a number.
AsLevel(q, n) == IF n \in 0..(Len(LabelsOf[q]) - 1) THEN [kind |-> "int", v |-> n] ELSE Unreadable
coerce_expected(q, e) ==
    CASE TypeOf[q] = "noul" ->
            IF e.kind = "bool" THEN e
            ELSE IF e.kind \in {"int", "float"} THEN IF e.v = 0 THEN [kind |-> "bool", v |-> FALSE]
                                                ELSE IF e.v = (IF e.kind = "int" THEN 1 ELSE 2)
                                                     THEN [kind |-> "bool", v |-> TRUE] ELSE Unreadable
            ELSE IF e.kind = "str" /\ Lower(Strip(e.v)) \in {"true", "yes", "1"} THEN [kind |-> "bool", v |-> TRUE]
            ELSE IF e.kind = "str" /\ Lower(Strip(e.v)) \in {"false", "no", "0"} THEN [kind |-> "bool", v |-> FALSE]
            ELSE Unreadable
      [] TypeOf[q] = "score" ->
            IF e.kind = "int" THEN AsLevel(q, e.v)
            ELSE IF e.kind = "float" /\ e.v % 2 = 0 THEN AsLevel(q, e.v \div 2)
            ELSE IF e.kind = "str" /\ Strip(e.v) \in {"0", "1", "2"}
                 THEN AsLevel(q, CHOOSE n \in 0..2 : Strip(e.v) = <<"0", "1", "2">>[n + 1])
            ELSE Unreadable
      [] TypeOf[q] = "choice" ->
            IF e.kind # "str" \/ LabelsAlike(q, Lower(Strip(e.v))) = {} THEN Unreadable
            ELSE [kind |-> "str", v |-> FirstAlike(q, Lower(Strip(e.v)))]

\* predicted_value: the key of the highest probability as a bool, level or label.
predicted_value(q, answer) ==
    CASE TypeOf[q] = "noul" -> [kind |-> "bool", v |-> answer.key]
      [] TypeOf[q] = "score" -> [kind |-> "int", v |-> answer.key]
      [] TypeOf[q] = "choice" -> [kind |-> "str", v |-> answer.key]

\* _canonical_prediction: the first label that differs from the key in case only;
\* unlike coerce_expected it does not strip the key.
canonical_prediction(q, value) ==
    IF TypeOf[q] = "choice" /\ LabelsAlike(q, Lower(value.v)) # {}
    THEN [value EXCEPT !.v = FirstAlike(q, Lower(value.v))] ELSE value

\* apply_temperature: T = 1 changes nothing; any other temperature moves the
\* probabilities, keeping their order: here a softening by one step.
apply_temperature(confidence, T) ==
    IF T = 1 THEN confidence ELSE IF confidence < 2 THEN 0 ELSE confidence - 2

----------------------------------------------------------------------------
(* build_report.  Evidence is a sequence of examples: whether its item has *)
(* a result, and per question the expected value (or none) and the answer. *)

NoLabel == [kind |-> "none", v |-> 0]
Evaluated(ev) == {i \in DOMAIN ev : ev[i].done}
Labelled(ev, q) == {i \in Evaluated(ev) : ev[i].expected[q] # NoLabel}
Scored(ev, q) == {i \in Labelled(ev, q) : coerce_expected(q, ev[i].expected[q]) # Unreadable}
Correct(ev, q) ==
    {i \in Scored(ev, q) :
        coerce_expected(q, ev[i].expected[q]) = canonical_prediction(q, predicted_value(q, ev[i].answer[q]))}
\* The answers that clear a threshold, give or take _TOL.
Clears(ev, q, T, t) == {i \in Scored(ev, q) : apply_temperature(ev[i].answer[q].confidence, T) >= 2 * t - 1}

Reaches(target, right, total) == 100 * right >= target * total

\* recommend_threshold: the loop over the grid stops at the first point that
\* reaches the target, or that too few answers clear.
\* (Mutant: the loop goes on to the last point that reaches the target.)
recommend_last(ev, q, T) ==
    LET reaching == {t \in GridLow..GridHigh :
                        /\ Cardinality(Clears(ev, q, T, t)) >= MinAnswers
                        /\ Reaches(TargetOf[q], Cardinality(Clears(ev, q, T, t) \cap Correct(ev, q)),
                                   Cardinality(Clears(ev, q, T, t)))}
    IN  IF reaching = {} THEN {} ELSE {Max(reaching)}
recommend_threshold(ev, q, T) ==
    LET n(t) == Cardinality(Clears(ev, q, T, t))
        right(t) == Cardinality(Clears(ev, q, T, t) \cap Correct(ev, q))
        stops == {t \in GridLow..GridHigh : n(t) < MinAnswers \/ Reaches(TargetOf[q], right(t), n(t))}
    IN  {t \in stops : n(t) >= MinAnswers /\ \A u \in stops : t <= u}

QuestionMetrics(ev, q, T) ==
    LET thr == recommend_threshold(ev, q, T) IN
    [n |-> Cardinality(Scored(ev, q)), threshold |-> thr, meets |-> thr # {}]

\* The report says which answers and temperatures it was made from (job_id,
\* QuestionMetrics.temperature).
build_report(ev, questions, temps) ==
    LET per == [q \in questions |-> QuestionMetrics(ev, q, temps[q])]
        n == Cardinality(Evaluated(ev))
    IN  [ev |-> ev, temps |-> temps, n |-> n, per |-> per,
         passes |-> /\ questions # {} /\ n >= MinExamples
                    /\ \A q \in questions : per[q].meets /\ per[q].n >= MinExamples]

\* promotion_problems; the last one, "report", is the fallback for a report that
\* does not pass although nothing else is wrong with it.
\* (Mutant: the number of labelled answers of a question is not asked for.)
PromotionProblemsLax(rep, questions) ==
    LET problems == (IF rep.n < MinExamples THEN {<<"examples">>} ELSE {})
                    \cup {<<"question", q>> : q \in {r \in questions : rep.per[r].n = 0 \/ ~rep.per[r].meets}}
    IN  IF problems = {} /\ ~rep.passes THEN {<<"report">>} ELSE problems
promotion_problems(rep, questions) ==
    LET problems == (IF rep.n < MinExamples THEN {<<"examples">>} ELSE {})
                    \cup {<<"question", q>> : q \in {r \in questions :
                              rep.per[r].n = 0 \/ ~rep.per[r].meets \/ rep.per[r].n < MinExamples}}
    IN  IF problems = {} /\ ~rep.passes THEN {<<"report">>} ELSE problems

----------------------------------------------------------------------------
(* fit_schema_temperatures and fit_temperature: the temperatures a split   *)
(* into fit and holdout examples can give a question.  A hit is the very   *)
(* key that was expected, without regard to labels that differ in case.    *)

Holdouts(ev) ==
    LET n == Cardinality(Evaluated(ev)) IN
    kSubset(IF n < 2 THEN 0 ELSE Min({n - 1, Max({1, (3 * n + 5) \div 10})}), Evaluated(ev))
FitTemperatures(ev, q, hold) ==
    LET rows == Scored(ev, q) \ hold
        hits == {i \in rows : coerce_expected(q, ev[i].expected[q]) = predicted_value(q, ev[i].answer[q])}
    IN  IF Cardinality(rows) < MinFit \/ hits = rows \/ hits = {} THEN {1} ELSE {1, 2}
=============================================================================
