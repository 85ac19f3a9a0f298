------------------------------ MODULE Questions -----------------------------
(***************************************************************************)
(* What the server says about a question set before a model answers it:    *)
(* engine/budget.py (structure, option layout, warnings), engine.validate  *)
(* and the two tools that use it while a schema is written.                *)
(*                                                                         *)
(* A question is a record: the type and the kind of criteria it was sent   *)
(* with, the labels in order, the tokens each rendered option takes, the   *)
(* tokens of its instructions (0: they are blank), whether each label is   *)
(* described and whether two labels or descriptions are alike.  A question *)
(* set is a function from question ids.                                    *)
(***************************************************************************)
EXTENDS Integers, Sequences, FiniteSets, Functions

CONSTANTS
    OptionCap,       \* OPTION_TOKEN_CAP
    MinOptionBudget, \* MIN_OPTION_BUDGET
    PerFloor,        \* an option is never cut below this: 4
    HeadFloor,       \* nor the instructions below this: 8
    HeadMax,         \* head_max_len of the checkpoint
    InputMax,        \* max_len of the checkpoint
    MinStateRoom,    \* MIN_STATE_ROOM_WARN
    ManyLabels,      \* MAX_CHOICE_LABELS_WARN
    LongText,        \* MAX_INSTRUCTIONS_CHARS_WARN, in tokens
    MaxQuestions     \* Settings.max_questions

ASSUME QuestionsAssumption ==
    /\ OptionCap \in Nat /\ MinOptionBudget \in Nat /\ PerFloor \in Nat /\ HeadFloor \in Nat
    /\ HeadMax \in Nat /\ InputMax \in Nat /\ MinStateRoom \in Nat \ {0} /\ ManyLabels \in Nat
    /\ LongText \in Nat /\ MaxQuestions \in Nat

AtMost(m, n) == IF m < n THEN m ELSE n
AtLeast(m, n) == IF m < n THEN n ELSE m

\* Question.model_validate: the shapes that reach the engine.
Parses(q) == q.type \in {"choice", "score", "noul"} /\ q.criteria \in {"none", "list", "dict"}

\* laya's own check of one question, which the code mirrors.
check_question(q) ==
    \/ q.type = "choice" /\ q.criteria \in {"list", "dict"} /\ q.labels # <<>>
    \/ q.type = "score" /\ q.criteria = "list" /\ q.labels # <<>>
    \/ q.type = "noul" /\ q.criteria \in {"none", "dict"}

\* check_structure, for one question of the set.
Structured(q) ==
    /\ check_question(q) /\ q.instructions > 0
    /\ q.type = "choice" =>
         /\ \A i \in DOMAIN q.labels : q.labels[i] # "blank"
         /\ q.criteria = "list" => \A i, j \in DOMAIN q.labels : q.labels[i] = q.labels[j] => i = j

----------------------------------------------------------------------------
(* The head of the input: [CLS] instructions [SEP] options [SEP] state.    *)

\* An option is its marker and its tokens; when all of them leave the
\* instructions too little, every option is cut to the same length.
Uncut(q) == [i \in DOMAIN q.tokens |-> 1 + AtMost(OptionCap, q.tokens[i])]
Capped(q) == HeadMax - SumFunction(Uncut(q)) < MinOptionBudget
PerOption(q) == AtLeast(PerFloor, (HeadMax - MinOptionBudget) \div AtLeast(1, Len(q.tokens)))
Lengths(q) ==
    IF Capped(q) THEN [i \in DOMAIN q.tokens |-> AtMost(1 + AtMost(OptionCap, q.tokens[i]), PerOption(q))]
    ELSE Uncut(q)

option_layout(q) ==
    LET lens == Lengths(q)
        kept == AtMost(q.instructions, AtLeast(HeadFloor, HeadMax - SumFunction(lens)))
        marker(i) == 2 + kept + SumFunctionOnSet(lens, 1..(i - 1))
    IN  [kept |-> kept, used |-> SumFunction(lens),
         markers |-> Cardinality({i \in DOMAIN lens : marker(i) < InputMax}),
         room |-> AtLeast(0, InputMax - (2 + kept + SumFunction(lens) + 1) - 1)]

\* Whether every option gets a marker in the input: laya answers only then.
\* (laya counts the markers itself; the code mirrors it.)
Answerable(q) == option_layout(q).markers = Len(q.tokens)

\* The warnings of layout_findings; 10 * used > 8 * budget is NEAR_BUDGET_FRACTION.
\* (Mutant: a layout that is cut says so only when it is near its budget.)
layout_warnings_near(q) ==
    (IF 10 * option_layout(q).used > 8 * (HeadMax - MinOptionBudget) THEN {"near budget"} ELSE {})
    \cup (IF option_layout(q).room < MinStateRoom THEN {"little room"} ELSE {})
layout_warnings(q) ==
    LET lay == option_layout(q) IN
    (IF Capped(q) THEN {"options cut"}
     ELSE IF 10 * lay.used > 8 * (HeadMax - MinOptionBudget) THEN {"near budget"} ELSE {})
    \cup (IF \E i \in DOMAIN q.tokens : q.tokens[i] > OptionCap THEN {"long option"} ELSE {})
    \cup (IF lay.kept < q.instructions THEN {"instructions cut"} ELSE {})
    \cup (IF lay.room < MinStateRoom THEN {"little room"} ELSE {})

\* Advice that needs no tokenizer.
Bare(q) == {i \in DOMAIN q.labels : ~q.described[i]}
structural_warnings(q) ==
    (IF q.instructions > LongText THEN {"long instructions"} ELSE {})
    \cup (IF q.type = "choice" /\ Len(q.labels) > ManyLabels THEN {"many labels"} ELSE {})
    \cup (IF q.type # "noul" /\ Len(q.labels) = 1 THEN {"single label"} ELSE {})
    \cup (IF \/ q.type = "choice" /\ Bare(q) # {} /\ (Len(q.labels) > 1 \/ Bare(q) # DOMAIN q.labels)
             \/ q.type = "score" /\ Bare(q) # {}
          THEN {"bare labels"} ELSE {})
    \cup (IF q.type # "noul" /\ q.alike THEN {"alike"} ELSE {})
    \cup (IF q.type = "noul" /\ q.criteria = "dict" /\ \E i \in DOMAIN q.labels : q.labels[i] \notin {"true", "false"}
          THEN {"ignored keys"} ELSE {})

----------------------------------------------------------------------------
(* InferenceEngine.validate and its callers.  A result says whether the    *)
(* call raises and, when it does not, the warnings it returns.  A          *)
(* tokenizer that fails counts as a checkpoint that is not loaded.  The    *)
(* checkpoint is always english: laya_save_schema and                      *)
(* laya_validate_questions name no other, laya_classify only one that the  *)
(* caller asked for.  A prediction without a model may be routed to        *)
(* another checkpoint, whose limits nobody has checked.                    *)

validate(set, loaded) ==
    IF \/ DOMAIN set = {}
       \/ \E x \in DOMAIN set : ~Structured(set[x]) \/ (loaded /\ ~Answerable(set[x]))
    THEN [raises |-> TRUE, warnings |-> {}]
    ELSE [raises |-> FALSE,
          warnings |-> (IF Cardinality(DOMAIN set) > MaxQuestions THEN {"too many"} ELSE {})
                       \cup (UNION {structural_warnings(set[x]) : x \in DOMAIN set})
                       \cup (IF loaded THEN UNION {layout_warnings(set[x]) : x \in DOMAIN set}
                             ELSE {"not checked"})]

\* laya_validate_questions: each question on its own, then the sound ones together.
laya_validate_questions(set, loaded) ==
    LET parsed == {x \in DOMAIN set : Parses(set[x])}
        sound == {x \in parsed : ~validate([y \in {x} |-> set[y]], loaded).raises}
    IN  [valid |-> DOMAIN set # {} /\ Cardinality(DOMAIN set) <= MaxQuestions /\ sound = DOMAIN set,
         warnings |-> IF sound = {} THEN {} ELSE validate([x \in sound |-> set[x]], loaded).warnings]

\* laya_save_schema, whose arguments were parsed before it runs.
\* (Mutant: the limit itself is refused.)
laya_save_schema_below(set, loaded) ==
    IF DOMAIN set = {} \/ Cardinality(DOMAIN set) >= MaxQuestions \/ \E x \in DOMAIN set : ~Parses(set[x])
    THEN [raises |-> TRUE, warnings |-> {}]
    ELSE validate(set, loaded)
laya_save_schema(set, loaded) ==
    IF DOMAIN set = {} \/ Cardinality(DOMAIN set) > MaxQuestions \/ \E x \in DOMAIN set : ~Parses(set[x])
    THEN [raises |-> TRUE, warnings |-> {}]
    ELSE validate(set, loaded)
=============================================================================
