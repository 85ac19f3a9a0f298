---------------------------- MODULE MCDecisions -----------------------------
(* Instances of Decisions for TLC.                                         *)
EXTENDS Decisions, TLC

Types == [q1 |-> "choice", q2 |-> "score", q3 |-> "noul"]
Labels == [q1 |-> <<"x", "X", "y", "z ">>, q2 |-> <<"0", "1", "2">>, q3 |-> <<"false", "true">>]
Targets == [q1 |-> 60, q2 |-> 100, q3 |-> 75]

Value(kind, v) == [kind |-> kind, v |-> v]
Answer(key, confidence) == [key |-> key, confidence |-> confidence]
Case(expected, answer) == [expected |-> expected, answer |-> answer]

\* What an example may say of a question, and what the model answered.
Kept(expected, keys, levels) == [i \in 1..(Len(keys) * Len(levels)) |->
    Case(expected, Answer(keys[1 + ((i - 1) \div Len(levels))], levels[1 + ((i - 1) % Len(levels))]))]
Pool1 == <<Case(NoLabel, Answer("x", 6)), Case(Value("str", "z "), Answer("z ", 6))>>
         \o Kept(Value("str", "x"), <<"X">>, <<2, 4, 6>>) \o Kept(Value("str", "x"), <<"y">>, <<0, 2, 6>>)
Pool3 == <<Case(NoLabel, Answer(TRUE, 6)), Case(Value("float", 1), Answer(TRUE, 6))>>
         \o Kept(Value("str", "yes"), <<TRUE, FALSE>>, <<2, 3, 4>>) \o Kept(Value("int", 0), <<FALSE>>, <<6>>)
Pool12 == <<<<Case(NoLabel, Answer("x", 6)), Case(Value("int", 2), Answer(2, 6))>>,
            <<Case(Value("str", "x"), Answer("x", 2)), Case(Value("int", 3), Answer(0, 6))>>,
            <<Case(Value("str", "X"), Answer("X", 6)), Case(Value("float", 2), Answer(1, 4))>>,
            <<Case(Value("str", "x"), Answer("X", 4)), Case(Value("str", "0"), Answer(0, 6))>>,
            <<Case(Value("str", "y"), Answer("x", 4)), Case(Value("int", 1), Answer(1, 6))>>,
            <<Case(Value("str", "y"), Answer("y", 6)), Case(NoLabel, Answer(1, 4))>>>>
Example(cases) == [done |-> TRUE, expected |-> [q \in DOMAIN cases |-> cases[q].expected],
                   answer |-> [q \in DOMAIN cases |-> cases[q].answer]]
\* The pool of examples, and its last one as an item that has no result; the order
\* of the three examples does not matter.
Three(pool) ==
    LET all == Append(pool, [pool[Len(pool)] EXCEPT !.done = FALSE]) IN
    {<<all[t[1]], all[t[2]], all[t[3]]>> :
        t \in {t \in [1..3 -> DOMAIN all] : t[1] <= t[2] /\ t[2] <= t[3]}}
EvidenceOf ==
    ({"q1"} :> Three([i \in DOMAIN Pool1 |-> Example([q1 |-> Pool1[i]])]))
    @@ ({"q3"} :> Three([i \in DOMAIN Pool3 |-> Example([q3 |-> Pool3[i]])]))
    @@ ({"q1", "q2"} :> Three([i \in DOMAIN Pool12 |-> Example([q1 |-> Pool12[i][1], q2 |-> Pool12[i][2]])]))

\* Perfect answers, and one wrong one among them.
Mostly(pool, right, wrong) ==
    {<<pool[right], pool[right], pool[right]>>, <<pool[right], pool[right], pool[wrong]>>}
FewEvidenceOf ==
    ({"q1"} :> Mostly([i \in DOMAIN Pool1 |-> Example([q1 |-> Pool1[i]])], 5, 8))
    @@ ({"q3"} :> Mostly([i \in DOMAIN Pool3 |-> Example([q3 |-> Pool3[i]])], 5, 8))
    @@ ({"q1", "q2"} :> Mostly([i \in DOMAIN Pool12 |-> Example([q1 |-> Pool12[i][1], q2 |-> Pool12[i][2]])], 4, 5))

\* One question at a time, for the run that reads results.
SingleEvidenceOf == [questions \in {{"q1"}, {"q3"}} |-> FewEvidenceOf[questions]]

\* Nothing, where a run is about something else.
NoSets == {}
NoEvidence == [questions \in {} |-> {}]

AnswersOf == ({"q1"} :> {[q1 |-> Answer("X", 2)], [q1 |-> Answer("z ", 6)]})
             @@ ({"q3"} :> {[q3 |-> Answer(TRUE, 3)], [q3 |-> Answer(FALSE, 6)]})
             @@ ({"q1", "q2"} :> {[q1 |-> Answer("x", 2), q2 |-> Answer(0, 6)]})

Filter(review, question, want) == [review |-> review, question |-> question, want |-> want]
SomeFilters == {Filter(FALSE, {}, {}), Filter(TRUE, {"q1"}, {}), Filter(TRUE, {}, {}), Filter(FALSE, {"q1"}, {"z "})}

\* Question sets: every shape on its own, and some side by side.
Question(type, criteria, labels, tokens, instructions) ==
    [type |-> type, criteria |-> criteria, labels |-> labels, tokens |-> tokens, instructions |-> instructions,
     described |-> [i \in DOMAIN labels |-> i # 2 /\ (type = "choice" => criteria = "dict")],
     alike |-> FALSE]
Names == <<"x", "y", "z", "w", "v", "u", "t", "s", "r">>
ChoiceQuestions == {Question("choice", criteria, SubSeq(Names, 1, Len(tokens)), tokens, n) :
                      criteria \in {"list", "dict"}, n \in {0, 3, 8},
                      tokens \in UNION {[1..k -> {1, 3, 6}] : k \in 0..4} \cup [1..5 -> {1, 6}] \cup [1..9 -> {1}]}
Others == {Question("score", criteria, <<"0", "1">>, <<2, 3>>, 2) : criteria \in {"list", "none"}}
          \cup {Question("noul", criteria, <<"true", "other">>, <<2, 2>>, 2) : criteria \in {"dict", "list"}}
          \cup {Question("choice", "list", <<"x", l>>, <<1, 1>>, 2) : l \in {"x", "blank", "y"}}
          \cup {Question("rank", "list", <<"x">>, <<1>>, 2)}
SomeSets == {[q1 |-> q] : q \in ChoiceQuestions \cup Others} \cup {[q1 |-> q, q2 |-> r] : q, r \in Others}
            \cup {[q1 |-> q, q2 |-> q, q3 |-> q] : q \in Others}
=============================================================================
