--------------------------- MODULE DecisionsProofs ---------------------------
(***************************************************************************)
(* Proofs about Decisions, for any question sets, evidence, answers and    *)
(* settings.                                                               *)
(***************************************************************************)
EXTENDS Decisions, FiniteSetTheorems, SequenceTheorems, WellFoundedInduction, TLAPS

----------------------------------------------------------------------------
(* Numbers, sums and sorted lists.  What a recursion computes is shown by  *)
(* its least counterexample.                                               *)

\* A set of numbers that is not empty has a least one.
LEMMA LeastNumber ==
    ASSUME NEW S, S \subseteq Nat, S # {}
    PROVE  \E x \in S : \A y \in S : x <= y
<1>1. PICK x \in S : \A y \in S : ~(<<y, x>> \in OpToRel(<, Nat))
  BY NatLessThanWellFounded, WFMin
<1>2. \A y \in S : ~(y < x)
  BY <1>1 DEF OpToRel
<1> QED BY <1>2

\* What SumFunction adds up, one index after the other.
Picked(s) == CHOOSE x \in s : TRUE
Adding(f, g, s) == IF s = {} THEN 0 ELSE f[Picked(s)] + g[s \ {Picked(s)}]
Adds(f, g) == g = [s \in SUBSET DOMAIN f |-> Adding(f, g, s)]

LEMMA SumUnfolds == ASSUME NEW f PROVE SumFunction(f) = (CHOOSE g : Adds(f, g))[DOMAIN f]
  BY DEF SumFunction, SumFunctionOnSet, FoldFunctionOnSet, MapThenFoldSet, Adds, Adding, Picked

\* One index less.
LEMMA PickedLeaves ==
    ASSUME NEW D, IsFiniteSet(D), NEW s \in SUBSET D, s # {}
    PROVE  /\ Picked(s) \in s /\ s \ {Picked(s)} \in SUBSET D
           /\ Cardinality(s) \in Nat /\ Cardinality(s \ {Picked(s)}) = Cardinality(s) - 1
<1>1. Picked(s) \in s
  BY DEF Picked
<1>2. IsFiniteSet(s)
  BY FS_Subset
<1> QED BY <1>1, <1>2, FS_RemoveElement, FS_CardinalityType

\* The recursion has a solution: one that is right for sets of up to n indices
\* gives one for sets of up to n + 1.
LEMMA SumExists ==
    ASSUME NEW f, IsFiniteSet(DOMAIN f), \A i \in DOMAIN f : f[i] \in Nat
    PROVE  \E g : Adds(f, g)
<1> DEFINE D == DOMAIN f
           Right(g, n) == \A s \in SUBSET D : Cardinality(s) <= n => g[s] = Adding(f, g, s)
           Functs == [SUBSET D -> Nat]
           Wrong == {n \in Nat : \A g \in Functs : ~Right(g, n)}
<1>0. \A s \in SUBSET D : IsFiniteSet(s) /\ Cardinality(s) \in Nat
  BY FS_Subset, FS_CardinalityType
<1>1. 0 \notin Wrong
  <2> DEFINE g == [s \in SUBSET D |-> 0]
  <2>1. g \in Functs
    OBVIOUS
  <2>2. ASSUME NEW s \in SUBSET D, Cardinality(s) <= 0 PROVE g[s] = Adding(f, g, s)
    <3>1. s = {}
      BY <1>0, <2>2, FS_EmptySet
    <3> QED BY <3>1 DEF Adding
  <2> QED BY <2>1, <2>2
<1>2. ASSUME NEW n \in Nat, n \notin Wrong PROVE n + 1 \notin Wrong
  <2>1. PICK g \in Functs : Right(g, n)
    BY <1>2
  <2> DEFINE h == [s \in SUBSET D |-> IF Cardinality(s) <= n THEN g[s] ELSE Adding(f, g, s)]
  <2>3. \A s \in SUBSET D : Adding(f, g, s) \in Nat
    <3> SUFFICES ASSUME NEW s \in SUBSET D PROVE Adding(f, g, s) \in Nat
      OBVIOUS
    <3>1. CASE s = {}
      BY <3>1 DEF Adding
    <3>2. CASE s # {}
      <4>1. Picked(s) \in D /\ s \ {Picked(s)} \in SUBSET D
        BY <3>2, PickedLeaves
      <4>2. f[Picked(s)] \in Nat /\ g[s \ {Picked(s)}] \in Nat
        BY <4>1
      <4> QED BY <3>2, <4>2 DEF Adding
    <3> QED BY <3>1, <3>2
  <2>4. h \in Functs
    BY <2>3
  <2>5. ASSUME NEW s \in SUBSET D, Cardinality(s) <= n + 1 PROVE h[s] = Adding(f, h, s)
    <3>1. h[s] = Adding(f, g, s)
      BY <2>1
    <3>2. CASE s = {}
      BY <3>1, <3>2 DEF Adding
    <3>3. CASE s # {}
      <4> DEFINE r == s \ {Picked(s)}
      <4>1. r \in SUBSET D /\ Cardinality(r) <= n
        BY <1>0, <2>5, <3>3, PickedLeaves
      <4> HIDE DEF r
      <4>2. h[r] = g[r]
        BY <4>1
      <4> HIDE DEF h
      <4> QED BY <3>1, <3>3, <4>2 DEF Adding, r
    <3> QED BY <3>2, <3>3
  <2> HIDE DEF h
  <2>6. Right(h, n + 1)
    BY <2>5
  <2> QED BY <2>4, <2>6
<1>3. Wrong = {}
  <2> SUFFICES ASSUME Wrong # {} PROVE FALSE
    OBVIOUS
  <2> HIDE DEF Right
  <2>1. PICK n \in Wrong : \A m \in Wrong : n <= m
    BY LeastNumber
  <2> HIDE DEF Wrong
  <2>2. n \in Nat /\ n # 0
    BY <1>1 DEF Wrong
  <2>3. n - 1 \in Nat /\ n - 1 \notin Wrong /\ (n - 1) + 1 = n
    BY <2>1, <2>2
  <2> QED BY <1>2, <2>3
<1>4. PICK g \in Functs : Right(g, Cardinality(D))
  <2>1. Cardinality(D) \in Nat
    BY <1>0
  <2> QED BY <1>3, <2>1
<1>5. \A s \in SUBSET D : g[s] = Adding(f, g, s)
  <2> SUFFICES ASSUME NEW s \in SUBSET D PROVE Cardinality(s) <= Cardinality(D)
    BY <1>4
  <2> QED BY FS_Subset
<1>6. g = [s \in SUBSET D |-> Adding(f, g, s)]
  BY <1>5
<1> QED BY <1>6 DEF Adds

\* The sum of a finite function of natural numbers is one.
LEMMA SumIsNatural ==
    ASSUME NEW f, IsFiniteSet(DOMAIN f), \A i \in DOMAIN f : f[i] \in Nat
    PROVE  SumFunction(f) \in Nat
<1> DEFINE D == DOMAIN f
           g == CHOOSE h : Adds(f, h)
           Wrong == {n \in Nat : \E s \in SUBSET D : Cardinality(s) = n /\ g[s] \notin Nat}
<1>1. Adds(f, g)
  BY SumExists
<1> HIDE DEF g
<1>2. ASSUME NEW s \in SUBSET D PROVE g[s] = Adding(f, g, s)
  BY <1>1 DEF Adds
<1>3. Wrong = {}
  <2> SUFFICES ASSUME Wrong # {} PROVE FALSE
    OBVIOUS
  <2>1. PICK n \in Wrong : \A m \in Wrong : n <= m
    <3> HIDE DEF Wrong
    <3>1. Wrong \subseteq Nat
      BY DEF Wrong
    <3> QED BY <3>1, LeastNumber
  <2>2. PICK s \in SUBSET D : Cardinality(s) = n /\ g[s] \notin Nat
    OBVIOUS
  <2>3. s # {}
    <3>1. g[s] = Adding(f, g, s)
      BY <1>2
    <3>2. Adding(f, g, {}) = 0
      BY DEF Adding
    <3> QED BY <2>2, <3>1, <3>2
  <2> DEFINE r == s \ {Picked(s)}
  <2>4. r \in SUBSET D /\ Picked(s) \in D /\ n \in Nat /\ Cardinality(r) = n - 1 /\ Cardinality(r) \in Nat
    BY <2>2, <2>3, PickedLeaves, FS_Subset, FS_CardinalityType
  <2>5. g[r] \in Nat
    BY <2>1, <2>4
  <2>6. g[s] = f[Picked(s)] + g[r]
    BY <1>2, <2>3 DEF Adding
  <2> QED BY <2>2, <2>4, <2>5, <2>6
<1>4. g[D] \in Nat
  <2>1. Cardinality(D) \in Nat
    BY FS_CardinalityType
  <2> QED BY <1>3, <2>1
<1> QED BY <1>4, SumUnfolds DEF g

\* R orders the elements of S one after the other.
Orders(R, S) ==
    /\ \A x, y \in S : x # y => <<x, y>> \in R \/ <<y, x>> \in R
    /\ \A x \in S : <<x, x>> \notin R
    /\ \A x, y, z \in S : <<x, y>> \in R /\ <<y, z>> \in R => <<x, z>> \in R

LEMMA OneLess ==
    ASSUME NEW S, IsFiniteSet(S), NEW x \in S
    PROVE  /\ IsFiniteSet(S \ {x}) /\ Cardinality(S) \in Nat \ {0}
           /\ Cardinality(S \ {x}) \in Nat /\ Cardinality(S \ {x}) = Cardinality(S) - 1
<1>1. IsFiniteSet(S \ {x}) /\ Cardinality(S \ {x}) = Cardinality(S) - 1
  BY FS_RemoveElement
<1>2. Cardinality(S) \in Nat /\ Cardinality(S \ {x}) \in Nat
  BY <1>1, FS_CardinalityType
<1> QED BY <1>1, <1>2

\* A finite set that is not empty has a first element.
LEMMA FirstExists ==
    ASSUME NEW R, NEW T, IsFiniteSet(T), T # {}, Orders(R, T)
    PROVE  \E x \in T : \A y \in T \ {x} : <<x, y>> \in R
<1> DEFINE First(S) == \E x \in S : \A y \in S \ {x} : <<x, y>> \in R
           Wrong == {n \in Nat : \E S \in SUBSET T : S # {} /\ Cardinality(S) = n /\ ~First(S)}
<1>1. ASSUME NEW n \in Wrong, \A m \in Wrong : n <= m PROVE FALSE
  <2>1. PICK S \in SUBSET T : S # {} /\ Cardinality(S) = n /\ ~First(S)
    OBVIOUS
  <2>2. PICK x \in S : TRUE
    BY <2>1
  <2> DEFINE U == S \ {x}
  <2>3. IsFiniteSet(S) /\ IsFiniteSet(U) /\ Cardinality(U) \in Nat /\ Cardinality(U) = n - 1 /\ n \in Nat
    BY <2>1, <2>2, FS_Subset, OneLess
  <2>4. U # {}
    BY <2>1, <2>2
  <2>5. First(U)
    <3> SUFFICES ASSUME ~First(U) PROVE FALSE
      OBVIOUS
    <3>1. n - 1 \in Wrong
      <4> HIDE DEF First
      <4> QED BY <2>3, <2>4
    <3> QED BY <1>1, <2>3, <3>1
  <2>6. PICK u \in U : \A y \in U \ {u} : <<u, y>> \in R
    BY <2>5
  <2>7. CASE <<u, x>> \in R
    <3>1. \A y \in S \ {u} : <<u, y>> \in R
      BY <2>6, <2>7
    <3> QED BY <2>1, <3>1
  <2>8. CASE <<x, u>> \in R
    <3>1. \A y \in S \ {x} : <<x, y>> \in R
      BY <2>6, <2>8 DEF Orders
    <3> QED BY <2>1, <3>1
  <2> QED BY <2>7, <2>8 DEF Orders
<1>2. Wrong = {}
  <2> HIDE DEF Wrong
  <2>1. Wrong \subseteq Nat
    BY DEF Wrong
  <2> QED BY <1>1, <2>1, LeastNumber
<1>3. Cardinality(T) \in Nat
  BY FS_CardinalityType
<1>4. First(T)
  <2> SUFFICES ASSUME ~First(T) PROVE FALSE
    OBVIOUS
  <2> HIDE DEF First
  <2> QED BY <1>2, <1>3
<1> QED BY <1>4

\* And can be listed in order.
LEMMA SortedExists ==
    ASSUME NEW R, NEW T, IsFiniteSet(T), Orders(R, T)
    PROVE  Sorted(T, R) \in [1..Cardinality(T) -> T] /\ InOrder(Sorted(T, R), T, R)
<1> DEFINE Listed(S) == \E s \in [1..Cardinality(S) -> S] : InOrder(s, S, R)
           Wrong == {n \in Nat : \E S \in SUBSET T : Cardinality(S) = n /\ ~Listed(S)}
<1>1. ASSUME NEW n \in Wrong, \A m \in Wrong : n <= m PROVE FALSE
  <2>1. PICK S \in SUBSET T : Cardinality(S) = n /\ ~Listed(S)
    OBVIOUS
  <2>2. IsFiniteSet(S) /\ n \in Nat
    BY FS_Subset
  <2>3. S # {}
    <3> SUFFICES ASSUME S = {} PROVE FALSE
      OBVIOUS
    <3>1. n = 0 /\ 1..n = {}
      BY <2>1, FS_EmptySet
    <3> DEFINE s == [a \in 1..n |-> a]
    <3>2. s \in [1..n -> S] /\ Range(s) = S
      BY <3>1 DEF Range
    <3>3. InOrder(s, S, R)
      BY <3>1, <3>2 DEF InOrder
    <3> QED BY <2>1, <3>2, <3>3
  <2>4. Orders(R, S)
    BY DEF Orders
  <2>5. PICK x \in S : \A y \in S \ {x} : <<x, y>> \in R
    BY <2>2, <2>3, <2>4, FirstExists
  <2> DEFINE U == S \ {x}
  <2>6. Cardinality(U) = n - 1 /\ n - 1 \in Nat /\ U \in SUBSET T
    BY <2>1, <2>2, <2>5, OneLess
  <2>7. Listed(U)
    <3> SUFFICES ASSUME ~Listed(U) PROVE FALSE
      OBVIOUS
    <3>1. n - 1 \in Wrong
      <4> HIDE DEF Listed
      <4> QED BY <2>6
    <3> QED BY <1>1, <2>2, <2>6, <3>1
  <2>8. PICK t \in [1..(n - 1) -> U] : InOrder(t, U, R)
    BY <2>6, <2>7
  <2>9. /\ t \in [1..(n - 1) -> U] /\ Range(t) = U
        /\ \A a, b \in 1..(n - 1) : a < b => <<t[a], t[b]>> \in R
    BY <2>8 DEF InOrder
  <2> DEFINE s == [a \in 1..n |-> IF a = 1 THEN x ELSE t[a - 1]]
  <2>10. \A a \in 1..n : a # 1 => a - 1 \in 1..(n - 1)
    BY <2>2
  <2>11. \A a \in 1..n : s[a] \in S /\ (a # 1 => s[a] \in U /\ s[a] = t[a - 1])
    BY <2>9, <2>10
  <2>12. s[1] = x /\ 1 \in 1..n
    BY <2>2, <2>6
  <2>13. Range(s) = S
    <3>1. ASSUME NEW y \in U PROVE \E a \in 1..n : s[a] = y
      <4>1. PICK b \in 1..(n - 1) : t[b] = y
        BY <2>9 DEF Range
      <4>2. b + 1 \in 1..n /\ s[b + 1] = y
        BY <2>2, <4>1
      <4> QED BY <4>2
    <3>2. \A y \in S : \E a \in 1..n : s[a] = y
      <4> HIDE DEF s
      <4> QED BY <2>12, <3>1
    <3>3. DOMAIN s = 1..n
      OBVIOUS
    <3>4. \A a \in 1..n : s[a] \in S
      BY <2>11
    <3> HIDE DEF s
    <3>5. Range(s) = {s[a] : a \in 1..n}
      BY <3>3 DEF Range
    <3> QED BY <3>2, <3>4, <3>5
  <2>14. ASSUME NEW a \in 1..n, NEW b \in 1..n, a < b PROVE <<s[a], s[b]>> \in R
    <3>1. b # 1
      BY <2>2, <2>14
    <3>2. CASE a = 1
      <4>1. s[a] = x /\ s[b] \in U
        BY <2>11, <2>12, <3>1, <3>2
      <4> HIDE DEF s
      <4> QED BY <2>5, <4>1
    <3>3. CASE a # 1
      <4>1. a - 1 \in 1..(n - 1) /\ b - 1 \in 1..(n - 1) /\ a - 1 < b - 1
        BY <2>2, <2>14, <3>1, <3>3
      <4>2. s[a] = t[a - 1] /\ s[b] = t[b - 1]
        BY <3>1, <3>3
      <4> HIDE DEF s
      <4> QED BY <2>9, <4>1, <4>2
    <3> QED BY <3>2, <3>3
  <2>15. s \in [1..n -> S]
    BY <2>11
  <2> HIDE DEF s
  <2>16. InOrder(s, S, R)
    BY <2>13, <2>14, <2>15 DEF InOrder
  <2> QED BY <2>1, <2>15, <2>16
<1>2. Wrong = {}
  <2> HIDE DEF Wrong
  <2>1. Wrong \subseteq Nat
    BY DEF Wrong
  <2> QED BY <1>1, <2>1, LeastNumber
<1>3. Listed(T)
  <2> SUFFICES ASSUME ~Listed(T) PROVE FALSE
    OBVIOUS
  <2>1. Cardinality(T) \in Nat
    BY FS_CardinalityType
  <2> HIDE DEF Listed
  <2> QED BY <1>2, <2>1
<1> QED BY <1>3 DEF Sorted

----------------------------------------------------------------------------
(* The threshold of a question.                                            *)

\* What an evaluation had to go on: answers with a probability each.
Sound(ev, q) ==
    IsFiniteSet(DOMAIN ev) /\ \A i \in DOMAIN ev : ev[i].answer[q].confidence \in 0..(2 * Top)

\* The higher the threshold, the fewer answers clear it.
LEMMA FewerClear ==
    ASSUME NEW ev, NEW q, NEW T, Sound(ev, q), NEW t \in Int, NEW u \in Int, t <= u
    PROVE  /\ IsFiniteSet(Clears(ev, q, T, t)) /\ Cardinality(Clears(ev, q, T, t)) \in Nat
           /\ Cardinality(Clears(ev, q, T, u)) \in Nat
           /\ Cardinality(Clears(ev, q, T, u)) <= Cardinality(Clears(ev, q, T, t))
<1>1. Scored(ev, q) \subseteq DOMAIN ev
  BY DEF Scored, Labelled, Evaluated
<1>2. \A i \in Scored(ev, q) : apply_temperature(ev[i].answer[q].confidence, T) \in Int
  BY <1>1, EvaluationAssumption DEF Sound, apply_temperature
<1>3. Clears(ev, q, T, u) \subseteq Clears(ev, q, T, t) /\ Clears(ev, q, T, t) \subseteq DOMAIN ev
  BY <1>1, <1>2 DEF Clears
<1>4. IsFiniteSet(Clears(ev, q, T, t))
  BY <1>3, FS_Subset DEF Sound
<1> QED BY <1>3, <1>4, FS_Subset, FS_CardinalityType

\* The grid points at which enough answers are left and reach the target.
Good(ev, q, T) ==
    {t \in GridLow..GridHigh :
        /\ Cardinality(Clears(ev, q, T, t)) >= MinAnswers
        /\ Reaches(TargetOf[q], Cardinality(Clears(ev, q, T, t) \cap Correct(ev, q)),
                   Cardinality(Clears(ev, q, T, t)))}

\* The loop of recommend_threshold finds the least of them, or none when there is none:
\* that it stops where too few answers are left loses nothing.
LEMMA LoopFindsLeast ==
    ASSUME NEW ev, NEW q, NEW T, Sound(ev, q)
    PROVE  /\ Good(ev, q, T) = {} => recommend_threshold(ev, q, T) = {}
           /\ Good(ev, q, T) # {} => /\ recommend_threshold(ev, q, T) = {Min(Good(ev, q, T))}
                                     /\ Min(Good(ev, q, T)) \in Good(ev, q, T)
<1> DEFINE n(t) == Cardinality(Clears(ev, q, T, t))
           right(t) == Cardinality(Clears(ev, q, T, t) \cap Correct(ev, q))
           hits(t) == Reaches(TargetOf[q], right(t), n(t))
           stops == {t \in GridLow..GridHigh : n(t) < MinAnswers \/ hits(t)}
           good == Good(ev, q, T)
           found == {t \in stops : n(t) >= MinAnswers /\ \A u \in stops : t <= u}
<1>1. recommend_threshold(ev, q, T) = found
  BY DEF recommend_threshold
<1>2. good = {t \in GridLow..GridHigh : n(t) >= MinAnswers /\ hits(t)}
  BY DEF Good
<1>3. \A t \in GridLow..GridHigh : t \in Nat
  BY EvaluationAssumption
<1>4. \A t, u \in GridLow..GridHigh : t <= u => n(t) \in Nat /\ n(u) \in Nat /\ n(u) <= n(t)
  BY <1>3, FewerClear
<1> HIDE DEF n, hits, good
<1>5. good \subseteq stops /\ stops \subseteq Nat
  BY <1>2, <1>3
<1>6. MinAnswers \in Nat
  BY EvaluationAssumption
<1>7. CASE good = {}
  <2>1. ASSUME NEW t \in found PROVE FALSE
    <3>1. t \in GridLow..GridHigh /\ n(t) >= MinAnswers /\ (n(t) < MinAnswers \/ hits(t))
      OBVIOUS
    <3>2. n(t) \in Nat
      BY <1>3, <1>4, <3>1
    <3>3. t \in good
      BY <1>2, <1>6, <3>1, <3>2
    <3> QED BY <1>7, <3>3
  <2> QED BY <1>1, <1>7, <2>1 DEF good
<1>8. CASE good # {}
  <2>1. PICK s \in stops : \A u \in stops : s <= u
    BY <1>5, <1>8, LeastNumber
  <2>2. PICK g \in good : TRUE
    BY <1>8
  <2>3. s <= g /\ g \in GridLow..GridHigh /\ s \in GridLow..GridHigh /\ n(g) >= MinAnswers
    BY <1>2, <1>5, <2>1, <2>2
  <2>4. n(s) >= MinAnswers
    BY <1>4, <1>6, <2>3
  <2>5. s \in good
    BY <1>2, <1>3, <1>4, <1>6, <2>1, <2>3, <2>4
  <2>6. \A u \in good : s <= u
    BY <1>5, <2>1
  <2>7. \A x \in good : (\A y \in good : x <= y) => x = s
    BY <1>5, <2>5, <2>6
  <2>8. Min(good) = s
    BY <2>5, <2>6, <2>7 DEF Min
  <2>9. found = {s}
    <3>1. s \in found
      BY <2>1, <2>4
    <3>2. ASSUME NEW x \in found PROVE x = s
      BY <1>5, <2>1, <3>2
    <3> QED BY <3>1, <3>2
  <2> QED BY <1>1, <1>8, <2>5, <2>8, <2>9 DEF good
<1> QED BY <1>7, <1>8

----------------------------------------------------------------------------
(* The version.                                                            *)

\* A report of some evidence under some temperatures, and the thresholds it gives.
Made(rep, Q) == rep = build_report(rep.ev, Q, rep.temps) /\ rep.ev \in Evidences[Q]
ThresholdsIn(rep, Q) ==
    [q \in {r \in Q : rep.per[r].threshold # {}} |-> CHOOSE t \in rep.per[q].threshold : TRUE]

\* Every report is one of the version's questions, whether the hook and the
\* calibration still hold it or the version carries it; then its thresholds are that
\* report's.  The temperatures may be those of another one.
SchemaInv ==
    IF schema = None THEN evidence = {} /\ hook = None /\ cal = None /\ ~prom
    ELSE /\ schema = [status |-> schema.status, questions |-> schema.questions, thresholds |-> schema.thresholds,
                      temps |-> schema.temps, report |-> schema.report]
         /\ schema.questions \in DOMAIN Evidences
         /\ \A ev \in evidence : ev \in Evidences[schema.questions]
         /\ hook # None => Made(hook.report, schema.questions)
         /\ cal # None => Made(cal.report, schema.questions)
         /\ schema.report # None => /\ Made(schema.report, schema.questions)
                                    /\ schema.thresholds = ThresholdsIn(schema.report, schema.questions)
         /\ prom \/ schema.status = "trusted" => schema.report # None

LEMMA ReportIsMade ==
    ASSUME NEW ev, NEW temps, schema.questions \in DOMAIN Evidences, ev \in Evidences[schema.questions]
    PROVE  Made(Report(ev, temps), schema.questions)
<1> DEFINE Q == schema.questions
           rep == build_report(ev, Q, temps)
<1>1. rep.ev = ev /\ rep.temps = temps
  <2> HIDE DEF Q
  <2> QED BY DEF build_report
<1>2. rep = build_report(rep.ev, Q, rep.temps)
  BY <1>1
<1> HIDE DEF rep
<1>3. Report(ev, temps) = rep
  BY DEF Report, rep
<1> QED BY <1>1, <1>2, <1>3 DEF Made

\* What apply_report leaves behind.
LEMMA AppliedCarries ==
    ASSUME SchemaInv, schema # None, NEW rep, NEW status, schema' = Applied(rep, status)
    PROVE  /\ schema' = [status |-> schema'.status, questions |-> schema.questions,
                         thresholds |-> ThresholdsIn(rep, schema.questions), temps |-> schema.temps, report |-> rep]
           /\ schema'.questions = schema.questions /\ schema'.report = rep /\ schema'.temps = schema.temps
           /\ schema'.thresholds = ThresholdsIn(rep, schema.questions) /\ schema' # None
<1> DEFINE thr == ThresholdsIn(rep, schema.questions)
           st == IF status = "trusted" /\ rep.passes THEN schema.status ELSE "evaluated"
<1>1. schema = [status |-> schema.status, questions |-> schema.questions, thresholds |-> schema.thresholds,
                temps |-> schema.temps, report |-> schema.report]
  BY DEF SchemaInv
<1>2. schema' = [schema EXCEPT !.thresholds = thr, !.report = rep, !.status = st]
  BY DEF Applied, ThresholdsIn
<1> HIDE DEF thr, st
<1>3. schema' = [status |-> st, questions |-> schema.questions, thresholds |-> thr, temps |-> schema.temps,
                 report |-> rep]
  BY <1>1, <1>2
<1> QED BY <1>3 DEF None, thr

LEMMA MadeIsThere == ASSUME NEW rep, NEW Q, Made(rep, Q) PROVE rep # None
  BY DEF Made, build_report, None

LEMMA SchemaInit == Init => SchemaInv
<1> SUFFICES ASSUME Init PROVE SchemaInv
  OBVIOUS
<1>1. CASE schema = None
  BY <1>1 DEF Init, SchemaInv
<1>2. CASE schema # None
  <2>1. PICK questions \in DOMAIN Evidences : schema = Saved(questions)
    BY <1>2 DEF Init
  <2> QED BY <2>1 DEF Init, SchemaInv, Saved, None
<1> QED BY <1>1, <1>2

\* Only these actions change the version or what is under way with it.
Ends == \E ok \in BOOLEAN : EvaluateEnds(ok) \/ CalibrateEnds(ok) \/ PromoteEnds(ok)
Revises == EvaluateReads \/ CalibrateTemps \/ PromoteReads \/ Ends
LEMMA OthersKeep ==
    ASSUME [Next]_vars, ~Revises
    PROVE  schema' = schema /\ evidence' = evidence /\ hook' = hook /\ cal' = cal /\ prom' = prom
  BY DEF Next, Revises, Ends, vars, use, work, LoadOrUnload, Validate, Save, Classify, DecideReads, DecideReturns,
         DecideRaises, SubmitBatch, ItemEnds, CancelBatch, ReadVersion, ReadPage, Sample
\* And these nothing else.
LEMMA RevisesKeep ==
    ASSUME Revises
    PROVE  author' = author /\ decision' = decision /\ job' = job /\ reader' = reader /\ sample' = sample
  BY DEF Revises, Ends, use, EvaluateReads, CalibrateTemps, PromoteReads, EvaluateEnds, CalibrateEnds, PromoteEnds

LEMMA SchemaStep ==
    ASSUME SchemaInv, [Next]_vars
    PROVE  /\ SchemaInv'
           /\ schema' # None <=> schema # None
           /\ schema # None => schema'.questions = schema.questions
<1> DEFINE Q == schema.questions
<1>0. schema # None =>
        /\ schema = [status |-> schema.status, questions |-> schema.questions, thresholds |-> schema.thresholds,
                     temps |-> schema.temps, report |-> schema.report]
        /\ Q \in DOMAIN Evidences
  BY DEF SchemaInv
<1>1. CASE EvaluateReads
  <2>1. PICK ev \in Available : hook' = [status |-> schema.status, report |-> Report(ev, schema.temps)]
    BY <1>1 DEF EvaluateReads
  <2>2. schema # None /\ schema' = schema /\ evidence' = evidence /\ cal' = cal /\ prom' = prom
    BY <1>1 DEF EvaluateReads
  <2>3. ev \in Evidences[Q]
    BY <1>0, <2>1, <2>2, DecisionsAssumption DEF Available
  <2>4. Made(Report(ev, schema.temps), Q)
    BY <1>0, <2>2, <2>3, ReportIsMade
  <2>5. hook'.report = Report(ev, schema.temps)
    BY <2>1
  <2> QED BY <2>2, <2>4, <2>5 DEF SchemaInv
<1>2. CASE CalibrateTemps
  <2>1. PICK ev \in evidence, temps \in [schema.questions -> {1, 2}] :
           /\ schema' = [schema EXCEPT !.temps = temps]
           /\ cal' = [status |-> schema.status, report |-> Report(ev, temps)]
    BY <1>2 DEF CalibrateTemps
  <2>2. schema # None /\ evidence' = evidence /\ hook' = hook /\ prom' = prom
    BY <1>2 DEF CalibrateTemps
  <2>3. Made(Report(ev, temps), Q) /\ cal'.report = Report(ev, temps)
    BY <1>0, <2>1, <2>2, ReportIsMade DEF SchemaInv
  <2>4. schema' = [status |-> schema.status, questions |-> Q, thresholds |-> schema.thresholds,
                   temps |-> temps, report |-> schema.report]
    BY <1>0, <2>1, <2>2
  <2>5. /\ schema'.status = schema.status /\ schema'.questions = Q /\ schema'.thresholds = schema.thresholds
        /\ schema'.temps = temps /\ schema'.report = schema.report /\ schema' # None
    BY <2>4 DEF None
  <2> QED BY <2>2, <2>3, <2>4, <2>5 DEF SchemaInv
<1>3. CASE PromoteReads
  BY <1>3 DEF PromoteReads, SchemaInv
<1>4. ASSUME NEW ok \in BOOLEAN, EvaluateEnds(ok) \/ CalibrateEnds(ok)
      PROVE  /\ SchemaInv' /\ schema' # None /\ schema # None
             /\ schema'.questions = schema.questions
  <2>1. PICK rep, status :
           /\ schema' = IF ok THEN Applied(rep, status) ELSE schema
           /\ schema # None /\ Made(rep, Q)
    BY <1>4 DEF EvaluateEnds, CalibrateEnds, SchemaInv
  <2>2. /\ \A ev \in evidence' : ev \in Evidences[Q]
        /\ hook' # None => Made(hook'.report, Q)
        /\ cal' # None => Made(cal'.report, Q)
        /\ prom' = prom
    BY <1>4, <2>1 DEF EvaluateEnds, CalibrateEnds, SchemaInv, Made
  <2>3. CASE ok
    <3>1. /\ schema' = [status |-> schema'.status, questions |-> Q, thresholds |-> ThresholdsIn(rep, Q),
                        temps |-> schema.temps, report |-> rep]
          /\ schema'.questions = Q /\ schema'.report = rep /\ schema'.temps = schema.temps
          /\ schema'.thresholds = ThresholdsIn(rep, Q) /\ schema' # None
      BY <2>1, <2>3, AppliedCarries
    <3>2. rep # None
      BY <2>1, MadeIsThere
    <3> QED BY <1>0, <2>1, <2>2, <3>1, <3>2 DEF SchemaInv
  <2>4. CASE ~ok
    BY <2>1, <2>2, <2>4 DEF SchemaInv
  <2> QED BY <2>3, <2>4
<1>5. ASSUME NEW ok \in BOOLEAN, PromoteEnds(ok)
      PROVE  /\ SchemaInv' /\ schema' # None /\ schema # None
             /\ schema'.questions = schema.questions
  <2>1. /\ prom /\ prom' = FALSE /\ evidence' = evidence /\ hook' = hook /\ cal' = cal
        /\ schema' = IF ok THEN [schema EXCEPT !.status = "trusted"] ELSE schema
    BY <1>5 DEF PromoteEnds
  <2>2. schema # None /\ schema.report # None
    BY <2>1 DEF SchemaInv
  <2>3. CASE ok
    <3>1. schema' = [status |-> "trusted", questions |-> Q, thresholds |-> schema.thresholds,
                     temps |-> schema.temps, report |-> schema.report]
      BY <1>0, <2>1, <2>2, <2>3
    <3>2. /\ schema'.status = "trusted" /\ schema'.questions = Q /\ schema'.thresholds = schema.thresholds
          /\ schema'.temps = schema.temps /\ schema'.report = schema.report /\ schema' # None
      BY <3>1 DEF None
    <3> QED BY <2>1, <2>2, <3>1, <3>2 DEF SchemaInv
  <2>4. CASE ~ok
    BY <2>1, <2>2, <2>4 DEF SchemaInv
  <2> QED BY <2>3, <2>4
<1>6. CASE ~Revises
  BY <1>6, OthersKeep DEF SchemaInv
<1> QED BY <1>0, <1>1, <1>2, <1>3, <1>4, <1>5, <1>6 DEF Revises, Ends, EvaluateReads, PromoteReads, CalibrateTemps

LEMMA SchemaCorrect == Spec => []SchemaInv
<1>1. SchemaInv /\ [Next]_vars => SchemaInv'
  BY SchemaStep
<1> QED BY <1>1, SchemaInit, PTL DEF Spec

\* The report of the evidence, question by question.
LEMMA ReportRead ==
    ASSUME NEW ev, NEW Q, NEW temps, NEW q \in Q, ev \in Evidences[Q], Q \in DOMAIN Evidences
    PROVE  /\ Sound(ev, q)
           /\ build_report(ev, Q, temps).per[q].threshold = recommend_threshold(ev, q, temps[q])
           /\ (build_report(ev, Q, temps).per[q].meets <=> recommend_threshold(ev, q, temps[q]) # {})
           /\ build_report(ev, Q, temps).passes => build_report(ev, Q, temps).per[q].meets
<1>1. Sound(ev, q)
  BY DecisionsAssumption DEF Sound, Answered
<1>2. build_report(ev, Q, temps).per[q] = QuestionMetrics(ev, q, temps[q])
  BY DEF build_report
<1>3. /\ QuestionMetrics(ev, q, temps[q]).threshold = recommend_threshold(ev, q, temps[q])
      /\ (QuestionMetrics(ev, q, temps[q]).meets <=> recommend_threshold(ev, q, temps[q]) # {})
  BY DEF QuestionMetrics
<1>4. build_report(ev, Q, temps).passes => QuestionMetrics(ev, q, temps[q]).meets
  BY DEF build_report
<1> QED BY <1>1, <1>2, <1>3, <1>4

\* The threshold that a version has for a question is the least good one of its report.
LEMMA ThresholdKept ==
    ASSUME SchemaInv, schema # None, schema.report # None, NEW q \in schema.questions
    PROVE  LET good == Good(schema.report.ev, q, schema.report.temps[q]) IN
           /\ Sound(schema.report.ev, q)
           /\ q \in DOMAIN schema.thresholds <=> good # {}
           /\ good # {} => schema.thresholds[q] = Min(good) /\ Min(good) \in good
           /\ schema.report.passes => good # {}
<1> DEFINE rep == schema.report
           ev == rep.ev
           temps == rep.temps
           Q == schema.questions
           good == Good(ev, q, temps[q])
           thr == recommend_threshold(ev, q, temps[q])
<1>1. /\ ev \in Evidences[Q] /\ Q \in DOMAIN Evidences /\ q \in Q
      /\ rep = build_report(ev, Q, temps) /\ schema.thresholds = ThresholdsIn(rep, Q)
  BY DEF SchemaInv, Made
<1> HIDE DEF rep, ev, temps, Q, good, thr
<1>2. Sound(ev, q)
  BY <1>1, ReportRead
<1>3. rep.per[q].threshold = thr
  BY <1>1, ReportRead DEF thr
<1>4. rep.passes => thr # {}
  <2>1. (build_report(ev, Q, temps).per[q].meets <=> thr # {})
    BY <1>1, ReportRead DEF thr
  <2>2. build_report(ev, Q, temps).passes => build_report(ev, Q, temps).per[q].meets
    BY <1>1, ReportRead
  <2> QED BY <1>1, <2>1, <2>2
<1>5. (good = {} => thr = {}) /\ (good # {} => thr = {Min(good)} /\ Min(good) \in good)
  BY <1>2, LoopFindsLeast DEF good, thr
<1>6. /\ q \in DOMAIN schema.thresholds <=> thr # {}
      /\ thr # {} => schema.thresholds[q] = CHOOSE t \in thr : TRUE
  BY <1>1, <1>3 DEF ThresholdsIn
<1> QED BY <1>2, <1>4, <1>5, <1>6 DEF good, rep, ev, temps

\* The threshold of a question is the lowest one on the grid that enough answers
\* clear with the target accuracy, and is missing only when there is none.
THEOREM ThresholdsAreLowest == Spec => []ThresholdIsLowest
<1>1. SchemaInv => ThresholdIsLowest
  <2> SUFFICES ASSUME SchemaInv, schema # None, schema.report # None, NEW q \in schema.questions
               PROVE  LET good == Good(schema.report.ev, q, schema.report.temps[q]) IN
                      IF good = {} THEN q \notin DOMAIN schema.thresholds
                      ELSE q \in DOMAIN schema.thresholds /\ schema.thresholds[q] = Min(good)
    BY DEF ThresholdIsLowest, Good, Clears, Reaches
  <2> QED BY ThresholdKept
<1> QED BY <1>1, SchemaCorrect, PTL

\* On the evidence of its report the answers that a trusted version decides reach the
\* target of their question, when the report passes, the temperatures are its own and
\* no confidence of the question lies just below a threshold.
THEOREM DecidedReachTarget == Spec => []DecidedMeetsTarget
<1>1. SchemaInv => DecidedMeetsTarget
  <2> SUFFICES ASSUME SchemaInv, Settled, NEW q \in schema.questions,
                      \A i \in Scored(schema.report.ev, q) : schema.report.ev[i].answer[q].confidence % 2 = 0
               PROVE  ReachesTarget(q)
    BY DEF DecidedMeetsTarget
  <2> DEFINE ev == schema.report.ev
             T == schema.temps[q]
             t == schema.thresholds[q]
  <2>1. /\ schema # None /\ schema.report # None /\ schema.report.passes /\ schema.temps = schema.report.temps
        /\ ev \in Evidences[schema.questions] /\ schema.questions \in DOMAIN Evidences
    BY DEF SchemaInv, Settled, Made
  <2>2. q \in DOMAIN schema.thresholds /\ t \in Good(ev, q, T) /\ Sound(ev, q)
    BY <2>1, ThresholdKept
  <2>3. t \in Int
    BY <2>2, EvaluationAssumption DEF Good
  <2>4. ASSUME NEW i \in Scored(ev, q)
        PROVE  to_item_result(ev[i].answer, schema.temps, schema.thresholds, FALSE).status[q] = "decided"
               <=> apply_temperature(ev[i].answer[q].confidence, T) >= 2 * t - 1
    <3> DEFINE c == ev[i].answer[q].confidence
               x == apply_temperature(c, T)
    <3>1. i \in DOMAIN ev
      BY DEF Scored, Labelled, Evaluated
    <3>2. q \in DOMAIN ev[i].answer /\ c \in 0..(2 * Top) /\ c % 2 = 0
      BY <2>1, <3>1, DecisionsAssumption DEF Answered
    <3>3. c \in Nat
      BY <3>2, EvaluationAssumption
    <3>4. to_item_result(ev[i].answer, schema.temps, schema.thresholds, FALSE).status[q]
          = IF x < 2 * t THEN "needs_review" ELSE "decided"
      <4> DEFINE a == ev[i].answer
                 low(p) == apply_temperature(a[p].confidence, schema.temps[p]) < 2 * ThresholdOf(p, schema.thresholds)
      <4>1. to_item_result(a, schema.temps, schema.thresholds, FALSE).status
            = [p \in DOMAIN a |-> IF low(p) THEN "needs_review" ELSE "decided"]
        BY DEF to_item_result
      <4>2. low(q) <=> x < 2 * t
        BY <2>2 DEF ThresholdOf
      <4> HIDE DEF low, x
      <4> QED BY <3>2, <4>1, <4>2
    <3>5. x \in Nat /\ x % 2 = 0
      <4> HIDE DEF c
      <4> QED BY <3>2, <3>3 DEF apply_temperature
    <3>6. x < 2 * t <=> ~(x >= 2 * t - 1)
      <4> HIDE DEF x, t
      <4> QED BY <2>3, <3>5
    <3> HIDE DEF x, t
    <3> QED BY <3>4, <3>6 DEF x
  <2>5. Decided(q) = Clears(ev, q, T, t)
    BY <2>4 DEF Clears, Decided
  <2> QED BY <2>2, <2>5 DEF Good, Reaches, ReachesTarget
<1> QED BY <1>1, SchemaCorrect, PTL

\* A report that passes has nothing left for promotion_problems to object to, and
\* a refusal always names what is wrong.
THEOREM TargetsDoAgree == Spec => []TargetsAgree
<1>1. SchemaInv => TargetsAgree
  <2> SUFFICES ASSUME SchemaInv, schema # None, schema.report # None
               PROVE  LET problems == promotion_problems(schema.report, schema.questions) IN
                      (schema.report.passes <=> problems = {}) /\ <<"report">> \notin problems
    BY DEF TargetsAgree
  <2> DEFINE rep == schema.report
             Q == schema.questions
             bad == {r \in Q : rep.per[r].n = 0 \/ ~rep.per[r].meets \/ rep.per[r].n < MinExamples}
             problems == (IF rep.n < MinExamples THEN {<<"examples">>} ELSE {}) \cup {<<"question", q>> : q \in bad}
             ev == rep.ev
  <2>1. Made(schema.report, schema.questions) /\ schema.questions \in DOMAIN Evidences
    BY DEF SchemaInv
  <2>2. rep = build_report(ev, Q, rep.temps) /\ Q # {} /\ ev \in Evidences[Q]
    BY <2>1, DecisionsAssumption DEF Made
  <2>3. rep.passes <=> rep.n >= MinExamples /\ \A q \in Q : rep.per[q].meets /\ rep.per[q].n >= MinExamples
    <3> DEFINE temps == rep.temps
    <3> HIDE DEF Q, rep, ev, temps
    <3> QED BY <2>2 DEF build_report, temps
  <2>4. rep.n \in Nat /\ \A q \in Q : rep.per[q].n \in Nat
    <3>1. IsFiniteSet(DOMAIN ev)
      BY <2>1, <2>2, DecisionsAssumption
    <3>2. Evaluated(ev) \subseteq DOMAIN ev /\ \A q \in Q : Scored(ev, q) \subseteq DOMAIN ev
      BY DEF Scored, Labelled, Evaluated
    <3>3. rep.n = Cardinality(Evaluated(ev)) /\ \A q \in Q : rep.per[q].n = Cardinality(Scored(ev, q))
      <4> HIDE DEF Q
      <4> QED BY <2>2 DEF build_report, QuestionMetrics
    <3> QED BY <3>1, <3>2, <3>3, FS_Subset, FS_CardinalityType
  <2>5. promotion_problems(rep, Q) = IF problems = {} /\ ~rep.passes THEN {<<"report">>} ELSE problems
    BY DEF promotion_problems
  <2>6. MinExamples \in Nat /\ MinExamples > 0
    BY EvaluationAssumption
  <2> HIDE DEF rep, Q
  <2>7. problems = {} <=> ~(rep.n < MinExamples) /\ bad = {}
    OBVIOUS
  <2>8. bad = {} <=> \A q \in Q : rep.per[q].meets /\ rep.per[q].n >= MinExamples
    BY <2>4, <2>6
  <2>9. problems = {} <=> rep.passes
    BY <2>3, <2>4, <2>6, <2>7, <2>8
  <2>10. <<"report">> \notin problems
    OBVIOUS
  <2> QED BY <2>5, <2>9, <2>10 DEF rep, Q
<1> QED BY <1>1, SchemaCorrect, PTL

----------------------------------------------------------------------------
(* The author of a question set.                                           *)

\* What is said of a set depends on its questions one by one.
Usable(q) == Structured(q) /\ Answerable(q)
Fit(set) ==
    /\ DOMAIN set # {} /\ Cardinality(DOMAIN set) <= MaxQuestions
    /\ \A x \in DOMAIN set : Parses(set[x]) /\ Usable(set[x])

LEMMA ValidatedAlone ==
    ASSUME NEW set, NEW x \in DOMAIN set, NEW loaded \in BOOLEAN
    PROVE  validate([y \in {x} |-> set[y]], loaded).raises
           <=> ~Structured(set[x]) \/ (loaded /\ ~Answerable(set[x]))
  BY DEF validate

LEMMA ValidIsFit ==
    ASSUME NEW set
    PROVE  laya_validate_questions(set, TRUE).valid <=> Fit(set)
<1> DEFINE parsed == {x \in DOMAIN set : Parses(set[x])}
           sound == {x \in parsed : ~validate([y \in {x} |-> set[y]], TRUE).raises}
<1>1. laya_validate_questions(set, TRUE).valid
      <=> DOMAIN set # {} /\ Cardinality(DOMAIN set) <= MaxQuestions /\ sound = DOMAIN set
  BY DEF laya_validate_questions
<1>2. \A x \in DOMAIN set : x \in sound <=> Parses(set[x]) /\ Usable(set[x])
  BY ValidatedAlone DEF Usable
<1> QED BY <1>1, <1>2 DEF Fit

LEMMA SaveRefuses ==
    ASSUME NEW set, NEW loaded \in BOOLEAN, IsFiniteSet(DOMAIN set)
    PROVE  /\ Fit(set) => ~laya_save_schema(set, loaded).raises
           /\ ~Fit(set) /\ loaded => laya_save_schema(set, loaded).raises
<1>1. Cardinality(DOMAIN set) \in Nat /\ MaxQuestions \in Nat
  BY FS_CardinalityType, QuestionsAssumption
<1>2. validate(set, loaded).raises
      <=> DOMAIN set = {} \/ \E x \in DOMAIN set : ~Structured(set[x]) \/ (loaded /\ ~Answerable(set[x]))
  BY DEF validate
<1>3. laya_save_schema(set, loaded).raises
      <=> \/ DOMAIN set = {} \/ Cardinality(DOMAIN set) > MaxQuestions \/ \E x \in DOMAIN set : ~Parses(set[x])
          \/ validate(set, loaded).raises
  BY DEF laya_save_schema
<1>4. Cardinality(DOMAIN set) > MaxQuestions <=> ~(Cardinality(DOMAIN set) <= MaxQuestions)
  BY <1>1
<1> QED BY <1>2, <1>3, <1>4 DEF Fit, Usable

\* What the author was told about the set by each of the tools so far.
Told(a) == a.told.asked => a.told.loaded \in BOOLEAN /\ (a.told.loaded => (a.told.valid <=> Fit(a.set)))
Used(a) == a.used.asked => (Fit(a.set) => a.used.outcome \notin {"refused", "unanswerable"})
StoredAs(a) ==
    a.saved.asked =>
        /\ a.saved.loaded \in BOOLEAN
        /\ a.saved.refused <=> laya_save_schema(a.set, a.saved.loaded).raises
        /\ a.saved.warnings = laya_save_schema(a.set, a.saved.loaded).warnings
Authored(a) ==
    /\ a = [set |-> a.set, loaded |-> a.loaded, told |-> a.told, saved |-> a.saved, used |-> a.used]
    /\ a.set \in QuestionSets /\ a.loaded \in BOOLEAN
    /\ Told(a) /\ Used(a) /\ StoredAs(a)
AuthorInv == author # None => Authored(author)

LEMMA AuthorInit == Init => AuthorInv
<1> SUFFICES ASSUME Init, author # None PROVE Authored(author)
  BY DEF AuthorInv
<1>1. PICK set \in QuestionSets, loaded \in BOOLEAN :
         author = [set |-> set, loaded |-> loaded, told |-> NotAsked, saved |-> NotAsked, used |-> NotAsked]
  BY DEF Init
<1> QED BY <1>1 DEF Authored, Told, Used, StoredAs, NotAsked

\* The set is written once; each tool adds what it says.
LEMMA AuthorStep ==
    ASSUME AuthorInv, [Next]_vars
    PROVE  AuthorInv'
<1>1. CASE author' = author
  BY <1>1 DEF AuthorInv
<1>2. ASSUME author # None PROVE Authored(author)
  BY <1>2 DEF AuthorInv
<1> DEFINE a == author
           b == author'
<1>3. ASSUME a # None, NEW loaded \in BOOLEAN, NEW told, NEW saved, NEW used,
             b = [a EXCEPT !.loaded = loaded] \/ b = [a EXCEPT !.told = told]
                 \/ b = [a EXCEPT !.saved = saved] \/ b = [a EXCEPT !.used = used]
      PROVE  /\ b = [set |-> a.set, loaded |-> b.loaded, told |-> b.told, saved |-> b.saved, used |-> b.used]
             /\ b.set = a.set
             /\ b = [a EXCEPT !.loaded = loaded] => b.loaded = loaded /\ b.told = a.told /\ b.saved = a.saved /\ b.used = a.used
             /\ b = [a EXCEPT !.told = told] => b.loaded = a.loaded /\ b.told = told /\ b.saved = a.saved /\ b.used = a.used
             /\ b = [a EXCEPT !.saved = saved] => b.loaded = a.loaded /\ b.told = a.told /\ b.saved = saved /\ b.used = a.used
             /\ b = [a EXCEPT !.used = used] => b.loaded = a.loaded /\ b.told = a.told /\ b.saved = a.saved /\ b.used = used
  <2>1. a = [set |-> a.set, loaded |-> a.loaded, told |-> a.told, saved |-> a.saved, used |-> a.used]
    BY <1>2, <1>3 DEF Authored
  <2> HIDE DEF a, b
  <2> QED BY <1>3, <2>1
<1>4. CASE LoadOrUnload
  <2>1. a # None /\ b = [a EXCEPT !.loaded = ~a.loaded] /\ Authored(a) /\ (~a.loaded) \in BOOLEAN
    BY <1>2, <1>4 DEF LoadOrUnload, Writing
  <2>2. /\ b = [set |-> a.set, loaded |-> b.loaded, told |-> b.told, saved |-> b.saved, used |-> b.used]
        /\ b.set = a.set /\ b.loaded = (~a.loaded) /\ b.told = a.told /\ b.saved = a.saved /\ b.used = a.used
    BY <1>3, <2>1
  <2> QED BY <2>1, <2>2 DEF AuthorInv, Authored, Told, Used, StoredAs
<1>5. CASE Validate
  <2> DEFINE r == laya_validate_questions(a.set, a.loaded)
             told == [asked |-> TRUE, loaded |-> a.loaded, valid |-> r.valid, warnings |-> r.warnings]
  <2>1. a # None /\ b = [a EXCEPT !.told = told] /\ Authored(a)
    BY <1>2, <1>5 DEF Validate, Writing
  <2>2. told.loaded = a.loaded /\ (told.valid <=> r.valid)
    OBVIOUS
  <2>3. a.loaded => (r.valid <=> Fit(a.set))
    BY <2>1, ValidIsFit DEF Authored
  <2> HIDE DEF told, r
  <2>4. /\ b = [set |-> a.set, loaded |-> b.loaded, told |-> b.told, saved |-> b.saved, used |-> b.used]
        /\ b.set = a.set /\ b.loaded = a.loaded /\ b.told = told /\ b.saved = a.saved /\ b.used = a.used
    BY <1>3, <2>1
  <2> QED BY <2>1, <2>2, <2>3, <2>4 DEF AuthorInv, Authored, Told, Used, StoredAs
<1>6. CASE Save
  <2> DEFINE r == laya_save_schema(a.set, a.loaded)
             saved == [asked |-> TRUE, loaded |-> a.loaded, refused |-> r.raises, warnings |-> r.warnings]
  <2>1. a # None /\ b = [a EXCEPT !.saved = saved] /\ Authored(a)
    BY <1>2, <1>6 DEF Save, Writing
  <2>2. saved.loaded = a.loaded /\ (saved.refused <=> r.raises) /\ saved.warnings = r.warnings
    OBVIOUS
  <2> HIDE DEF saved
  <2>4. /\ b = [set |-> a.set, loaded |-> b.loaded, told |-> b.told, saved |-> b.saved, used |-> b.used]
        /\ b.set = a.set /\ b.loaded = a.loaded /\ b.told = a.told /\ b.saved = saved /\ b.used = a.used
    BY <1>3, <2>1
  <2> QED BY <2>1, <2>2, <2>4 DEF AuthorInv, Authored, Told, Used, StoredAs
<1>7. CASE \E n \in 0..MaxCall, big \in BOOLEAN : Classify(n, big)
  <2>1. PICK outcome \in
           IF validate(a.set, a.loaded).raises THEN {"refused"}
           ELSE {"busy", "timeout",
                 IF \A x \in DOMAIN a.set : Answerable(a.set[x]) THEN "answered" ELSE "unanswerable"} :
           b = [a EXCEPT !.used = [asked |-> TRUE, loaded |-> a.loaded, outcome |-> outcome]]
    BY <1>7 DEF Classify
  <2> DEFINE used == [asked |-> TRUE, loaded |-> a.loaded, outcome |-> outcome]
  <2>2. a # None /\ Authored(a) /\ b = [a EXCEPT !.used = used]
    BY <1>2, <1>7, <2>1 DEF Classify, Writing
  <2>3. used.outcome = outcome
    OBVIOUS
  <2> HIDE DEF used
  <2>4. /\ b = [set |-> a.set, loaded |-> b.loaded, told |-> b.told, saved |-> b.saved, used |-> b.used]
        /\ b.set = a.set /\ b.loaded = a.loaded /\ b.told = a.told /\ b.saved = a.saved /\ b.used = used
    BY <1>3, <2>2
  <2>5. ASSUME Fit(a.set) PROVE outcome \notin {"refused", "unanswerable"}
    <3>1. ~validate(a.set, a.loaded).raises
      BY <2>5 DEF validate, Fit, Usable
    <3>2. \A x \in DOMAIN a.set : Answerable(a.set[x])
      BY <2>5 DEF Fit, Usable
    <3> QED BY <2>1, <3>1, <3>2
  <2> QED BY <2>2, <2>3, <2>4, <2>5 DEF AuthorInv, Authored, Told, Used, StoredAs
<1>8. \/ LoadOrUnload \/ Validate \/ Save \/ (\E n \in 0..MaxCall, big \in BOOLEAN : Classify(n, big))
      \/ author' = author
  BY RevisesKeep DEF Revises, Ends, Next, vars, use, work, DecideReads, DecideReturns, DecideRaises,
         SubmitBatch, ItemEnds, CancelBatch, ReadVersion, ReadPage, Sample
<1> QED BY <1>1, <1>4, <1>5, <1>6, <1>7, <1>8

LEMMA AuthorCorrect == Spec => []AuthorInv
<1>1. AuthorInv /\ [Next]_vars => AuthorInv'
  BY AuthorStep
<1> QED BY <1>1, AuthorInit, PTL DEF Spec

\* A set that laya_validate_questions called valid, with the checkpoint loaded, is saved
\* and used whatever is loaded then; one it called invalid is not saved.
THEOREM ValidSetsAreUsable == Spec => []ValidMeansUsable
<1>1. AuthorInv => ValidMeansUsable
  <2> SUFFICES ASSUME Authored(author), author.told.asked, author.told.loaded
               PROVE  IF author.told.valid
                      THEN /\ author.used.asked => author.used.outcome \notin {"refused", "unanswerable"}
                           /\ author.saved.asked => ~author.saved.refused
                      ELSE author.saved.asked /\ author.saved.loaded => author.saved.refused
    BY DEF AuthorInv, ValidMeansUsable
  <2>1. author.told.valid <=> Fit(author.set)
    BY DEF Authored, Told
  <2>2. IsFiniteSet(DOMAIN author.set)
    BY DecisionsAssumption DEF Authored
  <2>3. author.saved.asked => /\ Fit(author.set) => ~author.saved.refused
                              /\ ~Fit(author.set) /\ author.saved.loaded => author.saved.refused
    BY <2>2, SaveRefuses DEF Authored, StoredAs
  <2> QED BY <2>1, <2>3 DEF Authored, Used
<1> QED BY <1>1, AuthorCorrect, PTL

\* Without a warning about its layout a question is read in full.
NotWarned(q) ==
    \A w \in {"options cut", "long option", "instructions cut", "little room"} : w \notin layout_warnings(q)
LEMMA NotWarnedIsRead ==
    ASSUME NEW q, q.tokens \in Seq(Nat), q.instructions \in Nat, NotWarned(q)
    PROVE  FullyRead(q)
<1> DEFINE lens == Lengths(q)
           sum == SumFunction(lens)
           kept == option_layout(q).kept
           room == option_layout(q).room
<1>1. /\ ~Capped(q)
      /\ \A i \in DOMAIN q.tokens : ~(q.tokens[i] > OptionCap)
      /\ ~(kept < q.instructions) /\ ~(room < MinStateRoom)
  <2> HIDE DEF kept, room
  <2>1. /\ Capped(q) => "options cut" \in layout_warnings(q)
        /\ (\E i \in DOMAIN q.tokens : q.tokens[i] > OptionCap) => "long option" \in layout_warnings(q)
        /\ kept < q.instructions => "instructions cut" \in layout_warnings(q)
        /\ room < MinStateRoom => "little room" \in layout_warnings(q)
    BY DEF layout_warnings, kept, room
  <2> QED BY <2>1 DEF NotWarned
<1>2. \A i \in DOMAIN q.tokens : q.tokens[i] \in Nat /\ OptionCap \in Nat
  BY QuestionsAssumption
<1>3. lens = Uncut(q)
  BY <1>1 DEF Lengths
<1>4. DOMAIN lens = DOMAIN q.tokens /\ \A i \in DOMAIN q.tokens : lens[i] = 1 + q.tokens[i] /\ lens[i] \in Nat
  <2>1. \A i \in DOMAIN q.tokens : AtMost(OptionCap, q.tokens[i]) = q.tokens[i]
    BY <1>1, <1>2 DEF AtMost
  <2> QED BY <1>2, <1>3, <2>1 DEF Uncut
<1>5. IsFiniteSet(DOMAIN q.tokens)
  <2>1. DOMAIN q.tokens = 1..Len(q.tokens) /\ Len(q.tokens) \in Int /\ 1 \in Int
    OBVIOUS
  <2> QED BY <2>1, FS_Interval
<1>6. sum \in Nat
  <2> HIDE DEF lens
  <2> QED BY <1>4, <1>5, SumIsNatural
<1>7. /\ kept = AtMost(q.instructions, AtLeast(HeadFloor, HeadMax - sum))
      /\ room = AtLeast(0, InputMax - (2 + kept + sum + 1) - 1)
  BY DEF option_layout
<1>8. HeadFloor \in Nat /\ HeadMax \in Nat /\ InputMax \in Nat /\ MinStateRoom \in Nat /\ MinStateRoom # 0
  BY QuestionsAssumption
<1> HIDE DEF sum, kept, room
<1>9. kept = q.instructions
  <2>1. AtLeast(HeadFloor, HeadMax - sum) \in Int
    BY <1>6, <1>8 DEF AtLeast
  <2> QED BY <1>1, <1>7, <2>1 DEF AtMost
<1>10. 2 + q.instructions + sum + 1 <= InputMax
  <2> DEFINE left == InputMax - (2 + kept + sum + 1) - 1
  <2>1. left \in Int
    BY <1>6, <1>8, <1>9
  <2>2. room = AtLeast(0, left)
    BY <1>7
  <2>3. left > 0
    <3> HIDE DEF left
    <3> QED BY <1>1, <1>8, <2>1, <2>2 DEF AtLeast
  <2> QED BY <1>6, <1>8, <1>9, <2>3
<1> QED BY <1>4, <1>9, <1>10 DEF FullyRead, sum, kept

\* A set saved without a word about its token budget is read in full.
THEOREM CutsAreTold == Spec => []NoSilentCut
<1>1. AuthorInv => NoSilentCut
  <2> DEFINE words == {"not checked", "options cut", "long option", "instructions cut", "little room"}
             set == author.set
             loaded == author.saved.loaded
  <2> SUFFICES ASSUME Authored(author), author.saved.asked, ~author.saved.refused,
                      \A w \in words : w \notin author.saved.warnings, NEW x \in DOMAIN set
               PROVE  FullyRead(set[x])
    BY DEF AuthorInv, NoSilentCut
  <2>1. /\ loaded \in BOOLEAN /\ ~laya_save_schema(set, loaded).raises
        /\ author.saved.warnings = laya_save_schema(set, loaded).warnings /\ set \in QuestionSets
    BY DEF Authored, StoredAs
  <2>2. laya_save_schema(set, loaded) = validate(set, loaded)
    <3> HIDE DEF set, loaded
    <3> QED BY <2>1 DEF laya_save_schema
  <2> HIDE DEF set, loaded
  <2>3. (\A w \in words : w \notin validate(set, loaded).warnings) /\ ~validate(set, loaded).raises
    BY <2>1, <2>2
  <2>4. validate(set, loaded).warnings
        = (IF Cardinality(DOMAIN set) > MaxQuestions THEN {"too many"} ELSE {})
          \cup (UNION {structural_warnings(set[y]) : y \in DOMAIN set})
          \cup (IF loaded THEN UNION {layout_warnings(set[y]) : y \in DOMAIN set} ELSE {"not checked"})
    BY <2>3 DEF validate
  <2>5. loaded /\ layout_warnings(set[x]) \subseteq validate(set, loaded).warnings
    <3> DEFINE W == validate(set, loaded).warnings
               one == {structural_warnings(set[y]) : y \in DOMAIN set}
               all == {layout_warnings(set[y]) : y \in DOMAIN set}
               many == IF Cardinality(DOMAIN set) > MaxQuestions THEN {"too many"} ELSE {}
    <3>1. W = many \cup (UNION one) \cup (IF loaded THEN UNION all ELSE {"not checked"})
      BY <2>4
    <3>2. layout_warnings(set[x]) \in all
      OBVIOUS
    <3>3. \A w \in words : w \notin W
      BY <2>3
    <3> HIDE DEF W, one, all, many
    <3>4. loaded
      <4>1. ~loaded => "not checked" \in W
        BY <3>1
      <4> QED BY <3>3, <4>1
    <3>5. W = many \cup (UNION one) \cup (UNION all)
      BY <3>1, <3>4
    <3>6. layout_warnings(set[x]) \subseteq W
      BY <3>2, <3>5, Zenon
    <3> QED BY <3>4, <3>6 DEF W
  <2>6. NotWarned(set[x])
    BY <2>3, <2>5 DEF NotWarned
  <2>7. set[x].tokens \in Seq(Nat) /\ set[x].instructions \in Nat
    BY <2>1, DecisionsAssumption
  <2> QED BY <2>6, <2>7, NotWarnedIsRead
<1> QED BY <1>1, AuthorCorrect, PTL

----------------------------------------------------------------------------
(* The batch job.                                                          *)

JobInv ==
    job # None =>
        /\ schema # None
        /\ job = [bySchema |-> job.bySchema, cancelled |-> job.cancelled, items |-> job.items]
        /\ IsFiniteSet(DOMAIN job.items) /\ DOMAIN job.items \subseteq Nat
        /\ \A i \in Done(job.items) : Answered(schema.questions, job.items[i].answers)

\* What is done stays as it is, and a job that finished does not change at all.
JobKept ==
    job # None =>
        /\ job' # None /\ Done(job.items) \subseteq Done(job'.items)
        /\ \A i \in Done(job.items) : job'.items[i] = job.items[i]
        /\ Finished => job' = job

LEMMA JobInit == Init => JobInv
  BY DEF Init, JobInv

LEMMA JobStep ==
    ASSUME SchemaInv, JobInv, [Next]_vars
    PROVE  JobInv' /\ JobKept
<1>0. /\ schema # None => schema' # None /\ schema'.questions = schema.questions
      /\ schema # None => schema.questions \in DOMAIN Evidences
  BY SchemaStep DEF SchemaInv
<1>1. CASE job' = job
  BY <1>0, <1>1 DEF JobInv, JobKept
<1>2. CASE SubmitBatch
  <2>1. PICK n \in 1..MaxItems, bySchema \in BOOLEAN :
           job' = [bySchema |-> bySchema, cancelled |-> FALSE, items |-> [i \in 1..n |-> Pending]]
    BY <1>2 DEF SubmitBatch
  <2>2. job = None /\ schema # None
    BY <1>2 DEF SubmitBatch
  <2> DEFINE items == [i \in 1..n |-> Pending]
  <2>3. DOMAIN items = 1..n /\ Done(items) = {}
    BY DEF Done, Pending
  <2>4. IsFiniteSet(1..n) /\ 1..n \subseteq Nat
    BY FS_Interval
  <2> HIDE DEF items
  <2>5. job'.items = items /\ job' = [bySchema |-> job'.bySchema, cancelled |-> job'.cancelled, items |-> job'.items]
    BY <2>1 DEF items
  <2> QED BY <1>0, <2>2, <2>3, <2>4, <2>5 DEF JobInv, JobKept
<1>3. CASE ItemEnds
  <2>1. job # None /\ ~job.cancelled
    BY <1>3 DEF ItemEnds
  <2>2. PICK i \in DOMAIN job.items :
           /\ job.items[i] = Pending
           /\ \/ job' = [job EXCEPT !.items[i] = Failed]
              \/ \E answers \in Answers[schema.questions] :
                   job' = [job EXCEPT !.items[i] = [state |-> "done", answers |-> answers]]
    BY <1>3 DEF ItemEnds
  <2>3. PICK new : /\ job' = [job EXCEPT !.items[i] = new]
                   /\ new.state = "done" => new.answers \in Answers[schema.questions]
    <3>1. CASE job' = [job EXCEPT !.items[i] = Failed]
      <4>1. Failed.state # "done"
        BY DEF Failed
      <4> QED BY <3>1, <4>1
    <3>2. ASSUME NEW answers \in Answers[schema.questions],
                 job' = [job EXCEPT !.items[i] = [state |-> "done", answers |-> answers]]
          PROVE  \E new : /\ job' = [job EXCEPT !.items[i] = new]
                          /\ new.state = "done" => new.answers \in Answers[schema.questions]
      <4> DEFINE new == [state |-> "done", answers |-> answers]
      <4>1. new.answers = answers
        OBVIOUS
      <4> HIDE DEF new
      <4> QED BY <3>2, <4>1 DEF new
    <3> QED BY <2>2, <3>1, <3>2
  <2>4. job = [bySchema |-> job.bySchema, cancelled |-> job.cancelled, items |-> job.items] /\ schema # None
    BY <2>1 DEF JobInv
  <2>5. /\ job' = [bySchema |-> job.bySchema, cancelled |-> job.cancelled, items |-> [job.items EXCEPT ![i] = new]]
        /\ job'.items = [job.items EXCEPT ![i] = new] /\ job' # None
    BY <2>3, <2>4 DEF None
  <2>6. /\ DOMAIN job'.items = DOMAIN job.items /\ job'.items[i] = new
        /\ \A k \in DOMAIN job.items \ {i} : job'.items[k] = job.items[k]
    BY <2>2, <2>5
  <2>7. i \notin Done(job.items) /\ ~Finished
    BY <2>1, <2>2 DEF Done, Pending, Finished
  <2>8. Done(job.items) \subseteq Done(job'.items) /\ \A k \in Done(job.items) : job'.items[k] = job.items[k]
    BY <2>6, <2>7 DEF Done
  <2>9. ASSUME NEW k \in Done(job'.items) PROVE Answered(schema.questions, job'.items[k].answers)
    <3>1. k \in DOMAIN job.items /\ job'.items[k].state = "done"
      BY <2>6 DEF Done
    <3>2. CASE k = i
      BY <1>0, <2>3, <2>4, <2>6, <3>1, <3>2, DecisionsAssumption
    <3>3. CASE k # i
      BY <2>1, <2>6, <3>1, <3>3 DEF JobInv, Done
    <3> QED BY <3>2, <3>3
  <2>10. JobInv'
    BY <1>0, <2>1, <2>4, <2>5, <2>6, <2>9 DEF JobInv
  <2> QED BY <2>5, <2>7, <2>8, <2>10 DEF JobKept
<1>4. CASE CancelBatch
  <2>1. job # None /\ ~Finished /\ job' = [job EXCEPT !.cancelled = TRUE]
    BY <1>4 DEF CancelBatch
  <2>2. job = [bySchema |-> job.bySchema, cancelled |-> job.cancelled, items |-> job.items] /\ schema # None
    BY <2>1 DEF JobInv
  <2>3. job' = [bySchema |-> job.bySchema, cancelled |-> TRUE, items |-> job.items]
    BY <2>1, <2>2
  <2>4. /\ job'.items = job.items /\ job' # None
        /\ job' = [bySchema |-> job'.bySchema, cancelled |-> job'.cancelled, items |-> job'.items]
    BY <2>3 DEF None
  <2> QED BY <1>0, <2>1, <2>2, <2>4 DEF JobInv, JobKept
<1>5. SubmitBatch \/ ItemEnds \/ CancelBatch \/ job' = job
  BY RevisesKeep DEF Revises, Ends, Next, vars, use, work, LoadOrUnload, Validate, Save, Classify, DecideReads,
         DecideReturns, DecideRaises, ReadVersion, ReadPage, Sample
<1> QED BY <1>1, <1>2, <1>3, <1>4, <1>5

LEMMA JobCorrect == Spec => []JobInv
<1>1. SchemaInv /\ JobInv /\ [Next]_vars => JobInv'
  BY JobStep
<1> QED BY <1>1, JobInit, SchemaCorrect, PTL DEF Spec

----------------------------------------------------------------------------
(* Reading the results page by page.                                       *)

Pages == Matched(reader.info, reader.filter)

\* The items that match, how many of them come before one, and what a client has.
Found == Matching(reader.info, reader.filter)
Rank(i, M) == Cardinality({j \in M : j < i})
Prefix(r, s) ==
    IF r.pc = "done" THEN r.got = s ELSE r.offset \in 0..Len(s) /\ r.got = SubSeq(s, 1, r.offset)
NotMissed(r, M) ==
    \A i \in r.there \cap M : i \in Range(r.got) \/ (r.pc # "done" /\ Rank(i, M) >= r.offset)
Comparable(r) == r.kept \/ ~r.filter.review
Shaped(r) ==
    /\ r = [pc |-> r.pc, filter |-> r.filter, offset |-> r.offset, got |-> r.got, info |-> r.info,
            finished |-> r.finished, kept |-> r.kept, there |-> r.there]
    /\ r.offset \in Nat /\ r.got \in Seq(Nat)

\* What a client has of a finished job is a prefix of the matching items, up to
\* the offset it will ask for next, and all of them once there is no next page.  Of a
\* job that runs it has every item that was done when it began, unless so many
\* matching items come before that one that it lies beyond the offset.
ReaderInv ==
    /\ Shaped(reader)
    /\ reader.pc = "idle" => reader = Closed
    /\ reader.pc # "idle" =>
         /\ job # None /\ reader.filter \in Filters
         /\ \A i \in reader.there : i \in Done(job.items)
         /\ reader.finished => Finished
         /\ Comparable(reader) => (reader.finished => Prefix(reader, Pages)) /\ NotMissed(reader, Found)

LEMMA DoneAreFinite ==
    ASSUME JobInv, job # None
    PROVE  IsFiniteSet(Done(job.items)) /\ Done(job.items) \subseteq Nat
<1>1. Done(job.items) \in SUBSET DOMAIN job.items
  BY DEF Done
<1> QED BY <1>1, FS_Subset DEF JobInv

LEMMA FoundAreFinite ==
    ASSUME JobInv, job # None, NEW info, NEW f
    PROVE  IsFiniteSet(Matching(info, f)) /\ Matching(info, f) \subseteq Nat
<1> DEFINE S == Matching(info, f)
<1>1. S \in SUBSET Done(job.items)
  BY DEF Matching
<1> HIDE DEF S
<1>2. IsFiniteSet(S) /\ S \subseteq Nat
  BY <1>1, DoneAreFinite, FS_Subset
<1> QED BY <1>2 DEF S

LEMMA MatchedInOrder ==
    ASSUME JobInv, job # None, NEW info, NEW f
    PROVE  /\ Matched(info, f) \in Seq(Matching(info, f))
           /\ InOrder(Matched(info, f), Matching(info, f), Before(Matching(info, f)))
<1> DEFINE S == Matching(info, f)
<1>1. IsFiniteSet(S) /\ S \subseteq Nat
  BY FoundAreFinite
<1>2. Matched(info, f) = Sorted(S, Before(S))
  BY DEF Matched
<1> HIDE DEF S
<1>3. Orders(Before(S), S)
  BY <1>1 DEF Orders, Before
<1>4. Sorted(S, Before(S)) \in [1..Cardinality(S) -> S] /\ InOrder(Sorted(S, Before(S)), S, Before(S))
  BY <1>1, <1>3, SortedExists
<1>5. Cardinality(S) \in Nat
  BY <1>1, FS_CardinalityType
<1>6. Sorted(S, Before(S)) \in Seq(S)
  <2> DEFINE s == Sorted(S, Before(S))
             n == Cardinality(S)
  <2>1. s \in [1..n -> S] /\ n \in Nat
    BY <1>4, <1>5
  <2> HIDE DEF s, n
  <2>2. s \in Seq(S)
    BY <2>1
  <2> QED BY <2>2 DEF s
<1> QED BY <1>2, <1>4, <1>6 DEF S

\* The next page: up to the next offset, or to the end when there is none.
LEMMA PageFollows ==
    ASSUME NEW S, NEW s \in Seq(S), NEW o \in 0..Len(s)
    PROVE  IF NextOffset(s, o) = -1 THEN SubSeq(s, 1, o) \o Page(s, o) = s
           ELSE /\ NextOffset(s, o) \in 0..Len(s)
                /\ SubSeq(s, 1, o) \o Page(s, o) = SubSeq(s, 1, NextOffset(s, o))
<1> DEFINE e == AtMost(o + PageSize, Len(s))
<1>0. PageSize \in Nat /\ PageSize > 0 /\ Len(s) \in Nat
  BY DecisionsAssumption
<1>1. e \in o..Len(s) /\ Page(s, o) = SubSeq(s, o + 1, e)
  BY <1>0 DEF AtMost, Page
<1>2. SubSeq(s, 1, o) \o Page(s, o) = SubSeq(s, 1, e)
  <2> HIDE DEF e
  <2>1. 1 \in 1..Len(s) + 1 /\ o \in (1 - 1)..Len(s)
    BY <1>0
  <2> QED BY <1>1, <2>1, ConcatAdjacentSubSeq
<1>3. CASE o + PageSize < Len(s)
  <2>1. NextOffset(s, o) = o + PageSize /\ NextOffset(s, o) # -1 /\ e = o + PageSize /\ o + PageSize \in 0..Len(s)
    BY <1>0, <1>3 DEF NextOffset, AtMost
  <2> HIDE DEF e
  <2> QED BY <1>2, <2>1
<1>4. CASE ~(o + PageSize < Len(s))
  <2>1. NextOffset(s, o) = -1 /\ e = Len(s)
    BY <1>0, <1>4 DEF NextOffset, AtMost
  <2>2. SubSeq(s, 1, Len(s)) = s
    BY SubSeqFull
  <2> HIDE DEF e
  <2> QED BY <1>2, <2>1, <2>2
<1> QED BY <1>3, <1>4

LEMMA RankIsNumber ==
    ASSUME NEW M, IsFiniteSet(M), NEW i
    PROVE  IsFiniteSet({j \in M : j < i}) /\ Rank(i, M) \in Nat
<1>1. {j \in M : j < i} \in SUBSET M
  OBVIOUS
<1> QED BY <1>1, FS_Subset, FS_CardinalityType DEF Rank

\* The place of an item in the list says how many come before it.
LEMMA RankOfPlace ==
    ASSUME NEW M, M \subseteq Nat, IsFiniteSet(M), NEW n \in Nat, NEW s \in [1..n -> M], InOrder(s, M, Before(M)),
           NEW a \in 1..n
    PROVE  Rank(s[a], M) = a - 1
<1> DEFINE B == {j \in M : j < s[a]}
           g == [b \in 1..(a - 1) |-> s[b]]
<1>1. \A b, c \in 1..n : b < c => s[b] < s[c]
  <2> SUFFICES ASSUME NEW b \in 1..n, NEW c \in 1..n, b < c PROVE s[b] < s[c]
    OBVIOUS
  <2>1. <<s[b], s[c]>> \in Before(M)
    BY DEF InOrder
  <2> QED BY <2>1 DEF Before
<1>2. a - 1 \in Nat /\ \A b \in 1..(a - 1) : b \in 1..n /\ b < a
  OBVIOUS
<1>3. \A b \in 1..(a - 1) : g[b] = s[b] /\ s[b] \in B
  BY <1>1, <1>2
<1>4. ASSUME NEW j \in B PROVE \E b \in 1..(a - 1) : g[b] = j
  <2>1. PICK b \in 1..n : s[b] = j
    BY DEF InOrder, Range
  <2>2. b < a
    <3> SUFFICES ASSUME ~(b < a) PROVE FALSE
      OBVIOUS
    <3>1. s[a] \in Nat /\ s[b] \in Nat /\ (a < b => s[a] < s[b]) /\ (a = b => s[a] = s[b])
      BY <1>1
    <3>2. a < b \/ a = b
      OBVIOUS
    <3> QED BY <2>1, <3>1, <3>2
  <2>3. b \in 1..(a - 1)
    BY <2>2
  <2> QED BY <1>3, <2>1, <2>3
<1>5. ASSUME NEW b \in 1..(a - 1), NEW c \in 1..(a - 1), g[b] = g[c] PROVE b = c
  <2>1. s[b] = s[c] /\ b \in 1..n /\ c \in 1..n /\ s[b] \in Nat /\ s[c] \in Nat
    BY <1>2, <1>3, <1>5
  <2>2. ~(b < c) /\ ~(c < b)
    BY <1>1, <2>1
  <2> QED BY <2>2
<1>6. g \in [1..(a - 1) -> B]
  BY <1>3
<1> HIDE DEF g, B
<1>7. g \in Bijection(1..(a - 1), B)
  BY <1>4, <1>5, <1>6 DEF Bijection, Injection, Surjection, IsInjective
<1>8. ExistsBijection(1..(a - 1), B)
  BY <1>7 DEF ExistsBijection
<1>9. Cardinality(B) = a - 1
  BY <1>2, <1>8, FS_CountingElements
<1> QED BY <1>9 DEF Rank, B

\* More items that match only move an item on.
LEMMA StillNotMissed ==
    ASSUME NEW r, r.offset \in Nat, NEW M, NEW N, M \subseteq N, N \subseteq Nat, IsFiniteSet(N),
           \A i \in r.there : i \in N => i \in M, NotMissed(r, M)
    PROVE  NotMissed(r, N)
<1> SUFFICES ASSUME NEW i \in r.there \cap N, i \notin Range(r.got)
             PROVE  r.pc # "done" /\ Rank(i, N) >= r.offset
  BY DEF NotMissed
<1>1. r.pc # "done" /\ Rank(i, M) >= r.offset
  BY DEF NotMissed
<1>2. IsFiniteSet(M)
  BY FS_Subset
<1>3. {j \in M : j < i} \in SUBSET {j \in N : j < i}
  OBVIOUS
<1>4. IsFiniteSet({j \in N : j < i}) /\ Rank(i, N) \in Nat /\ Rank(i, M) \in Nat
  BY <1>2, RankIsNumber
<1>5. Rank(i, M) <= Rank(i, N)
  BY <1>3, <1>4, FS_Subset DEF Rank
<1> QED BY <1>1, <1>4, <1>5

\* A page has the items from its offset on; the others lie beyond the next offset.
LEMMA PageLeavesBehind ==
    ASSUME NEW r, r.pc # "done", r.offset \in Nat, r.got \in Seq(Nat), NEW M, M \subseteq Nat, IsFiniteSet(M),
           NEW s, s \in Seq(M), InOrder(s, M, Before(M)), NotMissed(r, M),
           NEW t, t.there = r.there, t.got = r.got \o Page(s, r.offset),
           t.pc = IF NextOffset(s, r.offset) = -1 THEN "done" ELSE "next",
           t.offset = IF NextOffset(s, r.offset) = -1 THEN r.offset ELSE NextOffset(s, r.offset)
    PROVE  NotMissed(t, M) /\ t.got \in Seq(Nat) /\ t.offset \in Nat
<1> DEFINE o == r.offset
           page == Page(s, o)
           e == AtMost(o + PageSize, Len(s))
<1>0. PageSize \in Nat /\ PageSize > 0 /\ Len(s) \in Nat /\ o \in Nat /\ s \in [1..Len(s) -> M]
  BY DecisionsAssumption
<1>1. e \in Nat /\ e <= Len(s) /\ e <= o + PageSize
  BY <1>0 DEF AtMost
<1>2. page = SubSeq(s, o + 1, e)
  BY DEF Page
<1> HIDE DEF e
<1> HIDE DEF page, o
<1>3. /\ page \in Seq(Nat) /\ Len(page) = IF o + 1 <= e THEN e - (o + 1) + 1 ELSE 0
      /\ \A k \in 1..e - (o + 1) + 1 : page[k] = s[o + 1 + k - 1]
  <2>1. \A k \in (o + 1)..e : s[k] \in Nat
    <3> SUFFICES ASSUME NEW k \in (o + 1)..e PROVE s[k] \in Nat
      OBVIOUS
    <3>1. k \in 1..Len(s)
      BY <1>0, <1>1
    <3>2. s[k] \in M
      BY <1>0, <3>1
    <3> QED BY <3>2
  <2> DEFINE l == o + 1
  <2>2. l \in Int /\ e \in Int /\ \A k \in l..e : s[k] \in Nat
    BY <1>0, <1>1, <2>1
  <2>3. page = SubSeq(s, l, e)
    BY <1>2
  <2> HIDE DEF l
  <2>4. /\ page \in Seq(Nat) /\ Len(page) = IF l <= e THEN e - l + 1 ELSE 0
        /\ \A k \in 1..e - l + 1 : page[k] = s[l + k - 1]
    BY <2>2, <2>3, SubSeqProperties
  <2> QED BY <2>4 DEF l
<1>4. page \in Seq(Nat)
  BY <1>3
<1>5. /\ t.got \in Seq(Nat) /\ Len(t.got) = Len(r.got) + Len(page) /\ Len(r.got) \in Nat /\ Len(page) \in Nat
      /\ \A k \in 1..Len(r.got) + Len(page) :
            t.got[k] = IF k <= Len(r.got) THEN r.got[k] ELSE page[k - Len(r.got)]
  <2> DEFINE g == r.got
  <2>1. g \in Seq(Nat) /\ t.got = g \o page
    BY DEF page, o
  <2> HIDE DEF g
  <2>2. /\ g \o page \in Seq(Nat) /\ Len(g \o page) = Len(g) + Len(page) /\ Len(g) \in Nat /\ Len(page) \in Nat
        /\ \A k \in 1..Len(g) + Len(page) : (g \o page)[k] = IF k <= Len(g) THEN g[k] ELSE page[k - Len(g)]
    BY <1>4, <2>1
  <2> QED BY <2>1, <2>2 DEF g
<1>6. t.offset \in Nat
  BY <1>0 DEF NextOffset, o
<1> DEFINE new == t.got
<1>7. new \in Seq(Nat) /\ DOMAIN new = 1..Len(r.got) + Len(page)
  <2>1. new \in Seq(Nat) /\ Len(new) = Len(r.got) + Len(page)
    BY <1>5
  <2> HIDE DEF new
  <2> QED BY <2>1
<1> HIDE DEF new
<1>8. ASSUME NEW i \in r.there \cap M, i \notin Range(t.got)
      PROVE  t.pc # "done" /\ Rank(i, M) >= t.offset
  <2>1. i \notin Range(r.got)
    <3> SUFFICES ASSUME NEW k \in DOMAIN r.got, r.got[k] = i PROVE FALSE
      BY DEF Range
    <3>1. k \in 1..Len(r.got)
      OBVIOUS
    <3>2. k \in 1..Len(r.got) + Len(page) /\ k <= Len(r.got)
      BY <1>5, <3>1
    <3>3. k \in DOMAIN new /\ new[k] = i
      BY <1>5, <1>7, <3>2 DEF new
    <3> QED BY <1>8, <3>3 DEF Range, new
  <2>2. Rank(i, M) >= o
    BY <2>1 DEF NotMissed, o
  <2>3. PICK a \in 1..Len(s) : s[a] = i
    BY <1>0 DEF InOrder, Range
  <2>4. Rank(i, M) = a - 1
    BY <1>0, <2>3, RankOfPlace
  <2>5. a >= o + 1
    BY <1>0, <2>2, <2>4
  <2>6. a > o + PageSize
    <3> SUFFICES ASSUME ~(a > o + PageSize) PROVE FALSE
      OBVIOUS
    <3>1. a <= e
      BY <1>0 DEF e, AtMost
    <3> DEFINE k == a - o
    <3>2. k \in 1..e - (o + 1) + 1 /\ o + 1 + k - 1 = a /\ o + 1 <= e
      BY <1>0, <1>1, <2>5, <3>1
    <3>3. page[k] = i /\ k \in 1..Len(page)
      BY <1>0, <1>1, <1>3, <2>3, <3>2
    <3> HIDE DEF k
    <3> DEFINE l == Len(r.got) + k
    <3>4. l \in 1..Len(r.got) + Len(page) /\ ~(l <= Len(r.got)) /\ l - Len(r.got) = k
      BY <1>5, <3>3
    <3> HIDE DEF l
    <3>5. new[l] = page[k] /\ l \in DOMAIN new
      BY <1>5, <1>7, <3>4 DEF new
    <3> QED BY <1>8, <3>3, <3>5 DEF Range, new
  <2>7. o + PageSize < Len(s)
    BY <1>0, <2>6
  <2>8. NextOffset(s, o) = o + PageSize /\ NextOffset(s, o) # -1
    BY <1>0, <2>7 DEF NextOffset
  <2>9. t.pc = "next" /\ t.offset = o + PageSize
    BY <2>8 DEF o
  <2> QED BY <1>0, <2>4, <2>6, <2>9
<1> QED BY <1>5, <1>6, <1>8 DEF NotMissed

LEMMA ReaderInit == Init => ReaderInv
<1>1. <<>> \in Seq(Nat)
  OBVIOUS
<1> QED BY <1>1 DEF Init, ReaderInv, Shaped, Closed

\* Which items match depends on the version only when those that need review are wanted.
LEMMA FoundSame ==
    ASSUME job' = job, reader'.filter = reader.filter, reader'.info = reader.info \/ ~reader.filter.review
    PROVE  Found' = Found /\ Pages' = Pages
<1>1. Matching(reader'.info, reader.filter) = Matching(reader.info, reader.filter)
  BY DEF Matching, Matches
<1>2. Found' = Matching(reader'.info, reader'.filter) /\ Pages' = Matched(reader'.info, reader'.filter)
  BY DEF Found, Pages, Matched, Matching, Matches, ItemOf, Done
<1> QED BY <1>1, <1>2 DEF Found, Pages, Matched

LEMMA FoundGrows ==
    ASSUME JobKept, job # None, reader' = reader
    PROVE  /\ Found \subseteq Found'
           /\ \A i \in Done(job.items) : i \in Found' => i \in Found
<1> DEFINE info == reader.info
           f == reader.filter
<1>1. Found' = {i \in Done(job'.items) : Matches(i, info, f)'}
  BY DEF Found, Matching, Matches, ItemOf, Done
<1>2. ASSUME NEW i \in Done(job.items) PROVE i \in Done(job'.items) /\ (Matches(i, info, f)' <=> Matches(i, info, f))
  <2>1. i \in Done(job'.items) /\ job'.items[i] = job.items[i]
    BY DEF JobKept
  <2> QED BY <2>1 DEF Matches, ItemOf
<1> HIDE DEF info, f
<1>3. Found = {i \in Done(job.items) : Matches(i, info, f)}
  BY DEF Found, Matching, info, f
<1> QED BY <1>1, <1>2, <1>3

LEMMA ReaderStep ==
    ASSUME SchemaInv, JobInv, ReaderInv, [Next]_vars
    PROVE  ReaderInv'
<1>0. JobKept /\ JobInv'
  BY JobStep
<1>1. CASE reader' = reader
  <2>1. CASE reader.pc = "idle"
    BY <1>1, <2>1 DEF ReaderInv, Shaped
  <2>2. CASE reader.pc # "idle"
    <3>1. /\ job # None /\ job' # None /\ reader.filter \in Filters /\ Shaped(reader)
          /\ \A i \in reader.there : i \in Done(job.items) /\ i \in Done(job'.items)
          /\ reader.finished => Finished
          /\ Comparable(reader) => (reader.finished => Prefix(reader, Pages)) /\ NotMissed(reader, Found)
      BY <1>0, <2>2 DEF ReaderInv, JobKept
    <3>2. ASSUME reader.finished PROVE Finished' /\ Pages' = Pages
      <4>1. job' = job
        BY <1>0, <3>1, <3>2 DEF JobKept
      <4> QED BY <1>1, <3>1, <3>2, <4>1, FoundSame DEF Finished
    <3>3. ASSUME Comparable(reader) PROVE NotMissed(reader, Found')
      <4>2. IsFiniteSet(Found') /\ Found' \subseteq Nat
        <5>1. IsFiniteSet(DOMAIN job'.items) /\ DOMAIN job'.items \subseteq Nat
          BY <1>0, <3>1 DEF JobInv
        <5>2. Found' \in SUBSET DOMAIN job'.items
          BY DEF Found, Matching, Done
        <5> HIDE DEF Found
        <5> QED BY <5>1, <5>2, FS_Subset
      <4>3. Found \subseteq Found' /\ \A i \in reader.there : i \in Found' => i \in Found
        BY <1>0, <1>1, <3>1, FoundGrows
      <4>4. reader.offset \in Nat /\ NotMissed(reader, Found)
        BY <3>1, <3>3 DEF Shaped
      <4> QED BY <4>2, <4>3, <4>4, StillNotMissed
    <3> HIDE DEF Found
    <3>4. Comparable(reader') <=> Comparable(reader)
      BY <1>1
    <3>5. NotMissed(reader, Found)' <=> NotMissed(reader, Found')
      BY <1>1 DEF NotMissed, Rank
    <3> QED BY <1>1, <2>2, <3>1, <3>2, <3>3, <3>4, <3>5 DEF ReaderInv
  <2> QED BY <2>1, <2>2
<1>2. CASE ReadVersion
  <2>0. job # None /\ job' = job /\ (Finished' <=> Finished)
    BY <1>2 DEF ReadVersion, Finished
  <2>1. ASSUME reader.pc = "idle", NEW f \in Filters,
               reader' = [reader EXCEPT !.pc = "results", !.filter = f, !.info = Reading,
                                        !.finished = Finished, !.there = Done(job.items)]
        PROVE  ReaderInv'
    <3>1. reader = Closed
      BY <2>1 DEF ReaderInv
    <3> DEFINE info == Reading
               finished == Finished
               there == Done(job.items)
    <3>2. reader' = [pc |-> "results", filter |-> f, offset |-> 0, got |-> <<>>, info |-> info,
                     finished |-> finished, kept |-> TRUE, there |-> there]
      BY <2>1, <3>1 DEF Closed
    <3> HIDE DEF info, finished, there
    <3>3. /\ reader'.pc = "results" /\ reader'.filter = f /\ reader'.offset = 0 /\ reader'.got = <<>>
          /\ reader'.info = info /\ reader'.finished = finished /\ reader'.kept = TRUE /\ reader'.there = there
      BY <3>2
    <3>4. Shaped(reader')
      <4>1. reader' = [pc |-> reader'.pc, filter |-> reader'.filter, offset |-> reader'.offset, got |-> reader'.got,
                       info |-> reader'.info, finished |-> reader'.finished, kept |-> reader'.kept,
                       there |-> reader'.there]
        BY <3>2, <3>3
      <4>2. reader'.offset \in Nat /\ reader'.got \in Seq(Nat)
        BY <3>3
      <4> QED BY <4>1, <4>2 DEF Shaped
    <3>5. Prefix(reader', Pages')
      <4>1. Pages' = Matched(reader'.info, reader'.filter)
        BY <2>0 DEF Pages, Matched, Matching, Matches, ItemOf, Done
      <4>2. Matched(reader'.info, reader'.filter) \in Seq(Matching(reader'.info, reader'.filter))
        BY <2>0, MatchedInOrder
      <4>3. SubSeq(Pages', 1, 0) = <<>>
        BY SubSeqEmpty
      <4>4. Len(Pages') \in Nat
        BY <4>1, <4>2
      <4> QED BY <3>3, <4>3, <4>4 DEF Prefix
    <3>6. NotMissed(reader', Found')
      <4>1. \A i : Rank(i, Found') >= 0
        <5>1. Found' = Matching(reader'.info, reader'.filter)
          BY <2>0 DEF Found, Matching, Matches, ItemOf, Done
        <5>2. IsFiniteSet(Found')
          BY <2>0, <5>1, FoundAreFinite
        <5> DEFINE M == Found'
        <5> HIDE DEF M
        <5>3. \A i : Rank(i, M) \in Nat
          BY <5>2, RankIsNumber DEF M
        <5>4. \A i : Rank(i, M) >= 0
          BY <5>3
        <5> QED BY <5>4 DEF M
      <4> QED BY <3>3, <4>1 DEF NotMissed
    <3> QED BY <2>0, <3>3, <3>4, <3>5, <3>6 DEF ReaderInv, finished, there
  <2>2. ASSUME reader.pc = "next",
               reader' = [reader EXCEPT !.pc = "results", !.info = Reading, !.kept = @ /\ reader.info = Reading]
        PROVE  ReaderInv'
    <3> DEFINE info == Reading
               kept == reader.kept /\ reader.info = info
    <3>0. Shaped(reader)
      BY DEF ReaderInv
    <3>1. reader' = [pc |-> "results", filter |-> reader.filter, offset |-> reader.offset, got |-> reader.got,
                     info |-> info, finished |-> reader.finished, kept |-> kept, there |-> reader.there]
      BY <2>2, <3>0 DEF Shaped
    <3> HIDE DEF info, kept
    <3>2. /\ reader'.pc = "results" /\ reader'.filter = reader.filter /\ reader'.offset = reader.offset
          /\ reader'.got = reader.got /\ reader'.info = info /\ reader'.finished = reader.finished
          /\ reader'.kept = kept /\ reader'.there = reader.there
      BY <3>1
    <3>3. Shaped(reader')
      <4>1. reader' = [pc |-> reader'.pc, filter |-> reader'.filter, offset |-> reader'.offset, got |-> reader'.got,
                       info |-> reader'.info, finished |-> reader'.finished, kept |-> reader'.kept,
                       there |-> reader'.there]
        BY <3>1, <3>2
      <4> QED BY <3>0, <3>2, <4>1 DEF Shaped
    <3>4. ASSUME Comparable(reader')
          PROVE  (reader.finished => Prefix(reader', Pages')) /\ NotMissed(reader', Found')
      <4>1. Comparable(reader) /\ (info = reader.info \/ ~reader.filter.review)
        BY <3>2, <3>4 DEF Comparable, kept
      <4>2. Found' = Found /\ Pages' = Pages
        BY <2>0, <3>2, <4>1, FoundSame
      <4>3. (reader.finished => Prefix(reader, Pages)) /\ NotMissed(reader, Found)
        BY <2>2, <4>1 DEF ReaderInv
      <4> QED BY <2>2, <3>2, <4>2, <4>3 DEF Prefix, NotMissed
    <3>5. /\ reader.filter \in Filters /\ (reader.finished => Finished)
          /\ \A i \in reader.there : i \in Done(job.items)
      BY <2>2 DEF ReaderInv
    <3> QED BY <2>0, <3>2, <3>3, <3>4, <3>5 DEF ReaderInv
  <2> QED BY <1>2, <2>1, <2>2 DEF ReadVersion
<1>3. CASE ReadPage
  <2> DEFINE page == Page(Pages, reader.offset)
             next == NextOffset(Pages, reader.offset)
  <2>0. reader.pc = "results" /\ job' = job /\ (Finished' <=> Finished) /\ Shaped(reader)
    BY <1>3 DEF ReadPage, Finished, ReaderInv
  <2>1. reader' = [reader EXCEPT !.got = @ \o page, !.pc = IF next = -1 THEN "done" ELSE "next",
                                 !.offset = IF next = -1 THEN @ ELSE next]
    BY <1>3 DEF ReadPage, Pages
  <2> HIDE DEF page, next
  <2>2. reader' = [pc |-> IF next = -1 THEN "done" ELSE "next", filter |-> reader.filter,
                   offset |-> IF next = -1 THEN reader.offset ELSE next, got |-> reader.got \o page,
                   info |-> reader.info, finished |-> reader.finished, kept |-> reader.kept, there |-> reader.there]
    BY <2>0, <2>1 DEF Shaped
  <2>3. /\ reader'.pc = IF next = -1 THEN "done" ELSE "next"
        /\ reader'.offset = IF next = -1 THEN reader.offset ELSE next
        /\ reader'.got = reader.got \o page /\ reader'.filter = reader.filter /\ reader'.info = reader.info
        /\ reader'.finished = reader.finished /\ reader'.kept = reader.kept /\ reader'.there = reader.there
    BY <2>2
  <2>4. reader' = [pc |-> reader'.pc, filter |-> reader'.filter, offset |-> reader'.offset, got |-> reader'.got,
                   info |-> reader'.info, finished |-> reader'.finished, kept |-> reader'.kept,
                   there |-> reader'.there]
    BY <2>2, <2>3
  <2>5. /\ job # None /\ reader.filter \in Filters /\ (reader.finished => Finished)
        /\ \A i \in reader.there : i \in Done(job.items)
        /\ Comparable(reader) => (reader.finished => Prefix(reader, Pages)) /\ NotMissed(reader, Found)
    BY <2>0 DEF ReaderInv
  <2>6. Found' = Found /\ Pages' = Pages
    BY <2>0, <2>3, FoundSame
  <2>7. Pages \in Seq(Found) /\ InOrder(Pages, Found, Before(Found)) /\ IsFiniteSet(Found) /\ Found \subseteq Nat
    BY <2>5, MatchedInOrder, FoundAreFinite DEF Pages, Found
  <2> HIDE DEF Found, Pages
  <2>8. ASSUME Comparable(reader), reader.finished PROVE Prefix(reader', Pages)
    <3>1. reader.offset \in 0..Len(Pages) /\ reader.got = SubSeq(Pages, 1, reader.offset)
      BY <2>0, <2>5, <2>8 DEF Prefix
    <3>2. IF next = -1 THEN SubSeq(Pages, 1, reader.offset) \o page = Pages
          ELSE /\ next \in 0..Len(Pages)
               /\ SubSeq(Pages, 1, reader.offset) \o page = SubSeq(Pages, 1, next)
      BY <2>7, <3>1, PageFollows DEF page, next
    <3> QED BY <2>3, <3>1, <3>2 DEF Prefix
  <2>9. reader'.got \in Seq(Nat) /\ reader'.offset \in Nat
    <3>1. reader.offset \in Nat /\ reader.got \in Seq(Nat) /\ PageSize \in Nat
      BY <2>0, DecisionsAssumption DEF Shaped
    <3>2. reader'.offset \in Nat
      BY <2>3, <3>1 DEF next, NextOffset
    <3>3. page \in Seq(Nat)
      <4> DEFINE o == reader.offset
                 e == AtMost(o + PageSize, Len(Pages))
      <4>1. o \in Nat /\ Pages \in Seq(Found) /\ Len(Pages) \in Nat
        BY <2>7, <3>1
      <4>2. e \in Nat /\ e <= Len(Pages)
        BY <3>1, <4>1 DEF AtMost
      <4>3. page = SubSeq(Pages, o + 1, e)
        BY DEF page, Page
      <4> HIDE DEF e, o
      <4>4. \A k \in (o + 1)..e : Pages[k] \in Nat
        <5> SUFFICES ASSUME NEW k \in (o + 1)..e PROVE Pages[k] \in Nat
          OBVIOUS
        <5>1. k \in 1..Len(Pages) /\ Pages \in [1..Len(Pages) -> Found]
          BY <4>1, <4>2
        <5>2. Pages[k] \in Found
          BY <5>1
        <5> QED BY <2>7, <5>2
      <4> QED BY <4>1, <4>2, <4>3, <4>4, SubSeqProperties
    <3> QED BY <2>3, <3>1, <3>2, <3>3
  <2>10. ASSUME Comparable(reader) PROVE NotMissed(reader', Found)
    <3>1. reader.pc # "done" /\ reader.offset \in Nat /\ reader.got \in Seq(Nat) /\ NotMissed(reader, Found)
      BY <2>0, <2>5, <2>10 DEF Shaped
    <3>2. /\ reader'.there = reader.there /\ reader'.got = reader.got \o Page(Pages, reader.offset)
          /\ reader'.pc = IF NextOffset(Pages, reader.offset) = -1 THEN "done" ELSE "next"
          /\ reader'.offset = IF NextOffset(Pages, reader.offset) = -1 THEN reader.offset
                              ELSE NextOffset(Pages, reader.offset)
      BY <2>3 DEF page, next
    <3> DEFINE t == reader'
    <3> HIDE DEF t
    <3>3. NotMissed(t, Found)
      BY <2>7, <3>1, <3>2, PageLeavesBehind DEF t
    <3> QED BY <3>3 DEF t
  <2>11. Shaped(reader')
    BY <2>4, <2>9 DEF Shaped
  <2>12. Comparable(reader') <=> Comparable(reader)
    BY <2>3 DEF Comparable
  <2>13. reader'.pc # "idle"
    BY <2>3
  <2> QED BY <2>0, <2>3, <2>5, <2>6, <2>8, <2>10, <2>11, <2>12, <2>13 DEF ReaderInv
<1>4. CASE reader' = Closed
  <2>1. <<>> \in Seq(Nat)
    OBVIOUS
  <2> QED BY <1>4, <2>1 DEF ReaderInv, Shaped, Closed
<1>5. ReadVersion \/ ReadPage \/ reader' = Closed \/ reader' = reader
  BY RevisesKeep DEF Revises, Ends, Next, vars, use, work, LoadOrUnload, Validate, Save, Classify, DecideReads,
         DecideReturns, DecideRaises, SubmitBatch, ItemEnds, CancelBatch, Sample
<1> QED BY <1>1, <1>2, <1>3, <1>4, <1>5

\* What _matches lets through is what the filter asks for: it names one question
\* at most, and an answer has the questions of its version.
LEMMA MatchesIsWanted ==
    ASSUME JobInv, job # None, NEW i \in Done(job.items), reader.filter \in Filters
    PROVE  Matches(i, reader.info, reader.filter) <=> Wanted(i)
<1> DEFINE f == reader.filter
           info == reader.info
           asked == IF f.question = {} THEN schema.questions ELSE f.question
           review == ItemOf(i, info).review
           answers == job.items[i].answers
           hit(q) == Lower(answers[q].key) \in f.want
<1>1. DOMAIN answers = schema.questions
  BY DEF JobInv, Answered
<1>2. review \subseteq schema.questions
  BY <1>1 DEF ItemOf, to_item_result
<1>3. (\A p, q \in f.question : p = q) /\ (f.want # {} => f.question # {})
  BY DecisionsAssumption
<1>4. Matches(i, info, f) <=>
        /\ f.review => IF f.question # {} THEN f.question \subseteq review ELSE review # {}
        /\ f.want # {} => \E q \in f.question \cap DOMAIN answers : hit(q)
  BY DEF Matches
<1>5. Wanted(i) <=> /\ f.review => review \cap asked # {}
                    /\ f.want # {} => \E q \in asked \cap schema.questions : hit(q)
  BY DEF Wanted
<1> HIDE DEF review, answers, hit, f, info
<1>6. (IF f.question # {} THEN f.question \subseteq review ELSE review # {}) <=> review \cap asked # {}
  BY <1>2, <1>3
<1>7. f.want # {} => ((\E q \in f.question \cap DOMAIN answers : hit(q)) <=> (\E q \in asked \cap schema.questions : hit(q)))
  BY <1>1, <1>3
<1>8. Matches(i, info, f) <=> Wanted(i)
  BY <1>4, <1>5, <1>6, <1>7
<1> QED BY <1>8 DEF f, info

LEMMA ReaderCorrect == Spec => []ReaderInv
<1>1. SchemaInv /\ JobInv /\ ReaderInv /\ [Next]_vars => ReaderInv'
  BY ReaderStep
<1> QED BY <1>1, ReaderInit, SchemaCorrect, JobCorrect, PTL DEF Spec

\* A client that follows next_offset through a finished job gets every matching
\* item, once and in index order.
THEOREM PagesAreComplete == Spec => []PagesComplete
<1>1. JobInv /\ ReaderInv => PagesComplete
  <2> DEFINE wanted == {i \in Done(job.items) : Wanted(i)}
  <2> SUFFICES ASSUME JobInv, ReaderInv, reader.pc = "done", reader.finished, Comparable(reader)
               PROVE  InOrder(reader.got, wanted, Before(wanted))
    BY DEF PagesComplete, Comparable
  <2>1. job # None /\ reader.filter \in Filters /\ reader.got = Pages
    BY DEF ReaderInv, Prefix
  <2>2. wanted = Found
    <3>1. \A i \in Done(job.items) : Matches(i, reader.info, reader.filter) <=> Wanted(i)
      BY <2>1, MatchesIsWanted
    <3> QED BY <3>1 DEF Found, Matching
  <2>3. InOrder(Pages, Found, Before(Found))
    BY <2>1, MatchedInOrder DEF Pages, Found
  <2> HIDE DEF wanted
  <2> QED BY <2>1, <2>2, <2>3
<1> QED BY <1>1, ReaderCorrect, JobCorrect, PTL

\* A client that reads while the job runs gets every matching item that was done
\* when it made its first call.
THEOREM PagesDoNotMiss == Spec => []PagesMissNothing
<1>1. JobInv /\ ReaderInv => PagesMissNothing
  <2> SUFFICES ASSUME JobInv, ReaderInv, reader.pc = "done", Comparable(reader), NEW i \in reader.there, Wanted(i)
               PROVE  i \in Range(reader.got)
    BY DEF PagesMissNothing, Comparable
  <2>1. job # None /\ reader.filter \in Filters /\ i \in Done(job.items) /\ NotMissed(reader, Found)
    BY DEF ReaderInv
  <2>2. i \in Found
    BY <2>1, MatchesIsWanted DEF Found, Matching
  <2> QED BY <2>1, <2>2 DEF NotMissed
<1> QED BY <1>1, ReaderCorrect, JobCorrect, PTL

----------------------------------------------------------------------------
(* Sampling for labelling.                                                 *)

\* The sample is taken from items that are done, none twice, as many as were asked
\* for and are there.
SampleInv ==
    /\ sample.items \in Seq(sample.there)
    /\ Len(sample.items) = AtMost(sample.asked, Cardinality(sample.there))
    /\ \A a, b \in DOMAIN sample.items : sample.items[a] = sample.items[b] => a = b
    /\ sample.there # {} => job # None /\ sample.there \subseteq Done(job.items)

LEMMA ConfidenceIsNumber ==
    ASSUME SchemaInv, JobInv, job # None, NEW i \in Done(job.items)
    PROVE  Confidence(i) \in Nat
<1> DEFINE c(q) == Rounded(apply_temperature(job.items[i].answers[q].confidence, Reading.temps[q]))
           all == {c(q) : q \in schema.questions}
<1>1. Answered(schema.questions, job.items[i].answers) /\ schema # None
  BY DEF JobInv
<1>2. schema.questions # {}
  BY <1>1, DecisionsAssumption DEF SchemaInv
<1>3. ASSUME NEW q \in schema.questions PROVE c(q) \in Nat
  <2>1. job.items[i].answers[q].confidence \in 0..(2 * Top)
    BY <1>1 DEF Answered
  <2> DEFINE x == job.items[i].answers[q].confidence
             T == Reading.temps[q]
  <2>2. x \in Nat
    BY <2>1, EvaluationAssumption
  <2> HIDE DEF x, T
  <2>3. Rounded(apply_temperature(x, T)) \in Nat
    BY <2>2 DEF apply_temperature, Rounded
  <2> QED BY <2>3 DEF x, T
<1> HIDE DEF c
<1>4. all \subseteq Nat /\ all # {}
  BY <1>2, <1>3
<1>5. Confidence(i) = Min(all)
  BY DEF Confidence, c
<1> HIDE DEF all
<1>6. PICK x \in all : \A y \in all : x <= y
  BY <1>4, LeastNumber
<1>7. Min(all) \in all
  BY <1>6 DEF Min
<1> QED BY <1>4, <1>5, <1>7

\* No element is listed twice.
LEMMA ListedOnce ==
    ASSUME NEW S, NEW R, Orders(R, S), NEW n \in Nat, NEW s \in [1..n -> S], InOrder(s, S, R)
    PROVE  \A a, b \in 1..n : s[a] = s[b] => a = b
<1> SUFFICES ASSUME NEW a \in 1..n, NEW b \in 1..n, a < b PROVE s[a] # s[b]
  OBVIOUS
<1>1. <<s[a], s[b]>> \in R
  BY DEF InOrder
<1> QED BY <1>1 DEF Orders

LEMMA ByConfidenceListed ==
    ASSUME SchemaInv, JobInv, job # None
    PROVE  LET D == Done(job.items)
               n == Cardinality(D)
           IN  /\ n \in Nat /\ ByConfidence \in [1..n -> D] /\ Range(ByConfidence) = D
               /\ \A a, b \in 1..n : ByConfidence[a] = ByConfidence[b] => a = b
<1> DEFINE D == Done(job.items)
           R == LessConfident(D)
<1>1. IsFiniteSet(D) /\ D \subseteq Nat /\ Cardinality(D) \in Nat
  BY DoneAreFinite, FS_CardinalityType
<1>2. \A i \in D : Confidence(i) \in Nat
  BY ConfidenceIsNumber
<1>3. ByConfidence = Sorted(D, R)
  BY DEF ByConfidence
<1>4. Orders(R, D)
  <2> DEFINE c == [i \in D |-> Confidence(i)]
  <2> HIDE DEF D
  <2>0. c \in [D -> Nat]
    BY <1>2
  <2>1. ASSUME NEW x \in D, NEW y \in D
        PROVE  <<x, y>> \in R <=> c[x] < c[y] \/ (c[x] = c[y] /\ x < y)
    <3> DEFINE p == <<x, y>>
    <3>1. p \in D \X D /\ p[1] = x /\ p[2] = y /\ c[x] = Confidence(x) /\ c[y] = Confidence(y)
      OBVIOUS
    <3> HIDE DEF p, c
    <3>2. p \in R <=> (Confidence(p[1]) < Confidence(p[2]) \/ (Confidence(p[1]) = Confidence(p[2]) /\ p[1] < p[2]))
      BY <3>1, Zenon DEF LessConfident
    <3>3. p \in R <=> c[x] < c[y] \/ (c[x] = c[y] /\ x < y)
      BY <3>1, <3>2, Zenon
    <3> QED BY <3>3 DEF p
  <2> HIDE DEF R, c
  <2>2. ASSUME NEW x \in D, NEW y \in D, x # y PROVE <<x, y>> \in R \/ <<y, x>> \in R
    <3>1. c[x] \in Nat /\ c[y] \in Nat /\ x \in Nat /\ y \in Nat
      BY <1>1, <2>0
    <3>2. c[x] < c[y] \/ (c[x] = c[y] /\ x < y) \/ c[y] < c[x] \/ (c[y] = c[x] /\ y < x)
      BY <2>2, <3>1
    <3> QED BY <2>1, <3>2
  <2>3. \A x \in D : <<x, x>> \notin R
    BY <1>1, <2>0, <2>1
  <2>4. \A x, y, z \in D : <<x, y>> \in R /\ <<y, z>> \in R => <<x, z>> \in R
    BY <1>1, <2>0, <2>1
  <2> QED BY <2>2, <2>3, <2>4 DEF Orders
<1> HIDE DEF D, R
<1>5. ByConfidence \in [1..Cardinality(D) -> D] /\ InOrder(ByConfidence, D, R)
  BY <1>1, <1>3, <1>4, SortedExists
<1>6. \A a, b \in 1..Cardinality(D) : ByConfidence[a] = ByConfidence[b] => a = b
  BY <1>1, <1>4, <1>5, ListedOnce
<1> QED BY <1>1, <1>5, <1>6 DEF InOrder, D

\* The first k of a list and some of the others are a list of m elements, none twice.
Lists(s, D, m) == s \in Seq(D) /\ Len(s) = m /\ \A a, b \in DOMAIN s : s[a] = s[b] => a = b

LEMMA DrawnFromRest ==
    ASSUME NEW D, D \in SUBSET Nat, IsFiniteSet(D), NEW n, n \in Nat, NEW order, Lists(order, D, n),
           NEW m, m \in 0..n, NEW k, k \in 0..m,
           NEW drawn, drawn \in kSubset(AtMost(m - k, Len(Rest(order, k))), Range(Rest(order, k)))
    PROVE  Lists(SubSeq(order, 1, k) \o Sorted(drawn, Before(drawn)), D, m)
<1> DEFINE first == SubSeq(order, 1, k)
           rest == Rest(order, k)
           tail == Sorted(drawn, Before(drawn))
<1>0. /\ order \in Seq(D) /\ Len(order) = n /\ order \in [1..n -> D]
      /\ \A a, b \in 1..n : order[a] = order[b] => a = b
  BY DEF Lists
<1>1. /\ first \in Seq(D) /\ Len(first) = k
      /\ \A i \in 1..k : first[i] = order[i]
  <2>1. \A i \in 1..k : order[i] \in D
    BY <1>0
  <2>2. /\ first \in Seq(D) /\ Len(first) = IF 1 <= k THEN k - 1 + 1 ELSE 0
        /\ \A i \in 1..k - 1 + 1 : first[i] = order[1 + i - 1]
    BY <2>1, SubSeqProperties
  <2> HIDE DEF first
  <2>3. Len(first) = k
    BY <2>2
  <2>4. ASSUME NEW i \in 1..k PROVE first[i] = order[i]
    <3>1. i \in 1..k - 1 + 1 /\ 1 + i - 1 = i
      OBVIOUS
    <3> QED BY <2>2, <3>1
  <2> QED BY <2>2, <2>3, <2>4
<1>2. /\ rest \in Seq(D) /\ Len(rest) = n - k
      /\ \A i \in 1..n - k : rest[i] = order[k + i]
  <2>1. \A i \in (k + 1)..n : order[i] \in D
    BY <1>0
  <2>2. rest = SubSeq(order, k + 1, n)
    BY <1>0 DEF Rest
  <2>3. /\ rest \in Seq(D) /\ Len(rest) = IF k + 1 <= n THEN n - (k + 1) + 1 ELSE 0
        /\ \A i \in 1..n - (k + 1) + 1 : rest[i] = order[k + 1 + i - 1]
    BY <2>1, <2>2, SubSeqProperties
  <2> HIDE DEF rest
  <2>4. Len(rest) = n - k
    <3>1. k \in Nat /\ k <= n
      OBVIOUS
    <3>2. Len(rest) = IF k + 1 <= n THEN n - (k + 1) + 1 ELSE 0
      BY <2>3
    <3>3. CASE k + 1 <= n
      BY <3>1, <3>2, <3>3
    <3>4. CASE ~(k + 1 <= n)
      BY <3>1, <3>2, <3>4
    <3> QED BY <3>3, <3>4
  <2>5. ASSUME NEW i \in 1..n - k PROVE rest[i] = order[k + i]
    <3>1. i \in 1..n - (k + 1) + 1 /\ k + 1 + i - 1 = k + i
      OBVIOUS
    <3> QED BY <2>3, <3>1
  <2> QED BY <2>3, <2>4, <2>5
<1>3. drawn \subseteq Range(rest) /\ Cardinality(drawn) = AtMost(m - k, Len(rest))
  BY DEF kSubset
<1> HIDE DEF first, rest, tail
<1>4. Cardinality(drawn) = m - k /\ m - k \in Nat
  BY <1>2, <1>3 DEF AtMost
<1>5. ASSUME NEW x \in drawn PROVE x \in D /\ \E j \in 1..n : k < j /\ x = order[j]
  <2>1. PICK i \in DOMAIN rest : x = rest[i]
    BY <1>3 DEF Range
  <2>2. i \in 1..n - k
    BY <1>2, <2>1
  <2>3. k + i \in 1..n /\ k < k + i
    BY <2>2
  <2> QED BY <1>2, <2>1, <2>2, <2>3
<1>6. IsFiniteSet(drawn) /\ drawn \subseteq Nat /\ drawn \subseteq D
  BY <1>5, FS_Subset
<1>7. Orders(Before(drawn), drawn)
  BY <1>6 DEF Orders, Before
<1>8. tail \in [1..m - k -> drawn] /\ InOrder(tail, drawn, Before(drawn))
  BY <1>4, <1>6, <1>7, SortedExists DEF tail
<1>9. \A a, b \in 1..m - k : tail[a] = tail[b] => a = b
  BY <1>4, <1>7, <1>8, ListedOnce
<1>10. tail \in Seq(D) /\ Len(tail) = m - k
  <2> DEFINE l == m - k
  <2>1. l \in Nat /\ tail \in [1..l -> D]
    BY <1>4, <1>6, <1>8
  <2> HIDE DEF l
  <2>2. tail \in Seq(D) /\ Len(tail) = l
    BY <2>1
  <2> QED BY <2>2 DEF l
<1> DEFINE items == first \o tail
<1>11. /\ items \in Seq(D) /\ Len(items) = k + (m - k)
       /\ \A i \in 1..k + (m - k) : items[i] = IF i <= k THEN first[i] ELSE tail[i - k]
  <2>1. /\ items \in Seq(D) /\ Len(items) = Len(first) + Len(tail)
        /\ \A i \in 1..Len(first) + Len(tail) :
              items[i] = IF i <= Len(first) THEN first[i] ELSE tail[i - Len(first)]
    <3>1. first \in Seq(D) /\ tail \in Seq(D)
      BY <1>1, <1>10
    <3>2. items \in Seq(D)
      BY <3>1
    <3>3. Len(items) = Len(first) + Len(tail)
      BY <3>1
    <3>4. ASSUME NEW i \in 1..Len(first) + Len(tail)
          PROVE  items[i] = IF i <= Len(first) THEN first[i] ELSE tail[i - Len(first)]
      BY <3>1
    <3> QED BY <3>2, <3>3, <3>4
  <2> HIDE DEF items
  <2> QED BY <1>1, <1>10, <2>1
<1> HIDE DEF items
<1>12. Len(items) = m /\ DOMAIN items = 1..m
  BY <1>11
<1>13. \A i \in 1..m : items[i] = IF i <= k THEN order[i] ELSE tail[i - k]
  BY <1>1, <1>11
<1>14. ASSUME NEW a \in 1..m, NEW b \in 1..m, items[a] = items[b], a <= k PROVE a = b
  <2>1. items[a] = order[a] /\ a \in 1..n
    BY <1>13, <1>14
  <2>2. CASE b <= k
    <3>1. items[b] = order[b] /\ b \in 1..n
      BY <1>13, <2>2
    <3> QED BY <1>0, <1>14, <2>1, <3>1
  <2>3. CASE ~(b <= k)
    <3>1. b - k \in 1..m - k
      BY <2>3
    <3>2. items[b] = tail[b - k] /\ tail[b - k] \in drawn
      BY <1>8, <1>13, <2>3, <3>1
    <3>3. PICK j \in 1..n : k < j /\ tail[b - k] = order[j]
      BY <1>5, <3>2
    <3>4. order[a] = order[j]
      BY <1>14, <2>1, <3>2, <3>3
    <3>5. a = j
      BY <1>0, <2>1, <3>4
    <3> QED BY <1>14, <3>3, <3>5
  <2> QED BY <2>2, <2>3
<1>15. ASSUME NEW a \in 1..m, NEW b \in 1..m, items[a] = items[b], ~(a <= k), ~(b <= k) PROVE a = b
  <2>1. a - k \in 1..m - k /\ b - k \in 1..m - k
    BY <1>15
  <2>2. tail[a - k] = tail[b - k]
    BY <1>13, <1>15
  <2>3. a - k = b - k
    BY <1>9, <2>1, <2>2
  <2> QED BY <2>3
<1>16. \A a, b \in DOMAIN items : items[a] = items[b] => a = b
  BY <1>12, <1>14, <1>15
<1>17. Lists(items, D, m)
  BY <1>11, <1>12, <1>16 DEF Lists
<1> QED BY <1>17 DEF items, first, tail

LEMMA SampleInit == Init => SampleInv
<1> SUFFICES ASSUME sample = NoSample PROVE SampleInv
  BY DEF Init
<1>1. sample.asked = 0 /\ sample.there = {} /\ sample.items = <<>>
  BY DEF NoSample
<1> QED BY <1>1, FS_EmptySet DEF SampleInv, AtMost

LEMMA SampleStep ==
    ASSUME SchemaInv, JobInv, SampleInv, [Next]_vars
    PROVE  SampleInv'
<1>0. JobKept
  BY JobStep
<1>1. CASE sample' = sample
  BY <1>0, <1>1 DEF SampleInv, JobKept
<1>2. CASE sample' = NoSample
  <2>1. sample'.asked = 0 /\ sample'.there = {} /\ sample'.items = <<>>
    BY <1>2 DEF NoSample
  <2> QED BY <2>1, FS_EmptySet DEF SampleInv, AtMost
<1>3. ASSUME NEW n \in 1..MaxItems, NEW strategy \in {"mixed", "uncertain", "random"}, Sample(n, strategy)
      PROVE  SampleInv'
  <2> DEFINE D == Done(job.items)
             order == ByConfidence
             m == AtMost(n, Len(order))
             k == CASE strategy = "uncertain" -> m [] strategy = "random" -> 0 [] OTHER -> (m + 1) \div 2
  <2>1. job # None /\ job' = job
    BY <1>3 DEF Sample
  <2>2. PICK drawn \in kSubset(AtMost(m - k, Len(Rest(order, k))), Range(Rest(order, k))) :
           sample' = [asked |-> n, there |-> D, items |-> SubSeq(order, 1, k) \o Sorted(drawn, Before(drawn))]
    BY <1>3 DEF Sample
  <2> HIDE DEF order, D
  <2>3. /\ Cardinality(D) \in Nat /\ order \in [1..Cardinality(D) -> D]
        /\ \A a, b \in 1..Cardinality(D) : order[a] = order[b] => a = b
    BY <2>1, ByConfidenceListed DEF D, order
  <2>4. IsFiniteSet(D) /\ D \in SUBSET Nat
    BY <2>1, DoneAreFinite DEF D
  <2>5. Len(order) = Cardinality(D)
    BY <2>3
  <2>6. m \in 0..Cardinality(D) /\ m = AtMost(n, Cardinality(D))
    BY <2>3, <2>5 DEF AtMost
  <2> HIDE DEF m
  <2>7. k \in 0..m
    BY <2>3, <2>6
  <2> HIDE DEF k
  <2> DEFINE items == SubSeq(order, 1, k) \o Sorted(drawn, Before(drawn))
  <2>8. Lists(items, D, m)
    <3>1. Lists(order, D, Cardinality(D))
      <4> DEFINE N == Cardinality(D)
      <4> HIDE DEF N
      <4>1. N \in Nat /\ order \in [1..N -> D] /\ \A a, b \in 1..N : order[a] = order[b] => a = b
        BY <2>3 DEF N
      <4>2. Lists(order, D, N)
        BY <4>1 DEF Lists
      <4> QED BY <4>2 DEF N
    <3> QED BY <2>3, <2>4, <2>6, <2>7, <3>1, DrawnFromRest, Zenon
  <2> HIDE DEF items
  <2>9. sample'.asked = n /\ sample'.there = D /\ sample'.items = items
    BY <2>2 DEF items
  <2>10. D \subseteq Done(job'.items) /\ job' # None
    BY <2>1 DEF D
  <2> QED BY <2>6, <2>8, <2>9, <2>10 DEF SampleInv, Lists
<1>4. \/ sample' = sample \/ sample' = NoSample
      \/ \E n \in 1..MaxItems, strategy \in {"mixed", "uncertain", "random"} : Sample(n, strategy)
  BY RevisesKeep DEF Revises, Ends, Next, vars, use, work, LoadOrUnload, Validate, Save, Classify, DecideReads,
         DecideReturns, DecideRaises, SubmitBatch, ItemEnds, CancelBatch, ReadVersion, ReadPage
<1> QED BY <1>1, <1>2, <1>3, <1>4

\* What is suggested for an answer reads back as what is compared with it, unless
\* it is a label with blanks around it.
LEMMA ReadsBack ==
    ASSUME NEW q, TypeOf[q] \in {"noul", "score", "choice"}, NEW answer, answer.key \in Keys(q),
           TypeOf[q] = "choice" => Strip(predicted_value(q, answer).v) = predicted_value(q, answer).v
    PROVE  ReadsAsPredicted(q, predicted_value(q, answer))
<1> DEFINE value == predicted_value(q, answer)
<1>1. CASE TypeOf[q] = "noul"
  <2>1. value = [kind |-> "bool", v |-> answer.key]
    BY <1>1 DEF predicted_value
  <2>2. value.kind = "bool"
    BY <2>1
  <2> HIDE DEF value
  <2>3. canonical_prediction(q, value) = value
    BY <1>1 DEF canonical_prediction
  <2>4. coerce_expected(q, value) = value
    BY <1>1, <2>2 DEF coerce_expected
  <2> QED BY <2>3, <2>4 DEF value, ReadsAsPredicted
<1>2. CASE TypeOf[q] = "score"
  <2>1. value = [kind |-> "int", v |-> answer.key] /\ answer.key \in 0..(Len(LabelsOf[q]) - 1)
    BY <1>2 DEF predicted_value, Keys
  <2>2. value.kind = "int" /\ value.v = answer.key
    BY <2>1
  <2> HIDE DEF value
  <2>3. canonical_prediction(q, value) = value
    BY <1>2 DEF canonical_prediction
  <2>4. coerce_expected(q, value) = AsLevel(q, value.v)
    BY <1>2, <2>2 DEF coerce_expected
  <2>5. AsLevel(q, value.v) = value
    BY <2>1, <2>2 DEF AsLevel
  <2> QED BY <2>3, <2>4, <2>5 DEF value, ReadsAsPredicted
<1>3. CASE TypeOf[q] = "choice"
  <2> DEFINE key == Lower(answer.key)
             first == FirstAlike(q, key)
  <2>1. value = [kind |-> "str", v |-> answer.key] /\ answer.key \in Range(LabelsOf[q])
    BY <1>3 DEF predicted_value, Keys
  <2>2. value.kind = "str" /\ value.v = answer.key /\ Strip(answer.key) = answer.key
    BY <1>3, <2>1
  <2>3. LabelsAlike(q, key) # {}
    BY <2>1 DEF LabelsAlike, Range
  <2> HIDE DEF value, key, first
  <2>4. canonical_prediction(q, value) = [value EXCEPT !.v = first]
    BY <1>3, <2>2, <2>3 DEF canonical_prediction, key, first
  <2>5. coerce_expected(q, value) = [kind |-> "str", v |-> first]
    BY <1>3, <2>2, <2>3 DEF coerce_expected, key, first
  <2>6. [value EXCEPT !.v = first] = [kind |-> "str", v |-> first]
    BY <2>1
  <2> QED BY <2>4, <2>5, <2>6 DEF value, ReadsAsPredicted
<1> QED BY <1>1, <1>2, <1>3

\* A labelling sample has as many items as were asked for and are there, none
\* twice, and what it suggests reads back as what the evaluation compares with, where
\* the label has no blanks around it.
THEOREM SamplesAreUsable == Spec => []SampleUsable
<1>1. SchemaInv /\ JobInv /\ SampleInv /\ [Next]_vars => SampleInv'
  BY SampleStep
<1>2. SchemaInv /\ JobInv /\ SampleInv => SampleUsable
  <2> SUFFICES ASSUME SchemaInv, JobInv, SampleInv,
                      NEW a \in DOMAIN sample.items, NEW q \in schema.questions,
                      TypeOf[q] = "choice" => Strip(Suggested(a, q).v) = Suggested(a, q).v
               PROVE  ReadsAsPredicted(q, Suggested(a, q))
    BY DEF SampleInv, SampleUsable
  <2> DEFINE i == sample.items[a]
  <2>1. i \in sample.there
    BY DEF SampleInv
  <2>2. job # None /\ i \in Done(job.items)
    BY <2>1 DEF SampleInv
  <2>3. Answered(schema.questions, job.items[i].answers) /\ schema # None
    BY <2>2 DEF JobInv
  <2>4. TypeOf[q] \in {"noul", "score", "choice"}
    BY <2>3, DecisionsAssumption DEF SchemaInv
  <2> HIDE DEF i
  <2>5. job.items[i].answers[q].key \in Keys(q)
    BY <2>3 DEF Answered
  <2> QED BY <2>4, <2>5, ReadsBack DEF i, Suggested
<1> QED BY <1>1, <1>2, SampleInit, SchemaCorrect, JobCorrect, PTL DEF Spec
=============================================================================
