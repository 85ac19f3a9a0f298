----------------------------- MODULE ScanProofs -----------------------------
(***************************************************************************)
(* Proofs about Scan, for texts of any length, any tokenizer, window,      *)
(* overlap and budget.                                                     *)
(***************************************************************************)
EXTENDS Scan, FiniteSetTheorems, SequenceTheorems, WellFoundedInduction, TLAPS

----------------------------------------------------------------------------
(* Numbers in ascending order.                                             *)

\* A set of numbers that is not empty has a least one.
LEMMA LeastNumber ==
    ASSUME NEW S, S \subseteq Nat, S # {}
    PROVE  \E x \in S : \A y \in S : x <= y
<1>1. PICK x \in S : \A y \in S : ~(<<y, x>> \in OpToRel(<, Nat))
  BY NatLessThanWellFounded, WFMin
<1>2. \A y \in S : ~(y < x)
  BY <1>1 DEF OpToRel
<1> QED BY <1>2

\* And a greatest one, when it is bounded.
LEMMA GreatestNumber ==
    ASSUME NEW n \in Nat, NEW S, S \subseteq 0..n, S # {}
    PROVE  \E x \in S : \A y \in S : y <= x
<1> DEFINE above == {m \in Nat : \A y \in S : y <= m}
<1>1. above \subseteq Nat /\ n \in above
  OBVIOUS
<1>2. PICK x \in above : \A m \in above : x <= m
  <2> HIDE DEF above
  <2>1. above # {}
    BY <1>1
  <2> QED BY <1>1, <2>1, LeastNumber
<1>3. x \in Nat /\ \A y \in S : y <= x
  OBVIOUS
<1>4. x \in S
  <2> SUFFICES ASSUME x \notin S PROVE FALSE
    OBVIOUS
  <2>1. PICK y \in S : TRUE
    OBVIOUS
  <2>2. x # 0
    BY <1>3, <2>1
  <2>3. x - 1 \in above
    BY <1>3, <2>2
  <2> HIDE DEF above
  <2> QED BY <1>2, <1>3, <2>3
<1> QED BY <1>3, <1>4

\* How many elements are below one of them.
Below(S, i) == {j \in S : j < i}
Rank(S, i) == Cardinality(Below(S, i))

LEMMA BelowMember ==
    ASSUME NEW S, NEW i, NEW x
    PROVE  x \in Below(S, i) <=> x \in S /\ x < i
  BY DEF Below

LEMMA RankType ==
    ASSUME NEW S, IsFiniteSet(S), S \subseteq Nat, NEW i \in S
    PROVE  /\ IsFiniteSet(Below(S, i)) /\ Cardinality(S) \in Nat
           /\ Rank(S, i) \in Nat /\ Rank(S, i) < Cardinality(S)
<1>1. Below(S, i) \in SUBSET S /\ i \notin Below(S, i)
  BY DEF Below
<1>2. IsFiniteSet(Below(S, i)) /\ Cardinality(Below(S, i)) <= Cardinality(S) /\ Cardinality(Below(S, i)) # Cardinality(S)
  BY <1>1, FS_Subset
<1>3. Cardinality(S) \in Nat /\ Cardinality(Below(S, i)) \in Nat
  BY <1>2, FS_CardinalityType
<1> QED BY <1>2, <1>3 DEF Rank

LEMMA RankGrows ==
    ASSUME NEW S, IsFiniteSet(S), S \subseteq Nat, NEW i \in S, NEW j \in S, i < j
    PROVE  Rank(S, i) < Rank(S, j)
<1>1. i \in Below(S, j) /\ i \notin Below(S, i)
  BY BelowMember
<1>0. ASSUME NEW x \in Below(S, i) PROVE x \in Below(S, j)
  <2>1. x \in S /\ x < i
    BY BelowMember
  <2>2. x \in Nat /\ i \in Nat /\ j \in Nat
    BY <2>1
  <2>3. x < j
    BY <2>1, <2>2
  <2> QED BY <2>1, <2>3, BelowMember
<1>2. IsFiniteSet(Below(S, j)) /\ Rank(S, i) \in Nat /\ Rank(S, j) \in Nat
  BY RankType
<1>3. Rank(S, i) <= Rank(S, j) /\ Rank(S, i) # Rank(S, j)
  <2>1. Below(S, i) \in SUBSET Below(S, j)
    BY <1>0
  <2> QED BY <1>1, <1>2, <2>1, FS_Subset DEF Rank
<1> QED BY <1>2, <1>3

LEMMA RankIsOwn ==
    ASSUME NEW S, IsFiniteSet(S), S \subseteq Nat, NEW i \in S, NEW j \in S, Rank(S, i) = Rank(S, j)
    PROVE  i = j
<1>0. i \in Nat /\ j \in Nat
  OBVIOUS
<1>1. Rank(S, i) \in Nat
  BY RankType
<1>2. i < j => Rank(S, i) < Rank(S, j)
  BY RankGrows
<1>3. j < i => Rank(S, j) < Rank(S, i)
  BY RankGrows
<1>4. ~(i < j) /\ ~(j < i)
  BY <1>1, <1>2, <1>3
<1> QED BY <1>0, <1>4

\* Every rank is taken: the next element above one of rank r has rank r + 1.
LEMMA RankReached ==
    ASSUME NEW S, IsFiniteSet(S), S \subseteq Nat, NEW n \in 0..(Cardinality(S) - 1)
    PROVE  \E i \in S : Rank(S, i) = n
<1> DEFINE Free == {r \in Nat : r < Cardinality(S) /\ \A i \in S : Rank(S, i) # r}
<1>0. Cardinality(S) \in Nat /\ \A x \in S : x \in Nat
  BY FS_CardinalityType
<1> SUFFICES ASSUME Free # {} PROVE FALSE
  <2>1. n \in Nat /\ n < Cardinality(S)
    BY <1>0
  <2> QED BY <2>1
<1>1. PICK r \in Free : \A s \in Free : r <= s
  <2>1. Free \subseteq Nat
    OBVIOUS
  <2> HIDE DEF Free
  <2> QED BY <2>1, LeastNumber
<1>2. CASE r = 0
  <2>1. S # {}
    BY <1>0, <1>2, FS_EmptySet
  <2>2. PICK i \in S : \A y \in S : i <= y
    BY <2>1, LeastNumber
  <2>3. Below(S, i) = {}
    <3> SUFFICES ASSUME NEW x \in Below(S, i) PROVE FALSE
      OBVIOUS
    <3>1. x \in S /\ x < i
      BY BelowMember
    <3>2. x \in Nat /\ i \in Nat /\ i <= x
      BY <1>0, <2>2, <3>1
    <3> QED BY <3>1, <3>2
  <2> QED BY <1>2, <2>3, FS_EmptySet DEF Rank
<1>3. CASE r # 0
  <2>1. r \in Nat /\ r - 1 \in Nat /\ r - 1 \notin Free /\ r < Cardinality(S)
    <3>1. r \in Nat /\ r < Cardinality(S) /\ r - 1 \in Nat
      BY <1>3
    <3>2. r - 1 \notin Free
      <4> HIDE DEF Free
      <4> QED BY <1>1, <3>1
    <3> QED BY <3>1, <3>2
  <2>2. PICK i \in S : Rank(S, i) = r - 1
    BY <1>0, <2>1
  <2> DEFINE Next1 == {j \in S : i < j}
             upto == Below(S, i) \cup {i}
  <2>3. IsFiniteSet(upto) /\ Cardinality(upto) = r
    <3>1. IsFiniteSet(Below(S, i))
      BY RankType
    <3>3. i \notin Below(S, i)
      BY <1>0 DEF Below
    <3>2. IsFiniteSet(upto) /\ Cardinality(upto) = Cardinality(Below(S, i)) + 1
      BY <3>1, <3>3, FS_AddElement
    <3> HIDE DEF upto
    <3> QED BY <2>1, <2>2, <3>2 DEF Rank
  <2>4. Next1 # {}
    <3> SUFFICES ASSUME Next1 = {} PROVE FALSE
      OBVIOUS
    <3>1. S = upto
      <4>1. ASSUME NEW x \in S PROVE x \in upto
        <5>1. x \in Nat /\ i \in Nat /\ ~(i < x)
          BY <1>0
        <5>2. x < i \/ x = i
          BY <5>1
        <5> QED BY <5>2, BelowMember
      <4>2. ASSUME NEW x \in upto PROVE x \in S
        BY BelowMember
      <4> QED BY <4>1, <4>2
    <3> HIDE DEF upto
    <3> QED BY <2>1, <2>3, <3>1
  <2>5. PICK x \in Next1 : \A y \in Next1 : x <= y
    <3>1. Next1 \subseteq Nat
      OBVIOUS
    <3> HIDE DEF Next1
    <3> QED BY <2>4, <3>1, LeastNumber
  <2>6. x \in S /\ Below(S, x) = upto
    <3>0. x \in S /\ i < x /\ x \in Nat /\ i \in Nat
      BY <1>0
    <3>1. ASSUME NEW y \in S, y < x PROVE y \in upto
      <4>1. y \in Nat /\ ~(i < y)
        BY <1>0, <2>5, <3>0, <3>1
      <4>2. y < i \/ y = i
        BY <3>0, <4>1
      <4> QED BY <4>2, BelowMember
    <3>2. ASSUME NEW y \in upto PROVE y \in S /\ y < x
      <4>1. y = i \/ (y \in S /\ y < i)
        BY BelowMember
      <4>2. y \in S /\ y \in Nat
        BY <1>0, <4>1
      <4> QED BY <3>0, <4>1, <4>2
    <3>3. \A y : y \in Below(S, x) <=> y \in S /\ y < x
      BY BelowMember
    <3> QED BY <3>0, <3>1, <3>2, <3>3
  <2>7. Rank(S, x) = r
    <3> HIDE DEF upto
    <3> QED BY <2>3, <2>6 DEF Rank
  <2> QED BY <2>6, <2>7
<1> QED BY <1>2, <1>3

\* Ascending lists its set, each element once.
Enumerates(s, S) ==
    /\ s \in [1..Cardinality(S) -> S]
    /\ \A a, b \in 1..Cardinality(S) : a < b => s[a] < s[b]
    /\ \A x \in S : \E k \in 1..Cardinality(S) : s[k] = x

LEMMA AscendingRanks ==
    ASSUME NEW S, IsFiniteSet(S), S \subseteq Nat, NEW k \in 1..Cardinality(S)
    PROVE  Ascending(S)[k] \in S /\ Rank(S, Ascending(S)[k]) = k - 1
<1> DEFINE x == CHOOSE i \in S : Rank(S, i) = k - 1
<1>1. Cardinality(S) \in Nat
  BY FS_CardinalityType
<1>2. k - 1 \in 0..(Cardinality(S) - 1)
  BY <1>1
<1>3. \E i \in S : Rank(S, i) = k - 1
  BY <1>2, RankReached
<1>4. x \in S /\ Rank(S, x) = k - 1
  BY <1>3
<1>5. Ascending(S)[k] = x
  BY DEF Ascending, Rank, Below
<1> QED BY <1>4, <1>5

LEMMA AscendingEnumerates ==
    ASSUME NEW S, IsFiniteSet(S), S \subseteq Nat
    PROVE  Enumerates(Ascending(S), S) /\ Cardinality(S) \in Nat
<1> DEFINE s == Ascending(S)
           n == Cardinality(S)
<1>0. n \in Nat
  BY FS_CardinalityType
<1>1. \A k \in 1..n : s[k] \in S /\ Rank(S, s[k]) = k - 1
  BY AscendingRanks
<1>2. s \in [1..n -> S]
  <2>1. s = [k \in 1..n |-> CHOOSE i \in S : Cardinality({j \in S : j < i}) = k - 1]
    BY DEF Ascending
  <2> QED BY <1>1, <2>1
<1> HIDE DEF s
<1>3. ASSUME NEW a \in 1..n, NEW b \in 1..n, a < b PROVE s[a] < s[b]
  <2>1. s[a] \in Nat /\ s[b] \in Nat /\ Rank(S, s[a]) < Rank(S, s[b])
    <3>1. s[a] \in S /\ s[b] \in S /\ Rank(S, s[a]) = a - 1 /\ Rank(S, s[b]) = b - 1
      BY <1>1
    <3>2. a - 1 < b - 1
      BY <1>0, <1>3
    <3> QED BY <3>1, <3>2
  <2>2. ~(s[b] < s[a])
    <3> SUFFICES ASSUME s[b] < s[a] PROVE FALSE
      OBVIOUS
    <3>1. Rank(S, s[b]) < Rank(S, s[a]) /\ Rank(S, s[a]) \in Nat /\ Rank(S, s[b]) \in Nat
      BY <1>1, RankGrows, RankType
    <3> QED BY <2>1, <3>1
  <2>3. s[a] # s[b]
    <3>1. Rank(S, s[a]) \in Nat
      BY <1>1, RankType
    <3> QED BY <2>1, <3>1
  <2> QED BY <2>1, <2>2, <2>3
<1>4. ASSUME NEW x \in S PROVE \E k \in 1..n : s[k] = x
  <2>1. Rank(S, x) \in Nat /\ Rank(S, x) < n
    BY RankType
  <2> DEFINE k == Rank(S, x) + 1
  <2>2. k \in 1..n /\ k - 1 = Rank(S, x)
    BY <1>0, <2>1
  <2> HIDE DEF k
  <2>3. s[k] \in S /\ Rank(S, s[k]) = Rank(S, x)
    BY <1>1, <2>2
  <2>4. s[k] = x
    BY <2>3, RankIsOwn
  <2> QED BY <2>2, <2>4
<1>5. Enumerates(s, S)
  BY <1>2, <1>3, <1>4 DEF Enumerates
<1> QED BY <1>0, <1>5 DEF s

LEMMA AscendingInterval ==
    ASSUME NEW n \in Nat
    PROVE  Ascending(1..n) = [k \in 1..n |-> k]
<1> DEFINE S == 1..n
<1>1. IsFiniteSet(S) /\ Cardinality(S) = n /\ S \subseteq Nat
  BY FS_Interval
<1> HIDE DEF S
<1>2. ASSUME NEW k \in 1..n PROVE Ascending(S)[k] = k
  <2>1. Ascending(S)[k] \in S /\ Rank(S, Ascending(S)[k]) = k - 1
    BY <1>1, AscendingRanks
  <2>2. Below(S, k) = 1..(k - 1) /\ k \in S
    BY DEF Below, S
  <2>3. Cardinality(1..(k - 1)) = k - 1
    BY FS_Interval
  <2>4. Rank(S, k) = k - 1
    BY <2>2, <2>3 DEF Rank
  <2> QED BY <1>1, <2>1, <2>2, <2>4, RankIsOwn
<1>3. Ascending(S) \in [1..n -> S]
  BY <1>1, AscendingEnumerates DEF Enumerates
<1>4. Ascending(S) = [k \in 1..n |-> k]
  BY <1>2, <1>3
<1> QED BY <1>4 DEF S

----------------------------------------------------------------------------
(* Words and tokens.                                                       *)

\* The spans of a text are made of visible characters, follow one another, and no
\* visible character is outside them.
Span == [start : Nat, end : Nat]
Splits(spans, t) ==
    /\ spans \in Seq(Span)
    /\ \A k \in 1..Len(spans) :
         /\ spans[k].start < spans[k].end /\ spans[k].end <= Len(t)
         /\ \A p \in spans[k].start..(spans[k].end - 1) : Visible(t, p)
    /\ \A a, b \in 1..Len(spans) : a < b => spans[a].end <= spans[b].start
    /\ \A p \in Nat : Visible(t, p) => \E k \in 1..Len(spans) : spans[k].start <= p /\ p < spans[k].end

LEMMA EndFound ==
    ASSUME NEW t, Len(t) \in Nat, NEW split, NEW i \in 0..(Len(t) - 1)
    PROVE  LET e == End(t, i, split) IN
           /\ e \in (i + 1)..Len(t) /\ ~GoesOn(t, e, split)
           /\ \A k \in (i + 1)..(e - 1) : GoesOn(t, k, split)
<1> DEFINE stops == {j \in Nat : i < j /\ ~GoesOn(t, j, split)}
           found(j) == ~GoesOn(t, j, split) /\ \A k \in (i + 1)..(j - 1) : GoesOn(t, k, split)
<1>1. Len(t) \in stops
  <2>1. ~Visible(t, Len(t))
    <3>1. \A n \in Nat : n \notin 0..(n - 1)
      OBVIOUS
    <3> QED BY <3>1, Zenon DEF Visible
  <2>2. i < Len(t)
    OBVIOUS
  <2> QED BY <2>1, <2>2 DEF GoesOn
<1>2. PICK j \in stops : \A k \in stops : j <= k
  <2>1. stops \subseteq Nat
    OBVIOUS
  <2> HIDE DEF stops
  <2> QED BY <1>1, <2>1, LeastNumber
<1>3. j \in (i + 1)..Len(t)
  <2>1. j <= Len(t) /\ j \in Nat /\ i < j
    <3>1. j \in Nat /\ i < j
      OBVIOUS
    <3> HIDE DEF stops
    <3> QED BY <1>1, <1>2, <3>1
  <2> QED BY <2>1
<1>4. found(j)
  <2>1. ASSUME NEW k \in (i + 1)..(j - 1) PROVE GoesOn(t, k, split)
    <3>1. k \in Nat /\ i < k /\ ~(j <= k)
      BY <1>3
    <3>2. k \notin stops
      <4> HIDE DEF stops
      <4> QED BY <1>2, <3>1
    <3> QED BY <3>1, <3>2
  <2> QED BY <2>1
<1> HIDE DEF found
<1>5. End(t, i, split) = CHOOSE e \in (i + 1)..Len(t) : found(e)
  BY DEF End, found
<1>6. End(t, i, split) \in (i + 1)..Len(t) /\ found(End(t, i, split))
  BY <1>3, <1>4, <1>5
<1> QED BY <1>6 DEF found

\* A visible character is in a span: the last one that begins before it.
LEMMA SpanFound ==
    ASSUME NEW t, Len(t) \in Nat, NEW split, NEW p \in Nat, Visible(t, p)
    PROVE  \E b \in 0..(Len(t) - 1) : Begins(t, b, split) /\ b <= p /\ p < End(t, b, split)
<1>0. p \in 0..(Len(t) - 1)
  BY DEF Visible
<1> DEFINE run == {i \in 0..p : \A k \in i..p : Visible(t, k)}
           begun == {i \in 0..p : Begins(t, i, split)}
<1>1. p \in run
  OBVIOUS
<1>2. PICK x \in run : \A y \in run : x <= y
  <2>1. run \subseteq Nat
    OBVIOUS
  <2> HIDE DEF run
  <2> QED BY <1>1, <2>1, LeastNumber
<1>3. x \in 0..p /\ \A k \in x..p : Visible(t, k)
  OBVIOUS
<1>4. ~Visible(t, x - 1)
  <2> SUFFICES ASSUME Visible(t, x - 1) PROVE FALSE
    OBVIOUS
  <2>1. x - 1 \in 0..p
    <3>1. x - 1 \in 0..(Len(t) - 1)
      BY DEF Visible
    <3>2. x \in 0..p
      BY <1>3
    <3> HIDE DEF run
    <3> QED BY <3>1, <3>2
  <2>2. ASSUME NEW k \in (x - 1)..p PROVE Visible(t, k)
    <3>1. k = x - 1 \/ k \in x..p
      BY <1>3
    <3> QED BY <1>3, <3>1
  <2>3. x - 1 \in run
    BY <2>1, <2>2
  <2> HIDE DEF run
  <2> QED BY <1>2, <1>3, <2>3
<1>5. x \in begun
  <2>1. Visible(t, x)
    BY <1>3
  <2> QED BY <1>3, <1>4, <2>1 DEF Begins
<1>6. PICK b \in begun : \A y \in begun : y <= b
  <2>1. begun \subseteq 0..p
    OBVIOUS
  <2> HIDE DEF begun
  <2> QED BY <1>5, <2>1, GreatestNumber
<1>7. b \in 0..(Len(t) - 1) /\ b <= p /\ Begins(t, b, split) /\ x <= b
  <2>1. b \in 0..p /\ Begins(t, b, split)
    OBVIOUS
  <2>2. x <= b
    <3> HIDE DEF begun
    <3> QED BY <1>5, <1>6
  <2> QED BY <1>0, <2>1, <2>2
<1> DEFINE e == End(t, b, split)
<1>8. e \in (b + 1)..Len(t) /\ ~GoesOn(t, e, split)
  BY <1>7, EndFound
<1> HIDE DEF e
<1>9. p < e
  <2> SUFFICES ASSUME ~(p < e) PROVE FALSE
    OBVIOUS
  <2>1. e \in 0..p /\ b < e /\ e \in x..p
    BY <1>0, <1>3, <1>7, <1>8
  <2>2. Visible(t, e)
    BY <1>3, <2>1
  <2>3. e \in begun
    BY <1>8, <2>1, <2>2 DEF GoesOn
  <2>4. b \in Nat /\ e \in Nat
    BY <1>7, <1>8
  <2> HIDE DEF begun
  <2> QED BY <1>6, <2>1, <2>3, <2>4
<1> QED BY <1>7, <1>9 DEF e

LEMMA SpansSplit ==
    ASSUME NEW t, Len(t) \in Nat, NEW split
    PROVE  Splits(Spans(t, split), t)
<1> DEFINE B == {i \in 0..(Len(t) - 1) : Begins(t, i, split)}
           s == Ascending(B)
           n == Cardinality(B)
           spans == Spans(t, split)
           e(i) == End(t, i, split)
<1>0. B \subseteq Nat /\ IsFiniteSet(B)
  <2>1. B \in SUBSET (0..(Len(t) - 1)) /\ B \subseteq Nat
    OBVIOUS
  <2>2. IsFiniteSet(0..(Len(t) - 1))
    BY FS_Interval
  <2> HIDE DEF B
  <2> QED BY <2>1, <2>2, FS_Subset
<1>1. \A i \in B : /\ i \in 0..(Len(t) - 1) /\ Begins(t, i, split)
                   /\ e(i) \in (i + 1)..Len(t)
                   /\ \A k \in (i + 1)..(e(i) - 1) : GoesOn(t, k, split)
  BY EndFound
<1>2. spans = [k \in DOMAIN s |-> [start |-> s[k], end |-> e(s[k])]]
  BY DEF Spans
<1>3. \A p \in Nat : Visible(t, p) => \E b \in B : b <= p /\ p < e(b)
  <2> SUFFICES ASSUME NEW p \in Nat, Visible(t, p) PROVE \E b \in B : b <= p /\ p < e(b)
    OBVIOUS
  <2>1. PICK b \in 0..(Len(t) - 1) : Begins(t, b, split) /\ b <= p /\ p < End(t, b, split)
    BY SpanFound
  <2> QED BY <2>1
<1> HIDE DEF B, e
<1>4. Enumerates(s, B) /\ n \in Nat
  BY <1>0, AscendingEnumerates
<1> HIDE DEF s, n, spans
<1>5. s \in [1..n -> B] /\ (\A a, b \in 1..n : a < b => s[a] < s[b]) /\ \A x \in B : \E k \in 1..n : s[k] = x
  BY <1>4 DEF Enumerates, n
<1>6. \A k \in 1..n : /\ spans[k] = [start |-> s[k], end |-> e(s[k])] /\ s[k] \in B
                      /\ spans[k].start = s[k] /\ spans[k].end = e(s[k])
  BY <1>2, <1>5
<1>7. spans \in Seq(Span) /\ Len(spans) = n
  <2>1. \A k \in 1..n : spans[k] \in Span
    <3> SUFFICES ASSUME NEW k \in 1..n PROVE spans[k] \in Span
      OBVIOUS
    <3> DEFINE i == s[k]
    <3>1. i \in B /\ spans[k] = [start |-> i, end |-> e(i)]
      BY <1>6
    <3> HIDE DEF i
    <3>2. i \in 0..(Len(t) - 1) /\ e(i) \in (i + 1)..Len(t)
      BY <1>1, <3>1
    <3>3. i \in Nat /\ e(i) \in Nat
      BY <3>2
    <3> DEFINE E == e(i)
    <3> HIDE DEF E
    <3>4. [start |-> i, end |-> E] \in Span
      BY <3>3 DEF Span, E
    <3> QED BY <3>1, <3>4 DEF E
  <2>2. spans \in [1..n -> Span]
    BY <1>2, <1>5, <2>1
  <2> QED BY <1>4, <2>2
<1>8. ASSUME NEW k \in 1..n
      PROVE  /\ spans[k].start < spans[k].end /\ spans[k].end <= Len(t)
             /\ \A p \in spans[k].start..(spans[k].end - 1) : Visible(t, p)
  <2> DEFINE i == s[k]
  <2>1. i \in B /\ spans[k].start = i /\ spans[k].end = e(i)
    BY <1>6
  <2> HIDE DEF i
  <2>2. i \in 0..(Len(t) - 1) /\ e(i) \in (i + 1)..Len(t)
    BY <1>1, <2>1
  <2>3. ASSUME NEW p \in i..(e(i) - 1) PROVE Visible(t, p)
    <3>1. p = i \/ p \in (i + 1)..(e(i) - 1)
      BY <2>2
    <3>2. CASE p = i
      BY <1>1, <2>1, <3>2 DEF Begins
    <3>3. CASE p \in (i + 1)..(e(i) - 1)
      BY <1>1, <2>1, <3>3 DEF GoesOn
    <3> QED BY <3>1, <3>2, <3>3
  <2> QED BY <2>1, <2>2, <2>3
<1>9. ASSUME NEW a \in 1..n, NEW b \in 1..n, a < b PROVE spans[a].end <= spans[b].start
  <2> DEFINE i == s[a]
             j == s[b]
  <2>1. i \in B /\ j \in B /\ i < j /\ spans[a].end = e(i) /\ spans[b].start = j
    BY <1>5, <1>6, <1>9
  <2> HIDE DEF i, j
  <2>2. i \in Nat /\ j \in Nat /\ e(i) \in Nat /\ ~GoesOn(t, j, split)
    <3>1. i \in 0..(Len(t) - 1) /\ e(i) \in (i + 1)..Len(t) /\ j \in 0..(Len(t) - 1)
      BY <1>1, <2>1
    <3>2. ~GoesOn(t, j, split)
      BY <1>1, <2>1 DEF GoesOn
    <3> QED BY <3>1, <3>2
  <2>3. e(i) <= j
    <3> SUFFICES ASSUME j < e(i) PROVE FALSE
      BY <2>2
    <3>1. j \in (i + 1)..(e(i) - 1)
      BY <2>1, <2>2
    <3> QED BY <1>1, <2>1, <2>2, <3>1
  <2> QED BY <2>1, <2>3
<1>10. ASSUME NEW p \in Nat, Visible(t, p) PROVE \E k \in 1..n : spans[k].start <= p /\ p < spans[k].end
  <2>1. PICK b \in B : b <= p /\ p < e(b)
    BY <1>3, <1>10
  <2>2. PICK k \in 1..n : s[k] = b
    BY <1>5
  <2>3. spans[k].start = b /\ spans[k].end = e(b)
    BY <1>6, <2>2
  <2> QED BY <2>1, <2>3
<1>11. Splits(spans, t)
  BY <1>7, <1>8, <1>9, <1>10 DEF Splits
<1> QED BY <1>11 DEF spans

LEMMA SpanBounds ==
    ASSUME NEW t, NEW spans, Splits(spans, t), NEW a \in 1..Len(spans)
    PROVE  /\ Len(spans) \in Nat /\ spans[a].start \in Nat /\ spans[a].end \in Nat
           /\ spans[a].start < spans[a].end /\ spans[a].end <= Len(t)
<1>1. spans[a] \in Span /\ Len(spans) \in Nat
  BY DEF Splits
<1> QED BY <1>1 DEF Splits, Span

LEMMA SpansInOrder ==
    ASSUME NEW t, NEW spans, Splits(spans, t), NEW a \in 1..Len(spans), NEW b \in 1..Len(spans)
    PROVE  /\ a < b => spans[a].start < spans[b].start /\ spans[a].end < spans[b].end
           /\ a <= b => spans[a].start <= spans[b].start /\ spans[a].end <= spans[b].end
<1> DEFINE sa == spans[a].start
           ea == spans[a].end
           sb == spans[b].start
           eb == spans[b].end
<1>1. sa \in Nat /\ ea \in Nat /\ sb \in Nat /\ eb \in Nat /\ sa < ea /\ sb < eb /\ Len(spans) \in Nat
  BY SpanBounds
<1>2. a < b => ea <= sb
  BY DEF Splits
<1>3. a = b => sa = sb /\ ea = eb
  OBVIOUS
<1> HIDE DEF sa, ea, sb, eb
<1>4. a < b => sa < sb /\ ea < eb
  BY <1>1, <1>2
<1>5. a <= b => sa <= sb /\ ea <= eb
  BY <1>1, <1>3, <1>4
<1> QED BY <1>4, <1>5 DEF sa, ea, sb, eb

\* _trim leaves the spans of a stretch that has nothing else to show.
LEMMA TrimToSpans ==
    ASSUME NEW t, Len(t) \in Nat, NEW spans, Splits(spans, t),
           NEW f \in 1..Len(spans), NEW l \in 1..Len(spans), f <= l,
           NEW s, s \in 0..spans[f].start, NEW e, e \in spans[l].end..Len(t),
           \A p \in s..(spans[f].start - 1) : ~Visible(t, p),
           \A p \in spans[l].end..(e - 1) : ~Visible(t, p)
    PROVE  Trim(t, s, e) = [start |-> spans[f].start, end |-> spans[l].end]
<1> DEFINE A == spans[f].start
           Z == spans[l].end
           shown == Shown(t, s, e)
<1>1. A \in Nat /\ Z \in Nat /\ A < Z /\ Z <= Len(t)
  <2> DEFINE F == spans[f].end
  <2>1. A \in Nat /\ F \in Nat /\ Z \in Nat /\ A < F /\ Z <= Len(t)
    BY SpanBounds
  <2>2. F <= Z
    BY SpansInOrder
  <2> HIDE DEF A, F, Z
  <2> QED BY <2>1, <2>2
<1>2. Visible(t, A) /\ Visible(t, Z - 1)
  <2>1. A \in spans[f].start..(spans[f].end - 1)
    <3>1. A \in Nat /\ spans[f].end \in Nat /\ A < spans[f].end
      BY SpanBounds
    <3> QED BY <3>1
  <2>2. Z - 1 \in spans[l].start..(spans[l].end - 1)
    <3>1. spans[l].start \in Nat /\ Z \in Nat /\ spans[l].start < Z
      BY SpanBounds
    <3> QED BY <3>1
  <2> QED BY <2>1, <2>2 DEF Splits
<1>3. s \in 0..A /\ e \in Z..Len(t) /\ (\A p \in s..(A - 1) : ~Visible(t, p)) /\ \A p \in Z..(e - 1) : ~Visible(t, p)
  OBVIOUS
<1> HIDE DEF A, Z
<1>4. A \in shown /\ Z - 1 \in shown
  <2>1. A \in s..(e - 1) /\ Z - 1 \in s..(e - 1)
    BY <1>1, <1>3
  <2> QED BY <1>2, <2>1 DEF Shown
<1>5. ASSUME NEW p \in shown PROVE p \in Nat /\ A <= p /\ p <= Z - 1
  <2>1. p \in s..(e - 1) /\ Visible(t, p)
    BY DEF Shown
  <2>2. p \notin s..(A - 1) /\ p \notin Z..(e - 1)
    BY <1>3, <2>1
  <2> QED BY <1>1, <1>3, <2>1, <2>2
<1>6. Trim(t, s, e) = IF shown = {} THEN [start |-> e, end |-> e]
                      ELSE [start |-> CHOOSE i \in shown : \A j \in shown : i <= j,
                            end |-> 1 + CHOOSE i \in shown : \A j \in shown : j <= i]
  BY DEF Trim
<1> HIDE DEF shown
<1>7. (CHOOSE i \in shown : \A j \in shown : i <= j) = A
  <2> DEFINE x == CHOOSE i \in shown : \A j \in shown : i <= j
  <2>1. A \in shown /\ \A j \in shown : A <= j
    BY <1>4, <1>5
  <2>2. x \in shown /\ \A j \in shown : x <= j
    BY <2>1
  <2> HIDE DEF x
  <2>3. x \in Nat /\ A <= x /\ x <= A
    BY <1>4, <1>5, <2>2
  <2>4. x = A
    BY <1>1, <2>3
  <2> QED BY <2>4 DEF x
<1>8. (CHOOSE i \in shown : \A j \in shown : j <= i) = Z - 1
  <2> DEFINE x == CHOOSE i \in shown : \A j \in shown : j <= i
  <2>1. Z - 1 \in shown /\ \A j \in shown : j <= Z - 1
    BY <1>4, <1>5
  <2>2. x \in shown /\ \A j \in shown : j <= x
    BY <2>1
  <2> HIDE DEF x
  <2>3. x \in Nat /\ x <= Z - 1 /\ Z - 1 <= x
    BY <1>4, <1>5, <2>2
  <2>4. x = Z - 1
    BY <1>1, <2>3
  <2> QED BY <2>4 DEF x
<1>9. 1 + (Z - 1) = Z
  BY <1>1
<1>10. Trim(t, s, e) = [start |-> A, end |-> Z]
  BY <1>4, <1>6, <1>7, <1>8, <1>9
<1> QED BY <1>10 DEF A, Z

----------------------------------------------------------------------------
(* Windows: the first and the last span of each.                           *)

First(step, k) == (k - 1) * step + 1
Last(n, size, step, k) == AtMost((k - 1) * step + size, n)
Sized(n, size, step) == n \in Nat \ {0} /\ size \in Nat \ {0} /\ step \in 1..size

LEMMA StepsGrow ==
    ASSUME NEW step \in Nat \ {0}, NEW k \in Nat \ {0}
    PROVE  /\ (k - 1) * step \in Nat /\ (k - 1) * step >= k - 1
           /\ ((k + 1) - 1) * step = (k - 1) * step + step
<1> DEFINE m == k - 1
<1>1. m \in Nat /\ (k + 1) - 1 = m + 1
  OBVIOUS
<1> HIDE DEF m
<1>2. m * step \in Nat
  BY <1>1
<1>3. m * step >= m
  <2>1. m * (step - 1) \in Nat
    BY <1>1
  <2>2. m * step = m * (step - 1) + m
    BY <1>1
  <2> QED BY <1>1, <2>1, <2>2
<1>4. (m + 1) * step = m * step + step
  BY <1>1
<1> QED BY <1>1, <1>2, <1>3, <1>4 DEF m

LEMMA CountFound ==
    ASSUME NEW n, NEW size, NEW step, Sized(n, size, step)
    PROVE  /\ Count(n, size, step) \in 1..n /\ Ends(n, size, step, Count(n, size, step))
           /\ \A l \in 1..(Count(n, size, step) - 1) : ~Ends(n, size, step, l)
<1> DEFINE reach == {k \in Nat \ {0} : Ends(n, size, step, k)}
           found(k) == Ends(n, size, step, k) /\ \A l \in 1..(k - 1) : ~Ends(n, size, step, l)
<1>0. n \in Nat \ {0} /\ size \in Nat \ {0} /\ step \in Nat \ {0} /\ step <= size
  BY DEF Sized
<1>1. n \in reach
  <2>1. (n - 1) * step \in Nat /\ (n - 1) * step >= n - 1
    BY <1>0, StepsGrow
  <2> DEFINE x == (n - 1) * step
  <2> HIDE DEF x
  <2>2. x + size >= n
    BY <1>0, <2>1 DEF x
  <2> QED BY <1>0, <2>2 DEF Ends, x
<1>2. PICK k \in reach : \A j \in reach : k <= j
  <2>1. reach \subseteq Nat
    OBVIOUS
  <2> HIDE DEF reach
  <2> QED BY <1>1, <2>1, LeastNumber
<1>3. k \in 1..n
  <2>1. k \in Nat \ {0}
    OBVIOUS
  <2> HIDE DEF reach
  <2> QED BY <1>0, <1>1, <1>2, <2>1
<1>4. found(k)
  <2>1. ASSUME NEW l \in 1..(k - 1) PROVE ~Ends(n, size, step, l)
    <3>1. l \in Nat \ {0} /\ ~(k <= l)
      BY <1>3
    <3>2. l \notin reach
      <4> HIDE DEF reach
      <4> QED BY <1>2, <3>1
    <3> QED BY <3>1, <3>2
  <2> QED BY <2>1
<1> HIDE DEF found
<1>5. Count(n, size, step) = CHOOSE x \in 1..n : found(x)
  BY DEF Count, found
<1>6. Count(n, size, step) \in 1..n /\ found(Count(n, size, step))
  BY <1>3, <1>4, <1>5
<1> QED BY <1>6 DEF found

\* The windows begin at the first span, advance by step, and end at the last.
LEMMA WindowBounds ==
    ASSUME NEW n, NEW size, NEW step, Sized(n, size, step), NEW k, k \in 1..Count(n, size, step)
    PROVE  /\ Count(n, size, step) \in 1..n
           /\ First(step, k) \in 1..n /\ Last(n, size, step, k) \in First(step, k)..n
           /\ k = 1 => First(step, k) = 1
           /\ IF k = Count(n, size, step) THEN Last(n, size, step, k) = n /\ Ends(n, size, step, k)
              ELSE /\ Last(n, size, step, k) = First(step, k) + size - 1 /\ ~Ends(n, size, step, k)
                   /\ First(step, k + 1) = First(step, k) + step
<1> DEFINE c == Count(n, size, step)
           x == (k - 1) * step
<1>0. n \in Nat \ {0} /\ size \in Nat \ {0} /\ step \in Nat \ {0} /\ step <= size
  BY DEF Sized
<1>1. c \in 1..n /\ Ends(n, size, step, c) /\ \A l \in 1..(c - 1) : ~Ends(n, size, step, l)
  BY CountFound
<1> HIDE DEF c
<1>2. k \in Nat \ {0} /\ k <= c /\ c \in Nat
  BY <1>0, <1>1 DEF c
<1>3. x \in Nat /\ ((k + 1) - 1) * step = x + step
  BY <1>0, <1>2, StepsGrow
<1>4. /\ First(step, k) = x + 1 /\ Last(n, size, step, k) = AtMost(x + size, n)
      /\ Ends(n, size, step, k) <=> x + size >= n
  BY DEF First, Last, Ends
<1>5. First(step, k + 1) = x + step + 1
  BY <1>3 DEF First
<1>6. k = 1 => x = 0
  BY <1>0
<1>7. x < n
  <2>1. CASE k = 1
    BY <1>0, <1>6, <2>1
  <2>2. CASE k # 1
    <3> DEFINE y == ((k - 1) - 1) * step
    <3>1. k - 1 \in Nat \ {0} /\ k - 1 \in 1..(c - 1)
      BY <1>2, <2>2
    <3>2. y \in Nat /\ (((k - 1) + 1) - 1) * step = y + step
      BY <1>0, <3>1, StepsGrow
    <3>3. ((k - 1) + 1) - 1 = k - 1
      BY <1>2
    <3>4. x = y + step
      BY <3>2, <3>3
    <3>5. ~(y + size >= n)
      BY <1>1, <3>1 DEF Ends
    <3> HIDE DEF y, x
    <3> QED BY <1>0, <3>2, <3>4, <3>5
  <2> QED BY <2>1, <2>2
<1>8. k # c => ~Ends(n, size, step, k)
  BY <1>1, <1>2
<1>9. k = c => Ends(n, size, step, k)
  BY <1>1
<1> HIDE DEF x
<1>10. First(step, k) \in 1..n /\ Last(n, size, step, k) \in First(step, k)..n
  BY <1>0, <1>3, <1>4, <1>7 DEF AtMost
<1>11. k = c => Last(n, size, step, k) = n
  BY <1>0, <1>3, <1>4, <1>9 DEF AtMost
<1>12. k # c => Last(n, size, step, k) = First(step, k) + size - 1 /\ First(step, k + 1) = First(step, k) + step
  BY <1>0, <1>3, <1>4, <1>5, <1>8 DEF AtMost
<1>13. k = 1 => First(step, k) = 1
  BY <1>4, <1>6
<1> QED BY <1>1, <1>8, <1>9, <1>10, <1>11, <1>12, <1>13 DEF c

\* Any size - step + 1 neighbouring spans are in one window.
LEMMA WindowOf ==
    ASSUME NEW n, NEW size, NEW step, Sized(n, size, step), NEW m, m \in 1..Count(n, size, step),
           NEW x, x \in 1..Last(n, size, step, m), NEW d, d \in 0..(size - step), d < x
    PROVE  \E k \in 1..m : First(step, k) <= x - d /\ x <= Last(n, size, step, k)
<1> DEFINE c == Count(n, size, step)
           L(k) == Last(n, size, step, k)
           reach == {k \in 1..m : x <= L(k)}
<1>0. n \in Nat \ {0} /\ size \in Nat \ {0} /\ step \in Nat \ {0} /\ step <= size /\ c \in Nat
  BY CountFound DEF Sized
<1>1. L(m) \in Nat /\ m \in Nat
  <2>1. First(step, m) \in 1..n /\ L(m) \in First(step, m)..n
    BY WindowBounds
  <2> HIDE DEF L, c
  <2> QED BY <1>0, <2>1 DEF c
<1>2. x \in Nat /\ d \in Nat /\ m \in reach
  BY <1>0, <1>1
<1>3. PICK k \in reach : \A j \in reach : k <= j
  <2>1. reach \subseteq Nat
    OBVIOUS
  <2> HIDE DEF reach
  <2> QED BY <1>2, <2>1, LeastNumber
<1>4. k \in 1..m /\ x <= L(k) /\ k \in 1..c
  BY <1>0, <1>1
<1>5. CASE k = 1
  <2>1. First(step, k) = 1
    BY <1>4, <1>5, WindowBounds
  <2>2. 1 <= x - d
    BY <1>2
  <2> QED BY <1>4, <2>1, <2>2
<1>6. CASE k # 1
  <2> DEFINE j == k - 1
  <2>1. j \in 1..m /\ j \in 1..c /\ j # c /\ j + 1 = k /\ ~(k <= j)
    BY <1>0, <1>1, <1>4, <1>6
  <2>2. ~(x <= L(j))
    <3>1. j \notin reach
      <4> HIDE DEF reach, j
      <4> QED BY <1>3, <2>1
    <3> QED BY <2>1, <3>1
  <2> HIDE DEF j, L, c
  <2>3. L(j) = First(step, j) + size - 1 /\ First(step, j + 1) = First(step, j) + step /\ First(step, j) \in 1..n
    BY <2>1, WindowBounds DEF L, c
  <2>4. First(step, k) = First(step, j) + step
    BY <2>1, <2>3
  <2>5. First(step, k) <= x - d
    <3> DEFINE g == First(step, j)
    <3> HIDE DEF g
    <3>1. g \in Nat /\ ~(x <= g + size - 1) /\ First(step, k) = g + step
      BY <2>2, <2>3, <2>4 DEF g
    <3>2. d <= size - step
      BY <1>0
    <3> QED BY <1>0, <1>2, <3>1, <3>2
  <2> QED BY <1>4, <2>5 DEF L
<1> QED BY <1>5, <1>6

----------------------------------------------------------------------------
(* chunk_text: its chunks are the windows over the spans.                  *)

Tiles(chunks, spans, size, step) ==
    /\ chunks \in Seq(Span) /\ Len(chunks) = Count(Len(spans), size, step)
    /\ \A k \in 1..Len(chunks) :
         /\ chunks[k].start = spans[First(step, k)].start
         /\ chunks[k].end = spans[Last(Len(spans), size, step, k)].end

LEMMA TilesFrom ==
    ASSUME NEW t, NEW spans, Splits(spans, t), NEW size, NEW step, Sized(Len(spans), size, step), NEW chunks,
           chunks = [k \in 1..Count(Len(spans), size, step) |->
                       [start |-> spans[First(step, k)].start, end |-> spans[Last(Len(spans), size, step, k)].end]]
    PROVE  Tiles(chunks, spans, size, step)
<1> DEFINE n == Len(spans)
           c == Count(n, size, step)
           rec(k) == [start |-> spans[First(step, k)].start, end |-> spans[Last(n, size, step, k)].end]
<1>0. c \in Nat /\ n \in Nat
  BY CountFound DEF Sized
<1>1. ASSUME NEW k \in 1..c PROVE rec(k) \in Span
  <2> DEFINE f == First(step, k)
             l == Last(n, size, step, k)
  <2>1. f \in 1..n /\ l \in f..n
    BY WindowBounds
  <2> HIDE DEF f, l
  <2>2. l \in 1..n
    BY <1>0, <2>1
  <2> DEFINE a == spans[f].start
             b == spans[l].end
  <2>3. a \in Nat /\ b \in Nat
    BY <2>1, <2>2, SpanBounds
  <2> HIDE DEF a, b
  <2>4. [start |-> a, end |-> b] \in Span
    BY <2>3 DEF Span
  <2> QED BY <2>4 DEF a, b, f, l
<1>2. chunks = [k \in 1..c |-> rec(k)]
  OBVIOUS
<1>3. \A k \in 1..c : rec(k).start = spans[First(step, k)].start /\ rec(k).end = spans[Last(n, size, step, k)].end
  OBVIOUS
<1> HIDE DEF c, rec
<1>4. chunks \in [1..c -> Span] /\ \A k \in 1..c : chunks[k] = rec(k)
  BY <1>1, <1>2
<1>5. chunks \in Seq(Span) /\ Len(chunks) = c
  <2>1. c \in Nat /\ chunks \in [1..c -> Span]
    BY <1>0, <1>4
  <2> QED BY ONLY <2>1
<1> QED BY <1>3, <1>4, <1>5 DEF Tiles, c

\* A text that shows something has spans.
LEMMA SpansThere ==
    ASSUME NEW t, Len(t) \in Nat, Shown(t, 0, Len(t)) # {}, NEW spans, Splits(spans, t)
    PROVE  Len(spans) \in Nat \ {0}
<1>1. PICK p \in Shown(t, 0, Len(t)) : TRUE
  OBVIOUS
<1>2. p \in Nat /\ Visible(t, p)
  BY <1>1 DEF Shown
<1>3. PICK k \in 1..Len(spans) : TRUE
  BY <1>2 DEF Splits
<1>4. Len(spans) \in Nat
  BY DEF Splits
<1> QED BY <1>3, <1>4

LEMMA WordsTile ==
    ASSUME NEW t, Len(t) \in Nat, Shown(t, 0, Len(t)) # {}, NEW counts \in BOOLEAN
    PROVE  \E size, step : /\ Sized(Len(Spans(t, FALSE)), size, step)
                           /\ Tiles(WordChunks(t, counts), Spans(t, FALSE), size, step)
<1> DEFINE words == Spans(t, FALSE)
           tokens == IF counts THEN Len(Spans(t, TRUE)) ELSE 13
           per == IF counts THEN Len(words) ELSE 10
           size == AtLeast(1, (MaxTokens * per) \div tokens)
           shared == AtMost((Overlap * per) \div tokens, size - 1)
           step == size - shared
           cut == Windows(words, size, step)
<1>1. Splits(words, t) /\ Splits(Spans(t, TRUE), t)
  BY SpansSplit
<1>2. Len(words) \in Nat \ {0} /\ Len(Spans(t, TRUE)) \in Nat \ {0}
  BY <1>1, SpansThere
<1>3. tokens \in Nat \ {0} /\ per \in Nat
  <2>1. CASE counts
    BY <1>2, <2>1
  <2>2. CASE ~counts
    BY <2>2
  <2> QED BY <2>1, <2>2
<1> HIDE DEF tokens, per, words
<1>4. MaxTokens \in Nat /\ Overlap \in Nat
  BY ScanAssumption
<1>5. size \in Nat \ {0}
  <2>1. MaxTokens * per \in Nat
    BY <1>3, <1>4
  <2> DEFINE x == MaxTokens * per
  <2> HIDE DEF x
  <2>2. x \div tokens \in Nat
    BY <1>3, <2>1 DEF x
  <2>3. AtLeast(1, x \div tokens) \in Nat \ {0}
    BY <2>2 DEF AtLeast
  <2> QED BY <2>3 DEF x
<1> HIDE DEF size
<1>6. shared \in 0..(size - 1)
  <2>1. Overlap * per \in Nat
    BY <1>3, <1>4
  <2> DEFINE x == Overlap * per
  <2> HIDE DEF x
  <2>2. x \div tokens \in Nat
    BY <1>3, <2>1 DEF x
  <2>3. AtMost(x \div tokens, size - 1) \in 0..(size - 1)
    BY <1>5, <2>2 DEF AtMost
  <2> QED BY <2>3 DEF x
<1> HIDE DEF shared
<1>7. step \in 1..size
  BY <1>5, <1>6
<1>8. WordChunks(t, counts) = [k \in DOMAIN cut |-> [start |-> cut[k].start, end |-> cut[k].end]]
  BY DEF WordChunks, words, tokens, per, size, shared
<1> HIDE DEF step
<1>9. Sized(Len(words), size, step)
  BY <1>2, <1>5, <1>7 DEF Sized
<1>10. cut = [k \in 1..Count(Len(words), size, step) |->
                [start |-> words[First(step, k)].start, end |-> words[Last(Len(words), size, step, k)].end,
                 last |-> Ends(Len(words), size, step, k)]]
  BY DEF Windows, First, Last
<1> HIDE DEF cut
<1>11. WordChunks(t, counts) = [k \in 1..Count(Len(words), size, step) |->
                [start |-> words[First(step, k)].start, end |-> words[Last(Len(words), size, step, k)].end]]
  BY <1>8, <1>10
<1>12. Tiles(WordChunks(t, counts), words, size, step)
  BY <1>1, <1>9, <1>11, TilesFrom
<1> QED BY <1>9, <1>12 DEF words

\* The blank a tokenizer may count as part of a token.
LEMMA OffsetsOfSpans ==
    ASSUME NEW t, Len(t) \in Nat, NEW spaced
    PROVE  LET spans == Spans(t, TRUE)
               offsets == Offsets(t, spaced)
           IN  /\ Len(offsets) = Len(spans)
               /\ \A k \in 1..Len(spans) :
                    /\ offsets[k].end = spans[k].end /\ offsets[k].start \in 0..spans[k].start
                    /\ \A p \in offsets[k].start..(spans[k].start - 1) : ~Visible(t, p)
<1> DEFINE spans == Spans(t, TRUE)
           offsets == Offsets(t, spaced)
           early(k) == spaced /\ spans[k].start > 0 /\ ~Visible(t, spans[k].start - 1)
<1>1. Splits(spans, t)
  BY SpansSplit
<1>2. offsets = [k \in DOMAIN spans |-> IF early(k) THEN [spans[k] EXCEPT !.start = spans[k].start - 1] ELSE spans[k]]
  BY DEF Offsets
<1> HIDE DEF spans, offsets
<1>3. spans \in Seq(Span) /\ DOMAIN spans = 1..Len(spans) /\ Len(spans) \in Nat
  BY <1>1 DEF Splits
<1>4. ASSUME NEW k \in 1..Len(spans)
      PROVE  /\ offsets[k] \in Span
             /\ offsets[k].end = spans[k].end /\ offsets[k].start \in 0..spans[k].start
             /\ \A p \in offsets[k].start..(spans[k].start - 1) : ~Visible(t, p)
  <2> DEFINE s == spans[k]
  <2>1. s \in Span
    BY <1>3
  <2>2. s = [start |-> s.start, end |-> s.end] /\ s.start \in Nat /\ s.end \in Nat
    BY <2>1 DEF Span
  <2>3. offsets[k] = IF early(k) THEN [s EXCEPT !.start = s.start - 1] ELSE s
    BY <1>2, <1>3
  <2>4. CASE early(k)
    <3>1. s.start > 0 /\ ~Visible(t, s.start - 1)
      BY <2>4
    <3> HIDE DEF s, early
    <3>2. offsets[k] = [start |-> s.start - 1, end |-> s.end]
      BY <2>2, <2>3, <2>4
    <3>3. s.start - 1 \in Nat
      BY <2>2, <3>1
    <3>4. offsets[k] \in Span
      BY <2>2, <3>2, <3>3 DEF Span
    <3>5. offsets[k].end = s.end /\ offsets[k].start = s.start - 1
      BY <3>2
    <3>6. ASSUME NEW p \in (s.start - 1)..(s.start - 1) PROVE ~Visible(t, p)
      <4>1. p = s.start - 1
        BY <2>2
      <4> QED BY <3>1, <4>1
    <3>7. s.start - 1 \in 0..s.start
      BY <2>2, <3>3
    <3> QED BY <3>4, <3>5, <3>6, <3>7 DEF s
  <2>5. CASE ~early(k)
    <3> HIDE DEF s, early
    <3>1. offsets[k] = s
      BY <2>3, <2>5
    <3>2. s.start \in 0..s.start /\ \A p \in s.start..(s.start - 1) : ~Visible(t, p)
      BY <2>2
    <3> QED BY <2>1, <3>1, <3>2 DEF s
  <2> QED BY <2>4, <2>5
<1> HIDE DEF early
<1>5. offsets \in [1..Len(spans) -> Span]
  BY <1>2, <1>3, <1>4
<1>6. Len(offsets) = Len(spans)
  BY <1>3, <1>5
<1> QED BY <1>4, <1>6 DEF spans, offsets

\* Nothing shows before the first span or after the last.
LEMMA NothingOutside ==
    ASSUME NEW t, Len(t) \in Nat, NEW spans, Splits(spans, t), Len(spans) \in Nat \ {0}
    PROVE  /\ \A p \in 0..(spans[1].start - 1) : ~Visible(t, p)
           /\ \A p \in spans[Len(spans)].end..(Len(t) - 1) : ~Visible(t, p)
<1> DEFINE n == Len(spans)
<1>0. n \in Nat /\ 1 \in 1..n /\ n \in 1..n
  OBVIOUS
<1> HIDE DEF n
<1>1. spans[1].start \in Nat /\ spans[n].end \in Nat
  BY <1>0, SpanBounds DEF n
<1>2. ASSUME NEW p \in Nat, Visible(t, p) PROVE spans[1].start <= p /\ p < spans[n].end
  <2>1. PICK k \in 1..n : spans[k].start <= p /\ p < spans[k].end
    BY <1>2 DEF Splits, n
  <2>2. spans[k].start \in Nat /\ spans[k].end \in Nat
    BY SpanBounds DEF n
  <2>3. 1 <= k /\ k <= n
    BY <1>0
  <2>4. spans[1].start <= spans[k].start /\ spans[k].end <= spans[n].end
    BY <1>0, <2>3, SpansInOrder DEF n
  <2> QED BY <1>1, <2>1, <2>2, <2>4
<1>3. ASSUME NEW p \in 0..(spans[1].start - 1) PROVE ~Visible(t, p)
  BY <1>1, <1>2
<1>4. ASSUME NEW p \in spans[n].end..(Len(t) - 1) PROVE ~Visible(t, p)
  BY <1>1, <1>2
<1> QED BY <1>3, <1>4 DEF n

LEMMA NonEmptyAll ==
    ASSUME NEW c \in Nat, NEW chunks, DOMAIN chunks = 1..c, chunks = [k \in 1..c |-> chunks[k]],
           \A k \in 1..c : chunks[k].end > chunks[k].start
    PROVE  NonEmpty(chunks) = chunks
<1> DEFINE kept == Ascending({k \in DOMAIN chunks : chunks[k].end > chunks[k].start})
<1>1. {k \in DOMAIN chunks : chunks[k].end > chunks[k].start} = 1..c
  OBVIOUS
<1>2. kept = [k \in 1..c |-> k]
  BY <1>1, AscendingInterval
<1>3. NonEmpty(chunks) = [k \in DOMAIN kept |-> chunks[kept[k]]]
  BY DEF NonEmpty
<1> HIDE DEF kept
<1> QED BY <1>2, <1>3

\* _windows: each window is cut down to its own tokens, and none is empty.
LEMMA TokensTile ==
    ASSUME NEW t, Len(t) \in Nat, Shown(t, 0, Len(t)) # {}, NEW spaced
    PROVE  /\ Sized(Len(Spans(t, TRUE)), MaxTokens, MaxTokens - Overlap)
           /\ Tiles(TokenChunks(t, Offsets(t, spaced)), Spans(t, TRUE), MaxTokens, MaxTokens - Overlap)
<1> DEFINE spans == Spans(t, TRUE)
           offsets == Offsets(t, spaced)
           n == Len(spans)
           size == MaxTokens
           step == MaxTokens - Overlap
           c == Count(n, size, step)
           rec(k) == [start |-> spans[First(step, k)].start, end |-> spans[Last(n, size, step, k)].end]
<1>1. Splits(spans, t)
  BY SpansSplit
<1>2. /\ Len(offsets) = n
      /\ \A k \in 1..n : /\ offsets[k].end = spans[k].end /\ offsets[k].start \in 0..spans[k].start
                         /\ \A p \in offsets[k].start..(spans[k].start - 1) : ~Visible(t, p)
  BY OffsetsOfSpans
<1>3. Windows(offsets, size, step) =
        [k \in 1..Count(Len(offsets), size, step) |->
           [start |-> offsets[First(step, k)].start, end |-> offsets[Last(Len(offsets), size, step, k)].end,
            last |-> Ends(Len(offsets), size, step, k)]]
  BY DEF Windows, First, Last
<1>4. TokenChunks(t, offsets) = IF Len(offsets) <= size THEN <<Trim(t, 0, Len(t))>>
                                ELSE Trimmed(t, Windows(offsets, size, step))
  BY DEF TokenChunks
<1>5. size \in Nat \ {0} /\ step \in 1..size
  BY ScanAssumption
<1> HIDE DEF spans, offsets, size, step
<1>6. n \in Nat \ {0}
  BY <1>1, SpansThere
<1>7. Sized(n, size, step)
  BY <1>5, <1>6 DEF Sized
<1>8. c \in 1..n /\ c \in Nat /\ \A l \in 1..(c - 1) : ~Ends(n, size, step, l)
  BY <1>6, <1>7, CountFound
<1>9. \A p \in spans[n].end..(Len(t) - 1) : ~Visible(t, p)
  BY <1>1, <1>6, NothingOutside
<1>10. CASE n <= size
  <2> DEFINE r == Trim(t, 0, Len(t))
  <2>1. c = 1
    <3>1. (1 - 1) * step = 0
      BY <1>5
    <3>2. Ends(n, size, step, 1)
      BY <1>5, <1>6, <1>10, <3>1 DEF Ends
    <3> HIDE DEF c
    <3> QED BY <1>6, <1>8, <3>2
  <2>2. First(step, 1) = 1 /\ Last(n, size, step, 1) = n
    BY <1>7, <2>1, WindowBounds
  <2>3. 1 \in 1..n /\ n \in 1..n /\ 1 <= n
    BY <1>6
  <2>4. spans[1].start \in Nat /\ spans[n].end \in Nat /\ spans[n].end <= Len(t)
    BY <1>1, <2>3, SpanBounds
  <2>5. 0 \in 0..spans[1].start /\ Len(t) \in spans[n].end..Len(t)
    BY <2>4
  <2>6. \A p \in 0..(spans[1].start - 1) : ~Visible(t, p)
    BY <1>1, <1>6, NothingOutside
  <2>7. r = [start |-> spans[1].start, end |-> spans[n].end]
    BY <1>1, <1>9, <2>3, <2>5, <2>6, TrimToSpans
  <2>8. r = rec(1)
    BY <2>2, <2>7
  <2> HIDE DEF r, rec
  <2>9. <<r>> = [k \in 1..c |-> rec(k)]
    <3>1. <<r>> = [k \in 1..1 |-> rec(k)]
      BY <2>8
    <3> QED BY <2>1, <3>1
  <2>10. TokenChunks(t, offsets) = <<r>>
    BY <1>2, <1>4, <1>10 DEF r
  <2>11. TokenChunks(t, offsets) = [k \in 1..c |-> rec(k)]
    BY <2>9, <2>10
  <2> QED BY <1>1, <1>7, <2>11, TilesFrom DEF rec, spans, offsets, size, step
<1>11. CASE ~(n <= size)
  <2> DEFINE cut == Windows(offsets, size, step)
             to(k) == IF cut[k].last THEN Len(t) ELSE cut[k].end
             all == [k \in DOMAIN cut |-> Trim(t, cut[k].start, to(k))]
  <2>1. TokenChunks(t, offsets) = NonEmpty(all)
    BY <1>2, <1>4, <1>11 DEF Trimmed
  <2>2. DOMAIN cut = 1..c /\ \A k \in 1..c : /\ cut[k].start = offsets[First(step, k)].start
                                             /\ cut[k].end = offsets[Last(n, size, step, k)].end
                                             /\ cut[k].last = Ends(n, size, step, k)
    BY <1>2, <1>3
  <2> HIDE DEF cut, c
  <2>3. ASSUME NEW k \in 1..c PROVE all[k] = rec(k) /\ rec(k).end > rec(k).start
    <3> DEFINE f == First(step, k)
               l == Last(n, size, step, k)
               a == cut[k].start
               e == to(k)
    <3>1. /\ f \in 1..n /\ l \in f..n
          /\ IF k = c THEN l = n /\ Ends(n, size, step, k) ELSE ~Ends(n, size, step, k)
      BY <1>7, WindowBounds DEF c
    <3>2. a = offsets[f].start /\ cut[k].end = offsets[l].end /\ cut[k].last = Ends(n, size, step, k)
      BY <2>2
    <3> HIDE DEF f, l
    <3>3. f \in 1..n /\ l \in 1..n /\ f <= l
      BY <1>6, <3>1
    <3>4. a \in 0..spans[f].start /\ \A p \in a..(spans[f].start - 1) : ~Visible(t, p)
      BY <1>2, <3>2, <3>3
    <3>5. spans[l].end \in Nat /\ spans[l].end <= Len(t) /\ cut[k].end = spans[l].end
      BY <1>1, <1>2, <3>2, <3>3, SpanBounds
    <3>6. e \in spans[l].end..Len(t) /\ \A p \in spans[l].end..(e - 1) : ~Visible(t, p)
      <4>1. CASE k = c
        BY <1>9, <3>1, <3>2, <3>5, <4>1
      <4>2. CASE k # c
        <5>1. e = spans[l].end
          BY <3>1, <3>2, <3>5, <4>2
        <5> QED BY <3>5, <5>1
      <4> QED BY <4>1, <4>2
    <3> HIDE DEF a, e
    <3>7. Trim(t, a, e) = [start |-> spans[f].start, end |-> spans[l].end]
      BY <1>1, <3>3, <3>4, <3>6, TrimToSpans
    <3>8. all[k] = Trim(t, a, e)
      BY <2>2 DEF a, e
    <3>9. spans[f].start < spans[l].end
      <4> DEFINE x == spans[f].start
                 y == spans[f].end
                 z == spans[l].end
      <4>1. x \in Nat /\ y \in Nat /\ z \in Nat /\ x < y /\ y <= z
        BY <1>1, <3>3, SpanBounds, SpansInOrder
      <4> HIDE DEF x, y, z
      <4>2. x < z
        BY <4>1
      <4> QED BY <4>2 DEF x, z
    <3> QED BY <3>7, <3>8, <3>9 DEF f, l
  <2>4. all = [k \in 1..c |-> rec(k)]
    BY <2>2, <2>3
  <2> HIDE DEF all, rec
  <2>5. /\ DOMAIN all = 1..c /\ all = [k \in 1..c |-> all[k]]
        /\ \A k \in 1..c : all[k].end > all[k].start
    BY <2>3, <2>4
  <2>6. NonEmpty(all) = all
    BY <1>8, <2>5, NonEmptyAll DEF c
  <2>7. TokenChunks(t, offsets) = [k \in 1..c |-> rec(k)]
    BY <2>1, <2>4, <2>6
  <2> QED BY <1>1, <1>7, <2>7, TilesFrom DEF c, rec, spans, offsets, size, step
<1> QED BY <1>7, <1>10, <1>11 DEF spans, size, step

LEMMA StringsAreSequences ==
    ASSUME NEW t
    PROVE  t \in Strings <=> (t \in Seq(Characters) /\ Len(t) \in 0..MaxLen)
<1>0. MaxLen \in Nat
  BY ScanAssumption
<1>1. ASSUME t \in Strings PROVE t \in Seq(Characters) /\ Len(t) \in 0..MaxLen
  <2>1. PICK n \in 0..MaxLen : t \in [1..n -> Characters]
    BY <1>1 DEF Strings
  <2>2. n \in Nat
    BY <1>0
  <2>3. t \in Seq(Characters) /\ Len(t) = n
    BY ONLY <2>1, <2>2
  <2> QED BY <2>3
<1>2. ASSUME t \in Seq(Characters), Len(t) \in 0..MaxLen PROVE t \in Strings
  <2>1. t \in [1..Len(t) -> Characters]
    BY <1>2
  <2> QED BY <1>2, <2>1 DEF Strings
<1> QED BY <1>1, <1>2

\* chunk_text, whatever the tokenizer: windows over words or over tokens.
Chunked(chunks, t, spans, size, step) ==
    Splits(spans, t) /\ Sized(Len(spans), size, step) /\ Tiles(chunks, spans, size, step)

LEMMA ChunksOf ==
    ASSUME NEW k \in Tokenizers, NEW t \in Strings
    PROVE  Chunks[k][t] = IF Shown(t, 0, Len(t)) = {} THEN <<>>
                          ELSE CASE k = "spans"  -> TokenChunks(t, Offsets(t, FALSE))
                                 [] k = "spaced" -> TokenChunks(t, Offsets(t, TRUE))
                                 [] k = "encode" -> WordChunks(t, TRUE)
                                 [] k = "none"   -> WordChunks(t, FALSE)
  BY DEF Chunks

LEMMA TextChunked ==
    ASSUME NEW k \in Tokenizers, NEW t \in Strings, Shown(t, 0, Len(t)) # {}
    PROVE  \E spans, size, step :
             /\ Chunked(Chunks[k][t], t, spans, size, step)
             /\ k \in {"spans", "spaced"} => spans = Spans(t, TRUE) /\ size = MaxTokens /\ step = MaxTokens - Overlap
<1> DEFINE chunks == Chunks[k][t]
<1>1. Len(t) \in Nat
  BY StringsAreSequences
<1>2. Splits(Spans(t, TRUE), t) /\ Splits(Spans(t, FALSE), t)
  BY <1>1, SpansSplit
<1>3. k \in {"spans", "spaced", "encode", "none"}
  BY ScanAssumption
<1>4. chunks = CASE k = "spans"  -> TokenChunks(t, Offsets(t, FALSE))
                 [] k = "spaced" -> TokenChunks(t, Offsets(t, TRUE))
                 [] k = "encode" -> WordChunks(t, TRUE)
                 [] k = "none"   -> WordChunks(t, FALSE)
  BY ChunksOf
<1> HIDE DEF chunks
<1>5. CASE k \in {"spans", "spaced"}
  <2>1. PICK spaced : chunks = TokenChunks(t, Offsets(t, spaced))
    BY <1>4, <1>5
  <2>2. Chunked(chunks, t, Spans(t, TRUE), MaxTokens, MaxTokens - Overlap)
    BY <1>1, <1>2, <2>1, TokensTile DEF Chunked
  <2> QED BY <2>2 DEF chunks
<1>6. CASE k \notin {"spans", "spaced"}
  <2>1. PICK counts \in BOOLEAN : chunks = WordChunks(t, counts)
    BY <1>3, <1>4, <1>6
  <2>2. PICK size, step : /\ Sized(Len(Spans(t, FALSE)), size, step)
                          /\ Tiles(WordChunks(t, counts), Spans(t, FALSE), size, step)
    BY <1>1, WordsTile
  <2>3. Chunked(chunks, t, Spans(t, FALSE), size, step)
    BY <1>2, <2>1, <2>2 DEF Chunked
  <2> QED BY <1>6, <2>3 DEF chunks
<1> QED BY <1>5, <1>6

\* The chunks of a text: there is one, and their ends are in the text.
LEMMA ChunkBounds ==
    ASSUME NEW chunks, NEW t, Len(t) \in Nat, NEW spans, NEW size, NEW step,
           Chunked(chunks, t, spans, size, step)
    PROVE  /\ chunks \in Seq(Span) /\ Len(chunks) \in Nat \ {0} /\ Len(chunks) = Count(Len(spans), size, step)
           /\ \A k \in 1..Len(chunks) :
                /\ First(step, k) \in 1..Len(spans) /\ Last(Len(spans), size, step, k) \in 1..Len(spans)
                /\ chunks[k].start = spans[First(step, k)].start
                /\ chunks[k].end = spans[Last(Len(spans), size, step, k)].end
                /\ chunks[k].start \in 0..Len(t) /\ chunks[k].end \in 1..Len(t)
                /\ k > 1 => chunks[k].start > 0
<1> DEFINE n == Len(spans)
           c == Count(n, size, step)
<1>1. /\ Splits(spans, t) /\ Sized(n, size, step) /\ chunks \in Seq(Span) /\ Len(chunks) = c
      /\ \A k \in 1..c : /\ chunks[k].start = spans[First(step, k)].start
                         /\ chunks[k].end = spans[Last(n, size, step, k)].end
  BY DEF Chunked, Tiles
<1>2. n \in Nat \ {0} /\ c \in 1..n /\ step \in Nat \ {0}
  BY <1>1, CountFound DEF Sized
<1> HIDE DEF c
<1>3. ASSUME NEW k \in 1..c
      PROVE  /\ First(step, k) \in 1..n /\ Last(n, size, step, k) \in 1..n
             /\ chunks[k].start \in 0..Len(t) /\ chunks[k].end \in 1..Len(t)
             /\ k > 1 => chunks[k].start > 0
  <2> DEFINE f == First(step, k)
             l == Last(n, size, step, k)
  <2>1. f \in 1..n /\ l \in f..n
    BY <1>1, WindowBounds DEF c
  <2>2. k > 1 => f > 1
    <3>1. k \in Nat \ {0}
      BY <1>2
    <3>2. (k - 1) * step \in Nat /\ (k - 1) * step >= k - 1
      BY <1>2, <3>1, StepsGrow
    <3> DEFINE x == (k - 1) * step
    <3> HIDE DEF x
    <3>3. k > 1 => x + 1 > 1
      BY <3>1, <3>2 DEF x
    <3> QED BY <3>3 DEF x, First
  <2>3. chunks[k].start = spans[f].start /\ chunks[k].end = spans[l].end
    BY <1>1
  <2> HIDE DEF f, l
  <2>4. l \in 1..n /\ 1 \in 1..n
    BY <1>2, <2>1
  <2> DEFINE a == spans[f].start
             b == spans[f].end
             d == spans[l].start
             e == spans[l].end
             o == spans[1].start
  <2>5. /\ a \in Nat /\ b \in Nat /\ e \in Nat /\ o \in Nat /\ d \in Nat /\ a < b /\ d < e
        /\ b <= Len(t) /\ e <= Len(t)
    BY <1>1, <2>1, <2>4, SpanBounds
  <2>6. k > 1 => o < a
    <3>1. 1 < f => o < a
      BY <1>1, <2>1, <2>4, SpansInOrder
    <3>2. k > 1 => 1 < f
      BY <1>2, <2>1, <2>2
    <3> QED BY <3>1, <3>2
  <2> HIDE DEF a, b, d, e, o
  <2>7. a \in 0..Len(t) /\ e \in 1..Len(t)
    BY <2>5
  <2>8. k > 1 => a > 0
    BY <2>5, <2>6
  <2> QED BY <2>1, <2>3, <2>4, <2>7, <2>8 DEF a, e, f, l
<1>4. c \in Nat \ {0}
  BY <1>2
<1> QED BY <1>1, <1>3, <1>4 DEF c

\* The first m chunks leave out nothing that shows before chunk m + 1 begins, and
\* all the chunks leave out nothing.
Unscanned(chunks, t, m) == IF m < Len(chunks) THEN chunks[m + 1].start ELSE Len(t)

LEMMA ChunksReach ==
    ASSUME NEW chunks, NEW t, Len(t) \in Nat, NEW spans, NEW size, NEW step,
           Chunked(chunks, t, spans, size, step), NEW m, m \in 1..Len(chunks),
           NEW p \in Nat, Visible(t, p), p < Unscanned(chunks, t, m)
    PROVE  \E k \in 1..m : chunks[k].start <= p /\ p < chunks[k].end
<1> DEFINE n == Len(spans)
           c == Len(chunks)
           F(k) == First(step, k)
           L(k) == Last(n, size, step, k)
<1>1. Splits(spans, t) /\ Sized(n, size, step)
  BY DEF Chunked
<1>2. /\ c \in Nat \ {0} /\ c = Count(n, size, step)
      /\ \A k \in 1..c : /\ F(k) \in 1..n /\ L(k) \in 1..n
                         /\ chunks[k].start = spans[F(k)].start /\ chunks[k].end = spans[L(k)].end
  BY ChunkBounds
<1>3. n \in Nat /\ size \in Nat /\ step \in 1..size
  BY <1>1 DEF Sized
<1>4. PICK x \in 1..n : spans[x].start <= p /\ p < spans[x].end
  BY <1>1 DEF Splits
<1>5. spans[x].start \in Nat /\ spans[x].end \in Nat
  BY <1>1, SpanBounds
<1>6. m \in 1..Count(n, size, step)
  BY <1>2
<1>7. x <= L(m)
  <2>1. CASE m = c
    <3>1. L(m) = n
      BY <1>1, <1>2, <1>6, <2>1, WindowBounds
    <3> QED BY <1>3, <3>1
  <2>2. CASE m # c
    <3>1. m < c /\ m + 1 \in 1..c
      BY <1>2, <2>2
    <3>2. L(m) = F(m) + size - 1 /\ F(m + 1) = F(m) + step /\ F(m) \in 1..n
      <4>1. m # Count(n, size, step)
        BY <1>2, <2>2
      <4> HIDE DEF c, n
      <4> QED BY <1>1, <1>6, <4>1, WindowBounds
    <3> DEFINE y == F(m + 1)
    <3>3. y \in 1..n /\ p < spans[y].start
      BY <1>2, <3>1 DEF Unscanned
    <3>4. x < y
      <4> SUFFICES ASSUME ~(x < y) PROVE FALSE
        OBVIOUS
      <4> HIDE DEF y
      <4>1. y <= x
        BY <1>3, <3>3
      <4>2. spans[y].start <= spans[x].start
        BY <1>1, <3>3, <4>1, SpansInOrder
      <4>3. spans[y].start \in Nat
        BY <1>1, <3>3, SpanBounds
      <4> QED BY <1>4, <1>5, <3>3, <4>2, <4>3
    <3> DEFINE f == F(m)
               l == L(m)
    <3> HIDE DEF f, l, y
    <3>5. y = f + step /\ l = f + size - 1 /\ f \in Nat
      BY <1>3, <3>2 DEF f, l, y
    <3>6. x <= l
      BY <1>3, <3>4, <3>5
    <3> QED BY <3>6 DEF l
  <2> QED BY <2>1, <2>2
<1>8. x \in 1..L(m) /\ 0 \in 0..(size - step) /\ 0 < x /\ x - 0 = x
  <2>1. L(m) \in Nat
    BY <1>2, <1>3
  <2> HIDE DEF L
  <2> QED BY <1>3, <1>7, <2>1
<1>9. PICK k \in 1..m : F(k) <= x - 0 /\ x <= L(k)
  BY <1>1, <1>6, <1>8, WindowOf
<1>10. k \in 1..c /\ F(k) <= x
  BY <1>2, <1>8, <1>9
<1> DEFINE f == F(k)
           l == L(k)
<1>11. f \in 1..n /\ l \in 1..n /\ f <= x /\ x <= l /\ chunks[k].start = spans[f].start /\ chunks[k].end = spans[l].end
  BY <1>2, <1>9, <1>10
<1> HIDE DEF f, l
<1>12. spans[f].start <= spans[x].start /\ spans[x].end <= spans[l].end
  BY <1>1, <1>11, SpansInOrder
<1>13. spans[f].start \in Nat /\ spans[l].end \in Nat
  BY <1>1, <1>11, SpanBounds
<1>14. spans[f].start <= p /\ p < spans[l].end
  BY <1>4, <1>5, <1>12, <1>13
<1> QED BY <1>11, <1>14

\* A chunk that begins at token f and ends at token l has the tokens f..l inside.
Inside(tokens, i, c) == c.start <= tokens[i].start /\ tokens[i].end <= c.end

LEMMA InsideWindow ==
    ASSUME NEW t, NEW tokens, Splits(tokens, t), NEW f \in 1..Len(tokens), NEW l \in 1..Len(tokens), NEW c,
           c.start = tokens[f].start, c.end = tokens[l].end, NEW i \in 1..Len(tokens)
    PROVE  Inside(tokens, i, c) <=> (f <= i /\ i <= l)
<1>0. Len(tokens) \in Nat
  BY DEF Splits
<1> DEFINE sf == tokens[f].start
           si == tokens[i].start
           ei == tokens[i].end
           el == tokens[l].end
<1>1. sf \in Nat /\ si \in Nat /\ ei \in Nat /\ el \in Nat
  BY SpanBounds
<1>2. (i < f => si < sf) /\ (f <= i => sf <= si) /\ (l < i => el < ei) /\ (i <= l => ei <= el)
  BY SpansInOrder
<1>3. Inside(tokens, i, c) <=> (sf <= si /\ ei <= el)
  BY DEF Inside
<1> HIDE DEF sf, si, ei, el
<1> QED BY <1>0, <1>1, <1>2, <1>3

\* The size and the overlap of the windows, for the first m chunks of a call.
LEMMA ChunksSized ==
    ASSUME NEW chunks, NEW t, Len(t) \in Nat, NEW tokens, NEW size, NEW step,
           Chunked(chunks, t, tokens, size, step), NEW m, m \in 1..Len(chunks)
    PROVE  /\ \A k \in 1..m : Cardinality({i \in 1..Len(tokens) : Inside(tokens, i, chunks[k])}) <= size
           /\ \A i \in 1..(Len(tokens) - (size - step)) :
                tokens[i + (size - step)].end <= chunks[m].end =>
                  \E k \in 1..m : Inside(tokens, i, chunks[k]) /\ Inside(tokens, i + (size - step), chunks[k])
<1> DEFINE n == Len(tokens)
           c == Len(chunks)
           F(k) == First(step, k)
           L(k) == Last(n, size, step, k)
           d == size - step
<1>1. Splits(tokens, t) /\ Sized(n, size, step)
  BY DEF Chunked
<1>2. /\ c \in Nat \ {0} /\ c = Count(n, size, step)
      /\ \A k \in 1..c : /\ F(k) \in 1..n /\ L(k) \in 1..n
                         /\ chunks[k].start = tokens[F(k)].start /\ chunks[k].end = tokens[L(k)].end
  BY ChunkBounds
<1>3. n \in Nat /\ size \in Nat /\ step \in 1..size
  BY <1>1 DEF Sized
<1>4. m \in Nat /\ m \in 1..c /\ \A k \in 1..m : k \in 1..c
  BY <1>2
<1> HIDE DEF c
<1>5. ASSUME NEW k \in 1..c, NEW i \in 1..n PROVE Inside(tokens, i, chunks[k]) <=> (F(k) <= i /\ i <= L(k))
  BY <1>1, <1>2, InsideWindow
<1>6. ASSUME NEW k \in 1..m PROVE Cardinality({i \in 1..n : Inside(tokens, i, chunks[k])}) <= size
  <2> DEFINE f == F(k)
             l == L(k)
             S == {i \in 1..n : Inside(tokens, i, chunks[k])}
  <2>1. f \in 1..n /\ l \in 1..n /\ \A i \in S : f <= i /\ i <= l
    BY <1>2, <1>4, <1>5
  <2>2. l <= f + size - 1
    <3>1. l = AtMost((k - 1) * step + size, n) /\ f = (k - 1) * step + 1
      BY DEF First, Last
    <3> DEFINE x == (k - 1) * step
    <3>2. x \in Nat
      BY <1>3, <1>4
    <3>3. l = AtMost(x + size, n) /\ f = x + 1
      BY <3>1
    <3> HIDE DEF x, f, l
    <3> QED BY <1>3, <3>2, <3>3 DEF AtMost
  <2>3. S \subseteq f..l
    <3> SUFFICES ASSUME NEW i \in S PROVE i \in f..l
      OBVIOUS
    <3>1. i \in 1..n
      OBVIOUS
    <3> HIDE DEF S, f, l
    <3> QED BY <1>3, <2>1, <3>1
  <2> HIDE DEF S, f, l
  <2>4. f \in Int /\ l \in Int
    BY <1>3, <2>1
  <2>5. IsFiniteSet(f..l) /\ Cardinality(f..l) = IF f > l THEN 0 ELSE l - f + 1
    BY <2>4, FS_Interval
  <2>6. Cardinality(f..l) <= size /\ Cardinality(f..l) \in Nat
    BY <1>3, <2>2, <2>4, <2>5
  <2>7. IsFiniteSet(S) /\ Cardinality(S) <= Cardinality(f..l) /\ Cardinality(S) \in Nat
    BY <2>3, <2>5, FS_Subset, FS_CardinalityType
  <2>8. Cardinality(S) <= size
    BY <1>3, <2>6, <2>7
  <2> QED BY <2>8 DEF S
<1>7. ASSUME NEW i \in 1..(n - d), tokens[i + d].end <= chunks[m].end
      PROVE  \E k \in 1..m : Inside(tokens, i, chunks[k]) /\ Inside(tokens, i + d, chunks[k])
  <2> DEFINE x == i + d
  <2>0. d \in 0..(size - step) /\ d \in Nat
    BY <1>3
  <2>1. x \in 1..n /\ i \in 1..n /\ d < x /\ x - d = i
    BY <1>3, <2>0
  <2>2. L(m) \in 1..n /\ tokens[x].end <= tokens[L(m)].end
    BY <1>2, <1>4, <1>7
  <2> HIDE DEF x, d
  <2>3. x <= L(m)
    <3> SUFFICES ASSUME L(m) < x PROVE FALSE
      BY <1>3, <2>1, <2>2
    <3>1. tokens[L(m)].end < tokens[x].end
      BY <1>1, <2>1, <2>2, SpansInOrder
    <3>2. tokens[L(m)].end \in Nat /\ tokens[x].end \in Nat
      BY <1>1, <2>1, <2>2, SpanBounds
    <3> QED BY <2>2, <3>1, <3>2
  <2>4. x \in 1..L(m) /\ m \in 1..Count(n, size, step)
    BY <1>2, <1>3, <1>4, <2>1, <2>2, <2>3
  <2>5. PICK k \in 1..m : F(k) <= x - d /\ x <= L(k)
    BY <1>1, <2>0, <2>1, <2>4, WindowOf
  <2>6. k \in 1..c /\ F(k) \in 1..n /\ L(k) \in 1..n
    BY <1>2, <1>4
  <2>7. F(k) <= i /\ i <= L(k) /\ F(k) <= x /\ x <= L(k)
    <3> DEFINE f == F(k)
               l == L(k)
    <3>1. f \in Nat /\ l \in Nat /\ f <= x - d /\ x <= l
      BY <1>3, <2>5, <2>6
    <3> HIDE DEF f, l
    <3>2. x \in Nat /\ i \in Nat /\ i <= x
      BY <1>3, <2>0, <2>1
    <3>3. f <= i /\ i <= l /\ f <= x /\ x <= l
      BY <2>1, <3>1, <3>2
    <3> QED BY <3>3 DEF f, l
  <2>8. Inside(tokens, i, chunks[k]) /\ Inside(tokens, x, chunks[k])
    BY <1>5, <2>1, <2>6, <2>7
  <2> QED BY <2>8 DEF x
<1> QED BY <1>6, <1>7

----------------------------------------------------------------------------
(* One call.                                                               *)

\* The window of a call is a stretch of the client's text.
Rest == SubSeq(text, base + 1, Len(text))
Window == SubSeq(Rest, 1, AtMost(Len(Rest), MaxWindow))

\* What every state keeps: the client's text and settings; nothing that shows
\* before the next call is unscanned; the last call's chunks are the first of its
\* window's.
TextInv == budget \in RowBudgets /\ tok \in Tokenizers /\ text \in Texts
CoverInv == base \in 0..Len(text) /\ Shown(text, 0, base) \subseteq covered
ResultInv ==
    result.scanned # <<>> =>
        /\ result.window \in Strings /\ Shown(result.window, 0, Len(result.window)) # {}
        /\ \E m \in 1..Len(Chunks[tok][result.window]) : result.scanned = SubSeq(Chunks[tok][result.window], 1, m)
ScanInv == TextInv /\ CoverInv /\ AllVisibleScanned /\ ResultInv /\ failures \in Nat

LEMMA BudgetBounds ==
    ASSUME TextInv
    PROVE  MaxChunks \in Nat \ {0} /\ MaxWindow \in Nat \ {0}
<1>1. budget \in Nat /\ NQuestions \in Nat \ {0} /\ CharsPerChunk \in Nat \ {0}
  BY ScanAssumption DEF TextInv
<1> DEFINE q == budget \div NQuestions
<1>2. q \in Nat
  BY <1>1
<1> HIDE DEF q
<1>3. AtLeast(1, q) \in Nat \ {0}
  BY <1>2 DEF AtLeast
<1>4. MaxChunks \in Nat \ {0}
  BY <1>3 DEF MaxChunks, q
<1> DEFINE w == MaxChunks * CharsPerChunk
<1>5. w \in Nat /\ w # 0
  BY <1>1, <1>4
<1> QED BY <1>4, <1>5 DEF MaxWindow

LEMMA WindowShows ==
    ASSUME TextInv, base \in 0..Len(text)
    PROVE  /\ Len(text) \in 0..MaxLen /\ Len(Rest) = Len(text) - base /\ Window \in Strings
           /\ Len(Window) \in 0..Len(Rest) /\ Len(Window) = AtMost(Len(Rest), MaxWindow)
           /\ \A p \in Nat : Visible(Window, p) <=> (p < Len(Window) /\ Visible(text, base + p))
<1>0. text \in Seq(Characters) /\ Len(text) \in 0..MaxLen /\ MaxLen \in Nat
  BY StringsAreSequences, ScanAssumption DEF TextInv, Texts
<1>1. MaxWindow \in Nat \ {0}
  BY BudgetBounds
<1> DEFINE T == text
           b == base
           R == Rest
           n == AtMost(Len(R), MaxWindow)
           W == Window
<1>2. T \in Seq(Characters) /\ b \in 0..Len(T) /\ Len(T) \in Nat
  BY <1>0
<1>3. R = SubSeq(T, b + 1, Len(T)) /\ W = SubSeq(R, 1, n)
  BY DEF Rest, Window
<1> HIDE DEF T, b, R, W
<1>4. R \in Seq(Characters) /\ Len(R) = Len(T) - b /\ \A k \in 1..Len(R) : R[k] = T[b + k]
  <2>1. b + 1 \in 1..(Len(T) + 1) /\ Len(T) \in ((b + 1) - 1)..Len(T)
    BY <1>2
  <2> QED BY <1>2, <1>3, <2>1, SubSeqProperties
<1>5. Len(R) \in Nat /\ n \in 0..Len(R)
  BY <1>1, <1>2, <1>4 DEF AtMost
<1> HIDE DEF n
<1>6. W \in Seq(Characters) /\ Len(W) = n /\ \A k \in 1..n : W[k] = R[k]
  <2>1. CASE n = 0
    <3>1. SubSeq(R, 1, 0) = << >>
      BY SubSeqEmpty
    <3> QED BY <1>3, <2>1, <3>1
  <2>2. CASE n # 0
    <3>1. n \in 1..Len(R)
      BY <1>5, <2>2
    <3>2. R \in Seq(Characters) /\ Len(R) \in Nat /\ W = SubSeq(R, 1, n)
      BY <1>3, <1>4, <1>5
    <3>3. W \in Seq(Characters) /\ Len(W) = n
      BY ONLY <3>1, <3>2
    <3>4. \A k \in 1..n : W[k] = R[k]
      BY ONLY <3>1, <3>2
    <3> QED BY <3>3, <3>4
  <2> QED BY <2>1, <2>2
<1>7. ASSUME NEW p \in Nat PROVE Visible(W, p) <=> (p < Len(W) /\ Visible(T, b + p))
  <2>1. p < n => W[p + 1] = T[b + p + 1]
    <3> SUFFICES ASSUME p < n PROVE W[p + 1] = T[b + p + 1]
      OBVIOUS
    <3>1. p + 1 \in 1..n /\ p + 1 \in 1..Len(R)
      BY <1>5
    <3>2. b + (p + 1) = b + p + 1
      BY <1>2
    <3> QED BY <1>4, <1>6, <3>1, <3>2
  <2>2. p \in 0..(Len(W) - 1) <=> p < n
    BY <1>5, <1>6
  <2>3. p < n => b + p \in 0..(Len(T) - 1)
    BY <1>2, <1>4, <1>5
  <2> QED BY <1>6, <2>1, <2>2, <2>3 DEF Visible
<1>8. W \in Strings
  <2>1. Len(W) \in 0..MaxLen
    BY <1>0, <1>2, <1>4, <1>5, <1>6 DEF T
  <2> QED BY <1>6, <2>1, StringsAreSequences
<1> QED BY <1>0, <1>4, <1>5, <1>6, <1>7, <1>8 DEF T, b, R, W, n

\* What the chunks that a call scans add to the offsets covered, and how far.
Scanned(chunks) == SubSeq(chunks, 1, AtMost(MaxChunks, Len(chunks)))
Added(scanned) == UNION {{base + i : i \in c.start..(c.end - 1)} : c \in Range(scanned)}

LEMMA ChunksScanned ==
    ASSUME TextInv, NEW t \in Strings, Shown(t, 0, Len(t)) # {}
    PROVE  LET chunks == Chunks[tok][t]
               m == AtMost(MaxChunks, Len(chunks))
           IN  /\ m \in 1..Len(chunks) /\ Len(chunks) \in Nat
               /\ Len(Scanned(chunks)) = m /\ \A k \in 1..m : Scanned(chunks)[k] = chunks[k]
<1> DEFINE chunks == Chunks[tok][t]
<1>1. PICK spans, size, step : Chunked(chunks, t, spans, size, step)
  BY TextChunked DEF TextInv
<1>2. Len(t) \in Nat
  BY StringsAreSequences
<1> HIDE DEF chunks
<1>3. chunks \in Seq(Span) /\ Len(chunks) \in Nat \ {0}
  BY <1>1, <1>2, ChunkBounds
<1>4. MaxChunks \in Nat \ {0}
  BY BudgetBounds
<1> DEFINE m == AtMost(MaxChunks, Len(chunks))
<1>5. m \in 1..Len(chunks)
  BY <1>3, <1>4 DEF AtMost
<1>6. Scanned(chunks) = SubSeq(chunks, 1, m)
  BY DEF Scanned
<1> HIDE DEF m
<1>7. Len(SubSeq(chunks, 1, m)) = m /\ \A k \in 1..m : SubSeq(chunks, 1, m)[k] = chunks[k]
  BY <1>3, <1>5
<1> QED BY <1>3, <1>5, <1>6, <1>7 DEF chunks, m

LEMMA CallScans ==
    ASSUME TextInv, base \in Nat, NEW t \in Strings, Shown(t, 0, Len(t)) # {}
    PROVE  LET chunks == Chunks[tok][t]
               scanned == Scanned(chunks)
               resume == ResumeFrom(chunks, scanned)
           IN  /\ resume \in 1..Len(t)
               /\ \A p \in Nat : Visible(t, p) /\ p < resume => base + p \in Added(scanned)
               /\ ~(Len(chunks) > MaxChunks) => \A p \in Nat : Visible(t, p) => base + p \in Added(scanned)
<1> DEFINE chunks == Chunks[tok][t]
           scanned == Scanned(chunks)
           resume == ResumeFrom(chunks, scanned)
           m == AtMost(MaxChunks, Len(chunks))
<1>1. PICK spans, size, step : Chunked(chunks, t, spans, size, step)
  BY TextChunked DEF TextInv
<1>2. Len(t) \in Nat /\ MaxChunks \in Nat \ {0}
  BY StringsAreSequences, BudgetBounds
<1>3. /\ m \in 1..Len(chunks) /\ Len(chunks) \in Nat
      /\ Len(scanned) = m /\ \A k \in 1..m : scanned[k] = chunks[k]
  BY ChunksScanned
<1>4. DOMAIN scanned = 1..m
  <2>1. chunks \in Seq(Span)
    BY <1>1, <1>2, ChunkBounds
  <2>2. scanned = SubSeq(chunks, 1, m)
    BY DEF Scanned
  <2> HIDE DEF chunks, scanned, m
  <2>3. scanned \in Seq(Span)
    BY <1>3, <2>1, <2>2
  <2> QED BY <1>3, <2>3
<1>5. \A k \in 1..Len(chunks) : /\ chunks[k].start \in 0..Len(t) /\ chunks[k].end \in 1..Len(t)
                                /\ k > 1 => chunks[k].start > 0
  BY <1>1, <1>2, ChunkBounds
<1>6. resume = IF Len(chunks) > MaxChunks THEN chunks[MaxChunks + 1].start ELSE scanned[Len(scanned)].end
  BY DEF ResumeFrom
<1> HIDE DEF chunks, scanned, resume
<1>7. IF Len(chunks) > MaxChunks THEN m = MaxChunks /\ m < Len(chunks) ELSE m = Len(chunks)
  BY <1>2, <1>3 DEF AtMost
<1> HIDE DEF m
<1>8. resume \in 1..Len(t) /\ resume <= Unscanned(chunks, t, m)
  <2>1. CASE Len(chunks) > MaxChunks
    <3>1. resume = chunks[m + 1].start /\ Unscanned(chunks, t, m) = chunks[m + 1].start
      BY <1>6, <1>7, <2>1 DEF Unscanned
    <3>2. m + 1 \in 1..Len(chunks) /\ m + 1 > 1
      BY <1>3, <1>7, <2>1
    <3>3. resume \in 0..Len(t) /\ resume > 0
      BY <1>5, <3>1, <3>2
    <3> QED BY <1>2, <3>1, <3>3
  <2>2. CASE ~(Len(chunks) > MaxChunks)
    <3>1. m = Len(chunks) /\ m \in 1..m
      BY <1>3, <1>7, <2>2
    <3>2. resume = chunks[m].end /\ Unscanned(chunks, t, m) = Len(t)
      BY <1>3, <1>6, <2>2, <3>1 DEF Unscanned
    <3>3. resume \in 1..Len(t)
      BY <1>5, <3>1, <3>2
    <3> QED BY <1>2, <3>2, <3>3
  <2> QED BY <2>1, <2>2
<1>9. ASSUME NEW p \in Nat, Visible(t, p), p < Unscanned(chunks, t, m) PROVE base + p \in Added(scanned)
  <2>1. PICK k \in 1..m : chunks[k].start <= p /\ p < chunks[k].end
    BY <1>1, <1>2, <1>3, <1>9, ChunksReach
  <2>2. scanned[k] = chunks[k] /\ chunks[k].start \in Nat /\ chunks[k].end \in Nat
    BY <1>2, <1>3, <1>5
  <2>3. p \in scanned[k].start..(scanned[k].end - 1)
    BY <2>1, <2>2
  <2>4. scanned[k] \in Range(scanned)
    BY <1>4 DEF Range
  <2> QED BY <2>3, <2>4 DEF Added
<1>10. ASSUME NEW p \in Nat, Visible(t, p), p < resume PROVE base + p \in Added(scanned)
  <2>1. Unscanned(chunks, t, m) \in Nat
    <3>1. CASE m < Len(chunks)
      <4>1. m + 1 \in 1..Len(chunks)
        BY <1>3, <3>1
      <4> QED BY <1>2, <1>5, <3>1, <4>1 DEF Unscanned
    <3>2. CASE ~(m < Len(chunks))
      BY <1>2, <3>2 DEF Unscanned
    <3> QED BY <3>1, <3>2
  <2>2. p < Unscanned(chunks, t, m)
    BY <1>2, <1>8, <1>10, <2>1
  <2> QED BY <1>9, <1>10, <2>2
<1>11. ASSUME ~(Len(chunks) > MaxChunks), NEW p \in Nat, Visible(t, p) PROVE base + p \in Added(scanned)
  <2>1. Unscanned(chunks, t, m) = Len(t)
    BY <1>3, <1>7, <1>11 DEF Unscanned
  <2>2. p < Len(t)
    <3>1. p \in 0..(Len(t) - 1)
      BY <1>11 DEF Visible
    <3> QED BY <1>2, <3>1
  <2> QED BY <1>9, <1>11, <2>1, <2>2
<1> QED BY <1>8, <1>10, <1>11 DEF chunks, scanned, resume

\* A call finds no chunk only when nothing of the text it was given shows.
LEMMA NoChunks ==
    ASSUME TextInv, NEW t \in Strings
    PROVE  Chunks[tok][t] = <<>> <=> Shown(t, 0, Len(t)) = {}
<1>0. tok \in Tokenizers /\ Len(t) \in Nat
  BY StringsAreSequences DEF TextInv
<1>1. CASE Shown(t, 0, Len(t)) = {}
  BY <1>0, <1>1, ChunksOf
<1>2. CASE Shown(t, 0, Len(t)) # {}
  <2>1. PICK spans, size, step : Chunked(Chunks[tok][t], t, spans, size, step)
    BY <1>0, <1>2, TextChunked
  <2>2. Len(Chunks[tok][t]) \in Nat \ {0}
    BY <1>0, <2>1, ChunkBounds
  <2>3. Chunks[tok][t] # <<>>
    BY <2>2
  <2> QED BY <1>2, <2>3
<1> QED BY <1>1, <1>2

LEMMA BlankWindow ==
    ASSUME TextInv, base \in 0..Len(text), Shown(Window, 0, Len(Window)) = {},
           NEW p \in base..(base + Len(Window) - 1)
    PROVE  ~Visible(text, p)
<1>1. /\ Len(text) \in Nat /\ Len(Window) \in 0..Len(Rest) /\ Len(Rest) = Len(text) - base
      /\ \A q \in Nat : Visible(Window, q) <=> (q < Len(Window) /\ Visible(text, base + q))
  BY WindowShows
<1> DEFINE w == Len(Window)
           q == p - base
<1>2. w \in Nat /\ base \in Nat
  BY <1>1
<1>3. p \in base..(base + (w - 1))
  OBVIOUS
<1> HIDE DEF w
<1>4. q \in Nat /\ q < w /\ base + q = p /\ q \in 0..(w - 1)
  BY <1>2, <1>3
<1> HIDE DEF q
<1>5. ~Visible(Window, q)
  BY <1>4 DEF Shown, w
<1> QED BY <1>1, <1>4, <1>5 DEF w

LEMMA ScanInit == Init => ScanInv
<1> SUFFICES ASSUME Init PROVE ScanInv
  OBVIOUS
<1>1. TextInv /\ pc = "call" /\ base = 0 /\ covered = {} /\ result.scanned = <<>> /\ failures = 0
  BY DEF Init, TextInv
<1>2. Len(text) \in Nat
  BY <1>1, StringsAreSequences DEF TextInv, Texts
<1>3. CoverInv
  BY <1>1, <1>2 DEF CoverInv, Shown
<1>4. AllVisibleScanned
  BY <1>1 DEF AllVisibleScanned
<1> QED BY <1>1, <1>3, <1>4 DEF ScanInv, ResultInv

\* The three ways a call ends.
CallIsBlank ==
    /\ Chunks[tok][Window] = <<>> /\ pc' = "done"
    /\ result' = [window |-> Window, scanned |-> <<>>] /\ UNCHANGED <<base, covered>>
CallRefused == pc' = "refused" /\ UNCHANGED <<base, covered, result>>
CallAnswers ==
    LET chunks == Chunks[tok][Window]
        scanned == Scanned(chunks)
    IN  /\ chunks # <<>> /\ result' = [window |-> Window, scanned |-> scanned]
        /\ covered' = covered \cup Added(scanned)
        /\ IF CutShort(Rest, Window, chunks) THEN pc' = "call" /\ base' = base + ResumeFrom(chunks, scanned)
           ELSE pc' = "done" /\ UNCHANGED base

LEMMA CallCases ==
    ASSUME Call
    PROVE  (CallIsBlank \/ CallRefused \/ CallAnswers) /\ UNCHANGED <<text, tok, budget, failures>>
  BY DEF Call, CallIsBlank, CallRefused, CallAnswers, Window, Rest, Scanned, Added

LEMMA TextKept ==
    ASSUME TextInv, UNCHANGED <<text, tok, budget>>
    PROVE  TextInv'
  BY DEF TextInv, Texts, MaxWindow, MaxChunks

LEMMA CallKeeps ==
    ASSUME ScanInv, Call
    PROVE  ScanInv' /\ (pc' = "call" => base' > base)
<1>1. TextInv /\ CoverInv /\ ResultInv /\ failures \in Nat /\ UNCHANGED <<text, tok, budget, failures>>
  BY CallCases DEF ScanInv
<1>2. TextInv' /\ failures' \in Nat /\ base \in 0..Len(text)
  BY <1>1, TextKept DEF CoverInv
<1>3. /\ Len(text) \in Nat /\ Len(Rest) = Len(text) - base /\ Window \in Strings /\ Len(Window) \in 0..Len(Rest)
      /\ \A p \in Nat : Visible(Window, p) <=> (p < Len(Window) /\ Visible(text, base + p))
  BY <1>1, <1>2, WindowShows
<1>4. base \in Nat
  BY <1>2, <1>3
<1>5. CASE CallIsBlank
  <2>1. /\ pc' = "done" /\ UNCHANGED <<base, covered>> /\ result'.scanned = <<>> /\ result'.window = Window
        /\ Shown(Window, 0, Len(Window)) = {}
    BY <1>1, <1>3, <1>5, NoChunks DEF CallIsBlank
  <2>3. CoverInv'
    BY <1>1, <2>1 DEF CoverInv, Shown, Visible
  <2>4. ASSUME NEW p \in Shown(text, 0, base + Len(Window)) PROVE p \in covered
    <3>1. p \in 0..((base + Len(Window)) - 1) /\ Visible(text, p)
      BY DEF Shown
    <3>2. CASE p < base
      <4>1. p \in 0..(base - 1)
        BY <1>3, <1>4, <3>1, <3>2
      <4>2. p \in Shown(text, 0, base)
        BY <3>1, <4>1 DEF Shown
      <4> QED BY <1>1, <4>2 DEF CoverInv
    <3>3. CASE ~(p < base)
      <4>1. Len(Window) \in Nat
        BY <1>3
      <4>2. p \in base..(base + Len(Window) - 1)
        BY <1>4, <3>1, <3>3, <4>1
      <4> QED BY <1>1, <1>2, <2>1, <3>1, <4>2, BlankWindow
    <3> QED BY <3>2, <3>3
  <2>5. AllVisibleScanned'
    <3>1. Shown(text, 0, base + Len(Window)) \subseteq covered
      BY <2>4
    <3> DEFINE w == Window
    <3> HIDE DEF w
    <3>2. Shown(text, 0, base + Len(w)) \subseteq covered /\ result'.window = w /\ result'.scanned = <<>>
      BY <2>1, <3>1 DEF w
    <3> QED BY <1>1, <2>1, <3>2 DEF AllVisibleScanned, Shown, Visible
  <2>6. ResultInv'
    BY <2>1 DEF ResultInv
  <2> QED BY <1>2, <2>1, <2>3, <2>5, <2>6 DEF ScanInv
<1>6. CASE CallRefused
  <2>1. pc' = "refused" /\ UNCHANGED <<base, covered, result>>
    BY <1>6 DEF CallRefused
  <2>2. CoverInv' /\ ResultInv' /\ AllVisibleScanned'
    BY <1>1, <2>1 DEF CoverInv, ResultInv, AllVisibleScanned, Shown, Visible
  <2> QED BY <1>2, <2>1, <2>2 DEF ScanInv
<1>7. CASE CallAnswers
  <2> DEFINE chunks == Chunks[tok][Window]
             scanned == Scanned(chunks)
             resume == ResumeFrom(chunks, scanned)
             m == AtMost(MaxChunks, Len(chunks))
  <2>1. /\ chunks # <<>> /\ result' = [window |-> Window, scanned |-> scanned]
        /\ covered' = covered \cup Added(scanned)
        /\ IF CutShort(Rest, Window, chunks) THEN pc' = "call" /\ base' = base + resume
           ELSE pc' = "done" /\ base' = base
    BY <1>7 DEF CallAnswers
  <2>2. Shown(Window, 0, Len(Window)) # {}
    BY <1>1, <1>3, <2>1, NoChunks
  <2>3. /\ resume \in 1..Len(Window)
        /\ \A p \in Nat : Visible(Window, p) /\ p < resume => base + p \in Added(scanned)
        /\ ~(Len(chunks) > MaxChunks) => \A p \in Nat : Visible(Window, p) => base + p \in Added(scanned)
    BY <1>1, <1>3, <1>4, <2>2, CallScans
  <2>4. m \in 1..Len(chunks) /\ scanned = SubSeq(chunks, 1, m)
    BY <1>1, <1>3, <2>2, ChunksScanned DEF Scanned
  <2>5. ResultInv'
    <3> DEFINE w == Window
    <3> HIDE DEF w, scanned, m
    <3>1. result'.window = w /\ result'.scanned = scanned
      BY <2>1 DEF w
    <3>2. w \in Strings /\ Shown(w, 0, Len(w)) # {} /\ m \in 1..Len(Chunks[tok][w]) /\ scanned = SubSeq(Chunks[tok][w], 1, m)
      BY <1>3, <2>2, <2>4 DEF w
    <3> QED BY <1>1, <3>1, <3>2 DEF ResultInv, Shown, Visible
  <2> HIDE DEF chunks, scanned, resume, m
  <2>6. ASSUME NEW p \in Nat, Visible(text, p), p >= base, p - base < Len(Window)
        PROVE  p - base \in Nat /\ Visible(Window, p - base) /\ base + (p - base) = p
    <3>1. p - base \in Nat /\ base + (p - base) = p
      BY <1>4, <2>6
    <3> QED BY <1>3, <2>6, <3>1
  <2>7. CASE CutShort(Rest, Window, chunks)
    <3>1. pc' = "call" /\ base' = base + resume
      BY <2>1, <2>7
    <3>2. base' \in 0..Len(text) /\ base' > base /\ base' \in Nat
      BY <1>2, <1>3, <1>4, <2>3, <3>1
    <3>3. ASSUME NEW p \in Shown(text, 0, base') PROVE p \in covered'
      <4>1. p \in 0..(base' - 1) /\ Visible(text, p)
        BY DEF Shown
      <4>2. CASE p < base
        <5>1. p \in 0..(base - 1)
          BY <1>4, <4>1, <4>2
        <5>2. p \in Shown(text, 0, base)
          BY <4>1, <5>1 DEF Shown
        <5> QED BY <1>1, <2>1, <5>2 DEF CoverInv
      <4>3. CASE ~(p < base)
        <5>0. resume \in Nat /\ resume <= Len(Window) /\ Len(Window) \in Nat
          BY <1>2, <1>3, <2>3
        <5>1. p \in Nat /\ p >= base /\ p - base < resume /\ p - base < Len(Window)
          BY <1>4, <3>1, <4>1, <4>3, <5>0
        <5>2. p - base \in Nat /\ Visible(Window, p - base) /\ base + (p - base) = p
          BY <2>6, <4>1, <5>1
        <5>3. p \in Added(scanned)
          BY <2>3, <5>1, <5>2
        <5> QED BY <2>1, <5>3
      <4> QED BY <4>2, <4>3
    <3>4. CoverInv'
      BY <1>1, <3>2, <3>3 DEF CoverInv, Shown, Visible
    <3>5. AllVisibleScanned'
      BY <3>1 DEF AllVisibleScanned
    <3> QED BY <1>2, <2>5, <3>2, <3>4, <3>5 DEF ScanInv
  <2>8. CASE ~CutShort(Rest, Window, chunks)
    <3>1. pc' = "done" /\ base' = base
      BY <2>1, <2>8
    <3>2. ~(Len(chunks) > MaxChunks) /\ ~(Len(Window) < Len(Rest))
      BY <2>8 DEF CutShort
    <3>3. Len(Window) = Len(text) - base
      BY <1>2, <1>3, <3>2
    <3>4. CoverInv'
      BY <1>1, <2>1, <3>1 DEF CoverInv, Shown, Visible
    <3>5. ASSUME NEW p \in Shown(text, 0, Len(text)) PROVE p \in covered'
      <4>1. p \in 0..(Len(text) - 1) /\ Visible(text, p)
        BY DEF Shown
      <4>2. CASE p < base
        <5>1. p \in 0..(base - 1)
          BY <1>4, <4>1, <4>2
        <5>2. p \in Shown(text, 0, base)
          BY <4>1, <5>1 DEF Shown
        <5> QED BY <1>1, <2>1, <5>2 DEF CoverInv
      <4>3. CASE ~(p < base)
        <5>1. p \in Nat /\ p >= base /\ p - base < Len(Window)
          BY <1>3, <1>4, <3>3, <4>1, <4>3
        <5>2. p - base \in Nat /\ Visible(Window, p - base) /\ base + (p - base) = p
          BY <2>6, <4>1, <5>1
        <5>3. p \in Added(scanned)
          BY <2>3, <3>2, <5>2
        <5> QED BY <2>1, <5>3
      <4> QED BY <4>2, <4>3
    <3>6. AllVisibleScanned'
      <4> DEFINE w == Window
      <4>1. Shown(text, 0, Len(text)) \subseteq covered' /\ base + Len(w) = Len(text) /\ result'.window = w
        BY <1>3, <1>4, <2>1, <3>3, <3>5
      <4> HIDE DEF w
      <4> QED BY <1>1, <3>1, <4>1 DEF AllVisibleScanned, Shown, Visible
    <3> QED BY <1>2, <2>5, <3>1, <3>4, <3>6 DEF ScanInv
  <2> QED BY <2>7, <2>8
<1> QED BY <1>5, <1>6, <1>7, CallCases

LEMMA ScanKept ==
    ASSUME ScanInv, [Next]_vars
    PROVE  ScanInv'
<1>1. CASE Call
  BY <1>1, CallKeeps
<1>2. CASE CallRaises \/ UNCHANGED vars
  <2>1. UNCHANGED <<text, tok, budget, base, pc, result, covered>> /\ failures' \in Nat
    BY <1>2 DEF CallRaises, vars, ScanInv
  <2>2. TextInv'
    BY <2>1, TextKept DEF ScanInv
  <2>3. CoverInv' /\ AllVisibleScanned' /\ ResultInv'
    BY <2>1 DEF ScanInv, CoverInv, AllVisibleScanned, ResultInv, Shown, Visible
  <2> QED BY <2>1, <2>2, <2>3 DEF ScanInv
<1> QED BY <1>1, <1>2 DEF Next

LEMMA ScanSafe == Spec => []ScanInv
  BY ScanInit, ScanKept, PTL DEF Spec

----------------------------------------------------------------------------
(* The properties.                                                         *)

\* When the client that follows resume_from is told it is complete, nothing visible
\* up to the end of the last window was left unscanned, and that window ends the text
\* unless it was blank, for texts of any length.
THEOREM EverythingIsScanned == Spec => []AllVisibleScanned
<1>1. ScanInv => AllVisibleScanned
  BY DEF ScanInv
<1> QED BY <1>1, ScanSafe, PTL

\* No chunk has more tokens than the model reads, and neighbouring tokens up to the
\* overlap are seen together.
THEOREM WindowsAreSound == Spec => []WindowsSound
<1>1. ASSUME ScanInv PROVE WindowsSound
  <2> SUFFICES ASSUME tok \in {"spans", "spaced"}, result.scanned # <<>> PROVE WindowsSound
    BY DEF WindowsSound
  <2> DEFINE w == result.window
             s == result.scanned
             tokens == Spans(w, TRUE)
             chunks == Chunks[tok][w]
  <2>1. tok \in Tokenizers /\ w \in Strings /\ Shown(w, 0, Len(w)) # {}
    BY <1>1 DEF ScanInv, TextInv, ResultInv
  <2>2. PICK m \in 1..Len(chunks) : s = SubSeq(chunks, 1, m)
    BY <1>1 DEF ScanInv, ResultInv
  <2>3. Chunked(chunks, w, tokens, MaxTokens, MaxTokens - Overlap)
    BY <2>1, TextChunked
  <2>4. Len(w) \in Nat
    BY <2>1, StringsAreSequences
  <2>5. MaxTokens - (MaxTokens - Overlap) = Overlap
    BY ScanAssumption
  <2> HIDE DEF w, s, tokens, chunks
  <2>6. /\ \A k \in 1..m : Cardinality({i \in 1..Len(tokens) : Inside(tokens, i, chunks[k])}) <= MaxTokens
        /\ \A i \in 1..(Len(tokens) - Overlap) :
             tokens[i + Overlap].end <= chunks[m].end =>
               \E k \in 1..m : Inside(tokens, i, chunks[k]) /\ Inside(tokens, i + Overlap, chunks[k])
    BY <2>3, <2>4, <2>5, ChunksSized
  <2>7. chunks \in Seq(Span) /\ Len(chunks) \in Nat /\ tokens \in Seq(Span)
    BY <2>3, <2>4, ChunkBounds DEF Chunked, Splits
  <2>8. s \in Seq(Span) /\ Len(s) = m /\ DOMAIN s = 1..m /\ \A k \in 1..m : s[k] = chunks[k]
    BY <2>2, <2>7
  <2>9. DOMAIN tokens = 1..Len(tokens) /\ m \in 1..m
    BY <2>7
  <2>10. \A c \in Range(s) : \E k \in 1..m : c = chunks[k]
    BY <2>8 DEF Range
  <2>11. \A k \in 1..m : chunks[k] \in Range(s)
    BY <2>8 DEF Range
  <2>12. \A c \in Range(s) : Cardinality({i \in DOMAIN tokens : Inside(tokens, i, c)}) <= MaxTokens
    BY <2>6, <2>9, <2>10
  <2>13. \A i \in 1..(Len(tokens) - Overlap) :
           tokens[i + Overlap].end <= s[Len(s)].end =>
             \E c \in Range(s) : Inside(tokens, i, c) /\ Inside(tokens, i + Overlap, c)
    BY <2>6, <2>8, <2>9, <2>11
  <2> QED BY <2>12, <2>13 DEF WindowsSound, Inside, w, s, tokens
<1> QED BY <1>1, ScanSafe, PTL

\* A call that was cut short sends the client on, so the scan of a text ends.
THEOREM ResumeAlwaysMoves == Spec => ResumeMovesOn
<1>1. ASSUME ScanInv, [Next]_vars PROVE [base' > base \/ pc' # "call" \/ failures' > failures]_vars
  <2>1. CASE Call
    BY <1>1, <2>1, CallKeeps
  <2>2. CASE CallRaises
    BY <1>1, <2>2 DEF CallRaises, ScanInv
  <2>3. CASE UNCHANGED vars
    BY <2>3
  <2> QED BY <1>1, <2>1, <2>2, <2>3 DEF Next
<1> QED BY <1>1, ScanSafe, PTL DEF Spec, ResumeMovesOn
=============================================================================
