--------------------------- MODULE ResidencyProofs ---------------------------
(***************************************************************************)
(* Proofs about Residency, for any list of checkpoints, any cap on the     *)
(* resident ones, and any number of threads that load and unload them.     *)
(***************************************************************************)
EXTENDS Residency, FiniteSetTheorems, SequenceTheorems, TLAPS

----------------------------------------------------------------------------
(* The inductive invariant.                                                *)

\* Of the slot thread's record s while the checkpoints res are resident: what it
\* does at each point.
KindOK(s) ==
    /\ s.pc \in {"next", "clean"} => s.kind = "compare"
    /\ s.pc = "pass" => s.kind \in {"predict", "compare"}
    /\ s.pc = "reload" => s.kind = "rewarm"
    /\ s.pc = "idle" => s.kind = "predict"

\* While nobody touched the Router since _forward looked at it, what it saw is
\* so, and a pass on a checkpoint it saw resident did not build it.
ColdOK(s, res) ==
    s.kind # "rewarm" /\ s.still =>
        /\ s.pc = "load" => s.snap = res
        /\ s.pc \in {"hook", "pass"} /\ s.model \in s.snap => ~s.cold

\* A comparison that is not disturbed has at most the checkpoint it is at in
\* memory besides those that were resident when it began.
Extra(s) == IF s.pc \in {"hook", "pass", "clean"} THEN {s.model} ELSE {}
BehindOK(s, res) ==
    s.kind # "predict" =>
        /\ IsFiniteSet(s.resident) /\ Cardinality(s.resident) <= MaxLoaded
        /\ s.calm => res \subseteq s.resident \cup Extra(s)
        /\ s.kind = "rewarm" /\ s.pc # "reload" => s.model \in s.resident

\* Its reloading loop has every preloaded checkpoint that was resident in memory,
\* or still to do.
Undone(s) == Range(s.todo) \cup (IF s.pc = "load" THEN {s.model} ELSE {})
WarmOK(s, res) ==
    s.kind = "rewarm" /\ s.calm => Range(Preload) \cap s.resident \subseteq res \cup Undone(s)

SlotOK(s, res) == KindOK(s) /\ ColdOK(s, res) /\ BehindOK(s, res) /\ WarmOK(s, res)
SlotInv == SlotOK(slot, Resident) /\ RunsOnPrepared
EndInv == NothingLeftBehind /\ PreloadedWarm /\ SampledWarm
Inv == TypeOK /\ SlotInv /\ EndInv

----------------------------------------------------------------------------
(* laya.Router.                                                            *)

ModelsOf(s) == {s[i].model : i \in DOMAIN s}
RouterOK(s) ==
    /\ s \in Seq(Agents) /\ Len(s) <= MaxLoaded
    /\ \A i, j \in DOMAIN s : s[i].model = s[j].model => i = j

LEMMA AgentFields == \A a \in Agents : a.model \in Names
  BY DEF Agents

LEMMA ResidentNames ==
    ASSUME NEW s, RouterOK(s)
    PROVE  ModelsOf(s) \subseteq Names
  BY AgentFields DEF RouterOK, ModelsOf

LEMMA IntervalCount ==
    ASSUME NEW n \in Nat
    PROVE  IsFiniteSet(1..n) /\ Cardinality(1..n) = n
  BY FS_Interval

\* As many checkpoints are resident as the list has agents.
LEMMA ResidentCount ==
    ASSUME NEW s, RouterOK(s)
    PROVE  IsFiniteSet(ModelsOf(s)) /\ Cardinality(ModelsOf(s)) = Len(s)
<1> DEFINE f == [i \in 1..Len(s) |-> s[i].model]
<1>1. Len(s) \in Nat /\ DOMAIN s = 1..Len(s)
  BY DEF RouterOK
<1>2. f \in Bijection(1..Len(s), ModelsOf(s))
  <2>1. f \in [1..Len(s) -> ModelsOf(s)]
    BY <1>1 DEF ModelsOf
  <2>2. \A i, j \in 1..Len(s) : f[i] = f[j] => i = j
    BY <1>1 DEF RouterOK
  <2>3. \A m \in ModelsOf(s) : \E i \in 1..Len(s) : f[i] = m
    BY <1>1 DEF ModelsOf
  <2> HIDE DEF f
  <2> QED BY <2>1, <2>2, <2>3 DEF Bijection, Injection, Surjection, IsInjective
<1>3. IsFiniteSet(1..Len(s)) /\ Cardinality(1..Len(s)) = Len(s)
  BY <1>1, IntervalCount
<1> HIDE DEF f
<1>4. ExistsBijection(1..Len(s), ModelsOf(s))
  BY <1>2 DEF ExistsBijection
<1> QED BY <1>3, <1>4, FS_Bijection

\* Unloading a checkpoint takes its agent and no other.
LEMMA WithoutOK ==
    ASSUME RouterOK(loaded), NEW m \in Names
    PROVE  /\ RouterOK(Without(m)) /\ ModelsOf(Without(m)) = Resident \ {m}
           /\ m \in Resident => Len(Without(m)) = Len(loaded) - 1
<1> DEFINE n == Len(loaded)
           k == Position(m)
           s == [i \in 1..(n - 1) |-> loaded[IF i < k THEN i ELSE i + 1]]
<1>0. n \in Nat /\ DOMAIN loaded = 1..n /\ \A i \in 1..n : loaded[i] \in Agents
  BY DEF RouterOK
<1>1. CASE m \notin Resident
  BY <1>1 DEF Without, Resident, ModelsOf
<1>2. CASE m \in Resident
  <2>1. k \in 1..n /\ loaded[k].model = m
    BY <1>0, <1>2 DEF Position, Resident
  <2>2. Without(m) = s
    BY <1>2 DEF Without
  <2> HIDE DEF k, n
  <2>3. \A i \in 1..(n - 1) : (IF i < k THEN i ELSE i + 1) \in (1..n) \ {k}
    BY <1>0, <2>1
  <2>4. s \in Seq(Agents) /\ Len(s) = n - 1 /\ DOMAIN s = 1..(n - 1)
    <3>1. \A i \in 1..(n - 1) : s[i] \in Agents
      BY <1>0, <2>3
    <3>2. n - 1 \in Nat
      BY <1>0, <2>1
    <3> QED BY <3>1, <3>2, IsASeq
  <2>5. \A i, j \in 1..(n - 1) : s[i].model = s[j].model => i = j
    <3>1. \A i, j \in 1..(n - 1) :
            (IF i < k THEN i ELSE i + 1) = (IF j < k THEN j ELSE j + 1) => i = j
      BY <1>0, <2>1
    <3> QED BY <1>0, <2>3, <3>1 DEF RouterOK
  <2>6. ASSUME NEW j \in (1..n) \ {k}
        PROVE  \E i \in 1..(n - 1) : j = IF i < k THEN i ELSE i + 1
    <3>1. CASE j < k
      BY <1>0, <2>1, <3>1
    <3>2. CASE j > k
      <4>1. j - 1 \in 1..(n - 1) /\ ~(j - 1 < k) /\ (j - 1) + 1 = j
        BY <1>0, <2>1, <3>2
      <4> QED BY <4>1
    <3> QED BY <1>0, <2>1, <3>1, <3>2
  <2>7. ModelsOf(s) = Resident \ {m}
    <3>1. ASSUME NEW i \in 1..(n - 1) PROVE s[i].model \in Resident \ {m}
      <4> DEFINE j == IF i < k THEN i ELSE i + 1
      <4>1. j \in 1..n /\ j # k /\ s[i] = loaded[j]
        BY <2>3
      <4> HIDE DEF j
      <4> QED BY <1>0, <2>1, <4>1 DEF RouterOK, Resident
    <3>2. ASSUME NEW x \in Resident \ {m} PROVE \E i \in 1..(n - 1) : s[i].model = x
      <4>1. PICK j \in 1..n : loaded[j].model = x
        BY <1>0 DEF Resident
      <4>2. j \in (1..n) \ {k}
        BY <2>1, <4>1
      <4>3. PICK i \in 1..(n - 1) : j = IF i < k THEN i ELSE i + 1
        BY <2>6, <4>2
      <4> QED BY <4>1, <4>3
    <3> QED BY <2>4, <3>1, <3>2 DEF ModelsOf
  <2> HIDE DEF s
  <2> QED BY <1>0, <2>2, <2>4, <2>5, <2>7, BoundsAssumption DEF RouterOK, n
<1> QED BY <1>1, <1>2

LEMMA TailOK ==
    ASSUME NEW s, RouterOK(s), s # <<>>
    PROVE  RouterOK(Tail(s)) /\ ModelsOf(Tail(s)) \subseteq ModelsOf(s)
<1>1. /\ Tail(s) \in Seq(Agents) /\ Len(Tail(s)) = Len(s) - 1 /\ Len(s) \in Nat
      /\ DOMAIN s = 1..Len(s) /\ DOMAIN Tail(s) = 1..(Len(s) - 1)
      /\ \A i \in 1..(Len(s) - 1) : Tail(s)[i] = s[i + 1]
  BY HeadTailProperties DEF RouterOK
<1>2. \A i \in 1..(Len(s) - 1) : i + 1 \in 1..Len(s)
  BY <1>1
<1>3. ModelsOf(Tail(s)) \subseteq ModelsOf(s)
  BY <1>1, <1>2 DEF ModelsOf
<1>4. \A i, j \in 1..(Len(s) - 1) : Tail(s)[i].model = Tail(s)[j].model => i + 1 = j + 1
  BY <1>1, <1>2 DEF RouterOK
<1>5. \A i, j \in 1..(Len(s) - 1) : i + 1 = j + 1 => i = j
  OBVIOUS
<1> QED BY <1>1, <1>3, <1>4, <1>5, BoundsAssumption DEF RouterOK

\* One more agent, of a checkpoint that is not in the list.
LEMMA AppendOK ==
    ASSUME NEW s, RouterOK(s), NEW a \in Agents, a.model \notin ModelsOf(s)
    PROVE  /\ Append(s, a) \in Seq(Agents) /\ Len(Append(s, a)) = Len(s) + 1
           /\ ModelsOf(Append(s, a)) = ModelsOf(s) \cup {a.model}
           /\ \A i, j \in DOMAIN Append(s, a) :
                 Append(s, a)[i].model = Append(s, a)[j].model => i = j
           /\ Append(s, a)[Len(s) + 1] = a
<1> DEFINE n == Len(s)
           g == Append(s, a)
<1>1. /\ g \in Seq(Agents) /\ n \in Nat /\ DOMAIN s = 1..n /\ DOMAIN g = 1..(n + 1) /\ Len(g) = n + 1
      /\ g[n + 1] = a /\ \A i \in 1..n : g[i] = s[i]
  BY AppendProperties DEF RouterOK
<1>2. 1..(n + 1) = (1..n) \cup {n + 1}
  BY <1>1
<1> HIDE DEF g, n
<1>3. ModelsOf(g) = ModelsOf(s) \cup {a.model}
  BY <1>1, <1>2 DEF ModelsOf
<1>4. \A i, j \in 1..(n + 1) : g[i].model = g[j].model => i = j
  BY <1>1, <1>2 DEF ModelsOf, RouterOK
<1> QED BY <1>1, <1>3, <1>4 DEF g, n

\* Router.load: the checkpoint is resident afterwards, the others stay unless a
\* new agent went over the cap, and the agent returned is one of that checkpoint.
LEMMA LoadOK ==
    ASSUME TypeOK, NEW m \in Names, RouterLoad(m)
    PROVE  /\ RouterOK(loaded') /\ built' \in [Names -> 0..MaxAgents]
           /\ ModelsOf(loaded') \subseteq Resident \cup {m}
           /\ m \in Resident \/ Len(loaded) < MaxLoaded => ModelsOf(loaded') = Resident \cup {m}
           /\ Loaded(m) \in Agents
<1>0. RouterOK(loaded) /\ Len(loaded) \in Nat /\ Resident = ModelsOf(loaded)
  BY DEF TypeOK, RouterOK, Resident, ModelsOf
<1>1. ASSUME RouterOK(loaded'), m \in ModelsOf(loaded') PROVE Loaded(m) \in Agents
  <2>1. PICK i \in DOMAIN loaded' : loaded'[i].model = m
    BY <1>1 DEF ModelsOf
  <2>2. loaded'[i] \in Range(loaded') /\ Range(loaded') \subseteq Agents
    BY <1>1 DEF RouterOK, Range
  <2> QED BY <2>1, <2>2 DEF Loaded
<1>2. CASE m \in Resident
  <2> DEFINE s == Without(m)
             a == AgentOf(m)
  <2>1. loaded' = Append(s, a) /\ built' = built
    BY <1>2 DEF RouterLoad
  <2>2. a \in Agents /\ a.model = m
    <3>1. PICK i \in DOMAIN loaded : loaded[i].model = m
      BY <1>2 DEF Resident
    <3>2. loaded[i] \in Range(loaded) /\ Range(loaded) \subseteq Agents
      BY <1>0 DEF RouterOK, Range
    <3> QED BY <3>1, <3>2 DEF AgentOf
  <2>3. RouterOK(s) /\ ModelsOf(s) = Resident \ {m} /\ Len(s) = Len(loaded) - 1
    BY <1>0, <1>2, WithoutOK
  <2> HIDE DEF s, a
  <2>4. /\ Append(s, a) \in Seq(Agents) /\ Len(Append(s, a)) = Len(s) + 1
        /\ ModelsOf(Append(s, a)) = ModelsOf(s) \cup {a.model}
        /\ \A i, j \in DOMAIN Append(s, a) : Append(s, a)[i].model = Append(s, a)[j].model => i = j
    BY <2>2, <2>3, AppendOK
  <2>5. RouterOK(loaded') /\ ModelsOf(loaded') = Resident \cup {m}
    <3>1. Len(loaded') <= MaxLoaded
      BY <1>0, <2>1, <2>3, <2>4, BoundsAssumption DEF RouterOK
    <3>2. (Resident \ {m}) \cup {m} = Resident \cup {m}
      OBVIOUS
    <3> QED BY <2>1, <2>2, <2>3, <2>4, <3>1, <3>2 DEF RouterOK
  <2> QED BY <1>1, <2>1, <2>5 DEF TypeOK
<1>3. CASE m \notin Resident
  <2> DEFINE a == [model |-> m, gen |-> built[m] + 1]
             g == Append(loaded, a)
  <2>1. /\ built[m] < MaxAgents /\ loaded' = Touch(loaded, a)
        /\ built' = [built EXCEPT ![m] = built[m] + 1]
    BY <1>3 DEF RouterLoad
  <2>2. a \in Agents /\ a.model = m /\ built' \in [Names -> 0..MaxAgents]
    <3>1. built[m] \in 0..MaxAgents /\ built[m] + 1 \in 1..MaxAgents /\ built[m] + 1 \in 0..MaxAgents
      BY <2>1, BoundsAssumption DEF TypeOK
    <3> QED BY <2>1, <3>1 DEF Agents, TypeOK
  <2> HIDE DEF a
  <2>3. /\ g \in Seq(Agents) /\ Len(g) = Len(loaded) + 1
        /\ ModelsOf(g) = Resident \cup {m}
        /\ \A i, j \in DOMAIN g : g[i].model = g[j].model => i = j
        /\ g[Len(loaded) + 1] = a
    BY <1>0, <1>3, <2>2, AppendOK
  <2>4. CASE Len(loaded) < MaxLoaded
    <3>1. loaded' = g
      BY <1>0, <2>1, <2>3, <2>4, BoundsAssumption DEF Touch
    <3> HIDE DEF g
    <3>2. RouterOK(loaded')
      BY <1>0, <2>3, <2>4, <3>1, BoundsAssumption DEF RouterOK
    <3> QED BY <1>1, <2>2, <2>3, <3>1, <3>2
  <2>5. CASE ~(Len(loaded) < MaxLoaded)
    <3>0. Len(loaded) = MaxLoaded
      BY <1>0, <2>5, BoundsAssumption DEF RouterOK
    <3>1. loaded' = Tail(g)
      BY <1>0, <2>1, <2>3, <3>0, BoundsAssumption DEF Touch
    <3> HIDE DEF g
    <3> DEFINE n == Len(loaded)
    <3>2. /\ Tail(g) \in Seq(Agents) /\ Len(Tail(g)) = n /\ DOMAIN Tail(g) = 1..n /\ DOMAIN g = 1..(n + 1)
          /\ \A i \in 1..n : Tail(g)[i] = g[i + 1]
      <4>1. g # <<>>
        BY <1>0, <2>3
      <4> QED BY <1>0, <2>3, <4>1, HeadTailProperties
    <3>3. \A i \in 1..n : i + 1 \in 1..(n + 1)
      BY <1>0
    <3>4. \A i, j \in 1..n : Tail(g)[i].model = Tail(g)[j].model => i = j
      <4>1. \A i, j \in 1..n : Tail(g)[i].model = Tail(g)[j].model => i + 1 = j + 1
        BY <2>3, <3>2, <3>3
      <4>2. \A i, j \in 1..n : i + 1 = j + 1 => i = j
        OBVIOUS
      <4> QED BY <4>1, <4>2
    <3>5. ModelsOf(Tail(g)) \subseteq Resident \cup {m}
      BY <2>3, <3>2, <3>3 DEF ModelsOf
    <3>6. m \in ModelsOf(Tail(g))
      <4>1. n \in 1..n
        BY <1>0, <3>0, BoundsAssumption
      <4>2. Tail(g)[n].model = m
        BY <2>2, <2>3, <3>2, <4>1
      <4> QED BY <3>2, <4>1, <4>2 DEF ModelsOf
    <3>7. RouterOK(loaded')
      BY <1>0, <3>1, <3>2, <3>4, <3>0 DEF RouterOK
    <3> QED BY <1>1, <1>3, <2>2, <2>5, <3>1, <3>5, <3>6, <3>7
  <2> QED BY <2>4, <2>5
<1> QED BY <1>2, <1>3
----------------------------------------------------------------------------
(* Small facts.                                                            *)

LEMMA IdleType ==
    /\ IdleSlot \in Slots /\ IdleCaller \in Outsiders /\ IdleSlot.agent \in Agents
    /\ IdleSlot.pc = "idle" /\ IdleSlot.kind = "predict"
<1>1. Models[1] \in Names
  BY ModelsAssumption DEF Names, Range
<1>2. [model |-> Models[1], gen |-> 1] \in Agents
  BY <1>1, BoundsAssumption DEF Agents
<1>3. IdleSlot \in Slots
  BY <1>1, <1>2 DEF IdleSlot, Slots
<1>4. IdleSlot.agent = [model |-> Models[1], gen |-> 1]
  BY DEF IdleSlot
<1>5. IdleCaller \in Outsiders
  BY <1>2, <1>4 DEF IdleCaller, Outsiders
<1> QED BY <1>2, <1>3, <1>4, <1>5 DEF IdleSlot

LEMMA IdleOK ==
    ASSUME NEW s, NEW res, s.pc = "idle", s.kind = "predict"
    PROVE  SlotOK(s, res)
  BY DEF SlotOK, KindOK, ColdOK, BehindOK, WarmOK

\* The type invariant in words on the Router.
LEMMA Typed ==
    TypeOK <=> /\ RouterOK(loaded) /\ built \in [Names -> 0..MaxAgents]
               /\ quantized \in [Agents -> 0..1]
               /\ slot \in Slots /\ caller \in [Callers -> Outsiders] /\ calls \in 0..MaxCalls
               /\ sample \in [cold : BOOLEAN, still : BOOLEAN]
               /\ last \in [end : {"none", "completed", "cancelled", "raised"}, before : SUBSET Names,
                            after : SUBSET Names, calm : BOOLEAN]
  BY DEF TypeOK, RouterOK

LEMMA TypedNext ==
    ASSUME RouterOK(loaded'), built' \in [Names -> 0..MaxAgents], quantized' \in [Agents -> 0..1],
           slot' \in Slots, caller' \in [Callers -> Outsiders], calls' \in 0..MaxCalls,
           sample' \in [cold : BOOLEAN, still : BOOLEAN],
           last' \in [end : {"none", "completed", "cancelled", "raised"}, before : SUBSET Names,
                      after : SUBSET Names, calm : BOOLEAN]
    PROVE  TypeOK'
  BY DEF TypeOK, RouterOK

LEMMA TypedNow ==
    ASSUME TypeOK
    PROVE  /\ RouterOK(loaded) /\ Resident = ModelsOf(loaded) /\ Resident \subseteq Names
           /\ IsFiniteSet(Resident) /\ Cardinality(Resident) <= MaxLoaded
<1>1. RouterOK(loaded) /\ Resident = ModelsOf(loaded)
  BY DEF TypeOK, RouterOK, Resident, ModelsOf
<1> QED BY <1>1, ResidentNames, ResidentCount DEF RouterOK

\* What ended and what was sampled stay as they are.
LEMMA EndKept == ASSUME EndInv, last' = last, sample' = sample PROVE EndInv'
  BY DEF EndInv, NothingLeftBehind, PreloadedWarm, SampledWarm

LEMMA EndForgotten ==
    ASSUME Forget
    PROVE  /\ EndInv' /\ sample' \in [cold : BOOLEAN, still : BOOLEAN]
           /\ last' \in [end : {"none", "completed", "cancelled", "raised"}, before : SUBSET Names,
                         after : SUBSET Names, calm : BOOLEAN]
  BY DEF Forget, NoSample, NoneEnded, EndInv, NothingLeftBehind, PreloadedWarm, SampledWarm

LEMMA SlotInvNext ==
    ASSUME SlotOK(slot', ModelsOf(loaded')), slot'.pc = "pass" => quantized'[slot'.agent] = 1
    PROVE  SlotInv'
  BY DEF SlotInv, RunsOnPrepared, Resident, ModelsOf

\* A comparison ends with the checkpoints res resident.
LEMMA EndReached ==
    ASSUME TypeOK, EndInv, NEW res \in SUBSET Names, NEW end \in {"completed", "cancelled", "raised"},
           last' = [end |-> end, before |-> slot.resident, after |-> res, calm |-> slot.calm],
           sample' = sample, slot.calm => res \subseteq slot.resident,
           slot.calm /\ end = "completed" => Range(Preload) \cap slot.resident \subseteq res
    PROVE  /\ EndInv'
           /\ last' \in [end : {"none", "completed", "cancelled", "raised"}, before : SUBSET Names,
                         after : SUBSET Names, calm : BOOLEAN]
<1>1. slot.resident \in SUBSET Names /\ slot.calm \in BOOLEAN
  BY DEF TypeOK, Slots
<1>2. /\ last'.end = end /\ last'.before = slot.resident /\ last'.after = res /\ last'.calm = slot.calm
  OBVIOUS
<1>3. SampledWarm'
  BY DEF EndInv, SampledWarm
<1>4. NothingLeftBehind' /\ PreloadedWarm'
  BY <1>2 DEF NothingLeftBehind, PreloadedWarm
<1> QED BY <1>1, <1>3, <1>4 DEF EndInv

----------------------------------------------------------------------------
(* The slot thread begins.                                                 *)

LEMMA PredictStep ==
    ASSUME Inv, NEW m \in Names, Predict(m)
    PROVE  Inv'
<1> DEFINE s2 == [IdleSlot EXCEPT !.pc = "load", !.model = m, !.snap = Resident]
<1>0. slot' = s2 /\ UNCHANGED <<loaded, built, quantized, caller, calls>> /\ Forget
  BY DEF Predict
<1>1. TypeOK /\ Resident = ModelsOf(loaded) /\ Resident \subseteq Names
  BY TypedNow DEF Inv
<1>2. s2 \in Slots
  BY <1>1, IdleType, Zenon DEF Slots
<1>3. s2.pc = "load" /\ s2.kind = "predict" /\ s2.snap = Resident
  BY IdleType DEF Slots
<1> HIDE DEF s2
<1>4. SlotOK(s2, Resident)
  BY <1>3 DEF SlotOK, KindOK, ColdOK, BehindOK, WarmOK
<1>5. SlotInv'
  BY <1>0, <1>1, <1>3, <1>4, SlotInvNext
<1>6. TypeOK'
  BY <1>0, <1>1, <1>2, EndForgotten, TypedNext, Typed
<1> QED BY <1>0, <1>5, <1>6, EndForgotten DEF Inv

LEMMA CompareStep ==
    ASSUME Inv, Compare
    PROVE  Inv'
<1>1. TypeOK /\ Resident = ModelsOf(loaded) /\ Resident \subseteq Names
      /\ IsFiniteSet(Resident) /\ Cardinality(Resident) <= MaxLoaded
  BY TypedNow DEF Inv
<1>2. PICK order \in Sorted(Resident) :
        slot' = [IdleSlot EXCEPT !.pc = "next", !.kind = "compare", !.todo = order, !.resident = Resident]
  BY DEF Compare
<1> DEFINE s2 == [IdleSlot EXCEPT !.pc = "next", !.kind = "compare", !.todo = order, !.resident = Resident]
<1>0. slot' = s2 /\ UNCHANGED <<loaded, built, quantized, caller, calls>> /\ Forget
  BY <1>2 DEF Compare
<1>3. order \in Seq(Names)
  <2>1. order \in [1..Len(Models) -> Names] /\ Len(Models) \in Nat
    BY ModelsAssumption DEF Sorted
  <2> QED BY <2>1, IsASeq
<1>4. s2 \in Slots
  BY <1>1, <1>3, IdleType, Zenon DEF Slots
<1>5. s2.pc = "next" /\ s2.kind = "compare" /\ s2.resident = Resident
  BY IdleType DEF Slots
<1> HIDE DEF s2
<1>6. SlotOK(s2, Resident)
  BY <1>1, <1>5 DEF SlotOK, KindOK, ColdOK, BehindOK, WarmOK
<1>7. SlotInv'
  BY <1>0, <1>1, <1>5, <1>6, SlotInvNext
<1>8. TypeOK'
  BY <1>0, <1>1, <1>4, EndForgotten, TypedNext, Typed
<1> QED BY <1>0, <1>7, <1>8, EndForgotten DEF Inv
----------------------------------------------------------------------------
(* The comparison's loop.                                                  *)

LEMMA GiveUpStep ==
    ASSUME Inv, GiveUp
    PROVE  Inv'
<1> DEFINE s2 == [slot EXCEPT !.cancelled = TRUE]
<1>0. slot' = s2 /\ UNCHANGED <<loaded, built, quantized, caller, calls, sample, last>>
  BY DEF GiveUp
<1>1. TypeOK /\ Resident = ModelsOf(loaded) /\ slot \in Slots /\ SlotOK(slot, Resident)
  BY TypedNow, Typed DEF Inv, SlotInv
<1>2. s2 \in Slots
  BY <1>1, Zenon DEF Slots
<1>3. /\ s2.pc = slot.pc /\ s2.kind = slot.kind /\ s2.todo = slot.todo /\ s2.resident = slot.resident
      /\ s2.model = slot.model /\ s2.snap = slot.snap /\ s2.agent = slot.agent
      /\ s2.cold = slot.cold /\ s2.calm = slot.calm /\ s2.still = slot.still
  BY <1>1 DEF Slots
<1> HIDE DEF s2
<1>4. SlotOK(s2, Resident)
  BY <1>1, <1>3 DEF SlotOK, KindOK, ColdOK, BehindOK, WarmOK, Extra, Undone
<1>5. SlotInv'
  BY <1>0, <1>1, <1>3, <1>4, SlotInvNext DEF Inv, SlotInv, RunsOnPrepared
<1>6. TypeOK'
  BY <1>0, <1>1, <1>2, TypedNext, Typed
<1> QED BY <1>0, <1>5, <1>6, EndKept DEF Inv

LEMMA NextModelStep ==
    ASSUME Inv, NextModel
    PROVE  Inv'
<1>0. UNCHANGED <<loaded, built, quantized, caller, calls, sample>> /\ slot.pc = "next" /\ slot.todo # <<>>
  BY DEF NextModel
<1>1. /\ TypeOK /\ EndInv /\ Resident = ModelsOf(loaded) /\ Resident \subseteq Names
      /\ slot \in Slots /\ SlotOK(slot, Resident)
  BY TypedNow, Typed DEF Inv, SlotInv
<1>2. slot.kind = "compare" /\ (slot.calm => Resident \subseteq slot.resident)
  BY <1>0, <1>1 DEF SlotOK, KindOK, BehindOK, Extra
<1>3. CASE slot.cancelled
  <2>1. slot' = IdleSlot
        /\ last' = [end |-> "cancelled", before |-> slot.resident, after |-> Resident, calm |-> slot.calm]
    BY <1>3 DEF NextModel, CompareEnds
  <2>2. EndInv' /\ last' \in [end : {"none", "completed", "cancelled", "raised"}, before : SUBSET Names,
                              after : SUBSET Names, calm : BOOLEAN]
    BY <1>0, <1>1, <1>2, <2>1, EndReached
  <2>3. SlotInv'
    BY <2>1, IdleType, IdleOK, SlotInvNext
  <2>4. TypeOK'
    BY <1>0, <1>1, <2>1, <2>2, IdleType, TypedNext, Typed
  <2> QED BY <2>2, <2>3, <2>4 DEF Inv
<1>4. CASE ~slot.cancelled
  <2> DEFINE m == Head(slot.todo)
             rest == Tail(slot.todo)
             s2 == [slot EXCEPT !.pc = "load", !.model = m, !.todo = rest, !.snap = Resident, !.still = TRUE]
  <2>1. slot' = s2 /\ last' = last
    BY <1>4 DEF NextModel
  <2>2. m \in Names /\ rest \in Seq(Names)
    <3>1. slot.todo \in Seq(Names)
      BY <1>1 DEF Slots
    <3> QED BY <1>0, <3>1, HeadTailProperties
  <2> HIDE DEF m, rest
  <2>3. s2 \in Slots
    BY <1>1, <2>2, Zenon DEF Slots
  <2>4. /\ s2.pc = "load" /\ s2.kind = slot.kind /\ s2.resident = slot.resident
        /\ s2.snap = Resident /\ s2.calm = slot.calm
    BY <1>1 DEF Slots
  <2> HIDE DEF s2
  <2>5. SlotOK(s2, Resident)
    BY <1>1, <1>2, <2>4 DEF SlotOK, KindOK, ColdOK, BehindOK, WarmOK, Extra
  <2>6. SlotInv'
    BY <1>0, <1>1, <2>1, <2>4, <2>5, SlotInvNext
  <2>7. TypeOK'
    BY <1>0, <1>1, <2>1, <2>3, TypedNext, Typed
  <2> QED BY <1>0, <1>1, <2>1, <2>6, <2>7, EndKept DEF Inv
<1> QED BY <1>3, <1>4

\* Loading: an undisturbed comparison has no more than its residents in memory,
\* so reloading one of them evicts none.
LEMMA LoadFits ==
    ASSUME TypeOK, NEW S, IsFiniteSet(S), Cardinality(S) <= MaxLoaded, Resident \subseteq S,
           NEW m \in S, m \notin Resident
    PROVE  Len(loaded) < MaxLoaded
<1>1. RouterOK(loaded) /\ Resident = ModelsOf(loaded)
  BY TypedNow
<1>2. Cardinality(Resident) = Len(loaded) /\ IsFiniteSet(Resident) /\ Len(loaded) \in Nat
  BY <1>1, ResidentCount DEF RouterOK
<1>3. IsFiniteSet(Resident \cup {m}) /\ Cardinality(Resident \cup {m}) = Len(loaded) + 1
  BY <1>2, FS_AddElement
<1>4. Cardinality(Resident \cup {m}) <= Cardinality(S) /\ Cardinality(S) \in Nat
  BY <1>3, FS_Subset, FS_CardinalityType
<1> QED BY <1>2, <1>3, <1>4, BoundsAssumption

LEMMA SlotLoadsStep ==
    ASSUME Inv, SlotLoads
    PROVE  Inv'
<1> DEFINE m == slot.model
           a == Loaded(m)
           c == m \notin Resident
           res == ModelsOf(loaded')
           s2 == [slot EXCEPT !.pc = "hook", !.agent = a, !.cold = c]
<1>0. /\ slot' = s2 /\ UNCHANGED <<quantized, caller, calls, sample, last>>
      /\ slot.pc = "load" /\ RouterLoad(m)
  BY DEF SlotLoads
<1>1. /\ TypeOK /\ EndInv /\ slot \in Slots /\ SlotOK(slot, Resident) /\ m \in Names
  BY Typed DEF Inv, SlotInv, Slots
<1>2. /\ RouterOK(loaded') /\ built' \in [Names -> 0..MaxAgents] /\ a \in Agents
      /\ res \subseteq Resident \cup {m}
      /\ m \in Resident \/ Len(loaded) < MaxLoaded => res = Resident \cup {m}
  BY <1>0, <1>1, LoadOK
<1>3. slot.kind = "rewarm" /\ slot.calm => res = Resident \cup {m}
  <2> SUFFICES ASSUME slot.kind = "rewarm", slot.calm, m \notin Resident PROVE Len(loaded) < MaxLoaded
    BY <1>2
  <2>1. /\ IsFiniteSet(slot.resident) /\ Cardinality(slot.resident) <= MaxLoaded
        /\ Resident \subseteq slot.resident /\ m \in slot.resident
    BY <1>0, <1>1 DEF SlotOK, BehindOK, Extra
  <2> QED BY <1>1, <2>1, LoadFits
<1>c. c \in BOOLEAN
  OBVIOUS
<1> HIDE DEF a, res
<1>4. s2 \in Slots
  <2> HIDE DEF c, m
  <2> QED BY <1>1, <1>2, <1>c, Zenon DEF Slots
<1>5. /\ s2.pc = "hook" /\ s2.kind = slot.kind /\ s2.resident = slot.resident /\ s2.todo = slot.todo
      /\ s2.model = m /\ s2.snap = slot.snap /\ s2.calm = slot.calm /\ s2.still = slot.still
      /\ s2.cold = c
  <2> HIDE DEF c
  <2> QED BY <1>1 DEF Slots
<1> HIDE DEF s2
<1>6. KindOK(s2)
  BY <1>5 DEF KindOK
<1>7. ColdOK(s2, res)
  BY <1>0, <1>1, <1>5 DEF SlotOK, ColdOK
<1>8. BehindOK(s2, res)
  BY <1>0, <1>1, <1>2, <1>5 DEF SlotOK, BehindOK, Extra
<1>9. WarmOK(s2, res)
  BY <1>0, <1>1, <1>3, <1>5 DEF SlotOK, WarmOK, Undone
<1>10. SlotInv'
  BY <1>0, <1>5, <1>6, <1>7, <1>8, <1>9, SlotInvNext DEF SlotOK, res
<1>11. TypeOK'
  BY <1>0, <1>1, <1>2, <1>4, TypedNext, Typed
<1> QED BY <1>0, <1>1, <1>10, <1>11, EndKept DEF Inv

\* _after_load: the agent is prepared, and no other agent is touched.
LEMMA AfterLoadOK ==
    ASSUME TypeOK, NEW a \in Agents, AfterLoad(a)
    PROVE  /\ quantized' \in [Agents -> 0..1] /\ quantized'[a] = 1
           /\ \A b \in Agents : quantized[b] = 1 => quantized'[b] = 1
<1>1. quantized \in [Agents -> 0..1]
  BY DEF TypeOK
<1> QED BY <1>1 DEF AfterLoad

LEMMA SlotHookStep ==
    ASSUME Inv, SlotHook
    PROVE  Inv'
<1> DEFINE pc == IF slot.kind = "rewarm" THEN "reload" ELSE "pass"
           s2 == [slot EXCEPT !.pc = pc]
<1>0. /\ slot' = s2 /\ UNCHANGED <<loaded, built, caller, calls, sample, last>>
      /\ slot.pc = "hook" /\ AfterLoad(slot.agent)
  BY DEF SlotHook
<1>1. /\ TypeOK /\ EndInv /\ Resident = ModelsOf(loaded) /\ slot \in Slots /\ SlotOK(slot, Resident)
      /\ slot.agent \in Agents
  BY TypedNow, Typed DEF Inv, SlotInv, Slots
<1>2. quantized' \in [Agents -> 0..1] /\ quantized'[slot.agent] = 1
  BY <1>0, <1>1, AfterLoadOK
<1>p. pc \in {"reload", "pass"} /\ (pc = "reload" <=> slot.kind = "rewarm")
  OBVIOUS
<1>k. slot.kind \in {"predict", "compare", "rewarm"}
  BY <1>1 DEF Slots
<1> HIDE DEF pc
<1>3. s2 \in Slots
  <2>1. pc \in {"idle", "next", "load", "hook", "pass", "clean", "reload"}
    BY <1>p
  <2> QED BY <1>1, <2>1, Zenon DEF Slots
<1>4. /\ s2.pc = pc /\ s2.kind = slot.kind /\ s2.resident = slot.resident /\ s2.todo = slot.todo
      /\ s2.model = slot.model /\ s2.snap = slot.snap /\ s2.calm = slot.calm /\ s2.still = slot.still
      /\ s2.cold = slot.cold /\ s2.agent = slot.agent
  BY <1>1 DEF Slots
<1> HIDE DEF s2
<1>5. KindOK(s2) /\ ColdOK(s2, Resident)
  BY <1>0, <1>1, <1>4, <1>p, <1>k DEF KindOK, ColdOK, SlotOK
<1>6. BehindOK(s2, Resident)
  BY <1>0, <1>1, <1>4, <1>p DEF SlotOK, BehindOK, Extra
<1>7. WarmOK(s2, Resident)
  BY <1>0, <1>1, <1>4, <1>p DEF SlotOK, WarmOK, Undone
<1>8. SlotInv'
  BY <1>0, <1>1, <1>2, <1>4, <1>5, <1>6, <1>7, SlotInvNext DEF SlotOK
<1>9. TypeOK'
  BY <1>0, <1>1, <1>2, <1>3, TypedNext, Typed
<1> QED BY <1>0, <1>1, <1>8, <1>9, EndKept DEF Inv
\* After a pass, or a load that failed, the finally clause is next.
LEMMA AfterForwardOK ==
    ASSUME TypeOK, SlotOK(slot, Resident), NEW invalid \in BOOLEAN, AfterForward(invalid),
           slot.kind # "rewarm", slot.pc \in {"load", "hook", "pass"}, NEW res, res \subseteq Resident
    PROVE  slot' \in Slots /\ SlotOK(slot', res) /\ slot'.pc # "pass"
<1> DEFINE s2 == [slot EXCEPT !.pc = "clean", !.abort = invalid, !.snap = {}, !.agent = IdleSlot.agent,
                              !.cold = FALSE, !.still = TRUE]
<1>0. slot \in Slots /\ slot.kind \in {"predict", "compare", "rewarm"}
  BY DEF TypeOK, Slots
<1>1. CASE slot.kind = "predict"
  <2>1. slot' = IdleSlot
    BY <1>1 DEF AfterForward
  <2> QED BY <2>1, IdleType, IdleOK
<1>2. CASE slot.kind = "compare"
  <2>1. slot' = s2
    BY <1>2 DEF AfterForward
  <2>2. s2 \in Slots
    <3>1. ASSUME NEW ag \in Agents
          PROVE  [slot EXCEPT !.pc = "clean", !.abort = invalid, !.snap = {}, !.agent = ag,
                              !.cold = FALSE, !.still = TRUE] \in Slots
      <4>1. {} \in SUBSET Names /\ TRUE \in BOOLEAN /\ FALSE \in BOOLEAN
        OBVIOUS
      <4> QED BY <1>0, <4>1, Zenon DEF Slots
    <3> QED BY <3>1, IdleType
  <2>3. /\ s2.pc = "clean" /\ s2.kind = "compare" /\ s2.resident = slot.resident
        /\ s2.model = slot.model /\ s2.calm = slot.calm
    BY <1>0, <1>2 DEF Slots
  <2> HIDE DEF s2
  <2>4. SlotOK(s2, res)
    BY <1>2, <2>3 DEF SlotOK, KindOK, ColdOK, BehindOK, WarmOK, Extra
  <2> QED BY <2>1, <2>2, <2>3, <2>4
<1> QED BY <1>0, <1>1, <1>2

LEMMA PassStep ==
    ASSUME Inv, PassEnds \/ \E invalid \in BOOLEAN : PassRaises(invalid)
    PROVE  Inv'
<1>0. UNCHANGED <<loaded, built, quantized, caller, calls, last>> /\ slot.pc = "pass"
  BY DEF PassEnds, PassRaises
<1>1. /\ TypeOK /\ EndInv /\ Resident = ModelsOf(loaded) /\ slot \in Slots /\ SlotOK(slot, Resident)
      /\ slot.kind # "rewarm"
  BY <1>0, TypedNow, Typed DEF Inv, SlotInv, SlotOK, KindOK
<1>2. PICK invalid \in BOOLEAN : AfterForward(invalid)
  BY DEF PassEnds, PassRaises
<1>3. slot' \in Slots /\ SlotOK(slot', Resident) /\ slot'.pc # "pass"
  BY <1>0, <1>1, <1>2, AfterForwardOK
<1>4. SlotInv'
  BY <1>0, <1>1, <1>3, SlotInvNext
<1>5. sample' = sample \/ (slot.model \in slot.snap /\ sample' = [cold |-> slot.cold, still |-> slot.still])
  BY DEF PassEnds, PassRaises
<1>6. /\ slot.cold \in BOOLEAN /\ slot.still \in BOOLEAN
      /\ slot.model \in slot.snap /\ slot.still => ~slot.cold
  BY <1>0, <1>1 DEF SlotOK, ColdOK, Slots
<1>7. SampledWarm' /\ sample' \in [cold : BOOLEAN, still : BOOLEAN]
  BY <1>1, <1>5, <1>6 DEF SampledWarm, EndInv, TypeOK
<1>8. EndInv'
  BY <1>0, <1>1, <1>7 DEF EndInv, NothingLeftBehind, PreloadedWarm
<1>9. TypeOK'
  BY <1>0, <1>1, <1>3, <1>7, TypedNext, Typed
<1> QED BY <1>4, <1>8, <1>9 DEF Inv

\* A load that failed may have evicted the head of the list.
LEMMA RoomMade ==
    ASSUME TypeOK, loaded' \in {loaded} \cup (IF Len(loaded) = MaxLoaded THEN {Tail(loaded)} ELSE {})
    PROVE  RouterOK(loaded') /\ ModelsOf(loaded') \subseteq Resident
<1>1. RouterOK(loaded) /\ Resident = ModelsOf(loaded)
  BY TypedNow
<1>2. Len(loaded) = MaxLoaded => loaded # <<>>
  BY BoundsAssumption
<1> QED BY <1>1, <1>2, TailOK

LEMMA LoadRaisesStep ==
    ASSUME Inv, LoadRaises
    PROVE  Inv'
<1> DEFINE res == ModelsOf(loaded')
<1>0. UNCHANGED <<built, quantized, caller, calls, sample>> /\ slot.pc = "load"
  BY DEF LoadRaises
<1>1. TypeOK /\ EndInv /\ slot \in Slots /\ SlotOK(slot, Resident) /\ Resident \subseteq Names
  BY TypedNow, Typed DEF Inv, SlotInv
<1>2. RouterOK(loaded') /\ res \subseteq Resident
  BY <1>1, RoomMade DEF LoadRaises
<1>3. CASE slot.kind = "rewarm"
  <2>1. /\ slot' = IdleSlot
        /\ last' = [end |-> "raised", before |-> slot.resident, after |-> res, calm |-> slot.calm]
    BY <1>3 DEF LoadRaises, ModelsOf
  <2>2. slot.calm => res \subseteq slot.resident
    BY <1>0, <1>1, <1>2, <1>3 DEF SlotOK, BehindOK, Extra
  <2>3. res \in SUBSET Names
    BY <1>1, <1>2
  <2> HIDE DEF res
  <2>4. EndInv' /\ last' \in [end : {"none", "completed", "cancelled", "raised"}, before : SUBSET Names,
                              after : SUBSET Names, calm : BOOLEAN]
    BY <1>0, <1>1, <2>1, <2>2, <2>3, EndReached
  <2>5. SlotInv'
    BY <2>1, IdleType, IdleOK, SlotInvNext
  <2>6. TypeOK'
    BY <1>0, <1>1, <1>2, <2>1, <2>4, IdleType, TypedNext, Typed
  <2> QED BY <2>4, <2>5, <2>6 DEF Inv
<1>4. CASE slot.kind # "rewarm"
  <2>1. AfterForward(FALSE) /\ last' = last
    BY <1>4 DEF LoadRaises
  <2>2. slot' \in Slots /\ SlotOK(slot', res) /\ slot'.pc # "pass"
    <3> HIDE DEF res
    <3> QED BY <1>0, <1>1, <1>2, <1>4, <2>1, AfterForwardOK
  <2>3. SlotInv'
    BY <2>2, SlotInvNext
  <2>4. TypeOK'
    BY <1>0, <1>1, <1>2, <2>1, <2>2, TypedNext, Typed
  <2> QED BY <1>0, <1>1, <2>1, <2>3, <2>4, EndKept DEF Inv
<1> QED BY <1>3, <1>4

\* An agent that could not be prepared stays where the Router put it.
LEMMA PrepareRaisesStep ==
    ASSUME Inv, PrepareRaises
    PROVE  Inv'
<1>0. UNCHANGED <<loaded, built, quantized, caller, sample>> /\ slot.pc = "hook"
  BY DEF PrepareRaises
<1>c. calls' \in 0..MaxCalls
  BY BoundsAssumption DEF PrepareRaises, Inv, TypeOK
<1>1. /\ TypeOK /\ EndInv /\ slot \in Slots /\ SlotOK(slot, Resident) /\ Resident \subseteq Names
      /\ RouterOK(loaded) /\ Resident = ModelsOf(loaded)
  BY TypedNow, Typed DEF Inv, SlotInv
<1>2. CASE slot.kind = "rewarm"
  <2>1. /\ slot' = IdleSlot
        /\ last' = [end |-> "raised", before |-> slot.resident, after |-> Resident, calm |-> slot.calm]
    BY <1>2 DEF PrepareRaises, CompareEnds
  <2>2. slot.calm => Resident \subseteq slot.resident
    BY <1>0, <1>1, <1>2 DEF SlotOK, BehindOK, Extra
  <2> DEFINE res == Resident
  <2>3. res \in SUBSET Names
    BY <1>1
  <2> HIDE DEF res
  <2>4. EndInv' /\ last' \in [end : {"none", "completed", "cancelled", "raised"}, before : SUBSET Names,
                              after : SUBSET Names, calm : BOOLEAN]
    BY <1>0, <1>1, <2>1, <2>2, <2>3, EndReached DEF res
  <2>5. SlotInv'
    BY <2>1, IdleType, IdleOK, SlotInvNext
  <2>6. TypeOK'
    BY <1>0, <1>c, <1>1, <2>1, <2>4, IdleType, TypedNext, Typed
  <2> QED BY <2>4, <2>5, <2>6 DEF Inv
<1>3. CASE slot.kind # "rewarm"
  <2>1. AfterForward(FALSE) /\ last' = last
    BY <1>3 DEF PrepareRaises
  <2>2. slot' \in Slots /\ SlotOK(slot', Resident) /\ slot'.pc # "pass"
    BY <1>0, <1>1, <1>3, <2>1, AfterForwardOK
  <2>3. SlotInv'
    BY <1>0, <1>1, <2>2, SlotInvNext
  <2>4. TypeOK'
    BY <1>0, <1>c, <1>1, <2>1, <2>2, TypedNext, Typed
  <2> QED BY <1>0, <1>1, <2>1, <2>3, <2>4, EndKept DEF Inv
<1> QED BY <1>2, <1>3

\* The finally clause removes what the comparison itself brought in.
LEMMA CleanStep ==
    ASSUME Inv, Clean
    PROVE  Inv'
<1> DEFINE res == ModelsOf(loaded')
<1>0. UNCHANGED <<built, quantized, caller, calls, sample>> /\ slot.pc = "clean"
  BY DEF Clean
<1>1. /\ TypeOK /\ EndInv /\ slot \in Slots /\ SlotOK(slot, Resident) /\ Resident \subseteq Names
      /\ RouterOK(loaded) /\ Resident = ModelsOf(loaded) /\ slot.model \in Names
  BY TypedNow, Typed DEF Inv, SlotInv, Slots
<1>2. /\ RouterOK(loaded')
      /\ res = IF slot.model \in slot.resident THEN Resident ELSE Resident \ {slot.model}
  <2>1. loaded' = IF slot.model \in slot.resident THEN loaded ELSE Without(slot.model)
    BY DEF Clean
  <2> QED BY <1>1, <2>1, WithoutOK
<1>3. slot.kind = "compare" /\ (slot.calm => res \subseteq slot.resident) /\ res \in SUBSET Names
  BY <1>0, <1>1, <1>2 DEF SlotOK, KindOK, BehindOK, Extra
<1>4. CASE slot.abort
  <2>1. /\ slot' = IdleSlot
        /\ last' = [end |-> "raised", before |-> slot.resident, after |-> res, calm |-> slot.calm]
    BY <1>4 DEF Clean, ModelsOf
  <2> HIDE DEF res
  <2>2. EndInv' /\ last' \in [end : {"none", "completed", "cancelled", "raised"}, before : SUBSET Names,
                              after : SUBSET Names, calm : BOOLEAN]
    BY <1>0, <1>1, <1>3, <2>1, EndReached
  <2>3. SlotInv'
    BY <2>1, IdleType, IdleOK, SlotInvNext
  <2>4. TypeOK'
    BY <1>0, <1>1, <1>2, <2>1, <2>2, IdleType, TypedNext, Typed
  <2> QED BY <2>2, <2>3, <2>4 DEF Inv
<1>5. CASE ~slot.abort
  <2> DEFINE s2 == [slot EXCEPT !.pc = "next"]
  <2>1. slot' = s2 /\ last' = last
    BY <1>5 DEF Clean
  <2>2. s2 \in Slots
    BY <1>1, Zenon DEF Slots
  <2>3. /\ s2.pc = "next" /\ s2.kind = slot.kind /\ s2.resident = slot.resident /\ s2.calm = slot.calm
    BY <1>1 DEF Slots
  <2> HIDE DEF s2, res
  <2>4. SlotOK(s2, res)
    BY <1>1, <1>3, <2>3 DEF SlotOK, KindOK, ColdOK, BehindOK, WarmOK, Extra
  <2>5. SlotInv'
    BY <2>1, <2>3, <2>4, SlotInvNext DEF res
  <2>6. TypeOK'
    BY <1>0, <1>1, <1>2, <2>1, <2>2, TypedNext, Typed
  <2> QED BY <1>0, <1>1, <2>1, <2>5, <2>6, EndKept DEF Inv
<1> QED BY <1>4, <1>5

LEMMA BeginReloadStep ==
    ASSUME Inv, BeginReload
    PROVE  Inv'
<1> DEFINE s2 == [slot EXCEPT !.pc = "reload", !.kind = "rewarm", !.todo = Preload]
<1>0. slot' = s2 /\ UNCHANGED <<loaded, built, quantized, caller, calls, sample, last>> /\ slot.pc = "next"
  BY DEF BeginReload
<1>1. /\ TypeOK /\ EndInv /\ Resident = ModelsOf(loaded) /\ slot \in Slots /\ SlotOK(slot, Resident)
  BY TypedNow, Typed DEF Inv, SlotInv
<1>2. s2 \in Slots
  BY <1>1, PreloadAssumption, Zenon DEF Slots
<1>3. /\ s2.pc = "reload" /\ s2.kind = "rewarm" /\ s2.resident = slot.resident /\ s2.calm = slot.calm
      /\ s2.todo = Preload
  BY <1>1 DEF Slots
<1> HIDE DEF s2
<1>4. SlotOK(s2, Resident)
  BY <1>0, <1>1, <1>3 DEF SlotOK, KindOK, ColdOK, BehindOK, WarmOK, Extra, Undone
<1>5. SlotInv'
  BY <1>0, <1>1, <1>3, <1>4, SlotInvNext
<1>6. TypeOK'
  BY <1>0, <1>1, <1>2, TypedNext, Typed
<1> QED BY <1>0, <1>1, <1>5, <1>6, EndKept DEF Inv

\* The loop leaves a checkpoint behind only when it is resident or was not
\* resident before.
LEMMA ReloadStep ==
    ASSUME Inv, Reload
    PROVE  Inv'
<1>0. UNCHANGED <<loaded, built, quantized, caller, calls, sample>> /\ slot.pc = "reload"
  BY DEF Reload
<1>1. /\ TypeOK /\ EndInv /\ Resident = ModelsOf(loaded) /\ Resident \subseteq Names
      /\ slot \in Slots /\ SlotOK(slot, Resident) /\ slot.todo \in Seq(Names)
  BY TypedNow, Typed DEF Inv, SlotInv, Slots
<1>2. /\ slot.kind = "rewarm" /\ (slot.calm => Resident \subseteq slot.resident)
      /\ slot.calm => Range(Preload) \cap slot.resident \subseteq Resident \cup Range(slot.todo)
  BY <1>0, <1>1 DEF SlotOK, KindOK, BehindOK, WarmOK, Extra, Undone
<1>3. CASE slot.todo = <<>>
  <2>1. slot' = IdleSlot
        /\ last' = [end |-> "completed", before |-> slot.resident, after |-> Resident, calm |-> slot.calm]
    BY <1>3 DEF Reload, CompareEnds
  <2>r. Range(slot.todo) = {}
    BY <1>3 DEF Range
  <2>2. EndInv' /\ last' \in [end : {"none", "completed", "cancelled", "raised"}, before : SUBSET Names,
                              after : SUBSET Names, calm : BOOLEAN]
    BY <1>0, <1>1, <1>2, <2>1, <2>r, EndReached
  <2>3. SlotInv'
    BY <2>1, IdleType, IdleOK, SlotInvNext
  <2>4. TypeOK'
    BY <1>0, <1>1, <2>1, <2>2, IdleType, TypedNext, Typed
  <2> QED BY <2>2, <2>3, <2>4 DEF Inv
<1>4. CASE slot.todo # <<>>
  <2> DEFINE m == Head(slot.todo)
             rest == Tail(slot.todo)
             pc == IF m \in slot.resident \ Resident THEN "load" ELSE "reload"
             s2 == [slot EXCEPT !.todo = rest, !.model = m, !.pc = pc]
  <2>1. slot' = s2 /\ last' = last
    BY <1>4 DEF Reload
  <2>2. m \in Names /\ rest \in Seq(Names) /\ Range(slot.todo) = {m} \cup Range(rest)
    <3>1. m \in Names /\ rest \in Seq(Names)
      BY <1>1, <1>4, HeadTailProperties
    <3>2. /\ Len(slot.todo) \in Nat /\ DOMAIN slot.todo = 1..Len(slot.todo)
          /\ DOMAIN rest = 1..(Len(slot.todo) - 1) /\ m = slot.todo[1] /\ Len(slot.todo) # 0
          /\ \A i \in 1..(Len(slot.todo) - 1) : rest[i] = slot.todo[i + 1]
      BY <1>1, <1>4, HeadTailProperties
    <3> HIDE DEF m, rest
    <3>3. ASSUME NEW i \in DOMAIN slot.todo PROVE slot.todo[i] \in {m} \cup Range(rest)
      <4>1. CASE i = 1
        BY <3>2, <4>1
      <4>2. CASE i # 1
        <5>1. i - 1 \in DOMAIN rest /\ rest[i - 1] = slot.todo[i]
          BY <3>2, <4>2
        <5> QED BY <5>1 DEF Range
      <4> QED BY <4>1, <4>2
    <3>4. \A i \in DOMAIN rest : i + 1 \in DOMAIN slot.todo /\ rest[i] = slot.todo[i + 1]
      BY <3>2
    <3>5. 1 \in DOMAIN slot.todo
      BY <3>2
    <3>6. Range(slot.todo) \subseteq {m} \cup Range(rest)
      BY <3>3 DEF Range
    <3>7. \A i \in DOMAIN rest : rest[i] \in Range(slot.todo)
      BY <3>4 DEF Range
    <3>8. m \in Range(slot.todo)
      BY <3>2, <3>5 DEF Range
    <3>9. Range(rest) \subseteq Range(slot.todo)
      BY <3>7 DEF Range
    <3> QED BY <3>1, <3>6, <3>8, <3>9
  <2>p. pc \in {"load", "reload"} /\ (pc = "load" <=> m \in slot.resident \ Resident)
    OBVIOUS
  <2> HIDE DEF m, rest, pc
  <2>3. s2 \in Slots
    <3>1. pc \in {"idle", "next", "load", "hook", "pass", "clean", "reload"}
      BY <2>p
    <3> QED BY <1>1, <2>2, <3>1, Zenon DEF Slots
  <2>4. /\ s2.pc = pc /\ s2.kind = slot.kind /\ s2.resident = slot.resident
        /\ s2.model = m /\ s2.todo = rest /\ s2.calm = slot.calm
    BY <1>1 DEF Slots
  <2> HIDE DEF s2
  <2>5. KindOK(s2) /\ ColdOK(s2, Resident)
    BY <1>2, <2>4, <2>p DEF KindOK, ColdOK
  <2>6. BehindOK(s2, Resident)
    BY <1>1, <1>2, <2>4, <2>p DEF SlotOK, BehindOK, Extra
  <2>7. WarmOK(s2, Resident)
    BY <1>2, <2>2, <2>4, <2>p DEF WarmOK, Undone
  <2>8. SlotInv'
    BY <1>0, <1>1, <2>1, <2>4, <2>p, <2>5, <2>6, <2>7, SlotInvNext DEF SlotOK
  <2>9. TypeOK'
    BY <1>0, <1>1, <2>1, <2>3, TypedNext, Typed
  <2> QED BY <1>0, <1>1, <2>1, <2>8, <2>9, EndKept DEF Inv
<1> QED BY <1>3, <1>4

----------------------------------------------------------------------------
(* Calls outside the slot.                                                 *)

LEMMA BeginStep ==
    ASSUME Inv, NEW t \in Callers, NEW pc \in {"load", "unload"}, NEW names \in SUBSET Names,
           Begin(t, pc, names)
    PROVE  Inv'
<1>0. /\ UNCHANGED <<loaded, built, quantized, slot, sample, last>> /\ calls < MaxCalls /\ calls' = calls + 1
      /\ caller' = [caller EXCEPT ![t] = [IdleCaller EXCEPT !.pc = pc, !.todo = names]]
  BY DEF Begin
<1>1. /\ TypeOK /\ EndInv /\ SlotInv
  BY DEF Inv
<1>2. [IdleCaller EXCEPT !.pc = pc, !.todo = names] \in Outsiders
  BY IdleType, Zenon DEF Outsiders
<1>3. caller' \in [Callers -> Outsiders] /\ calls' \in 0..MaxCalls
  BY <1>0, <1>1, <1>2, BoundsAssumption DEF TypeOK
<1>4. TypeOK'
  BY <1>0, <1>1, <1>3, TypedNext, Typed
<1>5. SlotInv'
  BY <1>0, <1>1 DEF SlotInv, RunsOnPrepared, Resident
<1> QED BY <1>0, <1>1, <1>4, <1>5, EndKept DEF Inv

\* Whatever happens to the Router, the slot thread notices that it was disturbed.
LEMMA Disturbed ==
    ASSUME TypeOK, SlotOK(slot, Resident), Disturb, NEW res
    PROVE  /\ slot' \in Slots /\ SlotOK(slot', res)
           /\ slot'.pc = slot.pc /\ slot'.agent = slot.agent
<1> DEFINE s2 == [slot EXCEPT !.calm = FALSE, !.still = FALSE]
<1>0. slot \in Slots /\ slot' = s2
  BY DEF TypeOK, Disturb
<1>1. s2 \in Slots
  BY <1>0, Zenon DEF Slots
<1>2. /\ s2.pc = slot.pc /\ s2.kind = slot.kind /\ s2.resident = slot.resident
      /\ s2.model = slot.model /\ s2.agent = slot.agent /\ ~s2.calm /\ ~s2.still
  BY <1>0 DEF Slots
<1> HIDE DEF s2
<1>3. SlotOK(s2, res)
  BY <1>2 DEF SlotOK, KindOK, ColdOK, BehindOK, WarmOK
<1> QED BY <1>0, <1>1, <1>2, <1>3

LEMMA DisturbStep ==
    ASSUME Inv, Disturb, RouterOK(loaded'), built' \in [Names -> 0..MaxAgents],
           caller' \in [Callers -> Outsiders], UNCHANGED <<quantized, calls, sample, last>>
    PROVE  Inv'
<1>1. TypeOK /\ EndInv /\ SlotOK(slot, Resident) /\ RunsOnPrepared
  BY DEF Inv, SlotInv
<1>2. /\ slot' \in Slots /\ SlotOK(slot', ModelsOf(loaded'))
      /\ slot'.pc = slot.pc /\ slot'.agent = slot.agent
  BY <1>1, Disturbed
<1>3. SlotInv'
  BY <1>1, <1>2, SlotInvNext DEF RunsOnPrepared
<1>4. TypeOK'
  BY <1>1, <1>2, TypedNext, Typed
<1> QED BY <1>1, <1>3, <1>4, EndKept DEF Inv

LEMMA CallerStep ==
    ASSUME Inv, NEW t \in Callers, CallerLoads(t) \/ CallerLoadRaises(t) \/ CallerUnloads(t)
    PROVE  Inv'
<1>0. /\ TypeOK /\ caller[t] \in Outsiders /\ caller[t].todo \subseteq Names
      /\ RouterOK(loaded) /\ Resident = ModelsOf(loaded)
  BY TypedNow DEF Inv, TypeOK, Outsiders
<1>1. CASE CallerLoads(t)
  <2>1. PICK m \in caller[t].todo :
          /\ RouterLoad(m)
          /\ caller' = [caller EXCEPT ![t] = [pc |-> "hook", todo |-> caller[t].todo \ {m}, agent |-> Loaded(m)]]
    BY <1>1 DEF CallerLoads
  <2>2. RouterOK(loaded') /\ built' \in [Names -> 0..MaxAgents] /\ Loaded(m) \in Agents
    BY <1>0, <2>1, LoadOK
  <2>3. [pc |-> "hook", todo |-> caller[t].todo \ {m}, agent |-> Loaded(m)] \in Outsiders
    BY <1>0, <2>2 DEF Outsiders
  <2>4. caller' \in [Callers -> Outsiders]
    BY <1>0, <2>1, <2>3 DEF TypeOK
  <2> QED BY <1>1, <2>2, <2>4, DisturbStep DEF CallerLoads
<1>2. CASE CallerLoadRaises(t)
  <2>1. RouterOK(loaded')
    BY <1>0, <1>2, RoomMade DEF CallerLoadRaises
  <2>2. caller' \in [Callers -> Outsiders] /\ built' = built
    BY <1>0, <1>2, IdleType DEF CallerLoadRaises, TypeOK
  <2> QED BY <1>0, <1>2, <2>1, <2>2, DisturbStep DEF CallerLoadRaises, TypeOK
<1>3. CASE CallerUnloads(t)
  <2>1. PICK m \in caller[t].todo :
          /\ loaded' = Without(m)
          /\ caller' = [caller EXCEPT ![t] = IF caller[t].todo = {m} THEN IdleCaller
                                             ELSE [caller[t] EXCEPT !.todo = caller[t].todo \ {m}]]
    BY <1>3 DEF CallerUnloads
  <2>2. RouterOK(loaded')
    BY <1>0, <2>1, WithoutOK
  <2>3. [caller[t] EXCEPT !.todo = caller[t].todo \ {m}] \in Outsiders
    BY <1>0 DEF Outsiders
  <2>4. caller' \in [Callers -> Outsiders]
    BY <1>0, <2>1, <2>3, IdleType DEF TypeOK
  <2> QED BY <1>0, <1>3, <2>2, <2>4, DisturbStep DEF CallerUnloads, TypeOK
<1> QED BY <1>1, <1>2, <1>3

LEMMA CallerHookStep ==
    ASSUME Inv, NEW t \in Callers, CallerHook(t)
    PROVE  Inv'
<1>0. /\ UNCHANGED <<loaded, built, slot, calls, sample, last>> /\ AfterLoad(caller[t].agent)
      /\ caller' = [caller EXCEPT ![t] = IF caller[t].todo = {} THEN IdleCaller
                                         ELSE [caller[t] EXCEPT !.pc = "load", !.agent = IdleSlot.agent]]
  BY DEF CallerHook
<1>1. /\ TypeOK /\ EndInv /\ SlotInv /\ caller[t] \in Outsiders /\ caller[t].agent \in Agents
      /\ slot.agent \in Agents
  BY DEF Inv, TypeOK, Outsiders, Slots
<1>2. quantized' \in [Agents -> 0..1] /\ \A b \in Agents : quantized[b] = 1 => quantized'[b] = 1
  BY <1>0, <1>1, AfterLoadOK
<1>3. [caller[t] EXCEPT !.pc = "load", !.agent = IdleSlot.agent] \in Outsiders
  <2>1. ASSUME NEW ag \in Agents PROVE [caller[t] EXCEPT !.pc = "load", !.agent = ag] \in Outsiders
    BY <1>1, Zenon DEF Outsiders
  <2> QED BY <2>1, IdleType
<1>4. caller' \in [Callers -> Outsiders]
  BY <1>0, <1>1, <1>3, IdleType DEF TypeOK
<1>5. TypeOK'
  BY <1>0, <1>1, <1>2, <1>4, TypedNext, Typed
<1>6. SlotInv'
  BY <1>0, <1>1, <1>2 DEF SlotInv, RunsOnPrepared, Resident
<1> QED BY <1>0, <1>1, <1>5, <1>6, EndKept DEF Inv

LEMMA CallerPrepareRaisesStep ==
    ASSUME Inv, NEW t \in Callers, CallerPrepareRaises(t)
    PROVE  Inv'
<1>0. /\ UNCHANGED <<loaded, built, quantized, slot, sample, last>>
      /\ caller' = [caller EXCEPT ![t] = IdleCaller]
  BY DEF CallerPrepareRaises
<1>1. TypeOK /\ EndInv /\ SlotInv
  BY DEF Inv
<1>2. caller' \in [Callers -> Outsiders]
  BY <1>0, <1>1, IdleType DEF TypeOK
<1>c. calls' \in 0..MaxCalls
  BY <1>1, BoundsAssumption DEF CallerPrepareRaises, TypeOK
<1>3. TypeOK'
  BY <1>0, <1>1, <1>2, <1>c, TypedNext, Typed
<1>4. SlotInv'
  BY <1>0, <1>1 DEF SlotInv, RunsOnPrepared, Resident
<1> QED BY <1>0, <1>1, <1>3, <1>4, EndKept DEF Inv

----------------------------------------------------------------------------
(* The theorems.                                                           *)

LEMMA InvInit == Init => Inv
<1> SUFFICES ASSUME Init PROVE Inv
  OBVIOUS
<1>1. Kept \in Seq(Names) /\ Len(Kept) <= MaxLoaded /\ Distinct(Kept)
  <2>1. Preload \in Seq(Names) /\ Len(Preload) \in Nat /\ DOMAIN Preload = 1..Len(Preload) /\ Distinct(Preload)
    BY PreloadAssumption
  <2>2. CASE Len(Preload) > MaxLoaded
    <3> DEFINE n == Len(Preload)
               k == n - MaxLoaded + 1
    <3>1. Kept = SubSeq(Preload, k, n) /\ k \in 1..n /\ n \in Nat
      BY <2>1, <2>2, BoundsAssumption DEF Kept
    <3>2. /\ Kept \in Seq(Names) /\ Len(Kept) = MaxLoaded /\ DOMAIN Kept = 1..MaxLoaded
          /\ \A i \in 1..MaxLoaded : Kept[i] = Preload[k + i - 1] /\ k + i - 1 \in 1..n
      BY <2>1, <2>2, <3>1, BoundsAssumption, SubSeqProperties
    <3> HIDE DEF n, k
    <3>4. \A i, j \in 1..MaxLoaded : k + i - 1 = k + j - 1 => i = j
      BY <3>1
    <3>5. \A i, j \in 1..MaxLoaded : Kept[i] = Kept[j] => k + i - 1 = k + j - 1
      BY <2>1, <3>2 DEF Distinct, n
    <3>6. \A i, j \in 1..MaxLoaded : Kept[i] = Kept[j] => i = j
      BY <3>4, <3>5
    <3> QED BY <3>2, <3>6, BoundsAssumption DEF Distinct
  <2>3. CASE ~(Len(Preload) > MaxLoaded)
    BY <2>1, <2>3, BoundsAssumption DEF Kept
  <2> QED BY <2>2, <2>3
<1>2. RouterOK(loaded)
  <2>1. DOMAIN Kept = 1..Len(Kept) /\ Len(Kept) \in Nat /\ \A i \in 1..Len(Kept) : Kept[i] \in Names
    BY <1>1
  <2>2. loaded = [i \in 1..Len(Kept) |-> [model |-> Kept[i], gen |-> 1]]
    BY <2>1 DEF Init
  <2>3. \A i \in 1..Len(Kept) : loaded[i] \in Agents /\ loaded[i].model = Kept[i]
    BY <2>1, <2>2, BoundsAssumption DEF Agents
  <2>4. loaded \in Seq(Agents) /\ Len(loaded) = Len(Kept) /\ DOMAIN loaded = 1..Len(Kept)
    <3>1. loaded \in [1..Len(Kept) -> Agents]
      BY <2>2, <2>3
    <3> QED BY <2>1, <3>1, IsASeq
  <2> QED BY <1>1, <2>1, <2>3, <2>4 DEF RouterOK, Distinct
<1>3. built \in [Names -> 0..MaxAgents] /\ quantized \in [Agents -> 0..1] /\ calls \in 0..MaxCalls
  BY BoundsAssumption DEF Init
<1>4. slot = IdleSlot /\ caller \in [Callers -> Outsiders]
  BY IdleType DEF Init
<1>5. /\ sample \in [cold : BOOLEAN, still : BOOLEAN]
      /\ last \in [end : {"none", "completed", "cancelled", "raised"}, before : SUBSET Names,
                   after : SUBSET Names, calm : BOOLEAN]
  BY DEF Init, NoSample, NoneEnded
<1>6. TypeOK
  BY <1>2, <1>3, <1>4, <1>5, IdleType, Typed
<1>7. SlotInv
  BY <1>4, IdleType, IdleOK DEF SlotInv, RunsOnPrepared
<1>8. EndInv
  BY DEF Init, NoSample, NoneEnded, EndInv, NothingLeftBehind, PreloadedWarm, SampledWarm
<1> QED BY <1>6, <1>7, <1>8 DEF Inv

LEMMA InvStep == Inv /\ [Next]_vars => Inv'
<1> SUFFICES ASSUME Inv, [Next]_vars PROVE Inv'
  OBVIOUS
<1>1. CASE UNCHANGED vars
  BY <1>1 DEF vars, Inv, TypeOK, SlotInv, EndInv, Resident, RunsOnPrepared, NothingLeftBehind,
              PreloadedWarm, SampledWarm
<1>2. CASE Slot
  BY <1>2, PredictStep, CompareStep, GiveUpStep, NextModelStep, SlotLoadsStep, SlotHookStep,
     PassStep, LoadRaisesStep, PrepareRaisesStep, CleanStep, BeginReloadStep, ReloadStep DEF Slot
<1>3. ASSUME NEW t \in Callers, Outside(t) PROVE Inv'
  <2>1. CASE Load(t) \/ Unload(t) \/ Validate(t)
    <3>1. \A m \in Resident : {m} \in SUBSET Names
      BY TypedNow DEF Inv
    <3> QED BY <2>1, <3>1, BeginStep DEF Load, Unload, Validate
  <2>2. CASE ~(Load(t) \/ Unload(t) \/ Validate(t))
    BY <1>3, <2>2, CallerStep, CallerHookStep, CallerPrepareRaisesStep DEF Outside
  <2> QED BY <2>1, <2>2
<1> QED BY <1>1, <1>2, <1>3 DEF Next

LEMMA InvAlways == Spec => []Inv
  BY InvInit, InvStep, PTL DEF Spec

\* Never are more agents resident than max_loaded, nor two of one checkpoint, and
\* no agent is prepared twice (_after_load).
THEOREM TypeCorrect == Spec => []TypeOK
<1>1. Inv => TypeOK
  BY DEF Inv
<1> QED BY <1>1, InvAlways, PTL

\* Every forward pass runs on an agent that was prepared exactly once, however
\* many threads load and unload checkpoints meanwhile (_install_load_hook).
THEOREM PassesArePrepared == Spec => []RunsOnPrepared
<1>1. Inv => RunsOnPrepared
  BY DEF Inv, SlotInv
<1> QED BY <1>1, InvAlways, PTL

\* An undisturbed comparison leaves nothing in memory that was not there before
\* (the finally clause of _compare).
THEOREM ComparisonCleansUp == Spec => []NothingLeftBehind
<1>1. Inv => NothingLeftBehind
  BY DEF Inv, EndInv
<1> QED BY <1>1, InvAlways, PTL

\* An undisturbed comparison that completes has every preloaded checkpoint back
\* that was resident before, for every cap: reloading them never evicts one
\* (the reloading loop of _compare).
THEOREM ComparisonRewarms == Spec => []PreloadedWarm
<1>1. Inv => PreloadedWarm
  BY DEF Inv, EndInv
<1> QED BY <1>1, InvAlways, PTL

\* The average time per row takes in a cold pass only when another thread took
\* the checkpoint away after _forward looked (_forward, _record).
THEOREM SamplesAreWarm == Spec => []SampledWarm
<1>1. Inv => SampledWarm
  BY DEF Inv, EndInv
<1> QED BY <1>1, InvAlways, PTL
=============================================================================
