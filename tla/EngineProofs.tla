---------------------------- MODULE EngineProofs ----------------------------
(***************************************************************************)
(* Proofs about Engine, for any number of calls, batch threads, states and *)
(* any setting of max_waiting_requests.                                    *)
(***************************************************************************)
EXTENDS Engine, FiniteSetTheorems, TLAPS

----------------------------------------------------------------------------
(* Type correctness.                                                       *)

\* Waking the sleepers keeps the program counters in range.
LEMMA WokenType ==
    /\ \A f \in [Requests -> ThreadPCs] : Woken(f) \in [Requests -> ThreadPCs]
    /\ \A f \in [Batchers -> BatchPCs] : Woken(f) \in [Batchers -> BatchPCs]
  BY DEF Woken, ThreadPCs, BatchPCs

\* Handing the asyncio.Lock on keeps its queue a sequence of calls.
LEMMA UnlockedType ==
    ASSUME lockq \in Seq(Requests), NEW r \in Requests
    PROVE  Unlocked(r) \in Seq(Requests)
<1> DEFINE k == CHOOSE x \in DOMAIN lockq : lockq[x] = r
           n == Len(lockq) - 1
<1>1. CASE Len(lockq) = 0
  <2>1. 1..n = 1..0 BY <1>1
  <2>2. Unlocked(r) = [x \in 1..0 |-> IF x < k THEN lockq[x] ELSE lockq[x + 1]]
    BY <2>1 DEF Unlocked
  <2> QED BY <2>2
<1>2. CASE Len(lockq) # 0
  <2>1. n \in Nat BY <1>2
  <2>2. \A x \in 1..n : lockq[x] \in Requests /\ lockq[x + 1] \in Requests
    OBVIOUS
  <2>3. \A x \in 1..n : (IF x < k THEN lockq[x] ELSE lockq[x + 1]) \in Requests
    BY <2>2
  <2>4. Unlocked(r) \in [1..n -> Requests]
    BY <2>3 DEF Unlocked
  <2> QED BY <2>1, <2>4
<1> QED BY <1>1, <1>2

\* _finish keeps the types of what it writes.
LEMMA FinishType ==
    ASSUME TypeOK, NEW r \in Requests, NEW c \in BOOLEAN, Finish(r, c)
    PROVE  /\ waiting' \in Int /\ queuedRows' \in Int
           /\ ticket' \in [Requests -> Tickets]
           /\ bat' \in [Batchers -> BatchPCs]
<1> USE DEF TypeOK
<1>1. waiting' \in Int
  BY DEF Finish, WaitingAfter
<1>2. ticket[r] \in Tickets
  OBVIOUS
<1>3. queuedRows' \in Int
  BY <1>2 DEF Finish, Tickets
<1>5. ticket' \in [Requests -> Tickets]
  BY <1>2 DEF Finish, Tickets
<1>6. bat' \in [Batchers -> BatchPCs]
  BY WokenType DEF Finish
<1> QED BY <1>1, <1>3, <1>5, <1>6

\* The strengthening that makes TypeOK inductive: a thread in a pass, or a batch
\* thread on its way to one, has a state left to predict.
Budget ==
    /\ \A r \in Requests : thr[r] = "pass" => left[r] > 0
    /\ \A b \in Batchers : bat[b] \in {"acquire", "asleep", "pass"} => batchLeft[b] > 0

\* What taking the slot does to the threads: some wake, r moves on, nobody else does.
LEMMA AcquireShape ==
    ASSUME TypeOK, NEW r \in Requests, AcquireInteractive(r)
    PROVE  /\ \A q \in Requests \ {r} : thr'[q] # thr[q] => thr[q] = "asleep" /\ thr'[q] = "acquire"
           /\ thr[r] = "acquire"
           /\ thr'[r] = IF closed \/ ticket[r].cancelled THEN "done" ELSE "check"
           /\ \A b \in Batchers : bat'[b] # bat[b] => bat[b] = "asleep" /\ bat'[b] = "acquire"
<1> DEFINE pcs == IF ticket[r].waiting THEN Woken(thr) ELSE thr
           pc == IF closed \/ ticket[r].cancelled THEN "done" ELSE "check"
<1>1. thr' = [pcs EXCEPT ![r] = pc] /\ thr[r] = "acquire"
  BY DEF AcquireInteractive
<1>2. bat' = IF ticket[r].waiting THEN Woken(bat) ELSE bat
  BY DEF AcquireInteractive
<1>3. thr \in [Requests -> ThreadPCs] /\ bat \in [Batchers -> BatchPCs]
  BY DEF TypeOK
<1>4. DOMAIN pcs = Requests
  BY <1>3 DEF Woken
<1>5. \A q \in Requests : pcs[q] # thr[q] => thr[q] = "asleep" /\ pcs[q] = "acquire"
  BY <1>3 DEF Woken
<1>6. \A b \in Batchers : bat'[b] # bat[b] => bat[b] = "asleep" /\ bat'[b] = "acquire"
  BY <1>2, <1>3 DEF Woken
<1> HIDE DEF pcs, pc
<1>7. thr'[r] = pc /\ \A q \in Requests \ {r} : thr'[q] = pcs[q]
  BY <1>1, <1>4
<1> QED BY <1>1, <1>5, <1>6, <1>7 DEF pc

\* What a call that ends does to the threads: some wake, r's own may be dropped
\* from the executor's queue, and nobody enters or leaves the slot.
LEMMA EndShape ==
    ASSUME TypeOK, NEW r \in Requests, Return(r) \/ Unwind(r)
    PROVE  /\ \A q \in Requests : thr'[q] \in Holding <=> thr[q] \in Holding
           /\ \A b \in Batchers : bat'[b] \in Holding <=> bat[b] \in Holding
           /\ running' = running
<1>1. bat' = Woken(bat) /\ running' = running
  BY Zenon DEF Return, Unwind, Finish
<1>2. thr \in [Requests -> ThreadPCs] /\ bat \in [Batchers -> BatchPCs]
  BY DEF TypeOK
<1>3. \A q \in Requests : Woken(thr)[q] \in Holding <=> thr[q] \in Holding
  BY <1>2 DEF Woken, Holding
<1>4. \A b \in Batchers : bat'[b] \in Holding <=> bat[b] \in Holding
  BY <1>1, <1>2 DEF Woken, Holding
<1>5. CASE thr' = Woken(thr)
  BY <1>1, <1>3, <1>4, <1>5
<1>6. CASE thr' = [Woken(thr) EXCEPT ![r] = IF Woken(thr)[r] = "pending" THEN "none" ELSE Woken(thr)[r]]
  <2>1. DOMAIN Woken(thr) = Requests
    BY <1>2 DEF Woken
  <2>2. \A q \in Requests : thr'[q] = Woken(thr)[q] \/ (Woken(thr)[q] = "pending" /\ thr'[q] = "none")
    BY <1>6, <2>1
  <2>3. \A q \in Requests : thr'[q] \in Holding <=> Woken(thr)[q] \in Holding
    BY <2>2 DEF Holding
  <2> QED BY <1>1, <1>3, <1>4, <2>3
<1> QED BY <1>5, <1>6 DEF Return, Unwind

LEMMA BudgetInit == Init => Budget
  BY DEF Init, Budget

LEMMA BudgetStep == TypeOK /\ Budget /\ [Next]_vars => Budget'
<1> SUFFICES ASSUME TypeOK, Budget, [Next]_vars PROVE Budget'
  OBVIOUS
<1> USE DEF TypeOK, Budget, batchVars, stopVars, loopVars, Woken
<1>1. ASSUME NEW r \in Requests, NEW n \in 1..MaxStates, Admit(r, n) PROVE Budget'
  BY <1>1 DEF Admit
<1>2. ASSUME NEW r \in Requests, Refuse(r) \/ Expire(r) \/ GetLock(r) PROVE Budget'
  BY <1>2 DEF Refuse, Expire, GetLock
<1>3. ASSUME NEW r \in Requests, Return(r) \/ Unwind(r) PROVE Budget'
  BY <1>3 DEF Return, Unwind, Finish
<1>4. ASSUME NEW r \in Requests, StartThread(r) \/ SleepInteractive(r) PROVE Budget'
  BY <1>4 DEF StartThread, SleepInteractive
<1>5. ASSUME NEW r \in Requests, AcquireInteractive(r) PROVE Budget'
  <2> HIDE DEF TypeOK, Woken, Budget
  <2>1. \A q \in Requests : thr'[q] = "pass" => thr[q] = "pass"
    BY <1>5, AcquireShape
  <2>2. \A b \in Batchers : bat'[b] # bat[b] => bat[b] = "asleep"
    BY <1>5, AcquireShape
  <2>3. left' = left /\ batchLeft' = batchLeft
    BY <1>5 DEF AcquireInteractive
  <2> QED BY <2>1, <2>2, <2>3 DEF Budget
<1>6. ASSUME NEW r \in Requests, NextState(r) \/ PassRaises(r) PROVE Budget'
  BY <1>6 DEF NextState, PassRaises
<1>7. ASSUME NEW r \in Requests, PassReturns(r) \/ ReleaseInteractive(r) PROVE Budget'
  BY <1>7 DEF PassReturns, ReleaseInteractive
<1>8. ASSUME NEW b \in Batchers, BatchCall(b) \/ SleepBatch(b) \/ AcquireBatch(b) PROVE Budget'
  BY <1>8 DEF BatchCall, SleepBatch, AcquireBatch
<1>9. ASSUME NEW b \in Batchers, BatchPassEnds(b) \/ ReleaseBatch(b) PROVE Budget'
  BY <1>9 DEF BatchPassEnds, ReleaseBatch
<1>10. ASSUME Close \/ Unload PROVE Budget'
  BY <1>10 DEF Close, Unload
<1>11. ASSUME UNCHANGED vars PROVE Budget'
  BY <1>11 DEF vars
<1> QED
  BY <1>1, <1>2, <1>3, <1>4, <1>5, <1>6, <1>7, <1>8, <1>9, <1>10, <1>11
  DEF Next, Loop, Thread, Batch

\* Every variable keeps its type.
THEOREM TypeCorrect == Spec => []TypeOK
<1>1. Init => TypeOK
  <2> SUFFICES ASSUME Init PROVE TypeOK
    OBVIOUS
  <2>1. NoTicket \in Tickets
    BY DEF NoTicket, Tickets
  <2>2. ticket \in [Requests -> Tickets]
    BY <2>1 DEF Init
  <2>3. lockq \in Seq(Requests) /\ admitted \in Seq(Requests)
    BY DEF Init
  <2>4. batchLeft \in [Batchers -> 0..MaxBatch] /\ left \in [Requests -> 0..MaxStates]
    BY BoundsAssumption DEF Init
  <2>5. call \in [Requests -> CallPCs] /\ thr \in [Requests -> ThreadPCs]
        /\ bat \in [Batchers -> BatchPCs] /\ result \in [Requests -> {"none", "ok", "raised"}]
    BY DEF Init, CallPCs, ThreadPCs, BatchPCs
  <2>6. running \in BOOLEAN /\ closed \in BOOLEAN /\ overran \in BOOLEAN
    BY Zenon DEF Init
  <2>7. waiting \in Int /\ queuedRows \in Int /\ stop \in {"open", "draining", "stopped"}
    BY DEF Init
  <2> QED
    BY <2>2, <2>3, <2>4, <2>5, <2>6, <2>7 DEF TypeOK
<1>2. TypeOK /\ Budget /\ [Next]_vars => TypeOK'
  <2> SUFFICES ASSUME TypeOK, Budget, [Next]_vars PROVE TypeOK'
    OBVIOUS
  <2> USE BoundsAssumption DEF TypeOK, batchVars, stopVars, loopVars
  <2>1. ASSUME NEW r \in Requests, NEW n \in 1..MaxStates, Admit(r, n) PROVE TypeOK'
    <3>1. [waiting |-> TRUE, cancelled |-> FALSE, finished |-> FALSE, rows |-> n] \in Tickets
      BY DEF Tickets
    <3> QED BY <2>1, <3>1 DEF Admit, CallPCs
  <2>2. ASSUME NEW r \in Requests, Refuse(r) PROVE TypeOK'
    BY <2>2 DEF Refuse, CallPCs
  <2>3. ASSUME NEW r \in Requests, Expire(r) PROVE TypeOK'
    BY <2>3 DEF Expire, CallPCs
  <2>4. ASSUME NEW r \in Requests, GetLock(r) PROVE TypeOK'
    BY <2>4 DEF GetLock, CallPCs, ThreadPCs
  <2>5. ASSUME NEW r \in Requests, Return(r) PROVE TypeOK'
    BY <2>5, WokenType, UnlockedType, FinishType, (result[r] # "ok") \in BOOLEAN DEF Return, CallPCs
  <2>6. ASSUME NEW r \in Requests, Unwind(r) PROVE TypeOK'
    <3>1. Woken(thr) \in [Requests -> ThreadPCs] BY WokenType
    <3>2. [Woken(thr) EXCEPT ![r] = IF @ = "pending" THEN "none" ELSE @] \in [Requests -> ThreadPCs]
      BY <3>1 DEF ThreadPCs
    <3> QED BY <2>6, <3>2, UnlockedType, FinishType, TRUE \in BOOLEAN DEF Unwind, CallPCs
  <2>7. ASSUME NEW r \in Requests, StartThread(r) PROVE TypeOK'
    BY <2>7 DEF StartThread, ThreadPCs
  <2>8. ASSUME NEW r \in Requests, SleepInteractive(r) PROVE TypeOK'
    BY <2>8 DEF SleepInteractive, ThreadPCs
  <2>9. ASSUME NEW r \in Requests, AcquireInteractive(r) PROVE TypeOK'
    <3>1. Woken(thr) \in [Requests -> ThreadPCs] /\ Woken(bat) \in [Batchers -> BatchPCs]
      BY WokenType
    <3>2. thr' \in [Requests -> ThreadPCs] /\ running' \in BOOLEAN
          /\ result' \in [Requests -> {"none", "ok", "raised"}]
      BY <2>9, <3>1 DEF AcquireInteractive, ThreadPCs
    <3>3. ticket' \in [Requests -> Tickets]
      <4>1. ticket[r] \in Tickets
        BY <2>9
      <4>2. [ticket[r] EXCEPT !.waiting = FALSE] \in Tickets
        BY <4>1 DEF Tickets
      <4>3. ticket' = [ticket EXCEPT ![r] = [ticket[r] EXCEPT !.waiting = FALSE]]
        BY <2>9 DEF AcquireInteractive
      <4> QED BY <4>2, <4>3
    <3>4. waiting' \in Int /\ bat' \in [Batchers -> BatchPCs]
      BY <2>9, <3>1 DEF AcquireInteractive, WaitingAfter
    <3> QED BY <2>9, <3>2, <3>3, <3>4 DEF AcquireInteractive
  <2>10. ASSUME NEW r \in Requests, NextState(r) PROVE TypeOK'
    BY <2>10 DEF NextState, ThreadPCs
  <2>11. ASSUME NEW r \in Requests, PassReturns(r) PROVE TypeOK'
    BY <2>11 DEF PassReturns, ThreadPCs, Budget
  <2>12. ASSUME NEW r \in Requests, PassRaises(r) PROVE TypeOK'
    BY <2>12 DEF PassRaises, ThreadPCs
  <2>13. ASSUME NEW r \in Requests, ReleaseInteractive(r) PROVE TypeOK'
    BY <2>13, WokenType DEF ReleaseInteractive, ThreadPCs
  <2>14. ASSUME NEW b \in Batchers, BatchCall(b) PROVE TypeOK'
    BY <2>14 DEF BatchCall, BatchPCs
  <2>15. ASSUME NEW b \in Batchers, SleepBatch(b) PROVE TypeOK'
    BY <2>15 DEF SleepBatch, BatchPCs
  <2>16. ASSUME NEW b \in Batchers, AcquireBatch(b) PROVE TypeOK'
    BY <2>16 DEF AcquireBatch, BatchPCs
  <2>17. ASSUME NEW b \in Batchers, BatchPassEnds(b) PROVE TypeOK'
    BY <2>17 DEF BatchPassEnds, BatchPCs, Budget
  <2>18. ASSUME NEW b \in Batchers, ReleaseBatch(b) PROVE TypeOK'
    BY <2>18, WokenType DEF ReleaseBatch, BatchPCs
  <2>19. ASSUME Close PROVE TypeOK'
    BY <2>19, WokenType DEF Close
  <2>20. ASSUME Unload PROVE TypeOK'
    BY <2>20 DEF Unload
  <2>21. ASSUME UNCHANGED vars PROVE TypeOK'
    BY <2>21 DEF vars
  <2> QED
    BY <2>1, <2>2, <2>3, <2>4, <2>5, <2>6, <2>7, <2>8, <2>9, <2>10, <2>11, <2>12, <2>13,
       <2>14, <2>15, <2>16, <2>17, <2>18, <2>19, <2>20, <2>21
    DEF Next, Loop, Thread, Batch
<1> QED BY <1>1, <1>2, BudgetInit, BudgetStep, PTL DEF Spec

----------------------------------------------------------------------------
(* How a call's coroutine, its ticket and its thread go together.          *)

\* A call that has not got the lock has no thread, one that has not come has no
\* waiting ticket, and the ticket of one that timed out is cancelled.
CallInv ==
    \A r \in Requests :
        /\ call[r] \in {"new", "queued"} => thr[r] = "none"
        /\ call[r] = "new" => ~ticket[r].waiting
        /\ call[r] = "timeout" => ticket[r].cancelled

\* A step that moves no coroutine, starts no thread and cancels no ticket.
LEMMA CallFrame ==
    ASSUME CallInv, call' = call,
           \A r \in Requests : /\ thr[r] = "none" => thr'[r] = "none"
                               /\ ticket'[r].waiting => ticket[r].waiting
                               /\ ticket[r].cancelled => ticket'[r].cancelled
    PROVE  CallInv'
  BY DEF CallInv

LEMMA CallStep == TypeOK /\ CallInv /\ [Next]_vars => CallInv'
<1> SUFFICES ASSUME TypeOK, CallInv, [Next]_vars PROVE CallInv'
  OBVIOUS
<1> USE DEF TypeOK, batchVars, stopVars, loopVars, Woken
<1>1. ASSUME NEW r \in Requests, NEW n \in 1..MaxStates, Admit(r, n) PROVE CallInv'
  BY <1>1 DEF Admit, CallInv
<1>2. ASSUME NEW r \in Requests, Refuse(r) PROVE CallInv'
  BY <1>2 DEF Refuse, CallInv, CallPCs
<1>3. ASSUME NEW r \in Requests, Expire(r) \/ GetLock(r) PROVE CallInv'
  BY <1>3 DEF Expire, GetLock, CallInv, CallPCs
<1>4. ASSUME NEW r \in Requests, Return(r) \/ Unwind(r) PROVE CallInv'
  <2>1. \A q \in Requests \ {r} : call'[q] = call[q] /\ (thr[q] = "none" => thr'[q] = "none")
    BY <1>4 DEF Return, Unwind
  <2>2. \A q \in Requests \ {r} : ticket'[q] = ticket[q]
    BY <1>4 DEF Return, Unwind, Finish
  <2>3. CASE Return(r)
    <3>1. call'[r] \in {"answered", "error"}
      BY <2>3 DEF Return
    <3> QED BY <2>1, <2>2, <3>1 DEF CallInv
  <2>4. CASE Unwind(r)
    <3>1. call'[r] = "timeout"
      BY <2>4 DEF Unwind
    <3>2. ticket'[r].cancelled
      BY <2>4 DEF Unwind, Finish, Tickets
    <3> QED BY <2>1, <2>2, <3>1, <3>2 DEF CallInv
  <2> QED BY <1>4, <2>3, <2>4
<1>5. ASSUME NEW r \in Requests, AcquireInteractive(r) PROVE CallInv'
  <2>1. \A q \in Requests : thr[q] = "none" => thr'[q] = "none"
    BY <1>5 DEF AcquireInteractive
  <2>2. \A q \in Requests : /\ ticket'[q].waiting => ticket[q].waiting
                            /\ ticket[q].cancelled => ticket'[q].cancelled
    BY <1>5 DEF AcquireInteractive, Tickets
  <2>3. call' = call
    BY <1>5 DEF AcquireInteractive
  <2> QED BY <2>1, <2>2, <2>3, CallFrame
<1>6. ASSUME NEW r \in Requests, Thread(r), ~AcquireInteractive(r) PROVE CallInv'
  BY <1>6, CallFrame
  DEF Thread, StartThread, SleepInteractive, NextState, PassReturns, PassRaises, ReleaseInteractive
<1>7. ASSUME NEW b \in Batchers, BatchCall(b) \/ Batch(b) PROVE CallInv'
  BY <1>7, CallFrame
  DEF Batch, BatchCall, SleepBatch, AcquireBatch, BatchPassEnds, ReleaseBatch
<1>8. ASSUME Close \/ Unload PROVE CallInv'
  BY <1>8, CallFrame DEF Close, Unload
<1>9. ASSUME UNCHANGED vars PROVE CallInv'
  BY <1>9, CallFrame DEF vars
<1> QED
  BY <1>1, <1>2, <1>3, <1>4, <1>5, <1>6, <1>7, <1>8, <1>9 DEF Next, Loop

LEMMA CallsConsistent == Spec => []CallInv
<1>1. Init => CallInv
  BY DEF Init, CallInv, NoTicket
<1> QED BY <1>1, CallStep, TypeCorrect, PTL DEF Spec

----------------------------------------------------------------------------
(* One forward pass at a time.                                             *)

\* A step that moves no thread into or out of the slot preserves the exclusion.
LEMMA SlotFrame ==
    ASSUME SlotExclusive, running' = running,
           \A r \in Requests : thr'[r] \in Holding <=> thr[r] \in Holding,
           \A b \in Batchers : bat'[b] \in Holding <=> bat[b] \in Holding
    PROVE  SlotExclusive'
  BY DEF SlotExclusive, Holding

LEMMA SlotStep == TypeOK /\ CallInv /\ SlotExclusive /\ [Next]_vars => SlotExclusive'
<1> SUFFICES ASSUME TypeOK, CallInv, SlotExclusive, [Next]_vars PROVE SlotExclusive'
  OBVIOUS
<1> USE DEF TypeOK, batchVars, stopVars, loopVars, Woken, Holding
<1>1. ASSUME NEW r \in Requests, NEW n \in 1..MaxStates, Admit(r, n) PROVE SlotExclusive'
  BY <1>1, SlotFrame DEF Admit
<1>2. ASSUME NEW r \in Requests, Refuse(r) \/ Expire(r) \/ GetLock(r) PROVE SlotExclusive'
  BY <1>2, SlotFrame DEF Refuse, Expire, GetLock, CallInv
<1>3. ASSUME NEW r \in Requests, Return(r) \/ Unwind(r) PROVE SlotExclusive'
  <2> HIDE DEF TypeOK, Woken, Holding
  <2> QED BY <1>3, EndShape, SlotFrame
<1>4. ASSUME NEW r \in Requests, StartThread(r) \/ SleepInteractive(r) PROVE SlotExclusive'
  BY <1>4, SlotFrame DEF StartThread, SleepInteractive
<1>5. ASSUME NEW r \in Requests, AcquireInteractive(r) PROVE SlotExclusive'
  <2>1. CASE closed \/ ticket[r].cancelled
    <3> HIDE DEF TypeOK, Woken
    <3>1. running' = running
      BY <1>5, <2>1 DEF AcquireInteractive
    <3> QED BY <1>5, <2>1, <3>1, AcquireShape, SlotFrame
  <2>2. CASE ~(closed \/ ticket[r].cancelled)
    <3>1. ~running
      BY <1>5, <2>2 DEF AcquireInteractive, MustSleep
    <3>2. /\ \A q \in Requests : thr[q] \notin Holding
          /\ \A b \in Batchers : bat[b] \notin Holding
      BY <3>1 DEF SlotExclusive
    <3>3. /\ running' = TRUE /\ thr'[r] = "check"
          /\ \A q \in Requests \ {r} : thr'[q] \notin Holding
          /\ \A b \in Batchers : bat'[b] \notin Holding
      <4> HIDE DEF TypeOK, Woken
      <4>1. running' = TRUE
        BY <1>5, <2>2 DEF AcquireInteractive
      <4> QED BY <1>5, <2>2, <3>2, <4>1, AcquireShape
    <3> QED BY <3>3 DEF SlotExclusive
  <2> QED BY <2>1, <2>2
<1>6. ASSUME NEW r \in Requests, NextState(r) \/ PassRaises(r) \/ PassReturns(r)
      PROVE SlotExclusive'
  BY <1>6, SlotFrame DEF NextState, PassRaises, PassReturns
<1>7. ASSUME NEW r \in Requests, ReleaseInteractive(r) PROVE SlotExclusive'
  <2>1. /\ \A q \in Requests \ {r} : thr[q] \notin Holding
        /\ \A b \in Batchers : bat[b] \notin Holding
    BY <1>7 DEF ReleaseInteractive, SlotExclusive
  <2>2. /\ running' = FALSE /\ thr'[r] = "done"
        /\ \A q \in Requests \ {r} : thr'[q] \notin Holding
        /\ \A b \in Batchers : bat'[b] \notin Holding
    BY <1>7, <2>1 DEF ReleaseInteractive
  <2> QED BY <2>2 DEF SlotExclusive
<1>8. ASSUME NEW b \in Batchers, BatchCall(b) \/ SleepBatch(b) \/ BatchPassEnds(b)
      PROVE SlotExclusive'
  BY <1>8, SlotFrame DEF BatchCall, SleepBatch, BatchPassEnds
<1>9. ASSUME NEW b \in Batchers, AcquireBatch(b) PROVE SlotExclusive'
  <2>1. CASE closed
    BY <1>9, <2>1, SlotFrame DEF AcquireBatch
  <2>2. CASE ~closed
    <3>1. ~running
      BY <1>9, <2>2 DEF AcquireBatch, BatchMustSleep
    <3>2. /\ \A q \in Requests : thr[q] \notin Holding
          /\ \A a \in Batchers : bat[a] \notin Holding
      BY <3>1 DEF SlotExclusive
    <3>3. /\ running' = TRUE /\ bat'[b] = "pass" /\ thr' = thr
          /\ \A a \in Batchers \ {b} : bat'[a] = bat[a]
      BY <1>9, <2>2 DEF AcquireBatch
    <3> QED BY <3>2, <3>3 DEF SlotExclusive
  <2> QED BY <2>1, <2>2
<1>10. ASSUME NEW b \in Batchers, ReleaseBatch(b) PROVE SlotExclusive'
  <2>1. /\ \A q \in Requests : thr[q] \notin Holding
        /\ \A a \in Batchers \ {b} : bat[a] \notin Holding
    BY <1>10 DEF ReleaseBatch, SlotExclusive
  <2>2. /\ running' = FALSE /\ bat'[b] = "idle"
        /\ \A q \in Requests : thr'[q] \notin Holding
        /\ \A a \in Batchers \ {b} : bat'[a] \notin Holding
    BY <1>10, <2>1 DEF ReleaseBatch
  <2> QED BY <2>2 DEF SlotExclusive
<1>11. ASSUME Close \/ Unload PROVE SlotExclusive'
  BY <1>11, SlotFrame DEF Close, Unload
<1>12. ASSUME UNCHANGED vars PROVE SlotExclusive'
  BY <1>12, SlotFrame DEF vars
<1> QED
  BY <1>1, <1>2, <1>3, <1>4, <1>5, <1>6, <1>7, <1>8, <1>9, <1>10, <1>11, <1>12
  DEF Next, Loop, Thread, Batch

\* Exactly one forward pass runs at a time (runtime.py:7), for every number of
\* calls and batch threads and every order of time-outs, errors and wake-ups.
THEOREM OneForwardPass == Spec => []SlotExclusive
<1>1. Init => SlotExclusive
  BY DEF Init, SlotExclusive, Holding
<1> QED BY <1>1, SlotStep, TypeCorrect, CallsConsistent, PTL DEF Spec

----------------------------------------------------------------------------
(* No lost wake-up.                                                        *)

\* After a notify_all nobody sleeps.
LEMMA WokenAwake ==
    /\ \A f \in [Requests -> ThreadPCs] : \A r \in Requests : Woken(f)[r] # "asleep"
    /\ \A f \in [Batchers -> BatchPCs] : \A b \in Batchers : Woken(f)[b] # "asleep"
  BY DEF Woken, ThreadPCs, BatchPCs

\* A step that puts nobody to sleep and frees neither the slot nor the queue.
LEMMA WakeupFrame ==
    ASSUME NoLostWakeup, running => running', closed' = closed,
           waiting > 0 => running' \/ waiting' > 0,
           \A r \in Requests : thr'[r] = "asleep" =>
               thr[r] = "asleep" /\ (ticket'[r].cancelled => ticket[r].cancelled),
           \A b \in Batchers : bat'[b] = "asleep" => bat[b] = "asleep"
    PROVE  NoLostWakeup'
  BY DEF NoLostWakeup, MustSleep, BatchMustSleep

LEMMA WakeupStep == TypeOK /\ NoLostWakeup /\ [Next]_vars => NoLostWakeup'
<1> SUFFICES ASSUME TypeOK, NoLostWakeup, [Next]_vars PROVE NoLostWakeup'
  OBVIOUS
<1> USE DEF TypeOK, batchVars, stopVars, loopVars
<1>1. ASSUME NEW r \in Requests, NEW n \in 1..MaxStates, Admit(r, n) PROVE NoLostWakeup'
  <2>1. \A q \in Requests : ticket'[q].cancelled => ticket[q].cancelled
    BY <1>1 DEF Admit
  <2>2. waiting' > 0 \/ ~(waiting > 0)
    BY <1>1 DEF Admit
  <2> QED BY <1>1, <2>1, <2>2, WakeupFrame DEF Admit
<1>2. ASSUME NEW r \in Requests, Refuse(r) \/ Expire(r) \/ GetLock(r) PROVE NoLostWakeup'
  BY <1>2, WakeupFrame DEF Refuse, Expire, GetLock
<1>3. ASSUME NEW r \in Requests, Return(r) \/ Unwind(r) PROVE NoLostWakeup'
  <2>1. \A q \in Requests : thr'[q] # "asleep"
    <3>1. Woken(thr) \in [Requests -> ThreadPCs] /\ \A q \in Requests : Woken(thr)[q] # "asleep"
      BY WokenAwake, WokenType
    <3> QED BY <1>3, <3>1 DEF Return, Unwind
  <2>2. \A b \in Batchers : bat'[b] # "asleep"
    <3>1. bat' = Woken(bat)
      BY <1>3, Zenon DEF Return, Unwind, Finish
    <3> QED BY <3>1, WokenAwake
  <2> QED BY <2>1, <2>2 DEF NoLostWakeup
<1>4. ASSUME NEW r \in Requests, SleepInteractive(r) PROVE NoLostWakeup'
  BY <1>4 DEF SleepInteractive, NoLostWakeup, MustSleep, BatchMustSleep
<1>5. ASSUME NEW r \in Requests, AcquireInteractive(r) PROVE NoLostWakeup'
  <2>1. CASE ticket[r].waiting
    <3>1. \A q \in Requests : thr'[q] # "asleep"
      <4>1. Woken(thr) \in [Requests -> ThreadPCs] /\ \A q \in Requests : Woken(thr)[q] # "asleep"
        BY WokenAwake, WokenType
      <4> QED BY <1>5, <2>1, <4>1 DEF AcquireInteractive
    <3>2. \A b \in Batchers : bat'[b] # "asleep"
      BY <1>5, <2>1, WokenAwake DEF AcquireInteractive
    <3> QED BY <3>1, <3>2 DEF NoLostWakeup
  <2>2. CASE ~ticket[r].waiting
    <3>1. waiting' = waiting /\ bat' = bat /\ closed' = closed
      BY <1>5, <2>2 DEF AcquireInteractive, WaitingAfter
    <3>2. running => running'
      BY <1>5 DEF AcquireInteractive
    <3>3. \A q \in Requests : thr'[q] = "asleep" => thr[q] = "asleep"
      BY <1>5, <2>2 DEF AcquireInteractive
    <3>4. \A q \in Requests : ticket'[q].cancelled = ticket[q].cancelled
      BY <1>5 DEF AcquireInteractive, Tickets
    <3> QED BY <3>1, <3>2, <3>3, <3>4, WakeupFrame
  <2> QED BY <2>1, <2>2
<1>6. ASSUME NEW r \in Requests,
             StartThread(r) \/ NextState(r) \/ PassRaises(r) \/ PassReturns(r)
      PROVE NoLostWakeup'
  BY <1>6, WakeupFrame DEF StartThread, NextState, PassRaises, PassReturns
<1>7. ASSUME NEW r \in Requests, ReleaseInteractive(r) PROVE NoLostWakeup'
  <2>1. Woken(thr) \in [Requests -> ThreadPCs] /\ \A q \in Requests : Woken(thr)[q] # "asleep"
    BY WokenAwake, WokenType
  <2> QED BY <1>7, <2>1, WokenAwake DEF ReleaseInteractive, NoLostWakeup
<1>8. ASSUME NEW b \in Batchers, BatchCall(b) \/ AcquireBatch(b) \/ BatchPassEnds(b)
      PROVE NoLostWakeup'
  BY <1>8, WakeupFrame DEF BatchCall, AcquireBatch, BatchPassEnds
<1>9. ASSUME NEW b \in Batchers, SleepBatch(b) PROVE NoLostWakeup'
  BY <1>9 DEF SleepBatch, NoLostWakeup, MustSleep, BatchMustSleep
<1>10. ASSUME NEW b \in Batchers, ReleaseBatch(b) PROVE NoLostWakeup'
  <2>1. Woken(bat) \in [Batchers -> BatchPCs] /\ \A a \in Batchers : Woken(bat)[a] # "asleep"
    BY WokenAwake, WokenType
  <2> QED BY <1>10, <2>1, WokenAwake DEF ReleaseBatch, NoLostWakeup
<1>11. ASSUME Close PROVE NoLostWakeup'
  BY <1>11, WokenAwake DEF Close, NoLostWakeup
<1>12. ASSUME Unload \/ UNCHANGED vars PROVE NoLostWakeup'
  BY <1>12, WakeupFrame DEF Unload, vars
<1> QED
  BY <1>1, <1>2, <1>3, <1>4, <1>5, <1>6, <1>7, <1>8, <1>9, <1>10, <1>11, <1>12
  DEF Next, Loop, Thread, Batch

\* No thread ever sleeps on the condition after what it waits for has happened
\* (_release, _finish, _leave_waiting and stop all notify).
THEOREM WakeupsNotLost == Spec => []NoLostWakeup
<1>1. Init => NoLostWakeup
  BY DEF Init, NoLostWakeup
<1> QED BY <1>1, WakeupStep, TypeCorrect, PTL DEF Spec

----------------------------------------------------------------------------
(* Admission and the priority of interactive calls.                        *)

Waiters == {r \in Requests : ticket[r].waiting}

LEMMA WaitersFinite == IsFiniteSet(Waiters) /\ Cardinality(Waiters) \in Nat
<1>1. Waiters \subseteq Requests
  BY DEF Waiters
<1> QED BY <1>1, RequestsAssumption, FS_Subset, FS_CardinalityType

\* A step after which the same calls wait.
LEMMA CountFrame ==
    ASSUME WaitingCounted, waiting' = waiting,
           \A r \in Requests : ticket'[r].waiting <=> ticket[r].waiting
    PROVE  WaitingCounted'
<1>1. Waiters' = Waiters
  BY DEF Waiters
<1> QED BY <1>1 DEF WaitingCounted, Waiters

\* _leave_waiting: r is no longer counted, and was counted at most once.
LEMMA CountLeave ==
    ASSUME TypeOK, WaitingCounted, NEW r \in Requests, waiting' = WaitingAfter(r),
           ~ticket'[r].waiting,
           \A q \in Requests \ {r} : ticket'[q].waiting <=> ticket[q].waiting
    PROVE  WaitingCounted'
<1>1. CASE ticket[r].waiting
  <2>1. Waiters' = Waiters \ {r} /\ r \in Waiters
    BY <1>1 DEF Waiters
  <2>2. Cardinality(Waiters') = Cardinality(Waiters) - 1
    BY <2>1, WaitersFinite, FS_RemoveElement
  <2> QED BY <1>1, <2>2 DEF WaitingCounted, WaitingAfter, Waiters
<1>2. CASE ~ticket[r].waiting
  <2>1. Waiters' = Waiters
    BY <1>2 DEF Waiters
  <2> QED BY <1>2, <2>1 DEF WaitingCounted, WaitingAfter, Waiters
<1> QED BY <1>1, <1>2

LEMMA CountStep == TypeOK /\ CallInv /\ WaitingCounted /\ [Next]_vars => WaitingCounted'
<1> SUFFICES ASSUME TypeOK, CallInv, WaitingCounted, [Next]_vars PROVE WaitingCounted'
  OBVIOUS
<1> USE DEF TypeOK, batchVars, stopVars, loopVars
<1>1. ASSUME NEW r \in Requests, NEW n \in 1..MaxStates, Admit(r, n) PROVE WaitingCounted'
  <2>1. r \notin Waiters
    BY <1>1 DEF Admit, CallInv, Waiters
  <2>2. Waiters' = Waiters \cup {r}
    BY <1>1 DEF Admit, Waiters
  <2>3. Cardinality(Waiters') = Cardinality(Waiters) + 1
    BY <2>1, <2>2, WaitersFinite, FS_AddElement
  <2>4. waiting' = waiting + 1
    BY <1>1 DEF Admit
  <2> QED BY <2>3, <2>4 DEF WaitingCounted, Waiters
<1>2. ASSUME NEW r \in Requests, Refuse(r) \/ Expire(r) \/ GetLock(r) PROVE WaitingCounted'
  BY <1>2, CountFrame DEF Refuse, Expire, GetLock
<1>3. ASSUME NEW r \in Requests, Return(r) \/ Unwind(r) PROVE WaitingCounted'
  <2>1. waiting' = WaitingAfter(r)
    BY <1>3, Zenon DEF Return, Unwind, Finish
  <2>2. ~ticket'[r].waiting /\ \A q \in Requests \ {r} : ticket'[q] = ticket[q]
    BY <1>3 DEF Return, Unwind, Finish, Tickets
  <2> QED BY <2>1, <2>2, CountLeave
<1>4. ASSUME NEW r \in Requests, AcquireInteractive(r) PROVE WaitingCounted'
  <2>1. waiting' = WaitingAfter(r)
    BY <1>4 DEF AcquireInteractive
  <2>2. ~ticket'[r].waiting /\ \A q \in Requests \ {r} : ticket'[q] = ticket[q]
    BY <1>4 DEF AcquireInteractive, Tickets
  <2> QED BY <2>1, <2>2, CountLeave
<1>5. ASSUME NEW r \in Requests, Thread(r), ~AcquireInteractive(r) PROVE WaitingCounted'
  BY <1>5, CountFrame
  DEF Thread, StartThread, SleepInteractive, NextState, PassReturns, PassRaises, ReleaseInteractive
<1>6. ASSUME NEW b \in Batchers, BatchCall(b) \/ Batch(b) PROVE WaitingCounted'
  BY <1>6, CountFrame
  DEF Batch, BatchCall, SleepBatch, AcquireBatch, BatchPassEnds, ReleaseBatch
<1>7. ASSUME Close \/ Unload \/ UNCHANGED vars PROVE WaitingCounted'
  BY <1>7, CountFrame DEF Close, Unload, vars
<1> QED
  BY <1>1, <1>2, <1>3, <1>4, <1>5, <1>6, <1>7 DEF Next, Loop

\* _waiting is exactly the number of calls that wait: no time-out, error or late
\* thread makes it drift (a drift upwards would starve the batch threads, one
\* downwards would let them overtake).
THEOREM WaitingIsCount == Spec => []WaitingCounted
<1>1. Init => WaitingCounted
  <2> SUFFICES ASSUME Init PROVE WaitingCounted
    OBVIOUS
  <2>1. Waiters = {}
    BY DEF Init, NoTicket, Waiters
  <2> QED BY <2>1, FS_EmptySet DEF Init, WaitingCounted, Waiters
<1> QED BY <1>1, CountStep, TypeCorrect, CallsConsistent, PTL DEF Spec

\* No batch pass begins while an admitted interactive call waits
\* (runtime.py:13-16).
THEOREM BatchYieldsToCalls == Spec => BatchYields
<1>1. TypeOK /\ WaitingCounted /\ [Next]_vars =>
        [\A b \in Batchers : (bat[b] # "pass" /\ bat'[b] = "pass") =>
            \A r \in Requests : ~ticket[r].waiting]_vars
  <2> SUFFICES ASSUME TypeOK, WaitingCounted, [Next]_vars,
                      NEW b \in Batchers, bat[b] # "pass", bat'[b] = "pass",
                      NEW r \in Requests
               PROVE  ~ticket[r].waiting
    BY Zenon
  <2> USE DEF TypeOK, batchVars, stopVars, loopVars, Woken
  <2>1. PICK a \in Batchers : AcquireBatch(a)
    <3>1. ASSUME NEW q \in Requests, NEW n \in 1..MaxStates, Admit(q, n) PROVE FALSE
      BY <3>1 DEF Admit
    <3>2. ASSUME NEW q \in Requests, Refuse(q) \/ Expire(q) \/ GetLock(q) PROVE FALSE
      BY <3>2 DEF Refuse, Expire, GetLock
    <3>3. ASSUME NEW q \in Requests, Return(q) \/ Unwind(q) PROVE FALSE
      <4>1. bat' = Woken(bat)
        BY <3>3, Zenon DEF Return, Unwind, Finish
      <4> QED BY <4>1
    <3>4. ASSUME NEW q \in Requests, Thread(q) PROVE FALSE
      <4>1. bat' = bat \/ bat' = Woken(bat)
        BY <3>4 DEF Thread, StartThread, SleepInteractive, AcquireInteractive, NextState,
                    PassReturns, PassRaises, ReleaseInteractive
      <4> QED BY <4>1
    <3>5. ASSUME NEW a \in Batchers, BatchCall(a) \/ SleepBatch(a) \/ BatchPassEnds(a) PROVE FALSE
      BY <3>5 DEF BatchCall, SleepBatch, BatchPassEnds
    <3>6. ASSUME NEW a \in Batchers, ReleaseBatch(a) PROVE FALSE
      BY <3>6 DEF ReleaseBatch
    <3>7. ASSUME Close \/ Unload \/ UNCHANGED vars PROVE FALSE
      BY <3>7 DEF Close, Unload, vars
    <3> QED
      BY <3>1, <3>2, <3>3, <3>4, <3>5, <3>6, <3>7 DEF Next, Loop, Batch
  <2>2. ~(waiting > 0)
    BY <2>1 DEF AcquireBatch, BatchMustSleep
  <2>3. Cardinality(Waiters) = 0
    BY <2>2, WaitersFinite DEF WaitingCounted, Waiters
  <2>4. Waiters = {}
    BY <2>3, WaitersFinite, FS_EmptySet
  <2> QED BY <2>4 DEF Waiters
<1> QED BY <1>1, TypeCorrect, WaitingIsCount, PTL DEF Spec, BatchYields

\* At most max_waiting_requests calls wait (one, when the setting is zero or
\* negative: an idle engine always admits; runtime.py:29-30).
THEOREM AdmissionBounded == Spec => []AdmissionBound
<1>1. WaitingCounted => waiting >= 0
  BY WaitersFinite DEF WaitingCounted, Waiters
<1>2. Limit \in Nat
  BY BoundsAssumption DEF Limit
<1>3. Init => AdmissionBound
  BY <1>2 DEF Init, AdmissionBound
<1>4. TypeOK /\ WaitingCounted' /\ AdmissionBound /\ [Next]_vars => AdmissionBound'
  <2> SUFFICES ASSUME TypeOK, WaitingCounted', AdmissionBound, [Next]_vars PROVE AdmissionBound'
    OBVIOUS
  <2> USE DEF TypeOK, batchVars, stopVars, loopVars
  <2>1. waiting' >= 0
    <3>1. IsFiniteSet(Waiters') /\ Cardinality(Waiters') \in Nat
      <4>1. Waiters' \subseteq Requests BY DEF Waiters
      <4> QED BY <4>1, RequestsAssumption, FS_Subset, FS_CardinalityType
    <3> QED BY <3>1 DEF WaitingCounted, Waiters
  <2>2. ASSUME NEW r \in Requests, NEW n \in 1..MaxStates, Admit(r, n) PROVE AdmissionBound'
    <3>1. waiting' = waiting + 1 /\ ~Full
      BY <2>2 DEF Admit
    <3>2. ~(waiting > 0) \/ ~(waiting >= Limit)
      BY <3>1, Zenon DEF Full
    <3> HIDE DEF Limit
    <3>3. waiting' <= IF Limit = 0 THEN 1 ELSE Limit
      BY <1>2, <3>1, <3>2 DEF AdmissionBound
    <3>4. Limit' = Limit
      BY DEF Limit
    <3> QED BY <2>1, <3>3, <3>4 DEF AdmissionBound
  <2>3. ASSUME waiting' = waiting \/ waiting' = waiting - 1 PROVE AdmissionBound'
    BY <1>2, <2>1, <2>3 DEF AdmissionBound, Limit
  <2>4. ASSUME NEW r \in Requests, Return(r) \/ Unwind(r) \/ AcquireInteractive(r)
        PROVE AdmissionBound'
    <3>1. waiting' = WaitingAfter(r)
      BY <2>4, Zenon DEF Return, Unwind, Finish, AcquireInteractive
    <3> QED BY <2>3, <3>1 DEF WaitingAfter
  <2>5. ASSUME NEW r \in Requests, Refuse(r) \/ Expire(r) \/ GetLock(r) PROVE AdmissionBound'
    BY <2>3, <2>5 DEF Refuse, Expire, GetLock
  <2>6. ASSUME NEW r \in Requests, Thread(r), ~AcquireInteractive(r) PROVE AdmissionBound'
    BY <2>3, <2>6
    DEF Thread, StartThread, SleepInteractive, NextState, PassReturns, PassRaises, ReleaseInteractive
  <2>7. ASSUME NEW b \in Batchers, BatchCall(b) \/ Batch(b) PROVE AdmissionBound'
    BY <2>3, <2>7
    DEF Batch, BatchCall, SleepBatch, AcquireBatch, BatchPassEnds, ReleaseBatch
  <2>8. ASSUME Close \/ Unload \/ UNCHANGED vars PROVE AdmissionBound'
    BY <2>3, <2>8 DEF Close, Unload, vars
  <2> QED
    BY <2>2, <2>4, <2>5, <2>6, <2>7, <2>8 DEF Next, Loop
<1> QED BY <1>3, <1>4, TypeCorrect, WaitingIsCount, PTL DEF Spec

----------------------------------------------------------------------------
(* _queued_rows.                                                           *)

\* An admitted call's ticket is not finished before its coroutine ends; the rows
\* that are counted are finitely many.
RowsInv ==
    /\ \A r \in Requests : call[r] = "new" => ticket[r].finished
    /\ IsFiniteSet(Rows) /\ RowsAccounted

\* A call counts for as many rows as its ticket says.
LEMMA RowCount ==
    ASSUME NEW r, NEW n \in Nat
    PROVE  IsFiniteSet({r} \X (1..n)) /\ Cardinality({r} \X (1..n)) = n
<1>1. IsFiniteSet({r}) /\ Cardinality({r}) = 1
  BY FS_Singleton
<1>2. IsFiniteSet(1..n) /\ Cardinality(1..n) = n
  <2>1. 1 \in Int /\ n \in Int
    OBVIOUS
  <2>2. IsFiniteSet(1..n) /\ Cardinality(1..n) = IF 1 > n THEN 0 ELSE n - 1 + 1
    BY <2>1, FS_Interval, Zenon
  <2> QED BY <2>2
<1> DEFINE A == {r}
           B == 1..n
<1>3. IsFiniteSet(A \X B) /\ Cardinality(A \X B) = Cardinality(A) * Cardinality(B)
  <2>1. IsFiniteSet(A) /\ IsFiniteSet(B)
    BY <1>1, <1>2
  <2> HIDE DEF A, B
  <2> QED BY <2>1, FS_Product, Zenon
<1>4. Cardinality(A) * Cardinality(B) = n
  BY <1>1, <1>2
<1> QED BY <1>3, <1>4

\* A step after which the same calls are open, with the same rows.
LEMMA RowsFrame ==
    ASSUME RowsInv, queuedRows' = queuedRows,
           \A r \in Requests : /\ ticket'[r].finished = ticket[r].finished
                               /\ ticket'[r].rows = ticket[r].rows
                               /\ call'[r] = "new" => call[r] = "new"
    PROVE  RowsInv'
<1>1. Rows' = Rows
  BY DEF Rows
<1> QED BY <1>1 DEF RowsInv, RowsAccounted

\* _admit: the rows of r are new.
LEMMA RowsJoin ==
    ASSUME TypeOK, RowsInv, NEW r \in Requests, NEW n \in Nat, call[r] = "new", call'[r] # "new",
           ~ticket'[r].finished, ticket'[r].rows = n, queuedRows' = queuedRows + n,
           \A q \in Requests \ {r} : ticket'[q] = ticket[q] /\ call'[q] = call[q]
    PROVE  RowsInv'
<1> DEFINE mine == {r} \X (1..n)
<1>1. ticket[r].finished
  BY DEF RowsInv
<1>2. Rows' = Rows \cup mine
  BY <1>1 DEF Rows
<1>3. Rows \cap mine = {}
  BY <1>1 DEF Rows
<1>4. IsFiniteSet(mine) /\ Cardinality(mine) = n
  BY RowCount
<1> HIDE DEF mine
<1>5. IsFiniteSet(Rows) /\ Cardinality(Rows) \in Nat /\ queuedRows = Cardinality(Rows)
  BY FS_CardinalityType DEF RowsInv, RowsAccounted
<1>6. /\ IsFiniteSet(Rows \cup mine)
      /\ Cardinality(Rows \cup mine) = Cardinality(Rows) + Cardinality(mine) - Cardinality(Rows \cap mine)
  BY <1>4, <1>5, FS_Union
<1>7. Cardinality(Rows \cup mine) = Cardinality(Rows) + n
  <2>1. Cardinality(Rows \cap mine) = 0
    BY <1>3, FS_EmptySet
  <2> QED BY <1>4, <1>5, <1>6, <2>1
<1>8. IsFiniteSet(Rows') /\ RowsAccounted'
  BY <1>2, <1>5, <1>6, <1>7 DEF RowsAccounted
<1>9. \A q \in Requests : call'[q] = "new" => ticket'[q].finished
  BY DEF RowsInv
<1> QED BY <1>8, <1>9 DEF RowsInv

\* _finish: the rows of r leave, once, however often it is called.
LEMMA RowsLeave ==
    ASSUME TypeOK, RowsInv, NEW r \in Requests, call'[r] # "new", ticket'[r].finished,
           queuedRows' = IF ticket[r].finished THEN queuedRows ELSE queuedRows - ticket[r].rows,
           \A q \in Requests \ {r} : ticket'[q] = ticket[q] /\ call'[q] = call[q]
    PROVE  RowsInv'
<1> DEFINE n == ticket[r].rows
           mine == {r} \X (1..n)
<1>0. n \in Nat
  BY DEF TypeOK, Tickets
<1>1. \A q \in Requests : call'[q] = "new" => ticket'[q].finished
  BY DEF RowsInv
<1>2. CASE ticket[r].finished
  <2>1. Rows' = Rows
    BY <1>2 DEF Rows
  <2> QED BY <1>1, <1>2, <2>1 DEF RowsInv, RowsAccounted
<1>3. CASE ~ticket[r].finished
  <2>1. Rows' = Rows \ mine
    BY <1>3 DEF Rows
  <2>2. Rows \cap mine = mine
    BY <1>3 DEF Rows
  <2>3. Cardinality(mine) = n
    BY <1>0, RowCount
  <2>4. queuedRows' = queuedRows - n
    BY <1>3
  <2> HIDE DEF mine, n
  <2>5. IsFiniteSet(Rows) /\ Cardinality(Rows) \in Nat /\ queuedRows = Cardinality(Rows)
    BY FS_CardinalityType DEF RowsInv, RowsAccounted
  <2>6. IsFiniteSet(Rows \ mine) /\ Cardinality(Rows \ mine) = Cardinality(Rows) - Cardinality(Rows \cap mine)
    BY <2>5, FS_Difference
  <2>7. IsFiniteSet(Rows') /\ RowsAccounted'
    BY <2>1, <2>2, <2>3, <2>4, <2>5, <2>6 DEF RowsAccounted
  <2> QED BY <1>1, <2>7 DEF RowsInv
<1> QED BY <1>2, <1>3

LEMMA RowsStep == TypeOK /\ RowsInv /\ [Next]_vars => RowsInv'
<1> SUFFICES ASSUME TypeOK, RowsInv, [Next]_vars PROVE RowsInv'
  OBVIOUS
<1>t. call \in [Requests -> CallPCs] /\ ticket \in [Requests -> Tickets]
  BY DEF TypeOK
<1>1. ASSUME NEW r \in Requests, NEW n \in 1..MaxStates, Admit(r, n) PROVE RowsInv'
  <2>1. call[r] = "new" /\ call'[r] # "new" /\ queuedRows' = queuedRows + n /\ n \in Nat
    BY <1>1, <1>t DEF Admit
  <2>2. ~ticket'[r].finished /\ ticket'[r].rows = n
    BY <1>1, <1>t DEF Admit
  <2>3. \A q \in Requests \ {r} : ticket'[q] = ticket[q] /\ call'[q] = call[q]
    BY <1>1, <1>t DEF Admit
  <2> QED BY <2>1, <2>2, <2>3, RowsJoin
<1>2. ASSUME NEW r \in Requests, Refuse(r) \/ Expire(r) \/ GetLock(r) PROVE RowsInv'
  BY <1>2, <1>t, RowsFrame DEF Refuse, Expire, GetLock
<1>3. ASSUME NEW r \in Requests, Return(r) \/ Unwind(r) PROVE RowsInv'
  <2>1. queuedRows' = IF ticket[r].finished THEN queuedRows ELSE queuedRows - ticket[r].rows
    BY <1>3, Zenon DEF Return, Unwind, Finish
  <2>2. ticket'[r].finished /\ \A q \in Requests \ {r} : ticket'[q] = ticket[q]
    BY <1>3, <1>t DEF Return, Unwind, Finish, Tickets
  <2>3. call'[r] # "new" /\ \A q \in Requests \ {r} : call'[q] = call[q]
    BY <1>3, <1>t DEF Return, Unwind
  <2> QED BY <2>1, <2>2, <2>3, RowsLeave
<1>4. ASSUME NEW r \in Requests, AcquireInteractive(r) PROVE RowsInv'
  <2>1. call' = call /\ queuedRows' = queuedRows
    BY <1>4 DEF AcquireInteractive, loopVars
  <2>2. \A q \in Requests : /\ ticket'[q].finished = ticket[q].finished
                            /\ ticket'[q].rows = ticket[q].rows
    BY <1>4, <1>t DEF AcquireInteractive, Tickets
  <2> QED BY <2>1, <2>2, RowsFrame
<1>5. ASSUME NEW r \in Requests, Thread(r), ~AcquireInteractive(r) PROVE RowsInv'
  BY <1>5, RowsFrame
  DEF Thread, StartThread, SleepInteractive, NextState, PassReturns, PassRaises, ReleaseInteractive,
      loopVars
<1>6. ASSUME NEW b \in Batchers, BatchCall(b) \/ Batch(b) PROVE RowsInv'
  BY <1>6, RowsFrame
  DEF Batch, BatchCall, SleepBatch, AcquireBatch, BatchPassEnds, ReleaseBatch, loopVars
<1>7. ASSUME Close \/ Unload \/ UNCHANGED vars PROVE RowsInv'
  BY <1>7, RowsFrame DEF Close, Unload, vars, loopVars
<1> QED
  BY <1>1, <1>2, <1>3, <1>4, <1>5, <1>6, <1>7 DEF Next, Loop

\* What admission counts is exact (runtime.py:494, 572): the bound on the waiting
\* calls, their number, and the rows behind the retry-after estimate, whatever
\* timed out, raised or was given up.
THEOREM AdmissionIsExact == Spec => []AdmissionExact
<1>1. Init => RowsInv
  <2> SUFFICES ASSUME Init PROVE RowsInv
    OBVIOUS
  <2>1. Rows = {} /\ queuedRows = 0 /\ \A r \in Requests : ticket[r].finished
    BY DEF Init, Rows, NoTicket
  <2> QED BY <2>1, FS_EmptySet DEF RowsInv, RowsAccounted
<1>2. RowsInv => RowsAccounted
  BY DEF RowsInv
<1> QED BY <1>1, <1>2, RowsStep, TypeCorrect, AdmissionBounded, WaitingIsCount, PTL
        DEF Spec, AdmissionExact

----------------------------------------------------------------------------
(* Calls that were given up, and stop().                                   *)

\* A call that was reported as timed out takes the slot no more and begins no
\* further pass (runtime.py:31-34).
THEOREM GivenUpCallsStop == Spec => GivenUpNeverRuns
<1>1. TypeOK /\ CallInv /\ [Next]_vars =>
        [\A r \in Requests : call[r] = "timeout" =>
            /\ thr[r] \notin Holding => thr'[r] \notin Holding
            /\ thr[r] # "pass" => thr'[r] # "pass"]_vars
  <2> SUFFICES ASSUME TypeOK, CallInv, [Next]_vars, NEW r \in Requests, call[r] = "timeout"
               PROVE  /\ thr[r] \notin Holding => thr'[r] \notin Holding
                      /\ thr[r] # "pass" => thr'[r] # "pass"
    BY Zenon
  <2> USE DEF TypeOK, batchVars, stopVars, loopVars, Woken, Holding
  <2>1. ticket[r].cancelled
    BY DEF CallInv
  <2>2. CASE thr' = thr \/ thr' = Woken(thr)
    BY <2>2
  <2>3. ASSUME NEW q \in Requests, NEW n \in 1..MaxStates, Admit(q, n) PROVE thr' = thr
    BY <2>3 DEF Admit
  <2>4. ASSUME NEW q \in Requests, Loop(q) \/ Refuse(q) \/ Expire(q)
        PROVE thr'[r] = thr[r] \/ thr'[r] \in {"none", "acquire", "pending"}
    BY <2>4 DEF Loop, GetLock, Return, Unwind, Refuse, Expire
  <2>5. ASSUME NEW q \in Requests, Thread(q), q # r
        PROVE thr'[r] = thr[r] \/ thr'[r] = "acquire"
    BY <2>5 DEF Thread, StartThread, SleepInteractive, AcquireInteractive, NextState,
                PassReturns, PassRaises, ReleaseInteractive
  <2>6. ASSUME Thread(r)
        PROVE  /\ thr[r] \notin Holding => thr'[r] \notin Holding
               /\ thr[r] # "pass" => thr'[r] # "pass"
    BY <2>1, <2>6 DEF Thread, StartThread, SleepInteractive, AcquireInteractive, NextState,
                PassReturns, PassRaises, ReleaseInteractive
  <2>7. ASSUME NEW b \in Batchers, BatchCall(b) \/ Batch(b) PROVE thr' = thr \/ thr' = Woken(thr)
    BY <2>7 DEF Batch, BatchCall, SleepBatch, AcquireBatch, BatchPassEnds, ReleaseBatch
  <2>8. ASSUME Close \/ Unload \/ UNCHANGED vars PROVE thr' = thr \/ thr' = Woken(thr)
    BY <2>8 DEF Close, Unload, vars
  <2> QED
    BY <2>2, <2>3, <2>4, <2>5, <2>6, <2>7, <2>8 DEF Next
<1> QED BY <1>1, TypeCorrect, CallsConsistent, PTL DEF Spec, GivenUpNeverRuns

\* Once stop() has begun the engine is closed.
StopInv == stop # "open" => closed

\* stop() unloads the checkpoints after the last pass, unless that pass outlived
\* the drain timeout, and no pass begins afterwards (stop, _drain).
THEOREM UnloadIsSafe == Spec => []UnloadAfterLastPass
<1> DEFINE Inv == StopInv /\ UnloadAfterLastPass
<1>1. Init => Inv
  BY DEF Init, StopInv, UnloadAfterLastPass
<1>2. TypeOK /\ CallInv /\ SlotExclusive /\ Inv /\ [Next]_vars => Inv'
  <2> SUFFICES ASSUME TypeOK, CallInv, SlotExclusive, Inv, [Next]_vars PROVE Inv'
    OBVIOUS
  <2> USE DEF TypeOK, batchVars, stopVars, loopVars, Woken, Holding, StopInv, UnloadAfterLastPass
  <2>1. ASSUME stop' = stop, closed' = closed, overran' = overran,
               closed => /\ \A r \in Requests : thr'[r] \in Holding => thr[r] \in Holding
                         /\ \A b \in Batchers : bat'[b] \in Holding => bat[b] \in Holding
        PROVE  Inv'
    BY <2>1
  <2>2. ASSUME NEW r \in Requests, NEW n \in 1..MaxStates, Admit(r, n) PROVE Inv'
    BY <2>1, <2>2 DEF Admit
  <2>3. ASSUME NEW r \in Requests, Refuse(r) \/ Expire(r) \/ GetLock(r) PROVE Inv'
    BY <2>1, <2>3 DEF Refuse, Expire, GetLock
  <2>4. ASSUME NEW r \in Requests, Return(r) \/ Unwind(r) PROVE Inv'
    <3>1. stop' = stop /\ closed' = closed /\ overran' = overran
      BY <2>4, Zenon DEF Return, Unwind, Finish
    <3> HIDE DEF TypeOK, Woken, Holding, StopInv, UnloadAfterLastPass
    <3> QED BY <2>1, <2>4, <3>1, EndShape
  <2>5. ASSUME NEW r \in Requests, Thread(r) PROVE Inv'
    <3>1. stop' = stop /\ closed' = closed /\ overran' = overran
      BY <2>5 DEF Thread, StartThread, SleepInteractive, AcquireInteractive, NextState,
                  PassReturns, PassRaises, ReleaseInteractive
    <3>2. ASSUME closed PROVE \A q \in Requests : thr'[q] \in Holding => thr[q] \in Holding
      <4>1. CASE AcquireInteractive(r)
        <5> HIDE DEF TypeOK, Woken
        <5> QED BY <3>2, <4>1, AcquireShape
      <4>2. CASE StartThread(r) \/ SleepInteractive(r) \/ NextState(r)
        BY <3>2, <4>2 DEF StartThread, SleepInteractive, NextState
      <4>3. CASE PassReturns(r) \/ PassRaises(r) \/ ReleaseInteractive(r)
        BY <4>3 DEF PassReturns, PassRaises, ReleaseInteractive
      <4> QED BY <2>5, <4>1, <4>2, <4>3 DEF Thread
    <3>3. \A b \in Batchers : bat'[b] \in Holding => bat[b] \in Holding
      <4>1. CASE AcquireInteractive(r)
        <5> HIDE DEF TypeOK, Woken
        <5> QED BY <4>1, AcquireShape
      <4>2. CASE StartThread(r) \/ SleepInteractive(r) \/ NextState(r)
        BY <4>2 DEF StartThread, SleepInteractive, NextState
      <4>3. CASE PassReturns(r) \/ PassRaises(r) \/ ReleaseInteractive(r)
        BY <4>3 DEF PassReturns, PassRaises, ReleaseInteractive
      <4> QED BY <2>5, <4>1, <4>2, <4>3 DEF Thread
    <3> QED BY <2>1, <3>1, <3>2, <3>3
  <2>6. ASSUME NEW b \in Batchers, BatchCall(b) \/ Batch(b) PROVE Inv'
    <3>1. stop' = stop /\ closed' = closed /\ overran' = overran
      BY <2>6 DEF Batch, BatchCall, SleepBatch, AcquireBatch, BatchPassEnds, ReleaseBatch
    <3>2. \A q \in Requests : thr'[q] \in Holding => thr[q] \in Holding
      BY <2>6 DEF Batch, BatchCall, SleepBatch, AcquireBatch, BatchPassEnds, ReleaseBatch
    <3>3. ASSUME closed PROVE \A a \in Batchers : bat'[a] \in Holding => bat[a] \in Holding
      BY <2>6, <3>3 DEF Batch, BatchCall, SleepBatch, AcquireBatch, BatchPassEnds, ReleaseBatch
    <3> QED BY <2>1, <3>1, <3>2, <3>3
  <2>7. ASSUME Close PROVE Inv'
    BY <2>7 DEF Close
  <2>8. ASSUME Unload PROVE Inv'
    <3>1. stop' = "stopped" /\ overran' = running /\ closed' = closed /\ thr' = thr /\ bat' = bat
      BY <2>8 DEF Unload
    <3>2. closed
      BY <2>8 DEF Unload
    <3>3. ~running => /\ \A r \in Requests : thr[r] \notin Holding
                      /\ \A b \in Batchers : bat[b] \notin Holding
      BY DEF SlotExclusive
    <3> QED BY <3>1, <3>2, <3>3
  <2>9. ASSUME UNCHANGED vars PROVE Inv'
    BY <2>1, <2>9 DEF vars
  <2> QED
    BY <2>2, <2>3, <2>4, <2>5, <2>6, <2>7, <2>8, <2>9 DEF Next, Loop
<1> QED BY <1>1, <1>2, TypeCorrect, CallsConsistent, OneForwardPass, PTL DEF Spec

----------------------------------------------------------------------------
(* First come, first served.                                               *)

Live == {"queued", "awaiting", "expired"}

\* The calls that have not ended are the ones in line for the asyncio.Lock, each
\* once; only the one at the head has a thread, and only they wait for the slot.
LineInv ==
    /\ \A r \in Requests : call[r] \in Live => \E i \in DOMAIN lockq : lockq[i] = r
    /\ \A i \in DOMAIN lockq : call[lockq[i]] \in Live
    /\ \A i, j \in DOMAIN lockq : lockq[i] = lockq[j] => i = j
    /\ \A r \in Requests : ticket[r].waiting => call[r] \in Live
    /\ \A r \in Requests : call[r] \in {"awaiting", "expired"} /\ thr[r] # "none" => lockq[1] = r
    /\ \A r \in Requests : call[r] \in {"answered", "error", "busy"} => thr[r] \in {"none", "done"}

\* The line is in the order of admission, and nobody is admitted twice.
OrderInv ==
    /\ \A x \in DOMAIN admitted : call[admitted[x]] # "new"
    /\ \A x, y \in DOMAIN admitted : admitted[x] = admitted[y] => x = y
    /\ \A i, j \in DOMAIN lockq, x, y \in DOMAIN admitted :
          i < j /\ admitted[x] = lockq[i] /\ admitted[y] = lockq[j] => x < y

\* Leaving the lock takes r out of the line and keeps the order of the others.
LEMMA UnlockedLine ==
    ASSUME lockq \in Seq(Requests), NEW r \in Requests, \E i \in DOMAIN lockq : lockq[i] = r
    PROVE  \E k \in DOMAIN lockq :
              /\ lockq[k] = r /\ DOMAIN Unlocked(r) = 1..(Len(lockq) - 1)
              /\ \A i \in 1..(Len(lockq) - 1) : Unlocked(r)[i] = lockq[IF i < k THEN i ELSE i + 1]
<1> DEFINE k == CHOOSE x \in DOMAIN lockq : lockq[x] = r
<1>1. k \in DOMAIN lockq /\ lockq[k] = r
  OBVIOUS
<1>2. Unlocked(r) = [x \in 1..(Len(lockq) - 1) |-> IF x < k THEN lockq[x] ELSE lockq[x + 1]]
  BY DEF Unlocked
<1> HIDE DEF k
<1>3. \A i \in 1..(Len(lockq) - 1) : Unlocked(r)[i] = lockq[IF i < k THEN i ELSE i + 1]
  BY <1>2
<1>4. DOMAIN Unlocked(r) = 1..(Len(lockq) - 1)
  BY <1>2
<1> QED BY <1>1, <1>3, <1>4

\* A step that moves no coroutine and neither starts nor revives a thread.
LEMMA LineFrame ==
    ASSUME LineInv, OrderInv, UNCHANGED <<call, lockq, admitted>>,
           \A r \in Requests : /\ thr[r] \in {"none", "done"} => thr'[r] = thr[r]
                               /\ ticket'[r].waiting => ticket[r].waiting
    PROVE  LineInv' /\ OrderInv'
<1>1. LineInv'
  BY DEF LineInv
<1>2. OrderInv'
  BY DEF OrderInv
<1> QED BY <1>1, <1>2

\* A call that ends leaves the line.
LEMMA LineEnd ==
    ASSUME TypeOK, LineInv, OrderInv, NEW r \in Requests, call[r] \in Live,
           lockq' = Unlocked(r), admitted' = admitted,
           call'[r] \notin Live, call'[r] # "new", ~ticket'[r].waiting,
           call'[r] \in {"answered", "error", "busy"} => thr'[r] \in {"none", "done"},
           \A q \in Requests \ {r} :
              /\ call'[q] = call[q] /\ ticket'[q] = ticket[q]
              /\ thr[q] \in {"none", "done"} => thr'[q] = thr[q]
    PROVE  LineInv' /\ OrderInv'
<1> DEFINE n == Len(lockq)
           At(i, k) == IF i < k THEN i ELSE i + 1
<1>1. /\ lockq \in Seq(Requests) /\ admitted \in Seq(Requests) /\ n \in Nat /\ DOMAIN lockq = 1..n
      /\ \A i \in 1..n : lockq[i] \in Requests
      /\ \A x \in DOMAIN admitted : admitted[x] \in Requests
  BY DEF TypeOK
<1>2. PICK k \in 1..n : /\ lockq[k] = r /\ DOMAIN lockq' = 1..(n - 1)
                        /\ \A i \in 1..(n - 1) : lockq'[i] = lockq[At(i, k)]
  <2>1. \E i \in DOMAIN lockq : lockq[i] = r
    BY DEF LineInv
  <2>2. lockq \in Seq(Requests)
    BY <1>1
  <2>3. PICK k \in DOMAIN lockq :
              /\ lockq[k] = r /\ DOMAIN Unlocked(r) = 1..(Len(lockq) - 1)
              /\ \A i \in 1..(Len(lockq) - 1) : Unlocked(r)[i] = lockq[IF i < k THEN i ELSE i + 1]
    BY <2>1, <2>2, UnlockedLine, Zenon
  <2>4. k \in 1..n
    BY <1>1
  <2>5. DOMAIN lockq' = 1..(n - 1) /\ \A i \in 1..(n - 1) : lockq'[i] = lockq[At(i, k)]
    BY <2>3
  <2> QED BY <2>3, <2>4, <2>5
<1>3. \A i \in 1..(n - 1) : At(i, k) \in 1..n /\ At(i, k) # k
  BY <1>1
<1>4. \A i, j \in 1..(n - 1) : (At(i, k) = At(j, k) => i = j) /\ (i < j => At(i, k) < At(j, k))
  BY <1>1
<1>5. \A j \in 1..n : j # k => \E i \in 1..(n - 1) : At(i, k) = j
  <2> SUFFICES ASSUME NEW j \in 1..n, j # k PROVE \E i \in 1..(n - 1) : At(i, k) = j
    OBVIOUS
  <2>1. CASE j < k
    <3>1. j \in 1..(n - 1) /\ At(j, k) = j
      BY <1>1, <2>1
    <3> QED BY <3>1
  <2>2. CASE j > k
    <3>1. j - 1 \in 1..(n - 1) /\ At(j - 1, k) = j
      BY <1>1, <2>2
    <3> QED BY <3>1
  <2> QED BY <1>1, <2>1, <2>2
<1>6. k # 1 => At(1, k) = 1
  BY <1>1
<1> HIDE DEF At
<1>7. \A i \in 1..(n - 1) : lockq'[i] \in Requests /\ lockq'[i] # r /\ call'[lockq'[i]] \in Live
  <2> TAKE i \in 1..(n - 1)
  <2>1. lockq'[i] = lockq[At(i, k)] /\ lockq[At(i, k)] \in Requests /\ lockq[At(i, k)] # r
    BY <1>1, <1>2, <1>3 DEF LineInv
  <2>2. call[lockq[At(i, k)]] \in Live
    BY <1>1, <1>3 DEF LineInv
  <2> QED BY <2>1, <2>2
<1>8. \A q \in Requests : call'[q] \in Live => q # r /\ call[q] \in Live
  OBVIOUS
<1>9. \A q \in Requests : call'[q] \in Live => \E i \in DOMAIN lockq' : lockq'[i] = q
  <2> SUFFICES ASSUME NEW q \in Requests, call'[q] \in Live PROVE \E i \in DOMAIN lockq' : lockq'[i] = q
    OBVIOUS
  <2>1. PICK j \in 1..n : lockq[j] = q
    BY <1>1, <1>8 DEF LineInv
  <2>2. PICK i \in 1..(n - 1) : At(i, k) = j
    BY <1>2, <1>5, <1>8, <2>1
  <2> QED BY <1>2, <2>1, <2>2
<1>10. \A i, j \in DOMAIN lockq' : lockq'[i] = lockq'[j] => i = j
  <2> SUFFICES ASSUME NEW i \in 1..(n - 1), NEW j \in 1..(n - 1), lockq'[i] = lockq'[j] PROVE i = j
    BY <1>2
  <2>1. At(i, k) = At(j, k)
    BY <1>1, <1>2, <1>3 DEF LineInv
  <2> QED BY <1>4, <2>1
<1>11. ASSUME NEW q \in Requests, call'[q] \in {"awaiting", "expired"}, thr'[q] # "none"
       PROVE  lockq'[1] = q
  <2>1. q # r /\ call[q] \in {"awaiting", "expired"} /\ thr[q] # "none"
    BY <1>11 DEF Live
  <2>2. lockq[1] = q /\ \E i \in DOMAIN lockq' : lockq'[i] = q
    BY <1>9, <1>11, <2>1 DEF LineInv, Live
  <2>3. 1 \in 1..(n - 1) /\ k # 1
    BY <1>1, <1>2, <2>1, <2>2
  <2> QED BY <1>2, <1>6, <2>2, <2>3
<1>12. LineInv'
  <2>1. \A i \in DOMAIN lockq' : call'[lockq'[i]] \in Live
    BY <1>2, <1>7
  <2>2. \A q \in Requests : ticket'[q].waiting => call'[q] \in Live
    BY DEF LineInv
  <2>3. \A q \in Requests : call'[q] \in {"answered", "error", "busy"} => thr'[q] \in {"none", "done"}
    BY DEF LineInv
  <2> QED BY <1>9, <1>10, <1>11, <2>1, <2>2, <2>3 DEF LineInv
<1>13. OrderInv'
  <2>1. \A x \in DOMAIN admitted' : call'[admitted'[x]] # "new"
    BY <1>1 DEF OrderInv
  <2>2. ASSUME NEW i \in DOMAIN lockq', NEW j \in DOMAIN lockq', NEW x \in DOMAIN admitted,
               NEW y \in DOMAIN admitted, i < j, admitted[x] = lockq'[i], admitted[y] = lockq'[j]
        PROVE  x < y
    <3>1. At(i, k) \in 1..n /\ At(j, k) \in 1..n /\ At(i, k) < At(j, k)
      BY <1>2, <1>3, <1>4, <2>2
    <3>2. admitted[x] = lockq[At(i, k)] /\ admitted[y] = lockq[At(j, k)]
      BY <1>2, <2>2
    <3> QED BY <1>1, <3>1, <3>2 DEF OrderInv
  <2> QED BY <2>1, <2>2 DEF OrderInv
<1> QED BY <1>12, <1>13

\* A call that is admitted joins the line, and the history, at the end.
LEMMA LineJoin ==
    ASSUME TypeOK, CallInv, LineInv, OrderInv, NEW r \in Requests, call[r] = "new",
           lockq' = Append(lockq, r), admitted' = Append(admitted, r),
           call' = [call EXCEPT ![r] = "queued"], thr' = thr,
           \A q \in Requests \ {r} : ticket'[q] = ticket[q]
    PROVE  LineInv' /\ OrderInv'
<1> DEFINE n == Len(lockq)
           m == Len(admitted)
<1>1. /\ n \in Nat /\ DOMAIN lockq = 1..n /\ \A i \in 1..n : lockq[i] \in Requests
      /\ m \in Nat /\ DOMAIN admitted = 1..m /\ \A x \in 1..m : admitted[x] \in Requests
  BY DEF TypeOK
<1>2. /\ DOMAIN lockq' = 1..(n + 1) /\ lockq'[n + 1] = r /\ \A i \in 1..n : lockq'[i] = lockq[i]
      /\ DOMAIN admitted' = 1..(m + 1) /\ admitted'[m + 1] = r
      /\ \A x \in 1..m : admitted'[x] = admitted[x]
  BY DEF TypeOK
<1>3. /\ call'[r] = "queued" /\ \A q \in Requests \ {r} : call'[q] = call[q]
      /\ thr[r] = "none"
  BY DEF TypeOK, CallInv
<1> HIDE DEF n, m
<1>4. (\A i \in 1..n : lockq[i] # r) /\ (\A x \in 1..m : admitted[x] # r)
  BY <1>1 DEF LineInv, OrderInv, Live
<1>s. 1..(n + 1) = 1..n \cup {n + 1} /\ 1..(m + 1) = 1..m \cup {m + 1}
  BY <1>1
<1>5. \A q \in Requests : call'[q] \in Live => \E i \in DOMAIN lockq' : lockq'[i] = q
  <2> SUFFICES ASSUME NEW q \in Requests, call'[q] \in Live PROVE \E i \in DOMAIN lockq' : lockq'[i] = q
    OBVIOUS
  <2>1. CASE q = r
    BY <1>2, <1>s, <2>1
  <2>2. CASE q # r
    <3>1. PICK i \in 1..n : lockq[i] = q
      BY <1>1, <1>3, <2>2 DEF LineInv
    <3> QED BY <1>2, <1>s, <3>1
  <2> QED BY <2>1, <2>2
<1>6. \A i \in DOMAIN lockq' : call'[lockq'[i]] \in Live
  BY <1>1, <1>2, <1>3, <1>4, <1>s DEF LineInv, Live
<1>7. \A i, j \in DOMAIN lockq' : lockq'[i] = lockq'[j] => i = j
  BY <1>1, <1>2, <1>4, <1>s DEF LineInv
<1>8. \A q \in Requests : call'[q] \in {"awaiting", "expired"} /\ thr'[q] # "none" => lockq'[1] = q
  <2> SUFFICES ASSUME NEW q \in Requests, call'[q] \in {"awaiting", "expired"}, thr'[q] # "none"
               PROVE  lockq'[1] = q
    OBVIOUS
  <2>1. q # r /\ call[q] \in {"awaiting", "expired"} /\ thr[q] # "none"
    BY <1>3
  <2>2. lockq[1] = q /\ \E i \in 1..n : lockq[i] = q
    BY <1>1, <2>1 DEF LineInv, Live
  <2>3. 1 \in 1..n
    BY <1>1, <2>2
  <2> QED BY <1>2, <2>2, <2>3
<1>9. LineInv'
  <2>1. \A q \in Requests : ticket'[q].waiting => call'[q] \in Live
    BY <1>3 DEF LineInv, Live
  <2>2. \A q \in Requests : call'[q] \in {"answered", "error", "busy"} => thr'[q] \in {"none", "done"}
    BY <1>3 DEF LineInv
  <2> QED BY <1>5, <1>6, <1>7, <1>8, <2>1, <2>2 DEF LineInv
<1>10. OrderInv'
  <2>1. \A x \in DOMAIN admitted' : call'[admitted'[x]] # "new"
    BY <1>1, <1>2, <1>3, <1>4, <1>s DEF OrderInv
  <2>2. \A x, y \in DOMAIN admitted' : admitted'[x] = admitted'[y] => x = y
    BY <1>1, <1>2, <1>4, <1>s DEF OrderInv
  <2>3. ASSUME NEW i \in DOMAIN lockq', NEW j \in DOMAIN lockq', NEW x \in DOMAIN admitted',
               NEW y \in DOMAIN admitted', i < j, admitted'[x] = lockq'[i], admitted'[y] = lockq'[j]
        PROVE  x < y
    <3>1. i \in 1..n /\ lockq'[i] = lockq[i] /\ lockq[i] # r
      BY <1>1, <1>2, <1>4, <2>3
    <3>2. x \in 1..m /\ admitted'[x] = admitted[x]
      BY <1>2, <1>s, <2>3, <3>1
    <3>3. CASE j = n + 1
      <4>1. y = m + 1
        BY <1>2, <1>4, <1>s, <2>3, <3>3
      <4> QED BY <1>1, <3>2, <4>1
    <3>4. CASE j \in 1..n
      <4>1. y \in 1..m /\ admitted'[y] = admitted[y] /\ lockq'[j] = lockq[j]
        BY <1>2, <1>4, <1>s, <2>3, <3>4
      <4> QED BY <1>1, <2>3, <3>1, <3>2, <3>4, <4>1 DEF OrderInv
    <3> QED BY <1>2, <1>s, <3>3, <3>4
  <2> QED BY <2>1, <2>2, <2>3 DEF OrderInv
<1> QED BY <1>9, <1>10

LEMMA LineStep == TypeOK /\ CallInv /\ LineInv /\ OrderInv /\ [Next]_vars => LineInv' /\ OrderInv'
<1> SUFFICES ASSUME TypeOK, CallInv, LineInv, OrderInv, [Next]_vars PROVE LineInv' /\ OrderInv'
  OBVIOUS
<1>t. /\ thr \in [Requests -> ThreadPCs] /\ call \in [Requests -> CallPCs]
      /\ ticket \in [Requests -> Tickets] /\ lockq \in Seq(Requests) /\ admitted \in Seq(Requests)
  BY DEF TypeOK
<1>w. \A q \in Requests : thr[q] \in {"none", "done"} => Woken(thr)[q] = thr[q]
  BY <1>t DEF Woken
<1>d. DOMAIN Woken(thr) = Requests
  BY <1>t DEF Woken
<1>1. ASSUME NEW r \in Requests, NEW n \in 1..MaxStates, Admit(r, n) PROVE LineInv' /\ OrderInv'
  <2>1. /\ call[r] = "new" /\ lockq' = Append(lockq, r) /\ admitted' = Append(admitted, r)
        /\ call' = [call EXCEPT ![r] = "queued"] /\ thr' = thr
    BY <1>1, Zenon DEF Admit
  <2>2. \A q \in Requests \ {r} : ticket'[q] = ticket[q]
    BY <1>1, <1>t DEF Admit
  <2> QED BY <2>1, <2>2, LineJoin
<1>2. ASSUME NEW r \in Requests, Refuse(r) \/ Expire(r) PROVE LineInv' /\ OrderInv'
  <2>1. /\ UNCHANGED <<lockq, admitted, thr, ticket>>
        /\ \A q \in Requests \ {r} : call'[q] = call[q]
    BY <1>2, <1>t DEF Refuse, Expire
  <2>2. \/ call[r] = "new" /\ call'[r] \in {"error", "busy"}
        \/ call[r] \in {"queued", "awaiting"} /\ call'[r] = "expired"
    BY <1>2, <1>t DEF Refuse, Expire
  <2>3. LineInv'
    <3>1. \A q \in Requests : call'[q] \in Live <=> call[q] \in Live
      BY <2>1, <2>2 DEF Live
    <3>2. \A i \in DOMAIN lockq : lockq[i] \in Requests
      BY <1>t
    <3>3. \A q \in Requests : call'[q] \in {"awaiting", "expired"} /\ thr'[q] # "none" => lockq'[1] = q
      <4> SUFFICES ASSUME NEW q \in Requests, call'[q] \in {"awaiting", "expired"}, thr'[q] # "none"
                   PROVE  lockq'[1] = q
        OBVIOUS
      <4>1. call[q] \in {"awaiting", "expired"} /\ thr[q] # "none"
        BY <2>1, <2>2 DEF CallInv
      <4> QED BY <2>1, <4>1 DEF LineInv
    <3>4. \A q \in Requests : call'[q] \in {"answered", "error", "busy"} => thr'[q] \in {"none", "done"}
      BY <2>1, <2>2 DEF LineInv, CallInv
    <3> QED BY <2>1, <3>1, <3>2, <3>3, <3>4 DEF LineInv
  <2>4. OrderInv'
    <3>1. \A x \in DOMAIN admitted : admitted[x] \in Requests
      BY <1>t
    <3> QED BY <2>1, <2>2, <3>1 DEF OrderInv
  <2> QED BY <2>3, <2>4
<1>3. ASSUME NEW r \in Requests, GetLock(r) PROVE LineInv' /\ OrderInv'
  <2>1. /\ UNCHANGED <<lockq, admitted, ticket>> /\ call[r] = "queued" /\ call'[r] = "awaiting"
        /\ lockq # <<>> /\ Head(lockq) = r
        /\ \A q \in Requests \ {r} : call'[q] = call[q] /\ thr'[q] = thr[q]
    BY <1>3, <1>t DEF GetLock
  <2>2. lockq[1] = r /\ \A i \in DOMAIN lockq : lockq[i] \in Requests
    BY <1>t, <2>1
  <2>3. \A x \in DOMAIN admitted : admitted[x] \in Requests
    BY <1>t
  <2>4. LineInv'
    BY <2>1, <2>2 DEF LineInv, Live
  <2>5. OrderInv'
    BY <2>1, <2>3 DEF OrderInv
  <2> QED BY <2>4, <2>5
<1>4. ASSUME NEW r \in Requests, Return(r) \/ Unwind(r) PROVE LineInv' /\ OrderInv'
  <2>1. /\ lockq' = Unlocked(r) /\ admitted' = admitted /\ call[r] \in Live
    BY <1>4, Zenon DEF Return, Unwind, Live
  <2>2. ~ticket'[r].waiting /\ \A q \in Requests \ {r} : ticket'[q] = ticket[q]
    BY <1>4, <1>t DEF Return, Unwind, Finish, Tickets
  <2>3. \A q \in Requests \ {r} : call'[q] = call[q]
    BY <1>4, <1>t DEF Return, Unwind
  <2>4. \A q \in Requests \ {r} : thr[q] \in {"none", "done"} => thr'[q] = thr[q]
    BY <1>4, <1>w, <1>d DEF Return, Unwind
  <2>5. /\ call'[r] \notin Live /\ call'[r] # "new"
        /\ call'[r] \in {"answered", "error", "busy"} => thr'[r] \in {"none", "done"}
    <3>1. CASE Return(r)
      BY <1>t, <1>w, <3>1 DEF Return, Live
    <3>2. CASE Unwind(r)
      BY <1>t, <3>2 DEF Unwind, Live
    <3> QED BY <1>4, <3>1, <3>2
  <2> QED BY <2>1, <2>2, <2>3, <2>4, <2>5, LineEnd
<1>5. ASSUME NEW r \in Requests, AcquireInteractive(r) PROVE LineInv' /\ OrderInv'
  <2>1. UNCHANGED <<call, lockq, admitted>>
    BY <1>5 DEF AcquireInteractive, loopVars
  <2>2. \A q \in Requests : ticket'[q].waiting => ticket[q].waiting
    BY <1>5, <1>t DEF AcquireInteractive, Tickets
  <2>3. \A q \in Requests : thr[q] \in {"none", "done"} => thr'[q] = thr[q]
    BY <1>5, AcquireShape
  <2> QED BY <2>1, <2>2, <2>3, LineFrame
<1>6. ASSUME NEW r \in Requests, Thread(r), ~AcquireInteractive(r) PROVE LineInv' /\ OrderInv'
  <2>1. UNCHANGED <<call, lockq, admitted, ticket>>
    BY <1>6 DEF Thread, StartThread, SleepInteractive, NextState, PassReturns, PassRaises,
                ReleaseInteractive, loopVars
  <2>2. \A q \in Requests : thr[q] \in {"none", "done"} => thr'[q] = thr[q]
    BY <1>6, <1>t, <1>w, <1>d
    DEF Thread, StartThread, SleepInteractive, NextState, PassReturns, PassRaises, ReleaseInteractive
  <2> QED BY <2>1, <2>2, LineFrame
<1>7. ASSUME NEW b \in Batchers, BatchCall(b) \/ Batch(b) PROVE LineInv' /\ OrderInv'
  <2>1. UNCHANGED <<call, lockq, admitted, ticket>> /\ (thr' = thr \/ thr' = Woken(thr))
    BY <1>7 DEF Batch, BatchCall, SleepBatch, AcquireBatch, BatchPassEnds, ReleaseBatch, loopVars
  <2> QED BY <1>w, <2>1, LineFrame
<1>8. ASSUME Close \/ Unload \/ UNCHANGED vars PROVE LineInv' /\ OrderInv'
  <2>1. UNCHANGED <<call, lockq, admitted, ticket>> /\ (thr' = thr \/ thr' = Woken(thr))
    BY <1>8 DEF Close, Unload, vars, loopVars
  <2> QED BY <1>w, <2>1, LineFrame
<1> QED
  BY <1>1, <1>2, <1>3, <1>4, <1>5, <1>6, <1>7, <1>8 DEF Next, Loop

\* Interactive calls take the slot in the order of their admission
\* (runtime.py:26): when one takes it, no call admitted before it is still
\* waiting, however many were admitted, timed out or were given up.
THEOREM FirstComeFirstServed == Spec => ServedInOrder
<1>1. Init => LineInv /\ OrderInv
  BY DEF Init, LineInv, OrderInv, NoTicket, Live
<1>2. TypeOK /\ CallInv /\ LineInv /\ OrderInv /\ [Next]_vars =>
        [\A r \in Requests : (thr[r] \notin Holding /\ thr'[r] \in Holding) =>
            \A x, y \in DOMAIN admitted : x < y /\ admitted[y] = r =>
               ~ticket[admitted[x]].waiting]_vars
  <2> SUFFICES ASSUME TypeOK, CallInv, LineInv, OrderInv, [Next]_vars, NEW r \in Requests,
                      thr[r] \notin Holding, thr'[r] \in Holding,
                      NEW x \in DOMAIN admitted, NEW y \in DOMAIN admitted,
                      x < y, admitted[y] = r, ticket[admitted[x]].waiting
               PROVE  FALSE
    BY Zenon
  <2>t. /\ thr \in [Requests -> ThreadPCs] /\ lockq \in Seq(Requests) /\ admitted \in Seq(Requests)
        /\ call \in [Requests -> CallPCs]
    BY DEF TypeOK
  <2>w. Woken(thr)[r] \notin Holding /\ DOMAIN Woken(thr) = Requests
    BY <2>t DEF Woken, Holding
  <2>1. AcquireInteractive(r)
    <3>1. ASSUME NEW q \in Requests, NEW n \in 1..MaxStates, Admit(q, n) PROVE FALSE
      BY <3>1 DEF Admit
    <3>2. ASSUME NEW q \in Requests, Refuse(q) \/ Expire(q) \/ GetLock(q) PROVE FALSE
      BY <2>t, <3>2 DEF Refuse, Expire, GetLock, Holding
    <3>3. ASSUME NEW q \in Requests, Return(q) \/ Unwind(q) PROVE FALSE
      BY <3>3, EndShape
    <3>4. ASSUME NEW q \in Requests, AcquireInteractive(q), q # r PROVE FALSE
      BY <3>4, AcquireShape DEF Holding
    <3>5. ASSUME NEW q \in Requests, Thread(q), ~AcquireInteractive(q) PROVE FALSE
      BY <2>t, <2>w, <3>5
      DEF Thread, StartThread, SleepInteractive, NextState, PassReturns, PassRaises,
          ReleaseInteractive, Holding
    <3>6. ASSUME NEW b \in Batchers, BatchCall(b) \/ Batch(b) PROVE FALSE
      BY <2>w, <3>6
      DEF Batch, BatchCall, SleepBatch, AcquireBatch, BatchPassEnds, ReleaseBatch
    <3>7. ASSUME Close \/ Unload \/ UNCHANGED vars PROVE FALSE
      BY <2>w, <3>7 DEF Close, Unload, vars
    <3> QED
      BY <3>1, <3>2, <3>3, <3>4, <3>5, <3>6, <3>7 DEF Next, Loop
  <2>2. thr[r] = "acquire" /\ ~ticket[r].cancelled
    BY <2>1, AcquireShape DEF Holding
  <2>3. call[r] \in {"awaiting", "expired"}
    <3>1. call[r] \notin {"new", "queued", "timeout", "answered", "error", "busy"}
      BY <2>2 DEF CallInv, LineInv
    <3> QED BY <2>t, <3>1 DEF CallPCs
  <2>4. lockq[1] = r
    BY <2>2, <2>3 DEF LineInv
  <2>5. admitted[x] \in Requests /\ x \in Nat /\ y \in Nat
    BY <2>t
  <2>6. PICK i \in DOMAIN lockq : lockq[i] = admitted[x]
    BY <2>5 DEF LineInv
  <2>7. i \in Nat /\ i >= 1 /\ 1 \in DOMAIN lockq
    BY <2>t, <2>6
  <2>8. CASE i = 1
    BY <2>4, <2>5, <2>6, <2>8 DEF OrderInv
  <2>9. CASE i > 1
    <3>1. y < x
      BY <2>4, <2>6, <2>7, <2>9 DEF OrderInv
    <3> QED BY <2>5, <3>1
  <2> QED BY <2>7, <2>8, <2>9
<1> QED BY <1>1, <1>2, LineStep, TypeCorrect, CallsConsistent, PTL DEF Spec, ServedInOrder
=============================================================================
