------------------------------- MODULE Engine -------------------------------
(***************************************************************************)
(* The slot scheduler of engine/runtime.py (InferenceEngine): one forward  *)
(* pass at a time, shared by                                               *)
(*   - interactive calls (predict, predict_all_models): a coroutine on the *)
(*     event loop that is admitted, queues on an asyncio.Lock, hands its   *)
(*     work to an executor thread and may time out at any await; and       *)
(*   - batch calls (predict_blocking): job worker threads.                 *)
(* All shared fields are guarded by one threading.Condition, so a block    *)
(* under `with self._cv` is one step; wait() puts the thread to sleep      *)
(* until a notify_all, which is modelled as such: a step that forgets to   *)
(* notify leaves sleepers asleep.                                          *)
(***************************************************************************)
EXTENDS Integers, Sequences, FiniteSets

CONSTANTS
    Requests,    \* interactive calls
    Batchers,    \* threads that call predict_blocking
    MaxWaiting,  \* Settings.max_waiting_requests
    MaxStates,   \* bound: states of one interactive call
    MaxBatch     \* bound: states one batch thread predicts

ASSUME RequestsAssumption == IsFiniteSet(Requests)
ASSUME BoundsAssumption == MaxWaiting \in Int /\ MaxStates \in Nat /\ MaxBatch \in Nat

VARIABLES
    running,     \* _running: a forward pass holds the slot
    closed,      \* _closed
    waiting,     \* _waiting: admitted calls that do not hold the slot yet
    queuedRows,  \* _queued_rows
    ticket,      \* the _Ticket of each call
    call,        \* where each call's coroutine is
    lockq,       \* the asyncio.Lock: its holder, then its waiters, FIFO
    thr,         \* where each call's executor thread is
    left,        \* states each call has still to predict
    result,      \* what each call's thread ended with
    bat,         \* where each batch thread is
    batchLeft,   \* states each batch thread has still to predict
    stop,        \* progress of stop(): "open", "draining", "stopped"
    overran,     \* _drain() gave up on a pass that was still running
    admitted     \* history: the calls in the order of their admission

vars == <<running, closed, waiting, queuedRows, ticket, call, lockq, thr, left, result,
          bat, batchLeft, stop, overran, admitted>>
batchVars == <<bat, batchLeft>>
stopVars == <<closed, stop, overran>>
loopVars == <<call, lockq, queuedRows, admitted>>

Tickets == [waiting : BOOLEAN, cancelled : BOOLEAN, finished : BOOLEAN, rows : Nat]
NoTicket == [waiting |-> FALSE, cancelled |-> FALSE, finished |-> TRUE, rows |-> 0]
CallPCs == {"new", "queued", "awaiting", "expired", "answered", "error", "timeout", "busy"}
Ended == {"answered", "error", "timeout", "busy"}
ThreadPCs == {"none", "pending", "acquire", "asleep", "check", "pass", "release", "done"}
BatchPCs == {"idle", "acquire", "asleep", "pass", "release"}
Holding == {"check", "pass", "release"}  \* thread states that hold the slot

Init ==
    /\ running = FALSE /\ closed = FALSE /\ waiting = 0 /\ queuedRows = 0
    /\ ticket = [r \in Requests |-> NoTicket]
    /\ call = [r \in Requests |-> "new"]
    /\ lockq = <<>>
    /\ thr = [r \in Requests |-> "none"]
    /\ left = [r \in Requests |-> 0]
    /\ result = [r \in Requests |-> "none"]
    /\ bat = [b \in Batchers |-> "idle"]
    /\ batchLeft = [b \in Batchers |-> MaxBatch]
    /\ stop = "open" /\ overran = FALSE
    /\ admitted = <<>>

----------------------------------------------------------------------------
\* Condition.notify_all: every sleeping thread looks at its condition again.
Woken(pcs) == [x \in DOMAIN pcs |-> IF pcs[x] = "asleep" THEN "acquire" ELSE pcs[x]]

\* The limit of _admit.
Limit == IF MaxWaiting > 0 THEN MaxWaiting ELSE 0

\* _leave_waiting, on the counter; the ticket's own flag is reset by the caller.
WaitingAfter(r) == IF ticket[r].waiting THEN waiting - 1 ELSE waiting

----------------------------------------------------------------------------
(* The event loop: _interactive and _admit.  predict() checks that the     *)
(* engine is started and returns early for an empty list, so n >= 1.       *)

Full == (running \/ waiting > 0) /\ waiting >= Limit
Admit(r, n) ==
    /\ call[r] = "new" /\ ~closed /\ ~Full
    /\ waiting' = waiting + 1
    /\ queuedRows' = queuedRows + n
    /\ ticket' = [ticket EXCEPT ![r] = [waiting |-> TRUE, cancelled |-> FALSE,
                                        finished |-> FALSE, rows |-> n]]
    /\ left' = [left EXCEPT ![r] = n]
    /\ call' = [call EXCEPT ![r] = "queued"]
    /\ lockq' = Append(lockq, r)
    /\ admitted' = Append(admitted, r)
    /\ UNCHANGED <<running, thr, result, batchVars, stopVars>>

\* EngineBusy, or the RuntimeError of a stopped engine.
Refuse(r) ==
    /\ call[r] = "new" /\ (closed \/ Full)
    /\ call' = [call EXCEPT ![r] = IF closed THEN "error" ELSE "busy"]
    /\ UNCHANGED <<running, waiting, queuedRows, ticket, lockq, thr, left, result, admitted,
                   batchVars, stopVars>>

\* (Mutant: the call goes to the executor without the asyncio.Lock.)
GetLockUnordered(r) ==
    /\ call[r] = "queued"
    /\ call' = [call EXCEPT ![r] = "awaiting"]
    /\ thr' = [thr EXCEPT ![r] = "pending"]
    /\ UNCHANGED <<running, waiting, queuedRows, ticket, lockq, left, result, admitted,
                   batchVars, stopVars>>

\* The coroutine gets the lock and submits _with_slot to the executor.
GetLock(r) ==
    /\ call[r] = "queued" /\ lockq # <<>> /\ Head(lockq) = r
    /\ call' = [call EXCEPT ![r] = "awaiting"]
    /\ thr' = [thr EXCEPT ![r] = "pending"]
    /\ UNCHANGED <<running, waiting, queuedRows, ticket, lockq, left, result, admitted,
                   batchVars, stopVars>>

\* asyncio.timeout expires, or the caller goes away: the task is cancelled; it
\* unwinds the next time the event loop runs it.
Expire(r) ==
    /\ call[r] \in {"queued", "awaiting"}
    /\ call' = [call EXCEPT ![r] = "expired"]
    /\ UNCHANGED <<running, waiting, queuedRows, ticket, lockq, thr, left, result, admitted,
                   batchVars, stopVars>>

\* (Mutant: the rows of a call that did not complete are never given back.)
FinishLeaksRows(r, cancelled) ==
    /\ waiting' = WaitingAfter(r)
    /\ queuedRows' = IF ticket[r].finished \/ cancelled THEN queuedRows
                     ELSE queuedRows - ticket[r].rows
    /\ ticket' = [ticket EXCEPT ![r].waiting = FALSE, ![r].finished = TRUE,
                                ![r].cancelled = ticket[r].cancelled \/ cancelled]
    /\ bat' = Woken(bat)

\* _finish, the last thing _interactive does.
Finish(r, cancelled) ==
    /\ waiting' = WaitingAfter(r)
    /\ queuedRows' = IF ticket[r].finished THEN queuedRows ELSE queuedRows - ticket[r].rows
    /\ ticket' = [ticket EXCEPT ![r].waiting = FALSE, ![r].finished = TRUE,
                                ![r].cancelled = ticket[r].cancelled \/ cancelled]
    /\ bat' = Woken(bat)

\* Leaving `async with lock`: the next waiter in line owns it.
Unlocked(r) ==
    LET k == CHOOSE x \in DOMAIN lockq : lockq[x] = r
    IN [x \in 1..(Len(lockq) - 1) |-> IF x < k THEN lockq[x] ELSE lockq[x + 1]]

\* The thread is done and the coroutine returns its result or its exception.
Return(r) ==
    /\ call[r] = "awaiting" /\ thr[r] = "done"
    /\ call' = [call EXCEPT ![r] = IF result[r] = "ok" THEN "answered" ELSE "error"]
    /\ lockq' = Unlocked(r)
    /\ Finish(r, result[r] # "ok")
    /\ thr' = Woken(thr)
    /\ UNCHANGED <<running, left, result, admitted, batchLeft, stopVars>>

\* The cancelled task unwinds.  A thread that has not started never will; one
\* that has goes on without anybody waiting for it.
Unwind(r) ==
    /\ call[r] = "expired"
    /\ call' = [call EXCEPT ![r] = "timeout"]
    /\ lockq' = Unlocked(r)
    /\ Finish(r, TRUE)
    /\ thr' = [Woken(thr) EXCEPT ![r] = IF @ = "pending" THEN "none" ELSE @]
    /\ UNCHANGED <<running, left, result, admitted, batchLeft, stopVars>>

----------------------------------------------------------------------------
(* The executor thread of an interactive call: _with_slot.                 *)

StartThread(r) ==
    /\ thr[r] = "pending"
    /\ thr' = [thr EXCEPT ![r] = "acquire"]
    /\ UNCHANGED <<running, waiting, ticket, left, result, loopVars, batchVars, stopVars>>

\* _acquire_interactive: sleep, or stop waiting and take the slot or raise.
MustSleep(r) == running /\ ~closed /\ ~ticket[r].cancelled
SleepInteractive(r) ==
    /\ thr[r] = "acquire" /\ MustSleep(r)
    /\ thr' = [thr EXCEPT ![r] = "asleep"]
    /\ UNCHANGED <<running, waiting, ticket, left, result, loopVars, batchVars, stopVars>>
\* (Mutant: a thread whose caller gave up still takes the free slot.)
AcquireInteractiveGivenUp(r) ==
    /\ thr[r] = "acquire" /\ ~MustSleep(r) /\ (ticket[r].cancelled => ~running)
    /\ waiting' = WaitingAfter(r)
    /\ ticket' = [ticket EXCEPT ![r].waiting = FALSE]
    /\ thr' = [Woken(thr) EXCEPT ![r] = IF closed THEN "done" ELSE "check"]
    /\ running' = (running \/ ~closed)
    /\ bat' = Woken(bat)
    /\ UNCHANGED <<left, result, batchLeft, loopVars, stopVars>>
AcquireInteractive(r) ==
    /\ thr[r] = "acquire" /\ ~MustSleep(r)
    /\ waiting' = WaitingAfter(r)
    /\ ticket' = [ticket EXCEPT ![r].waiting = FALSE]
    /\ LET pcs == IF ticket[r].waiting THEN Woken(thr) ELSE thr IN
       IF closed \/ ticket[r].cancelled
       THEN /\ thr' = [pcs EXCEPT ![r] = "done"]
            /\ result' = [result EXCEPT ![r] = "raised"]
            /\ UNCHANGED running
       ELSE /\ thr' = [pcs EXCEPT ![r] = "check"]
            /\ running' = TRUE
            /\ UNCHANGED result
    /\ bat' = IF ticket[r].waiting THEN Woken(bat) ELSE bat
    /\ UNCHANGED <<left, batchLeft, loopVars, stopVars>>

\* (Mutant: the loop runs once too often.)
NextStateOffByOne(r) ==
    /\ thr[r] = "check"
    /\ IF ticket[r].cancelled \/ left[r] < 0
       THEN /\ thr' = [thr EXCEPT ![r] = "release"]
            /\ result' = [result EXCEPT ![r] = IF left[r] < 0 THEN "ok" ELSE "raised"]
       ELSE /\ thr' = [thr EXCEPT ![r] = "pass"]
            /\ UNCHANGED result
    /\ UNCHANGED <<running, waiting, ticket, left, loopVars, batchVars, stopVars>>

\* The loop over the states (or, for _compare, the checkpoints): a cancelled
\* ticket ends it between two passes.  Reading the flag and entering the pass
\* are one step: a cancellation between the two counts as one during the pass.
NextState(r) ==
    /\ thr[r] = "check"
    /\ \/ /\ left[r] > 0 /\ ~ticket[r].cancelled
          /\ thr' = [thr EXCEPT ![r] = "pass"]
          /\ UNCHANGED result
       \/ /\ left[r] > 0 /\ ticket[r].cancelled
          /\ thr' = [thr EXCEPT ![r] = "release"]
          /\ result' = [result EXCEPT ![r] = "raised"]
       \/ /\ left[r] = 0
          /\ thr' = [thr EXCEPT ![r] = "release"]
          /\ result' = [result EXCEPT ![r] = "ok"]
    /\ UNCHANGED <<running, waiting, ticket, left, loopVars, batchVars, stopVars>>

\* _forward returns or raises.
PassReturns(r) ==
    /\ thr[r] = "pass"
    /\ thr' = [thr EXCEPT ![r] = "check"]
    /\ left' = [left EXCEPT ![r] = @ - 1]
    /\ UNCHANGED <<running, waiting, ticket, result, loopVars, batchVars, stopVars>>
PassRaises(r) ==
    /\ thr[r] = "pass"
    /\ thr' = [thr EXCEPT ![r] = "release"]
    /\ result' = [result EXCEPT ![r] = "raised"]
    /\ UNCHANGED <<running, waiting, ticket, left, loopVars, batchVars, stopVars>>

\* (Mutant: _release frees the slot and notifies nobody.)
ReleaseInteractiveSilent(r) ==
    /\ thr[r] = "release"
    /\ running' = FALSE
    /\ thr' = [thr EXCEPT ![r] = "done"]
    /\ UNCHANGED <<waiting, ticket, left, result, batchVars, loopVars, stopVars>>

\* _release
ReleaseInteractive(r) ==
    /\ thr[r] = "release"
    /\ running' = FALSE
    /\ thr' = [Woken(thr) EXCEPT ![r] = "done"]
    /\ bat' = Woken(bat)
    /\ UNCHANGED <<waiting, ticket, left, result, batchLeft, loopVars, stopVars>>

----------------------------------------------------------------------------
(* Batch threads: predict_blocking, one acquisition per state.             *)

BatchCall(b) ==
    /\ bat[b] = "idle" /\ batchLeft[b] > 0 /\ ~closed
    /\ bat' = [bat EXCEPT ![b] = "acquire"]
    /\ UNCHANGED <<running, waiting, ticket, thr, left, result, batchLeft, loopVars, stopVars>>

\* (Mutants: a batch thread that does not look at the slot, and one that does
\* not look at the interactive calls.)
BatchMustSleepNoSlot == waiting > 0 /\ ~closed
BatchMustSleepGreedy == running /\ ~closed
\* _acquire_batch
BatchMustSleep == (running \/ waiting > 0) /\ ~closed
SleepBatch(b) ==
    /\ bat[b] = "acquire" /\ BatchMustSleep
    /\ bat' = [bat EXCEPT ![b] = "asleep"]
    /\ UNCHANGED <<running, waiting, ticket, thr, left, result, batchLeft, loopVars, stopVars>>
\* (Mutant: a batch thread that does not look at _closed after the wait.)
AcquireBatchAfterClose(b) ==
    /\ bat[b] = "acquire" /\ ~BatchMustSleep /\ ~running
    /\ bat' = [bat EXCEPT ![b] = "pass"]
    /\ running' = TRUE
    /\ UNCHANGED <<waiting, ticket, thr, left, result, batchLeft, loopVars, stopVars>>
AcquireBatch(b) ==
    /\ bat[b] = "acquire" /\ ~BatchMustSleep
    /\ IF closed
       THEN /\ bat' = [bat EXCEPT ![b] = "idle"]
            /\ UNCHANGED running
       ELSE /\ bat' = [bat EXCEPT ![b] = "pass"]
            /\ running' = TRUE
    /\ UNCHANGED <<waiting, ticket, thr, left, result, batchLeft, loopVars, stopVars>>

\* _forward returns or raises; the finally clause releases in both cases.
BatchPassEnds(b) ==
    /\ bat[b] = "pass"
    /\ bat' = [bat EXCEPT ![b] = "release"]
    /\ batchLeft' = [batchLeft EXCEPT ![b] = @ - 1]
    /\ UNCHANGED <<running, waiting, ticket, thr, left, result, loopVars, stopVars>>
\* (Mutant: the release of a batch pass notifies nobody.)
ReleaseBatchSilent(b) ==
    /\ bat[b] = "release"
    /\ running' = FALSE
    /\ bat' = [bat EXCEPT ![b] = "idle"]
    /\ UNCHANGED <<waiting, ticket, thr, left, result, batchLeft, loopVars, stopVars>>
ReleaseBatch(b) ==
    /\ bat[b] = "release"
    /\ running' = FALSE
    /\ bat' = [Woken(bat) EXCEPT ![b] = "idle"]
    /\ thr' = Woken(thr)
    /\ UNCHANGED <<waiting, ticket, left, result, batchLeft, loopVars, stopVars>>

----------------------------------------------------------------------------
(* stop(): close, wake everybody, drain, unload the checkpoints.           *)

Close ==
    /\ stop = "open"
    /\ closed' = TRUE /\ stop' = "draining"
    /\ thr' = Woken(thr) /\ bat' = Woken(bat)
    /\ UNCHANGED <<running, waiting, ticket, left, result, batchLeft, loopVars, overran>>

\* _drain returns when the slot is free, or after its timeout; then
\* router.unload() drops every checkpoint.
Unload ==
    /\ stop = "draining"
    /\ stop' = "stopped" /\ overran' = running
    /\ UNCHANGED <<running, waiting, ticket, thr, left, result, batchVars, loopVars, closed>>

----------------------------------------------------------------------------
Loop(r) == GetLock(r) \/ Return(r) \/ Unwind(r)
Thread(r) ==
    \/ StartThread(r) \/ SleepInteractive(r) \/ AcquireInteractive(r)
    \/ NextState(r) \/ PassReturns(r) \/ PassRaises(r) \/ ReleaseInteractive(r)
Batch(b) ==
    \/ SleepBatch(b) \/ AcquireBatch(b)
    \/ BatchPassEnds(b) \/ ReleaseBatch(b)

Next ==
    \/ \E r \in Requests :
          \/ \E n \in 1..MaxStates : Admit(r, n)
          \/ Refuse(r) \/ Expire(r) \/ Loop(r) \/ Thread(r)
    \/ \E b \in Batchers : BatchCall(b) \/ Batch(b)
    \/ Close \/ Unload

Spec == Init /\ [][Next]_vars

\* The event loop runs its ready coroutines, started threads go on and passes
\* end; nobody is obliged to call, to time out or to stop the engine.
Fairness ==
    /\ \A r \in Requests : WF_vars(Loop(r)) /\ WF_vars(Thread(r))
    /\ \A b \in Batchers : WF_vars(Batch(b))
FairSpec == Spec /\ Fairness

----------------------------------------------------------------------------
(* Properties.                                                             *)

TypeOK ==
    /\ running \in BOOLEAN /\ closed \in BOOLEAN /\ overran \in BOOLEAN
    /\ waiting \in Int /\ queuedRows \in Int
    /\ ticket \in [Requests -> Tickets]
    /\ call \in [Requests -> CallPCs]
    /\ lockq \in Seq(Requests) /\ admitted \in Seq(Requests)
    /\ thr \in [Requests -> ThreadPCs]
    /\ left \in [Requests -> 0..MaxStates]
    /\ result \in [Requests -> {"none", "ok", "raised"}]
    /\ bat \in [Batchers -> BatchPCs]
    /\ batchLeft \in [Batchers -> 0..MaxBatch]
    /\ stop \in {"open", "draining", "stopped"}

\* "Exactly ONE forward pass runs at a time" (runtime.py:7): the slot is taken
\* iff one thread holds it, and never do two, whatever times out, raises or is
\* woken, and whoever was abandoned by its caller.
SlotExclusive ==
    /\ running <=> \/ \E r \in Requests : thr[r] \in Holding
                   \/ \E b \in Batchers : bat[b] \in Holding
    /\ \A r, q \in Requests : thr[r] \in Holding /\ thr[q] \in Holding => r = q
    /\ \A a, b \in Batchers : bat[a] \in Holding /\ bat[b] \in Holding => a = b
    /\ \A r \in Requests, b \in Batchers : ~(thr[r] \in Holding /\ bat[b] \in Holding)

\* _waiting is the number of calls that were admitted and have neither taken
\* the slot nor given up, so batch threads yield exactly while there are some.
WaitingCounted == waiting = Cardinality({r \in Requests : ticket[r].waiting})

\* "At most max_waiting_requests interactive calls wait at once ... A call
\* arriving at an idle engine is always admitted" (runtime.py:29-30).
AdmissionBound == waiting >= 0 /\ waiting <= (IF Limit = 0 THEN 1 ELSE Limit)

\* What admission counts is exact whatever timed out, raised or was given up:
\* never more calls wait than the limit allows, _waiting is the number of calls
\* that wait, and _queued_rows, behind the retry-after estimate of EngineBusy, is
\* the number of the rows of the admitted calls that have not ended.
Rows == UNION {{r} \X (1..ticket[r].rows) : r \in {q \in Requests : ~ticket[q].finished}}
RowsAccounted == queuedRows = Cardinality(Rows)
AdmissionExact == AdmissionBound /\ WaitingCounted /\ RowsAccounted

\* No lost wake-up: a thread sleeps on the condition only while what it waits
\* for has not happened.  Otherwise it might sleep for ever, as the condition
\* is signalled only when it changes.
NoLostWakeup ==
    /\ \A r \in Requests : thr[r] = "asleep" => MustSleep(r)
    /\ \A b \in Batchers : bat[b] = "asleep" => BatchMustSleep

\* "A caller that times out while still queued never runs ... a multi-state
\* call stops after the current state" (runtime.py:31-34): once a call was
\* reported as timed out, its abandoned thread does not take the slot, and if it
\* has it, begins no further pass.
GivenUpNeverRuns ==
    [][\A r \in Requests : call[r] = "timeout" =>
          /\ thr[r] \notin Holding => thr'[r] \notin Holding
          /\ thr[r] # "pass" => thr'[r] # "pass"]_vars

\* "An interactive call waits for at most one in-flight row group"
\* (runtime.py:12-14): no batch pass begins while an admitted call waits.
BatchYields ==
    [][\A b \in Batchers : (bat[b] # "pass" /\ bat'[b] = "pass") =>
          \A r \in Requests : ~ticket[r].waiting]_vars

\* Interactive callers are served first come first served (runtime.py:26): when
\* a call takes the slot, no call admitted before it is still waiting, unless
\* that one has timed out.
ServedInOrder ==
    [][\A r \in Requests : (thr[r] \notin Holding /\ thr'[r] \in Holding) =>
          \A x, y \in DOMAIN admitted : x < y /\ admitted[y] = r =>
             ~ticket[admitted[x]].waiting]_vars

\* stop() unloads the checkpoints only after the last pass, unless that pass
\* outlived the drain timeout; and no pass begins afterwards.
UnloadAfterLastPass ==
    stop = "stopped" /\ ~overran =>
        /\ \A r \in Requests : thr[r] \notin Holding
        /\ \A b \in Batchers : bat[b] \notin Holding

\* Every admitted call ends, although nobody is obliged to time out, and every
\* batch thread gets its turn once the interactive calls are over.
CallsEnd ==
    /\ \A r \in Requests : (call[r] = "queued") ~> (call[r] \in Ended)
    /\ \A b \in Batchers : (bat[b] = "acquire") ~> (bat[b] \in {"pass", "idle"})
=============================================================================
