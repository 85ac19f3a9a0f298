-------------------------------- MODULE Jobs --------------------------------
(***************************************************************************)
(* The asynchronous jobs of laya-mcp: jobs/service.py (JobService), the    *)
(* job part of db/repo.py, jobs/queue.py and the lifespan of app.py that   *)
(* starts and stops them.                                                  *)
(*                                                                         *)
(* The SQL tables (job, item) survive a restart.  The Huey queue carries   *)
(* "process these items of that job" messages; worker threads dequeue them *)
(* and walk the items; a submitter (a tool call) writes the rows first and *)
(* enqueues afterwards.  Each method of Repo is one SQLite transaction     *)
(* (BEGIN IMMEDIATE), so it is one atomic step here; everything between    *)
(* two transactions can interleave with every other thread.                *)
(*                                                                         *)
(* Item indexes start at 1 (0 in the code).  Jobs are numbered in the      *)
(* order of their creation, the order in which active_jobs() returns them. *)
(***************************************************************************)
EXTENDS Integers, Sequences, FiniteSets

CONSTANTS
    Workers,      \* the consumer's worker threads (Settings.job_workers)
    Clients,      \* threads that run submit() for a tool call
    MaxJobs,      \* bound: jobs ever created
    MaxItems,     \* bound: items of one job
    ChunkSize,    \* JobService.chunk_size: items per Huey message
    Retries,      \* retries= of the Huey task (2 in the code)
    MaxFaults,    \* bound: transactions and enqueues that raise
    FaultPoints,  \* the pcs at which a transaction or enqueue may raise
    MaxRestarts   \* bound: crashes and clean stops of the server process

Threads == Workers \cup Clients
Jobs == 1..MaxJobs
Idx == 1..MaxItems
Kinds == {"batch", "evaluate"}
Active == {"queued", "running"}
Terminal == {"completed", "failed", "cancelled"}
\* The statuses of an item row that count as processed.  "interrupted" is a
\* row with status 'failed' whose error is the engine's "is stopped" error.
Processed == {"done", "failed", "interrupted"}
FailedItem == {"failed", "interrupted"}

ASSUME ThreadsAssumption ==
    /\ Workers \cap Clients = {}
    /\ IsFiniteSet(Workers) /\ IsFiniteSet(Clients)
ASSUME BoundsAssumption ==
    /\ MaxJobs \in Nat \ {0} /\ MaxItems \in Nat
    /\ ChunkSize \in Nat \ {0} /\ Retries \in Nat
    /\ MaxFaults \in Nat /\ MaxRestarts \in Nat
ASSUME FaultPointsAssumption ==
    FaultPoints \subseteq {"enqueue", "check", "start", "finish", "claim", "complete"}

VARIABLES
    job,       \* the jobs table: one row per job
    item,      \* the job_items table: status of each item of each job
    queue,     \* Huey's FIFO queue of messages
    schedule,  \* Huey's schedule: messages waiting for their retry delay
    thread,    \* what each worker and submitter is doing
    phase,     \* of the server process, see Phases
    cursor,    \* next job _recover() looks at while phase = "starting"
    stranded,  \* history: jobs that lost a message or a completer to a fault: see Dispatched
    faults,    \* number of faults so far
    restarts   \* number of crashes and stops so far

vars == <<job, item, queue, schedule, thread, phase, cursor, stranded, faults, restarts>>
tables == <<job, item>>
broker == <<queue, schedule>>
server == <<phase, cursor, restarts>>
history == <<stranded, faults>>

Phases == {"down", "starting", "up", "stopping", "closing"}
PCs == {"idle", "enqueue", "check", "loop", "start", "predict", "finish",
        "claim", "hooks", "complete"}
Messages == [job : Jobs, idxs : Seq(Idx), retries : 0..Retries]
Rows == [status : Active \cup Terminal \cup {"absent"}, kind : Kinds,
         total : 0..MaxItems, done : Nat, failed : Nat,
         finalized : BOOLEAN, finished : BOOLEAN, ref : BOOLEAN, error : BOOLEAN]
\* todo: the items the thread has still to enqueue or process; msg: the message
\* being executed (submitters keep fin, submit's finalize argument); got: the
\* outcome of the prediction or of the hooks.
Frames == [pc : PCs, job : Jobs, todo : Seq(Idx), msg : Messages, fin : BOOLEAN,
           got : {"none", "done", "failed", "interrupted", "hook error"}]

NoMessage == [job |-> 1, idxs |-> <<>>, retries |-> 0]
Idle == [pc |-> "idle", job |-> 1, todo |-> <<>>, msg |-> NoMessage,
         fin |-> FALSE, got |-> "none"]
NoRow == [status |-> "absent", kind |-> "batch", total |-> 0, done |-> 0,
          failed |-> 0, finalized |-> FALSE, finished |-> FALSE,
          ref |-> FALSE, error |-> FALSE]

Init ==
    /\ job = [j \in Jobs |-> NoRow]
    /\ item = [j \in Jobs |-> [i \in Idx |-> "absent"]]
    /\ queue = <<>>
    /\ schedule = {}
    /\ thread = [t \in Threads |-> Idle]
    /\ phase = "up"
    /\ cursor = 1
    /\ stranded = {}
    /\ faults = 0
    /\ restarts = 0

----------------------------------------------------------------------------
(* Reading the tables.                                                     *)

IsActive(j) == job[j].status \in Active
IsTerminal(j) == job[j].status \in Terminal
ItemsIn(j, S) == {i \in Idx : item[j][i] \in S}
Pending(j) == ItemsIn(j, {"pending"})

\* pending_item_indexes: the pending items of a job, in index order (the one
\* sequence in this set).
PendingIdxs(j) ==
    {s \in [1..Cardinality(Pending(j)) -> Pending(j)] :
        \A x, y \in DOMAIN s : x < y => s[x] < s[y]}

\* stopping is set from the moment stop() runs until the next start().
Stopping == phase \in {"stopping", "closing"}
\* engine.stop() has begun: a prediction that has not got the slot raises.
EngineClosed == phase = "closing"

----------------------------------------------------------------------------
(* Submission: submit(), create_job, append_job_items, _enqueue.           *)

\* The indexes of n items added after the first k.
NewIdxs(k, n) == [x \in 1..n |-> k + x]
WithItems(j, k, n) ==
    [item EXCEPT ![j] = [i \in Idx |-> IF i \in (k + 1)..(k + n) THEN "pending" ELSE @[i]]]

\* The submitter's frame once the rows are committed: it enqueues the chunks,
\* then, when it finalized the job, tries to complete it.
\* (Mutant: a submit that never tries to complete what it finalized.)
AfterEnqueueNoComplete(fr) == IF fr.todo # <<>> THEN [fr EXCEPT !.pc = "enqueue"] ELSE Idle
AfterEnqueue(fr) == IF fr.todo # <<>> THEN [fr EXCEPT !.pc = "enqueue"]
                    ELSE IF fr.fin THEN [fr EXCEPT !.pc = "claim"]
                    ELSE Idle
Submitting(j, k, n, fin) ==
    AfterEnqueue([Idle EXCEPT !.job = j, !.todo = NewIdxs(k, n), !.fin = fin])

CreateJob(c, k, n, fin) ==
    /\ phase = "up" /\ thread[c].pc = "idle"
    /\ \E j \in Jobs :
        /\ job[j].status = "absent" /\ \A m \in Jobs : m < j => job[m].status # "absent"
        /\ job' = [job EXCEPT ![j] = [NoRow EXCEPT !.status = "queued", !.kind = k,
                                                   !.total = n, !.finalized = fin]]
        /\ item' = WithItems(j, 0, n)
        /\ thread' = [thread EXCEPT ![c] = Submitting(j, 0, n, fin)]
    /\ UNCHANGED <<broker, server, history>>

\* (Mutant: appends to a job that was already finalized.)
AppendItemsClosed(c, j, n, fin) ==
    /\ phase = "up" /\ thread[c].pc = "idle"
    /\ IsActive(j)
    /\ job[j].total + n <= MaxItems
    /\ job' = [job EXCEPT ![j].total = @ + n, ![j].finalized = fin]
    /\ item' = WithItems(j, job[j].total, n)
    /\ thread' = [thread EXCEPT ![c] = Submitting(j, job[j].total, n, fin)]
    /\ UNCHANGED <<broker, server, history>>

\* JobClosed is raised, and nothing changes, unless the job is open and active.
AppendItems(c, j, n, fin) ==
    /\ phase = "up" /\ thread[c].pc = "idle"
    /\ IsActive(j) /\ ~job[j].finalized
    /\ job[j].total + n <= MaxItems
    /\ job' = [job EXCEPT ![j].total = @ + n, ![j].finalized = fin]
    /\ item' = WithItems(j, job[j].total, n)
    /\ thread' = [thread EXCEPT ![c] = Submitting(j, job[j].total, n, fin)]
    /\ UNCHANGED <<broker, server, history>>

\* The messages of a list of items: slices of ChunkSize, in order.
Slice(s, x) == SubSeq(s, (x - 1) * ChunkSize + 1,
                      IF x * ChunkSize < Len(s) THEN x * ChunkSize ELSE Len(s))
Message(j, s) == [job |-> j, idxs |-> s, retries |-> Retries]
Chunks(j, s) == [x \in 1..((Len(s) + ChunkSize - 1) \div ChunkSize) |-> Message(j, Slice(s, x))]

\* One iteration of _enqueue's loop.
EnqueueChunk(c) ==
    LET fr == thread[c] IN
    /\ fr.pc = "enqueue"
    /\ queue' = Append(queue, Message(fr.job, Slice(fr.todo, 1)))
    /\ thread' = [thread EXCEPT ![c] = AfterEnqueue([fr EXCEPT !.todo =
                     SubSeq(@, Len(Slice(@, 1)) + 1, Len(@))])]
    /\ UNCHANGED <<tables, schedule, server, history>>

\* cancel_job: one transaction, in the thread of the tool call.
\* (Mutant: cancels a job that is already claimed for completion.)
CanCancelClaimed(j) == IsActive(j)
CanCancel(j) == IsActive(j) /\ ~job[j].finished
Cancel(j) ==
    /\ phase = "up" /\ CanCancel(j)
    /\ job' = [job EXCEPT ![j].status = "cancelled", ![j].finished = TRUE]
    /\ item' = [item EXCEPT ![j] = [i \in Idx |-> IF @[i] = "pending" THEN "cancelled" ELSE @[i]]]
    /\ UNCHANGED <<broker, thread, server, history>>

----------------------------------------------------------------------------
(* Workers: _process_items, one step per transaction or prediction.        *)

\* A Huey worker takes the head of the queue.  It may still do so between the
\* two flags that stop() sets, the service's and the consumer's.
Dequeue(w) ==
    /\ phase \in {"up", "stopping"} /\ thread[w].pc = "idle" /\ queue # <<>>
    /\ LET m == Head(queue)
       IN thread' = [thread EXCEPT ![w] = [Idle EXCEPT !.pc = "check", !.job = m.job,
                                                       !.todo = m.idxs, !.msg = m]]
    /\ queue' = Tail(queue)
    /\ UNCHANGED <<tables, schedule, server, history>>

CheckJob(w) ==
    /\ thread[w].pc = "check"
    /\ thread' = [thread EXCEPT ![w] = IF IsActive(@.job) THEN [@ EXCEPT !.pc = "loop"] ELSE Idle]
    /\ UNCHANGED <<tables, broker, server, history>>

\* The head of the loop over idxs: the test of _stopping, and the loop's end.
NextItem(w) ==
    /\ thread[w].pc = "loop"
    /\ thread' = [thread EXCEPT ![w] = IF @.todo = <<>> THEN [@ EXCEPT !.pc = "claim"]
                                       ELSE IF Stopping THEN Idle
                                       ELSE [@ EXCEPT !.pc = "start"]]
    /\ UNCHANGED <<tables, broker, server, history>>

Skip(fr) == [fr EXCEPT !.pc = "loop", !.todo = Tail(@), !.got = "none"]

\* start_job_item: 'stop', 'skip' or 'run'.
StartItem(w) ==
    LET fr == thread[w]
        j == fr.job
        i == Head(fr.todo)
    IN /\ fr.pc = "start"
       /\ \/ /\ ~IsActive(j)
             /\ thread' = [thread EXCEPT ![w] = Idle]
             /\ job' = job
          \/ /\ IsActive(j) /\ item[j][i] # "pending"
             /\ thread' = [thread EXCEPT ![w] = Skip(fr)]
             /\ job' = job
          \/ /\ IsActive(j) /\ item[j][i] = "pending"
             /\ thread' = [thread EXCEPT ![w].pc = "predict"]
             /\ job' = [job EXCEPT ![j].status = "running"]
       /\ UNCHANGED <<item, broker, server, history>>

\* engine.predict_blocking returns; a pass that holds the slot also returns
\* while the engine drains.
PredictReturns(w) ==
    /\ thread[w].pc = "predict"
    /\ thread' = [thread EXCEPT ![w].pc = "finish", ![w].got = "done"]
    /\ UNCHANGED <<tables, broker, server, history>>

\* (Mutant: an exception during shutdown is recorded like any other.)
PredictRaisesRecorded(w) ==
    /\ thread[w].pc = "predict"
    /\ thread' = [thread EXCEPT ![w].pc = "finish",
                       ![w].got = IF EngineClosed THEN "interrupted" ELSE "failed"]
    /\ UNCHANGED <<tables, broker, server, history>>

\* It raises: on the state's own account, or, once the engine is closed,
\* because it is stopped.  During shutdown the item is left pending.
PredictRaises(w) ==
    /\ thread[w].pc = "predict"
    /\ thread' = [thread EXCEPT ![w] =
          IF Stopping THEN Idle
          ELSE [@ EXCEPT !.pc = "finish",
                         !.got = IF EngineClosed THEN "interrupted" ELSE "failed"]]
    /\ UNCHANGED <<tables, broker, server, history>>

\* (Mutant: counts a late result of an item that is no longer pending.)
FinishItemLate(w) ==
    LET fr == thread[w]
        j == fr.job
        i == Head(fr.todo)
    IN /\ fr.pc = "finish"
       /\ item' = [item EXCEPT ![j][i] = IF @ = "pending" THEN fr.got ELSE @]
       /\ job' = [job EXCEPT ![j].done = @ + 1,
                             ![j].failed = IF fr.got \in FailedItem THEN @ + 1 ELSE @]
       /\ thread' = [thread EXCEPT ![w] = Skip(fr)]
       /\ UNCHANGED <<broker, server, history>>

\* finish_job_item: only a pending item takes the outcome.
FinishItem(w) ==
    LET fr == thread[w]
        j == fr.job
        i == Head(fr.todo)
    IN /\ fr.pc = "finish"
       /\ IF item[j][i] = "pending"
          THEN /\ item' = [item EXCEPT ![j][i] = fr.got]
               /\ job' = [job EXCEPT ![j].done = @ + 1,
                                     ![j].failed = IF fr.got \in FailedItem THEN @ + 1 ELSE @]
          ELSE UNCHANGED tables
       /\ thread' = [thread EXCEPT ![w] = Skip(fr)]
       /\ UNCHANGED <<broker, server, history>>

----------------------------------------------------------------------------
(* Completion: _maybe_complete, in a worker or in the submitter's thread.  *)

\* (Mutants: a claim that forgets the finalized flag, and one that forgets
\* finished_at.)
ClaimableOpen(j) ==
    /\ IsActive(j) /\ ~job[j].finished
    /\ job[j].done >= job[j].total
ClaimableTwice(j) ==
    /\ IsActive(j) /\ job[j].finalized
    /\ job[j].done >= job[j].total
Claimable(j) ==
    /\ IsActive(j) /\ job[j].finalized /\ ~job[j].finished
    /\ job[j].done >= job[j].total
AllFailed(j) == job[j].total > 0 /\ job[j].failed >= job[j].total

\* claim_job_completion; the caller goes on to the hooks only when it got the
\* job and the job is not 'failed'.
Claim(t) ==
    LET j == thread[t].job IN
    /\ thread[t].pc = "claim"
    /\ \/ /\ ~Claimable(j)
          /\ thread' = [thread EXCEPT ![t] = Idle]
          /\ job' = job
       \/ /\ Claimable(j) /\ AllFailed(j)
          /\ thread' = [thread EXCEPT ![t] = Idle]
          /\ job' = [job EXCEPT ![j].finished = TRUE, ![j].status = "failed", ![j].error = TRUE]
       \/ /\ Claimable(j) /\ ~AllFailed(j)
          /\ thread' = [thread EXCEPT ![t].pc = "hooks"]
          /\ job' = [job EXCEPT ![j].finished = TRUE]
    /\ UNCHANGED <<item, broker, server, history>>

\* _run_hooks: an evaluate job has the report hook, whose last write is
\* set_job_result_ref; an exception in it is kept for complete_job.  A batch
\* job has no hook.
HooksReturn(t) ==
    LET j == thread[t].job IN
    /\ thread[t].pc = "hooks"
    /\ job' = [job EXCEPT ![j].ref = (job[j].kind = "evaluate") \/ @]
    /\ thread' = [thread EXCEPT ![t].pc = "complete"]
    /\ UNCHANGED <<item, broker, server, history>>
\* (Mutant: the error of a hook is logged but not kept.)
HooksRaiseForgotten(t) ==
    /\ thread[t].pc = "hooks" /\ job[thread[t].job].kind = "evaluate"
    /\ thread' = [thread EXCEPT ![t].pc = "complete"]
    /\ UNCHANGED <<tables, broker, server, history>>
HooksRaise(t) ==
    /\ thread[t].pc = "hooks" /\ job[thread[t].job].kind = "evaluate"
    /\ thread' = [thread EXCEPT ![t].pc = "complete", ![t].got = "hook error"]
    /\ UNCHANGED <<tables, broker, server, history>>

\* complete_job.
Complete(t) ==
    LET j == thread[t].job IN
    /\ thread[t].pc = "complete"
    /\ job' = IF IsActive(j)
              THEN [job EXCEPT ![j].status = "completed",
                               ![j].error = (thread[t].got = "hook error") \/ @]
              ELSE job
    /\ thread' = [thread EXCEPT ![t] = Idle]
    /\ UNCHANGED <<item, broker, server, history>>

----------------------------------------------------------------------------
(* Faults: a transaction or an enqueue raises (SQLite is locked past its   *)
(* busy timeout, the disk is full).  It is rolled back.  A worker's task   *)
(* is put in the schedule while it has retries left and is dropped after;  *)
(* a submitter's call just fails.                                          *)

\* (Mutant: a task is retried without end.)
RetriedAlways(t) == t \in Workers
Retried(t) == t \in Workers /\ thread[t].msg.retries > 0
Fault(t) ==
    LET fr == thread[t] IN
    /\ fr.pc \in FaultPoints /\ faults < MaxFaults
    /\ faults' = faults + 1
    /\ schedule' = IF Retried(t)
                   THEN schedule \cup {[fr.msg EXCEPT !.retries = @ - 1]}
                   ELSE schedule
    /\ stranded' = IF Retried(t) /\ fr.pc # "complete"
                   THEN stranded ELSE stranded \cup {fr.job}
    /\ thread' = [thread EXCEPT ![t] = Idle]
    /\ UNCHANGED <<tables, queue, server>>

\* Huey's scheduler thread moves a message whose delay is over to the queue.
Reschedule(m) ==
    /\ phase = "up" /\ m \in schedule
    /\ schedule' = schedule \ {m}
    /\ queue' = Append(queue, m)
    /\ UNCHANGED <<tables, thread, server, history>>

----------------------------------------------------------------------------
(* The server process: lifespan, JobService.start and stop, crashes.       *)

\* (Mutants: start() without the flush of the stale messages, and without
\* release_completion_claims.)
StartNoFlush ==
    /\ phase = "down"
    /\ job' = [j \in Jobs |-> IF IsActive(j) THEN [job[j] EXCEPT !.finished = FALSE] ELSE job[j]]
    /\ phase' = "starting" /\ cursor' = 1 /\ stranded' = {}
    /\ UNCHANGED <<item, broker, thread, faults, restarts>>
StartKeepsClaims ==
    /\ phase = "down"
    /\ queue' = <<>> /\ schedule' = {}
    /\ phase' = "starting" /\ cursor' = 1 /\ stranded' = {}
    /\ UNCHANGED <<tables, thread, faults, restarts>>

\* start(): the queue and the schedule are flushed and completion claims of
\* active jobs are released, then _recover() walks the active jobs.
Start ==
    /\ phase = "down"
    /\ queue' = <<>> /\ schedule' = {}
    /\ job' = [j \in Jobs |-> IF IsActive(j) THEN [job[j] EXCEPT !.finished = FALSE] ELSE job[j]]
    /\ phase' = "starting" /\ cursor' = 1 /\ stranded' = {}
    /\ UNCHANGED <<item, thread, faults, restarts>>

Recovered(j, idxs) ==
    IF ~IsActive(j) THEN <<>>
    ELSE IF idxs # <<>> THEN Chunks(j, idxs)
    ELSE IF job[j].finalized THEN <<Message(j, <<>>)>>
    ELSE <<>>

RecoverJob ==
    /\ phase = "starting" /\ cursor \in Jobs
    /\ \E idxs \in PendingIdxs(cursor) : queue' = queue \o Recovered(cursor, idxs)
    /\ cursor' = cursor + 1
    /\ UNCHANGED <<tables, schedule, thread, phase, restarts, history>>

\* The consumer's threads start last.
StartConsumer ==
    /\ phase = "starting" /\ cursor = MaxJobs + 1
    /\ phase' = "up"
    /\ UNCHANGED <<tables, broker, thread, cursor, restarts, history>>

\* jobs.stop(): the workers may finish what they do, up to a timeout.
Stop ==
    /\ phase = "up" /\ restarts < MaxRestarts
    /\ phase' = "stopping" /\ restarts' = restarts + 1
    /\ UNCHANGED <<tables, broker, thread, cursor, history>>

\* engine.stop(), after jobs.stop() returned or timed out.
StopEngine ==
    /\ phase = "stopping"
    /\ phase' = "closing"
    /\ UNCHANGED <<tables, broker, thread, cursor, restarts, history>>

\* The process ends: threads that are still busy die with it.
Exit ==
    /\ phase = "closing"
    /\ phase' = "down" /\ thread' = [t \in Threads |-> Idle]
    /\ UNCHANGED <<tables, broker, cursor, restarts, history>>
Crash ==
    /\ phase # "down" /\ restarts < MaxRestarts
    /\ phase' = "down" /\ restarts' = restarts + 1
    /\ thread' = [t \in Threads |-> Idle]
    /\ UNCHANGED <<tables, broker, cursor, history>>

----------------------------------------------------------------------------
Request(c) ==
    \E n \in 0..MaxItems, fin \in BOOLEAN :
        \/ \E k \in Kinds : CreateJob(c, k, n, fin)
        \/ \E j \in Jobs : AppendItems(c, j, n, fin)
Work(w) ==
    \/ CheckJob(w) \/ NextItem(w) \/ StartItem(w)
    \/ PredictReturns(w) \/ PredictRaises(w) \/ FinishItem(w)
Finalizing(t) == Claim(t) \/ HooksReturn(t) \/ HooksRaise(t) \/ Complete(t)
Lifespan == Start \/ RecoverJob \/ StartConsumer \/ Stop \/ StopEngine \/ Exit \/ Crash

Next ==
    \/ \E c \in Clients : Request(c) \/ EnqueueChunk(c)
    \/ \E j \in Jobs : Cancel(j)
    \/ \E w \in Workers : Dequeue(w) \/ Work(w)
    \/ \E t \in Threads : Finalizing(t) \/ Fault(t)
    \/ \E m \in schedule : Reschedule(m)
    \/ Lifespan

Spec == Init /\ [][Next]_vars

\* Threads that have something to do go on, and the scheduler delivers what is
\* due; nobody is obliged to submit, cancel, stop, crash or fail.
Fairness ==
    /\ \A c \in Clients : WF_vars(EnqueueChunk(c))
    /\ \A w \in Workers : WF_vars(Dequeue(w) \/ Work(w))
    /\ \A t \in Threads : WF_vars(Finalizing(t))
    /\ WF_vars(\E m \in schedule : Reschedule(m))
    /\ WF_vars(RecoverJob \/ StartConsumer)
FairSpec == Spec /\ Fairness
----------------------------------------------------------------------------
(* Properties.                                                             *)

Set(s) == {s[x] : x \in DOMAIN s}
Completing == {"hooks", "complete"}
Processing == {"check", "loop", "start", "predict", "finish"}

TypeOK ==
    /\ job \in [Jobs -> Rows]
    /\ item \in [Jobs -> [Idx -> {"absent", "pending", "cancelled"} \cup Processed]]
    /\ queue \in Seq(Messages)
    /\ schedule \subseteq Messages
    /\ thread \in [Threads -> Frames]
    /\ phase \in Phases
    /\ cursor \in 1..(MaxJobs + 1)
    /\ stranded \subseteq Jobs
    /\ faults \in 0..MaxFaults
    /\ restarts \in 0..MaxRestarts

\* The counters a poller sees agree with the item rows, whatever retries,
\* cancels and restarts did: total counts the rows, done the processed ones,
\* failed the failed ones (service.py header, finish_job_item).
CountersMatch ==
    \A j \in Jobs :
        /\ ItemsIn(j, {"pending", "cancelled"} \cup Processed) = 1..job[j].total
        /\ job[j].done = Cardinality(ItemsIn(j, Processed))
        /\ job[j].failed = Cardinality(ItemsIn(j, FailedItem))

\* What a final status promises about the rows: a completed job was finalized
\* and every item of it processed, one at least with success; a job is failed
\* only if it has items and all of them failed; a cancelled job has no item
\* left to run (claim_job_completion, complete_job, cancel_job).
FinalStatusSound ==
    \A j \in Jobs :
        /\ job[j].status = "completed" =>
              /\ job[j].finalized
              /\ \A i \in 1..job[j].total : item[j][i] \in Processed
              /\ job[j].total > 0 => \E i \in 1..job[j].total : item[j][i] = "done"
        /\ job[j].status = "failed" =>
              /\ job[j].finalized /\ job[j].total > 0
              /\ \A i \in 1..job[j].total : item[j][i] \in FailedItem
        /\ job[j].status = "cancelled" => Pending(j) = {}

\* Exactly one caller completes a job: no two threads run the hooks or
\* complete_job of one job, and while one does the job is still active and
\* claimed, so it can be neither cancelled nor claimed again (service.py:26).
SingleCompleter ==
    \A t \in Threads : thread[t].pc \in Completing =>
        /\ IsActive(thread[t].job) /\ job[thread[t].job].finished
        /\ \A u \in Threads \ {t} :
              thread[u].pc \in Completing => thread[u].job # thread[t].job

\* A poller never sees a completed evaluate job without its result_ref, unless
\* the hook failed and the job carries its error (service.py:26-28).
EvaluateReported ==
    \A j \in Jobs :
        job[j].status = "completed" /\ job[j].kind = "evaluate" => job[j].ref \/ job[j].error

\* The items a thread answers for: those it has still to enqueue, or those of
\* the message it executes (a retry sends all of them again).
Carries(t) == IF thread[t].pc = "enqueue" THEN Set(thread[t].todo)
              ELSE Set(thread[t].msg.idxs)
\* No item is in two places: among the queued and scheduled messages and the
\* threads, at most one holds an item of a job, so no two workers ever predict
\* the same item, after any retries, appends and restarts.
OneCarrier ==
    /\ \A p, q \in DOMAIN queue : p # q /\ queue[p].job = queue[q].job =>
          Set(queue[p].idxs) \cap Set(queue[q].idxs) = {}
    /\ \A p \in DOMAIN queue, m \in schedule : queue[p].job = m.job =>
          Set(queue[p].idxs) \cap Set(m.idxs) = {}
    /\ \A m, n \in schedule : m # n /\ m.job = n.job => Set(m.idxs) \cap Set(n.idxs) = {}
    /\ \A t, u \in Threads : t # u /\ thread[t].job = thread[u].job =>
          Carries(t) \cap Carries(u) = {}
    /\ \A t \in Threads, m \in schedule \cup Set(queue) : thread[t].job = m.job =>
          Carries(t) \cap Set(m.idxs) = {}

\* Someone will go on with job j.
HasMessage(j) == \E m \in schedule \cup Set(queue) : m.job = j
HasThread(j, pcs) == \E t \in Threads : thread[t].pc \in pcs /\ thread[t].job = j
\* No work is forgotten while the server is up: each pending item of an active
\* job is in a message or in the hands of a thread; a finalized job nobody has
\* claimed has a message or a thread that will still try to claim it; a
\* claimed one has its completer.  Jobs in `stranded' are excepted until the next
\* start, where nothing in the code goes on with them earlier: a task failed with no
\* retry left, an enqueue of submit failed, or complete_job failed after the claim
\* (jobs_stuck).  From that start on they are asked for again.
Dispatched ==
    phase = "up" => \A j \in Jobs \ stranded : IsActive(j) =>
        /\ \A i \in Pending(j) :
              \/ \E m \in schedule \cup Set(queue) : m.job = j /\ i \in Set(m.idxs)
              \/ \E t \in Threads : /\ thread[t].pc \in Processing \cup {"enqueue"}
                                     /\ thread[t].job = j /\ i \in Set(thread[t].todo)
        /\ job[j].finalized /\ ~job[j].finished =>
              HasMessage(j) \/ HasThread(j, Processing \cup {"enqueue", "claim"})
        /\ job[j].finished => HasThread(j, Completing)

\* "An item interrupted by shutdown stays pending (it is not counted as
\* failed)" (service.py:33-34): no row ever carries the error of a prediction
\* that failed because the engine was stopped.
NotFailedByShutdown == \A j \in Jobs : ItemsIn(j, {"interrupted"}) = {}

\* A finished job is frozen: no late prediction, retry, hook, append or restart
\* changes its row or its items.
TerminalFrozen ==
    [][\A j \in Jobs : IsTerminal(j) => job'[j] = job[j] /\ item'[j] = item[j]]_vars

\* While the server stays up, a finalized job reaches a final status, whatever
\* the order of appends, retries within the limit and finalization.
FinalizedEnds ==
    \A j \in Jobs :
        (phase = "up" /\ IsActive(j) /\ job[j].finalized)
            ~> (IsTerminal(j) \/ phase # "up" \/ j \in stranded)

\* What a caller sees: an active job is queued, running or being completed.
SeenStatus == [j \in Jobs |-> IF IsActive(j) THEN "active" ELSE job[j].status]
SeenOpen == [j \in Jobs |-> job[j].status # "absent" /\ ~job[j].finalized]
SeenAnswer == [j \in Jobs |-> [i \in Idx |->
                  IF item[j][i] = "interrupted" THEN "failed" ELSE item[j][i]]]
Lifecycle == INSTANCE JobLifecycle WITH
    status <- SeenStatus, open <- SeenOpen, answer <- SeenAnswer
\* The queue, the threads, the claims, the retries and the restarts implement
\* the contract of JobLifecycle: every step of theirs is one of its steps or
\* changes nothing a caller sees.
ImplementsLifecycle == Lifecycle!Spec

=============================================================================
