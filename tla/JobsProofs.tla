----------------------------- MODULE JobsProofs -----------------------------
(***************************************************************************)
(* Proofs about Jobs, for any number of workers, submitters, jobs, items,  *)
(* retries, faults and restarts.                                           *)
(***************************************************************************)
EXTENDS Jobs, FiniteSetTheorems, TLAPS

----------------------------------------------------------------------------
(* Type correctness.                                                       *)

\* The strengthening of TypeOK: a worker at an item has one, and an outcome to
\* record is one of an item's; while the process is down nobody runs.
FrameInv ==
    /\ \A t \in Threads :
          /\ thread[t].pc \in {"enqueue", "start", "predict", "finish"} => thread[t].todo # <<>>
          /\ thread[t].pc = "finish" => thread[t].got \in Processed
    /\ phase \in {"down", "starting"} => \A t \in Threads : thread[t] = Idle

\* Small facts on messages and frames.
LEMMA IdleType == NoMessage \in Messages /\ Idle \in Frames
<1>1. 1 \in Jobs /\ <<>> \in Seq(Idx) /\ 0 \in 0..Retries
  BY BoundsAssumption DEF Jobs
<1>2. NoMessage \in Messages
  BY <1>1 DEF NoMessage, Messages
<1> QED BY <1>1, <1>2 DEF Idle, Frames, PCs

LEMMA SliceType ==
    ASSUME NEW s \in Seq(Idx), NEW x \in Nat \ {0}
    PROVE  /\ Slice(s, x) \in Seq(Idx)
           /\ Len(s) > 0 => Len(Slice(s, 1)) \in 1..Len(s)
<1>1. ChunkSize \in Nat \ {0}
  BY BoundsAssumption
<1> DEFINE a == (x - 1) * ChunkSize + 1
           b == IF x * ChunkSize < Len(s) THEN x * ChunkSize ELSE Len(s)
<1>2. x * ChunkSize \in Nat /\ (x - 1) * ChunkSize \in Nat
  BY <1>1
<1>3. a \in Nat \ {0} /\ b \in Nat /\ b <= Len(s)
  BY <1>2
<1>4. SubSeq(s, a, b) \in Seq(Idx)
  <2> HIDE DEF a, b
  <2> QED BY <1>3
<1>5. ASSUME Len(s) > 0 PROVE Len(Slice(s, 1)) \in 1..Len(s)
  <2> DEFINE c == IF 1 * ChunkSize < Len(s) THEN 1 * ChunkSize ELSE Len(s)
  <2>1. c \in 1..Len(s)
    BY <1>1, <1>5
  <2>2. (1 - 1) * ChunkSize + 1 = 1
    BY <1>1
  <2>3. Slice(s, 1) = SubSeq(s, 1, c)
    BY <2>2 DEF Slice
  <2> HIDE DEF c
  <2>4. Len(SubSeq(s, 1, c)) = c
    BY <2>1
  <2> QED BY <2>1, <2>3, <2>4
<1> QED BY <1>4, <1>5 DEF Slice

LEMMA ChunksType ==
    ASSUME NEW j \in Jobs, NEW s \in Seq(Idx)
    PROVE  Chunks(j, s) \in Seq(Messages)
<1>1. Retries \in 0..Retries
  BY BoundsAssumption
<1>2. \A x \in Nat \ {0} : Message(j, Slice(s, x)) \in Messages
  BY <1>1, SliceType DEF Message, Messages
<1> DEFINE n == (Len(s) + ChunkSize - 1) \div ChunkSize
<1>3. n \in Nat
  BY BoundsAssumption
<1>4. Chunks(j, s) = [x \in 1..n |-> Message(j, Slice(s, x))]
  BY DEF Chunks
<1> HIDE DEF n
<1>5. Chunks(j, s) \in [1..n -> Messages]
  BY <1>2, <1>3, <1>4
<1> QED BY <1>3, <1>5

\* The frame a submitter gets is a frame, whatever it has still to enqueue.
LEMMA AfterEnqueueType ==
    ASSUME NEW fr \in Frames
    PROVE  /\ AfterEnqueue(fr) \in Frames
           /\ AfterEnqueue(fr).pc \in {"enqueue", "claim", "idle"}
           /\ AfterEnqueue(fr).pc = "enqueue" => AfterEnqueue(fr).todo # <<>>
<1>1. CASE fr.todo # <<>>
  BY <1>1 DEF AfterEnqueue, Frames, PCs
<1>2. CASE fr.todo = <<>> /\ fr.fin
  BY <1>2 DEF AfterEnqueue, Frames, PCs
<1>3. CASE fr.todo = <<>> /\ ~fr.fin
  BY <1>3, IdleType DEF AfterEnqueue, Idle
<1> QED BY <1>1, <1>2, <1>3 DEF Frames

LEMMA SubmittingType ==
    ASSUME NEW j \in Jobs, NEW k \in Nat, NEW n \in Nat, k + n <= MaxItems, NEW fin \in BOOLEAN
    PROVE  /\ Submitting(j, k, n, fin) \in Frames
           /\ Submitting(j, k, n, fin).pc \in {"enqueue", "claim", "idle"}
           /\ Submitting(j, k, n, fin).pc = "enqueue" => Submitting(j, k, n, fin).todo # <<>>
<1>1. NewIdxs(k, n) \in Seq(Idx)
  <2>1. \A x \in 1..n : k + x \in Idx
    BY BoundsAssumption DEF Idx
  <2>2. NewIdxs(k, n) \in [1..n -> Idx]
    BY <2>1 DEF NewIdxs
  <2> QED BY <2>2
<1> DEFINE fr == [Idle EXCEPT !.job = j, !.todo = NewIdxs(k, n), !.fin = fin]
<1>2. fr \in Frames
  BY <1>1, IdleType DEF Frames
<1> HIDE DEF fr
<1>3. Submitting(j, k, n, fin) = AfterEnqueue(fr)
  BY DEF Submitting, fr
<1> QED BY <1>2, <1>3, AfterEnqueueType

\* One thread gets a good frame, the others keep theirs.
LEMMA FrameStep ==
    ASSUME TypeOK, FrameInv, NEW t \in Threads, NEW fr \in Frames,
           thread' = [thread EXCEPT ![t] = fr], phase' = phase,
           phase \notin {"down", "starting"},
           fr.pc \in {"enqueue", "start", "predict", "finish"} => fr.todo # <<>>,
           fr.pc = "finish" => fr.got \in Processed
    PROVE  thread' \in [Threads -> Frames] /\ FrameInv'
  BY DEF TypeOK, FrameInv

\* A busy thread means that the process is neither down nor starting.
LEMMA BusyIsUp ==
    ASSUME FrameInv, NEW t \in Threads, thread[t].pc # "idle"
    PROVE  phase \notin {"down", "starting"}
  BY DEF FrameInv, Idle

\* A step of Lifespan that touches no thread.
LEMMA PhaseFrame ==
    ASSUME TypeOK, FrameInv, thread' = thread,
           phase' \in {"down", "starting"} => phase \in {"down", "starting"}
    PROVE  thread' \in [Threads -> Frames] /\ FrameInv'
  BY DEF TypeOK, FrameInv

LEMMA ThreadsAreThreads == Workers \subseteq Threads /\ Clients \subseteq Threads
  BY DEF Threads

Statuses == {"absent", "pending", "cancelled"} \cup Processed

\* Requests: create_job and append_job_items.
LEMMA RequestTyped ==
    ASSUME TypeOK, FrameInv, NEW c \in Clients, Request(c)
    PROVE  TypeOK' /\ FrameInv'
<1> USE BoundsAssumption, ThreadsAreThreads
<1>1. PICK n \in 0..MaxItems, fin \in BOOLEAN :
        \/ \E k \in Kinds : CreateJob(c, k, n, fin)
        \/ \E j \in Jobs : AppendItems(c, j, n, fin)
  BY DEF Request
<1>2. \A j \in Jobs, m \in Nat : WithItems(j, m, n) \in [Jobs -> [Idx -> Statuses]]
  BY DEF TypeOK, WithItems, Statuses
<1>3. ASSUME NEW k \in Kinds, CreateJob(c, k, n, fin) PROVE TypeOK' /\ FrameInv'
  <2>1. PICK j \in Jobs :
          /\ job' = [job EXCEPT ![j] = [NoRow EXCEPT !.status = "queued", !.kind = k,
                                                     !.total = n, !.finalized = fin]]
          /\ item' = WithItems(j, 0, n)
          /\ thread' = [thread EXCEPT ![c] = Submitting(j, 0, n, fin)]
    BY <1>3 DEF CreateJob
  <2>2. [NoRow EXCEPT !.status = "queued", !.kind = k, !.total = n, !.finalized = fin] \in Rows
    BY DEF NoRow, Rows, Active
  <2>3. job' \in [Jobs -> Rows]
    BY <2>1, <2>2 DEF TypeOK
  <2>4. thread' \in [Threads -> Frames] /\ FrameInv'
    <3> DEFINE fr == Submitting(j, 0, n, fin)
    <3>1. /\ fr \in Frames /\ fr.pc \in {"enqueue", "claim", "idle"}
          /\ fr.pc = "enqueue" => fr.todo # <<>>
      BY SubmittingType
    <3>2. thread' = [thread EXCEPT ![c] = fr] /\ phase' = phase /\ phase = "up"
      BY <1>3, <2>1 DEF CreateJob, server
    <3> HIDE DEF fr
    <3> QED BY <3>1, <3>2, FrameStep
  <2> QED BY <1>2, <1>3, <2>1, <2>3, <2>4 DEF CreateJob, TypeOK, broker, server, history, Statuses
<1>4. ASSUME NEW j \in Jobs, AppendItems(c, j, n, fin) PROVE TypeOK' /\ FrameInv'
  <2>1. job[j] \in Rows /\ job[j].total \in Nat /\ job[j].total + n <= MaxItems
    BY <1>4 DEF AppendItems, TypeOK, Rows
  <2>2. job' \in [Jobs -> Rows]
    <3> DEFINE m == job[j].total + n
    <3>3. m \in 0..MaxItems
      BY <2>1
    <3>1. [job[j] EXCEPT !.total = m, !.finalized = fin] \in Rows
      <4> HIDE DEF m
      <4> QED BY <2>1, <3>3, Zenon DEF Rows
    <3>2. job' = [job EXCEPT ![j] = [job[j] EXCEPT !.total = job[j].total + n, !.finalized = fin]]
      BY <1>4 DEF AppendItems
    <3> QED BY <3>1, <3>2 DEF TypeOK
  <2>3. thread' \in [Threads -> Frames] /\ FrameInv'
    <3> DEFINE fr == Submitting(j, job[j].total, n, fin)
    <3>1. /\ fr \in Frames /\ fr.pc \in {"enqueue", "claim", "idle"}
          /\ fr.pc = "enqueue" => fr.todo # <<>>
      BY <2>1, SubmittingType
    <3>2. thread' = [thread EXCEPT ![c] = fr] /\ phase' = phase /\ phase = "up"
      BY <1>4 DEF AppendItems, server
    <3> HIDE DEF fr
    <3> QED BY <3>1, <3>2, FrameStep
  <2> QED BY <1>2, <1>4, <2>1, <2>2, <2>3 DEF AppendItems, TypeOK, broker, server, history, Statuses
<1> QED BY <1>1, <1>3, <1>4

\* The updates of a job's row that the transactions make.
LEMMA RowType ==
    ASSUME NEW row \in Rows
    PROVE  /\ [row EXCEPT !.status = "cancelled", !.finished = TRUE] \in Rows
           /\ [row EXCEPT !.status = "running"] \in Rows
           /\ [row EXCEPT !.finished = TRUE, !.status = "failed", !.error = TRUE] \in Rows
           /\ \A b \in BOOLEAN : [row EXCEPT !.finished = b] \in Rows
           /\ \A b \in BOOLEAN : [row EXCEPT !.ref = b] \in Rows
           /\ \A b \in BOOLEAN : [row EXCEPT !.status = "completed", !.error = b] \in Rows
           /\ \A d, f \in Nat : [row EXCEPT !.done = d, !.failed = f] \in Rows
           /\ row.done \in Nat /\ row.failed \in Nat
           /\ row.ref \in BOOLEAN /\ row.error \in BOOLEAN
<1> USE DEF Rows, Active, Terminal
<1>1. TRUE \in BOOLEAN
  OBVIOUS
<1>2. "cancelled" \in Active \cup Terminal \cup {"absent"} /\ "running" \in Active \cup Terminal \cup {"absent"}
      /\ "failed" \in Active \cup Terminal \cup {"absent"} /\ "completed" \in Active \cup Terminal \cup {"absent"}
  OBVIOUS
<1> HIDE DEF Active, Terminal
<1>3. [row EXCEPT !.status = "cancelled", !.finished = TRUE] \in Rows
  BY <1>1, <1>2, Zenon
<1>4. [row EXCEPT !.status = "running"] \in Rows
  BY <1>1, <1>2, Zenon
<1>5. [row EXCEPT !.finished = TRUE, !.status = "failed", !.error = TRUE] \in Rows
  BY <1>1, <1>2, Zenon
<1>6. \A b \in BOOLEAN : [row EXCEPT !.finished = b] \in Rows
  BY Zenon
<1>7. \A b \in BOOLEAN : [row EXCEPT !.ref = b] \in Rows
  BY Zenon
<1>8. \A b \in BOOLEAN : [row EXCEPT !.status = "completed", !.error = b] \in Rows
  BY <1>2, Zenon
<1>9. \A d, f \in Nat : [row EXCEPT !.done = d, !.failed = f] \in Rows
  BY Zenon
<1>10. row.done \in Nat /\ row.failed \in Nat /\ row.ref \in BOOLEAN /\ row.error \in BOOLEAN
  BY Zenon
<1> QED BY <1>3, <1>4, <1>5, <1>6, <1>7, <1>8, <1>9, <1>10, Zenon

\* The frames the steps of a thread lead to.
LEMMA FrameType ==
    ASSUME NEW fr \in Frames
    PROVE  /\ \A pc \in PCs : [fr EXCEPT !.pc = pc] \in Frames
           /\ \A pc \in PCs : \A g \in {"none", "done", "failed", "interrupted", "hook error"} :
                 [fr EXCEPT !.pc = pc, !.got = g] \in Frames
           /\ fr.todo # <<>> => Skip(fr) \in Frames /\ Skip(fr).pc = "loop"
           /\ fr.job \in Jobs /\ fr.todo \in Seq(Idx) /\ fr.msg \in Messages
<1>1. \A pc \in PCs : [fr EXCEPT !.pc = pc] \in Frames
  BY Zenon DEF Frames
<1>2. \A pc \in PCs : \A g \in {"none", "done", "failed", "interrupted", "hook error"} :
        [fr EXCEPT !.pc = pc, !.got = g] \in Frames
  BY Zenon DEF Frames
<1>3. fr.job \in Jobs /\ fr.todo \in Seq(Idx) /\ fr.msg \in Messages
  BY Zenon DEF Frames
<1>4. ASSUME fr.todo # <<>> PROVE Skip(fr) \in Frames /\ Skip(fr).pc = "loop"
  <2>1. Tail(fr.todo) \in Seq(Idx)
    BY <1>3, <1>4
  <2> QED BY <2>1 DEF Skip, Frames, PCs
<1> QED BY <1>1, <1>2, <1>3, <1>4

\* Steps of a worker: _process_items.
LEMMA WorkTyped ==
    ASSUME TypeOK, FrameInv, NEW w \in Workers, Dequeue(w) \/ Work(w)
    PROVE  TypeOK' /\ FrameInv'
<1> USE BoundsAssumption, ThreadsAreThreads DEF tables, broker, server, history
<1>0. thread[w] \in Frames
  BY DEF TypeOK
<1>1. CASE Dequeue(w)
  <2> DEFINE m == Head(queue)
             fr == [Idle EXCEPT !.pc = "check", !.job = m.job, !.todo = m.idxs, !.msg = m]
  <2>1. m \in Messages /\ queue' \in Seq(Messages)
    BY <1>1 DEF Dequeue, TypeOK
  <2>2. fr \in Frames /\ fr.pc = "check"
    <3> HIDE DEF m
    <3> QED BY <2>1, IdleType DEF Frames, PCs, Messages
  <2>3. thread' = [thread EXCEPT ![w] = fr] /\ phase' = phase /\ phase \in {"up", "stopping"}
    BY <1>1 DEF Dequeue
  <2>4. thread' \in [Threads -> Frames] /\ FrameInv'
    <3> HIDE DEF fr
    <3> QED BY <2>2, <2>3, FrameStep
  <2> QED BY <1>1, <2>1, <2>4 DEF Dequeue, TypeOK
<1>2. ASSUME NEW fr \in Frames, thread' = [thread EXCEPT ![w] = fr], phase' = phase,
             thread[w].pc # "idle",
             fr.pc \in {"enqueue", "start", "predict", "finish"} => fr.todo # <<>>,
             fr.pc = "finish" => fr.got \in Processed,
             UNCHANGED <<queue, schedule, cursor, restarts, stranded, faults>>,
             job' \in [Jobs -> Rows], item' \in [Jobs -> [Idx -> Statuses]]
      PROVE  TypeOK' /\ FrameInv'
  <2>1. thread' \in [Threads -> Frames] /\ FrameInv'
    BY <1>2, BusyIsUp, FrameStep
  <2> QED BY <1>2, <2>1 DEF TypeOK, Statuses
<1>3. Idle.pc = "idle" /\ Idle \in Frames
  BY IdleType DEF Idle
<1>4. job \in [Jobs -> Rows] /\ item \in [Jobs -> [Idx -> Statuses]]
  BY DEF TypeOK, Statuses
<1>5. thread[w].pc \in {"enqueue", "start", "predict", "finish"} => thread[w].todo # <<>>
  BY DEF FrameInv
<1>6. CASE CheckJob(w)
  <2>1. [thread[w] EXCEPT !.pc = "loop"] \in Frames
    BY <1>0, FrameType DEF PCs
  <2> DEFINE fr == IF IsActive(thread[w].job) THEN [thread[w] EXCEPT !.pc = "loop"] ELSE Idle
  <2>2. fr \in Frames /\ fr.pc \in {"loop", "idle"}
    BY <1>0, <1>3, <2>1 DEF Frames
  <2>3. thread' = [thread EXCEPT ![w] = fr]
    BY <1>6 DEF CheckJob
  <2> HIDE DEF fr
  <2> QED BY <1>2, <1>4, <1>6, <2>2, <2>3 DEF CheckJob
<1>7. CASE NextItem(w)
  <2> DEFINE fr == IF thread[w].todo = <<>> THEN [thread[w] EXCEPT !.pc = "claim"]
                   ELSE IF Stopping THEN Idle
                   ELSE [thread[w] EXCEPT !.pc = "start"]
  <2>1. [thread[w] EXCEPT !.pc = "claim"] \in Frames /\ [thread[w] EXCEPT !.pc = "start"] \in Frames
    BY <1>0, FrameType DEF PCs
  <2>2. fr \in Frames /\ fr.pc \in {"claim", "start", "idle"} /\ (fr.pc = "start" => fr.todo # <<>>)
    <3>1. CASE thread[w].todo = <<>>
      BY <1>0, <2>1, <3>1 DEF Frames
    <3>2. CASE thread[w].todo # <<>> /\ Stopping
      BY <1>3, <3>2
    <3>3. CASE thread[w].todo # <<>> /\ ~Stopping
      BY <1>0, <2>1, <3>3 DEF Frames
    <3> QED BY <3>1, <3>2, <3>3
  <2>3. thread' = [thread EXCEPT ![w] = fr]
    BY <1>7 DEF NextItem
  <2> HIDE DEF fr
  <2> QED BY <1>2, <1>4, <1>7, <2>2, <2>3 DEF NextItem
<1>8. CASE StartItem(w)
  <2> DEFINE j == thread[w].job
  <2>1. j \in Jobs /\ thread[w].todo # <<>>
    BY <1>0, <1>5, <1>8, FrameType DEF StartItem
  <2>2. job' \in [Jobs -> Rows]
    <3>1. job[j] \in Rows /\ [job[j] EXCEPT !.status = "running"] \in Rows
      BY <1>4, <2>1, RowType
    <3>2. job' = job \/ job' = [job EXCEPT ![j] = [job[j] EXCEPT !.status = "running"]]
      BY <1>8 DEF StartItem
    <3> QED BY <1>4, <3>1, <3>2
  <2>3. [thread[w] EXCEPT !.pc = "predict"] \in Frames /\ Skip(thread[w]) \in Frames
        /\ Skip(thread[w]).pc = "loop"
    BY <1>0, <2>1, FrameType DEF PCs
  <2>4. \/ thread' = [thread EXCEPT ![w] = Idle]
        \/ thread' = [thread EXCEPT ![w] = Skip(thread[w])]
        \/ thread' = [thread EXCEPT ![w] = [thread[w] EXCEPT !.pc = "predict"]]
    BY <1>8 DEF StartItem
  <2>5. [thread[w] EXCEPT !.pc = "predict"].todo # <<>> /\ [thread[w] EXCEPT !.pc = "predict"].pc = "predict"
    BY <1>0, <2>1 DEF Frames
  <2>6. UNCHANGED <<queue, schedule, cursor, restarts, stranded, faults, phase, item>>
        /\ thread[w].pc # "idle"
    BY <1>8 DEF StartItem
  <2>7. CASE thread' = [thread EXCEPT ![w] = Idle]
    BY <1>2, <1>3, <1>4, <2>2, <2>6, <2>7
  <2>8. CASE thread' = [thread EXCEPT ![w] = Skip(thread[w])]
    BY <1>2, <1>4, <2>2, <2>3, <2>6, <2>8
  <2>9. CASE thread' = [thread EXCEPT ![w] = [thread[w] EXCEPT !.pc = "predict"]]
    BY <1>2, <1>4, <2>2, <2>3, <2>5, <2>6, <2>9
  <2> QED BY <2>4, <2>7, <2>8, <2>9
<1>9. CASE PredictReturns(w) \/ PredictRaises(w)
  <2>1. thread[w].pc = "predict" /\ thread[w].todo # <<>>
        /\ UNCHANGED <<queue, schedule, cursor, restarts, stranded, faults, phase, item, job>>
    BY <1>5, <1>9 DEF PredictReturns, PredictRaises
  <2>2. CASE thread' = [thread EXCEPT ![w] = Idle]
    BY <1>2, <1>3, <1>4, <2>1, <2>2
  <2>3. ASSUME NEW g \in Processed,
               thread' = [thread EXCEPT ![w] = [thread[w] EXCEPT !.pc = "finish", !.got = g]]
        PROVE TypeOK' /\ FrameInv'
    <3> DEFINE fr == [thread[w] EXCEPT !.pc = "finish", !.got = g]
    <3>1. fr \in Frames
      BY <1>0, FrameType DEF PCs, Processed
    <3>2. fr.todo # <<>> /\ fr.got = g /\ fr.pc = "finish"
      BY <1>0, <2>1 DEF Frames
    <3> HIDE DEF fr
    <3>3. thread' = [thread EXCEPT ![w] = fr]
      BY <2>3 DEF fr
    <3> QED BY <1>2, <1>4, <2>1, <3>1, <3>2, <3>3
  <2>4. CASE PredictReturns(w)
    BY <2>3, <2>4 DEF PredictReturns, Processed
  <2>5. CASE PredictRaises(w)
    BY <2>2, <2>3, <2>5 DEF PredictRaises, Processed
  <2> QED BY <1>9, <2>4, <2>5
<1>10. CASE FinishItem(w)
  <2> DEFINE j == thread[w].job
             i == Head(thread[w].todo)
             g == thread[w].got
  <2>1. /\ j \in Jobs /\ thread[w].todo # <<>> /\ g \in Processed /\ i \in Idx
    <3>1. thread[w].todo # <<>> /\ g \in Processed
      BY <1>10 DEF FinishItem, FrameInv
    <3>2. j \in Jobs /\ thread[w].todo \in Seq(Idx)
      BY <1>0, FrameType
    <3> QED BY <3>1, <3>2
  <2>2. Skip(thread[w]) \in Frames /\ Skip(thread[w]).pc = "loop"
    BY <1>0, <2>1, FrameType
  <2>3. job' \in [Jobs -> Rows] /\ item' \in [Jobs -> [Idx -> Statuses]]
    <3>1. CASE item[j][i] = "pending"
      <4> DEFINE d == job[j].done + 1
                 f == IF g \in FailedItem THEN job[j].failed + 1 ELSE job[j].failed
      <4>1. d \in Nat /\ f \in Nat /\ job[j] \in Rows
        <5>1. job[j] \in Rows
          BY <1>4, <2>1
        <5>2. job[j].done \in Nat /\ job[j].failed \in Nat
          BY <5>1, RowType, Zenon
        <5> QED BY <5>1, <5>2
      <4>2. job' = [job EXCEPT ![j] = [job[j] EXCEPT !.done = d, !.failed = f]]
        BY <1>10, <3>1 DEF FinishItem
      <4>3. item' = [item EXCEPT ![j] = [item[j] EXCEPT ![i] = g]]
        BY <1>10, <3>1 DEF FinishItem
      <4>4. item' \in [Jobs -> [Idx -> Statuses]]
        BY <1>4, <2>1, <4>3 DEF Statuses
      <4> HIDE DEF d, f
      <4> QED BY <1>4, <4>1, <4>2, <4>4, RowType
    <3>2. CASE item[j][i] # "pending"
      BY <1>4, <1>10, <3>2 DEF FinishItem
    <3> QED BY <3>1, <3>2
  <2>4. thread' = [thread EXCEPT ![w] = Skip(thread[w])] /\ thread[w].pc # "idle"
        /\ UNCHANGED <<queue, schedule, cursor, restarts, stranded, faults, phase>>
    BY <1>10 DEF FinishItem
  <2> QED BY <1>2, <2>2, <2>3, <2>4
<1> QED BY <1>1, <1>6, <1>7, <1>8, <1>9, <1>10 DEF Work

\* _maybe_complete and a fault of any thread.
LEMMA FinalizingTyped ==
    ASSUME TypeOK, FrameInv, NEW t \in Threads, Finalizing(t) \/ Fault(t)
    PROVE  TypeOK' /\ FrameInv'
<1> USE DEF tables, broker, server, history
<1>0. thread[t] \in Frames /\ thread[t].job \in Jobs
  <2>1. thread[t] \in Frames
    BY DEF TypeOK
  <2> QED BY <2>1, FrameType
<1> DEFINE j == thread[t].job
<1>1. ASSUME NEW fr \in Frames, thread' = [thread EXCEPT ![t] = fr], phase' = phase,
             thread[t].pc # "idle", fr.pc \in {"idle", "hooks", "complete"},
             UNCHANGED <<item, queue, schedule, cursor, restarts, stranded, faults>>,
             job' \in [Jobs -> Rows]
      PROVE  TypeOK' /\ FrameInv'
  <2>1. thread' \in [Threads -> Frames] /\ FrameInv'
    BY <1>1, BusyIsUp, FrameStep
  <2> QED BY <1>1, <2>1 DEF TypeOK
<1>2. Idle.pc = "idle" /\ Idle \in Frames
  BY IdleType DEF Idle
<1>3. job \in [Jobs -> Rows] /\ job[j] \in Rows
  BY <1>0 DEF TypeOK
<1>4. CASE Claim(t)
  <2>1. /\ [job[j] EXCEPT !.finished = TRUE] \in Rows
        /\ [job[j] EXCEPT !.finished = TRUE, !.status = "failed", !.error = TRUE] \in Rows
    BY <1>3, RowType
  <2> DEFINE fr == [thread[t] EXCEPT !.pc = "hooks"]
  <2>2. fr \in Frames /\ fr.pc = "hooks"
    <3>1. fr \in Frames
      BY <1>0, FrameType DEF PCs
    <3>2. fr.pc = "hooks"
      BY <1>0 DEF Frames
    <3> QED BY <3>1, <3>2
  <2>3. \/ job' = job
        \/ job' = [job EXCEPT ![j] = [job[j] EXCEPT !.finished = TRUE]]
        \/ job' = [job EXCEPT ![j] = [job[j] EXCEPT !.finished = TRUE, !.status = "failed", !.error = TRUE]]
    BY <1>4 DEF Claim
  <2>4. job' \in [Jobs -> Rows]
    BY <1>0, <1>3, <2>1, <2>3
  <2>5. \/ thread' = [thread EXCEPT ![t] = Idle]
        \/ thread' = [thread EXCEPT ![t] = fr]
    BY <1>4 DEF Claim
  <2>6. UNCHANGED <<item, queue, schedule, cursor, restarts, stranded, faults, phase>>
        /\ thread[t].pc # "idle"
    BY <1>4 DEF Claim
  <2>7. CASE thread' = [thread EXCEPT ![t] = Idle]
    BY <1>1, <1>2, <2>4, <2>6, <2>7
  <2>8. CASE thread' = [thread EXCEPT ![t] = fr]
    <3> HIDE DEF fr
    <3> QED BY <1>1, <2>2, <2>4, <2>6, <2>8
  <2> QED BY <2>5, <2>7, <2>8
<1>5. CASE HooksReturn(t)
  <2> DEFINE b == (job[j].kind = "evaluate") \/ job[j].ref
             fr == [thread[t] EXCEPT !.pc = "complete"]
  <2>1. b \in BOOLEAN
    OBVIOUS
  <2>2. job' = [job EXCEPT ![j] = [job[j] EXCEPT !.ref = b]]
    BY <1>5 DEF HooksReturn
  <2>3. [job[j] EXCEPT !.ref = b] \in Rows
    BY <1>3, <2>1, RowType
  <2>4. job' \in [Jobs -> Rows]
    BY <1>0, <1>3, <2>2, <2>3
  <2>5. fr \in Frames /\ fr.pc = "complete"
    <3>1. fr \in Frames
      BY <1>0, FrameType DEF PCs
    <3>2. fr.pc = "complete"
      BY <1>0 DEF Frames
    <3> QED BY <3>1, <3>2
  <2>6. thread' = [thread EXCEPT ![t] = fr] /\ thread[t].pc # "idle"
        /\ UNCHANGED <<item, queue, schedule, cursor, restarts, stranded, faults, phase>>
    BY <1>5 DEF HooksReturn
  <2> HIDE DEF fr
  <2> QED BY <1>1, <2>4, <2>5, <2>6
<1>6. CASE HooksRaise(t)
  <2> DEFINE fr == [thread[t] EXCEPT !.pc = "complete", !.got = "hook error"]
  <2>1. fr \in Frames /\ fr.pc = "complete"
    <3>1. fr \in Frames
      BY <1>0, FrameType DEF PCs
    <3>2. fr.pc = "complete"
      BY <1>0 DEF Frames
    <3> QED BY <3>1, <3>2
  <2>2. thread' = [thread EXCEPT ![t] = fr] /\ thread[t].pc # "idle"
        /\ UNCHANGED <<job, item, queue, schedule, cursor, restarts, stranded, faults, phase>>
    BY <1>6 DEF HooksRaise
  <2> HIDE DEF fr
  <2> QED BY <1>1, <1>3, <2>1, <2>2
<1>7. CASE Complete(t)
  <2> DEFINE b == (thread[t].got = "hook error") \/ job[j].error
  <2>1. b \in BOOLEAN
    OBVIOUS
  <2>2. job' = job \/ job' = [job EXCEPT ![j] = [job[j] EXCEPT !.status = "completed", !.error = b]]
    BY <1>7 DEF Complete
  <2>3. [job[j] EXCEPT !.status = "completed", !.error = b] \in Rows
    BY <1>3, <2>1, RowType
  <2>4. job' \in [Jobs -> Rows]
    BY <1>0, <1>3, <2>2, <2>3
  <2>5. thread' = [thread EXCEPT ![t] = Idle] /\ thread[t].pc # "idle"
        /\ UNCHANGED <<item, queue, schedule, cursor, restarts, stranded, faults, phase>>
    BY <1>7 DEF Complete
  <2> QED BY <1>1, <1>2, <2>4, <2>5
<1>8. CASE Fault(t)
  <2>1. thread[t].pc # "idle"
    BY <1>8, FaultPointsAssumption DEF Fault
  <2>2. thread' \in [Threads -> Frames] /\ FrameInv'
    BY <1>2, <1>8, <2>1, BusyIsUp, FrameStep DEF Fault
  <2>3. thread[t].msg \in Messages
    BY <1>0, FrameType
  <2>4. schedule' \subseteq Messages
    <3>1. CASE Retried(t)
      <4> DEFINE n == thread[t].msg.retries - 1
      <4>1. n \in 0..Retries
        BY <2>3, <3>1, BoundsAssumption DEF Retried, Messages
      <4>2. [thread[t].msg EXCEPT !.retries = n] \in Messages
        <5> HIDE DEF n
        <5> QED BY <2>3, <4>1, Zenon DEF Messages
      <4>3. schedule' = schedule \cup {[thread[t].msg EXCEPT !.retries = n]}
        BY <1>8, <3>1 DEF Fault
      <4> QED BY <4>2, <4>3 DEF TypeOK
    <3>2. CASE ~Retried(t)
      BY <1>8, <3>2 DEF Fault, TypeOK
    <3> QED BY <3>1, <3>2
  <2>5. stranded' \subseteq Jobs
    BY <1>0, <1>8 DEF Fault, TypeOK
  <2>6. faults' \in 0..MaxFaults
    BY <1>8, BoundsAssumption DEF Fault, TypeOK
  <2> QED BY <1>8, <2>2, <2>4, <2>5, <2>6 DEF Fault, TypeOK
<1> QED BY <1>4, <1>5, <1>6, <1>7, <1>8 DEF Finalizing

\* The server process.
LEMMA LifespanTyped ==
    ASSUME TypeOK, FrameInv, Lifespan
    PROVE  TypeOK' /\ FrameInv'
<1> USE BoundsAssumption DEF tables, broker, server, history
<1>1. CASE Start
  <2>1. job' \in [Jobs -> Rows]
    <3>1. \A j \in Jobs : job[j] \in Rows /\ [job[j] EXCEPT !.finished = FALSE] \in Rows
      BY RowType DEF TypeOK
    <3> QED BY <1>1, <3>1 DEF Start
  <2>2. thread' \in [Threads -> Frames] /\ FrameInv'
    BY <1>1, PhaseFrame DEF Start
  <2>3. cursor' \in 1..(MaxJobs + 1) /\ queue' \in Seq(Messages) /\ schedule' \subseteq Messages
        /\ stranded' \subseteq Jobs /\ phase' \in Phases
    BY <1>1 DEF Start, Phases
  <2> QED BY <1>1, <2>1, <2>2, <2>3 DEF Start, TypeOK
<1>2. CASE RecoverJob
  <2>1. PICK idxs \in PendingIdxs(cursor) : queue' = queue \o Recovered(cursor, idxs)
    BY <1>2 DEF RecoverJob
  <2>2. idxs \in Seq(Idx)
    <3>1. Pending(cursor) \subseteq Idx /\ Idx \subseteq Nat
      BY DEF Pending, ItemsIn, Idx
    <3>2. Cardinality(Pending(cursor)) \in Nat
      <4>1. IsFiniteSet(Idx)
        BY FS_Interval, 1 \in Int, MaxItems \in Int DEF Idx
      <4>2. IsFiniteSet(Pending(cursor))
        BY <3>1, <4>1, FS_Subset
      <4> QED BY <4>2, FS_CardinalityType
    <3>3. idxs \in [1..Cardinality(Pending(cursor)) -> Idx]
      BY <3>1 DEF PendingIdxs
    <3> QED BY <3>2, <3>3
  <2>3. Recovered(cursor, idxs) \in Seq(Messages)
    <3>1. cursor \in Jobs
      BY <1>2 DEF RecoverJob
    <3>2. Message(cursor, <<>>) \in Messages
      BY <3>1 DEF Message, Messages
    <3> QED BY <2>2, <3>1, <3>2, ChunksType DEF Recovered
  <2>4. queue' \in Seq(Messages)
    BY <2>1, <2>3 DEF TypeOK
  <2>5. thread' \in [Threads -> Frames] /\ FrameInv'
    BY <1>2, PhaseFrame DEF RecoverJob
  <2>6. cursor' \in 1..(MaxJobs + 1)
    BY <1>2 DEF RecoverJob, Jobs
  <2> QED BY <1>2, <2>4, <2>5, <2>6 DEF RecoverJob, TypeOK
<1>3. CASE StartConsumer \/ Stop \/ StopEngine
  <2>1. thread' \in [Threads -> Frames] /\ FrameInv'
    BY <1>3, PhaseFrame DEF StartConsumer, Stop, StopEngine
  <2>2. phase' \in Phases /\ restarts' \in 0..MaxRestarts
    BY <1>3 DEF StartConsumer, Stop, StopEngine, Phases, TypeOK
  <2> QED BY <1>3, <2>1, <2>2 DEF StartConsumer, Stop, StopEngine, TypeOK
<1>4. CASE Exit \/ Crash
  <2>0. thread' = [t \in Threads |-> Idle]
    BY <1>4 DEF Exit, Crash
  <2>1. thread' \in [Threads -> Frames] /\ FrameInv'
    <3>1. thread' \in [Threads -> Frames]
      BY <2>0, IdleType
    <3>2. \A t \in Threads : thread'[t] = Idle /\ thread'[t].pc = "idle"
      BY <2>0 DEF Idle
    <3>3. FrameInv'
      BY <3>2 DEF FrameInv
    <3> QED BY <3>1, <3>3
  <2>2. phase' \in Phases /\ restarts' \in 0..MaxRestarts
    BY <1>4 DEF Exit, Crash, Phases, TypeOK
  <2> QED BY <1>4, <2>1, <2>2 DEF Exit, Crash, TypeOK
<1> QED BY <1>1, <1>2, <1>3, <1>4 DEF Lifespan

\* The remaining steps: enqueueing, cancelling and the scheduler.
LEMMA OtherTyped ==
    ASSUME TypeOK, FrameInv,
           \/ \E c \in Clients : EnqueueChunk(c)
           \/ \E j \in Jobs : Cancel(j)
           \/ \E m \in schedule : Reschedule(m)
    PROVE  TypeOK' /\ FrameInv'
<1> USE BoundsAssumption DEF tables, broker, server, history
<1>1. ASSUME NEW c \in Clients, EnqueueChunk(c) PROVE TypeOK' /\ FrameInv'
  <2>1. c \in Threads /\ thread[c] \in Frames
    BY ThreadsAreThreads DEF TypeOK
  <2>2. thread[c].job \in Jobs /\ thread[c].todo \in Seq(Idx) /\ thread[c].todo # <<>>
    BY <1>1, <2>1, FrameType DEF EnqueueChunk, FrameInv
  <2> DEFINE s == thread[c].todo
             rest == SubSeq(s, Len(Slice(s, 1)) + 1, Len(s))
             fr == AfterEnqueue([thread[c] EXCEPT !.todo = rest])
  <2>3. Slice(s, 1) \in Seq(Idx) /\ Len(Slice(s, 1)) \in 1..Len(s)
    <3>1. Len(s) > 0
      BY <2>2
    <3> QED BY <2>2, <3>1, SliceType, 1 \in Nat \ {0}
  <2>4. rest \in Seq(Idx)
    <3> DEFINE k == Len(Slice(s, 1))
    <3>1. k \in 1..Len(s)
      BY <2>3
    <3> HIDE DEF k
    <3>2. SubSeq(s, k + 1, Len(s)) \in Seq(Idx)
      BY <2>2, <3>1
    <3> QED BY <3>2 DEF k
  <2>5. queue' \in Seq(Messages)
    <3>1. Message(thread[c].job, Slice(s, 1)) \in Messages
      BY <2>2, <2>3 DEF Message, Messages
    <3> QED BY <1>1, <3>1 DEF EnqueueChunk, TypeOK
  <2>6. [thread[c] EXCEPT !.todo = rest] \in Frames
    <3> HIDE DEF rest
    <3> QED BY <2>1, <2>4, Zenon DEF Frames
  <2>7. /\ fr \in Frames /\ fr.pc \in {"enqueue", "claim", "idle"}
        /\ fr.pc = "enqueue" => fr.todo # <<>>
    BY <2>6, AfterEnqueueType
  <2>8. thread' = [thread EXCEPT ![c] = fr] /\ phase' = phase /\ thread[c].pc # "idle"
    BY <1>1 DEF EnqueueChunk
  <2>9. thread' \in [Threads -> Frames] /\ FrameInv'
    <3> HIDE DEF fr
    <3> QED BY <2>1, <2>7, <2>8, BusyIsUp, FrameStep
  <2> QED BY <1>1, <2>5, <2>9 DEF EnqueueChunk, TypeOK
<1>2. ASSUME NEW j \in Jobs, Cancel(j) PROVE TypeOK' /\ FrameInv'
  <2>1. job[j] \in Rows
    BY DEF TypeOK
  <2>2. [job[j] EXCEPT !.status = "cancelled", !.finished = TRUE] \in Rows
    BY <2>1, RowType
  <2>3. job' = [job EXCEPT ![j] = [job[j] EXCEPT !.status = "cancelled", !.finished = TRUE]]
    BY <1>2 DEF Cancel
  <2>4. job' \in [Jobs -> Rows]
    BY <2>2, <2>3 DEF TypeOK
  <2>5. item' \in [Jobs -> [Idx -> Statuses]]
    BY <1>2 DEF Cancel, TypeOK, Statuses
  <2>6. thread' \in [Threads -> Frames] /\ FrameInv'
    BY <1>2, PhaseFrame DEF Cancel
  <2> QED BY <1>2, <2>4, <2>5, <2>6 DEF Cancel, TypeOK, Statuses
<1>3. ASSUME NEW m \in schedule, Reschedule(m) PROVE TypeOK' /\ FrameInv'
  <2>1. thread' \in [Threads -> Frames] /\ FrameInv'
    BY <1>3, PhaseFrame DEF Reschedule
  <2> QED BY <1>3, <2>1 DEF Reschedule, TypeOK
<1> QED BY <1>1, <1>2, <1>3

LEMMA TypedStep == TypeOK /\ FrameInv /\ [Next]_vars => TypeOK' /\ FrameInv'
<1> SUFFICES ASSUME TypeOK, FrameInv, [Next]_vars PROVE TypeOK' /\ FrameInv'
  OBVIOUS
<1>1. CASE UNCHANGED vars
  BY <1>1 DEF vars, TypeOK, FrameInv
<1>2. CASE Next
  BY <1>2, RequestTyped, WorkTyped, FinalizingTyped, LifespanTyped, OtherTyped DEF Next
<1> QED BY <1>1, <1>2

LEMMA TypedInit == Init => TypeOK /\ FrameInv
<1> SUFFICES ASSUME Init PROVE TypeOK /\ FrameInv
  OBVIOUS
<1> USE BoundsAssumption
<1>1. NoRow \in Rows
  BY DEF NoRow, Rows, Kinds
<1>2. job \in [Jobs -> Rows] /\ thread \in [Threads -> Frames]
  BY <1>1, IdleType DEF Init
<1>3. queue \in Seq(Messages) /\ schedule \subseteq Messages /\ stranded \subseteq Jobs
  BY DEF Init
<1>4. item \in [Jobs -> [Idx -> Statuses]]
  BY DEF Init, Statuses
<1>5. cursor \in 1..(MaxJobs + 1) /\ faults \in 0..MaxFaults /\ restarts \in 0..MaxRestarts
  BY DEF Init
<1>6. FrameInv
  BY DEF Init, FrameInv, Idle
<1> QED BY <1>2, <1>3, <1>4, <1>5, <1>6 DEF Init, TypeOK, Statuses, Phases

\* Every variable keeps its type; in particular an item's status only takes the
\* values of the column and a retried message never has a negative count.
THEOREM TypeCorrect == Spec => []TypeOK
  BY TypedInit, TypedStep, PTL DEF Spec

LEMMA FramesCorrect == Spec => [](TypeOK /\ FrameInv)
  BY TypedInit, TypedStep, PTL DEF Spec

-----------------------------------------------------------------------------
(* One completer.  SingleCompleter is inductive together with the type     *)
(* invariant and FrameInv: a thread gets to the hooks only by the claim,   *)
(* which needs finished_at to be empty, and nothing but Start empties it,  *)
(* when no thread runs.                                                    *)

Held(r) == r.status \in Active /\ r.finished

\* A step that adds no completer and leaves the jobs of those that remain held.
LEMMA CompleterFrame ==
    ASSUME SingleCompleter,
           \A u \in Threads : thread'[u].pc \in Completing =>
               /\ thread[u].pc \in Completing /\ thread'[u].job = thread[u].job
               /\ Held(job'[thread[u].job])
    PROVE  SingleCompleter'
  BY DEF SingleCompleter, IsActive, Held

\* The usual case: one thread gets another frame, which completes nothing.
LEMMA CompleterLeaves ==
    ASSUME TypeOK, SingleCompleter, NEW t \in Threads, NEW fr,
           thread' = [thread EXCEPT ![t] = fr], fr.pc \notin Completing,
           \A j \in Jobs : Held(job[j]) => Held(job'[j])
    PROVE  SingleCompleter'
<1>1. thread \in [Threads -> Frames] /\ \A u \in Threads : thread[u].job \in Jobs
  BY FrameType DEF TypeOK
<1>2. ASSUME NEW u \in Threads, thread'[u].pc \in Completing
      PROVE  /\ thread[u].pc \in Completing /\ thread'[u].job = thread[u].job
             /\ Held(job'[thread[u].job])
  <2>1. u # t /\ thread'[u] = thread[u]
    BY <1>1, <1>2
  <2>2. Held(job[thread[u].job])
    BY <1>2, <2>1 DEF SingleCompleter, IsActive, Held
  <2> QED BY <1>1, <1>2, <2>1, <2>2
<1> QED BY <1>2, CompleterFrame

LEMMA CompleterStays ==
    ASSUME TypeOK, SingleCompleter, thread' = thread,
           \A j \in Jobs : Held(job[j]) => Held(job'[j])
    PROVE  SingleCompleter'
<1>1. \A u \in Threads : thread[u].job \in Jobs
  BY FrameType DEF TypeOK
<1>2. ASSUME NEW u \in Threads, thread'[u].pc \in Completing
      PROVE  Held(job'[thread[u].job])
  BY <1>1, <1>2 DEF SingleCompleter, IsActive, Held
<1> QED BY <1>2, CompleterFrame

\* A frame that just got another pc has that pc.
LEMMA FramePc ==
    ASSUME NEW fr \in Frames, NEW pc, NEW got, NEW todo
    PROVE  /\ [fr EXCEPT !.pc = pc].pc = pc
           /\ [fr EXCEPT !.pc = pc].job = fr.job
           /\ [fr EXCEPT !.pc = pc, !.got = got].pc = pc
           /\ [fr EXCEPT !.pc = pc, !.got = got].job = fr.job
           /\ [fr EXCEPT !.pc = pc, !.todo = todo, !.got = got].pc = pc
  BY DEF Frames

\* Submitters: a fresh job is held by nobody, and appending keeps a claim.
LEMMA RequestCompleter ==
    ASSUME TypeOK, FrameInv, SingleCompleter, NEW c \in Clients, Request(c) \/ EnqueueChunk(c)
    PROVE  SingleCompleter'
<1> USE DEF tables, broker, server, history
<1>0. c \in Threads
  BY ThreadsAreThreads
<1>j. job \in [Jobs -> Rows]
  BY DEF TypeOK
<1>1. ASSUME NEW k \in Kinds, NEW n \in 0..MaxItems, NEW fin \in BOOLEAN, CreateJob(c, k, n, fin)
      PROVE  SingleCompleter'
  <2>1. PICK j \in Jobs :
          /\ job[j].status = "absent"
          /\ job' = [job EXCEPT ![j] = [NoRow EXCEPT !.status = "queued", !.kind = k,
                                                     !.total = n, !.finalized = fin]]
          /\ thread' = [thread EXCEPT ![c] = Submitting(j, 0, n, fin)]
    BY <1>1 DEF CreateJob
  <2>2. ~Held(job[j])
    BY <2>1 DEF Held, Active
  <2>3. \A m \in Jobs : Held(job[m]) => Held(job'[m])
    BY <1>j, <2>1, <2>2
  <2>4. Submitting(j, 0, n, fin).pc \notin Completing
    BY BoundsAssumption, SubmittingType DEF Completing
  <2> QED BY <1>0, <2>1, <2>3, <2>4, CompleterLeaves
<1>2. ASSUME NEW j \in Jobs, NEW n \in 0..MaxItems, NEW fin \in BOOLEAN, AppendItems(c, j, n, fin)
      PROVE  SingleCompleter'
  <2>1. job[j] \in Rows /\ job[j].total \in Nat /\ job[j].total + n <= MaxItems
    BY <1>2, <1>j, BoundsAssumption DEF AppendItems, Rows
  <2>2. job' = [job EXCEPT ![j] = [job[j] EXCEPT !.total = job[j].total + n, !.finalized = fin]]
    BY <1>2 DEF AppendItems
  <2>3. Held(job[j]) => Held(job'[j])
    BY <1>j, <2>1, <2>2 DEF Held, Rows
  <2>4. \A m \in Jobs : Held(job[m]) => Held(job'[m])
    BY <1>j, <2>2, <2>3
  <2>5. Submitting(j, job[j].total, n, fin).pc \notin Completing
    BY <2>1, BoundsAssumption, SubmittingType DEF Completing
  <2>6. thread' = [thread EXCEPT ![c] = Submitting(j, job[j].total, n, fin)]
    BY <1>2 DEF AppendItems
  <2> QED BY <1>0, <2>4, <2>5, <2>6, CompleterLeaves
<1>3. CASE EnqueueChunk(c)
  <2> DEFINE rest == SubSeq(thread[c].todo, Len(Slice(thread[c].todo, 1)) + 1, Len(thread[c].todo))
             fr == [thread[c] EXCEPT !.todo = rest]
  <2>1. thread' = [thread EXCEPT ![c] = AfterEnqueue(fr)] /\ job' = job
    BY <1>3 DEF EnqueueChunk
  <2>2. AfterEnqueue(fr).pc \notin Completing
    <3>1. fr \in [pc : PCs, job : Jobs, todo : {rest}, msg : Messages, fin : BOOLEAN,
                  got : {"none", "done", "failed", "interrupted", "hook error"}]
      <4> HIDE DEF rest
      <4>1. thread[c] \in Frames
        BY <1>0 DEF TypeOK
      <4> QED BY <4>1, Zenon DEF Frames
    <3> HIDE DEF fr, rest
    <3> QED BY <3>1 DEF AfterEnqueue, Idle, Completing
  <2> HIDE DEF fr
  <2> QED BY <1>0, <2>1, <2>2, CompleterLeaves
<1> QED BY <1>1, <1>2, <1>3 DEF Request

\* Workers: no step of theirs touches status or finished of a claimed job.
LEMMA WorkCompleter ==
    ASSUME TypeOK, FrameInv, SingleCompleter, NEW w \in Workers, Dequeue(w) \/ Work(w)
    PROVE  SingleCompleter'
<1> USE DEF tables, broker, server, history
<1>0. w \in Threads /\ thread[w] \in Frames
  BY ThreadsAreThreads DEF TypeOK
<1>j. job \in [Jobs -> Rows] /\ thread[w].job \in Jobs
  BY <1>0, FrameType DEF TypeOK
<1>i. Idle.pc \notin Completing
  BY DEF Idle, Completing
<1> DEFINE j == thread[w].job
<1>1. CASE Dequeue(w)
  <2>1. [Idle EXCEPT !.pc = "check", !.job = Head(queue).job,
                     !.todo = Head(queue).idxs, !.msg = Head(queue)].pc = "check"
    BY DEF Idle
  <2> QED BY <1>0, <1>1, <2>1, CompleterLeaves DEF Dequeue, Completing
<1>2. CASE CheckJob(w)
  <2>1. \/ thread' = [thread EXCEPT ![w] = Idle]
        \/ thread' = [thread EXCEPT ![w] = [thread[w] EXCEPT !.pc = "loop"]]
    BY <1>2 DEF CheckJob
  <2>2. [thread[w] EXCEPT !.pc = "loop"].pc \notin Completing /\ job' = job
    BY <1>0, <1>2, FramePc DEF CheckJob, Completing
  <2> QED BY <1>0, <1>i, <2>1, <2>2, CompleterLeaves
<1>3. CASE NextItem(w)
  <2>1. \/ thread' = [thread EXCEPT ![w] = Idle]
        \/ thread' = [thread EXCEPT ![w] = [thread[w] EXCEPT !.pc = "claim"]]
        \/ thread' = [thread EXCEPT ![w] = [thread[w] EXCEPT !.pc = "start"]]
    BY <1>3 DEF NextItem
  <2>2. /\ [thread[w] EXCEPT !.pc = "claim"].pc \notin Completing
        /\ [thread[w] EXCEPT !.pc = "start"].pc \notin Completing
        /\ job' = job
    BY <1>0, <1>3, FramePc DEF NextItem, Completing
  <2> QED BY <1>0, <1>i, <2>1, <2>2, CompleterLeaves
<1>4. CASE StartItem(w)
  <2>1. \/ thread' = [thread EXCEPT ![w] = Idle]
        \/ thread' = [thread EXCEPT ![w] = Skip(thread[w])]
        \/ thread' = [thread EXCEPT ![w] = [thread[w] EXCEPT !.pc = "predict"]]
    BY <1>4 DEF StartItem
  <2>2. Skip(thread[w]).pc = "loop" /\ [thread[w] EXCEPT !.pc = "predict"].pc = "predict"
    BY <1>0, FramePc DEF Skip
  <2>3. job' = job \/ job' = [job EXCEPT ![j] = [job[j] EXCEPT !.status = "running"]]
    BY <1>4 DEF StartItem
  <2>4. [job[j] EXCEPT !.status = "running"].status = "running"
        /\ [job[j] EXCEPT !.status = "running"].finished = job[j].finished
    BY <1>j DEF Rows
  <2>5. \A m \in Jobs : Held(job[m]) => Held(job'[m])
    BY <1>j, <2>3, <2>4 DEF Held, Active
  <2> QED BY <1>0, <1>i, <2>1, <2>2, <2>5, CompleterLeaves DEF Completing
<1>5. CASE PredictReturns(w) \/ PredictRaises(w)
  <2>1. \/ thread' = [thread EXCEPT ![w] = Idle]
        \/ \E got : thread' = [thread EXCEPT ![w] = [thread[w] EXCEPT !.pc = "finish", !.got = got]]
    <3>1. CASE PredictReturns(w)
      BY <3>1 DEF PredictReturns
    <3>2. CASE PredictRaises(w) /\ Stopping
      BY <3>2 DEF PredictRaises
    <3>3. CASE PredictRaises(w) /\ ~Stopping
      <4>1. EngineClosed => Stopping
        BY DEF EngineClosed, Stopping
      <4>2. thread' = [thread EXCEPT ![w] = [thread[w] EXCEPT !.pc = "finish", !.got = "failed"]]
        BY <3>3, <4>1 DEF PredictRaises
      <4> QED BY <4>2
    <3> QED BY <1>5, <3>1, <3>2, <3>3
  <2>2. \A got : [thread[w] EXCEPT !.pc = "finish", !.got = got].pc \notin Completing
    BY <1>0, FramePc DEF Completing
  <2>3. job' = job
    BY <1>5 DEF PredictReturns, PredictRaises
  <2>4. CASE thread' = [thread EXCEPT ![w] = Idle]
    BY <1>0, <1>i, <2>3, <2>4, CompleterLeaves
  <2>5. CASE \E got : thread' = [thread EXCEPT ![w] = [thread[w] EXCEPT !.pc = "finish", !.got = got]]
    <3>1. PICK got : thread' = [thread EXCEPT ![w] = [thread[w] EXCEPT !.pc = "finish", !.got = got]]
      BY <2>5
    <3> QED BY <1>0, <2>2, <2>3, <3>1, CompleterLeaves
  <2> QED BY <2>1, <2>4, <2>5
<1>6. CASE FinishItem(w)
  <2>1. thread' = [thread EXCEPT ![w] = Skip(thread[w])]
    BY <1>6 DEF FinishItem
  <2>2. Skip(thread[w]).pc = "loop"
    BY <1>0, FramePc DEF Skip
  <2> DEFINE d == job[j].done + 1
             f == IF thread[w].got \in FailedItem THEN job[j].failed + 1 ELSE job[j].failed
  <2>3. job' = job \/ job' = [job EXCEPT ![j] = [job[j] EXCEPT !.done = d, !.failed = f]]
    BY <1>6 DEF FinishItem
  <2> HIDE DEF d, f
  <2>4. /\ [job[j] EXCEPT !.done = d, !.failed = f].status = job[j].status
        /\ [job[j] EXCEPT !.done = d, !.failed = f].finished = job[j].finished
    BY <1>j DEF Rows
  <2>5. \A m \in Jobs : Held(job[m]) => Held(job'[m])
    BY <1>j, <2>3, <2>4 DEF Held
  <2> QED BY <1>0, <2>1, <2>2, <2>5, CompleterLeaves DEF Completing
<1> QED BY <1>1, <1>2, <1>3, <1>4, <1>5, <1>6 DEF Work

\* The claim is the only way in, and the claimed job has no other completer.
LEMMA FinalizingCompleter ==
    ASSUME TypeOK, FrameInv, SingleCompleter, NEW t \in Threads, Finalizing(t) \/ Fault(t)
    PROVE  SingleCompleter'
<1> USE DEF tables, broker, server, history
<1>0. thread \in [Threads -> Frames] /\ thread[t] \in Frames
  BY DEF TypeOK
<1>j. job \in [Jobs -> Rows] /\ thread[t].job \in Jobs
  BY <1>0, FrameType DEF TypeOK
<1>i. Idle.pc \notin Completing
  BY DEF Idle, Completing
<1> DEFINE j == thread[t].job
<1>1. ASSUME Claimable(j)
      PROVE  \A u \in Threads : thread[u].pc \in Completing => thread[u].job # j
  BY <1>1 DEF Claimable, SingleCompleter
<1>2. CASE Claim(t) /\ ~Claimable(j)
  BY <1>2, <1>i, CompleterLeaves DEF Claim
<1>3. CASE Claim(t) /\ Claimable(j) /\ AllFailed(j)
  <2>1. thread' = [thread EXCEPT ![t] = Idle]
        /\ job' = [job EXCEPT ![j] = [job[j] EXCEPT !.finished = TRUE, !.status = "failed", !.error = TRUE]]
    BY <1>3 DEF Claim
  <2>2. ASSUME NEW u \in Threads, thread'[u].pc \in Completing
        PROVE  /\ thread[u].pc \in Completing /\ thread'[u].job = thread[u].job
               /\ Held(job'[thread[u].job])
    <3>1. u # t /\ thread'[u] = thread[u]
      BY <1>0, <1>i, <2>1, <2>2
    <3>2. thread[u].job # j
      BY <1>1, <1>3, <2>2, <3>1
    <3>3. job'[thread[u].job] = job[thread[u].job]
      <4>1. thread[u].job \in Jobs
        BY <1>0, FrameType
      <4> QED BY <1>j, <2>1, <3>2, <4>1
    <3> QED BY <2>2, <3>1, <3>3 DEF SingleCompleter, IsActive, Held
  <2> QED BY <2>2, CompleterFrame
<1>4. CASE Claim(t) /\ Claimable(j) /\ ~AllFailed(j)
  <2> DEFINE fr == [thread[t] EXCEPT !.pc = "hooks"]
             row == [job[j] EXCEPT !.finished = TRUE]
  <2>1. thread' = [thread EXCEPT ![t] = fr] /\ job' = [job EXCEPT ![j] = row]
    BY <1>4 DEF Claim
  <2>2. fr.job = j
    BY <1>0, FramePc
  <2>3. Held(row)
    BY <1>4, <1>j DEF Claimable, IsActive, Held, Rows
  <2>4. \A u \in Threads \ {t} : thread'[u] = thread[u]
        /\ (thread[u].pc \in Completing => thread[u].job # j /\ job'[thread[u].job] = job[thread[u].job])
    <3>1. \A u \in Threads : thread[u].job \in Jobs
      BY <1>0, FrameType
    <3> HIDE DEF row, fr
    <3> QED BY <1>0, <1>1, <1>4, <1>j, <2>1, <3>1
  <2>5. thread'[t].job = j /\ Held(job'[j])
    <3> HIDE DEF row, fr
    <3> QED BY <1>0, <1>j, <2>1, <2>2, <2>3
  <2>6. \A u \in Threads \ {t} : thread'[u].pc \in Completing => Held(job'[thread'[u].job])
    BY <2>4 DEF SingleCompleter, IsActive, Held
  <2> QED BY <2>4, <2>5, <2>6 DEF SingleCompleter, IsActive, Held
<1>5. CASE HooksReturn(t)
  <2> DEFINE b == (job[j].kind = "evaluate") \/ job[j].ref
             fr == [thread[t] EXCEPT !.pc = "complete"]
  <2>1. thread' = [thread EXCEPT ![t] = fr] /\ job' = [job EXCEPT ![j] = [job[j] EXCEPT !.ref = b]]
        /\ thread[t].pc \in Completing
    BY <1>5 DEF HooksReturn, Completing
  <2>2. fr.job = j
    BY <1>0, FramePc
  <2>3. /\ [job[j] EXCEPT !.ref = b].status = job[j].status
        /\ [job[j] EXCEPT !.ref = b].finished = job[j].finished
    <3> HIDE DEF b
    <3> QED BY <1>j DEF Rows
  <2>4. \A m \in Jobs : Held(job[m]) => Held(job'[m])
    <3> HIDE DEF b
    <3> QED BY <1>j, <2>1, <2>3 DEF Held
  <2>5. ASSUME NEW u \in Threads, thread'[u].pc \in Completing
        PROVE  /\ thread[u].pc \in Completing /\ thread'[u].job = thread[u].job
               /\ Held(job'[thread[u].job])
    <3>1. thread[u].pc \in Completing /\ thread'[u].job = thread[u].job
      <4> HIDE DEF fr
      <4> QED BY <1>0, <2>1, <2>2, <2>5
    <3>2. Held(job[thread[u].job]) /\ thread[u].job \in Jobs
      BY <1>0, <3>1, FrameType DEF SingleCompleter, IsActive, Held
    <3> QED BY <2>4, <3>1, <3>2
  <2> QED BY <2>5, CompleterFrame
<1>6. CASE HooksRaise(t)
  <2> DEFINE fr == [thread[t] EXCEPT !.pc = "complete", !.got = "hook error"]
  <2>1. thread' = [thread EXCEPT ![t] = fr] /\ job' = job /\ thread[t].pc \in Completing
    BY <1>6 DEF HooksRaise, Completing
  <2>2. fr.job = j
    BY <1>0, FramePc
  <2>3. ASSUME NEW u \in Threads, thread'[u].pc \in Completing
        PROVE  /\ thread[u].pc \in Completing /\ thread'[u].job = thread[u].job
               /\ Held(job'[thread[u].job])
    <3>1. thread[u].pc \in Completing /\ thread'[u].job = thread[u].job
      <4> HIDE DEF fr
      <4> QED BY <1>0, <2>1, <2>2, <2>3
    <3> QED BY <2>1, <3>1 DEF SingleCompleter, IsActive, Held
  <2> QED BY <2>3, CompleterFrame
<1>7. CASE Complete(t)
  <2> DEFINE b == (thread[t].got = "hook error") \/ job[j].error
  <2>1. /\ thread' = [thread EXCEPT ![t] = Idle] /\ thread[t].pc \in Completing
        /\ job' = job \/ job' = [job EXCEPT ![j] = [job[j] EXCEPT !.status = "completed", !.error = b]]
    BY <1>7 DEF Complete, Completing
  <2>2. ASSUME NEW u \in Threads, thread'[u].pc \in Completing
        PROVE  /\ thread[u].pc \in Completing /\ thread'[u].job = thread[u].job
               /\ Held(job'[thread[u].job])
    <3>1. u # t /\ thread'[u] = thread[u]
      BY <1>0, <1>i, <2>1, <2>2
    <3>2. thread[u].job # j /\ Held(job[thread[u].job])
      BY <2>1, <2>2, <3>1 DEF SingleCompleter, IsActive, Held
    <3>3. job'[thread[u].job] = job[thread[u].job]
      <4>1. thread[u].job \in Jobs
        BY <1>0, FrameType
      <4> HIDE DEF b
      <4> QED BY <1>j, <2>1, <3>2, <4>1
    <3> QED BY <2>2, <3>1, <3>2, <3>3
  <2> QED BY <2>2, CompleterFrame
<1>8. CASE Fault(t)
  BY <1>8, <1>i, CompleterLeaves DEF Fault
<1> QED BY <1>2, <1>3, <1>4, <1>5, <1>6, <1>7, <1>8 DEF Finalizing, Claim

\* Cancelling, the scheduler and the server process.
LEMMA OtherCompleter ==
    ASSUME TypeOK, FrameInv, SingleCompleter,
           \/ \E j \in Jobs : Cancel(j)
           \/ \E m \in schedule : Reschedule(m)
           \/ Lifespan
    PROVE  SingleCompleter'
<1> USE DEF tables, broker, server, history
<1>1. ASSUME NEW j \in Jobs, Cancel(j) PROVE SingleCompleter'
  <2>1. job' = [job EXCEPT ![j] = [job[j] EXCEPT !.status = "cancelled", !.finished = TRUE]]
        /\ thread' = thread /\ ~Held(job[j])
    BY <1>1 DEF Cancel, CanCancel, Held
  <2>2. \A m \in Jobs : Held(job[m]) => Held(job'[m])
    BY <2>1 DEF TypeOK
  <2> QED BY <2>1, <2>2, CompleterStays
<1>2. ASSUME NEW m \in schedule, Reschedule(m) PROVE SingleCompleter'
  BY <1>2, CompleterStays DEF Reschedule
<1>3. CASE Start
  <2>1. \A u \in Threads : thread'[u].pc = "idle"
    BY <1>3 DEF Start, FrameInv, Idle
  <2> QED BY <2>1 DEF SingleCompleter, Completing
<1>4. CASE RecoverJob \/ StartConsumer \/ Stop \/ StopEngine
  BY <1>4, CompleterStays DEF RecoverJob, StartConsumer, Stop, StopEngine
<1>5. CASE Exit \/ Crash
  <2>1. \A u \in Threads : thread'[u].pc = "idle"
    BY <1>5 DEF Exit, Crash, Idle
  <2> QED BY <2>1 DEF SingleCompleter, Completing
<1> QED BY <1>1, <1>2, <1>3, <1>4, <1>5 DEF Lifespan

LEMMA CompleterStep ==
    TypeOK /\ FrameInv /\ SingleCompleter /\ [Next]_vars => SingleCompleter'
<1> SUFFICES ASSUME TypeOK, FrameInv, SingleCompleter, [Next]_vars PROVE SingleCompleter'
  OBVIOUS
<1>1. CASE UNCHANGED vars
  BY <1>1 DEF vars, SingleCompleter, IsActive
<1>2. CASE Next
  BY <1>2, RequestCompleter, WorkCompleter, FinalizingCompleter, OtherCompleter DEF Next
<1> QED BY <1>1, <1>2

LEMMA CompleterInit == Init => SingleCompleter
  BY DEF Init, SingleCompleter, Idle, Completing

\* No two threads ever complete one job, and a job being completed can be
\* neither cancelled nor claimed again, for any number of workers, submitters,
\* jobs, items, retries, faults and restarts (claim_job_completion).
THEOREM OneCompleter == Spec => []SingleCompleter
  BY FramesCorrect, CompleterInit, CompleterStep, PTL DEF Spec
=============================================================================
