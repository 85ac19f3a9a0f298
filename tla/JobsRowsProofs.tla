--------------------------- MODULE JobsRowsProofs ---------------------------
(***************************************************************************)
(* Proofs about the job tables of Jobs: what a poller reads in a job's row *)
(* and its items is true, a job that ended is frozen, and the tables with  *)
(* all the machinery behind them implement JobLifecycle.                   *)
(***************************************************************************)
EXTENDS JobsProofs

----------------------------------------------------------------------------
(* One row r of the jobs table with the statuses `it' of its items.        *)

Having(it, S) == {i \in Idx : it[i] \in S}
Counted == {"pending", "cancelled"} \cup Processed

Counts(r, it) ==
    /\ Having(it, Counted) = 1..r.total
    /\ r.done = Cardinality(Having(it, Processed))
    /\ r.failed = Cardinality(Having(it, FailedItem))
\* A claim is only given away for a job that is closed and answered, not only
\* with failures; it stays so because nothing changes such a job any more.
ClaimSound(r) ==
    Held(r) => r.finalized /\ r.done >= r.total /\ ~(r.total > 0 /\ r.failed >= r.total)
StatusSound(r, it) ==
    /\ r.status = "completed" =>
          /\ r.finalized
          /\ \A i \in 1..r.total : it[i] \in Processed
          /\ r.total > 0 => \E i \in 1..r.total : it[i] = "done"
    /\ r.status = "failed" =>
          /\ r.finalized /\ r.total > 0
          /\ \A i \in 1..r.total : it[i] \in FailedItem
    /\ r.status = "cancelled" => Having(it, {"pending"}) = {}

RowGood(r, it) ==
    /\ Counts(r, it) /\ ClaimSound(r) /\ StatusSound(r, it)
    /\ r.status = "absent" => r.total = 0
    /\ \A i \in Idx : it[i] # "interrupted"
    /\ r.status = "completed" /\ r.kind = "evaluate" => r.ref \/ r.error

Items == [Idx -> Statuses]

\* The sets the counters count are finite.
LEMMA HavingFinite ==
    ASSUME NEW it, NEW S
    PROVE  IsFiniteSet(Having(it, S)) /\ Cardinality(Having(it, S)) \in Nat
<1>1. IsFiniteSet(Idx)
  BY FS_Interval, BoundsAssumption DEF Idx
<1>2. Having(it, S) \subseteq Idx
  BY DEF Having
<1> QED BY <1>1, <1>2, FS_Subset, FS_CardinalityType

\* A counter that reached the total has counted every item.
LEMMA AllCounted ==
    ASSUME NEW it, NEW n \in Nat, NEW S, S \subseteq Counted, Having(it, Counted) = 1..n
    PROVE  Cardinality(Having(it, S)) >= n <=> \A i \in 1..n : it[i] \in S
<1>1. Having(it, S) \subseteq 1..n /\ 1..n \subseteq Idx
  BY DEF Having
<1>2. IsFiniteSet(1..n) /\ Cardinality(1..n) = n
  BY FS_Interval
<1>3. Cardinality(Having(it, S)) \in Nat
  BY HavingFinite
<1>4. ASSUME Cardinality(Having(it, S)) >= n PROVE Having(it, S) = 1..n
  BY <1>1, <1>2, <1>3, <1>4, FS_Subset
<1>5. ASSUME \A i \in 1..n : it[i] \in S PROVE Having(it, S) = 1..n
  BY <1>1, <1>5 DEF Having
<1>6. Having(it, S) = 1..n => \A i \in 1..n : it[i] \in S
  BY DEF Having
<1>7. Having(it, S) = 1..n => Cardinality(Having(it, S)) >= n
  BY <1>2
<1> QED BY <1>4, <1>5, <1>6, <1>7

\* The counters of a good row speak about its items.
LEMMA CountersSpeak ==
    ASSUME NEW r \in Rows, NEW it \in Items, Counts(r, it)
    PROVE  /\ r.total \in Nat /\ r.done \in Nat /\ r.failed \in Nat
           /\ r.done >= r.total <=> \A i \in 1..r.total : it[i] \in Processed
           /\ r.failed >= r.total <=> \A i \in 1..r.total : it[i] \in FailedItem
           /\ \A i \in Idx : it[i] # "absent" <=> i \in 1..r.total
<1>1. r.total \in Nat /\ r.done \in Nat /\ r.failed \in Nat
  BY BoundsAssumption DEF Rows
<1>2. Processed \subseteq Counted /\ FailedItem \subseteq Counted
  BY DEF Counted, Processed, FailedItem
<1>3. r.done >= r.total <=> \A i \in 1..r.total : it[i] \in Processed
  BY <1>1, <1>2, AllCounted DEF Counts
<1>4. r.failed >= r.total <=> \A i \in 1..r.total : it[i] \in FailedItem
  BY <1>1, <1>2, AllCounted DEF Counts
<1>5. \A i \in Idx : it[i] # "absent" <=> i \in 1..r.total
  <2>1. \A i \in Idx : it[i] \in Statuses
    BY DEF Items
  <2> QED BY <2>1 DEF Counts, Having, Counted, Statuses, Processed
<1> QED BY <1>1, <1>3, <1>4, <1>5

----------------------------------------------------------------------------
(* What each transaction makes of a good row.                              *)

\* create_job and append_job_items: n items after the first k.
LEMMA ItemsAdded ==
    ASSUME NEW r \in Rows, NEW it \in Items, RowGood(r, it), NEW r2 \in Rows, NEW n \in Nat,
           r.total + n <= MaxItems, r2.total = r.total + n, r2.status \in Active, ~r2.finished,
           r2.done = r.done, r2.failed = r.failed
    PROVE  RowGood(r2, [i \in Idx |-> IF i \in (r.total + 1)..(r.total + n) THEN "pending" ELSE it[i]])
<1> DEFINE it2 == [i \in Idx |-> IF i \in (r.total + 1)..(r.total + n) THEN "pending" ELSE it[i]]
<1>0. /\ r.total \in Nat /\ \A i \in Idx : it[i] # "absent" <=> i \in 1..r.total
  BY CountersSpeak DEF RowGood
<1>1. \A i \in Idx : it[i] \in Statuses /\ it[i] # "interrupted"
  BY DEF Items, RowGood
<1>2. Having(it2, Counted) = 1..r2.total
  <2>1. ASSUME NEW i \in Idx PROVE it2[i] \in Counted <=> i \in 1..(r.total + n)
    <3>1. i \in 1..(r.total + n) <=> i \in 1..r.total \/ i \in (r.total + 1)..(r.total + n)
      BY <1>0 DEF Idx
    <3>2. it[i] \in Counted <=> i \in 1..r.total
      BY <1>0, <1>1 DEF Counted, Statuses, Processed
    <3>3. it2[i] \in Counted <=> i \in (r.total + 1)..(r.total + n) \/ it[i] \in Counted
      BY DEF Counted
    <3> QED BY <3>1, <3>2, <3>3
  <2>2. 1..(r.total + n) \subseteq Idx
    BY <1>0, BoundsAssumption DEF Idx
  <2> QED BY <2>1, <2>2 DEF Having
<1>3. \A i \in Idx : i \in (r.total + 1)..(r.total + n) => it[i] = "absent"
  BY <1>0
<1>4. Having(it2, Processed) = Having(it, Processed) /\ Having(it2, FailedItem) = Having(it, FailedItem)
  BY <1>3 DEF Having, Processed, FailedItem
<1>5. Counts(r2, it2)
  BY <1>2, <1>4 DEF Counts, RowGood
<1>6. r2.status \notin Terminal \cup {"absent"}
  BY DEF Active, Terminal
<1>7. \A i \in Idx : it2[i] # "interrupted"
  BY <1>1
<1> HIDE DEF it2
<1> QED BY <1>5, <1>6, <1>7 DEF RowGood, ClaimSound, StatusSound, Held, Terminal, it2

\* cancel_job: the pending items are cancelled too.
LEMMA RowCancelled ==
    ASSUME NEW r \in Rows, NEW it \in Items, RowGood(r, it), NEW r2 \in Rows,
           r2.total = r.total, r2.done = r.done, r2.failed = r.failed, r2.status = "cancelled"
    PROVE  RowGood(r2, [i \in Idx |-> IF it[i] = "pending" THEN "cancelled" ELSE it[i]])
<1> DEFINE it2 == [i \in Idx |-> IF it[i] = "pending" THEN "cancelled" ELSE it[i]]
<1>1. \A i \in Idx : /\ it2[i] \in Counted <=> it[i] \in Counted
                     /\ it2[i] \in Processed <=> it[i] \in Processed
                     /\ it2[i] \in FailedItem <=> it[i] \in FailedItem
                     /\ it2[i] # "pending"
                     /\ it[i] # "interrupted" => it2[i] # "interrupted"
  BY DEF Counted, Processed, FailedItem
<1> HIDE DEF it2
<1>2. /\ Having(it2, Counted) = Having(it, Counted) /\ Having(it2, Processed) = Having(it, Processed)
      /\ Having(it2, FailedItem) = Having(it, FailedItem) /\ Having(it2, {"pending"}) = {}
  BY <1>1 DEF Having
<1> QED BY <1>1, <1>2 DEF RowGood, Counts, ClaimSound, StatusSound, Held, Active, it2

\* finish_job_item on a pending item: such a job is active and not claimed.
LEMMA PendingIsOpen ==
    ASSUME NEW r \in Rows, NEW it \in Items, RowGood(r, it), NEW i \in Idx, it[i] = "pending"
    PROVE  r.status \in Active /\ ~Held(r) /\ i \in 1..r.total
<1>1. /\ r.total \in Nat /\ i \in 1..r.total
      /\ r.done >= r.total => \A k \in 1..r.total : it[k] \in Processed
  BY CountersSpeak DEF RowGood
<1>2. it[i] \notin Processed /\ it[i] \notin FailedItem /\ i \in Having(it, {"pending"})
  BY DEF Processed, FailedItem, Having
<1>3. r.status \in Active \cup Terminal \cup {"absent"}
  BY DEF Rows
<1> QED BY <1>1, <1>2, <1>3 DEF RowGood, ClaimSound, StatusSound, Terminal

LEMMA ItemFinished ==
    ASSUME NEW r \in Rows, NEW it \in Items, RowGood(r, it), NEW r2 \in Rows,
           NEW i \in Idx, it[i] = "pending", NEW got \in {"done", "failed"},
           r2.status = r.status, r2.finished = r.finished, r2.total = r.total,
           r2.done = r.done + 1,
           r2.failed = IF got \in FailedItem THEN r.failed + 1 ELSE r.failed
    PROVE  RowGood(r2, [it EXCEPT ![i] = got])
<1> DEFINE it2 == [it EXCEPT ![i] = got]
<1>1. \A k \in Idx : it2[k] = IF k = i THEN got ELSE it[k]
  BY DEF Items
<1>2. r.status \in Active /\ ~Held(r)
  BY PendingIsOpen
<1> HIDE DEF it2
<1>3. Having(it2, Counted) = Having(it, Counted)
  BY <1>1 DEF Having, Counted, Processed
<1>4. Having(it2, Processed) = Having(it, Processed) \cup {i} /\ i \notin Having(it, Processed)
  BY <1>1 DEF Having, Processed
<1>5. i \notin Having(it, FailedItem)
      /\ Having(it2, FailedItem) = IF got \in FailedItem THEN Having(it, FailedItem) \cup {i}
                                   ELSE Having(it, FailedItem)
  BY <1>1 DEF Having, FailedItem
<1>6. /\ Cardinality(Having(it2, Processed)) = r.done + 1
      /\ Cardinality(Having(it2, FailedItem)) = r2.failed
  <2>1. IsFiniteSet(Having(it, Processed)) /\ IsFiniteSet(Having(it, FailedItem))
    BY HavingFinite
  <2>2. Cardinality(Having(it, Processed)) = r.done /\ Cardinality(Having(it, FailedItem)) = r.failed
    BY DEF RowGood, Counts
  <2> QED BY <1>4, <1>5, <2>1, <2>2, FS_AddElement
<1>7. Counts(r2, it2)
  BY <1>3, <1>6 DEF Counts, RowGood
<1>8. \A k \in Idx : it2[k] # "interrupted"
  BY <1>1 DEF RowGood
<1>9. r2.status \notin {"completed", "failed", "cancelled", "absent"} /\ ~Held(r2)
  BY <1>2 DEF Active, Held
<1> QED BY <1>7, <1>8, <1>9 DEF RowGood, ClaimSound, StatusSound, it2

\* Steps that leave the items and the counters alone: a row that stays active
\* is claimed only when it may be, and a row that ends says how.
Kept(r, r2) ==
    /\ r2.total = r.total /\ r2.done = r.done /\ r2.failed = r.failed
    /\ r2.finalized = r.finalized /\ r2.kind = r.kind /\ (r.ref => r2.ref)
Over(r) == r.status \in Active /\ r.finalized /\ r.done >= r.total
NoneGood(r) == r.total > 0 /\ r.failed >= r.total
Quiet(r, r2) ==
    \/ r2 = r
    \/ /\ Kept(r, r2) /\ r.status \in Active /\ r2.status \in Active
       /\ r2.finished => r.finished \/ (Over(r) /\ ~NoneGood(r))
Ended(r, r2) ==
    /\ Kept(r, r2) /\ Over(r)
    /\ r2.status = IF NoneGood(r) THEN "failed" ELSE "completed"
    /\ r2.status = "completed" /\ r.kind = "evaluate" => r2.ref \/ r2.error

LEMMA RowQuiet ==
    ASSUME NEW r \in Rows, NEW it \in Items, RowGood(r, it), NEW r2 \in Rows, Quiet(r, r2)
    PROVE  RowGood(r2, it)
<1>1. CASE r2 = r
  BY <1>1
<1>2. CASE r2 # r
  BY <1>2 DEF RowGood, Counts, ClaimSound, StatusSound, Held, Active, Quiet, Kept, Over, NoneGood
<1> QED BY <1>1, <1>2

LEMMA RowEnded ==
    ASSUME NEW r \in Rows, NEW it \in Items, RowGood(r, it), NEW r2 \in Rows, Ended(r, r2)
    PROVE  RowGood(r2, it)
<1>0. /\ Counts(r2, it) /\ r.total \in Nat /\ r.failed \in Nat
      /\ r.done >= r.total <=> \A i \in 1..r.total : it[i] \in Processed
      /\ r.failed >= r.total <=> \A i \in 1..r.total : it[i] \in FailedItem
  BY CountersSpeak DEF RowGood, Counts, Ended, Kept
<1>1. /\ r2.status \in {"failed", "completed"} /\ ~Held(r2) /\ r2.finalized /\ r2.total = r.total
      /\ r2.kind = r.kind /\ \A i \in Idx : it[i] # "interrupted"
  BY DEF Ended, Kept, Over, Held, Active, RowGood
<1>2. CASE NoneGood(r)
  BY <1>0, <1>1, <1>2 DEF RowGood, ClaimSound, StatusSound, NoneGood, Ended
<1>3. CASE ~NoneGood(r)
  <2>1. r.total > 0 => \E i \in 1..r.total : it[i] = "done"
    <3>1. \A i \in 1..r.total : it[i] \in FailedItem \/ it[i] = "done"
      BY <1>0 DEF Processed, FailedItem, Ended, Over
    <3> QED BY <1>0, <1>3, <3>1 DEF NoneGood
  <2> QED BY <1>0, <1>1, <1>3, <2>1 DEF RowGood, ClaimSound, StatusSound, Ended, Over
<1> QED BY <1>2, <1>3

\* The row of a job that was never created counts nothing.
LEMMA AbsentRow ==
    ASSUME NEW r \in Rows, NEW it \in Items, RowGood(r, it), r.status = "absent"
    PROVE  r.total = 0 /\ r.done = 0 /\ r.failed = 0
<1>1. r.total = 0 /\ Having(it, Counted) = {}
  BY DEF RowGood, Counts
<1>2. Having(it, Processed) = {} /\ Having(it, FailedItem) = {}
  BY <1>1 DEF Having, Counted, Processed, FailedItem
<1> QED BY <1>1, <1>2, FS_EmptySet DEF RowGood, Counts
----------------------------------------------------------------------------
(* The inductive invariant: every row is good, and a thread about to call  *)
(* complete_job for an evaluate job has its report or the hook's error.    *)

RowsGood == \A j \in Jobs : RowGood(job[j], item[j])
ThreadGood ==
    \A t \in Threads :
        /\ thread[t].got # "interrupted"
        /\ thread[t].pc = "complete" /\ job[thread[t].job].kind = "evaluate" =>
              job[thread[t].job].ref \/ thread[t].got = "hook error"
RowsInv == RowsGood /\ ThreadGood

(* The steps the tables can take: every action is one of these.            *)
Others(j) == \A m \in Jobs \ {j} : job'[m] = job[m] /\ item'[m] = item[m]
Rests == item' = item /\ \A j \in Jobs : Quiet(job[j], job'[j])
Adds(j, n) ==
    /\ Others(j)
    /\ \/ job[j].status = "absent"
       \/ /\ job[j].status \in Active /\ ~job[j].finalized
          /\ job'[j].kind = job[j].kind /\ job'[j].ref = job[j].ref
    /\ job[j].total + n <= MaxItems /\ job'[j].total = job[j].total + n
    /\ job'[j].status \in Active /\ ~job'[j].finished
    /\ job'[j].done = job[j].done /\ job'[j].failed = job[j].failed
    /\ item'[j] = [i \in Idx |-> IF i \in (job[j].total + 1)..(job[j].total + n)
                                 THEN "pending" ELSE item[j][i]]
Cancels(j) ==
    /\ Others(j) /\ Kept(job[j], job'[j])
    /\ job[j].status \in Active /\ job'[j].status = "cancelled"
    /\ item'[j] = [i \in Idx |-> IF item[j][i] = "pending" THEN "cancelled" ELSE item[j][i]]
Answers(j, i, got) ==
    /\ Others(j) /\ item[j][i] = "pending"
    /\ job'[j].status = job[j].status /\ job'[j].finished = job[j].finished
    /\ job'[j].finalized = job[j].finalized /\ job'[j].kind = job[j].kind
    /\ job'[j].ref = job[j].ref /\ job'[j].total = job[j].total
    /\ job'[j].done = job[j].done + 1
    /\ job'[j].failed = IF got \in FailedItem THEN job[j].failed + 1 ELSE job[j].failed
    /\ item'[j] = [item[j] EXCEPT ![i] = got]
Ends(j) == Others(j) /\ item'[j] = item[j] /\ Ended(job[j], job'[j])

TableStep ==
    \/ Rests
    \/ \E j \in Jobs :
          \/ \E n \in 0..MaxItems : Adds(j, n)
          \/ \E i \in Idx : \E got \in {"done", "failed"} : Answers(j, i, got)
          \/ Cancels(j) \/ Ends(j)

\* The tables, typed.
LEMMA Tables ==
    ASSUME TypeOK
    PROVE  /\ job \in [Jobs -> Rows] /\ item \in [Jobs -> Items]
           /\ \A j \in Jobs : job[j] \in Rows /\ item[j] \in Items
  BY DEF TypeOK, Items, Statuses

LEMMA RowsStep ==
    ASSUME TypeOK, TypeOK', RowsGood, TableStep
    PROVE  RowsGood'
<1>0. /\ \A j \in Jobs : job[j] \in Rows /\ item[j] \in Items
      /\ \A j \in Jobs : job'[j] \in Rows
  BY Tables DEF TypeOK
<1>1. SUFFICES ASSUME NEW m \in Jobs PROVE RowGood(job'[m], item'[m])
  BY DEF RowsGood
<1>2. RowGood(job[m], item[m])
  BY DEF RowsGood
<1>3. CASE Rests
  BY <1>0, <1>2, <1>3, RowQuiet DEF Rests
<1>4. ASSUME NEW j \in Jobs, Others(j), j # m PROVE RowGood(job'[m], item'[m])
  BY <1>2, <1>4 DEF Others
<1>5. ASSUME NEW n \in 0..MaxItems, Adds(m, n) PROVE RowGood(job'[m], item'[m])
  BY <1>0, <1>2, <1>5, ItemsAdded, BoundsAssumption DEF Adds
<1>6. ASSUME NEW i \in Idx, NEW got \in {"done", "failed"}, Answers(m, i, got)
      PROVE  RowGood(job'[m], item'[m])
  <2>1. RowGood(job'[m], [item[m] EXCEPT ![i] = got])
    <3>1. /\ job[m] \in Rows /\ item[m] \in Items /\ job'[m] \in Rows
          /\ item[m][i] = "pending" /\ job'[m].status = job[m].status
          /\ job'[m].finished = job[m].finished /\ job'[m].total = job[m].total
          /\ job'[m].done = job[m].done + 1
          /\ job'[m].failed = IF got \in FailedItem THEN job[m].failed + 1 ELSE job[m].failed
      BY <1>0, <1>6 DEF Answers
    <3> QED BY <1>2, <3>1, ItemFinished
  <2> QED BY <1>6, <2>1 DEF Answers
<1>7. CASE Cancels(m)
  BY <1>0, <1>2, <1>7, RowCancelled DEF Cancels, Kept
<1>8. CASE Ends(m)
  BY <1>0, <1>2, <1>8, RowEnded DEF Ends
<1>9. CASE ~Rests
  <2>1. PICK j \in Jobs :
          \/ \E n \in 0..MaxItems : Adds(j, n)
          \/ \E i \in Idx : \E got \in {"done", "failed"} : Answers(j, i, got)
          \/ Cancels(j) \/ Ends(j)
    BY <1>9 DEF TableStep
  <2>2. Others(j)
    BY <2>1 DEF Adds, Answers, Cancels, Ends
  <2> QED BY <1>4, <1>5, <1>6, <1>7, <1>8, <2>1, <2>2
<1> QED BY <1>3, <1>9

\* A row that exists keeps its kind and its report.
LEMMA KindKept ==
    ASSUME TypeOK, TableStep, NEW m \in Jobs, job[m].status # "absent"
    PROVE  job'[m].kind = job[m].kind /\ (job[m].ref => job'[m].ref)
<1>1. CASE Rests
  BY <1>1 DEF Rests, Quiet, Kept
<1>2. ASSUME NEW j \in Jobs, Others(j), j # m
      PROVE  job'[m] = job[m]
  BY <1>2 DEF Others
<1>3. ASSUME NEW n \in 0..MaxItems, Adds(m, n)
      PROVE  job'[m].kind = job[m].kind /\ (job[m].ref => job'[m].ref)
  BY <1>3 DEF Adds
<1>4. ASSUME NEW i \in Idx, NEW got \in {"done", "failed"}, Answers(m, i, got)
      PROVE  job'[m].kind = job[m].kind /\ (job[m].ref => job'[m].ref)
  BY <1>4 DEF Answers
<1>5. CASE Cancels(m) \/ Ends(m)
  BY <1>5 DEF Cancels, Ends, Ended, Kept
<1>6. CASE ~Rests
  <2>1. PICK j \in Jobs :
          \/ \E n \in 0..MaxItems : Adds(j, n)
          \/ \E i \in Idx : \E got \in {"done", "failed"} : Answers(j, i, got)
          \/ Cancels(j) \/ Ends(j)
    BY <1>6 DEF TableStep
  <2>2. Others(j)
    BY <2>1 DEF Adds, Answers, Cancels, Ends
  <2> QED BY <1>2, <1>3, <1>4, <1>5, <2>1, <2>2
<1> QED BY <1>1, <1>6
----------------------------------------------------------------------------
(* Every action takes one of these steps.                                  *)

\* An action on the row and the items of one job.
LEMMA OneRow ==
    ASSUME TypeOK, NEW j \in Jobs, NEW r2, NEW it2,
           job' = [job EXCEPT ![j] = r2], item' = [item EXCEPT ![j] = it2]
    PROVE  Others(j) /\ job'[j] = r2 /\ item'[j] = it2
  BY Tables DEF Others

LEMMA OneRowQuiet ==
    ASSUME TypeOK, NEW j \in Jobs, NEW r2, job' = [job EXCEPT ![j] = r2], item' = item,
           Quiet(job[j], r2)
    PROVE  TableStep
<1>1. job'[j] = r2 /\ \A m \in Jobs \ {j} : job'[m] = job[m]
  BY Tables
<1> QED BY <1>1 DEF TableStep, Rests, Quiet

LEMMA Untouched ==
    ASSUME UNCHANGED tables
    PROVE  TableStep
  BY DEF tables, TableStep, Rests, Quiet

LEMMA RequestTables ==
    ASSUME TypeOK, RowsGood, NEW c \in Clients, Request(c)
    PROVE  TableStep
<1> USE BoundsAssumption
<1>1. ASSUME NEW k \in Kinds, NEW n \in 0..MaxItems, NEW fin \in BOOLEAN, CreateJob(c, k, n, fin)
      PROVE  TableStep
  <2> DEFINE r2 == [NoRow EXCEPT !.status = "queued", !.kind = k, !.total = n, !.finalized = fin]
  <2>1. PICK j \in Jobs : /\ job[j].status = "absent" /\ job' = [job EXCEPT ![j] = r2]
                          /\ item' = WithItems(j, 0, n)
    BY <1>1 DEF CreateJob
  <2>2. /\ r2.status \in Active /\ ~r2.finished /\ r2.total = n /\ r2.done = 0 /\ r2.failed = 0
    BY DEF NoRow, Active
  <2>3. job[j].total = 0 /\ job[j].done = 0 /\ job[j].failed = 0
    BY <2>1, Tables, AbsentRow DEF RowsGood
  <2> DEFINE it2 == [i \in Idx |-> IF i \in (0 + 1)..(0 + n) THEN "pending" ELSE item[j][i]]
  <2>4. item' = [item EXCEPT ![j] = it2]
    BY <2>1 DEF WithItems
  <2> HIDE DEF r2, it2
  <2>5. Others(j) /\ job'[j] = r2 /\ item'[j] = it2
    BY <2>1, <2>4, OneRow
  <2>6. Adds(j, n)
    BY <2>1, <2>2, <2>3, <2>5 DEF Adds, it2
  <2> QED BY <2>6 DEF TableStep
<1>2. ASSUME NEW j \in Jobs, NEW n \in 0..MaxItems, NEW fin \in BOOLEAN, AppendItems(c, j, n, fin)
      PROVE  TableStep
  <2> DEFINE k == job[j].total
             r2 == [job[j] EXCEPT !.total = k + n, !.finalized = fin]
             it2 == [i \in Idx |-> IF i \in (k + 1)..(k + n) THEN "pending" ELSE item[j][i]]
  <2>1. job' = [job EXCEPT ![j] = r2] /\ item' = [item EXCEPT ![j] = it2]
    BY <1>2 DEF AppendItems, WithItems
  <2>2. job[j].status \in Active /\ ~job[j].finalized /\ job[j].total + n <= MaxItems
    BY <1>2 DEF AppendItems, IsActive
  <2>3. ~job[j].finished
    BY <2>2 DEF RowsGood, RowGood, ClaimSound, Held
  <2>4. /\ r2.status = job[j].status /\ r2.finished = job[j].finished /\ r2.total = k + n
        /\ r2.done = job[j].done /\ r2.failed = job[j].failed
        /\ r2.kind = job[j].kind /\ r2.ref = job[j].ref
    <3> HIDE DEF k
    <3> QED BY Tables DEF Rows
  <2>5. Others(j) /\ job'[j] = r2 /\ item'[j] = it2
    <3> HIDE DEF r2, it2
    <3> QED BY <2>1, OneRow
  <2>6. Adds(j, n)
    <3> HIDE DEF r2
    <3> QED BY <2>2, <2>3, <2>4, <2>5 DEF Adds
  <2> QED BY <2>6 DEF TableStep
<1> QED BY <1>1, <1>2 DEF Request

LEMMA CancelTables ==
    ASSUME TypeOK, NEW j \in Jobs, Cancel(j)
    PROVE  TableStep
<1> DEFINE r2 == [job[j] EXCEPT !.status = "cancelled", !.finished = TRUE]
           it2 == [i \in Idx |-> IF item[j][i] = "pending" THEN "cancelled" ELSE item[j][i]]
<1>1. /\ job' = [job EXCEPT ![j] = r2] /\ item' = [item EXCEPT ![j] = it2]
      /\ job[j].status \in Active
  BY DEF Cancel, CanCancel, IsActive
<1>2. r2.status = "cancelled" /\ Kept(job[j], r2)
  BY Tables DEF Rows, Kept
<1>3. Others(j) /\ job'[j] = r2 /\ item'[j] = it2
  <2> HIDE DEF r2, it2
  <2> QED BY <1>1, OneRow
<1>4. Cancels(j)
  <2> HIDE DEF r2
  <2> QED BY <1>1, <1>2, <1>3 DEF Cancels
<1> QED BY <1>4 DEF TableStep

LEMMA WorkTables ==
    ASSUME TypeOK, FrameInv, ThreadGood, NEW w \in Workers, Work(w)
    PROVE  TableStep
<1>0. w \in Threads /\ thread[w] \in Frames /\ thread[w].job \in Jobs /\ thread[w].todo \in Seq(Idx)
  BY ThreadsAreThreads, FrameType DEF TypeOK
<1> DEFINE j == thread[w].job
<1>j. job[j] \in Rows /\ item[j] \in Items
  BY <1>0, Tables
<1>1. CASE CheckJob(w) \/ NextItem(w) \/ PredictReturns(w) \/ PredictRaises(w)
  BY <1>1, Untouched DEF CheckJob, NextItem, PredictReturns, PredictRaises
<1>2. CASE StartItem(w)
  <2>1. item' = item
    BY <1>2 DEF StartItem
  <2>2. CASE job' = job
    BY <2>1, <2>2, Untouched DEF tables
  <2>3. CASE job' # job
    <3> DEFINE r2 == [job[j] EXCEPT !.status = "running"]
    <3>1. job' = [job EXCEPT ![j] = r2] /\ job[j].status \in Active
      BY <1>2, <2>3 DEF StartItem, IsActive
    <3>2. r2.status = "running" /\ r2.finished = job[j].finished /\ Kept(job[j], r2)
      BY <1>j DEF Rows, Kept
    <3>3. Quiet(job[j], r2)
      <4> HIDE DEF r2
      <4> QED BY <3>1, <3>2 DEF Quiet, Active
    <3> HIDE DEF r2
    <3> QED BY <1>0, <2>1, <3>1, <3>3, OneRowQuiet
  <2> QED BY <2>2, <2>3
<1>3. CASE FinishItem(w)
  <2> DEFINE i == Head(thread[w].todo)
             got == thread[w].got
             d == job[j].done + 1
             f == IF got \in FailedItem THEN job[j].failed + 1 ELSE job[j].failed
             r2 == [job[j] EXCEPT !.done = d, !.failed = f]
             it2 == [item[j] EXCEPT ![i] = got]
  <2>1. i \in Idx /\ got \in {"done", "failed"}
    <3>1. thread[w].todo # <<>> /\ got \in Processed /\ got # "interrupted"
      BY <1>0, <1>3 DEF FrameInv, ThreadGood, FinishItem
    <3> QED BY <1>0, <3>1 DEF Processed
  <2>2. CASE item[j][i] = "pending"
    <3>1. job' = [job EXCEPT ![j] = r2] /\ item' = [item EXCEPT ![j] = it2]
      BY <1>3, <2>2 DEF FinishItem
    <3>2. /\ r2.status = job[j].status /\ r2.finished = job[j].finished
          /\ r2.finalized = job[j].finalized /\ r2.kind = job[j].kind
          /\ r2.ref = job[j].ref /\ r2.total = job[j].total /\ r2.done = d /\ r2.failed = f
      <4> HIDE DEF d, f
      <4> QED BY <1>j DEF Rows
    <3>3. Others(j) /\ job'[j] = r2 /\ item'[j] = it2
      <4> HIDE DEF r2, it2
      <4> QED BY <1>0, <3>1, OneRow
    <3>4. Answers(j, i, got)
      <4> HIDE DEF r2, i, got
      <4> QED BY <2>2, <3>2, <3>3 DEF Answers
    <3> HIDE DEF i, got, j
    <3> QED BY <1>0, <2>1, <3>4 DEF TableStep, j
  <2>3. CASE item[j][i] # "pending"
    BY <1>3, <2>3, Untouched DEF FinishItem
  <2> QED BY <2>2, <2>3
<1> QED BY <1>1, <1>2, <1>3 DEF Work

LEMMA FinalizingTables ==
    ASSUME TypeOK, RowsGood, ThreadGood, SingleCompleter, NEW t \in Threads, Finalizing(t)
    PROVE  TableStep
<1> DEFINE j == thread[t].job
<1>0. j \in Jobs
  BY FrameType DEF TypeOK
<1>j. job[j] \in Rows /\ item[j] \in Items
  BY <1>0, Tables
<1>1. CASE Claim(t) /\ ~Claimable(j)
  BY <1>1, Untouched DEF Claim, tables
<1>2. CASE Claim(t) /\ Claimable(j) /\ AllFailed(j)
  <2> DEFINE r2 == [job[j] EXCEPT !.finished = TRUE, !.status = "failed", !.error = TRUE]
  <2>1. job' = [job EXCEPT ![j] = r2] /\ item' = [item EXCEPT ![j] = item[j]]
    BY <1>2, <1>0, Tables DEF Claim
  <2>2. r2.status = "failed" /\ Kept(job[j], r2)
    BY <1>j DEF Rows, Kept
  <2> HIDE DEF r2
  <2>3. Others(j) /\ job'[j] = r2 /\ item'[j] = item[j]
    BY <1>0, <2>1, OneRow
  <2>4. Over(job[j]) /\ NoneGood(job[j])
    BY <1>2 DEF Claimable, AllFailed, IsActive, Over, NoneGood
  <2> QED BY <1>0, <2>2, <2>3, <2>4 DEF TableStep, Ends, Ended
<1>3. CASE Claim(t) /\ Claimable(j) /\ ~AllFailed(j)
  <2> DEFINE r2 == [job[j] EXCEPT !.finished = TRUE]
  <2>1. job' = [job EXCEPT ![j] = r2] /\ item' = item
    BY <1>3 DEF Claim
  <2>2. r2.status = job[j].status /\ Kept(job[j], r2)
    BY <1>j DEF Rows, Kept
  <2> HIDE DEF r2
  <2>3. Over(job[j]) /\ ~NoneGood(job[j])
    BY <1>3 DEF Claimable, AllFailed, IsActive, Over, NoneGood
  <2>4. Quiet(job[j], r2)
    BY <2>2, <2>3 DEF Quiet, Over
  <2> QED BY <1>0, <2>1, <2>4, OneRowQuiet
<1>4. CASE HooksReturn(t)
  <2> DEFINE b == (job[j].kind = "evaluate") \/ job[j].ref
             r2 == [job[j] EXCEPT !.ref = b]
  <2>1. job' = [job EXCEPT ![j] = r2] /\ item' = item
    BY <1>4 DEF HooksReturn
  <2>2. /\ r2.status = job[j].status /\ r2.finished = job[j].finished
        /\ r2.total = job[j].total /\ r2.done = job[j].done /\ r2.failed = job[j].failed
        /\ r2.finalized = job[j].finalized /\ r2.kind = job[j].kind /\ r2.ref = b
    <3> HIDE DEF b
    <3> QED BY <1>j DEF Rows
  <2> HIDE DEF r2
  <2>3. job[j].status \in Active
    BY <1>4 DEF HooksReturn, SingleCompleter, Completing, IsActive
  <2>4. Quiet(job[j], r2)
    BY <2>2, <2>3 DEF Quiet, Kept
  <2> QED BY <1>0, <2>1, <2>4, OneRowQuiet
<1>5. CASE HooksRaise(t)
  BY <1>5, Untouched DEF HooksRaise
<1>6. CASE Complete(t)
  <2> DEFINE b == (thread[t].got = "hook error") \/ job[j].error
             r2 == [job[j] EXCEPT !.status = "completed", !.error = b]
  <2>0. Held(job[j])
    BY <1>6 DEF Complete, SingleCompleter, Completing, IsActive, Held
  <2>1. job' = [job EXCEPT ![j] = r2] /\ item' = [item EXCEPT ![j] = item[j]]
    BY <1>6, <1>0, <2>0, Tables DEF Complete, IsActive, Held
  <2>2. /\ r2.status = "completed" /\ r2.error = b /\ r2.ref = job[j].ref
        /\ r2.total = job[j].total /\ r2.done = job[j].done /\ r2.failed = job[j].failed
        /\ r2.finalized = job[j].finalized /\ r2.kind = job[j].kind
    <3> HIDE DEF b
    <3> QED BY <1>j DEF Rows
  <2>3. job[j].kind = "evaluate" => job[j].ref \/ b
    BY <1>6 DEF Complete, ThreadGood
  <2> HIDE DEF r2, b
  <2>4. Others(j) /\ job'[j] = r2 /\ item'[j] = item[j]
    BY <1>0, <2>1, OneRow
  <2>5. Over(job[j]) /\ ~NoneGood(job[j])
    BY <1>0, <2>0 DEF RowsGood, RowGood, ClaimSound, Held, Over, NoneGood
  <2>6. Ends(j)
    BY <2>2, <2>3, <2>4, <2>5 DEF Ends, Ended, Kept
  <2> QED BY <1>0, <2>6 DEF TableStep
<1> QED BY <1>1, <1>2, <1>3, <1>4, <1>5, <1>6 DEF Finalizing

LEMMA StartTables ==
    ASSUME TypeOK, Start
    PROVE  TableStep
<1>1. ASSUME NEW j \in Jobs PROVE Quiet(job[j], job'[j])
  <2>1. CASE IsActive(j)
    <3> DEFINE r2 == [job[j] EXCEPT !.finished = FALSE]
    <3>1. job'[j] = r2
      BY <2>1 DEF Start
    <3>2. r2.status = job[j].status /\ ~r2.finished /\ Kept(job[j], r2)
      BY Tables DEF Rows, Kept
    <3> HIDE DEF r2
    <3> QED BY <2>1, <3>1, <3>2 DEF Quiet, IsActive
  <2>2. CASE ~IsActive(j)
    BY <2>2 DEF Start, Quiet
  <2> QED BY <2>1, <2>2
<1> QED BY <1>1 DEF Start, TableStep, Rests

LEMMA NextTables ==
    ASSUME TypeOK, FrameInv, SingleCompleter, RowsInv, [Next]_vars
    PROVE  TableStep
<1>0. RowsGood /\ ThreadGood
  BY DEF RowsInv
<1>1. CASE UNCHANGED vars
  BY <1>1, Untouched DEF vars, tables
<1>2. ASSUME NEW c \in Clients, Request(c) \/ EnqueueChunk(c) PROVE TableStep
  BY <1>0, <1>2, RequestTables, Untouched DEF EnqueueChunk
<1>3. ASSUME NEW j \in Jobs, Cancel(j) PROVE TableStep
  BY <1>3, CancelTables
<1>4. ASSUME NEW w \in Workers, Dequeue(w) \/ Work(w) PROVE TableStep
  BY <1>0, <1>4, WorkTables, Untouched DEF Dequeue
<1>5. ASSUME NEW t \in Threads, Finalizing(t) \/ Fault(t) PROVE TableStep
  BY <1>0, <1>5, FinalizingTables, Untouched DEF Fault
<1>6. ASSUME NEW m \in schedule, Reschedule(m) PROVE TableStep
  BY <1>6, Untouched DEF Reschedule
<1>7. CASE Lifespan
  BY <1>7, StartTables, Untouched
     DEF Lifespan, RecoverJob, StartConsumer, Stop, StopEngine, Exit, Crash
<1> QED BY <1>1, <1>2, <1>3, <1>4, <1>5, <1>6, <1>7 DEF Next
----------------------------------------------------------------------------
(* The threads.                                                            *)

\* A thread that keeps its frame stays good: its job is held, so it exists.
LEMMA ThreadKept ==
    ASSUME TypeOK, SingleCompleter, ThreadGood, TableStep, NEW u \in Threads, thread'[u] = thread[u]
    PROVE  /\ thread'[u].got # "interrupted"
           /\ thread'[u].pc = "complete" /\ job'[thread'[u].job].kind = "evaluate" =>
                 job'[thread'[u].job].ref \/ thread'[u].got = "hook error"
<1>1. CASE thread[u].pc = "complete"
  <2>1. thread[u].job \in Jobs
    BY FrameType DEF TypeOK
  <2>2. job[thread[u].job].status # "absent"
    BY <1>1 DEF SingleCompleter, Completing, IsActive, Active
  <2>3. /\ job'[thread[u].job].kind = job[thread[u].job].kind
        /\ job[thread[u].job].ref => job'[thread[u].job].ref
    BY <2>1, <2>2, KindKept
  <2> QED BY <1>1, <2>3 DEF ThreadGood
<1>2. CASE thread[u].pc # "complete"
  BY <1>2 DEF ThreadGood
<1> QED BY <1>1, <1>2

LEMMA ThreadMoves ==
    ASSUME TypeOK, SingleCompleter, ThreadGood, TableStep, NEW t \in Threads, NEW fr,
           thread' = [thread EXCEPT ![t] = fr], fr.got # "interrupted",
           fr.pc = "complete" /\ job'[fr.job].kind = "evaluate" =>
               job'[fr.job].ref \/ fr.got = "hook error"
    PROVE  ThreadGood'
<1>1. thread'[t] = fr /\ \A u \in Threads \ {t} : thread'[u] = thread[u]
  BY DEF TypeOK
<1> QED BY <1>1, ThreadKept DEF ThreadGood

LEMMA ThreadsStay ==
    ASSUME TypeOK, SingleCompleter, ThreadGood, TableStep, thread' = thread
    PROVE  ThreadGood'
  BY ThreadKept DEF ThreadGood

\* The fields of the frames the steps lead to.
LEMMA FrameGot ==
    ASSUME NEW fr \in Frames, NEW pc, NEW got, NEW todo
    PROVE  /\ [fr EXCEPT !.pc = pc].got = fr.got
           /\ [fr EXCEPT !.pc = pc, !.got = got].got = got
           /\ [fr EXCEPT !.pc = pc, !.todo = todo, !.got = got].got = got
           /\ [fr EXCEPT !.todo = todo].got = fr.got
           /\ [fr EXCEPT !.todo = todo].pc = fr.pc
  BY DEF Frames

LEMMA SubmitterFrame ==
    ASSUME NEW fr \in Frames, NEW todo
    PROVE  /\ AfterEnqueue([fr EXCEPT !.todo = todo]).pc # "complete"
           /\ AfterEnqueue([fr EXCEPT !.todo = todo]).got \in {fr.got, "none"}
<1> DEFINE g == [fr EXCEPT !.todo = todo]
<1>1. g \in [pc : PCs, job : Jobs, todo : {todo}, msg : Messages, fin : BOOLEAN,
             got : {"none", "done", "failed", "interrupted", "hook error"}] /\ g.got = fr.got
  BY FrameGot, Zenon DEF Frames
<1> HIDE DEF g
<1>2. \A pc : [g EXCEPT !.pc = pc].pc = pc /\ [g EXCEPT !.pc = pc].got = fr.got
  BY <1>1
<1>3. Idle.pc # "complete" /\ Idle.got = "none"
  BY DEF Idle
<1>4. AfterEnqueue(g) \in {[g EXCEPT !.pc = "enqueue"], [g EXCEPT !.pc = "claim"], Idle}
  BY DEF AfterEnqueue
<1>5. AfterEnqueue(g).pc # "complete" /\ AfterEnqueue(g).got \in {fr.got, "none"}
  BY <1>2, <1>3, <1>4
<1> QED BY <1>5 DEF g

LEMMA ThreadsStep ==
    ASSUME TypeOK, FrameInv, SingleCompleter, RowsInv, TableStep, [Next]_vars
    PROVE  ThreadGood'
<1> USE DEF tables, broker, server, history
<1>0. RowsGood /\ ThreadGood /\ Idle.got # "interrupted" /\ Idle.pc # "complete"
  BY DEF RowsInv, Idle
<1>t. \A t \in Threads : thread[t] \in Frames /\ thread[t].got # "interrupted"
  BY <1>0 DEF TypeOK, ThreadGood
<1>g. ASSUME NEW t \in Threads, thread' = [thread EXCEPT ![t] = Idle] PROVE ThreadGood'
  BY <1>0, <1>g, ThreadMoves
<1>1. CASE UNCHANGED vars
  BY <1>0, <1>1, ThreadsStay DEF vars
<1>2. ASSUME NEW c \in Clients, Request(c) PROVE ThreadGood'
  <2>1. PICK j \in Jobs, k \in Nat, n \in Nat, fin \in BOOLEAN :
          thread' = [thread EXCEPT ![c] = Submitting(j, k, n, fin)]
    <3>1. ASSUME NEW k \in Kinds, NEW n \in 0..MaxItems, NEW fin \in BOOLEAN, CreateJob(c, k, n, fin)
          PROVE  \E j \in Jobs : thread' = [thread EXCEPT ![c] = Submitting(j, 0, n, fin)]
      BY <3>1 DEF CreateJob
    <3>2. ASSUME NEW j \in Jobs, NEW n \in 0..MaxItems, NEW fin \in BOOLEAN, AppendItems(c, j, n, fin)
          PROVE  job[j].total \in Nat
                 /\ thread' = [thread EXCEPT ![c] = Submitting(j, job[j].total, n, fin)]
      BY <3>2, Tables, BoundsAssumption DEF AppendItems, Rows
    <3>3. 0..MaxItems \subseteq Nat /\ 0 \in Nat
      BY BoundsAssumption
    <3> QED BY <1>2, <3>1, <3>2, <3>3 DEF Request
  <2> DEFINE base == [Idle EXCEPT !.job = j, !.fin = fin]
  <2>2. base \in Frames /\ base.got = "none"
    BY IdleType DEF Idle, Frames
  <2>3. Submitting(j, k, n, fin) = AfterEnqueue([base EXCEPT !.todo = NewIdxs(k, n)])
    <3>1. [Idle EXCEPT !.job = j, !.todo = NewIdxs(k, n), !.fin = fin] = [base EXCEPT !.todo = NewIdxs(k, n)]
      BY DEF Idle
    <3> QED BY <3>1 DEF Submitting
  <2> HIDE DEF base
  <2>4. Submitting(j, k, n, fin).pc # "complete" /\ Submitting(j, k, n, fin).got = "none"
    BY <2>2, <2>3, SubmitterFrame
  <2> QED BY <1>0, <2>1, <2>4, ThreadMoves, ThreadsAreThreads
<1>3. ASSUME NEW c \in Clients, EnqueueChunk(c) PROVE ThreadGood'
  <2>1. PICK todo : thread' = [thread EXCEPT ![c] = AfterEnqueue([thread[c] EXCEPT !.todo = todo])]
    BY <1>3 DEF EnqueueChunk
  <2>2. c \in Threads
    BY ThreadsAreThreads
  <2> QED BY <1>0, <1>t, <2>1, <2>2, SubmitterFrame, ThreadMoves
<1>4. ASSUME NEW w \in Workers, Dequeue(w) PROVE ThreadGood'
  <2> DEFINE fr == [Idle EXCEPT !.pc = "check", !.job = Head(queue).job,
                                !.todo = Head(queue).idxs, !.msg = Head(queue)]
  <2>1. thread' = [thread EXCEPT ![w] = fr]
    BY <1>4 DEF Dequeue
  <2>2. fr.pc # "complete" /\ fr.got # "interrupted"
    BY DEF Idle
  <2> HIDE DEF fr
  <2> QED BY <1>0, <2>1, <2>2, ThreadMoves, ThreadsAreThreads
<1>5. ASSUME NEW w \in Workers, Work(w) PROVE ThreadGood'
  <2>0. w \in Threads /\ thread[w] \in Frames /\ thread[w].got # "interrupted"
    BY <1>t, ThreadsAreThreads
  <2>1. ASSUME NEW pc \in PCs \ {"complete"},
               thread' = [thread EXCEPT ![w] = [thread[w] EXCEPT !.pc = pc]]
        PROVE  ThreadGood'
    <3>1. /\ [thread[w] EXCEPT !.pc = pc].pc # "complete"
          /\ [thread[w] EXCEPT !.pc = pc].got # "interrupted"
      BY <2>0, FramePc, FrameGot
    <3> QED BY <1>0, <2>0, <2>1, <3>1, ThreadMoves
  <2>2. ASSUME NEW got \in {"done", "failed"},
               thread' = [thread EXCEPT ![w] = [thread[w] EXCEPT !.pc = "finish", !.got = got]]
        PROVE  ThreadGood'
    <3>1. /\ [thread[w] EXCEPT !.pc = "finish", !.got = got].pc # "complete"
          /\ [thread[w] EXCEPT !.pc = "finish", !.got = got].got # "interrupted"
      BY <2>0, FramePc, FrameGot
    <3> QED BY <1>0, <2>0, <2>2, <3>1, ThreadMoves
  <2>3. ASSUME thread' = [thread EXCEPT ![w] = Skip(thread[w])] PROVE ThreadGood'
    <3>1. Skip(thread[w]).pc # "complete" /\ Skip(thread[w]).got # "interrupted"
      BY <2>0, FramePc, FrameGot DEF Skip
    <3> QED BY <1>0, <2>0, <2>3, <3>1, ThreadMoves
  <2>4. CASE CheckJob(w)
    <3>1. \/ thread' = [thread EXCEPT ![w] = Idle]
          \/ thread' = [thread EXCEPT ![w] = [thread[w] EXCEPT !.pc = "loop"]]
      BY <2>4 DEF CheckJob
    <3> QED BY <1>g, <2>0, <2>1, <3>1 DEF PCs
  <2>5. CASE NextItem(w)
    <3>1. \/ thread' = [thread EXCEPT ![w] = Idle]
          \/ thread' = [thread EXCEPT ![w] = [thread[w] EXCEPT !.pc = "claim"]]
          \/ thread' = [thread EXCEPT ![w] = [thread[w] EXCEPT !.pc = "start"]]
      BY <2>5 DEF NextItem
    <3> QED BY <1>g, <2>0, <2>1, <3>1 DEF PCs
  <2>6. CASE StartItem(w)
    <3>1. \/ thread' = [thread EXCEPT ![w] = Idle]
          \/ thread' = [thread EXCEPT ![w] = Skip(thread[w])]
          \/ thread' = [thread EXCEPT ![w] = [thread[w] EXCEPT !.pc = "predict"]]
      BY <2>6 DEF StartItem
    <3> QED BY <1>g, <2>0, <2>1, <2>3, <3>1 DEF PCs
  <2>7. CASE PredictReturns(w)
    <3>1. thread' = [thread EXCEPT ![w] = [thread[w] EXCEPT !.pc = "finish", !.got = "done"]]
      BY <2>7 DEF PredictReturns
    <3> QED BY <2>2, <3>1
  <2>8. CASE PredictRaises(w)
    <3>1. EngineClosed => Stopping
      BY DEF EngineClosed, Stopping
    <3>2. CASE Stopping
      BY <1>g, <2>0, <2>8, <3>2 DEF PredictRaises
    <3>3. CASE ~Stopping
      <4>1. thread' = [thread EXCEPT ![w] = [thread[w] EXCEPT !.pc = "finish", !.got = "failed"]]
        BY <2>8, <3>1, <3>3 DEF PredictRaises
      <4> QED BY <2>2, <4>1
    <3> QED BY <3>2, <3>3
  <2>9. CASE FinishItem(w)
    BY <2>3, <2>9 DEF FinishItem
  <2> QED BY <1>5, <2>4, <2>5, <2>6, <2>7, <2>8, <2>9 DEF Work
<1>6. ASSUME NEW t \in Threads, Finalizing(t) PROVE ThreadGood'
  <2> DEFINE j == thread[t].job
  <2>0. j \in Jobs /\ job[j] \in Rows
    BY <1>t, FrameType, Tables
  <2>1. CASE Claim(t)
    <3>1. \/ thread' = [thread EXCEPT ![t] = Idle]
          \/ thread' = [thread EXCEPT ![t] = [thread[t] EXCEPT !.pc = "hooks"]]
      BY <2>1 DEF Claim
    <3>2. /\ [thread[t] EXCEPT !.pc = "hooks"].pc # "complete"
          /\ [thread[t] EXCEPT !.pc = "hooks"].got # "interrupted"
      BY <1>t, FramePc, FrameGot
    <3> QED BY <1>0, <1>g, <3>1, <3>2, ThreadMoves
  <2>2. CASE HooksReturn(t)
    <3> DEFINE fr == [thread[t] EXCEPT !.pc = "complete"]
               b == (job[j].kind = "evaluate") \/ job[j].ref
    <3>1. thread' = [thread EXCEPT ![t] = fr] /\ job' = [job EXCEPT ![j] = [job[j] EXCEPT !.ref = b]]
      BY <2>2 DEF HooksReturn
    <3>2. fr.job = j /\ fr.got # "interrupted"
      BY <1>t, FramePc, FrameGot
    <3>3. job'[j].kind = job[j].kind /\ job'[j].ref = b
      <4> HIDE DEF b, j
      <4>1. job'[j] = [job[j] EXCEPT !.ref = b]
        BY <2>0, <3>1, Tables
      <4> QED BY <2>0, <4>1 DEF Rows
    <3>4. job'[fr.job].kind = "evaluate" => job'[fr.job].ref
      BY <3>2, <3>3
    <3> HIDE DEF fr
    <3> QED BY <1>0, <3>1, <3>2, <3>4, ThreadMoves
  <2>3. CASE HooksRaise(t)
    <3> DEFINE fr == [thread[t] EXCEPT !.pc = "complete", !.got = "hook error"]
    <3>1. thread' = [thread EXCEPT ![t] = fr]
      BY <2>3 DEF HooksRaise
    <3>2. fr.got = "hook error"
      BY <1>t, FrameGot
    <3> HIDE DEF fr
    <3> QED BY <1>0, <3>1, <3>2, ThreadMoves
  <2>4. CASE Complete(t)
    BY <1>g, <2>4 DEF Complete
  <2> QED BY <1>6, <2>1, <2>2, <2>3, <2>4 DEF Finalizing
<1>7. ASSUME NEW t \in Threads, Fault(t) PROVE ThreadGood'
  BY <1>7, <1>g DEF Fault
<1>8. CASE (\E j \in Jobs : Cancel(j)) \/ (\E m \in schedule : Reschedule(m))
  BY <1>0, <1>8, ThreadsStay DEF Cancel, Reschedule
<1>9. CASE Lifespan
  <2>1. CASE Exit \/ Crash
    <3>1. \A u \in Threads : thread'[u] = Idle
      BY <2>1 DEF Exit, Crash
    <3> QED BY <1>0, <3>1 DEF ThreadGood
  <2>2. CASE ~(Exit \/ Crash)
    BY <1>0, <1>9, <2>2, ThreadsStay DEF Lifespan, Start, RecoverJob, StartConsumer, Stop, StopEngine
  <2> QED BY <2>1, <2>2
<1> QED BY <1>1, <1>2, <1>3, <1>4, <1>5, <1>6, <1>7, <1>8, <1>9 DEF Next

LEMMA RowsInit == Init => RowsInv
<1> SUFFICES ASSUME Init PROVE RowsInv
  OBVIOUS
<1>1. ThreadGood
  BY DEF Init, ThreadGood, Idle
<1>2. ASSUME NEW j \in Jobs PROVE RowGood(job[j], item[j])
  <2>1. job[j] = NoRow /\ \A i \in Idx : item[j][i] = "absent"
    BY DEF Init
  <2>2. Having(item[j], Counted) = {} /\ Having(item[j], Processed) = {} /\ Having(item[j], FailedItem) = {}
    BY <2>1 DEF Having, Counted, Processed, FailedItem
  <2>3. 1..0 = {}
    OBVIOUS
  <2>4. Counts(job[j], item[j])
    BY <2>1, <2>2, <2>3, FS_EmptySet DEF Counts, NoRow
  <2> QED BY <2>1, <2>4 DEF RowGood, ClaimSound, StatusSound, Held, Active, NoRow
<1> QED BY <1>1, <1>2 DEF RowsInv, RowsGood

LEMMA RowsInvStep ==
    TypeOK /\ FrameInv /\ SingleCompleter /\ RowsInv /\ [Next]_vars => RowsInv' /\ TableStep
<1> SUFFICES ASSUME TypeOK, FrameInv, SingleCompleter, RowsInv, [Next]_vars
             PROVE  RowsInv' /\ TableStep
  OBVIOUS
<1>1. TypeOK' /\ TableStep
  BY TypedStep, NextTables
<1>2. RowsGood' /\ ThreadGood'
  BY <1>1, RowsStep, ThreadsStep DEF RowsInv
<1> QED BY <1>1, <1>2 DEF RowsInv

LEMMA RowsCorrect == Spec => []RowsInv
  BY FramesCorrect, OneCompleter, RowsInit, RowsInvStep, PTL DEF Spec
----------------------------------------------------------------------------
(* What a poller reads.                                                    *)

LEMMA RowsMeaning ==
    RowsInv => CountersMatch /\ FinalStatusSound /\ NotFailedByShutdown /\ EvaluateReported
<1> SUFFICES ASSUME RowsInv
             PROVE  CountersMatch /\ FinalStatusSound /\ NotFailedByShutdown /\ EvaluateReported
  OBVIOUS
<1>1. \A j \in Jobs : RowGood(job[j], item[j])
  BY DEF RowsInv, RowsGood
<1>2. CountersMatch
  BY <1>1 DEF RowGood, Counts, Having, Counted, CountersMatch, ItemsIn
<1>3. FinalStatusSound
  BY <1>1 DEF RowGood, StatusSound, Having, FinalStatusSound, Pending, ItemsIn
<1>4. NotFailedByShutdown
  BY <1>1 DEF RowGood, NotFailedByShutdown, ItemsIn
<1>5. EvaluateReported
  BY <1>1 DEF RowGood, EvaluateReported
<1> QED BY <1>2, <1>3, <1>4, <1>5

\* The counters of every job agree with its item rows at all times
\* (finish_job_item, append_job_items, cancel_job).
THEOREM CountersCorrect == Spec => []CountersMatch
  BY RowsCorrect, RowsMeaning, PTL

\* A final status is true of the items, for every interleaving of appends,
\* cancels, retries, completions and restarts (claim_job_completion).
THEOREM FinalStatusCorrect == Spec => []FinalStatusSound
  BY RowsCorrect, RowsMeaning, PTL

\* Shutting down never fails an item (_process_items' except branch).
THEOREM ShutdownFailsNothing == Spec => []NotFailedByShutdown
  BY RowsCorrect, RowsMeaning, PTL

\* A completed evaluate job has its report or the error of its hook
\* (_maybe_complete runs the hooks before complete_job).
THEOREM EvaluateCorrect == Spec => []EvaluateReported
  BY RowsCorrect, RowsMeaning, PTL

----------------------------------------------------------------------------
(* A job that ended is frozen.                                             *)

LEMMA FrozenStep ==
    ASSUME TypeOK, RowsGood, TableStep, NEW m \in Jobs, IsTerminal(m)
    PROVE  job'[m] = job[m] /\ item'[m] = item[m]
<1>0. /\ job[m] \in Rows /\ item[m] \in Items /\ RowGood(job[m], item[m])
      /\ job[m].status \notin Active /\ job[m].status # "absent"
  BY Tables DEF RowsGood, IsTerminal, Terminal, Active
<1>1. CASE Rests
  BY <1>0, <1>1 DEF Rests, Quiet
<1>2. CASE ~Rests
  <2>1. PICK j \in Jobs :
          \/ \E n \in 0..MaxItems : Adds(j, n)
          \/ \E i \in Idx : \E got \in {"done", "failed"} : Answers(j, i, got)
          \/ Cancels(j) \/ Ends(j)
    BY <1>2 DEF TableStep
  <2>2. Others(j)
    BY <2>1 DEF Adds, Answers, Cancels, Ends
  <2>3. j # m
    <3>1. \A n \in 0..MaxItems : ~Adds(m, n)
      BY <1>0 DEF Adds
    <3>2. ~Cancels(m) /\ ~Ends(m)
      BY <1>0 DEF Cancels, Ends, Ended, Over
    <3>3. \A i \in Idx : item[m][i] # "pending"
      BY <1>0, PendingIsOpen
    <3>4. \A i \in Idx : \A got \in {"done", "failed"} : ~Answers(m, i, got)
      BY <3>3 DEF Answers
    <3> QED BY <2>1, <3>1, <3>2, <3>4
  <2> QED BY <2>2, <2>3 DEF Others
<1> QED BY <1>1, <1>2

\* No late prediction, retry, hook, append or restart changes the row or the
\* items of a job that ended (finish_job_item, complete_job, append_job_items
\* all test the status they find).
THEOREM Frozen == Spec => TerminalFrozen
<1>1. TypeOK /\ FrameInv /\ SingleCompleter /\ RowsInv /\ [Next]_vars
        => [\A j \in Jobs : IsTerminal(j) => job'[j] = job[j] /\ item'[j] = item[j]]_vars
  BY RowsInvStep, FrozenStep DEF RowsInv
<1> QED BY <1>1, FramesCorrect, OneCompleter, RowsCorrect, PTL DEF Spec, TerminalFrozen

----------------------------------------------------------------------------
(* Jobs implements JobLifecycle.                                           *)

\* What the refinement mapping shows of a row and its items.
StatusOf(r) == IF r.status \in Active THEN "active" ELSE r.status
OpenOf(r) == r.status # "absent" /\ ~r.finalized
AnswersOf(it) == [i \in Idx |-> IF it[i] = "interrupted" THEN "failed" ELSE it[i]]

\* A step on one job changes what is seen of that job only.
LEMMA SeenOne ==
    ASSUME NEW j \in Jobs, Others(j)
    PROVE  /\ SeenStatus' = [SeenStatus EXCEPT ![j] = StatusOf(job'[j])]
           /\ SeenOpen' = [SeenOpen EXCEPT ![j] = OpenOf(job'[j])]
           /\ SeenAnswer' = [SeenAnswer EXCEPT ![j] = AnswersOf(item'[j])]
<1>1. \A m \in Jobs \ {j} : job'[m] = job[m] /\ item'[m] = item[m]
  BY DEF Others
<1>2. SeenStatus' = [m \in Jobs |-> StatusOf(job'[m])]
      /\ SeenOpen' = [m \in Jobs |-> OpenOf(job'[m])]
      /\ SeenAnswer' = [m \in Jobs |-> AnswersOf(item'[m])]
  BY DEF SeenStatus, SeenOpen, SeenAnswer, StatusOf, OpenOf, AnswersOf, IsActive
<1>3. /\ SeenStatus = [m \in Jobs |-> StatusOf(job[m])]
      /\ SeenOpen = [m \in Jobs |-> OpenOf(job[m])]
      /\ SeenAnswer = [m \in Jobs |-> AnswersOf(item[m])]
  BY DEF SeenStatus, SeenOpen, SeenAnswer, StatusOf, OpenOf, AnswersOf, IsActive
<1> QED BY <1>1, <1>2, <1>3

\* What is seen of one job.
LEMMA Seen ==
    ASSUME TypeOK, RowsGood, NEW j \in Jobs
    PROVE  /\ SeenStatus[j] = StatusOf(job[j]) /\ SeenOpen[j] = OpenOf(job[j])
           /\ SeenAnswer[j] = item[j] /\ AnswersOf(item[j]) = item[j]
<1>1. item[j] \in [Idx -> Statuses] /\ \A i \in Idx : item[j][i] # "interrupted"
  BY Tables DEF RowsGood, RowGood, Items
<1>2. AnswersOf(item[j]) = item[j]
  BY <1>1 DEF AnswersOf
<1> QED BY <1>2 DEF SeenStatus, SeenOpen, SeenAnswer, StatusOf, OpenOf, AnswersOf, IsActive

\* The abstract step of each step of the tables.
LEMMA AddsIsAllowed ==
    ASSUME TypeOK, TypeOK', RowsGood, NEW j \in Jobs, NEW n \in 0..MaxItems, Adds(j, n)
    PROVE  Lifecycle!Next
<1> DEFINE k == job[j].total
           last == job'[j].finalized
           it2 == [i \in Idx |-> IF i \in (k + 1)..(k + n) THEN "pending" ELSE SeenAnswer[j][i]]
<1>0. /\ job[j] \in Rows /\ item[j] \in Items /\ RowGood(job[j], item[j])
      /\ k \in 0..MaxItems /\ last \in BOOLEAN
  <2>1. job[j] \in Rows /\ job'[j] \in Rows /\ item[j] \in Items
    BY Tables DEF TypeOK
  <2> QED BY <2>1 DEF Rows, RowsGood
<1>1. StatusOf(job'[j]) = "active" /\ OpenOf(job'[j]) = ~last
  BY DEF Adds, StatusOf, OpenOf, Active
<1>2. AnswersOf(item'[j]) = it2
  <2>1. SeenAnswer[j] = item[j] /\ \A i \in Idx : item[j][i] # "interrupted"
    BY <1>0, Seen DEF RowGood
  <2>2. item'[j] = it2
    BY <2>1 DEF Adds
  <2>3. \A i \in Idx : it2[i] # "interrupted"
    BY <2>1
  <2> QED BY <2>2, <2>3 DEF AnswersOf
<1>3. /\ SeenStatus' = [SeenStatus EXCEPT ![j] = "active"]
      /\ SeenOpen' = [SeenOpen EXCEPT ![j] = ~last]
      /\ SeenAnswer' = [SeenAnswer EXCEPT ![j] = it2]
  BY <1>1, <1>2, SeenOne DEF Adds
<1>4. CASE job[j].status = "absent"
  <2>1. SeenStatus[j] = "absent" /\ k = 0
    BY <1>0, <1>4, Seen, AbsentRow DEF StatusOf, Active
  <2>2. Lifecycle!Submit(j, n, last)
    <3> HIDE DEF k
    <3> QED BY <1>3, <2>1 DEF Lifecycle!Submit, Lifecycle!Extended, Lifecycle!Idx, Idx
  <2> HIDE DEF last
  <2> QED BY <1>0, <2>2 DEF Lifecycle!Next
<1>5. CASE job[j].status \in Active /\ ~job[j].finalized
  <2>1. SeenStatus[j] = "active" /\ SeenOpen[j]
    BY <1>5, Seen DEF StatusOf, OpenOf, Active
  <2>2. SeenStatus' = SeenStatus
    BY <1>3, <2>1 DEF SeenStatus
  <2>3. Lifecycle!Size(j, k)
    <3>1. \A i \in Idx : item[j][i] # "absent" <=> i \in 1..k
      BY <1>0, CountersSpeak DEF RowGood
    <3>2. \A i \in Idx : SeenAnswer[j][i] # "absent" <=> i <= k
      BY <1>0, <3>1, Seen DEF Idx
    <3> QED BY <3>2 DEF Lifecycle!Size, Lifecycle!Idx, Idx
  <2>4. Lifecycle!AppendMore(j, k, n, last)
    <3> HIDE DEF k, last
    <3> QED BY <1>3, <2>1, <2>2, <2>3 DEF Lifecycle!AppendMore, Lifecycle!Extended, Lifecycle!Idx, Idx
  <2> HIDE DEF last, k
  <2> QED BY <1>0, <2>4 DEF Lifecycle!Next
<1> QED BY <1>4, <1>5 DEF Adds

LEMMA AnswersIsAllowed ==
    ASSUME TypeOK, RowsGood, NEW j \in Jobs, NEW i \in Idx, NEW got \in {"done", "failed"},
           Answers(j, i, got)
    PROVE  Lifecycle!Next
<1>0. job[j] \in Rows /\ item[j] \in Items /\ RowGood(job[j], item[j]) /\ item[j][i] = "pending"
  BY Tables DEF RowsGood, Answers
<1>1. job[j].status \in Active
  BY <1>0, PendingIsOpen
<1>2. SeenStatus[j] = "active" /\ SeenAnswer[j][i] = "pending" /\ SeenAnswer[j] = item[j]
  BY <1>0, <1>1, Seen DEF StatusOf
<1>3. StatusOf(job'[j]) = SeenStatus[j] /\ OpenOf(job'[j]) = SeenOpen[j]
  BY Seen DEF Answers, StatusOf, OpenOf
<1>4. AnswersOf(item'[j]) = [SeenAnswer[j] EXCEPT ![i] = got]
  <2>1. \A x \in Idx : item[j][x] # "interrupted"
    BY <1>0 DEF RowGood
  <2>2. item'[j] \in [Idx -> Statuses] /\ item'[j] = [item[j] EXCEPT ![i] = got]
    BY <1>0 DEF Answers, Items, Statuses, Processed
  <2>3. \A x \in Idx : item'[j][x] # "interrupted"
    BY <1>0, <2>1, <2>2 DEF Items
  <2> QED BY <1>2, <2>2, <2>3 DEF AnswersOf
<1>5. /\ SeenStatus' = SeenStatus /\ SeenOpen' = SeenOpen
      /\ SeenAnswer' = [SeenAnswer EXCEPT ![j] = [SeenAnswer[j] EXCEPT ![i] = got]]
  <2>1. /\ SeenStatus' = [SeenStatus EXCEPT ![j] = SeenStatus[j]]
        /\ SeenOpen' = [SeenOpen EXCEPT ![j] = SeenOpen[j]]
        /\ SeenAnswer' = [SeenAnswer EXCEPT ![j] = [SeenAnswer[j] EXCEPT ![i] = got]]
    BY <1>3, <1>4, SeenOne DEF Answers
  <2> QED BY <2>1 DEF SeenStatus, SeenOpen
<1>6. Lifecycle!Answer(j, i, got)
  BY <1>2, <1>5 DEF Lifecycle!Answer
<1> QED BY <1>6 DEF Lifecycle!Next, Lifecycle!Idx, Idx

LEMMA CancelsIsAllowed ==
    ASSUME TypeOK, RowsGood, NEW j \in Jobs, Cancels(j)
    PROVE  Lifecycle!Next
<1> DEFINE it2 == [i \in Idx |-> IF SeenAnswer[j][i] = "pending" THEN "cancelled" ELSE SeenAnswer[j][i]]
<1>1. SeenStatus[j] = "active" /\ OpenOf(job'[j]) = SeenOpen[j] /\ StatusOf(job'[j]) = "cancelled"
  BY Seen DEF Cancels, Kept, StatusOf, OpenOf, Active
<1>2. AnswersOf(item'[j]) = it2
  <2>1. SeenAnswer[j] = item[j] /\ \A i \in Idx : item[j][i] # "interrupted"
    BY Seen DEF RowsGood, RowGood
  <2>2. item'[j] = it2
    BY <2>1 DEF Cancels
  <2>3. \A i \in Idx : it2[i] # "interrupted"
    BY <2>1
  <2> QED BY <2>2, <2>3 DEF AnswersOf
<1>3. /\ SeenStatus' = [SeenStatus EXCEPT ![j] = "cancelled"]
      /\ SeenOpen' = [SeenOpen EXCEPT ![j] = SeenOpen[j]]
      /\ SeenAnswer' = [SeenAnswer EXCEPT ![j] = it2]
  BY <1>1, <1>2, SeenOne DEF Cancels
<1>4. SeenOpen' = SeenOpen
  BY <1>3 DEF SeenOpen
<1>5. Lifecycle!Cancel(j)
  BY <1>1, <1>3, <1>4 DEF Lifecycle!Cancel, Lifecycle!Idx, Idx
<1> QED BY <1>5 DEF Lifecycle!Next

LEMMA EndsIsAllowed ==
    ASSUME TypeOK, RowsGood, NEW j \in Jobs, Ends(j)
    PROVE  Lifecycle!Next
<1> DEFINE r == job[j]
           it == item[j]
<1>0. r \in Rows /\ it \in Items /\ RowGood(r, it) /\ Over(r)
  BY Tables DEF RowsGood, Ends, Ended
<1>1. /\ r.total \in Nat /\ r.failed \in Nat
      /\ \A i \in 1..r.total : it[i] \in Processed
      /\ r.failed >= r.total <=> \A i \in 1..r.total : it[i] \in FailedItem
      /\ \A i \in Idx : it[i] # "absent" <=> i \in 1..r.total
      /\ \A i \in Idx : it[i] # "interrupted"
      /\ 1..r.total \subseteq Idx
  <2>1. 1..r.total \subseteq Idx
    BY <1>0, BoundsAssumption DEF Rows, Idx
  <2> QED BY <1>0, <2>1, CountersSpeak DEF RowGood, Over
<1>2. SeenStatus[j] = "active" /\ SeenOpen[j] = FALSE /\ SeenAnswer[j] = it
  BY <1>0, Seen DEF StatusOf, OpenOf, Over, Active
<1>3. Lifecycle!Answered(j)
  <2>1. \A i \in Idx : it[i] # "pending"
    BY <1>1 DEF Processed
  <2> QED BY <1>2, <2>1 DEF Lifecycle!Answered, Lifecycle!Idx, Idx
<1>4. NoneGood(r) <=> Lifecycle!AllFailed(j)
  <2>1. Lifecycle!AllFailed(j) <=>
          (\E i \in Idx : it[i] # "absent") /\ (\A i \in Idx : it[i] \in {"absent", "failed"})
    BY <1>2 DEF Lifecycle!AllFailed, Lifecycle!Idx, Idx
  <2>2. r.total > 0 <=> \E i \in Idx : it[i] # "absent"
    <3>1. r.total > 0 => 1 \in 1..r.total
      BY <1>1
    <3> QED BY <1>1, <3>1
  <2>3. (\A i \in 1..r.total : it[i] \in FailedItem) <=> \A i \in Idx : it[i] \in {"absent", "failed"}
    BY <1>1 DEF FailedItem
  <2> HIDE DEF r, it
  <2> QED BY <1>1, <2>1, <2>2, <2>3 DEF NoneGood
<1>5. /\ StatusOf(job'[j]) = (IF Lifecycle!AllFailed(j) THEN "failed" ELSE "completed")
      /\ OpenOf(job'[j]) = SeenOpen[j] /\ AnswersOf(item'[j]) = SeenAnswer[j]
  <2>1. job'[j].status = (IF NoneGood(r) THEN "failed" ELSE "completed") /\ job'[j].finalized
    BY <1>0 DEF Ends, Ended, Kept, Over
  <2>2. item'[j] = item[j]
    BY DEF Ends
  <2> QED BY <1>2, <1>4, <2>1, <2>2, Seen DEF StatusOf, OpenOf, Active
<1>6. /\ SeenStatus' = [SeenStatus EXCEPT ![j] = IF Lifecycle!AllFailed(j) THEN "failed" ELSE "completed"]
      /\ SeenOpen' = [SeenOpen EXCEPT ![j] = SeenOpen[j]]
      /\ SeenAnswer' = [SeenAnswer EXCEPT ![j] = SeenAnswer[j]]
  BY <1>5, SeenOne DEF Ends
<1>7. SeenOpen' = SeenOpen /\ SeenAnswer' = SeenAnswer
  BY <1>6 DEF SeenOpen, SeenAnswer
<1>8. Lifecycle!End(j)
  BY <1>2, <1>3, <1>6, <1>7 DEF Lifecycle!End
<1> QED BY <1>8 DEF Lifecycle!Next

LEMMA RestsIsStutter ==
    ASSUME TypeOK, RowsGood, Rests
    PROVE  UNCHANGED Lifecycle!vars
<1>1. ASSUME NEW j \in Jobs
      PROVE  StatusOf(job'[j]) = StatusOf(job[j]) /\ OpenOf(job'[j]) = OpenOf(job[j])
  BY DEF Rests, Quiet, Kept, StatusOf, OpenOf, Active
<1>2. /\ SeenStatus = [m \in Jobs |-> StatusOf(job[m])]
      /\ SeenOpen = [m \in Jobs |-> OpenOf(job[m])]
      /\ SeenStatus' = [m \in Jobs |-> StatusOf(job'[m])]
      /\ SeenOpen' = [m \in Jobs |-> OpenOf(job'[m])]
      /\ SeenAnswer' = SeenAnswer
  BY DEF SeenStatus, SeenOpen, SeenAnswer, StatusOf, OpenOf, IsActive, Rests
<1>3. SeenStatus' = SeenStatus /\ SeenOpen' = SeenOpen
  BY <1>1, <1>2
<1> QED BY <1>2, <1>3 DEF Lifecycle!vars

LEMMA LifecycleStep ==
    TypeOK /\ FrameInv /\ SingleCompleter /\ RowsInv /\ [Next]_vars
        => [Lifecycle!Next]_(Lifecycle!vars)
<1> SUFFICES ASSUME TypeOK, FrameInv, SingleCompleter, RowsInv, [Next]_vars
             PROVE  Lifecycle!Next \/ UNCHANGED Lifecycle!vars
  OBVIOUS
<1>1. TypeOK' /\ TableStep /\ RowsGood
  BY TypedStep, RowsInvStep DEF RowsInv
<1> QED BY <1>1, AddsIsAllowed, AnswersIsAllowed, CancelsIsAllowed, EndsIsAllowed, RestsIsStutter
        DEF TableStep

LEMMA LifecycleInit == Init => Lifecycle!Init
<1> SUFFICES ASSUME Init PROVE Lifecycle!Init
  OBVIOUS
<1>1. \A j \in Jobs : job[j].status = "absent" /\ \A i \in Idx : item[j][i] = "absent"
  BY DEF Init, NoRow
<1> QED BY <1>1 DEF Lifecycle!Init, Lifecycle!Idx, Idx, SeenStatus, SeenOpen, SeenAnswer, IsActive, Active

\* Whatever the queue, the threads, the claims, the faults and the restarts
\* do, a caller sees only the steps of JobLifecycle: items answered once each,
\* an end that tells the truth, no change after the end (service.py's header).
THEOREM JobsImplementLifecycle == Spec => ImplementsLifecycle
  BY FramesCorrect, OneCompleter, RowsCorrect, LifecycleInit, LifecycleStep, PTL
     DEF Spec, ImplementsLifecycle, Lifecycle!Spec

=============================================================================
