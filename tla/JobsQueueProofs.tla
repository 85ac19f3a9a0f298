-------------------------- MODULE JobsQueueProofs --------------------------
(***************************************************************************)
(* Proofs about the messages of Jobs: no item is ever in two messages or   *)
(* threads at once, and while the server is up no work is forgotten.       *)
(***************************************************************************)
EXTENDS JobsRowsProofs, SequenceTheorems

----------------------------------------------------------------------------
(* Who holds item i of job j.                                              *)

MessageHas(m, j, i) == m.job = j /\ i \in Set(m.idxs)
CarriedBy(fr) == IF fr.pc = "enqueue" THEN Set(fr.todo) ELSE Set(fr.msg.idxs)
FrameHas(fr, j, i) == fr.job = j /\ i \in CarriedBy(fr)

\* At most one queued message, scheduled message or thread holds the item.
Alone(j, i) ==
    /\ \A p, q \in DOMAIN queue : MessageHas(queue[p], j, i) /\ MessageHas(queue[q], j, i) => p = q
    /\ \A m, n \in schedule : MessageHas(m, j, i) /\ MessageHas(n, j, i) => m = n
    /\ \A t, u \in Threads : FrameHas(thread[t], j, i) /\ FrameHas(thread[u], j, i) => t = u
    /\ \A p \in DOMAIN queue, m \in schedule : ~(MessageHas(queue[p], j, i) /\ MessageHas(m, j, i))
    /\ \A t \in Threads, p \in DOMAIN queue : ~(FrameHas(thread[t], j, i) /\ MessageHas(queue[p], j, i))
    /\ \A t \in Threads, m \in schedule : ~(FrameHas(thread[t], j, i) /\ MessageHas(m, j, i))

\* Somebody holds it.
Somewhere(j, i) ==
    \/ \E p \in DOMAIN queue : MessageHas(queue[p], j, i)
    \/ \E m \in schedule : MessageHas(m, j, i)
    \/ \E t \in Threads : FrameHas(thread[t], j, i)

\* A worker's frame is about the message it executes and processes items of it; a
\* submitter executes no message and enqueues each item once.
WorkerFrame(fr) ==
    /\ fr.msg.job = fr.job /\ fr.pc # "enqueue"
    /\ fr.pc \in Processing => Set(fr.todo) \subseteq Set(fr.msg.idxs)
ClientFrame(fr) ==
    /\ fr.msg = NoMessage
    /\ fr.pc = "enqueue" => IsInjective(fr.todo)

\* Only rows that exist are carried; while _recover() runs, the queue holds only
\* messages of the jobs it has passed.
CarrierInv ==
    /\ \A t \in Workers : WorkerFrame(thread[t])
    /\ \A t \in Clients : ClientFrame(thread[t])
    /\ \A j \in Jobs, i \in Idx : Alone(j, i) /\ (Somewhere(j, i) => item[j][i] # "absent")
    /\ phase = "starting" => schedule = {} /\ \A p \in DOMAIN queue : queue[p].job < cursor

----------------------------------------------------------------------------
(* Who goes on with job j.                                                 *)

Sent(j, i) == \E m \in schedule \cup Set(queue) : MessageHas(m, j, i)
InHand(fr, j, i) == fr.pc \in Processing \cup {"enqueue"} /\ fr.job = j /\ i \in Set(fr.todo)
Trying(fr, j) == fr.pc \in Processing \cup {"enqueue", "claim"} /\ fr.job = j
Finishing(fr, j) == fr.pc \in Completing /\ fr.job = j
Covered(j) ==
    IsActive(j) =>
        /\ \A i \in Pending(j) : Sent(j, i) \/ \E t \in Threads : InHand(thread[t], j, i)
        /\ job[j].finalized /\ ~job[j].finished =>
              HasMessage(j) \/ \E t \in Threads : Trying(thread[t], j)
        /\ job[j].finished => \E t \in Threads : Finishing(thread[t], j)

\* While the server is up every job is covered unless it lost a message to a
\* fault; while _recover() runs, the jobs it has passed are, and no claim is held.
DispatchInv ==
    /\ phase = "up" => \A j \in Jobs \ stranded : Covered(j)
    /\ phase = "starting" =>
          /\ stranded = {}
          /\ \A j \in Jobs : (IsActive(j) => ~job[j].finished) /\ (j < cursor => Covered(j))

----------------------------------------------------------------------------
(* How messages and threads can change, seen from one item.                *)

\* Messages may be dropped, and no thread gets hold of the item.
LEMMA HoldersShrink ==
    ASSUME NEW j, NEW i, Alone(j, i),
           \A p \in DOMAIN queue' : p \in DOMAIN queue /\ queue'[p] = queue[p],
           schedule' \subseteq schedule,
           \A t \in Threads : FrameHas(thread'[t], j, i) => FrameHas(thread[t], j, i)
    PROVE  Alone(j, i)' /\ (Somewhere(j, i)' => Somewhere(j, i))
  BY DEF Alone, Somewhere

\* One thread gets a frame, which holds the item only if nobody did.
LEMMA HolderNew ==
    ASSUME NEW j, NEW i, Alone(j, i), queue' = queue, schedule' = schedule, NEW c \in Threads,
           \A t \in Threads \ {c} : thread'[t] = thread[t],
           FrameHas(thread'[c], j, i) => ~Somewhere(j, i)
    PROVE  Alone(j, i)' /\ (Somewhere(j, i)' => Somewhere(j, i) \/ FrameHas(thread'[c], j, i))
  BY DEF Alone, Somewhere

\* A thread puts part of what it holds in the queue and keeps another part.
LEMMA HolderEnqueues ==
    ASSUME NEW j, NEW i, Alone(j, i), queue \in Seq(Messages), NEW m \in Messages,
           queue' = Append(queue, m), schedule' = schedule, NEW c \in Threads,
           \A t \in Threads \ {c} : thread'[t] = thread[t],
           MessageHas(m, j, i) \/ FrameHas(thread'[c], j, i) => FrameHas(thread[c], j, i),
           ~(MessageHas(m, j, i) /\ FrameHas(thread'[c], j, i))
    PROVE  Alone(j, i)' /\ (Somewhere(j, i)' => Somewhere(j, i))
<1> DEFINE n == Len(queue)
<1>1. /\ n \in Nat /\ DOMAIN queue = 1..n /\ DOMAIN queue' = 1..(n + 1)
      /\ queue'[n + 1] = m /\ \A p \in 1..n : queue'[p] = queue[p]
  OBVIOUS
<1> HIDE DEF n
<1>2. 1..(n + 1) = 1..n \cup {n + 1}
  BY <1>1
<1> QED BY <1>1, <1>2 DEF Alone, Somewhere

\* A thread takes the head of the queue.
LEMMA HolderDequeues ==
    ASSUME NEW j, NEW i, Alone(j, i), queue \in Seq(Messages), queue # <<>>,
           queue' = Tail(queue), schedule' = schedule, NEW w \in Threads,
           \A t \in Threads \ {w} : thread'[t] = thread[t],
           FrameHas(thread'[w], j, i) => MessageHas(Head(queue), j, i)
    PROVE  Alone(j, i)' /\ (Somewhere(j, i)' => Somewhere(j, i))
<1> DEFINE n == Len(queue)
<1>1. /\ n \in Nat /\ n # 0 /\ DOMAIN queue = 1..n /\ DOMAIN queue' = 1..(n - 1)
      /\ Head(queue) = queue[1] /\ \A p \in 1..(n - 1) : queue'[p] = queue[p + 1]
  OBVIOUS
<1> HIDE DEF n
<1>2. /\ 1 \in 1..n /\ \A p \in 1..(n - 1) : p + 1 \in 1..n /\ p + 1 # 1
      /\ \A p, q \in 1..(n - 1) : p + 1 = q + 1 => p = q
  BY <1>1
<1> QED BY <1>1, <1>2 DEF Alone, Somewhere

\* A thread that fails puts its message in the schedule.
LEMMA HolderDefers ==
    ASSUME NEW j, NEW i, Alone(j, i), NEW m, queue' = queue, schedule' = schedule \cup {m},
           NEW w \in Threads, \A t \in Threads \ {w} : thread'[t] = thread[t],
           MessageHas(m, j, i) => FrameHas(thread[w], j, i), ~FrameHas(thread'[w], j, i)
    PROVE  Alone(j, i)' /\ (Somewhere(j, i)' => Somewhere(j, i))
  BY DEF Alone, Somewhere

\* A scheduled message becomes due.
LEMMA HolderDue ==
    ASSUME NEW j, NEW i, Alone(j, i), queue \in Seq(Messages), NEW m \in schedule, m \in Messages,
           queue' = Append(queue, m), schedule' = schedule \ {m}, thread' = thread
    PROVE  Alone(j, i)' /\ (Somewhere(j, i)' => Somewhere(j, i))
<1> DEFINE n == Len(queue)
<1>1. /\ n \in Nat /\ DOMAIN queue = 1..n /\ DOMAIN queue' = 1..(n + 1)
      /\ queue'[n + 1] = m /\ \A p \in 1..n : queue'[p] = queue[p]
  OBVIOUS
<1> HIDE DEF n
<1>2. 1..(n + 1) = 1..n \cup {n + 1}
  BY <1>1
<1> QED BY <1>1, <1>2 DEF Alone, Somewhere

\* _recover() adds messages that share no item, to a queue without the item.
LEMMA HolderRecovered ==
    ASSUME NEW j, NEW i, Alone(j, i), queue \in Seq(Messages), NEW ms \in Seq(Messages),
           queue' = queue \o ms, schedule' = {}, \A t \in Threads : ~FrameHas(thread'[t], j, i),
           \A x, y \in DOMAIN ms : MessageHas(ms[x], j, i) /\ MessageHas(ms[y], j, i) => x = y,
           \A x \in DOMAIN ms, p \in DOMAIN queue : ~(MessageHas(ms[x], j, i) /\ MessageHas(queue[p], j, i))
    PROVE  Alone(j, i)' /\ (Somewhere(j, i)' => Somewhere(j, i) \/ \E x \in DOMAIN ms : MessageHas(ms[x], j, i))
<1> DEFINE n == Len(queue)
           k == Len(ms)
<1>1. /\ n \in Nat /\ k \in Nat /\ DOMAIN queue = 1..n /\ DOMAIN ms = 1..k
      /\ DOMAIN queue' = 1..(n + k)
      /\ \A p \in 1..(n + k) : queue'[p] = IF p <= n THEN queue[p] ELSE ms[p - n]
  OBVIOUS
<1> HIDE DEF n, k
<1>2. ASSUME NEW p \in 1..(n + k) PROVE (p <= n /\ p \in 1..n) \/ (p > n /\ p - n \in 1..k)
  BY <1>1
<1>3. ASSUME NEW p \in 1..(n + k), NEW q \in 1..(n + k), p - n = q - n PROVE p = q
  BY <1>1, <1>3
<1>4. ASSUME NEW p \in 1..(n + k), NEW q \in 1..(n + k),
             MessageHas(queue'[p], j, i), MessageHas(queue'[q], j, i)
      PROVE  p = q
  <2>1. CASE p <= n /\ q <= n
    <3>1. p \in DOMAIN queue /\ q \in DOMAIN queue /\ queue'[p] = queue[p] /\ queue'[q] = queue[q]
      BY <1>1, <2>1
    <3> QED BY <1>4, <3>1 DEF Alone
  <2>2. CASE p > n /\ q > n
    <3>1. p - n \in 1..k /\ q - n \in 1..k /\ queue'[p] = ms[p - n] /\ queue'[q] = ms[q - n]
      BY <1>1, <1>2, <2>2
    <3>2. p - n = q - n
      BY <1>1, <1>4, <3>1
    <3> QED BY <1>3, <3>2
  <2>3. CASE p <= n /\ q > n
    <3>1. p \in 1..n /\ q - n \in 1..k /\ queue'[p] = queue[p] /\ queue'[q] = ms[q - n]
      BY <1>1, <1>2, <2>3
    <3> QED BY <1>1, <1>4, <3>1
  <2>4. CASE p > n /\ q <= n
    <3>1. q \in 1..n /\ p - n \in 1..k /\ queue'[q] = queue[q] /\ queue'[p] = ms[p - n]
      BY <1>1, <1>2, <2>4
    <3> QED BY <1>1, <1>4, <3>1
  <2> QED BY <1>1, <2>1, <2>2, <2>3, <2>4
<1>5. \A p \in 1..(n + k) : MessageHas(queue'[p], j, i) =>
         (\E q \in DOMAIN queue : MessageHas(queue[q], j, i)) \/ \E x \in DOMAIN ms : MessageHas(ms[x], j, i)
  BY <1>1, <1>2
<1> QED BY <1>1, <1>4, <1>5 DEF Alone, Somewhere

----------------------------------------------------------------------------
(* _enqueue's slices.                                                      *)

\* The first slice and the rest share what the list holds.
LEMMA SliceSplits ==
    ASSUME NEW s \in Seq(Idx), Len(s) > 0
    PROVE  LET a == Slice(s, 1)
               b == SubSeq(s, Len(a) + 1, Len(s))
           IN  /\ a \in Seq(Idx) /\ b \in Seq(Idx) /\ Set(s) = Set(a) \cup Set(b) /\ Set(a) # {}
               /\ IsInjective(s) => IsInjective(b) /\ Set(a) \cap Set(b) = {}
<1> DEFINE a == Slice(s, 1)
           k == Len(a)
           n == Len(s)
           b == SubSeq(s, k + 1, n)
<1>0. n \in Nat /\ n > 0 /\ DOMAIN s = 1..n /\ \A x \in 1..n : s[x] \in Idx
  OBVIOUS
<1>1. a \in Seq(Idx) /\ k \in 1..n /\ DOMAIN a = 1..k
  BY SliceType
<1>2. \A x \in 1..k : a[x] = s[x]
  <2> DEFINE c == IF 1 * ChunkSize < n THEN 1 * ChunkSize ELSE n
  <2>1. c \in 1..n /\ (1 - 1) * ChunkSize + 1 = 1
    BY <1>0, BoundsAssumption
  <2>2. a = SubSeq(s, 1, c)
    BY <2>1 DEF Slice
  <2> HIDE DEF c, a
  <2>3. Len(SubSeq(s, 1, c)) = c /\ \A x \in 1..c : SubSeq(s, 1, c)[x] = s[x]
    BY <1>0, <2>1
  <2> QED BY <2>2, <2>3
<1> HIDE DEF a
<1>3. /\ b \in Seq(Idx) /\ Len(b) = n - k /\ DOMAIN b = 1..(n - k)
      /\ \A x \in 1..(n - k) : b[x] = s[k + x]
  <2> HIDE DEF k, n
  <2>1. k + 1 \in Int /\ n \in Int /\ \A x \in (k + 1)..n : s[x] \in Idx
    BY <1>0, <1>1
  <2>2. /\ b \in Seq(Idx) /\ Len(b) = IF k + 1 <= n THEN n - (k + 1) + 1 ELSE 0
        /\ \A x \in 1..(n - (k + 1) + 1) : b[x] = s[k + 1 + x - 1]
    BY <2>1, SubSeqProperties
  <2>3. n - (k + 1) + 1 = n - k /\ (k + 1 <= n \/ n - k = 0) /\ \A x \in 1..(n - k) : k + 1 + x - 1 = k + x
    BY <1>0, <1>1
  <2> HIDE DEF b
  <2>4. Len(b) = n - k /\ \A x \in 1..(n - k) : b[x] = s[k + x]
    BY <2>2, <2>3
  <2> QED BY <2>2, <2>4
<1> HIDE DEF b, k, n
<1>4. /\ \A x \in 1..k : x \in 1..n
      /\ \A x \in 1..(n - k) : k + x \in 1..n /\ k + x \notin 1..k
      /\ \A x \in 1..n : x \in 1..k \/ (x - k \in 1..(n - k) /\ k + (x - k) = x)
      /\ \A x, y \in 1..(n - k) : k + x = k + y => x = y
  BY <1>0, <1>1
<1>5. Set(s) = Set(a) \cup Set(b)
  <2>1. \A x \in DOMAIN s : s[x] \in Set(a) \cup Set(b)
    <3> SUFFICES ASSUME NEW x \in 1..n PROVE s[x] \in Set(a) \cup Set(b)
      BY <1>0
    <3>1. CASE x \in 1..k
      BY <1>1, <1>2, <3>1 DEF Set
    <3>2. CASE x - k \in 1..(n - k) /\ k + (x - k) = x
      <4>1. b[x - k] = s[x]
        BY <1>3, <3>2
      <4> QED BY <1>3, <3>2, <4>1 DEF Set
    <3> QED BY <1>4, <3>1, <3>2
  <2>2. \A x \in DOMAIN a : a[x] \in Set(s)
    BY <1>0, <1>1, <1>2, <1>4 DEF Set
  <2>3. \A x \in DOMAIN b : b[x] \in Set(s)
    BY <1>0, <1>3, <1>4 DEF Set
  <2> QED BY <2>1, <2>2, <2>3 DEF Set
<1>6. Set(a) # {}
  <2>1. 1 \in DOMAIN a
    BY <1>0, <1>1
  <2> QED BY <2>1 DEF Set
<1>7. ASSUME IsInjective(s) PROVE IsInjective(b) /\ Set(a) \cap Set(b) = {}
  <2>1. IsInjective(b)
    BY <1>0, <1>3, <1>4, <1>7 DEF IsInjective
  <2>2. \A x \in 1..k, y \in 1..(n - k) : a[x] # b[y]
    BY <1>0, <1>2, <1>3, <1>4, <1>7 DEF IsInjective
  <2> QED BY <1>1, <1>3, <2>1, <2>2 DEF Set
<1>8. /\ a \in Seq(Idx) /\ b \in Seq(Idx) /\ Set(s) = Set(a) \cup Set(b) /\ Set(a) # {}
      /\ IsInjective(s) => IsInjective(b) /\ Set(a) \cap Set(b) = {}
  BY <1>1, <1>3, <1>5, <1>6, <1>7
<1> QED BY <1>8 DEF a, b, k, n

\* The slices lie side by side: slice x ends before the later slice y begins.
LEMMA Strips ==
    ASSUME NEW c \in Nat \ {0}, NEW x \in Nat, NEW y \in Nat, x < y
    PROVE  x * c <= (y - 1) * c
<1> DEFINE d == y - 1 - x
<1>1. d \in Nat /\ y - 1 = x + d
  OBVIOUS
<1> HIDE DEF d
<1>2. (x + d) * c = x * c + d * c /\ d * c \in Nat /\ x * c \in Nat
  BY <1>1
<1> QED BY <1>1, <1>2

\* Where the elements of slice x come from.
LEMMA SliceElements ==
    ASSUME NEW s \in Seq(Idx), NEW x \in Nat \ {0}, (x - 1) * ChunkSize < Len(s)
    PROVE  \A e : e \in Set(Slice(s, x)) <=>
              \E p \in DOMAIN s : e = s[p] /\ (x - 1) * ChunkSize < p /\ p <= x * ChunkSize
<1> DEFINE a == (x - 1) * ChunkSize
           z == x * ChunkSize
           n == Len(s)
           b == IF z < n THEN z ELSE n
           sl == SubSeq(s, a + 1, b)
<1>0. ChunkSize \in Nat \ {0}
  BY BoundsAssumption
<1>1. n \in Nat /\ DOMAIN s = 1..n /\ (\A p \in 1..n : s[p] \in Idx) /\ a \in Nat /\ z \in Nat /\ z = a + ChunkSize
  BY <1>0
<1>2. Slice(s, x) = sl /\ a < n
  BY DEF Slice
<1> HIDE DEF a, z, n
<1>3. b \in Nat /\ a < b /\ b <= n /\ b <= z /\ (b = n \/ b = z)
  BY <1>0, <1>1, <1>2
<1>4. /\ sl \in Seq(Idx) /\ Len(sl) = b - a /\ \A y \in 1..(b - a) : sl[y] = s[a + y]
  <2> HIDE DEF b
  <2>1. \A p \in (a + 1)..b : s[p] \in Idx
    BY <1>1, <1>3
  <2>2. /\ sl \in Seq(Idx) /\ Len(sl) = IF a + 1 <= b THEN b - (a + 1) + 1 ELSE 0
        /\ \A y \in 1..(b - (a + 1) + 1) : sl[y] = s[a + 1 + y - 1]
    BY <1>1, <1>3, <2>1, SubSeqProperties
  <2>3. a + 1 <= b /\ b - (a + 1) + 1 = b - a /\ \A y \in 1..(b - a) : a + 1 + y - 1 = a + y
    BY <1>1, <1>3
  <2> HIDE DEF sl
  <2> QED BY <2>2, <2>3
<1> HIDE DEF b, sl
<1>5. DOMAIN sl = 1..(b - a)
  BY <1>4
<1>6. ASSUME NEW e, e \in Set(sl) PROVE \E p \in DOMAIN s : e = s[p] /\ a < p /\ p <= z
  <2>1. PICK y \in 1..(b - a) : e = sl[y]
    BY <1>5, <1>6 DEF Set
  <2>2. a + y \in 1..n /\ a < a + y /\ a + y <= z
    BY <1>1, <1>3
  <2> QED BY <1>1, <1>4, <2>1, <2>2
<1>7. ASSUME NEW p \in DOMAIN s, a < p, p <= z PROVE s[p] \in Set(sl)
  <2>1. p - a \in 1..(b - a) /\ a + (p - a) = p
    BY <1>1, <1>3, <1>7
  <2>2. sl[p - a] = s[p]
    BY <1>4, <2>1
  <2> QED BY <1>5, <2>1, <2>2 DEF Set
<1> QED BY <1>2, <1>6, <1>7 DEF a, z

\* The messages of a list of distinct items share no item and hold all of them.
LEMMA ChunksSplit ==
    ASSUME NEW j \in Jobs, NEW s \in Seq(Idx), IsInjective(s)
    PROVE  /\ \A x \in DOMAIN Chunks(j, s) :
                 /\ Chunks(j, s)[x].job = j /\ Chunks(j, s)[x].idxs = Slice(s, x)
                 /\ Set(Slice(s, x)) \subseteq Set(s)
           /\ \A x, y \in DOMAIN Chunks(j, s) :
                 Set(Slice(s, x)) \cap Set(Slice(s, y)) # {} => x = y
           /\ \A e \in Set(s) : \E x \in DOMAIN Chunks(j, s) : e \in Set(Slice(s, x))
<1> DEFINE n == Len(s)
           c == ChunkSize
           k == (n + c - 1) \div c
<1>0. n \in Nat /\ DOMAIN s = 1..n /\ c \in Nat \ {0}
  BY BoundsAssumption
<1>1. DOMAIN Chunks(j, s) = 1..k /\ \A x \in 1..k : Chunks(j, s)[x] = Message(j, Slice(s, x))
  BY DEF Chunks
<1>2. k \in Nat /\ k * c <= n + c - 1 /\ n + c - 1 < (k + 1) * c
  <2> HIDE DEF n, c
  <2> QED BY <1>0
<1> HIDE DEF n, c, k
<1>3. \A x \in 1..k : x \in Nat \ {0} /\ (x - 1) * c < n
  <2> TAKE x \in 1..k
  <2>1. x \in Nat \ {0} /\ (x - 1) * c <= (k - 1) * c
    <3>1. CASE x = k
      BY <1>0, <1>2, <3>1
    <3>2. CASE x < k
      <4>1. x * c <= (k - 1) * c
        BY <1>0, <1>2, <3>2, Strips
      <4>2. (x - 1) * c + c = x * c /\ (x - 1) * c \in Nat /\ (k - 1) * c \in Nat /\ x * c \in Nat
        BY <1>0, <1>2
      <4> QED BY <1>0, <4>1, <4>2
    <3> QED BY <1>2, <3>1, <3>2
  <2>2. (k - 1) * c + c = k * c /\ (k - 1) * c \in Int /\ k * c \in Int /\ (x - 1) * c \in Int
    BY <1>0, <1>2
  <2> QED BY <1>0, <1>2, <2>1, <2>2
<1>4. \A x \in 1..k : \A e : e \in Set(Slice(s, x)) <=> \E p \in 1..n : e = s[p] /\ (x - 1) * c < p /\ p <= x * c
  BY <1>0, <1>3, SliceElements DEF n, c
<1>5. ASSUME NEW x \in 1..k PROVE /\ Chunks(j, s)[x].job = j /\ Chunks(j, s)[x].idxs = Slice(s, x)
                                  /\ Set(Slice(s, x)) \subseteq Set(s)
  <2>1. \A e \in Set(Slice(s, x)) : e \in Set(s)
    BY <1>0, <1>4 DEF Set
  <2> QED BY <1>1, <2>1 DEF Message
<1>6. ASSUME NEW x \in 1..k, NEW y \in 1..k, NEW e, e \in Set(Slice(s, x)), e \in Set(Slice(s, y)), x < y
      PROVE  FALSE
  <2>1. PICK p \in 1..n : e = s[p] /\ (x - 1) * c < p /\ p <= x * c
    BY <1>4, <1>6
  <2>2. PICK q \in 1..n : e = s[q] /\ (y - 1) * c < q /\ q <= y * c
    BY <1>4, <1>6
  <2>3. p = q
    BY <1>0, <2>1, <2>2 DEF IsInjective
  <2>4. x * c <= (y - 1) * c
    BY <1>0, <1>2, <1>6, Strips
  <2>5. x * c \in Int /\ (y - 1) * c \in Int
    BY <1>0, <1>2
  <2> QED BY <2>1, <2>2, <2>3, <2>4, <2>5
<1>7. ASSUME NEW e \in Set(s) PROVE \E x \in 1..k : e \in Set(Slice(s, x))
  <2>1. PICK p \in 1..n : e = s[p]
    BY <1>0 DEF Set
  <2> DEFINE q == (p - 1) \div c
  <2>2. q \in Nat /\ q * c <= p - 1 /\ p - 1 < (q + 1) * c
    BY <1>0
  <2> HIDE DEF q
  <2>3. q + 1 \in 1..k
    <3> SUFFICES ASSUME k < q + 1 PROVE FALSE
      BY <1>2, <2>2
    <3>1. k <= q
      BY <1>2, <2>2
    <3>2. CASE k = q
      <4>1. (k + 1) * c = k * c + c /\ k * c \in Nat
        BY <1>0, <1>2
      <4> QED BY <1>0, <1>2, <2>2, <3>2, <4>1
    <3>3. CASE k < q
      <4>1. k * c <= (q - 1) * c /\ (q - 1) * c + c = q * c /\ (k + 1) * c = k * c + c
        BY <1>0, <1>2, <2>2, <3>3, Strips
      <4>2. k * c \in Nat /\ q * c \in Nat /\ (q - 1) * c \in Int /\ (k + 1) * c \in Int
        BY <1>0, <1>2, <2>2
      <4> QED BY <1>0, <1>2, <2>2, <4>1, <4>2
    <3> QED BY <1>2, <2>2, <3>1, <3>2, <3>3
  <2>4. q * c < p /\ p <= (q + 1) * c
    <3>1. q * c \in Int /\ (q + 1) * c \in Int
      BY <1>0, <2>2
    <3> QED BY <2>2, <3>1
  <2>x. PICK x \in 1..k : x = q + 1
    BY <2>3
  <2>y. x - 1 = q
    BY <2>2, <2>x
  <2>5. (x - 1) * c < p /\ p <= x * c
    BY <2>4, <2>x, <2>y
  <2>6. e \in Set(Slice(s, x))
    BY <1>4, <2>1, <2>5, Zenon
  <2> QED BY <2>6
<1>8. ASSUME NEW x \in 1..k, NEW y \in 1..k, Set(Slice(s, x)) \cap Set(Slice(s, y)) # {} PROVE x = y
  <2>1. PICK e : e \in Set(Slice(s, x)) /\ e \in Set(Slice(s, y))
    BY <1>8
  <2>2. ~(x < y) /\ ~(y < x)
    BY <1>6, <2>1
  <2> QED BY <1>2, <2>2
<1> QED BY <1>1, <1>5, <1>7, <1>8

----------------------------------------------------------------------------
(* What _recover() puts in the queue for one job.                          *)

\* pending_item_indexes lists every pending item, each once.
LEMMA PendingListed ==
    ASSUME TypeOK, NEW j \in Jobs, NEW s \in PendingIdxs(j)
    PROVE  s \in Seq(Idx) /\ IsInjective(s) /\ Set(s) = Pending(j)
<1> DEFINE S == Pending(j)
           n == Cardinality(S)
<1>1. S \subseteq Idx /\ IsFiniteSet(S) /\ n \in Nat
  <2>1. S \subseteq Idx
    BY DEF Pending, ItemsIn
  <2>2. IsFiniteSet(Idx)
    BY FS_Interval, BoundsAssumption DEF Idx
  <2> QED BY <2>1, <2>2, FS_Subset, FS_CardinalityType
<1>2. s \in [1..n -> S] /\ \A x, y \in 1..n : x < y => s[x] < s[y]
  BY DEF PendingIdxs
<1> HIDE DEF S, n
<1>3. \A x \in 1..n : s[x] \in Nat
  <2>1. \A x \in 1..n : s[x] \in Idx
    BY <1>1, <1>2
  <2>2. Idx \subseteq Nat
    BY BoundsAssumption DEF Idx
  <2> QED BY <2>1, <2>2
<1>4. IsInjective(s)
  <2> SUFFICES ASSUME NEW x \in 1..n, NEW y \in 1..n, s[x] = s[y] PROVE x = y
    BY <1>2 DEF IsInjective
  <2>1. ~(x < y) /\ ~(y < x)
    BY <1>2, <1>3
  <2> QED BY <1>1, <2>1
<1>5. s \in Injection(1..n, S)
  BY <1>2, <1>4 DEF Injection
<1>6. Cardinality(1..n) = n
  BY <1>1, FS_Interval
<1>7. s \in Surjection(1..n, S)
  BY <1>1, <1>5, <1>6, FS_Injection DEF n
<1>8. Set(s) = S
  BY <1>2, <1>7 DEF Surjection, Set
<1>9. s \in Seq(Idx)
  BY <1>1, <1>2
<1> QED BY <1>4, <1>8, <1>9 DEF S

LEMMA RecoveredSplit ==
    ASSUME TypeOK, NEW j \in Jobs, NEW s \in PendingIdxs(j)
    PROVE  LET ms == Recovered(j, s)
           IN  /\ ms \in Seq(Messages) /\ \A x \in DOMAIN ms : ms[x].job = j
               /\ \A x \in DOMAIN ms, i \in Idx : MessageHas(ms[x], j, i) => i \in Pending(j)
               /\ \A x, y \in DOMAIN ms, i \in Idx :
                     MessageHas(ms[x], j, i) /\ MessageHas(ms[y], j, i) => x = y
               /\ IsActive(j) =>
                     /\ \A i \in Pending(j) : \E x \in DOMAIN ms : MessageHas(ms[x], j, i)
                     /\ job[j].finalized => DOMAIN ms # {}
<1> DEFINE ms == Recovered(j, s)
           Good ==
              /\ ms \in Seq(Messages) /\ \A x \in DOMAIN ms : ms[x].job = j
              /\ \A x \in DOMAIN ms, i \in Idx : MessageHas(ms[x], j, i) => i \in Pending(j)
              /\ \A x, y \in DOMAIN ms, i \in Idx :
                    MessageHas(ms[x], j, i) /\ MessageHas(ms[y], j, i) => x = y
              /\ IsActive(j) =>
                    /\ \A i \in Pending(j) : \E x \in DOMAIN ms : MessageHas(ms[x], j, i)
                    /\ job[j].finalized => DOMAIN ms # {}
<1>1. s \in Seq(Idx) /\ IsInjective(s) /\ Set(s) = Pending(j)
  BY PendingListed
<1>2. CASE ~IsActive(j)
  <2>1. ms = <<>>
    BY <1>2 DEF Recovered
  <2> QED BY <1>2, <2>1
<1>3. CASE IsActive(j) /\ s # <<>>
  <2>1. ms = Chunks(j, s)
    BY <1>3 DEF Recovered
  <2>2. ms \in Seq(Messages)
    BY <1>1, <2>1, ChunksType
  <2> HIDE DEF ms
  <2>3. /\ \A x \in DOMAIN ms : /\ ms[x].job = j /\ ms[x].idxs = Slice(s, x)
                                /\ Set(Slice(s, x)) \subseteq Pending(j)
        /\ \A x, y \in DOMAIN ms : Set(Slice(s, x)) \cap Set(Slice(s, y)) # {} => x = y
        /\ \A e \in Pending(j) : \E x \in DOMAIN ms : e \in Set(Slice(s, x))
    BY <1>1, <2>1, ChunksSplit
  <2>4. 1 \in DOMAIN s
    BY <1>1, <1>3
  <2>5. s[1] \in Pending(j)
    BY <1>1, <2>4 DEF Set
  <2>6. DOMAIN ms # {}
    BY <2>3, <2>5
  <2>7. \A x \in DOMAIN ms, i \in Idx : MessageHas(ms[x], j, i) <=> i \in Set(Slice(s, x))
    BY <2>3 DEF MessageHas
  <2>8. \A i \in Pending(j) : i \in Idx
    BY DEF Pending, ItemsIn
  <2>9. \A i \in Pending(j) : \E x \in DOMAIN ms : MessageHas(ms[x], j, i)
    BY <2>3, <2>7, <2>8
  <2>10. \A x, y \in DOMAIN ms, i \in Idx : MessageHas(ms[x], j, i) /\ MessageHas(ms[y], j, i) => x = y
    BY <2>3, <2>7
  <2> QED BY <2>2, <2>3, <2>6, <2>7, <2>9, <2>10 DEF ms
<1>4. CASE IsActive(j) /\ s = <<>>
  <2>1. Pending(j) = {}
    BY <1>1, <1>4 DEF Set
  <2>2. ms = IF job[j].finalized THEN <<Message(j, <<>>)>> ELSE <<>>
    BY <1>4 DEF Recovered
  <2>3. Message(j, <<>>) \in Messages /\ Message(j, <<>>).job = j /\ \A i : ~MessageHas(Message(j, <<>>), j, i)
    BY BoundsAssumption DEF Message, Messages, MessageHas, Set
  <2>4. CASE job[j].finalized
    <3>1. ms = <<Message(j, <<>>)>>
      BY <2>2, <2>4
    <3>2. ms \in Seq(Messages) /\ DOMAIN ms = {1} /\ ms[1] = Message(j, <<>>)
      BY <2>3, <3>1
    <3> HIDE DEF ms
    <3> QED BY <2>1, <2>3, <3>2 DEF ms
  <2>5. CASE ~job[j].finalized
    <3>1. ms = <<>>
      BY <2>2, <2>5
    <3> QED BY <2>1, <2>5, <3>1
  <2> QED BY <2>4, <2>5
<1>5. Good
  BY <1>2, <1>3, <1>4
<1> QED BY <1>5

----------------------------------------------------------------------------
(* The steps of a thread: one frame changes and no message moves.          *)

Moves(t, fr) ==
    thread' = [thread EXCEPT ![t] = fr] /\ UNCHANGED <<queue, schedule, phase, cursor, stranded>>
KeepsFlags ==
    \A j \in Jobs : /\ IsActive(j)' <=> IsActive(j)
                    /\ job'[j].finalized = job[j].finalized /\ job'[j].finished = job[j].finished
                    /\ Pending(j)' \subseteq Pending(j)
\* A worker goes on with its message, and drops no item that is still pending.
Onward(fr, fr2) ==
    /\ fr2.job = fr.job /\ fr2.msg = fr.msg /\ fr2.pc \in Processing \cup {"claim"}
    /\ Set(fr2.todo) \subseteq Set(fr.todo)
    /\ \A i \in Set(fr.todo) : i \in Set(fr2.todo) \/ item'[fr.job][i] # "pending"
    /\ fr2.pc = "claim" => fr2.todo = <<>>

\* The fields that an update of a frame leaves alone.
LEMMA FrameFields ==
    ASSUME NEW fr \in Frames, NEW pc, NEW got, NEW todo
    PROVE  /\ [fr EXCEPT !.pc = pc].pc = pc /\ [fr EXCEPT !.pc = pc].job = fr.job
           /\ [fr EXCEPT !.pc = pc].msg = fr.msg /\ [fr EXCEPT !.pc = pc].todo = fr.todo
           /\ [fr EXCEPT !.pc = pc, !.got = got].pc = pc /\ [fr EXCEPT !.pc = pc, !.got = got].job = fr.job
           /\ [fr EXCEPT !.pc = pc, !.got = got].msg = fr.msg
           /\ [fr EXCEPT !.pc = pc, !.got = got].todo = fr.todo
           /\ [fr EXCEPT !.pc = pc, !.todo = todo, !.got = got].pc = pc
           /\ [fr EXCEPT !.pc = pc, !.todo = todo, !.got = got].job = fr.job
           /\ [fr EXCEPT !.pc = pc, !.todo = todo, !.got = got].msg = fr.msg
           /\ [fr EXCEPT !.pc = pc, !.todo = todo, !.got = got].todo = todo
  BY DEF Frames

\* The elements of a sequence are its head and those of its tail.
LEMMA TailSet ==
    ASSUME NEW S, NEW s \in Seq(S), s # <<>>
    PROVE  Set(s) = {Head(s)} \cup Set(Tail(s)) /\ Head(s) \in S
<1> DEFINE n == Len(s)
           b == Tail(s)
<1>1. /\ n \in Nat /\ n # 0 /\ DOMAIN s = 1..n /\ Head(s) = s[1] /\ Head(s) \in S
      /\ DOMAIN b = 1..(n - 1) /\ \A x \in 1..(n - 1) : b[x] = s[x + 1]
  OBVIOUS
<1> HIDE DEF n, b
<1>2. /\ 1 \in 1..n /\ \A x \in 1..(n - 1) : x + 1 \in 1..n
      /\ \A x \in 1..n : x = 1 \/ (x - 1 \in 1..(n - 1) /\ (x - 1) + 1 = x)
  BY <1>1
<1>3. \A x \in 1..n : s[x] = Head(s) \/ \E y \in 1..(n - 1) : s[x] = b[y]
  BY <1>1, <1>2
<1>4. \A y \in 1..(n - 1) : \E x \in 1..n : b[y] = s[x]
  BY <1>1, <1>2
<1>5. Set(s) \subseteq {Head(s)} \cup Set(b)
  <2> SUFFICES ASSUME NEW x \in 1..n PROVE s[x] \in {Head(s)} \cup Set(b)
    BY <1>1 DEF Set
  <2>1. CASE \E y \in 1..(n - 1) : s[x] = b[y]
    BY <1>1, <2>1 DEF Set
  <2> QED BY <1>3, <2>1
<1>6. Set(b) \subseteq Set(s)
  BY <1>1, <1>4 DEF Set
<1>7. Head(s) \in Set(s)
  BY <1>1, <1>2 DEF Set
<1> QED BY <1>1, <1>5, <1>6, <1>7 DEF b

\* A step that leaves the tables alone keeps the flags.
LEMMA FlagsUntouched ==
    ASSUME UNCHANGED tables
    PROVE  KeepsFlags /\ \A j \in Jobs : Pending(j)' = Pending(j)
  BY DEF tables, KeepsFlags, IsActive, Pending, ItemsIn

LEMMA FlagsOneRow ==
    ASSUME TypeOK, NEW j \in Jobs, NEW r2, NEW it2,
           job' = [job EXCEPT ![j] = r2], item' = [item EXCEPT ![j] = it2],
           r2.status \in Active <=> job[j].status \in Active,
           r2.finalized = job[j].finalized, r2.finished = job[j].finished,
           \A i \in Idx : it2[i] = "pending" => item[j][i] = "pending"
    PROVE  KeepsFlags
<1>1. /\ job'[j] = r2 /\ item'[j] = it2
      /\ \A m \in Jobs \ {j} : job'[m] = job[m] /\ item'[m] = item[m]
  BY OneRow DEF Others
<1> QED BY <1>1 DEF KeepsFlags, IsActive, Pending, ItemsIn

LEMMA WorkShape ==
    ASSUME TypeOK, FrameInv, NEW w \in Workers, Work(w)
    PROVE  /\ thread[w].pc \in Processing /\ KeepsFlags
           /\ \E fr : /\ Moves(w, fr)
                      /\ \/ fr = Idle /\ (~IsActive(thread[w].job) \/ Stopping)
                         \/ Onward(thread[w], fr)
<1> USE DEF tables, broker, server, history
<1> DEFINE f0 == thread[w]
           j == f0.job
<1>0. w \in Threads /\ f0 \in Frames /\ j \in Jobs /\ f0.todo \in Seq(Idx)
  BY ThreadsAreThreads, FrameType DEF TypeOK
<1>j. job[j] \in Rows /\ item[j] \in Items
  BY <1>0, Tables
<1>e. Set(<<>>) = {}
  BY DEF Set
<1>1. ASSUME NEW pc \in Processing \cup {"claim"}, pc = "claim" => f0.todo = <<>>
      PROVE  Onward(f0, [f0 EXCEPT !.pc = pc])
  <2> HIDE DEF f0
  <2> QED BY <1>0, <1>1, FrameFields DEF Onward
<1>2. ASSUME NEW got PROVE Onward(f0, [f0 EXCEPT !.pc = "finish", !.got = got])
  <2> HIDE DEF f0
  <2> QED BY <1>0, FrameFields DEF Onward, Processing
<1>3. ASSUME f0.todo # <<>>, item'[j][Head(f0.todo)] # "pending" PROVE Onward(f0, Skip(f0))
  <2>1. Set(f0.todo) = {Head(f0.todo)} \cup Set(Tail(f0.todo))
    BY <1>0, <1>3, TailSet
  <2>2. /\ Skip(f0).job = j /\ Skip(f0).msg = f0.msg /\ Skip(f0).pc = "loop"
        /\ Skip(f0).todo = Tail(f0.todo)
    BY <1>0, FrameFields DEF Skip
  <2> HIDE DEF f0
  <2> QED BY <1>3, <2>1, <2>2 DEF Onward, Processing, j
<1>4. CASE CheckJob(w)
  <2>1. /\ UNCHANGED tables /\ f0.pc = "check"
        /\ \/ Moves(w, Idle) /\ ~IsActive(j)
           \/ Moves(w, [f0 EXCEPT !.pc = "loop"])
    BY <1>4 DEF CheckJob, Moves
  <2> QED BY <1>1, <2>1, FlagsUntouched DEF Processing
<1>5. CASE NextItem(w)
  <2>1. /\ UNCHANGED tables /\ f0.pc = "loop"
        /\ \/ Moves(w, [f0 EXCEPT !.pc = "claim"]) /\ f0.todo = <<>>
           \/ Moves(w, Idle) /\ Stopping
           \/ Moves(w, [f0 EXCEPT !.pc = "start"])
    BY <1>5 DEF NextItem, Moves
  <2> QED BY <1>1, <2>1, FlagsUntouched DEF Processing
<1>6. CASE StartItem(w)
  <2>0. f0.pc = "start" /\ f0.todo # <<>> /\ item' = item
    BY <1>0, <1>6 DEF StartItem, FrameInv
  <2>1. CASE ~IsActive(j)
    <3>1. Moves(w, Idle) /\ job' = job
      BY <1>6, <2>1 DEF StartItem, Moves
    <3> QED BY <2>0, <2>1, <3>1, FlagsUntouched DEF Processing
  <2>2. CASE IsActive(j) /\ item[j][Head(f0.todo)] # "pending"
    <3>1. Moves(w, Skip(f0)) /\ job' = job
      BY <1>6, <2>2 DEF StartItem, Moves
    <3>2. item'[j][Head(f0.todo)] # "pending"
      BY <2>0, <2>2
    <3> QED BY <1>3, <2>0, <3>1, <3>2, FlagsUntouched DEF Processing
  <2>3. CASE IsActive(j) /\ item[j][Head(f0.todo)] = "pending"
    <3> DEFINE r2 == [job[j] EXCEPT !.status = "running"]
    <3>1. Moves(w, [f0 EXCEPT !.pc = "predict"]) /\ job' = [job EXCEPT ![j] = r2]
      BY <1>6, <2>3 DEF StartItem, Moves
    <3>2. r2.status = "running" /\ r2.finished = job[j].finished /\ r2.finalized = job[j].finalized
      BY <1>j DEF Rows
    <3>3. item' = [item EXCEPT ![j] = item[j]]
      BY <2>0, Tables
    <3> HIDE DEF r2
    <3>4. KeepsFlags
      <4>1. r2.status \in Active /\ job[j].status \in Active
        BY <2>3, <3>2 DEF Active, IsActive
      <4> HIDE DEF j
      <4> QED BY <1>0, <3>1, <3>2, <3>3, <4>1, FlagsOneRow DEF j
    <3> QED BY <1>1, <2>0, <3>1, <3>4 DEF Processing
  <2> QED BY <2>1, <2>2, <2>3
<1>7. CASE PredictReturns(w)
  <2>1. /\ UNCHANGED tables /\ f0.pc = "predict" /\ Moves(w, [f0 EXCEPT !.pc = "finish", !.got = "done"])
    BY <1>7 DEF PredictReturns, Moves
  <2> QED BY <1>2, <2>1, FlagsUntouched DEF Processing
<1>8. CASE PredictRaises(w)
  <2> DEFINE g == IF EngineClosed THEN "interrupted" ELSE "failed"
  <2>1. /\ UNCHANGED tables /\ f0.pc = "predict"
        /\ \/ Moves(w, Idle) /\ Stopping
           \/ Moves(w, [f0 EXCEPT !.pc = "finish", !.got = g])
    BY <1>8 DEF PredictRaises, Moves
  <2> HIDE DEF g
  <2> QED BY <1>2, <2>1, FlagsUntouched DEF Processing
<1>9. CASE FinishItem(w)
  <2> DEFINE i == Head(f0.todo)
             got == f0.got
  <2>0. /\ f0.pc = "finish" /\ f0.todo # <<>> /\ got \in Processed /\ i \in Idx /\ Moves(w, Skip(f0))
    <3>1. f0.pc = "finish" /\ f0.todo # <<>> /\ got \in Processed
      BY <1>0, <1>9 DEF FinishItem, FrameInv
    <3> QED BY <1>0, <1>9, <3>1 DEF FinishItem, Moves
  <2>1. CASE item[j][i] = "pending"
    <3> DEFINE d == job[j].done + 1
               f == IF got \in FailedItem THEN job[j].failed + 1 ELSE job[j].failed
               r2 == [job[j] EXCEPT !.done = d, !.failed = f]
               it2 == [item[j] EXCEPT ![i] = got]
    <3>1. job' = [job EXCEPT ![j] = r2] /\ item' = [item EXCEPT ![j] = it2]
      BY <1>9, <2>1 DEF FinishItem
    <3>2. r2.status = job[j].status /\ r2.finished = job[j].finished /\ r2.finalized = job[j].finalized
      <4> HIDE DEF d, f
      <4> QED BY <1>j DEF Rows
    <3>3. it2[i] = got /\ got # "pending" /\ \A k \in Idx : it2[k] = "pending" => item[j][k] = "pending"
      BY <1>j, <2>0 DEF Items, Processed
    <3> HIDE DEF r2, it2, i, got
    <3>4. KeepsFlags
      <4> HIDE DEF j
      <4> QED BY <1>0, <3>1, <3>2, <3>3, FlagsOneRow DEF j
    <3>5. item'[j] = it2
      BY <1>0, <3>1, Tables
    <3>6. item'[j][i] # "pending"
      BY <3>3, <3>5
    <3> QED BY <1>3, <2>0, <3>4, <3>6 DEF Processing, i
  <2>2. CASE item[j][i] # "pending"
    <3>1. UNCHANGED tables
      BY <1>9, <2>2 DEF FinishItem
    <3>2. item'[j][i] # "pending"
      BY <2>2, <3>1
    <3> QED BY <1>3, <2>0, <3>1, <3>2, FlagsUntouched DEF Processing
  <2> QED BY <2>1, <2>2
<1> QED BY <1>4, <1>5, <1>6, <1>7, <1>8, <1>9 DEF Work

\* The submitter's frame after a slice was enqueued, or the rows committed.
LEMMA AfterEnqueueShape ==
    ASSUME NEW fr \in Frames, NEW b \in Seq(Idx)
    PROVE  LET a == AfterEnqueue([fr EXCEPT !.todo = b])
           IN  \/ b # <<>> /\ a.pc = "enqueue" /\ a.job = fr.job /\ a.todo = b /\ a.msg = fr.msg
               \/ b = <<>> /\ fr.fin /\ a.pc = "claim" /\ a.job = fr.job /\ a.msg = fr.msg
               \/ b = <<>> /\ ~fr.fin /\ a = Idle
<1> DEFINE g == [fr EXCEPT !.todo = b]
<1>1. g \in Frames /\ g.todo = b /\ g.fin = fr.fin /\ g.job = fr.job /\ g.msg = fr.msg
  BY DEF Frames
<1> HIDE DEF g
<1>2. \A pc : /\ [g EXCEPT !.pc = pc].pc = pc /\ [g EXCEPT !.pc = pc].job = g.job
              /\ [g EXCEPT !.pc = pc].msg = g.msg /\ [g EXCEPT !.pc = pc].todo = g.todo
  BY <1>1, FrameFields
<1>3. CASE b # <<>>
  BY <1>1, <1>2, <1>3 DEF AfterEnqueue, g
<1>4. CASE b = <<>> /\ fr.fin
  BY <1>1, <1>2, <1>4 DEF AfterEnqueue, g
<1>5. CASE b = <<>> /\ ~fr.fin
  BY <1>1, <1>5 DEF AfterEnqueue, g
<1> QED BY <1>3, <1>4, <1>5

\* The indexes of the new items, each once.
LEMMA NewIdxsSet ==
    ASSUME NEW k \in Nat, NEW n \in Nat, k + n <= MaxItems
    PROVE  /\ NewIdxs(k, n) \in Seq(Idx) /\ IsInjective(NewIdxs(k, n))
           /\ Set(NewIdxs(k, n)) = (k + 1)..(k + n)
           /\ NewIdxs(k, n) = <<>> <=> n = 0
<1> DEFINE s == NewIdxs(k, n)
<1>1. DOMAIN s = 1..n /\ \A x \in 1..n : s[x] = k + x
  BY DEF NewIdxs
<1>2. \A x \in 1..n : k + x \in Idx
  BY BoundsAssumption DEF Idx
<1>3. s \in Seq(Idx)
  <2>1. s \in [1..n -> Idx]
    BY <1>2 DEF NewIdxs
  <2> QED BY <2>1
<1> HIDE DEF s
<1>4. IsInjective(s)
  BY <1>1 DEF IsInjective
<1>5. Set(s) = (k + 1)..(k + n)
  <2>1. \A x \in 1..n : k + x \in (k + 1)..(k + n)
    OBVIOUS
  <2>2. \A y \in (k + 1)..(k + n) : y - k \in 1..n /\ k + (y - k) = y
    OBVIOUS
  <2>3. \A y \in (k + 1)..(k + n) : \E x \in 1..n : s[x] = y
    BY <1>1, <2>2
  <2>4. \A x \in DOMAIN s : s[x] \in (k + 1)..(k + n)
    BY <1>1, <2>1
  <2>5. \A y \in (k + 1)..(k + n) : y \in Set(s)
    BY <1>1, <2>3 DEF Set
  <2>6. \A y \in Set(s) : y \in (k + 1)..(k + n)
    BY <2>4 DEF Set
  <2> QED BY <2>5, <2>6
<1>6. s = <<>> <=> n = 0
  <2>1. Len(s) = n
    BY <1>1, <1>3
  <2> QED BY <1>3, <2>1
<1> QED BY <1>3, <1>4, <1>5, <1>6 DEF s

LEMMA SubmittingShape ==
    ASSUME NEW j \in Jobs, NEW k \in Nat, NEW n \in Nat, k + n <= MaxItems, NEW fin \in BOOLEAN
    PROVE  LET a == Submitting(j, k, n, fin)
           IN  /\ ClientFrame(a) /\ \A m, i : FrameHas(a, m, i) => m = j /\ i \in (k + 1)..(k + n)
               /\ n > 0 => a.pc = "enqueue" /\ a.job = j /\ Set(a.todo) = (k + 1)..(k + n)
               /\ n = 0 /\ fin => a.pc = "claim" /\ a.job = j
<1> DEFINE base == [Idle EXCEPT !.job = j, !.fin = fin]
           b == NewIdxs(k, n)
           a == AfterEnqueue([base EXCEPT !.todo = b])
<1>1. base \in Frames /\ base.msg = NoMessage /\ base.job = j /\ base.fin = fin
  BY IdleType DEF Idle, Frames
<1>2. Submitting(j, k, n, fin) = a
  <2>1. [Idle EXCEPT !.job = j, !.todo = b, !.fin = fin] = [base EXCEPT !.todo = b]
    BY DEF Idle
  <2> QED BY <2>1 DEF Submitting
<1>3. /\ b \in Seq(Idx) /\ IsInjective(b) /\ Set(b) = (k + 1)..(k + n) /\ (b = <<>> <=> n = 0)
  BY NewIdxsSet
<1> HIDE DEF base, b
<1>4. \/ b # <<>> /\ a.pc = "enqueue" /\ a.job = j /\ a.todo = b /\ a.msg = NoMessage
      \/ b = <<>> /\ fin /\ a.pc = "claim" /\ a.job = j /\ a.msg = NoMessage
      \/ b = <<>> /\ ~fin /\ a = Idle
  BY <1>1, <1>3, AfterEnqueueShape
<1>5. Idle.msg = NoMessage /\ Idle.pc = "idle" /\ Set(NoMessage.idxs) = {}
  BY DEF Idle, NoMessage, Set
<1> HIDE DEF a
<1>6. ClientFrame(a) /\ \A m, i : FrameHas(a, m, i) => m = j /\ i \in (k + 1)..(k + n)
  BY <1>3, <1>4, <1>5 DEF ClientFrame, FrameHas, CarriedBy
<1>7. /\ n > 0 => a.pc = "enqueue" /\ a.job = j /\ Set(a.todo) = (k + 1)..(k + n)
      /\ n = 0 /\ fin => a.pc = "claim" /\ a.job = j
  BY <1>3, <1>4
<1> QED BY <1>2, <1>6, <1>7

\* What submit() writes: the items after the last one become pending, none of
\* them existed before, and the submitter is about to enqueue them.
LEMMA RequestShape ==
    ASSUME TypeOK, RowsGood, NEW c \in Clients, Request(c)
    PROVE  \E j \in Jobs, n \in Nat, fin \in BOOLEAN :
              LET k == job[j].total
              IN  /\ k \in Nat /\ k + n <= MaxItems /\ phase = "up"
                  /\ Moves(c, Submitting(j, k, n, fin)) /\ thread[c].pc = "idle"
                  /\ Others(j) /\ ~job'[j].finished /\ job'[j].finalized = fin
                  /\ job[j].status = "absent" \/ (IsActive(j) /\ ~job[j].finished)
                  /\ item'[j] = [i \in Idx |-> IF i \in (k + 1)..(k + n) THEN "pending" ELSE item[j][i]]
                  /\ \A i \in Idx : i > k => item[j][i] = "absent"
                  /\ job[j].status = "absent" => \A i \in Idx : item[j][i] = "absent"
<1> USE DEF broker, server, history
<1>0. \A j \in Jobs : RowGood(job[j], item[j]) /\ job[j].total \in 0..MaxItems /\ item[j] \in Items /\ job[j] \in Rows
  BY Tables DEF RowsGood, Rows
<1>1. ASSUME NEW j \in Jobs, NEW i \in Idx, i > job[j].total PROVE item[j][i] = "absent"
  <2>1. i \notin Having(item[j], Counted)
    BY <1>0, <1>1, BoundsAssumption DEF RowGood, Counts, Idx
  <2>2. item[j][i] \in Statuses /\ item[j][i] \notin Counted
    BY <1>0, <2>1 DEF Having, Items
  <2> QED BY <2>2 DEF Statuses, Counted
<1>2. ASSUME NEW j \in Jobs, job[j].status = "absent"
      PROVE  job[j].total = 0 /\ \A i \in Idx : item[j][i] = "absent"
  <2>1. job[j].total = 0
    BY <1>0, <1>2 DEF RowGood
  <2>2. \A i \in Idx : i > 0
    BY BoundsAssumption DEF Idx
  <2> QED BY <1>1, <2>1, <2>2
<1>3. ASSUME NEW k \in Kinds, NEW n \in 0..MaxItems, NEW fin \in BOOLEAN, CreateJob(c, k, n, fin)
      PROVE  \E j \in Jobs : /\ Moves(c, Submitting(j, 0, n, fin)) /\ thread[c].pc = "idle"
                             /\ Others(j) /\ ~job'[j].finished /\ job'[j].finalized = fin
                             /\ job[j].status = "absent" /\ phase = "up"
                             /\ item'[j] = [i \in Idx |-> IF i \in 1..n THEN "pending" ELSE item[j][i]]
  <2>1. PICK j \in Jobs :
          /\ job[j].status = "absent" /\ phase = "up" /\ thread[c].pc = "idle"
          /\ job' = [job EXCEPT ![j] = [NoRow EXCEPT !.status = "queued", !.kind = k,
                                                     !.total = n, !.finalized = fin]]
          /\ item' = WithItems(j, 0, n)
          /\ Moves(c, Submitting(j, 0, n, fin))
    BY <1>3 DEF CreateJob, Moves
  <2> DEFINE r2 == [NoRow EXCEPT !.status = "queued", !.kind = k, !.total = n, !.finalized = fin]
             it2 == [i \in Idx |-> IF i \in 1..n THEN "pending" ELSE item[j][i]]
  <2>2. r2.finished = FALSE /\ r2.finalized = fin
    BY DEF NoRow
  <2>3. item' = [item EXCEPT ![j] = it2]
    <3>1. 0 + 1 = 1 /\ 0 + n = n
      OBVIOUS
    <3> QED BY <2>1, <3>1 DEF WithItems
  <2>4. Others(j) /\ job'[j] = r2 /\ item'[j] = it2
    <3> HIDE DEF r2, it2
    <3> QED BY <2>1, <2>3, OneRow DEF r2
  <2> HIDE DEF r2
  <2> QED BY <2>1, <2>2, <2>4
<1>4. ASSUME NEW j \in Jobs, NEW n \in 0..MaxItems, NEW fin \in BOOLEAN, AppendItems(c, j, n, fin)
      PROVE  LET k == job[j].total
             IN  /\ Moves(c, Submitting(j, k, n, fin)) /\ thread[c].pc = "idle" /\ k + n <= MaxItems
                 /\ Others(j) /\ job'[j].finished = job[j].finished /\ job'[j].finalized = fin
                 /\ IsActive(j) /\ ~job[j].finalized /\ phase = "up"
                 /\ item'[j] = [i \in Idx |-> IF i \in (k + 1)..(k + n) THEN "pending" ELSE item[j][i]]
  <2> DEFINE k == job[j].total
             r2 == [job[j] EXCEPT !.total = k + n, !.finalized = fin]
             it2 == [i \in Idx |-> IF i \in (k + 1)..(k + n) THEN "pending" ELSE item[j][i]]
  <2>1. /\ job' = [job EXCEPT ![j] = r2] /\ item' = [item EXCEPT ![j] = it2]
        /\ Moves(c, Submitting(j, k, n, fin)) /\ thread[c].pc = "idle" /\ k + n <= MaxItems
        /\ IsActive(j) /\ ~job[j].finalized /\ phase = "up"
    BY <1>4 DEF AppendItems, WithItems, Moves
  <2>2. r2.finished = job[j].finished /\ r2.finalized = fin
    BY <1>0 DEF Rows
  <2>3. Others(j) /\ job'[j] = r2 /\ item'[j] = it2
    <3> HIDE DEF r2, it2
    <3> QED BY <2>1, OneRow
  <2> HIDE DEF r2
  <2> QED BY <2>1, <2>2, <2>3
<1>5. PICK n \in 0..MaxItems, fin \in BOOLEAN :
        (\E k \in Kinds : CreateJob(c, k, n, fin)) \/ \E j \in Jobs : AppendItems(c, j, n, fin)
  BY DEF Request
<1>n. n \in Nat /\ 0 + n <= MaxItems /\ 0 + 1 = 1 /\ 0 + n = n
  BY BoundsAssumption
<1>6. CASE \E k \in Kinds : CreateJob(c, k, n, fin)
  <2>1. PICK j \in Jobs : /\ Moves(c, Submitting(j, 0, n, fin)) /\ thread[c].pc = "idle"
                          /\ Others(j) /\ ~job'[j].finished /\ job'[j].finalized = fin
                          /\ job[j].status = "absent" /\ phase = "up"
                          /\ item'[j] = [i \in Idx |-> IF i \in 1..n THEN "pending" ELSE item[j][i]]
    BY <1>3, <1>6
  <2>2. job[j].total = 0 /\ \A i \in Idx : item[j][i] = "absent"
    BY <1>2, <2>1
  <2> QED BY <1>n, <2>1, <2>2
<1>7. CASE \E j \in Jobs : AppendItems(c, j, n, fin)
  <2>1. PICK j \in Jobs : AppendItems(c, j, n, fin)
    BY <1>7
  <2>2. /\ Moves(c, Submitting(j, job[j].total, n, fin)) /\ thread[c].pc = "idle"
        /\ job[j].total + n <= MaxItems
        /\ Others(j) /\ job'[j].finished = job[j].finished /\ job'[j].finalized = fin
        /\ IsActive(j) /\ ~job[j].finalized /\ phase = "up"
        /\ item'[j] = [i \in Idx |-> IF i \in (job[j].total + 1)..(job[j].total + n)
                                     THEN "pending" ELSE item[j][i]]
    BY <1>4, <2>1
  <2>3. ~job[j].finished
    BY <1>0, <2>2 DEF RowGood, ClaimSound, Held, IsActive
  <2>4. job[j].total \in Nat /\ job[j].status # "absent"
    BY <1>0, <2>2, BoundsAssumption DEF IsActive, Active
  <2>5. ~job'[j].finished
    BY <2>2, <2>3
  <2>6. \A i \in Idx : i > job[j].total => item[j][i] = "absent"
    BY <1>1
  <2> QED BY <1>n, <2>2, <2>3, <2>4, <2>5, <2>6
<1> QED BY <1>5, <1>6, <1>7

----------------------------------------------------------------------------
(* The remaining steps of the threads.                                     *)

LEMMA IdleFrame ==
    /\ WorkerFrame(Idle) /\ ClientFrame(Idle) /\ \A j, i : ~FrameHas(Idle, j, i)
    /\ Idle.pc = "idle"
  BY DEF WorkerFrame, ClientFrame, FrameHas, CarriedBy, Idle, NoMessage, Processing, Set

\* _maybe_complete: the caller gives up or goes on with the same job.
LEMMA FinalizingShape ==
    ASSUME TypeOK, NEW t \in Threads, Finalizing(t)
    PROVE  /\ thread[t].pc \in Completing \cup {"claim"}
           /\ \E fr : /\ Moves(t, fr)
                      /\ \/ fr = Idle
                         \/ /\ fr.job = thread[t].job /\ fr.msg = thread[t].msg
                            /\ fr.pc \in Completing
<1> USE DEF tables, broker, server, history
<1> DEFINE f0 == thread[t]
           f2 == [f0 EXCEPT !.pc = "complete", !.got = "hook error"]
<1>0. f0 \in Frames
  BY DEF TypeOK
<1>1. \A pc : /\ [f0 EXCEPT !.pc = pc].pc = pc /\ [f0 EXCEPT !.pc = pc].job = f0.job
              /\ [f0 EXCEPT !.pc = pc].msg = f0.msg
  <2> HIDE DEF f0
  <2> QED BY <1>0, FrameFields
<1>2. f2.pc = "complete" /\ f2.job = f0.job /\ f2.msg = f0.msg
  <2> HIDE DEF f0
  <2> QED BY <1>0, FrameFields
<1>3. CASE Claim(t)
  <2>1. f0.pc = "claim" /\ (Moves(t, Idle) \/ Moves(t, [f0 EXCEPT !.pc = "hooks"]))
    BY <1>3 DEF Claim, Moves
  <2> QED BY <1>1, <2>1 DEF Completing
<1>4. CASE HooksReturn(t)
  <2>1. f0.pc = "hooks" /\ Moves(t, [f0 EXCEPT !.pc = "complete"])
    BY <1>4 DEF HooksReturn, Moves
  <2> QED BY <1>1, <2>1 DEF Completing
<1>5. CASE HooksRaise(t)
  <2>1. f0.pc = "hooks" /\ Moves(t, f2)
    BY <1>5 DEF HooksRaise, Moves
  <2> HIDE DEF f2
  <2> QED BY <1>2, <2>1 DEF Completing
<1>6. CASE Complete(t)
  <2>1. f0.pc = "complete" /\ Moves(t, Idle)
    BY <1>6 DEF Complete, Moves
  <2> QED BY <2>1 DEF Completing
<1> QED BY <1>3, <1>4, <1>5, <1>6 DEF Finalizing

\* An item row, once written, stays.
LEMMA ItemsStay ==
    ASSUME TypeOK, TableStep, NEW m \in Jobs, NEW i \in Idx, item[m][i] # "absent"
    PROVE  item'[m][i] # "absent"
<1>0. item[m] \in Items
  BY Tables
<1>1. CASE Rests
  BY <1>1 DEF Rests
<1>2. ASSUME NEW j \in Jobs, Others(j), j = m => item'[m][i] # "absent" PROVE item'[m][i] # "absent"
  BY <1>2 DEF Others
<1>3. ASSUME NEW j \in Jobs, NEW n \in 0..MaxItems, Adds(j, n) PROVE item'[m][i] # "absent"
  BY <1>2, <1>3 DEF Adds
<1>4. ASSUME NEW j \in Jobs, NEW k \in Idx, NEW got \in {"done", "failed"}, Answers(j, k, got)
      PROVE  item'[m][i] # "absent"
  <2>1. [item[m] EXCEPT ![k] = got][i] # "absent"
    BY <1>0 DEF Items
  <2> QED BY <1>2, <1>4, <2>1 DEF Answers
<1>5. ASSUME NEW j \in Jobs, Cancels(j) PROVE item'[m][i] # "absent"
  BY <1>2, <1>5 DEF Cancels
<1>6. ASSUME NEW j \in Jobs, Ends(j) PROVE item'[m][i] # "absent"
  BY <1>2, <1>6 DEF Ends
<1> QED BY <1>1, <1>3, <1>4, <1>5, <1>6 DEF TableStep

----------------------------------------------------------------------------
(* No item in two places.                                                  *)

\* What has to be shown of a step.
LEMMA CarrierFrom ==
    ASSUME TypeOK, CarrierInv, TableStep,
           \A t \in Workers : WorkerFrame(thread'[t]), \A t \in Clients : ClientFrame(thread'[t]),
           \A j \in Jobs, i \in Idx :
              Alone(j, i)' /\ (Somewhere(j, i)' => Somewhere(j, i) \/ item'[j][i] # "absent"),
           phase' = "starting" => schedule' = {} /\ \A p \in DOMAIN queue' : queue'[p].job < cursor'
    PROVE  CarrierInv'
<1>1. \A j \in Jobs, i \in Idx : Somewhere(j, i)' => item'[j][i] # "absent"
  BY ItemsStay DEF CarrierInv
<1>2. \A t \in Workers : WorkerFrame(thread[t])'
  BY DEF WorkerFrame
<1>3. \A t \in Clients : ClientFrame(thread[t])'
  BY DEF ClientFrame
<1> QED BY <1>1, <1>2, <1>3 DEF CarrierInv

\* One thread gets a frame of its kind.
LEMMA OneFrame ==
    ASSUME TypeOK, CarrierInv, NEW t \in Threads, NEW fr, thread' = [thread EXCEPT ![t] = fr],
           t \in Workers => WorkerFrame(fr), t \in Clients => ClientFrame(fr)
    PROVE  /\ \A u \in Workers : WorkerFrame(thread'[u])
           /\ \A u \in Clients : ClientFrame(thread'[u])
           /\ thread'[t] = fr /\ \A u \in Threads \ {t} : thread'[u] = thread[u]
<1>1. thread'[t] = fr /\ \A u \in Threads \ {t} : thread'[u] = thread[u]
  BY DEF TypeOK
<1> QED BY <1>1, ThreadsAreThreads DEF CarrierInv

\* A thread that gets hold of nothing new.
LEMMA CarrierMoves ==
    ASSUME TypeOK, FrameInv, CarrierInv, TableStep, NEW t \in Threads, NEW fr, Moves(t, fr),
           t \in Workers => WorkerFrame(fr), t \in Clients => ClientFrame(fr),
           \A j, i : FrameHas(fr, j, i) => FrameHas(thread[t], j, i)
    PROVE  CarrierInv'
<1>1. /\ \A u \in Workers : WorkerFrame(thread'[u])
      /\ \A u \in Clients : ClientFrame(thread'[u])
      /\ thread'[t] = fr /\ \A u \in Threads \ {t} : thread'[u] = thread[u]
  BY OneFrame DEF Moves
<1>2. ASSUME NEW j \in Jobs, NEW i \in Idx PROVE Alone(j, i)' /\ (Somewhere(j, i)' => Somewhere(j, i))
  <2>1. Alone(j, i)
    BY DEF CarrierInv
  <2>2. queue' = queue /\ schedule' = schedule
    BY DEF Moves
  <2>3. \A u \in Threads : FrameHas(thread'[u], j, i) => FrameHas(thread[u], j, i)
    BY <1>1
  <2> QED BY <2>1, <2>2, <2>3, HoldersShrink
<1>3. phase' = "starting" => schedule' = {} /\ \A p \in DOMAIN queue' : queue'[p].job < cursor'
  BY DEF Moves, CarrierInv
<1> QED BY <1>1, <1>2, <1>3, CarrierFrom

LEMMA WorkCarrier ==
    ASSUME TypeOK, FrameInv, CarrierInv, TableStep, NEW w \in Workers, Work(w)
    PROVE  CarrierInv'
<1>1. PICK fr : /\ Moves(w, fr) /\ thread[w].pc \in Processing
                /\ \/ fr = Idle
                   \/ Onward(thread[w], fr)
  BY WorkShape
<1>2. w \in Threads /\ w \notin Clients /\ WorkerFrame(thread[w])
  BY ThreadsAreThreads, ThreadsAssumption DEF CarrierInv
<1>3. WorkerFrame(fr) /\ \A j, i : FrameHas(fr, j, i) => FrameHas(thread[w], j, i)
  <2>1. CASE fr = Idle
    BY <2>1, IdleFrame
  <2>2. CASE Onward(thread[w], fr)
    <3>1. fr.pc # "enqueue" /\ thread[w].pc # "enqueue" /\ fr.job = thread[w].job /\ fr.msg = thread[w].msg
      BY <1>1, <2>2 DEF Onward, Processing
    <3>2. WorkerFrame(fr)
      BY <1>1, <1>2, <2>2, <3>1 DEF WorkerFrame, Onward
    <3> QED BY <3>1, <3>2 DEF FrameHas, CarriedBy
  <2> QED BY <1>1, <2>1, <2>2
<1> QED BY <1>1, <1>2, <1>3, CarrierMoves

LEMMA FinalizingCarrier ==
    ASSUME TypeOK, FrameInv, CarrierInv, TableStep, NEW t \in Threads, Finalizing(t)
    PROVE  CarrierInv'
<1>1. PICK fr : /\ Moves(t, fr) /\ thread[t].pc \in Completing \cup {"claim"}
                /\ \/ fr = Idle
                   \/ fr.job = thread[t].job /\ fr.msg = thread[t].msg /\ fr.pc \in Completing
  BY FinalizingShape
<1>2. /\ t \in Workers => WorkerFrame(fr)
      /\ t \in Clients => ClientFrame(fr)
      /\ \A j, i : FrameHas(fr, j, i) => FrameHas(thread[t], j, i)
  <2>1. CASE fr = Idle
    BY <2>1, IdleFrame
  <2>2. CASE fr.job = thread[t].job /\ fr.msg = thread[t].msg /\ fr.pc \in Completing
    <3>1. fr.pc # "enqueue" /\ fr.pc \notin Processing /\ thread[t].pc # "enqueue"
      BY <1>1, <2>2 DEF Completing, Processing
    <3> QED BY <2>2, <3>1 DEF CarrierInv, WorkerFrame, ClientFrame, FrameHas, CarriedBy
  <2> QED BY <1>1, <2>1, <2>2
<1> QED BY <1>1, <1>2, CarrierMoves

\* submit(): nobody holds the new items, since they did not exist.
LEMMA RequestCarrier ==
    ASSUME TypeOK, RowsGood, CarrierInv, TableStep, NEW c \in Clients, Request(c)
    PROVE  CarrierInv'
<1>1. PICK j \in Jobs, n \in Nat, fin \in BOOLEAN :
         LET k == job[j].total
         IN  /\ k \in Nat /\ k + n <= MaxItems /\ phase = "up"
             /\ Moves(c, Submitting(j, k, n, fin))
             /\ item'[j] = [i \in Idx |-> IF i \in (k + 1)..(k + n) THEN "pending" ELSE item[j][i]]
             /\ \A i \in Idx : i > k => item[j][i] = "absent"
  BY RequestShape
<1> DEFINE k == job[j].total
           fr == Submitting(j, k, n, fin)
<1>2. k \in Nat /\ k + n <= MaxItems /\ phase' = "up" /\ queue' = queue /\ schedule' = schedule
  BY <1>1 DEF Moves
<1>3. ClientFrame(fr) /\ \A m, i : FrameHas(fr, m, i) => m = j /\ i \in (k + 1)..(k + n)
  <2> HIDE DEF k
  <2> QED BY <1>2, SubmittingShape
<1>4. c \in Threads /\ c \notin Workers
  BY ThreadsAreThreads, ThreadsAssumption
<1>5. thread' = [thread EXCEPT ![c] = fr]
  BY <1>1 DEF Moves
<1>6. /\ item'[j] = [i \in Idx |-> IF i \in (k + 1)..(k + n) THEN "pending" ELSE item[j][i]]
      /\ \A i \in Idx : i > k => item[j][i] = "absent"
  BY <1>1
<1> HIDE DEF fr, k
<1>7. /\ \A u \in Workers : WorkerFrame(thread'[u])
      /\ \A u \in Clients : ClientFrame(thread'[u])
      /\ thread'[c] = fr /\ \A u \in Threads \ {c} : thread'[u] = thread[u]
  BY <1>3, <1>4, <1>5, OneFrame
<1>8. ASSUME NEW m \in Jobs, NEW i \in Idx
      PROVE  Alone(m, i)' /\ (Somewhere(m, i)' => Somewhere(m, i) \/ item'[m][i] # "absent")
  <2>1. Alone(m, i) /\ (Somewhere(m, i) => item[m][i] # "absent")
    BY DEF CarrierInv
  <2>2. ASSUME FrameHas(fr, m, i) PROVE ~Somewhere(m, i) /\ item'[m][i] # "absent"
    <3>1. m = j /\ i \in (k + 1)..(k + n) /\ i > k
      BY <1>2, <1>3, <2>2
    <3> QED BY <1>6, <2>1, <3>1
  <2>3. Alone(m, i)' /\ (Somewhere(m, i)' => Somewhere(m, i) \/ FrameHas(thread'[c], m, i))
    BY <1>2, <1>4, <1>7, <2>1, <2>2, HolderNew
  <2> QED BY <1>7, <2>2, <2>3
<1>9. phase' # "starting"
  BY <1>2
<1> QED BY <1>7, <1>8, <1>9, CarrierFrom

\* One slice goes from the submitter to the queue.
LEMMA EnqueueShape ==
    ASSUME TypeOK, FrameInv, CarrierInv, NEW c \in Clients, EnqueueChunk(c)
    PROVE  \E m, fr :
              /\ m \in Messages
              /\ thread[c].pc = "enqueue" /\ queue' = Append(queue, m)
              /\ thread' = [thread EXCEPT ![c] = fr]
              /\ UNCHANGED <<job, item, schedule, phase, cursor, stranded>>
              /\ m.job = thread[c].job /\ ClientFrame(fr)
              /\ Set(m.idxs) \subseteq Set(thread[c].todo)
              /\ \/ /\ fr.pc = "enqueue" /\ fr.job = thread[c].job
                    /\ Set(thread[c].todo) = Set(m.idxs) \cup Set(fr.todo)
                    /\ Set(m.idxs) \cap Set(fr.todo) = {}
                 \/ /\ Set(thread[c].todo) = Set(m.idxs)
                    /\ \A j, i : ~FrameHas(fr, j, i)
<1> USE DEF tables, broker, server, history
<1> DEFINE f0 == thread[c]
           s == f0.todo
           a == Slice(s, 1)
           b == SubSeq(s, Len(a) + 1, Len(s))
           m == Message(f0.job, a)
           fr == AfterEnqueue([f0 EXCEPT !.todo = b])
<1>0. c \in Threads /\ f0 \in Frames /\ f0.job \in Jobs /\ s \in Seq(Idx) /\ ClientFrame(f0)
  BY ThreadsAreThreads, FrameType DEF TypeOK, CarrierInv
<1>1. /\ f0.pc = "enqueue" /\ queue' = Append(queue, m) /\ thread' = [thread EXCEPT ![c] = fr]
      /\ UNCHANGED <<job, item, schedule, phase, cursor, stranded>>
  BY DEF EnqueueChunk
<1>2. s # <<>> /\ IsInjective(s) /\ f0.msg = NoMessage
  BY <1>0, <1>1 DEF FrameInv, ClientFrame
<1>3. Len(s) > 0
  <2> HIDE DEF s
  <2> QED BY <1>0, <1>2
<1>4. /\ a \in Seq(Idx) /\ b \in Seq(Idx) /\ Set(s) = Set(a) \cup Set(b)
      /\ IsInjective(b) /\ Set(a) \cap Set(b) = {}
  <2> HIDE DEF s
  <2> QED BY <1>0, <1>2, <1>3, SliceSplits
<1> HIDE DEF a, b, s
<1>5. m \in Messages /\ m.job = f0.job /\ m.idxs = a
  BY <1>0, <1>4, BoundsAssumption DEF Message, Messages
<1>6. \/ b # <<>> /\ fr.pc = "enqueue" /\ fr.job = f0.job /\ fr.todo = b /\ fr.msg = NoMessage
      \/ b = <<>> /\ fr.pc = "claim" /\ fr.job = f0.job /\ fr.msg = NoMessage
      \/ b = <<>> /\ fr = Idle
  <2> HIDE DEF f0
  <2> QED BY <1>0, <1>2, <1>4, AfterEnqueueShape
<1>7. NoMessage.idxs = <<>> /\ Set(<<>>) = {}
  BY DEF NoMessage, Set
<1> HIDE DEF fr, m
<1>8. ClientFrame(fr)
  BY <1>4, <1>6, IdleFrame DEF ClientFrame
<1>9. CASE b # <<>>
  <2>1. fr.pc = "enqueue" /\ fr.job = f0.job /\ fr.todo = b
    BY <1>6, <1>9
  <2> QED BY <1>1, <1>4, <1>5, <1>8, <2>1 DEF s
<1>10. CASE b = <<>>
  <2>1. \A j, i : ~FrameHas(fr, j, i)
    BY <1>6, <1>7, <1>10, IdleFrame DEF FrameHas, CarriedBy
  <2>2. Set(s) = Set(a)
    BY <1>4, <1>7, <1>10
  <2> QED BY <1>1, <1>5, <1>8, <2>1, <2>2 DEF s
<1> QED BY <1>9, <1>10

LEMMA EnqueueCarrier ==
    ASSUME TypeOK, FrameInv, CarrierInv, TableStep, NEW c \in Clients, EnqueueChunk(c)
    PROVE  CarrierInv'
<1>1. PICK m, fr :
              /\ m \in Messages
              /\ thread[c].pc = "enqueue" /\ queue' = Append(queue, m)
              /\ thread' = [thread EXCEPT ![c] = fr]
              /\ UNCHANGED <<job, item, schedule, phase, cursor, stranded>>
              /\ m.job = thread[c].job /\ ClientFrame(fr)
              /\ Set(m.idxs) \subseteq Set(thread[c].todo)
              /\ \/ /\ fr.pc = "enqueue" /\ fr.job = thread[c].job
                    /\ Set(thread[c].todo) = Set(m.idxs) \cup Set(fr.todo)
                    /\ Set(m.idxs) \cap Set(fr.todo) = {}
                 \/ /\ Set(thread[c].todo) = Set(m.idxs)
                    /\ \A j, i : ~FrameHas(fr, j, i)
  BY EnqueueShape
<1>2. c \in Threads /\ c \notin Workers /\ queue \in Seq(Messages)
  BY ThreadsAreThreads, ThreadsAssumption DEF TypeOK
<1>3. /\ \A u \in Workers : WorkerFrame(thread'[u])
      /\ \A u \in Clients : ClientFrame(thread'[u])
      /\ thread'[c] = fr /\ \A u \in Threads \ {c} : thread'[u] = thread[u]
  BY <1>1, <1>2, OneFrame
<1>4. ASSUME NEW j \in Jobs, NEW i \in Idx PROVE Alone(j, i)' /\ (Somewhere(j, i)' => Somewhere(j, i))
  <2>1. /\ MessageHas(m, j, i) \/ FrameHas(fr, j, i) => FrameHas(thread[c], j, i)
        /\ ~(MessageHas(m, j, i) /\ FrameHas(fr, j, i))
    BY <1>1 DEF MessageHas, FrameHas, CarriedBy
  <2>2. Alone(j, i)
    BY DEF CarrierInv
  <2> QED BY <1>1, <1>2, <1>3, <2>1, <2>2, HolderEnqueues
<1>5. phase' # "starting"
  BY <1>1, <1>2, BusyIsUp
<1> QED BY <1>3, <1>4, <1>5, CarrierFrom

\* A worker takes the head of the queue.
LEMMA DequeueShape ==
    ASSUME TypeOK, NEW w \in Workers, Dequeue(w)
    PROVE  \E m, fr :
              /\ m \in Messages
              /\ queue # <<>> /\ m = Head(queue) /\ queue' = Tail(queue)
              /\ Set(queue) = {m} \cup Set(queue')
              /\ thread' = [thread EXCEPT ![w] = fr] /\ thread[w].pc = "idle"
              /\ UNCHANGED <<job, item, schedule, phase, cursor, stranded>>
              /\ phase \in {"up", "stopping"}
              /\ fr.pc = "check" /\ fr.job = m.job /\ fr.todo = m.idxs /\ fr.msg = m
<1> USE DEF tables, broker, server, history
<1> DEFINE m == Head(queue)
           fr == [Idle EXCEPT !.pc = "check", !.job = m.job, !.todo = m.idxs, !.msg = m]
<1>1. /\ queue # <<>> /\ queue' = Tail(queue) /\ thread' = [thread EXCEPT ![w] = fr]
      /\ thread[w].pc = "idle" /\ phase \in {"up", "stopping"}
      /\ UNCHANGED <<job, item, schedule, phase, cursor, stranded>>
  BY DEF Dequeue
<1>2. queue \in Seq(Messages)
  BY DEF TypeOK
<1>3. Set(queue) = {m} \cup Set(queue') /\ m \in Messages
  BY <1>1, <1>2, TailSet
<1>4. fr.pc = "check" /\ fr.job = m.job /\ fr.todo = m.idxs /\ fr.msg = m
  <2> HIDE DEF m
  <2> QED BY DEF Idle
<1> HIDE DEF fr
<1> QED BY <1>1, <1>3, <1>4

LEMMA DequeueCarrier ==
    ASSUME TypeOK, CarrierInv, TableStep, NEW w \in Workers, Dequeue(w)
    PROVE  CarrierInv'
<1>1. PICK m, fr :
              /\ m \in Messages
              /\ queue # <<>> /\ m = Head(queue) /\ queue' = Tail(queue)
              /\ thread' = [thread EXCEPT ![w] = fr]
              /\ UNCHANGED <<job, item, schedule, phase, cursor, stranded>>
              /\ phase \in {"up", "stopping"}
              /\ fr.pc = "check" /\ fr.job = m.job /\ fr.todo = m.idxs /\ fr.msg = m
  BY DequeueShape
<1>2. w \in Threads /\ w \notin Clients /\ queue \in Seq(Messages)
  BY ThreadsAreThreads, ThreadsAssumption DEF TypeOK
<1>3. WorkerFrame(fr) /\ \A j, i : FrameHas(fr, j, i) => MessageHas(m, j, i)
  BY <1>1 DEF WorkerFrame, FrameHas, CarriedBy, MessageHas
<1>4. /\ \A u \in Workers : WorkerFrame(thread'[u])
      /\ \A u \in Clients : ClientFrame(thread'[u])
      /\ thread'[w] = fr /\ \A u \in Threads \ {w} : thread'[u] = thread[u]
  BY <1>1, <1>2, <1>3, OneFrame
<1>5. ASSUME NEW j \in Jobs, NEW i \in Idx PROVE Alone(j, i)' /\ (Somewhere(j, i)' => Somewhere(j, i))
  <2>1. Alone(j, i)
    BY DEF CarrierInv
  <2> QED BY <1>1, <1>2, <1>3, <1>4, <2>1, HolderDequeues
<1>6. phase' # "starting"
  BY <1>1
<1> QED BY <1>4, <1>5, <1>6, CarrierFrom

\* A task that raised: it is scheduled again with the same items, or dropped.
LEMMA FaultShape ==
    ASSUME TypeOK, CarrierInv, NEW t \in Threads, Fault(t)
    PROVE  /\ thread' = [thread EXCEPT ![t] = Idle] /\ thread[t].pc \in FaultPoints
           /\ UNCHANGED <<job, item, queue, phase, cursor>>
           /\ \/ schedule' = schedule /\ stranded' = stranded \cup {thread[t].job}
              \/ /\ t \in Workers /\ thread[t].pc # "enqueue"
                 /\ stranded' = IF thread[t].pc = "complete" THEN stranded \cup {thread[t].job} ELSE stranded
                 /\ \E m : /\ schedule' = schedule \cup {m} /\ m.job = thread[t].job
                           /\ m.idxs = thread[t].msg.idxs
<1> USE DEF tables, broker, server, history
<1> DEFINE f0 == thread[t]
           m == [f0.msg EXCEPT !.retries = @ - 1]
<1>1. /\ thread' = [thread EXCEPT ![t] = Idle] /\ f0.pc \in FaultPoints
      /\ UNCHANGED <<job, item, queue, phase, cursor>>
      /\ schedule' = IF Retried(t) THEN schedule \cup {m} ELSE schedule
      /\ stranded' = IF Retried(t) /\ f0.pc # "complete" THEN stranded ELSE stranded \cup {f0.job}
  BY DEF Fault
<1>2. f0.msg \in Messages
  BY FrameType DEF TypeOK
<1>3. m.job = f0.msg.job /\ m.idxs = f0.msg.idxs
  <2>1. ASSUME NEW x \in Messages, NEW r
        PROVE  [x EXCEPT !.retries = r].job = x.job /\ [x EXCEPT !.retries = r].idxs = x.idxs
    BY DEF Messages
  <2> HIDE DEF f0
  <2> QED BY <1>2, <2>1
<1> HIDE DEF m
<1>4. CASE Retried(t)
  <2>1. t \in Workers /\ WorkerFrame(f0)
    BY <1>4 DEF Retried, CarrierInv
  <2> QED BY <1>1, <1>3, <1>4, <2>1 DEF WorkerFrame
<1>5. CASE ~Retried(t)
  BY <1>1, <1>5
<1> QED BY <1>4, <1>5

LEMMA FaultCarrier ==
    ASSUME TypeOK, FrameInv, CarrierInv, TableStep, NEW t \in Threads, Fault(t)
    PROVE  CarrierInv'
<1>1. /\ thread' = [thread EXCEPT ![t] = Idle] /\ thread[t].pc \in FaultPoints
      /\ UNCHANGED <<job, item, queue, phase, cursor>>
      /\ \/ schedule' = schedule
         \/ /\ thread[t].pc # "enqueue"
            /\ \E m : /\ schedule' = schedule \cup {m} /\ m.job = thread[t].job
                      /\ m.idxs = thread[t].msg.idxs
  BY FaultShape
<1>2. /\ \A u \in Workers : WorkerFrame(thread'[u])
      /\ \A u \in Clients : ClientFrame(thread'[u])
      /\ thread'[t] = Idle /\ \A u \in Threads \ {t} : thread'[u] = thread[u]
  BY <1>1, IdleFrame, OneFrame
<1>3. ASSUME NEW j \in Jobs, NEW i \in Idx PROVE Alone(j, i)' /\ (Somewhere(j, i)' => Somewhere(j, i))
  <2>1. Alone(j, i) /\ ~FrameHas(thread'[t], j, i)
    BY <1>2, IdleFrame DEF CarrierInv
  <2>2. CASE schedule' = schedule
    <3>1. \A u \in Threads : FrameHas(thread'[u], j, i) => FrameHas(thread[u], j, i)
      BY <1>2, <2>1
    <3> QED BY <1>1, <2>1, <2>2, <3>1, HoldersShrink
  <2>3. ASSUME NEW m, thread[t].pc # "enqueue", schedule' = schedule \cup {m}, m.job = thread[t].job,
               m.idxs = thread[t].msg.idxs
        PROVE  Alone(j, i)' /\ (Somewhere(j, i)' => Somewhere(j, i))
    <3>1. MessageHas(m, j, i) => FrameHas(thread[t], j, i)
      BY <2>3 DEF MessageHas, FrameHas, CarriedBy
    <3> QED BY <1>1, <1>2, <2>1, <2>3, <3>1, HolderDefers
  <2> QED BY <1>1, <2>2, <2>3
<1>4. phase' # "starting"
  BY <1>1, BusyIsUp, FaultPointsAssumption
<1> QED BY <1>2, <1>3, <1>4, CarrierFrom

LEMMA RescheduleCarrier ==
    ASSUME TypeOK, CarrierInv, TableStep, NEW m \in schedule, Reschedule(m)
    PROVE  CarrierInv'
<1> USE DEF tables, broker, server, history
<1>1. /\ queue' = Append(queue, m) /\ schedule' = schedule \ {m} /\ thread' = thread /\ phase' = "up"
      /\ queue \in Seq(Messages) /\ m \in Messages
  BY DEF Reschedule, TypeOK
<1>2. ASSUME NEW j \in Jobs, NEW i \in Idx PROVE Alone(j, i)' /\ (Somewhere(j, i)' => Somewhere(j, i))
  <2>1. Alone(j, i)
    BY DEF CarrierInv
  <2> QED BY <1>1, <2>1, HolderDue
<1>3. /\ \A u \in Workers : WorkerFrame(thread'[u])
      /\ \A u \in Clients : ClientFrame(thread'[u])
  BY <1>1 DEF CarrierInv
<1>4. phase' # "starting"
  BY <1>1
<1> QED BY <1>2, <1>3, <1>4, CarrierFrom

\* Steps that only drop messages, or empty every thread.
LEMMA CarrierShrinks ==
    ASSUME TypeOK, CarrierInv, TableStep,
           \A p \in DOMAIN queue' : p \in DOMAIN queue /\ queue'[p] = queue[p], schedule' \subseteq schedule,
           \/ thread' = thread
           \/ \A t \in Threads : thread'[t] = Idle,
           phase' = "starting" => schedule' = {} /\ \A p \in DOMAIN queue' : queue'[p].job < cursor'
    PROVE  CarrierInv'
<1>1. ASSUME NEW j \in Jobs, NEW i \in Idx PROVE Alone(j, i)' /\ (Somewhere(j, i)' => Somewhere(j, i))
  <2>1. Alone(j, i)
    BY DEF CarrierInv
  <2>2. \A t \in Threads : FrameHas(thread'[t], j, i) => FrameHas(thread[t], j, i)
    BY IdleFrame
  <2> QED BY <2>1, <2>2, HoldersShrink
<1>2. /\ \A u \in Workers : WorkerFrame(thread'[u])
      /\ \A u \in Clients : ClientFrame(thread'[u])
  BY IdleFrame, ThreadsAreThreads DEF CarrierInv
<1> QED BY <1>1, <1>2, CarrierFrom

\* _recover() sends each pending item of a job nobody holds any more.
LEMMA RecoverCarrier ==
    ASSUME TypeOK, FrameInv, CarrierInv, TableStep, RecoverJob
    PROVE  CarrierInv'
<1> USE DEF tables, broker, server, history
<1>1. PICK s \in PendingIdxs(cursor) : queue' = queue \o Recovered(cursor, s)
  BY DEF RecoverJob
<1>2. /\ phase = "starting" /\ cursor \in Jobs /\ cursor' = cursor + 1
      /\ UNCHANGED <<job, item, schedule, thread, phase>>
  BY DEF RecoverJob
<1> DEFINE ms == Recovered(cursor, s)
           n == Len(queue)
           k == Len(ms)
<1>3. /\ ms \in Seq(Messages) /\ \A x \in DOMAIN ms : ms[x].job = cursor
      /\ \A x \in DOMAIN ms, i \in Idx : MessageHas(ms[x], cursor, i) => i \in Pending(cursor)
      /\ \A x, y \in DOMAIN ms, i \in Idx :
            MessageHas(ms[x], cursor, i) /\ MessageHas(ms[y], cursor, i) => x = y
  BY <1>1, <1>2, RecoveredSplit
<1> HIDE DEF ms
<1>4. /\ schedule = {} /\ queue \in Seq(Messages) /\ cursor \in Nat
      /\ \A p \in DOMAIN queue : queue[p].job < cursor /\ queue[p] \in Messages
      /\ \A t \in Threads : thread[t] = Idle
  BY <1>2, BoundsAssumption DEF CarrierInv, FrameInv, TypeOK, Jobs
<1>5. ASSUME NEW j \in Jobs, NEW i \in Idx
      PROVE  Alone(j, i)' /\ (Somewhere(j, i)' => Somewhere(j, i) \/ item'[j][i] # "absent")
  <2>1. Alone(j, i) /\ \A t \in Threads : ~FrameHas(thread'[t], j, i)
    BY <1>2, <1>4, IdleFrame DEF CarrierInv
  <2>2. \A x \in DOMAIN ms : MessageHas(ms[x], j, i) => j = cursor /\ item[j][i] = "pending"
    BY <1>3 DEF MessageHas, Pending, ItemsIn
  <2>3. \A x, y \in DOMAIN ms : MessageHas(ms[x], j, i) /\ MessageHas(ms[y], j, i) => x = y
    BY <1>3, <2>2
  <2>4. \A x \in DOMAIN ms, p \in DOMAIN queue : ~(MessageHas(ms[x], j, i) /\ MessageHas(queue[p], j, i))
    BY <1>4, <2>2 DEF MessageHas
  <2>5. queue' = queue \o ms /\ schedule' = {}
    BY <1>1, <1>2, <1>4 DEF ms
  <2>6. Alone(j, i)' /\ (Somewhere(j, i)' => Somewhere(j, i) \/ \E x \in DOMAIN ms : MessageHas(ms[x], j, i))
    BY <1>3, <1>4, <2>1, <2>3, <2>4, <2>5, HolderRecovered
  <2> QED BY <1>2, <2>2, <2>6
<1>6. \A p \in DOMAIN queue' : queue'[p].job < cursor'
  <2>1. /\ n \in Nat /\ k \in Nat /\ DOMAIN queue = 1..n /\ DOMAIN ms = 1..k
    BY <1>3, <1>4
  <2>2. /\ DOMAIN queue' = 1..(n + k)
        /\ \A p \in 1..(n + k) : queue'[p] = IF p <= n THEN queue[p] ELSE ms[p - n]
    BY <1>1, <1>3, <1>4 DEF ms
  <2> HIDE DEF n, k
  <2>3. ASSUME NEW p \in 1..(n + k) PROVE queue'[p].job < cursor'
    <3>1. CASE p <= n
      <4>1. p \in DOMAIN queue /\ queue'[p] = queue[p]
        BY <2>1, <2>2, <3>1
      <4>2. queue[p].job \in Nat
        BY <1>4, <4>1, BoundsAssumption DEF Messages, Jobs
      <4> QED BY <1>2, <1>4, <4>1, <4>2
    <3>2. CASE ~(p <= n)
      <4>1. p - n \in DOMAIN ms /\ queue'[p] = ms[p - n]
        BY <2>1, <2>2, <3>2
      <4> QED BY <1>2, <1>3, <1>4, <4>1
    <3> QED BY <3>1, <3>2
  <2> QED BY <2>2, <2>3
<1>7. /\ \A u \in Workers : WorkerFrame(thread'[u])
      /\ \A u \in Clients : ClientFrame(thread'[u])
  BY <1>2 DEF CarrierInv
<1>8. schedule' = {}
  BY <1>2, <1>4
<1> QED BY <1>5, <1>6, <1>7, <1>8, CarrierFrom

LEMMA LifespanCarrier ==
    ASSUME TypeOK, FrameInv, CarrierInv, TableStep, Lifespan
    PROVE  CarrierInv'
<1> USE DEF tables, broker, server, history
<1>1. CASE Start
  <2>1. queue' = <<>> /\ schedule' = {} /\ thread' = thread
    BY <1>1 DEF Start
  <2>2. DOMAIN queue' = {}
    BY <2>1
  <2> QED BY <2>1, <2>2, CarrierShrinks
<1>2. CASE RecoverJob
  BY <1>2, RecoverCarrier
<1>3. CASE StartConsumer \/ Stop \/ StopEngine
  <2>1. queue' = queue /\ schedule' = schedule /\ thread' = thread /\ phase' # "starting"
    BY <1>3 DEF StartConsumer, Stop, StopEngine
  <2> QED BY <2>1, CarrierShrinks
<1>4. CASE Exit \/ Crash
  <2>1. /\ queue' = queue /\ schedule' = schedule /\ phase' # "starting"
        /\ \A t \in Threads : thread'[t] = Idle
    BY <1>4 DEF Exit, Crash
  <2> QED BY <2>1, CarrierShrinks
<1> QED BY <1>1, <1>2, <1>3, <1>4 DEF Lifespan

LEMMA CarrierStep ==
    TypeOK /\ FrameInv /\ SingleCompleter /\ RowsInv /\ CarrierInv /\ [Next]_vars => CarrierInv'
<1> SUFFICES ASSUME TypeOK, FrameInv, SingleCompleter, RowsInv, CarrierInv, [Next]_vars
             PROVE  CarrierInv'
  OBVIOUS
<1>1. TableStep /\ RowsGood
  BY NextTables DEF RowsInv
<1>2. CASE UNCHANGED vars
  BY <1>1, <1>2, CarrierShrinks DEF vars, CarrierInv
<1>3. ASSUME NEW j \in Jobs, Cancel(j) PROVE CarrierInv'
  <2>1. queue' = queue /\ schedule' = schedule /\ thread' = thread /\ phase' # "starting"
    BY <1>3 DEF Cancel, broker, server
  <2> QED BY <1>1, <2>1, CarrierShrinks
<1>4. CASE Next
  BY <1>1, <1>3, <1>4, RequestCarrier, EnqueueCarrier, DequeueCarrier, WorkCarrier,
     FinalizingCarrier, FaultCarrier, RescheduleCarrier, LifespanCarrier DEF Next
<1> QED BY <1>2, <1>4

LEMMA CarrierInit == Init => CarrierInv
<1> SUFFICES ASSUME Init PROVE CarrierInv
  OBVIOUS
<1>1. /\ DOMAIN queue = {} /\ schedule = {} /\ phase = "up" /\ \A t \in Threads : thread[t] = Idle
  BY DEF Init
<1>2. ASSUME NEW j \in Jobs, NEW i \in Idx PROVE Alone(j, i) /\ ~Somewhere(j, i)
  BY <1>1, IdleFrame DEF Alone, Somewhere
<1> QED BY <1>1, <1>2, IdleFrame, ThreadsAreThreads DEF CarrierInv

LEMMA CarrierCorrect == Spec => []CarrierInv
  BY FramesCorrect, OneCompleter, RowsCorrect, CarrierInit, CarrierStep, PTL DEF Spec

LEMMA CarrierMeaning == TypeOK /\ CarrierInv => OneCarrier
<1> SUFFICES ASSUME TypeOK, CarrierInv PROVE OneCarrier
  OBVIOUS
<1>1. \A t \in Threads : Carries(t) = CarriedBy(thread[t])
  BY DEF Carries, CarriedBy
<1>2. \A m \in Messages : m.job \in Jobs /\ m.idxs \in Seq(Idx)
  BY DEF Messages
<1>3. \A s \in Seq(Idx) : Set(s) \subseteq Idx
  BY DEF Set
<1>4. /\ \A p \in DOMAIN queue : queue[p] \in Messages
      /\ schedule \subseteq Messages /\ Set(queue) = {queue[p] : p \in DOMAIN queue}
  BY DEF TypeOK, Set
<1>5. \A t \in Threads : thread[t].job \in Jobs /\ Carries(t) \subseteq Idx
  <2> TAKE t \in Threads
  <2>1. thread[t].job \in Jobs /\ thread[t].todo \in Seq(Idx) /\ thread[t].msg \in Messages
    BY FrameType DEF TypeOK
  <2> QED BY <1>1, <1>2, <1>3, <2>1 DEF CarriedBy
<1>6. \A j \in Jobs, i \in Idx : Alone(j, i)
  BY DEF CarrierInv
<1>7. ASSUME NEW p \in DOMAIN queue, NEW q \in DOMAIN queue, p # q, queue[p].job = queue[q].job
      PROVE  Set(queue[p].idxs) \cap Set(queue[q].idxs) = {}
  BY <1>2, <1>3, <1>4, <1>6, <1>7 DEF Alone, MessageHas
<1>8. ASSUME NEW p \in DOMAIN queue, NEW m \in schedule, queue[p].job = m.job
      PROVE  Set(queue[p].idxs) \cap Set(m.idxs) = {}
  BY <1>2, <1>3, <1>4, <1>6, <1>8 DEF Alone, MessageHas
<1>9. ASSUME NEW m \in schedule, NEW n \in schedule, m # n, m.job = n.job
      PROVE  Set(m.idxs) \cap Set(n.idxs) = {}
  BY <1>2, <1>3, <1>4, <1>6, <1>9 DEF Alone, MessageHas
<1>10. ASSUME NEW t \in Threads, NEW u \in Threads, t # u, thread[t].job = thread[u].job
       PROVE  Carries(t) \cap Carries(u) = {}
  BY <1>1, <1>5, <1>6, <1>10 DEF Alone, FrameHas
<1>11. ASSUME NEW t \in Threads, NEW m \in schedule \cup Set(queue), thread[t].job = m.job
       PROVE  Carries(t) \cap Set(m.idxs) = {}
  <2>1. CASE m \in schedule
    BY <1>1, <1>5, <1>6, <1>11, <2>1 DEF Alone, FrameHas, MessageHas
  <2>2. CASE m \in Set(queue)
    <3>1. PICK p \in DOMAIN queue : m = queue[p]
      BY <1>4, <2>2
    <3> QED BY <1>1, <1>5, <1>6, <1>11, <3>1 DEF Alone, FrameHas, MessageHas
  <2> QED BY <2>1, <2>2
<1> QED BY <1>7, <1>8, <1>9, <1>10, <1>11 DEF OneCarrier

\* No item is ever in two messages or threads, so no two workers predict the
\* same item, whatever retries, appends, crashes and recoveries happened
\* (_enqueue, Huey's retries, start's flush and _recover).
THEOREM ItemsHaveOneCarrier == Spec => []OneCarrier
  BY TypeCorrect, CarrierCorrect, CarrierMeaning, PTL

----------------------------------------------------------------------------
(* No work is forgotten.                                                   *)

\* Nobody who works for the job is lost: whoever held one of its items, would
\* have claimed it or was completing it has handed that on.
HandsOn(m) ==
    /\ \A i \in Pending(m)' : Sent(m, i) \/ (\E t \in Threads : InHand(thread[t], m, i)) =>
          Sent(m, i)' \/ \E t \in Threads : InHand(thread'[t], m, i)
    /\ HasMessage(m) \/ (\E t \in Threads : Trying(thread[t], m)) =>
          HasMessage(m)' \/ \E t \in Threads : Trying(thread'[t], m)
    /\ (\E t \in Threads : Finishing(thread[t], m)) => \E t \in Threads : Finishing(thread'[t], m)

\* What a step may do to the row of a job it does not add items to.
Calm(m) ==
    IsActive(m)' => /\ IsActive(m) /\ Pending(m)' \subseteq Pending(m)
                    /\ job'[m].finalized = job[m].finalized /\ job'[m].finished = job[m].finished

LEMMA CoveredKept ==
    ASSUME NEW m \in Jobs, Covered(m), Calm(m), HandsOn(m)
    PROVE  Covered(m)'
<1> SUFFICES ASSUME IsActive(m)'
             PROVE  /\ \A i \in Pending(m)' : Sent(m, i)' \/ \E t \in Threads : InHand(thread'[t], m, i)
                    /\ job'[m].finalized /\ ~job'[m].finished =>
                          HasMessage(m)' \/ \E t \in Threads : Trying(thread'[t], m)
                    /\ job'[m].finished => \E t \in Threads : Finishing(thread'[t], m)
  BY DEF Covered, InHand, Trying, Finishing
<1>1. /\ IsActive(m) /\ Pending(m)' \subseteq Pending(m)
      /\ job'[m].finalized = job[m].finalized /\ job'[m].finished = job[m].finished
  BY DEF Calm
<1>2. /\ \A i \in Pending(m) : Sent(m, i) \/ \E t \in Threads : InHand(thread[t], m, i)
      /\ job[m].finalized /\ ~job[m].finished => HasMessage(m) \/ \E t \in Threads : Trying(thread[t], m)
      /\ job[m].finished => \E t \in Threads : Finishing(thread[t], m)
  BY <1>1 DEF Covered
<1> QED BY <1>1, <1>2 DEF HandsOn

\* A row that did not change is calm.
LEMMA SameRow ==
    ASSUME NEW m \in Jobs, job'[m] = job[m], item'[m] = item[m]
    PROVE  Calm(m) /\ Pending(m)' = Pending(m)
  BY DEF Calm, IsActive, Pending, ItemsIn

\* The messages stay, and only thread t changes, which does nothing for job m
\* that its next frame does not do.
LEMMA HandsOnThread ==
    ASSUME NEW m \in Jobs, NEW t \in Threads,
           schedule \cup Set(queue) \subseteq schedule' \cup Set(queue'),
           \A u \in Threads \ {t} : thread'[u] = thread[u],
           \A i \in Pending(m)' : InHand(thread[t], m, i) =>
               InHand(thread'[t], m, i) \/ \E x \in schedule' \cup Set(queue') : MessageHas(x, m, i),
           Trying(thread[t], m) =>
               Trying(thread'[t], m) \/ \E x \in schedule' \cup Set(queue') : x.job = m,
           Finishing(thread[t], m) => Finishing(thread'[t], m)
    PROVE  HandsOn(m)
<1> DEFINE M == schedule \cup Set(queue)
           M2 == schedule' \cup Set(queue')
<1>1. /\ \A i : Sent(m, i) <=> \E x \in M : MessageHas(x, m, i)
      /\ HasMessage(m) <=> \E x \in M : x.job = m
  BY DEF Sent, HasMessage
<1>2. /\ \A i : Sent(m, i)' <=> \E x \in M2 : MessageHas(x, m, i)
      /\ HasMessage(m)' <=> \E x \in M2 : x.job = m
  BY DEF Sent, HasMessage, MessageHas, Set
<1> HIDE DEF M, M2
<1>3. M \subseteq M2
  BY DEF M, M2
<1>4. /\ \A i \in Pending(m)' : InHand(thread[t], m, i) =>
            InHand(thread'[t], m, i) \/ \E x \in M2 : MessageHas(x, m, i)
      /\ Trying(thread[t], m) => Trying(thread'[t], m) \/ \E x \in M2 : x.job = m
  BY DEF M2
<1>5. ASSUME NEW i \in Pending(m)', Sent(m, i) \/ \E u \in Threads : InHand(thread[u], m, i)
      PROVE  Sent(m, i)' \/ \E u \in Threads : InHand(thread'[u], m, i)
  <2>1. CASE Sent(m, i)
    BY <1>1, <1>2, <1>3, <2>1
  <2>2. ASSUME NEW u \in Threads, InHand(thread[u], m, i)
        PROVE  Sent(m, i)' \/ \E v \in Threads : InHand(thread'[v], m, i)
    <3>1. CASE u = t
      BY <1>2, <1>4, <2>2, <3>1
    <3>2. CASE u # t
      <4>1. InHand(thread'[u], m, i)
        BY <2>2, <3>2
      <4> QED BY <4>1
    <3> QED BY <3>1, <3>2
  <2> QED BY <1>5, <2>1, <2>2
<1>6. ASSUME HasMessage(m) \/ \E u \in Threads : Trying(thread[u], m)
      PROVE  HasMessage(m)' \/ \E u \in Threads : Trying(thread'[u], m)
  <2>1. CASE HasMessage(m)
    BY <1>1, <1>2, <1>3, <2>1
  <2>2. ASSUME NEW u \in Threads, Trying(thread[u], m)
        PROVE  HasMessage(m)' \/ \E v \in Threads : Trying(thread'[v], m)
    <3>1. CASE u = t
      BY <1>2, <1>4, <2>2, <3>1
    <3>2. CASE u # t
      <4>1. Trying(thread'[u], m)
        BY <2>2, <3>2
      <4> QED BY <4>1
    <3> QED BY <3>1, <3>2
  <2> QED BY <1>6, <2>1, <2>2
<1>7. ASSUME NEW u \in Threads, Finishing(thread[u], m)
      PROVE  \E v \in Threads : Finishing(thread'[v], m)
  <2>1. Finishing(thread'[u], m)
    BY <1>7
  <2> QED BY <2>1
<1> QED BY <1>5, <1>6, <1>7 DEF HandsOn

AllCovered == \A j \in Jobs \ stranded : Covered(j)

\* A thread does nothing for a job that is not its own, nor does an idle one.
LEMMA NotMine ==
    ASSUME NEW fr, NEW m, fr.job # m \/ fr.pc = "idle"
    PROVE  ~Trying(fr, m) /\ ~Finishing(fr, m) /\ \A i : ~InHand(fr, m, i)
  BY DEF Trying, Finishing, InHand, Processing, Completing

LEMMA MovesThread ==
    ASSUME TypeOK, NEW t \in Threads, NEW fr, Moves(t, fr)
    PROVE  /\ thread'[t] = fr /\ \A u \in Threads \ {t} : thread'[u] = thread[u]
           /\ queue' = queue /\ schedule' = schedule /\ stranded' = stranded /\ phase' = phase
           /\ schedule \cup Set(queue) \subseteq schedule' \cup Set(queue')
  BY DEF Moves, TypeOK

LEMMA WorkCovered ==
    ASSUME TypeOK, FrameInv, AllCovered, phase = "up", NEW w \in Workers, Work(w)
    PROVE  AllCovered'
<1> DEFINE f0 == thread[w]
<1>1. PICK fr : /\ Moves(w, fr) /\ f0.pc \in Processing /\ KeepsFlags
                /\ \/ fr = Idle /\ (~IsActive(f0.job) \/ Stopping)
                   \/ Onward(f0, fr)
  BY WorkShape
<1>2. w \in Threads /\ ~Stopping
  BY ThreadsAreThreads DEF Stopping
<1>3. /\ thread'[w] = fr /\ \A u \in Threads \ {w} : thread'[u] = thread[u]
      /\ stranded' = stranded /\ schedule \cup Set(queue) \subseteq schedule' \cup Set(queue')
  BY <1>1, <1>2, MovesThread
<1>4. ASSUME NEW m \in Jobs \ stranded', IsActive(m)' PROVE Covered(m)'
  <2>1. Covered(m) /\ Calm(m) /\ IsActive(m)
    BY <1>1, <1>3, <1>4 DEF AllCovered, KeepsFlags, Calm
  <2>2. ~Finishing(f0, m)
    BY <1>1 DEF Finishing, Completing, Processing
  <2>3. CASE f0.job # m
    <3>1. ~Trying(f0, m) /\ \A i : ~InHand(f0, m, i)
      BY <2>3, NotMine
    <3>2. HandsOn(m)
      BY <1>2, <1>3, <2>2, <3>1, HandsOnThread
    <3> QED BY <2>1, <3>2, CoveredKept
  <2>4. CASE f0.job = m
    <3>1. Onward(f0, fr)
      BY <1>1, <1>2, <2>1, <2>4
    <3>2. Trying(fr, m)
      BY <2>4, <3>1 DEF Onward, Trying
    <3>3. ASSUME NEW i \in Pending(m)', InHand(f0, m, i) PROVE InHand(fr, m, i)
      <4>1. item'[m][i] = "pending"
        BY DEF Pending, ItemsIn
      <4>2. i \in Set(fr.todo)
        BY <2>4, <3>1, <3>3, <4>1 DEF Onward, InHand
      <4>3. fr.pc # "claim"
        BY <3>1, <4>2 DEF Onward, Set
      <4> QED BY <2>4, <3>1, <4>2, <4>3 DEF Onward, InHand
    <3>4. HandsOn(m)
      BY <1>2, <1>3, <2>2, <3>2, <3>3, HandsOnThread
    <3> QED BY <2>1, <3>4, CoveredKept
  <2> QED BY <2>3, <2>4
<1>5. ASSUME NEW m \in Jobs \ stranded', ~IsActive(m)' PROVE Covered(m)'
  BY <1>5 DEF Covered
<1> QED BY <1>4, <1>5 DEF AllCovered

\* What _maybe_complete does to the row of its job.
LEMMA FinalizingRows ==
    ASSUME TypeOK, SingleCompleter, NEW t \in Threads, Finalizing(t)
    PROVE  LET j == thread[t].job
           IN  /\ item' = item /\ \A m \in Jobs \ {j} : job'[m] = job[m]
               /\ \E fr : /\ Moves(t, fr)
                          /\ \/ fr = Idle /\ thread[t].pc = "claim" /\ ~Claimable(j) /\ job' = job
                             \/ fr = Idle /\ job'[j].status \notin Active
                             \/ Finishing(fr, j) /\ Held(job'[j])
<1> USE DEF tables, broker, server, history
<1> DEFINE f0 == thread[t]
           j == f0.job
           f2 == [f0 EXCEPT !.pc = "complete", !.got = "hook error"]
<1>0. f0 \in Frames /\ j \in Jobs /\ job[j] \in Rows
  BY FrameType, Tables DEF TypeOK
<1>1. \A pc \in Completing : Finishing([f0 EXCEPT !.pc = pc], j)
  <2> HIDE DEF f0
  <2> QED BY <1>0, FrameFields DEF Finishing, j
<1>2. Finishing(f2, j)
  <2> HIDE DEF f0
  <2> QED BY <1>0, FrameFields DEF Finishing, Completing, j
<1>3. ASSUME NEW r2, job' = [job EXCEPT ![j] = r2]
      PROVE  job'[j] = r2 /\ \A m \in Jobs \ {j} : job'[m] = job[m]
  BY <1>0, <1>3, Tables
<1>4. CASE Claim(t)
  <2>0. f0.pc = "claim" /\ item' = item
    BY <1>4 DEF Claim
  <2>1. CASE ~Claimable(j)
    BY <1>4, <2>0, <2>1 DEF Claim, Moves
  <2>2. CASE Claimable(j) /\ AllFailed(j)
    <3> DEFINE r2 == [job[j] EXCEPT !.finished = TRUE, !.status = "failed", !.error = TRUE]
    <3>1. Moves(t, Idle) /\ job' = [job EXCEPT ![j] = r2]
      BY <1>4, <2>2 DEF Claim, Moves
    <3>2. r2.status = "failed"
      BY <1>0 DEF Rows
    <3> HIDE DEF r2
    <3> QED BY <1>3, <2>0, <3>1, <3>2 DEF Active
  <2>3. CASE Claimable(j) /\ ~AllFailed(j)
    <3> DEFINE r2 == [job[j] EXCEPT !.finished = TRUE]
    <3>1. Moves(t, [f0 EXCEPT !.pc = "hooks"]) /\ job' = [job EXCEPT ![j] = r2]
      BY <1>4, <2>3 DEF Claim, Moves
    <3>2. Held(r2)
      BY <1>0, <2>3 DEF Rows, Held, Claimable, IsActive
    <3> HIDE DEF r2
    <3>3. Finishing([f0 EXCEPT !.pc = "hooks"], j)
      BY <1>1 DEF Completing
    <3> QED BY <1>3, <2>0, <3>1, <3>2, <3>3
  <2> QED BY <2>1, <2>2, <2>3
<1>5. ASSUME f0.pc \in Completing PROVE Held(job[j])
  BY <1>5 DEF SingleCompleter, Held, IsActive
<1>6. CASE HooksReturn(t)
  <2> DEFINE b == (job[j].kind = "evaluate") \/ job[j].ref
             r2 == [job[j] EXCEPT !.ref = b]
  <2>1. /\ f0.pc = "hooks" /\ item' = item /\ Moves(t, [f0 EXCEPT !.pc = "complete"])
        /\ job' = [job EXCEPT ![j] = r2]
    BY <1>6 DEF HooksReturn, Moves
  <2> HIDE DEF b
  <2>2. Held(r2)
    <3>1. r2.status = job[j].status /\ r2.finished = job[j].finished
      BY <1>0 DEF Rows
    <3> QED BY <1>5, <2>1, <3>1 DEF Completing, Held
  <2> HIDE DEF r2
  <2>3. Finishing([f0 EXCEPT !.pc = "complete"], j)
    BY <1>1 DEF Completing
  <2> QED BY <1>3, <2>1, <2>2, <2>3
<1>7. CASE HooksRaise(t)
  <2>1. f0.pc = "hooks" /\ job' = job /\ item' = item /\ Moves(t, f2)
    BY <1>7 DEF HooksRaise, Moves
  <2> HIDE DEF f2
  <2> QED BY <1>2, <1>5, <2>1 DEF Completing
<1>8. CASE Complete(t)
  <2> DEFINE b == (f0.got = "hook error") \/ job[j].error
             r2 == [job[j] EXCEPT !.status = "completed", !.error = b]
  <2>0. f0.pc = "complete" /\ IsActive(j)
    BY <1>8 DEF Complete, SingleCompleter, Completing
  <2>1. /\ item' = item /\ Moves(t, Idle) /\ job' = [job EXCEPT ![j] = r2]
    BY <1>8, <2>0 DEF Complete, Moves
  <2> HIDE DEF b
  <2>2. r2.status = "completed"
    BY <1>0 DEF Rows
  <2> HIDE DEF r2
  <2> QED BY <1>3, <2>1, <2>2 DEF Active
<1> QED BY <1>4, <1>6, <1>7, <1>8 DEF Finalizing

\* No item of an active job is cancelled.
OpenItems == \A j \in Jobs : IsActive(j) => \A i \in Idx : item[j][i] # "cancelled"

LEMMA OpenStep ==
    ASSUME TypeOK, RowsGood, TableStep, OpenItems
    PROVE  OpenItems'
<1> SUFFICES ASSUME NEW m \in Jobs, job'[m].status \in Active, NEW i \in Idx
             PROVE  item'[m][i] # "cancelled"
  BY DEF OpenItems, IsActive
<1>0. /\ job[m] \in Rows /\ item[m] \in Items /\ RowGood(job[m], item[m])
      /\ job[m].status \in Active => item[m][i] # "cancelled"
  BY Tables DEF RowsGood, OpenItems, IsActive
<1>1. CASE Rests
  BY <1>0, <1>1 DEF Rests, Quiet
<1>2. ASSUME NEW j \in Jobs, Others(j), j = m => item'[m][i] # "cancelled" PROVE item'[m][i] # "cancelled"
  BY <1>0, <1>2 DEF Others
<1>3. ASSUME NEW j \in Jobs, NEW n \in 0..MaxItems, Adds(j, n) PROVE item'[m][i] # "cancelled"
  <2>1. ASSUME job[m].status = "absent" PROVE item[m][i] # "cancelled"
    <3>1. job[m].total = 0 /\ i \notin 1..0
      BY <1>0, <2>1 DEF RowGood
    <3>2. item[m][i] = "absent"
      BY <1>0, <3>1, CountersSpeak DEF RowGood
    <3> QED BY <3>2
  <2> QED BY <1>0, <1>2, <1>3, <2>1 DEF Adds
<1>4. ASSUME NEW j \in Jobs, NEW k \in Idx, NEW got \in {"done", "failed"}, Answers(j, k, got)
      PROVE  item'[m][i] # "cancelled"
  <2>1. item[m][i] # "cancelled" => [item[m] EXCEPT ![k] = got][i] # "cancelled"
    BY <1>0 DEF Items
  <2> QED BY <1>0, <1>2, <1>4, <2>1 DEF Answers
<1>5. ASSUME NEW j \in Jobs, Cancels(j) PROVE item'[m][i] # "cancelled"
  BY <1>2, <1>5 DEF Cancels, Active
<1>6. ASSUME NEW j \in Jobs, Ends(j) PROVE item'[m][i] # "cancelled"
  BY <1>2, <1>6 DEF Ends, Ended, Active
<1> QED BY <1>1, <1>3, <1>4, <1>5, <1>6 DEF TableStep

\* The claim can be left undone only while an item is pending, and whoever has
\* that item will try again.
LEMMA FinalizingCovered ==
    ASSUME TypeOK, TypeOK', SingleCompleter, RowsGood, RowsGood', OpenItems, AllCovered,
           NEW t \in Threads, Finalizing(t)
    PROVE  AllCovered'
<1> DEFINE f0 == thread[t]
<1>j. PICK j \in Jobs : j = f0.job
  BY FrameType DEF TypeOK
<1>0. j \in Jobs /\ f0.pc \in Completing \cup {"claim"}
  BY FinalizingShape
<1>1. /\ item' = item /\ \A m \in Jobs \ {j} : job'[m] = job[m]
      /\ \E fr : /\ Moves(t, fr)
                 /\ \/ fr = Idle /\ f0.pc = "claim" /\ ~Claimable(j) /\ job' = job
                    \/ fr = Idle /\ job'[j].status \notin Active
                    \/ Finishing(fr, j) /\ Held(job'[j])
  BY <1>j, FinalizingRows
<1>2. PICK fr : /\ Moves(t, fr)
                /\ \/ fr = Idle /\ f0.pc = "claim" /\ ~Claimable(j) /\ job' = job
                   \/ fr = Idle /\ job'[j].status \notin Active
                   \/ Finishing(fr, j) /\ Held(job'[j])
  BY <1>1
<1>3. /\ thread'[t] = fr /\ \A u \in Threads \ {t} : thread'[u] = thread[u]
      /\ queue' = queue /\ schedule' = schedule
      /\ stranded' = stranded /\ schedule \cup Set(queue) \subseteq schedule' \cup Set(queue')
  BY <1>2, MovesThread
<1>4. ASSUME NEW m \in Jobs \ stranded', m # j PROVE Covered(m)'
  <2>1. Covered(m) /\ Calm(m)
    BY <1>1, <1>3, <1>4, SameRow DEF AllCovered
  <2>2. ~Trying(f0, m) /\ ~Finishing(f0, m) /\ \A i : ~InHand(f0, m, i)
    BY <1>j, <1>4, NotMine
  <2>3. HandsOn(m)
    BY <1>3, <2>2, HandsOnThread
  <2> QED BY <2>1, <2>3, CoveredKept
<1>5. ASSUME job'[j].status \notin Active
      PROVE  Covered(j)'
  BY <1>0, <1>5 DEF Covered, IsActive
<1>6. ASSUME Finishing(fr, j) /\ Held(job'[j])
      PROVE  Covered(j)'
  <2>1. Pending(j)' = {}
    <3>1. job'[j] \in Rows /\ item'[j] \in Items /\ RowGood(job'[j], item'[j])
      BY <1>0, Tables DEF RowsGood, TypeOK, Items, Statuses
    <3>2. \A i \in Idx : item'[j][i] # "pending"
      BY <1>6, <3>1, PendingIsOpen
    <3> QED BY <3>2 DEF Pending, ItemsIn
  <2>2. Finishing(thread'[t], j) /\ job'[j].finished
    BY <1>3, <1>6 DEF Held
  <2>3. \E u \in Threads : Finishing(thread[u], j)'
    BY <2>2 DEF Finishing
  <2> QED BY <2>1, <2>2, <2>3 DEF Covered
<1>7. ASSUME /\ fr = Idle /\ f0.pc = "claim" /\ ~Claimable(j) /\ job' = job 
             /\ j \notin stranded /\ IsActive(j)
      PROVE  Covered(j)'
  <2>1. /\ \A i \in Pending(j) : Sent(j, i) \/ \E u \in Threads : InHand(thread[u], j, i)
        /\ job[j].finished => \E u \in Threads : Finishing(thread[u], j)
    BY <1>0, <1>7 DEF AllCovered, Covered
  <2>2. ~Finishing(f0, j) /\ \A i : ~InHand(f0, j, i)
    BY <1>7 DEF Finishing, InHand, Completing, Processing
  <2>3. Pending(j)' = Pending(j) /\ (IsActive(j)' <=> IsActive(j)) /\ job'[j] = job[j]
    BY <1>1, <1>7 DEF Pending, ItemsIn, IsActive
  <2>4. /\ \A i : Sent(j, i)' <=> Sent(j, i)
        /\ HasMessage(j)' <=> HasMessage(j)
    BY <1>3 DEF Sent, HasMessage, Set
  <2>5. ASSUME NEW i \in Pending(j) PROVE Sent(j, i) \/ \E u \in Threads : InHand(thread'[u], j, i)
    BY <1>3, <2>1, <2>2
  <2>6. ASSUME job[j].finalized, ~job[j].finished
        PROVE  HasMessage(j) \/ \E u \in Threads : Trying(thread'[u], j)
    <3>1. PICK i \in Idx : item[j][i] = "pending"
      <4>1. job[j] \in Rows /\ item[j] \in Items /\ RowGood(job[j], item[j])
        BY <1>0, Tables DEF RowsGood
      <4>2. ~(job[j].done >= job[j].total)
        BY <1>7, <2>6 DEF Claimable
      <4>3. PICK i \in 1..job[j].total : item[j][i] \notin Processed
        BY <4>1, <4>2, CountersSpeak DEF RowGood
      <4>4. i \in Idx /\ item[j][i] \in Statuses /\ item[j][i] # "absent"
        <5>1. i \in Idx
          BY <4>1, BoundsAssumption DEF Rows, Idx
        <5> QED BY <4>1, <5>1, CountersSpeak DEF RowGood, Items
      <4>5. item[j][i] # "cancelled"
        BY <1>7, <4>4 DEF OpenItems
      <4> QED BY <4>3, <4>4, <4>5 DEF Statuses
    <3>2. i \in Pending(j)
      BY <3>1 DEF Pending, ItemsIn
    <3>3. Sent(j, i) \/ \E u \in Threads : InHand(thread'[u], j, i)
      BY <2>5, <3>2
    <3>4. Sent(j, i) => HasMessage(j)
      BY DEF Sent, HasMessage, MessageHas
    <3>5. \A u \in Threads : InHand(thread'[u], j, i) => Trying(thread'[u], j)
      BY DEF InHand, Trying
    <3> QED BY <3>3, <3>4, <3>5
  <2>7. job[j].finished => \E u \in Threads : Finishing(thread'[u], j)
    BY <1>3, <2>1, <2>2
  <2> QED BY <2>3, <2>4, <2>5, <2>6, <2>7 DEF Covered, InHand, Trying, Finishing
<1>8. ASSUME fr = Idle /\ f0.pc = "claim" /\ job' = job /\ ~IsActive(j)
      PROVE  Covered(j)'
  BY <1>8 DEF Covered, IsActive
<1>9. j \in Jobs \ stranded' => Covered(j)'
  BY <1>2, <1>3, <1>5, <1>6, <1>7, <1>8
<1> QED BY <1>4, <1>9 DEF AllCovered

\* The submitter of the new items has them in hand, and will try to claim what
\* it finalized.
LEMMA RequestCovered ==
    ASSUME TypeOK, RowsGood, AllCovered, NEW c \in Clients, Request(c)
    PROVE  AllCovered'
<1>1. PICK j \in Jobs, n \in Nat, fin \in BOOLEAN :
         LET k == job[j].total
         IN  /\ k \in Nat /\ k + n <= MaxItems
             /\ Moves(c, Submitting(j, k, n, fin)) /\ thread[c].pc = "idle"
             /\ Others(j) /\ ~job'[j].finished /\ job'[j].finalized = fin
             /\ job[j].status = "absent" \/ (IsActive(j) /\ ~job[j].finished)
             /\ item'[j] = [i \in Idx |-> IF i \in (k + 1)..(k + n) THEN "pending" ELSE item[j][i]]
             /\ job[j].status = "absent" => \A i \in Idx : item[j][i] = "absent"
  BY RequestShape
<1>k. PICK k \in Nat : k = job[j].total
  BY <1>1
<1>f. PICK fr : fr = Submitting(j, k, n, fin)
  OBVIOUS
<1>2. /\ k + n <= MaxItems /\ Moves(c, fr) /\ thread[c].pc = "idle"
      /\ Others(j) /\ ~job'[j].finished /\ job'[j].finalized = fin
      /\ job[j].status = "absent" \/ (IsActive(j) /\ ~job[j].finished)
      /\ item'[j] = [i \in Idx |-> IF i \in (k + 1)..(k + n) THEN "pending" ELSE item[j][i]]
      /\ job[j].status = "absent" => \A i \in Idx : item[j][i] = "absent"
  BY <1>1, <1>k, <1>f
<1>3. /\ n > 0 => fr.pc = "enqueue" /\ fr.job = j /\ Set(fr.todo) = (k + 1)..(k + n)
      /\ n = 0 /\ fin => fr.pc = "claim" /\ fr.job = j
  BY <1>2, <1>f, SubmittingShape
<1>4. c \in Threads
  BY ThreadsAreThreads
<1>5. /\ thread'[c] = fr /\ \A u \in Threads \ {c} : thread'[u] = thread[u]
      /\ queue' = queue /\ schedule' = schedule
      /\ stranded' = stranded /\ schedule \cup Set(queue) \subseteq schedule' \cup Set(queue')
  BY <1>2, <1>4, MovesThread
<1>6. \A m : ~Trying(thread[c], m) /\ ~Finishing(thread[c], m) /\ \A i : ~InHand(thread[c], m, i)
  BY <1>2, NotMine
<1>7. ASSUME NEW m \in Jobs \ stranded', m # j PROVE Covered(m)'
  <2>1. Covered(m) /\ Calm(m)
    BY <1>2, <1>5, <1>7, SameRow DEF AllCovered, Others
  <2>2. HandsOn(m)
    BY <1>4, <1>5, <1>6, HandsOnThread
  <2> QED BY <2>1, <2>2, CoveredKept
<1>8. ASSUME j \notin stranded' PROVE Covered(j)'
  <2>1. HandsOn(j) /\ Covered(j)
    BY <1>4, <1>5, <1>6, <1>8, HandsOnThread DEF AllCovered
  <2>2. ASSUME NEW i \in Pending(j)' PROVE Sent(j, i)' \/ \E t \in Threads : InHand(thread'[t], j, i)
    <3>1. i \in Idx /\ item'[j][i] = "pending"
      BY DEF Pending, ItemsIn
    <3>2. CASE i \in (k + 1)..(k + n)
      <4>1. n > 0
        BY <3>2
      <4>2. InHand(fr, j, i)
        BY <1>3, <3>2, <4>1 DEF InHand
      <4> QED BY <1>4, <1>5, <4>2
    <3>3. CASE i \notin (k + 1)..(k + n)
      <4>1. item[j][i] = "pending"
        BY <1>2, <3>1, <3>3
      <4>2. IsActive(j) /\ i \in Pending(j)
        BY <1>2, <3>1, <4>1 DEF Pending, ItemsIn
      <4>3. Sent(j, i) \/ \E t \in Threads : InHand(thread[t], j, i)
        BY <2>1, <4>2 DEF Covered
      <4> QED BY <2>1, <4>3 DEF HandsOn
    <3> QED BY <3>2, <3>3
  <2>3. ASSUME fin PROVE \E t \in Threads : Trying(thread'[t], j)
    <3>1. Trying(fr, j)
      BY <1>3, <2>3 DEF Trying
    <3> QED BY <1>4, <1>5, <3>1
  <2> QED BY <1>2, <2>2, <2>3 DEF Covered, InHand, Trying
<1> QED BY <1>7, <1>8 DEF AllCovered

\* The messages of a queue that got one more.
LEMMA AppendSet ==
    ASSUME NEW S, NEW q \in Seq(S), NEW m \in S
    PROVE  Set(Append(q, m)) = Set(q) \cup {m}
<1> DEFINE n == Len(q)
           a == Append(q, m)
<1>1. /\ n \in Nat /\ DOMAIN q = 1..n /\ DOMAIN a = 1..(n + 1)
      /\ a[n + 1] = m /\ \A p \in 1..n : a[p] = q[p]
  OBVIOUS
<1> HIDE DEF n, a
<1>2. 1..(n + 1) = 1..n \cup {n + 1}
  BY <1>1
<1>3. \A x \in Set(a) : x \in Set(q) \cup {m}
  BY <1>1, <1>2 DEF Set
<1>4. \A x \in Set(q) : x \in Set(a)
  BY <1>1, <1>2 DEF Set
<1>5. m \in Set(a)
  BY <1>1, <1>2 DEF Set
<1> QED BY <1>3, <1>4, <1>5 DEF a

LEMMA EnqueueCovered ==
    ASSUME TypeOK, FrameInv, CarrierInv, AllCovered, NEW c \in Clients, EnqueueChunk(c)
    PROVE  AllCovered'
<1>1. PICK m, fr :
              /\ m \in Messages
              /\ thread[c].pc = "enqueue" /\ queue' = Append(queue, m)
              /\ thread' = [thread EXCEPT ![c] = fr]
              /\ UNCHANGED <<job, item, schedule, phase, cursor, stranded>>
              /\ m.job = thread[c].job
              /\ \/ /\ fr.pc = "enqueue" /\ fr.job = thread[c].job
                    /\ Set(thread[c].todo) = Set(m.idxs) \cup Set(fr.todo)
                 \/ Set(thread[c].todo) = Set(m.idxs)
  BY EnqueueShape
<1>2. /\ c \in Threads /\ thread'[c] = fr /\ \A u \in Threads \ {c} : thread'[u] = thread[u]
  BY <1>1, ThreadsAreThreads DEF TypeOK
<1>3. Set(queue') = Set(queue) \cup {m}
  BY <1>1, AppendSet DEF TypeOK
<1>4. schedule \cup Set(queue) \subseteq schedule' \cup Set(queue') /\ m \in schedule' \cup Set(queue')
  BY <1>1, <1>3
<1>5. ASSUME NEW j \in Jobs \ stranded' PROVE Covered(j)'
  <2>1. Covered(j) /\ Calm(j)
    BY <1>1, <1>5, SameRow DEF AllCovered
  <2>2. ~Finishing(thread[c], j)
    BY <1>1 DEF Finishing, Completing
  <2>3. Trying(thread[c], j) => m.job = j
    BY <1>1 DEF Trying
  <2>4. ASSUME NEW i, InHand(thread[c], j, i) PROVE InHand(fr, j, i) \/ MessageHas(m, j, i)
    BY <1>1, <2>4 DEF InHand, MessageHas
  <2>5. HandsOn(j)
    BY <1>2, <1>4, <2>2, <2>3, <2>4, HandsOnThread
  <2> QED BY <2>1, <2>5, CoveredKept
<1> QED BY <1>5 DEF AllCovered

\* A worker that takes a message answers for it.
LEMMA DequeueCovered ==
    ASSUME TypeOK, AllCovered, NEW w \in Workers, Dequeue(w)
    PROVE  AllCovered'
<1>1. PICK m, fr :
              /\ m \in Messages
              /\ Set(queue) = {m} \cup Set(queue')
              /\ thread' = [thread EXCEPT ![w] = fr] /\ thread[w].pc = "idle"
              /\ UNCHANGED <<job, item, schedule, phase, cursor, stranded>>
              /\ fr.pc = "check" /\ fr.job = m.job /\ fr.todo = m.idxs
  BY DequeueShape
<1>2. /\ w \in Threads /\ thread'[w] = fr /\ \A u \in Threads \ {w} : thread'[u] = thread[u]
  BY <1>1, ThreadsAreThreads DEF TypeOK
<1>3. ASSUME NEW j \in Jobs \ stranded' PROVE Covered(j)'
  <2>1. Covered(j) /\ Calm(j)
    BY <1>1, <1>3, SameRow DEF AllCovered
  <2>2. ~Trying(thread[w], j) /\ ~Finishing(thread[w], j) /\ \A i : ~InHand(thread[w], j, i)
    BY <1>1, NotMine
  <2>3. \A u \in Threads : /\ Trying(thread[u], j) => Trying(thread'[u], j)
                           /\ Finishing(thread[u], j) => Finishing(thread'[u], j)
                           /\ \A i : InHand(thread[u], j, i) => InHand(thread'[u], j, i)
    BY <1>2, <2>2
  <2>4. m.job = j => Trying(thread'[w], j)
    BY <1>1, <1>2 DEF Trying, Processing
  <2>5. \A i : MessageHas(m, j, i) => InHand(thread'[w], j, i)
    BY <1>1, <1>2 DEF MessageHas, InHand, Processing
  <2> DEFINE M2 == schedule' \cup Set(queue')
  <2>6. schedule \cup Set(queue) = M2 \cup {m}
    BY <1>1
  <2>7. /\ \A i : Sent(j, i)' <=> \E x \in M2 : MessageHas(x, j, i)
        /\ HasMessage(j)' <=> \E x \in M2 : x.job = j
    BY DEF Sent, HasMessage, MessageHas, Set
  <2> HIDE DEF M2
  <2>8. /\ \A i : Sent(j, i) => MessageHas(m, j, i) \/ Sent(j, i)'
        /\ HasMessage(j) => m.job = j \/ HasMessage(j)'
    BY <2>6, <2>7 DEF Sent, HasMessage
  <2>9. HandsOn(j)
    BY <1>2, <2>3, <2>4, <2>5, <2>8 DEF HandsOn
  <2> QED BY <2>1, <2>9, CoveredKept
<1> QED BY <1>3 DEF AllCovered

\* A fault: the retry carries what the worker had, or the job is stranded.
LEMMA FaultCovered ==
    ASSUME TypeOK, CarrierInv, AllCovered, NEW t \in Threads, Fault(t)
    PROVE  AllCovered'
<1> DEFINE f0 == thread[t]
<1>1. /\ thread' = [thread EXCEPT ![t] = Idle] /\ f0.pc \in FaultPoints
      /\ UNCHANGED <<job, item, queue, phase, cursor>>
      /\ \/ schedule' = schedule /\ stranded' = stranded \cup {f0.job}
         \/ /\ t \in Workers /\ f0.pc # "enqueue"
            /\ stranded' = IF f0.pc = "complete" THEN stranded \cup {f0.job} ELSE stranded
            /\ \E m : schedule' = schedule \cup {m} /\ m.job = f0.job /\ m.idxs = f0.msg.idxs
  BY FaultShape
<1>2. thread'[t] = Idle /\ \A u \in Threads \ {t} : thread'[u] = thread[u]
  BY <1>1 DEF TypeOK
<1>3. /\ schedule \cup Set(queue) \subseteq schedule' \cup Set(queue') /\ stranded \subseteq stranded'
  BY <1>1
<1>4. ASSUME NEW j \in Jobs \ stranded' PROVE Covered(j)'
  <2>1. Covered(j) /\ Calm(j)
    BY <1>1, <1>3, <1>4, SameRow DEF AllCovered
  <2>2. CASE f0.job # j
    <3>1. ~Trying(f0, j) /\ ~Finishing(f0, j) /\ \A i : ~InHand(f0, j, i)
      BY <2>2, NotMine
    <3>2. HandsOn(j)
      BY <1>2, <1>3, <3>1, HandsOnThread
    <3> QED BY <2>1, <3>2, CoveredKept
  <2>3. CASE f0.job = j
    <3>1. /\ t \in Workers /\ f0.pc # "enqueue" /\ f0.pc # "complete"
          /\ \E m : schedule' = schedule \cup {m} /\ m.job = f0.job /\ m.idxs = f0.msg.idxs
      BY <1>1, <1>4, <2>3
    <3>2. PICK m : schedule' = schedule \cup {m} /\ m.job = j /\ m.idxs = f0.msg.idxs
      BY <2>3, <3>1
    <3>3. ~Finishing(f0, j)
      BY <1>1, <3>1, FaultPointsAssumption DEF Finishing, Completing
    <3>4. \A i : InHand(f0, j, i) => MessageHas(m, j, i)
      BY <3>1, <3>2 DEF CarrierInv, WorkerFrame, InHand, MessageHas
    <3>5. m \in schedule' \cup Set(queue')
      BY <3>2
    <3>6. HandsOn(j)
      BY <1>2, <1>3, <3>2, <3>3, <3>4, <3>5, HandsOnThread
    <3> QED BY <2>1, <3>6, CoveredKept
  <2> QED BY <2>2, <2>3
<1> QED BY <1>4 DEF AllCovered

\* Steps that touch no thread and lose no message.
LEMMA HandsOnSame ==
    ASSUME NEW m \in Jobs, thread' = thread,
           schedule \cup Set(queue) \subseteq schedule' \cup Set(queue')
    PROVE  HandsOn(m)
<1> DEFINE M == schedule \cup Set(queue)
           M2 == schedule' \cup Set(queue')
<1>1. /\ \A i : Sent(m, i) <=> \E x \in M : MessageHas(x, m, i)
      /\ HasMessage(m) <=> \E x \in M : x.job = m
  BY DEF Sent, HasMessage
<1>2. /\ \A i : Sent(m, i)' <=> \E x \in M2 : MessageHas(x, m, i)
      /\ HasMessage(m)' <=> \E x \in M2 : x.job = m
  BY DEF Sent, HasMessage, MessageHas, Set
<1>3. M \subseteq M2
  OBVIOUS
<1> HIDE DEF M, M2
<1> QED BY <1>1, <1>2, <1>3 DEF HandsOn

LEMMA RescheduleCovered ==
    ASSUME TypeOK, AllCovered, NEW m \in schedule, Reschedule(m)
    PROVE  AllCovered'
<1> USE DEF tables, broker, server, history
<1>1. /\ queue' = Append(queue, m) /\ schedule' = schedule \ {m}
      /\ UNCHANGED <<job, item, thread, stranded>> /\ queue \in Seq(Messages) /\ m \in Messages
  BY DEF Reschedule, TypeOK
<1>2. Set(queue') = Set(queue) \cup {m}
  BY <1>1, AppendSet
<1>3. ASSUME NEW j \in Jobs \ stranded' PROVE Covered(j)'
  <2>1. Covered(j) /\ Calm(j)
    BY <1>1, <1>3, SameRow DEF AllCovered
  <2>2. schedule \cup Set(queue) \subseteq schedule' \cup Set(queue')
    BY <1>1, <1>2
  <2>3. HandsOn(j)
    BY <1>1, <2>2, HandsOnSame
  <2> QED BY <2>1, <2>3, CoveredKept
<1> QED BY <1>3 DEF AllCovered

LEMMA CancelCovered ==
    ASSUME TypeOK, AllCovered, NEW k \in Jobs, Cancel(k)
    PROVE  AllCovered'
<1> USE DEF tables, broker, server, history
<1> DEFINE r2 == [job[k] EXCEPT !.status = "cancelled", !.finished = TRUE]
           it2 == [i \in Idx |-> IF item[k][i] = "pending" THEN "cancelled" ELSE item[k][i]]
<1>1. /\ job' = [job EXCEPT ![k] = r2] /\ item' = [item EXCEPT ![k] = it2]
      /\ UNCHANGED <<queue, schedule, thread, stranded>>
  BY DEF Cancel
<1>2. r2.status = "cancelled"
  BY Tables DEF Rows
<1> HIDE DEF r2, it2
<1>3. Others(k) /\ job'[k] = r2
  BY <1>1, OneRow
<1>4. ASSUME NEW j \in Jobs \ stranded' PROVE Covered(j)'
  <2>1. CASE j = k
    BY <1>2, <1>3, <2>1 DEF Covered, IsActive, Active
  <2>2. CASE j # k
    <3>1. Covered(j) /\ Calm(j)
      BY <1>1, <1>3, <1>4, <2>2, SameRow DEF AllCovered, Others
    <3>2. HandsOn(j)
      BY <1>1, HandsOnSame
    <3> QED BY <3>1, <3>2, CoveredKept
  <2> QED BY <2>1, <2>2
<1> QED BY <1>4 DEF AllCovered

\* _recover() covers one more job.
LEMMA RecoverCovered ==
    ASSUME TypeOK, FrameInv, DispatchInv, RecoverJob
    PROVE  DispatchInv'
<1> USE DEF tables, broker, server, history
<1>c. PICK c \in Jobs : c = cursor
  BY DEF RecoverJob
<1>1. PICK s \in PendingIdxs(c) : queue' = queue \o Recovered(c, s)
  BY <1>c DEF RecoverJob
<1>2. /\ phase = "starting" /\ phase' = "starting" /\ cursor' = c + 1 /\ c \in Nat
      /\ UNCHANGED <<job, item, schedule, thread, stranded>>
  BY <1>c, BoundsAssumption DEF RecoverJob, Jobs
<1>m. PICK ms : ms = Recovered(c, s)
  OBVIOUS
<1>3. /\ ms \in Seq(Messages) /\ \A x \in DOMAIN ms : ms[x].job = c
      /\ IsActive(c) => /\ \A i \in Pending(c) : \E x \in DOMAIN ms : MessageHas(ms[x], c, i)
                        /\ job[c].finalized => DOMAIN ms # {}
  BY <1>1, <1>m, RecoveredSplit
<1>4. Set(queue) \subseteq Set(queue') /\ \A x \in DOMAIN ms : ms[x] \in Set(queue')
  <2> DEFINE n == Len(queue)
             k == Len(ms)
  <2>1. /\ n \in Nat /\ k \in Nat /\ DOMAIN queue = 1..n /\ DOMAIN ms = 1..k
        /\ DOMAIN queue' = 1..(n + k)
        /\ \A p \in 1..(n + k) : queue'[p] = IF p <= n THEN queue[p] ELSE ms[p - n]
    BY <1>1, <1>m, <1>3 DEF TypeOK
  <2> HIDE DEF n, k
  <2>2. ASSUME NEW p \in 1..n PROVE queue[p] \in Set(queue')
    <3>1. p \in DOMAIN queue' /\ queue'[p] = queue[p]
      BY <2>1
    <3> QED BY <3>1 DEF Set
  <2>3. ASSUME NEW x \in 1..k PROVE ms[x] \in Set(queue')
    <3>1. PICK p \in 1..(n + k) : p = n + x
      BY <2>1
    <3>2. p - n = x /\ ~(p <= n)
      BY <2>1, <3>1
    <3>3. queue'[p] = ms[x]
      BY <2>1, <3>2
    <3> QED BY <2>1, <3>3 DEF Set
  <2>4. Set(queue) \subseteq Set(queue')
    BY <2>1, <2>2 DEF Set
  <2> QED BY <2>1, <2>3, <2>4
<1>5. /\ stranded = {}
      /\ \A j \in Jobs : (IsActive(j) => ~job[j].finished) /\ (j < c => Covered(j))
  BY <1>c, <1>2 DEF DispatchInv
<1>6. ASSUME NEW j \in Jobs, j < c PROVE Covered(j)'
  <2>1. Covered(j) /\ Calm(j)
    BY <1>2, <1>5, <1>6, SameRow
  <2>2. HandsOn(j)
    BY <1>2, <1>4, HandsOnSame
  <2> QED BY <2>1, <2>2, CoveredKept
<1>7. ASSUME job[c].status \in Active PROVE Covered(c)'
  <2>1. /\ IsActive(c) /\ ~job[c].finished /\ Pending(c)' = Pending(c) /\ job' = job
    BY <1>2, <1>5, <1>7, SameRow DEF IsActive
  <2>2. ASSUME NEW i \in Pending(c) PROVE Sent(c, i)'
    <3>1. PICK x \in DOMAIN ms : MessageHas(ms[x], c, i)
      BY <1>3, <2>1
    <3>2. PICK y : y = ms[x]
      OBVIOUS
    <3>3. y \in Set(queue') /\ MessageHas(y, c, i)
      BY <1>4, <3>1, <3>2
    <3> QED BY <3>3 DEF Sent, MessageHas, Set
  <2>3. ASSUME job[c].finalized PROVE HasMessage(c)'
    <3>1. PICK x \in DOMAIN ms : TRUE
      BY <1>3, <2>1, <2>3
    <3>2. PICK y : y = ms[x]
      OBVIOUS
    <3>3. y \in Set(queue') /\ y.job = c
      BY <1>3, <1>4, <3>1, <3>2
    <3> QED BY <3>3 DEF HasMessage, Set
  <2> QED BY <2>1, <2>2, <2>3 DEF Covered
<1>8. ASSUME job[c].status \notin Active PROVE Covered(c)'
  BY <1>2, <1>8 DEF Covered, IsActive
<1>9. \A j \in Jobs : j < c + 1 => j < c \/ j = c
  BY <1>2, BoundsAssumption DEF Jobs
<1>10. \A j \in Jobs : j < cursor' => Covered(j)'
  BY <1>2, <1>6, <1>7, <1>8, <1>9
<1>11. \A j \in Jobs : IsActive(j)' => ~job'[j].finished
  BY <1>2, <1>5 DEF IsActive
<1> QED BY <1>2, <1>5, <1>10, <1>11 DEF DispatchInv

LEMMA LifespanCovered ==
    ASSUME TypeOK, FrameInv, DispatchInv, Lifespan
    PROVE  DispatchInv'
<1> USE DEF tables, broker, server, history
<1>1. CASE Start
  <2>1. /\ phase' = "starting" /\ stranded' = {} /\ cursor' = 1
        /\ job' = [j \in Jobs |-> IF IsActive(j) THEN [job[j] EXCEPT !.finished = FALSE] ELSE job[j]]
    BY <1>1 DEF Start
  <2>2. ASSUME NEW j \in Jobs, job'[j].status \in Active PROVE job'[j].finished = FALSE
    <3>0. job[j] \in Rows
      BY Tables
    <3>1. CASE IsActive(j)
      <4>1. job'[j] = [job[j] EXCEPT !.finished = FALSE]
        BY <2>1, <3>1
      <4> QED BY <3>0, <4>1 DEF Rows
    <3>2. CASE ~IsActive(j)
      BY <2>1, <2>2, <3>2 DEF IsActive
    <3> QED BY <3>1, <3>2
  <2>3. \A j \in Jobs : ~(j < cursor')
    BY <2>1, BoundsAssumption DEF Jobs
  <2> QED BY <2>1, <2>2, <2>3 DEF DispatchInv, IsActive
<1>2. CASE RecoverJob
  BY <1>2, RecoverCovered
<1>3. CASE StartConsumer
  <2>1. /\ phase = "starting" /\ cursor = MaxJobs + 1 /\ phase' = "up"
        /\ UNCHANGED <<job, item, queue, schedule, thread, stranded>>
    BY <1>3 DEF StartConsumer
  <2>2. \A j \in Jobs : j < cursor
    BY <2>1, BoundsAssumption DEF Jobs
  <2>3. ASSUME NEW j \in Jobs PROVE Covered(j)'
    <3>1. Covered(j) /\ Calm(j) /\ HandsOn(j)
      BY <2>1, <2>2, SameRow, HandsOnSame DEF DispatchInv
    <3> QED BY <3>1, CoveredKept
  <2> QED BY <2>1, <2>3 DEF DispatchInv
<1>4. CASE Stop \/ StopEngine \/ Exit \/ Crash
  <2>1. phase' \notin {"up", "starting"}
    BY <1>4 DEF Stop, StopEngine, Exit, Crash
  <2> QED BY <2>1 DEF DispatchInv
<1> QED BY <1>1, <1>2, <1>3, <1>4 DEF Lifespan

\* The other steps leave the phase alone and are not taken while _recover() runs.
LEMMA NotStarting ==
    ASSUME FrameInv,
           \/ \E c \in Clients : Request(c) \/ EnqueueChunk(c)
           \/ \E j \in Jobs : Cancel(j)
           \/ \E w \in Workers : Dequeue(w) \/ Work(w)
           \/ \E t \in Threads : Finalizing(t) \/ Fault(t)
           \/ \E m \in schedule : Reschedule(m)
    PROVE  phase' = phase /\ phase # "starting"
<1> USE DEF server
<1>1. ASSUME NEW c \in Clients, Request(c) PROVE phase' = phase /\ phase # "starting"
  BY <1>1 DEF Request, CreateJob, AppendItems
<1>2. ASSUME NEW c \in Clients, EnqueueChunk(c) PROVE phase' = phase /\ phase # "starting"
  BY <1>2, ThreadsAreThreads, BusyIsUp DEF EnqueueChunk
<1>3. ASSUME NEW j \in Jobs, Cancel(j) PROVE phase' = phase /\ phase # "starting"
  BY <1>3 DEF Cancel
<1>4. ASSUME NEW w \in Workers, Dequeue(w) PROVE phase' = phase /\ phase # "starting"
  BY <1>4 DEF Dequeue
<1>5. ASSUME NEW w \in Workers, Work(w) PROVE phase' = phase /\ phase # "starting"
  <2>1. phase' = phase /\ thread[w].pc # "idle"
    BY <1>5 DEF Work, CheckJob, NextItem, StartItem, PredictReturns, PredictRaises, FinishItem
  <2> QED BY <2>1, ThreadsAreThreads, BusyIsUp
<1>6. ASSUME NEW t \in Threads, Finalizing(t) PROVE phase' = phase /\ phase # "starting"
  <2>1. phase' = phase /\ thread[t].pc # "idle"
    BY <1>6 DEF Finalizing, Claim, HooksReturn, HooksRaise, Complete
  <2> QED BY <2>1, BusyIsUp
<1>7. ASSUME NEW t \in Threads, Fault(t) PROVE phase' = phase /\ phase # "starting"
  <2>1. phase' = phase /\ thread[t].pc # "idle"
    BY <1>7, FaultPointsAssumption DEF Fault
  <2> QED BY <2>1, BusyIsUp
<1>8. ASSUME NEW m \in schedule, Reschedule(m) PROVE phase' = phase /\ phase # "starting"
  BY <1>8 DEF Reschedule
<1> QED BY <1>1, <1>2, <1>3, <1>4, <1>5, <1>6, <1>7, <1>8

WorkInv == TypeOK /\ FrameInv /\ SingleCompleter /\ RowsInv /\ CarrierInv

LEMMA DispatchStep ==
    WorkInv /\ OpenItems /\ DispatchInv /\ [Next]_vars => OpenItems' /\ DispatchInv'
<1> SUFFICES ASSUME TypeOK, FrameInv, SingleCompleter, RowsInv, CarrierInv, OpenItems, DispatchInv,
                    [Next]_vars
             PROVE  OpenItems' /\ DispatchInv'
  BY DEF WorkInv
<1>1. TypeOK' /\ RowsGood /\ RowsGood' /\ TableStep
  BY TypedStep, RowsInvStep DEF RowsInv
<1>2. OpenItems'
  BY <1>1, OpenStep
<1>3. CASE UNCHANGED vars
  BY <1>2, <1>3 DEF vars, DispatchInv, Covered, Sent, HasMessage, Pending, ItemsIn, IsActive,
        InHand, Trying, Finishing, Set, MessageHas
<1>4. CASE Lifespan
  BY <1>2, <1>4, LifespanCovered
<1>5. CASE \/ \E c \in Clients : Request(c) \/ EnqueueChunk(c)
           \/ \E j \in Jobs : Cancel(j)
           \/ \E w \in Workers : Dequeue(w) \/ Work(w)
           \/ \E t \in Threads : Finalizing(t) \/ Fault(t)
           \/ \E m \in schedule : Reschedule(m)
  <2>1. phase' = phase /\ phase # "starting"
    BY <1>5, NotStarting
  <2>2. ASSUME phase = "up" PROVE AllCovered'
    <3>1. AllCovered
      BY <2>2 DEF DispatchInv, AllCovered
    <3> QED BY <1>1, <1>5, <2>2, <3>1, RequestCovered, EnqueueCovered, CancelCovered, DequeueCovered,
               WorkCovered, FinalizingCovered, FaultCovered, RescheduleCovered
  <2> QED BY <1>2, <2>1, <2>2 DEF DispatchInv, AllCovered
<1> QED BY <1>2, <1>3, <1>4, <1>5 DEF Next

LEMMA DispatchInit == Init => OpenItems /\ DispatchInv
<1> SUFFICES ASSUME Init PROVE OpenItems /\ DispatchInv
  OBVIOUS
<1>1. phase = "up" /\ \A j \in Jobs : ~IsActive(j)
  BY DEF Init, IsActive, NoRow, Active
<1> QED BY <1>1 DEF OpenItems, DispatchInv, Covered

LEMMA DispatchMeaning == DispatchInv => Dispatched
  BY DEF DispatchInv, Dispatched, Covered, Sent, MessageHas, InHand, Trying, Finishing, HasThread

\* While the server is up no work is forgotten: a pending item is in a message
\* or in a thread's hands, a finalized job has someone who will claim it and a
\* claimed one its completer, for any interleaving of appends, claims, retries,
\* cancels and restarts (_maybe_complete after the last item, start's release
\* of the claims, _recover).
THEOREM NoWorkForgotten == Spec => []Dispatched
<1>1. Spec => []WorkInv
  BY FramesCorrect, OneCompleter, RowsCorrect, CarrierCorrect, PTL DEF WorkInv
<1> QED BY <1>1, DispatchInit, DispatchStep, DispatchMeaning, PTL DEF Spec
=============================================================================
