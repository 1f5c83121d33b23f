---------------------- MODULE TransferScheduler_proofs ----------------------
(* Proofs about TransferScheduler: its places are never left empty while a  *)
(* transfer waits and are given back once, no action is undone twice at     *)
(* once, the dialog shows what is copied and an undo restores what was      *)
(* there; for any number of places and transfers.                           *)
EXTENDS TransferScheduler, FiniteSetTheorems, SequenceTheorems, TLAPS

-----------------------------------------------------------------------------
(* start_next_transfers, for any queue without repetitions and any active   *)
(* transfers that are not in it.                                            *)

Distinct(q) == \A i, k \in 1..Len(q) : q[i] = q[k] => i = k

\* What the lists owe each other; n is the last id given out.
Lists(q, a, n) ==
  /\ q \in Seq(1..n) /\ a \subseteq 1..n
  /\ Distinct(q) /\ Elems(q) \cap a = {}
  /\ Cardinality(a) <= MaxParallel

\* The places are taken as far as there is somebody to take them.
Served(q, a) == q # <<>> => Cardinality(a) = MaxParallel

\* The first m entries of a queue, and the rest.
Front(q, m) == {q[i] : i \in 1..m}
Back(q, m) == SubSeq(q, m + 1, Len(q))

LEMMA FiniteIds ==
  ASSUME NEW n \in Nat, NEW a \in SUBSET (1..n)
  PROVE  IsFiniteSet(a) /\ Cardinality(a) \in Nat
<1>1. IsFiniteSet(1..n)
  BY FS_Interval
<1> QED
  BY <1>1, FS_Subset, FS_CardinalityType

\* The first m entries of a queue without repetitions are m transfers.
LEMMA FrontSize ==
  ASSUME NEW S, NEW q \in Seq(S), Distinct(q), NEW m \in Nat, m <= Len(q)
  PROVE  IsFiniteSet(Front(q, m)) /\ Cardinality(Front(q, m)) = m
<1> DEFINE f == [i \in 1..m |-> q[i]]
<1>1. f \in Surjection(1..m, Front(q, m))
  BY DEF Surjection, Front
<1>2. f \in Injection(1..m, Front(q, m))
  <2>1. \A i, k \in 1..m : f[i] = f[k] => i = k
    BY DEF Distinct
  <2>2. f \in [1..m -> Front(q, m)]
    BY DEF Front
  <2> QED
    BY <2>1, <2>2 DEF Injection, IsInjective
<1>3. IsFiniteSet(1..m) /\ Cardinality(1..m) = m
  BY FS_Interval
<1>4. IsFiniteSet(Front(q, m)) /\ Cardinality(Front(q, m)) = Cardinality(1..m)
  BY <1>1, <1>2, <1>3, FS_Surjection
<1> QED
  BY <1>3, <1>4

LEMMA Shift ==
  ASSUME NEW l \in Nat, NEW m \in Nat, NEW i \in 1..(l - m)
  PROVE  m + i \in 1..l /\ (m + 1) + i - 1 = m + i
  OBVIOUS

LEMMA BackEntries ==
  ASSUME NEW S, NEW q \in Seq(S), NEW m \in Nat, m <= Len(q)
  PROVE  /\ Back(q, m) \in Seq(S)
         /\ Len(Back(q, m)) = Len(q) - m
         /\ \A i \in 1..(Len(q) - m) : m + i \in 1..Len(q) /\ Back(q, m)[i] = q[m + i]
<1>1. Len(q) \in Nat
  OBVIOUS
<1>2. m + 1 \in Int /\ Len(q) \in Int /\ \A i \in (m + 1)..Len(q) : q[i] \in S
  BY <1>1, ElementOfSeq
<1>3. /\ Back(q, m) \in Seq(S)
      /\ Len(Back(q, m)) = IF m + 1 <= Len(q) THEN Len(q) - (m + 1) + 1 ELSE 0
      /\ \A i \in 1..(Len(q) - (m + 1) + 1) : Back(q, m)[i] = q[(m + 1) + i - 1]
  BY <1>2, SubSeqProperties DEF Back
<1>4. \A i \in 1..(Len(q) - m) : m + i \in 1..Len(q) /\ (m + 1) + i - 1 = m + i
  BY <1>1, Shift
<1>5. Len(q) - (m + 1) + 1 = Len(q) - m
  BY <1>1
<1>6. Len(Back(q, m)) = Len(q) - m
  BY <1>1, <1>3
<1>7. ASSUME NEW i \in 1..(Len(q) - m)
      PROVE  m + i \in 1..Len(q) /\ Back(q, m)[i] = q[m + i]
  <2>1. Back(q, m)[i] = q[(m + 1) + i - 1]
    BY <1>3, <1>5
  <2>2. m + i \in 1..Len(q) /\ (m + 1) + i - 1 = m + i
    BY <1>4
  <2> QED
    BY <2>1, <2>2
<1> QED
  BY <1>3, <1>6, <1>7

\* Moving the first m entries of the queue to the active transfers, within the room.
LEMMA MoveFront ==
  ASSUME NEW n \in Nat, NEW q, NEW a, Lists(q, a, n),
         NEW m \in Nat, m <= Len(q), Cardinality(a) + m <= MaxParallel
  PROVE  /\ Lists(Back(q, m), a \cup Front(q, m), n)
         /\ Cardinality(a \cup Front(q, m)) = Cardinality(a) + m
         /\ Len(Back(q, m)) = Len(q) - m
<1>1. q \in Seq(1..n) /\ Len(q) \in Nat /\ a \subseteq 1..n
      /\ \A i, k \in 1..Len(q) : q[i] = q[k] => i = k
  BY DEF Lists, Distinct
<1>2. \A i \in 1..Len(q) : q[i] \in 1..n /\ q[i] \notin a
  BY <1>1, ElementOfSeq DEF Lists, Elems
<1>3. \A i \in 1..m : i \in 1..Len(q)
  BY <1>1
<1>4. Cardinality(a \cup Front(q, m)) = Cardinality(a) + m
  <2>1. IsFiniteSet(Front(q, m)) /\ Cardinality(Front(q, m)) = m
    BY <1>1, FrontSize DEF Lists
  <2>2. IsFiniteSet(a) /\ Cardinality(a) \in Nat
    BY <1>1, FiniteIds
  <2>3. a \cap Front(q, m) = {}
    BY <1>2, <1>3 DEF Front
  <2>4. Cardinality(a \cup Front(q, m))
          = Cardinality(a) + Cardinality(Front(q, m)) - Cardinality(a \cap Front(q, m))
    BY <2>1, <2>2, FS_Union
  <2>5. Cardinality(a \cap Front(q, m)) = 0
    BY <2>3, FS_EmptySet
  <2> QED
    BY <2>1, <2>2, <2>4, <2>5
<1>5. /\ Back(q, m) \in Seq(1..n)
      /\ Len(Back(q, m)) = Len(q) - m
      /\ \A i \in 1..(Len(q) - m) : m + i \in 1..Len(q) /\ Back(q, m)[i] = q[m + i]
  BY <1>1, BackEntries
<1>6. Distinct(Back(q, m))
  <2> SUFFICES ASSUME NEW i \in 1..(Len(q) - m), NEW k \in 1..(Len(q) - m),
                      Back(q, m)[i] = Back(q, m)[k]
               PROVE  i = k
    BY <1>5 DEF Distinct
  <2>1. m + i = m + k
    BY <1>1, <1>5
  <2> QED
    BY <2>1
<1>7. Elems(Back(q, m)) \cap (a \cup Front(q, m)) = {}
  <2> SUFFICES ASSUME NEW i \in 1..(Len(q) - m), Back(q, m)[i] \in a \cup Front(q, m)
               PROVE  FALSE
    BY <1>5 DEF Elems
  <2>1. q[m + i] \in Front(q, m) /\ m + i \in 1..Len(q)
    BY <1>2, <1>5
  <2>2. PICK k \in 1..m : q[k] = q[m + i]
    BY <2>1 DEF Front
  <2>3. k \in 1..Len(q) /\ k # m + i
    BY <1>3
  <2> QED
    BY <1>1, <2>1, <2>2, <2>3
<1>8. a \cup Front(q, m) \subseteq 1..n
  BY <1>1, <1>2, <1>3 DEF Front
<1> QED
  BY <1>4, <1>5, <1>6, <1>7, <1>8 DEF Lists

LEMMA StartNextServes ==
  ASSUME NEW n \in Nat, NEW q, NEW a, Lists(q, a, n), StartNext(q, a)
  PROVE  Lists(queue', active', n) /\ Served(queue', active')
<1> DEFINE m == Least(Len(q), Room(a))
<1>1. Cardinality(a) \in Nat /\ Cardinality(a) <= MaxParallel
  BY FiniteIds DEF Lists
<1>2. Room(a) \in Nat /\ Room(a) = MaxParallel - Cardinality(a)
  BY <1>1, SchedulerAssumption DEF Room
<1>3. Len(q) \in Nat
  BY DEF Lists
<1>4. m \in Nat /\ m <= Len(q) /\ m <= Room(a) /\ (m = Len(q) \/ m = Room(a))
  BY <1>2, <1>3 DEF Least
<1>5. active' = a \cup Front(q, m) /\ queue' = Back(q, m)
  BY DEF StartNext, Started, Front, Back
<1> HIDE DEF m
<1>6. Cardinality(a) + m <= MaxParallel
  BY <1>1, <1>2, <1>4, SchedulerAssumption
<1>7. /\ Lists(queue', active', n)
      /\ Cardinality(active') = Cardinality(a) + m
      /\ Len(queue') = Len(q) - m
  BY <1>4, <1>5, <1>6, MoveFront
<1>8. Served(queue', active')
  <2> SUFFICES ASSUME queue' # <<>> PROVE Cardinality(active') = MaxParallel
    BY DEF Served
  <2>1. queue' \in Seq(1..n) /\ Len(queue') # 0
    BY <1>7, EmptySeq DEF Lists
  <2> QED
    BY <1>1, <1>2, <1>3, <1>4, <1>7, <2>1, SchedulerAssumption
<1> QED
  BY <1>7, <1>8

\* A transfer with a new id, put at the end of the queue.
LEMMA AppendNew ==
  ASSUME NEW n \in Nat, NEW q, NEW a, Lists(q, a, n)
  PROVE  Lists(Append(q, n + 1), a, n + 1)
<1> DEFINE r == Append(q, n + 1)
<1>1. q \in Seq(1..n) /\ Len(q) \in Nat /\ \A i \in 1..Len(q) : q[i] \in 1..n
  BY ElementOfSeq DEF Lists
<1>2. q \in Seq(1..(n + 1)) /\ n + 1 \in 1..(n + 1)
  BY <1>1
<1>3. /\ r \in Seq(1..(n + 1))
      /\ Len(r) = Len(q) + 1
      /\ \A i \in 1..Len(q) : r[i] = q[i]
      /\ r[Len(q) + 1] = n + 1
  BY <1>2, AppendProperties
<1> HIDE DEF r
<1>4. ASSUME NEW i \in 1..Len(r)
      PROVE  i \in 1..Len(q) \/ i = Len(q) + 1
  BY <1>1, <1>3
<1>5. a \subseteq 1..n /\ n + 1 \notin 1..n
  BY DEF Lists
<1>6. Distinct(r)
  <2> SUFFICES ASSUME NEW i \in 1..Len(r), NEW k \in 1..Len(r), r[i] = r[k]
               PROVE  i = k
    BY DEF Distinct
  <2>1. CASE i \in 1..Len(q) /\ k \in 1..Len(q)
    BY <1>3, <2>1 DEF Lists, Distinct
  <2>2. CASE i = Len(q) + 1 /\ k \in 1..Len(q)
    BY <1>1, <1>3, <1>5, <2>2
  <2>3. CASE i \in 1..Len(q) /\ k = Len(q) + 1
    BY <1>1, <1>3, <1>5, <2>3
  <2> QED
    BY <1>4, <2>1, <2>2, <2>3
<1>7. Elems(r) \cap a = {}
  <2> SUFFICES ASSUME NEW i \in 1..Len(r) PROVE r[i] \notin a
    BY DEF Elems
  <2>1. CASE i \in 1..Len(q)
    BY <1>3, <2>1 DEF Lists, Elems
  <2>2. CASE i = Len(q) + 1
    BY <1>3, <1>5, <2>2
  <2> QED
    BY <1>4, <2>1, <2>2
<1>8. a \subseteq 1..(n + 1) /\ Cardinality(a) <= MaxParallel
  BY <1>5 DEF Lists
<1> QED
  BY <1>3, <1>6, <1>7, <1>8 DEF Lists, r

\* A transfer taken out of the queue: the active ones still fill their places.
LEMMA WithoutServes ==
  ASSUME NEW n \in Nat, NEW q, NEW a, Lists(q, a, n), Served(q, a), NEW i \in 1..Len(q)
  PROVE  Lists(Without(q, i), a, n) /\ Served(Without(q, i), a)
<1> DEFINE r == Without(q, i)
           from(k) == IF k < i THEN k ELSE k + 1
<1>1. q \in Seq(1..n) /\ Len(q) \in Nat \ {0}
  BY EmptySeq DEF Lists
<1>2. ASSUME NEW k \in 1..(Len(q) - 1)
      PROVE  from(k) \in 1..Len(q) /\ r[k] = q[from(k)]
  BY <1>1 DEF Without
<1>3. r \in Seq(1..n) /\ Len(r) = Len(q) - 1
  <2>1. \A k \in 1..(Len(q) - 1) : r[k] \in 1..n
    BY <1>1, <1>2, ElementOfSeq
  <2>2. Len(q) - 1 \in Nat
    BY <1>1
  <2>3. r = [k \in 1..(Len(q) - 1) |-> r[k]]
    BY DEF Without
  <2> HIDE DEF r
  <2> QED
    BY <2>1, <2>2, <2>3
<1>4. Distinct(r)
  <2> SUFFICES ASSUME NEW k \in 1..(Len(q) - 1), NEW l \in 1..(Len(q) - 1), r[k] = r[l]
               PROVE  k = l
    BY <1>3 DEF Distinct
  <2>1. from(k) = from(l)
    BY <1>2 DEF Lists, Distinct
  <2> QED
    BY <1>1, <2>1
<1>5. Elems(r) \cap a = {}
  <2> SUFFICES ASSUME NEW k \in 1..(Len(q) - 1) PROVE r[k] \notin a
    BY <1>3 DEF Elems
  <2> QED
    BY <1>2 DEF Lists, Elems
<1>6. q # <<>>
  BY <1>1
<1> QED
  BY <1>3, <1>4, <1>5, <1>6 DEF Lists, Served

\* A place given back leaves lists that start_next_transfers can work with.
LEMMA PlaceGivenBack ==
  ASSUME NEW n \in Nat, NEW q, NEW a, Lists(q, a, n), NEW j
  PROVE  Lists(q, a \ {j}, n)
<1>1. IsFiniteSet(a) /\ Cardinality(a) \in Nat
  BY FiniteIds DEF Lists
<1>2. Cardinality(a \ {j}) \in Nat /\ Cardinality(a \ {j}) <= Cardinality(a)
  BY <1>1, FS_Subset, FS_CardinalityType
<1>3. Cardinality(a) <= MaxParallel /\ MaxParallel \in Nat
  BY SchedulerAssumption DEF Lists
<1>4. Cardinality(a \ {j}) <= MaxParallel
  BY <1>1, <1>2, <1>3
<1>5. a \ {j} \subseteq 1..n /\ Elems(q) \cap (a \ {j}) = {}
  BY DEF Lists
<1> QED
  BY <1>4, <1>5 DEF Lists

-----------------------------------------------------------------------------
(* The invariant.                                                           *)

QueueInv ==
  /\ next \in Nat
  /\ Lists(queue, active, next)
  /\ Served(queue, active)

LEMMA QueueInit == Init => QueueInv
<1> SUFFICES ASSUME Init PROVE QueueInv
  OBVIOUS
<1>1. next = 0 /\ queue = <<>> /\ active = {}
  BY DEF Init
<1>2. Len(<<>>) = 0 /\ <<>> \in Seq(1..0)
  BY EmptySeq
<1>3. Cardinality({}) <= MaxParallel
  BY FS_EmptySet, SchedulerAssumption
<1>4. Distinct(<<>>) /\ Elems(<<>>) = {}
  BY <1>2 DEF Distinct, Elems
<1>5. Lists(<<>>, {}, 0) /\ Served(<<>>, {})
  BY <1>2, <1>3, <1>4 DEF Lists, Served
<1> QED
  BY <1>1, <1>5 DEF QueueInv

LEMMA QueueTransferServes ==
  ASSUME QueueInv, NEW kind, NEW policy, QueueTransfer(kind, policy)
  PROVE  QueueInv'
<1>1. next' = next + 1 /\ next' \in Nat /\ StartNext(Append(queue, next + 1), active)
  BY DEF QueueTransfer, QueueInv
<1>2. Lists(Append(queue, next + 1), active, next + 1)
  BY AppendNew DEF QueueInv
<1> QED
  BY <1>1, <1>2, StartNextServes DEF QueueInv

LEMMA EndServes ==
  ASSUME QueueInv, NEW j, StartNext(queue, active \ {j}), next' = next
  PROVE  QueueInv'
<1>1. Lists(queue, active \ {j}, next)
  BY PlaceGivenBack DEF QueueInv
<1> QED
  BY <1>1, StartNextServes DEF QueueInv

LEMMA QueueStep == QueueInv /\ [Next]_vars => QueueInv'
<1> SUFFICES ASSUME QueueInv, [Next]_vars PROVE QueueInv'
  OBVIOUS
<1>1. ASSUME UNCHANGED <<next, queue, active>> PROVE QueueInv'
  BY <1>1 DEF QueueInv, Lists, Served, Distinct, Elems
<1>2. CASE RequestTransfer
  <2>1. CASE UNCHANGED <<next, queue, active>>
    BY <1>1, <2>1
  <2>2. CASE \E kind \in Kinds : QueueTransfer(kind, "KeepBoth")
    BY <2>2, QueueTransferServes
  <2> QED
    BY <1>2, <2>1, <2>2 DEF RequestTransfer
<1>3. CASE ResolveTransferConflict
  BY <1>3, QueueTransferServes DEF ResolveTransferConflict
<1>4. CASE CancelTransferConflict
  BY <1>1, <1>4 DEF CancelTransferConflict
<1>5. ASSUME NEW j \in Ids, CancelActive(j) PROVE QueueInv'
  BY <1>1, <1>5 DEF CancelActive
<1>6. ASSUME NEW j \in Ids, CancelQueued(j) PROVE QueueInv'
  <2>1. PICK i \in 1..Len(queue) : queue' = Without(queue, i)
    BY <1>6 DEF CancelQueued
  <2>2. next' = next /\ active' = active
    BY <1>6 DEF CancelQueued
  <2>3. Lists(Without(queue, i), active, next) /\ Served(Without(queue, i), active)
    BY WithoutServes DEF QueueInv
  <2> QED
    BY <2>1, <2>2, <2>3 DEF QueueInv
<1>7. ASSUME NEW j \in Ids, Work(j) PROVE QueueInv'
  <2>1. UNCHANGED <<next, queue, active>>
    BY <1>7 DEF Work, Reserve, SendProgress, Succeed, FailJob, StopJob, WorkerOnly
  <2> QED
    BY <1>1, <2>1
<1>8. ASSUME NEW j \in Ids, ElevatedTransferFinished(j) PROVE QueueInv'
  BY <1>1, <1>8 DEF ElevatedTransferFinished
<1>9. CASE Poll
  <2>1. ASSUME NEW j \in Ids, OnProgress(j) PROVE QueueInv'
    BY <1>1, <2>1 DEF OnProgress
  <2>2. ASSUME NEW j \in Ids, OnFinished(j) PROVE QueueInv'
    BY <2>2, EndServes DEF OnFinished
  <2>3. ASSUME NEW j \in Ids, OnFailed(j) PROVE QueueInv'
    BY <2>3, EndServes DEF OnFailed
  <2>4. ASSUME NEW j \in Ids, OnCancelled(j) PROVE QueueInv'
    BY <2>4, EndServes DEF OnCancelled
  <2> QED
    BY <1>9, <2>1, <2>2, <2>3, <2>4 DEF Poll
<1>10. CASE ConfirmElevatedTransfer \/ CancelElevatedTransfer
  BY <1>1, <1>10 DEF ConfirmElevatedTransfer, CancelElevatedTransfer
<1>11. CASE UndoLastAction
  BY <1>1, <1>11 DEF UndoLastAction, transfers
<1>12. CASE UndoThread
  BY <1>1, <1>12 DEF UndoThread, UndoWorks, UndoFails, UndoFinished, transfers
<1>13. CASE MoveToTrash \/ TrashWorks \/ TrashFinished
  BY <1>1, <1>13 DEF MoveToTrash, TrashWorks, TrashFinished, transfers
<1>14. CASE Rest \/ UNCHANGED vars
  BY <1>1, <1>14 DEF Rest, vars, transfers
<1> QED
  BY <1>2, <1>3, <1>4, <1>5, <1>6, <1>7, <1>8, <1>9, <1>10, <1>11, <1>12, <1>13, <1>14
  DEF Next

\* start_next_transfers is called wherever it is needed: whatever the number of
\* places and transfers, however they end and in whatever order the channel and the
\* user speak, no transfer waits while a place is empty, and no place is used twice.
THEOREM QueueIsServed == Spec => []QueueWaitsOnlyWhenFull
<1>1. QueueInv => QueueWaitsOnlyWhenFull
  BY DEF QueueInv, Lists, Served, QueueWaitsOnlyWhenFull
<1> QED
  BY <1>1, QueueInit, QueueStep, PTL DEF Spec

\* A transfer is queued once and is never queued and active at once, so no thread
\* is started twice for it.
QueuedOnce == Distinct(queue) /\ Elems(queue) \cap active = {}

THEOREM NeverStartedTwice == Spec => []QueuedOnce
<1>1. QueueInv => QueuedOnce
  BY DEF QueueInv, Lists, QueuedOnce
<1> QED
  BY <1>1, QueueInit, QueueStep, PTL DEF Spec

-----------------------------------------------------------------------------
(* The places are given back: what the threads and the channel owe to the   *)
(* list of active transfers.                                                *)

Runs(j)  == worker[j].state \in {"ready", "copying"}
Quiet(j) == Terminal(j) = {}
Once(j)  == \E i : Terminal(j) = {i}

\* What the threads and the channel owe to the list of active transfers.
Told(j) ==
  /\ j \in active => (Runs(j) /\ Quiet(j)) \/ (~Runs(j) /\ Once(j))
  /\ j \notin active => Quiet(j) /\ (j \notin elevated => ~Runs(j))

Apart ==
  /\ active \cap elevated = {} /\ Elems(queue) \cap (active \cup elevated) = {}
  /\ offer \notin active \cup elevated \cup Elems(queue)

\* The transfers that may still end.
Tracked == active \cup elevated \cup Elems(queue) \cup {offer}

WorkInv ==
  /\ Tracked \subseteq (1..next) \cup {None}
  /\ \A j \in 1..next : job[j] # None
  /\ Apart
  /\ \A j \in Ids : Told(j)

-----------------------------------------------------------------------------
(* The queue and the channel.                                               *)

LEMMA Bounds ==
  ASSUME TypeOK, QueueInv
  PROVE  /\ 1..next \subseteq Ids /\ None \notin Ids /\ next \in Nat
         /\ Elems(queue) \subseteq 1..next /\ active \subseteq 1..next
<1>1. next <= MaxJobs /\ next \in Nat /\ MaxJobs \in Nat
  BY SchedulerAssumption DEF TypeOK
<1>2. None \notin Ids
  BY SchedulerAssumption DEF Contents
<1>3. Elems(queue) \subseteq 1..next
  BY ElementOfSeq DEF QueueInv, Lists, Elems
<1> QED
  BY <1>1, <1>2, <1>3 DEF Ids, QueueInv, Lists

LEMMA QueueTypes ==
  ASSUME QueueInv', next' \in 0..MaxJobs
  PROVE  queue' \in Seq(Ids) /\ active' \subseteq Ids
<1>1. 1..next' \subseteq Ids
  BY SchedulerAssumption DEF Ids
<1>2. /\ queue' \in Seq(1..next') /\ active' \subseteq 1..next'
  BY DEF QueueInv, Lists
<1>3. \A i \in 1..Len(queue') : queue'[i] \in Ids
  BY <1>1, <1>2, ElementOfSeq
<1> QED
  BY <1>1, <1>2, <1>3

\* What start_next_transfers moves comes from the queue, and its threads are ready.
LEMMA StartNextMoves ==
  ASSUME NEW n \in Nat, NEW q \in Seq(1..n), NEW a \in SUBSET (1..n), StartNext(q, a)
  PROVE  /\ Started(q, a) \subseteq Elems(q)
         /\ active' = a \cup Started(q, a)
         /\ Elems(queue') \subseteq Elems(q)
         /\ \A i \in Ids : worker'[i] = IF i \in Started(q, a)
                                        THEN [Idle EXCEPT !.state = "ready"] ELSE worker[i]
         /\ TypeOK => worker' \in [Ids -> Worker]
<1> DEFINE m == Least(Len(q), Room(a))
<1>1. Len(q) \in Nat
  OBVIOUS
<1>2. CASE Room(a) \in Nat
  <2>1. m \in Nat /\ m <= Len(q)
    BY <1>1, <1>2 DEF Least
  <2>2. Started(q, a) = Front(q, m) /\ queue' = Back(q, m)
    BY DEF StartNext, Started, Front, Back
  <2> HIDE DEF m
  <2>3. \A i \in 1..m : i \in 1..Len(q)
    BY <1>1, <2>1
  <2>4. Started(q, a) \subseteq Elems(q)
    BY <2>2, <2>3 DEF Front, Elems
  <2>5. /\ Len(Back(q, m)) = Len(q) - m
        /\ \A i \in 1..(Len(q) - m) : m + i \in 1..Len(q) /\ Back(q, m)[i] = q[m + i]
    BY <2>1, BackEntries
  <2>6. Elems(queue') \subseteq Elems(q)
    BY <2>2, <2>5 DEF Elems
  <2>7. [Idle EXCEPT !.state = "ready"] \in Worker
    BY SchedulerAssumption DEF Idle, Worker
  <2>8. /\ active' = a \cup Started(q, a)
        /\ worker' = [i \in Ids |-> IF i \in Started(q, a) THEN [Idle EXCEPT !.state = "ready"]
                                                          ELSE worker[i]]
    BY DEF StartNext
  <2>9. TypeOK => worker' \in [Ids -> Worker]
    <3>1. TypeOK => worker \in [Ids -> Worker]
      BY DEF TypeOK
    <3> QED
      BY <2>7, <2>8, <3>1
  <2> QED
    BY <2>4, <2>6, <2>8, <2>9
<1>3. Room(a) \in Nat
  <2>1. Cardinality(a) \in Nat /\ MaxParallel \in Nat
    BY FiniteIds, SchedulerAssumption
  <2> QED
    BY <2>1 DEF Room
<1> QED
  BY <1>2, <1>3

LEMMA SendTells ==
  ASSUME TypeOK, NEW m \in Transfer, channel' = Append(channel, m)
  PROVE  /\ channel' \in Seq(Transfer)
         /\ \A j : m.id # j \/ m.type = "Progress" => Terminal(j)' = Terminal(j)
         /\ m.type # "Progress" /\ Quiet(m.id) => Once(m.id)'
<1>1. /\ channel' \in Seq(Transfer) /\ Len(channel) \in Nat
      /\ Len(channel') = Len(channel) + 1
      /\ \A i \in 1..Len(channel) : channel'[i] = channel[i]
      /\ channel'[Len(channel) + 1] = m
  BY AppendProperties DEF TypeOK
<1>2. 1..Len(channel') = 1..Len(channel) \cup {Len(channel) + 1}
  BY <1>1
<1>3. ASSUME NEW j, m.id # j \/ m.type = "Progress" PROVE Terminal(j)' = Terminal(j)
  BY <1>1, <1>2, <1>3 DEF Terminal
<1>4. ASSUME m.type # "Progress", Quiet(m.id) PROVE Terminal(m.id)' = {Len(channel) + 1}
  BY <1>1, <1>2, <1>4 DEF Terminal, Quiet
<1> QED
  BY <1>1, <1>3, <1>4 DEF Once

LEMMA TakeTells ==
  ASSUME TypeOK, channel # <<>>, channel' = Tail(channel)
  PROVE  /\ channel' \in Seq(Transfer) /\ Head(channel) \in Transfer
         /\ \A j : Quiet(j) => Quiet(j)'
         /\ \A j : (Head(channel).id # j \/ Head(channel).type = "Progress") /\ Once(j) => Once(j)'
         /\ \A j : Head(channel).type # "Progress" /\ Head(channel).id = j =>
              ~Quiet(j) /\ (Once(j) => Quiet(j)')
<1> DEFINE m == Head(channel)
<1>1. /\ channel' \in Seq(Transfer) /\ m \in Transfer /\ m = channel[1]
      /\ Len(channel) \in Nat \ {0} /\ Len(channel') = Len(channel) - 1
      /\ \A i \in 1..Len(channel') : channel'[i] = channel[i + 1]
  BY HeadTailProperties, EmptySeq DEF TypeOK
<1> HIDE DEF m
<1>2. ASSUME NEW j, NEW i \in Terminal(j)' PROVE i + 1 \in Terminal(j)
  BY <1>1 DEF Terminal
<1>3. ASSUME NEW j, NEW i \in Terminal(j), i # 1 PROVE i - 1 \in Terminal(j)'
  <2>1. i - 1 \in 1..Len(channel') /\ (i - 1) + 1 = i
    BY <1>1, <1>3 DEF Terminal
  <2> QED
    BY <1>1, <2>1 DEF Terminal
<1>4. \A j : \A i \in Terminal(j)' : i \in Nat \ {0}
  BY <1>1 DEF Terminal
<1>5. \A j : 1 \in Terminal(j) <=> (m.id = j /\ m.type # "Progress")
  BY <1>1 DEF Terminal
<1>6. \A j : Quiet(j) => Quiet(j)'
  BY <1>2 DEF Quiet
<1>7. ASSUME NEW j, m.id # j \/ m.type = "Progress", Once(j) PROVE Once(j)'
  <2>1. PICK i : Terminal(j) = {i}
    BY <1>7 DEF Once
  <2>2. i # 1 /\ i \in Nat
    BY <1>1, <1>5, <1>7, <2>1 DEF Terminal
  <2>3. i - 1 \in Terminal(j)'
    BY <1>3, <2>1, <2>2
  <2>4. \A k \in Terminal(j)' : k = i - 1
    BY <1>2, <1>4, <2>1, <2>2
  <2>5. Terminal(j)' = {i - 1}
    BY <2>3, <2>4
  <2> QED
    BY <2>5 DEF Once
<1>8. ASSUME NEW j, m.type # "Progress", m.id = j, Once(j) PROVE Quiet(j)'
  <2>1. Terminal(j) = {1}
    BY <1>5, <1>8 DEF Once
  <2>2. ASSUME NEW k \in Terminal(j)' PROVE FALSE
    BY <1>2, <1>4, <2>1
  <2> QED
    BY <2>2 DEF Quiet
<1>9. \A j : m.type # "Progress" /\ m.id = j => ~Quiet(j)
  BY <1>5 DEF Quiet
<1> QED
  BY <1>1, <1>6, <1>7, <1>8, <1>9 DEF m

-----------------------------------------------------------------------------
(* Requests.                                                                *)

\* A step that touches no list, thread or message.
LEMMA WorkStays ==
  ASSUME WorkInv, UNCHANGED <<next, job, queue, active, offer, elevated, worker, channel>>
  PROVE  WorkInv'
<1>1. \A j : Terminal(j)' = Terminal(j)
  BY DEF Terminal
<1>2. \A j \in Ids : Told(j)'
  BY <1>1 DEF WorkInv, Told, Runs, Quiet, Once
<1>3. Tracked' = Tracked /\ Apart'
  BY DEF WorkInv, Tracked, Apart, Elems
<1> QED
  BY <1>2, <1>3 DEF WorkInv

\* Transfers of the queue start; j, if it is one, has left the active ones.
LEMMA StartWorks ==
  ASSUME TypeOK, WorkInv, QueueInv', NEW n \in Nat, NEW q \in Seq(1..n), NEW a \in SUBSET (1..n),
         StartNext(q, a), next' = n, n <= MaxJobs,
         Elems(q) \cap (a \cup elevated) = {}, a \cap elevated = {}, UNCHANGED elevated,
         \A i \in Elems(q) : Quiet(i)' /\ i \notin active,
         offer' \notin a \cup elevated \cup Elems(q),
         offer' \in (1..n) \cup {None}, elevated \subseteq 1..n,
         \A i \in 1..n : job'[i] # None,
         \A i \in a : /\ Runs(i) => Quiet(i)'
                      /\ ~Runs(i) => Once(i)',
         \A i \in Ids \ (a \cup Elems(q)) : Quiet(i)' /\ (i \notin elevated => ~Runs(i))
  PROVE  WorkInv'
<1>1. /\ Started(q, a) \subseteq Elems(q)
      /\ active' = a \cup Started(q, a)
      /\ Elems(queue') \subseteq Elems(q)
      /\ \A i \in Ids : worker'[i] = IF i \in Started(q, a)
                                     THEN [Idle EXCEPT !.state = "ready"] ELSE worker[i]
  BY StartNextMoves
<1>2. Elems(q) \subseteq 1..n /\ 1..n \subseteq Ids
  BY ElementOfSeq, SchedulerAssumption DEF Elems, Ids
<1>3. Elems(queue') \cap active' = {}
  BY DEF QueueInv, Lists
<1>4. Tracked' \subseteq (1..next') \cup {None} /\ Apart'
  BY <1>1, <1>2, <1>3 DEF Tracked, Apart
<1>5. ASSUME NEW i \in Ids PROVE Told(i)'
  <2>1. CASE i \in Started(q, a)
    <3>1. Runs(i)' /\ i \in active' /\ Quiet(i)'
      BY <1>1, <2>1 DEF Runs, Idle
    <3> QED
      BY <3>1 DEF Told
  <2>2. CASE i \notin Started(q, a)
    <3>1. (Runs(i)' <=> Runs(i)) /\ (i \in active' <=> i \in a)
      BY <1>1, <2>2 DEF Runs
    <3>2. CASE i \in a
      BY <3>1, <3>2 DEF Told
    <3>3. CASE i \notin a
      <4>1. i \in Elems(q) => i \notin elevated /\ ~Runs(i)
        BY DEF WorkInv, Told
      <4> QED
        BY <3>1, <3>3, <4>1 DEF Told
    <3> QED
      BY <3>2, <3>3
  <2> QED
    BY <2>1, <2>2
<1> QED
  BY <1>4, <1>5 DEF WorkInv

LEMMA QueueTransferWorks ==
  ASSUME TypeOK, QueueInv, QueueInv', WorkInv, next < MaxJobs,
         NEW kind \in Kind, NEW policy \in Policy, QueueTransfer(kind, policy),
         UNCHANGED <<elevated, offer, channel>>
  PROVE  /\ WorkInv' /\ next' \in 0..MaxJobs /\ next < next'
         /\ job' \in [Ids -> Job \cup {None}]
         /\ queue' \in Seq(Ids) /\ active' \subseteq Ids /\ progress' \subseteq Ids
         /\ undo' = None /\ worker' \in [Ids -> Worker]
         /\ \A i \in 1..next : i \in Tracked' => i \in Tracked
<1> DEFINE n == next + 1
           q == Append(queue, n)
<1>1. /\ next' = n /\ undo' = None /\ progress' = progress \cup {n}
      /\ job' = [job EXCEPT ![n] = [kind |-> kind, policy |-> policy]]
      /\ StartNext(q, active)
  BY DEF QueueTransfer
<1>2. /\ n \in Nat /\ n <= MaxJobs /\ n \in Ids /\ n \in 0..MaxJobs
      /\ 1..n = 1..next \cup {n} /\ n \notin 1..next /\ 1..n \subseteq Ids
  BY SchedulerAssumption DEF QueueInv, TypeOK, Ids
<1>3. /\ 1..next \subseteq Ids /\ None \notin Ids
      /\ Elems(queue) \subseteq 1..next /\ active \subseteq 1..next
  BY Bounds
<1>4. Lists(q, active, n)
  BY AppendNew DEF QueueInv
<1>5. Elems(q) = Elems(queue) \cup {n}
  <2>1. queue \in Seq(1..n) /\ Len(queue) \in Nat
    BY <1>2, <1>4, ElementOfSeq DEF QueueInv, Lists, TypeOK
  <2>2. /\ Len(q) = Len(queue) + 1 /\ q[Len(queue) + 1] = n
        /\ \A i \in 1..Len(queue) : q[i] = queue[i]
    BY <1>2, <2>1, AppendProperties
  <2>3. 1..Len(q) = 1..Len(queue) \cup {Len(queue) + 1}
    BY <2>1, <2>2
  <2> HIDE DEF q
  <2> QED
    BY <2>2, <2>3 DEF Elems
<1>6. q \in Seq(1..n) /\ active \in SUBSET (1..n)
  BY <1>4 DEF Lists
<1> HIDE DEF n, q
<1>7. elevated \subseteq 1..next /\ offer \in (1..next) \cup {None}
  BY <1>3 DEF WorkInv, Tracked, TypeOK
<1>8. \A i \in Ids : Terminal(i)' = Terminal(i)
  BY DEF Terminal
<1>9. /\ Elems(q) \cap (active \cup elevated) = {} /\ active \cap elevated = {}
      /\ offer \notin active \cup elevated \cup Elems(q)
  BY <1>2, <1>3, <1>5, <1>7 DEF WorkInv, Apart
<1>10. \A i \in Elems(q) : Quiet(i)' /\ i \notin active
  BY <1>2, <1>3, <1>5, <1>8, <1>9 DEF WorkInv, Told, Quiet
<1>11. /\ job' \in [Ids -> Job \cup {None}]
       /\ \A i \in 1..n : job'[i] # None
  <2>1. [kind |-> kind, policy |-> policy] \in Job /\ None \notin Job
    BY NoneAssumption DEF Job
  <2> QED
    BY <1>1, <1>2, <2>1 DEF TypeOK, WorkInv
<1>12. \A i \in active : /\ Runs(i) => Quiet(i)'
                         /\ ~Runs(i) => Once(i)'
  BY <1>3, <1>8 DEF WorkInv, Told, Quiet, Once
<1>13. \A i \in Ids \ (active \cup Elems(q)) : Quiet(i)' /\ (i \notin elevated => ~Runs(i))
  BY <1>8 DEF WorkInv, Told, Quiet
<1>14. WorkInv'
  BY <1>1, <1>2, <1>6, <1>7, <1>9, <1>10, <1>11, <1>12, <1>13, StartWorks
<1>15. /\ active' \subseteq active \cup Elems(q) /\ Elems(queue') \subseteq Elems(q)
       /\ worker' \in [Ids -> Worker]
  BY <1>1, <1>2, <1>6, StartNextMoves
<1>16. queue' \in Seq(Ids) /\ active' \subseteq Ids
  BY <1>1, <1>2, QueueTypes
<1>17. next < next' /\ progress' \subseteq Ids
  BY <1>1, <1>2 DEF TypeOK, n
<1>18. \A i \in 1..next : i \in Tracked' => i \in Tracked
  BY <1>2, <1>5, <1>15 DEF Tracked
<1> QED
  BY <1>1, <1>2, <1>11, <1>14, <1>15, <1>16, <1>17, <1>18

Narrows == \A i \in 1..next : i \in Tracked' => i \in Tracked

LEMMA RequestWorks ==
  ASSUME TypeOK, QueueInv, QueueInv', WorkInv, RequestTransfer \/ ResolveTransferConflict
  PROVE  TypeOK' /\ WorkInv' /\ Narrows /\ next <= next'
<1>1. ASSUME NEW kind \in Kind, NEW policy \in Policy, QueueTransfer(kind, policy), next < MaxJobs,
             UNCHANGED <<cancel, history, channel, offer, elevated, undoing, trashing, files, asked,
                         trashed>>,
             conflict' \in {conflict, None}
      PROVE  TypeOK' /\ WorkInv' /\ Narrows /\ next <= next'
  <2>1. /\ WorkInv' /\ next' \in 0..MaxJobs /\ next < next'
        /\ job' \in [Ids -> Job \cup {None}]
        /\ queue' \in Seq(Ids) /\ active' \subseteq Ids /\ progress' \subseteq Ids
        /\ undo' = None /\ worker' \in [Ids -> Worker] /\ Narrows
    BY <1>1, QueueTransferWorks DEF Narrows
  <2>2. TypeOK'
    BY <1>1, <2>1 DEF TypeOK, files
  <2> QED
    BY <2>1, <2>2 DEF TypeOK
<1>2. CASE RequestTransfer
  <2>1. CASE \E kind \in Kinds :
               conflict' = kind /\ UNCHANGED <<next, undo, job, progress, active, queue, worker>>
    <3>1. conflict' \in Kind
      BY <2>1, SchedulerAssumption
    <3>2. UNCHANGED <<next, undo, job, progress, active, queue, worker, cancel, history, channel,
                      offer, elevated, undoing, trashing, files, asked, trashed>>
      BY <1>2, <2>1 DEF RequestTransfer
    <3>3. WorkInv' /\ Tracked' = Tracked
      BY <3>2, WorkStays DEF Tracked, Elems
    <3>4. TypeOK'
      BY <3>1, <3>2 DEF TypeOK, files
    <3> QED
      BY <3>2, <3>3, <3>4 DEF Narrows, TypeOK
  <2>2. CASE \E kind \in Kinds : QueueTransfer(kind, "KeepBoth") /\ UNCHANGED conflict
    <3>1. PICK kind \in Kinds : QueueTransfer(kind, "KeepBoth") /\ UNCHANGED conflict
      BY <2>2
    <3>2. kind \in Kind /\ "KeepBoth" \in Policy
      BY SchedulerAssumption DEF Policy
    <3> QED
      BY <1>1, <1>2, <3>1, <3>2 DEF RequestTransfer
  <2> QED
    BY <1>2, <2>1, <2>2 DEF RequestTransfer
<1>3. CASE ResolveTransferConflict
  <2>1. conflict \in Kind
    BY <1>3 DEF ResolveTransferConflict, TypeOK
  <2> QED
    BY <1>1, <1>3, <2>1 DEF ResolveTransferConflict
<1> QED
  BY <1>2, <1>3

LEMMA WithoutEntries ==
  ASSUME NEW S, NEW q \in Seq(S), NEW i \in 1..Len(q)
  PROVE  Elems(Without(q, i)) \subseteq Elems(q)
<1>1. Len(q) \in Nat \ {0}
  BY EmptySeq
<1>2. Len(Without(q, i)) = Len(q) - 1
  BY <1>1 DEF Without
<1>3. ASSUME NEW k \in 1..(Len(q) - 1) PROVE Without(q, i)[k] \in Elems(q)
  <2>1. k \in 1..Len(q) /\ k + 1 \in 1..Len(q)
    BY <1>1
  <2> QED
    BY <2>1 DEF Without, Elems
<1> QED
  BY <1>2, <1>3 DEF Elems

LEMMA CancelWorks ==
  ASSUME TypeOK, QueueInv, QueueInv', WorkInv, NEW j \in Ids,
         CancelActive(j) \/ CancelQueued(j) \/ CancelTransferConflict
  PROVE  TypeOK' /\ WorkInv' /\ Narrows /\ next' = next
<1>1. CASE CancelActive(j) \/ CancelTransferConflict
  <2>1. UNCHANGED <<next, job, queue, active, progress, history, channel, offer, elevated, worker,
                    undos, files>>
    BY <1>1 DEF CancelActive, CancelTransferConflict
  <2>2. cancel' \subseteq Ids /\ conflict' \in Kind \cup {None}
    BY <1>1 DEF CancelActive, CancelTransferConflict, TypeOK
  <2>3. TypeOK'
    BY <2>1, <2>2 DEF TypeOK, undos, files
  <2>4. WorkInv' /\ Tracked' = Tracked
    BY <2>1, WorkStays DEF Tracked, Elems
  <2> QED
    BY <2>1, <2>3, <2>4 DEF Narrows
<1>2. CASE CancelQueued(j)
  <2>1. PICK i \in 1..Len(queue) : queue' = Without(queue, i)
    BY <1>2 DEF CancelQueued
  <2>2. UNCHANGED <<next, job, active, cancel, channel, conflict, offer, elevated, worker, undos,
                    files>>
        /\ progress' \subseteq progress /\ history' = history \cup {<<j, "Cancelled">>}
    BY <1>2 DEF CancelQueued
  <2>3. Elems(queue') \subseteq Elems(queue)
    BY <2>1, WithoutEntries DEF TypeOK
  <2>4. queue' \in Seq(Ids)
    BY <2>2, QueueTypes DEF TypeOK
  <2>5. TypeOK'
    BY <2>2, <2>4 DEF TypeOK, undos, files
  <2>6. \A i2 : Terminal(i2)' = Terminal(i2)
    BY <2>2 DEF Terminal
  <2>7. \A k \in Ids : Told(k)'
    BY <2>2, <2>6 DEF WorkInv, Told, Runs, Quiet, Once
  <2>8. Tracked' \subseteq Tracked /\ Apart'
    BY <2>2, <2>3 DEF Tracked, Apart, WorkInv
  <2> QED
    BY <2>2, <2>5, <2>7, <2>8 DEF WorkInv, Narrows
<1> QED
  BY <1>1, <1>2

-----------------------------------------------------------------------------
(* The workers.                                                             *)

LEMMA WorkerIds ==
  ASSUME TypeOK, QueueInv, WorkInv, NEW j \in Ids, Runs(j)
  PROVE  j \in active \cup elevated /\ job[j] \in Job /\ Quiet(j)
<1>1. j \in active \cup elevated /\ Quiet(j)
  BY DEF WorkInv, Told
<1>2. j \in 1..next
  BY <1>1, Bounds DEF WorkInv, Tracked
<1> QED
  BY <1>1, <1>2 DEF WorkInv, TypeOK

\* A thread moves, and says that it is over, if it is, once.
LEMMA WorkerMoves ==
  ASSUME WorkInv, NEW j \in Ids, Runs(j), Quiet(j), j \in active \cup elevated,
         UNCHANGED <<next, job, queue, active, offer, elevated>>,
         \A i \in Ids \ {j} : worker'[i] = worker[i] /\ Terminal(i)' = Terminal(i),
         \/ Runs(j)' /\ Quiet(j)'
         \/ ~Runs(j)' /\ Once(j)' /\ j \notin elevated
         \/ ~Runs(j)' /\ Quiet(j)' /\ j \in elevated
  PROVE  WorkInv'
<1>1. ASSUME NEW i \in Ids PROVE Told(i)'
  <2>1. CASE i = j
    BY <2>1 DEF Told, WorkInv, Apart
  <2>2. CASE i # j
    BY <2>2 DEF Told, WorkInv, Runs, Quiet, Once
  <2> QED
    BY <2>1, <2>2
<1>2. Tracked' = Tracked /\ Apart'
  BY DEF Tracked, Apart, Elems, WorkInv
<1> QED
  BY <1>1, <1>2 DEF WorkInv

LEMMA TargetsAreSlots ==
  ASSUME NEW j \in Ids, job[j] \in Job
  PROVE  Targets(j) \subseteq Slots \cup {None}
<1>1. 1 \in Slots
  BY SchedulerAssumption DEF Slots
<1>2. Unique(j) \subseteq Slots
  BY <1>1 DEF Unique, Free
<1>3. job[j].policy \in {"Replace", "Skip", "KeepBoth"}
  BY DEF Job, Policy
<1> QED
  BY <1>1, <1>2, <1>3 DEF Targets

\* What a worker does to its own record and to the folder.
LEMMA WorkTypes ==
  ASSUME TypeOK, QueueInv, WorkInv, NEW j \in Ids, Work(j)
  PROVE  /\ Runs(j) /\ worker' \in [Ids -> Worker]
         /\ \A i \in Ids \ {j} : worker'[i] = worker[i]
         /\ disk' \in [Slots -> Contents \cup {None}] /\ sources' \subseteq Ids
         /\ overtaken' \subseteq Ids
         /\ WorkerOnly
<1>1. Runs(j) /\ WorkerOnly
  BY DEF Work, Reserve, SendProgress, Succeed, FailJob, StopJob, Runs
<1>2. worker \in [Ids -> Worker] /\ worker[j] \in Worker
  BY DEF TypeOK
<1>3. CASE Reserve(j)
  <2>1. PICK t \in Targets(j) : worker' = [worker EXCEPT ![j].state = "copying", ![j].target = t]
    BY <1>3 DEF Reserve
  <2>2. t \in Slots \cup {None}
    BY <1>1, WorkerIds, TargetsAreSlots
  <2>3. worker' = [worker EXCEPT ![j] = [worker[j] EXCEPT !.state = "copying", !.target = t]]
    BY <1>2, <2>1
  <2>4. [worker[j] EXCEPT !.state = "copying", !.target = t] \in Worker
    BY <1>2, <2>2 DEF Worker
  <2>5. UNCHANGED <<disk, sources>> /\ overtaken' \subseteq Ids
    BY <1>3 DEF Reserve, TypeOK
  <2> QED
    BY <1>1, <1>2, <2>3, <2>4, <2>5 DEF TypeOK
<1>4. CASE SendProgress(j)
  <2>1. worker' = [worker EXCEPT ![j].sent = @ + 1] /\ worker[j].sent < MaxProgress /\ UNCHANGED files
    BY <1>4 DEF SendProgress
  <2>2. worker[j].sent + 1 \in 0..MaxProgress
    BY <1>2, <2>1, SchedulerAssumption DEF Worker
  <2> QED
    BY <1>1, <1>2, <2>1, <2>2 DEF files, TypeOK, Worker
<1>5. CASE Succeed(j)
  <2> DEFINE t == worker[j].target
             state == IF j \in elevated THEN "done" ELSE "over"
             before == IF t = None THEN None ELSE disk[t]
  <2>1. /\ worker' = [worker EXCEPT ![j].state = state, ![j].before = before]
        /\ disk' = [s \in Slots |-> IF s = t THEN j ELSE disk[s]]
        /\ sources' \subseteq sources /\ overtaken' \subseteq Ids
    BY <1>5 DEF Succeed, TypeOK, Overtaken, CopyingTo
  <2>2. t \in Slots \cup {None}
    BY <1>2 DEF Worker
  <2>3. before \in Contents \cup {None}
    BY <2>2 DEF TypeOK
  <2>4. j \in Contents
    BY DEF Contents
  <2> HIDE DEF t, before
  <2>5. worker' = [worker EXCEPT ![j] = [worker[j] EXCEPT !.state = state, !.before = before]]
    BY <1>2, <2>1
  <2>6. [worker[j] EXCEPT !.state = state, !.before = before] \in Worker
    BY <1>2, <2>3 DEF Worker
  <2>7. disk' \in [Slots -> Contents \cup {None}]
    <3>1. disk \in [Slots -> Contents \cup {None}]
      BY DEF TypeOK
    <3> QED
      BY <2>1, <2>4, <3>1
  <2>8. worker' \in [Ids -> Worker] /\ \A i \in Ids \ {j} : worker'[i] = worker[i]
    BY <1>2, <2>5, <2>6
  <2> QED
    BY <1>1, <2>1, <2>7, <2>8 DEF TypeOK
<1>6. CASE FailJob(j) \/ StopJob(j)
  <2>1. PICK state \in {"over", "failed"} : worker' = [worker EXCEPT ![j].state = state]
    BY <1>6 DEF FailJob, StopJob, SetWorker
  <2>2. worker' = [worker EXCEPT ![j] = [worker[j] EXCEPT !.state = state]]
    BY <1>2, <2>1
  <2>3. [worker[j] EXCEPT !.state = state] \in Worker
    BY <1>2 DEF Worker
  <2>4. UNCHANGED files
    BY <1>6 DEF FailJob, StopJob
  <2> QED
    BY <1>1, <1>2, <2>2, <2>3, <2>4 DEF files, TypeOK
<1> QED
  BY <1>3, <1>4, <1>5, <1>6 DEF Work

LEMMA WorkWorks ==
  ASSUME TypeOK, QueueInv, WorkInv, NEW j \in Ids, Work(j)
  PROVE  TypeOK' /\ WorkInv' /\ Narrows /\ next' = next
<1>1. /\ Runs(j) /\ worker' \in [Ids -> Worker]
      /\ \A i \in Ids \ {j} : worker'[i] = worker[i]
      /\ disk' \in [Slots -> Contents \cup {None}] /\ sources' \subseteq Ids
      /\ overtaken' \subseteq Ids
      /\ UNCHANGED <<next, job, queue, active, cancel, progress, history, conflict, offer,
                     elevated, undos>>
  BY WorkTypes DEF WorkerOnly
<1>2. j \in active \cup elevated /\ Quiet(j)
  BY <1>1, WorkerIds
<1>3. worker \in [Ids -> Worker] /\ worker[j] \in Worker
  BY DEF TypeOK
<1> DEFINE Silent == channel' = channel
           Sends(type, root, denied) ==
             channel' = Append(channel, [type |-> type, id |-> j, root |-> root, denied |-> denied])
<1>4. \/ Silent /\ Runs(j)' \* Reserve
      \/ Sends("Progress", None, FALSE) /\ Runs(j)'
      \/ j \in elevated /\ Silent /\ ~Runs(j)'
      \/ /\ j \notin elevated /\ ~Runs(j)'
         /\ \E type \in {"Finished", "Failed", "Cancelled"}, root \in Slots \cup {None},
               denied \in BOOLEAN : Sends(type, root, denied)
  <2>1. CASE Reserve(j)
    BY <1>3, <2>1 DEF Reserve, Runs, TypeOK
  <2>2. CASE SendProgress(j)
    BY <1>3, <2>2 DEF SendProgress, Runs, Send, TypeOK
  <2>3. CASE Succeed(j)
    <3>1. worker'[j].state = IF j \in elevated THEN "done" ELSE "over"
      BY <1>3, <2>3 DEF Succeed, TypeOK, Worker
    <3>2. worker[j].target \in Slots \cup {None}
      BY <1>3 DEF Worker
    <3>3. ~Runs(j)'
      BY <3>1 DEF Runs
    <3>4. IF j \in elevated THEN Silent ELSE Sends("Finished", worker[j].target, FALSE)
      BY <2>3 DEF Succeed, Send
    <3> HIDE DEF Silent, Sends
    <3> QED
      BY <3>2, <3>3, <3>4
  <2>4. CASE FailJob(j)
    <3>1. worker'[j].state = IF j \in elevated THEN "failed" ELSE "over"
      BY <1>3, <2>4 DEF FailJob, SetWorker, TypeOK, Worker
    <3>2. Denials \subseteq BOOLEAN
      BY SchedulerAssumption
    <3> QED
      BY <2>4, <3>1, <3>2 DEF FailJob, Runs, Send
  <2>5. CASE StopJob(j)
    <3>1. worker'[j].state = "over"
      BY <1>3, <2>5 DEF StopJob, SetWorker, TypeOK, Worker
    <3> QED
      BY <2>5, <3>1 DEF StopJob, Runs, Send
  <2> QED
    BY <2>1, <2>2, <2>3, <2>4, <2>5 DEF Work
<1>5. /\ channel' \in Seq(Transfer)
      /\ \A i \in Ids \ {j} : Terminal(i)' = Terminal(i)
      /\ \/ Runs(j)' /\ Quiet(j)'
         \/ ~Runs(j)' /\ Once(j)' /\ j \notin elevated
         \/ ~Runs(j)' /\ Quiet(j)' /\ j \in elevated
  <2>1. CASE Silent /\ (Runs(j)' \/ (j \in elevated /\ ~Runs(j)'))
    <3>1. \A i : Terminal(i)' = Terminal(i)
      BY <2>1 DEF Terminal
    <3> QED
      BY <1>2, <2>1, <3>1 DEF Quiet, TypeOK
  <2>2. CASE Sends("Progress", None, FALSE) /\ Runs(j)'
    <3>1. PICK m \in Transfer : m.type = "Progress" /\ channel' = Append(channel, m)
      BY <2>2 DEF Transfer
    <3>2. channel' \in Seq(Transfer) /\ \A i : Terminal(i)' = Terminal(i)
      BY <3>1, SendTells
    <3> QED
      BY <1>2, <2>2, <3>2 DEF Quiet
  <2>3. CASE /\ j \notin elevated /\ ~Runs(j)'
             /\ \E type \in {"Finished", "Failed", "Cancelled"}, root \in Slots \cup {None},
                   denied \in BOOLEAN : Sends(type, root, denied)
    <3>1. PICK m \in Transfer : m.type # "Progress" /\ m.id = j /\ channel' = Append(channel, m)
      BY <2>3 DEF Transfer
    <3>2. /\ channel' \in Seq(Transfer) /\ \A i : i # j => Terminal(i)' = Terminal(i)
          /\ Once(j)'
      BY <1>2, <3>1, SendTells
    <3> QED
      BY <2>3, <3>2
  <2> QED
    BY <1>4, <2>1, <2>2, <2>3
<1>6. TypeOK'
  BY <1>1, <1>5 DEF TypeOK, undos
<1>7. WorkInv'
  BY <1>1, <1>2, <1>5, WorkerMoves
<1>8. Tracked' = Tracked
  BY <1>1 DEF Tracked, Elems
<1> QED
  BY <1>1, <1>6, <1>7, <1>8 DEF Narrows

-----------------------------------------------------------------------------
(* The end of a transfer, and what is offered to an elevated helper.        *)

LEMMA TrackedBounds ==
  ASSUME TypeOK, QueueInv, WorkInv
  PROVE  elevated \subseteq 1..next /\ offer \in (1..next) \cup {None}
<1>1. None \notin Ids
  BY Bounds
<1> QED
  BY <1>1 DEF WorkInv, Tracked, TypeOK

LEMMA ResultIsAction ==
  ASSUME NEW j \in Ids, job[j] \in Job, NEW root \in Slots
  PROVE  Result(j, root) \in Action
<1>1. 0 \in 0..MaxTrashes /\ j \in Contents
  BY SchedulerAssumption DEF Contents
<1>2. job[j].kind \in {"Copy", "Move", "Trash"}
  BY DEF Job, Kind
<1> QED
  BY <1>1, <1>2 DEF Result, Action

\* A transfer that has ended gives its place back.
LEMMA EndWorks ==
  ASSUME TypeOK, QueueInv, QueueInv', WorkInv, NEW j \in Ids,
         OnFinished(j) \/ OnFailed(j) \/ OnCancelled(j)
  PROVE  /\ TypeOK' /\ WorkInv' /\ Narrows /\ next' = next /\ j \in active
         /\ OnFinished(j) => j \notin Tracked'
<1> DEFINE a == active \ {j}
           m == Head(channel)
<1>1. /\ channel # <<>> /\ channel' = Tail(channel) /\ m.id = j /\ m.type # "Progress"
      /\ StartNext(queue, a)
      /\ UNCHANGED <<next, job, conflict, elevated, undoing, trashing, asked, trashed, files>>
      /\ progress' = progress \ {j} /\ cancel' = cancel \ {j}
    BY DEF OnFinished, OnFailed, OnCancelled, Take, undos
<1>2. /\ channel' \in Seq(Transfer) /\ m \in Transfer
      /\ \A i \in Ids : Quiet(i) => Quiet(i)'
      /\ \A i \in Ids \ {j} : Once(i) => Once(i)'
      /\ ~Quiet(j) /\ (Once(j) => Quiet(j)')
  BY <1>1, TakeTells
<1>3. j \in active /\ ~Runs(j) /\ Quiet(j)'
  BY <1>2 DEF WorkInv, Told
<1>4. offer' \in {offer, j} /\ (OnFinished(j) => offer' = offer)
  BY DEF OnFinished, OnFailed, OnCancelled
<1>5. history' \subseteq history \cup ({j} \X {"Finished", "Cancelled", "Failed"})
  BY DEF OnFinished, OnFailed, OnCancelled
<1>6. job[j] \in Job /\ j \in 1..next
  <2>1. j \in 1..next
    BY <1>3, Bounds
  <2> QED
    BY <2>1 DEF WorkInv, TypeOK
<1>7. undo' \in Action \cup {None}
  <2>1. CASE OnFinished(j)
    <3>1. CASE undo' = Result(j, m.root) /\ m.root # None
      <4>1. m.root \in Slots
        BY <1>2, <3>1 DEF Transfer
      <4> QED
        BY <1>6, <3>1, <4>1, ResultIsAction
    <3>2. CASE undo' = undo
      BY <3>2 DEF TypeOK
    <3> QED
      BY <2>1, <3>1, <3>2 DEF OnFinished, Undoable
  <2>2. CASE OnFailed(j) \/ OnCancelled(j)
    BY <2>2 DEF OnFailed, OnCancelled, undos, TypeOK
  <2> QED
    BY <2>1, <2>2
<1>8. /\ next \in Nat /\ next <= MaxJobs /\ queue \in Seq(1..next) /\ active \subseteq 1..next
      /\ next \in 0..MaxJobs /\ elevated \subseteq 1..next /\ offer \in (1..next) \cup {None}
  <2>1. elevated \subseteq 1..next /\ offer \in (1..next) \cup {None}
    BY TrackedBounds
  <2>2. queue \in Seq(1..next) /\ active \subseteq 1..next
    BY DEF QueueInv, Lists
  <2>3. next \in 0..MaxJobs /\ MaxJobs \in Nat
    BY SchedulerAssumption DEF TypeOK
  <2> QED
    BY <2>1, <2>2, <2>3
<1>9. /\ Elems(queue) \cap (active \cup elevated) = {} /\ active \cap elevated = {}
      /\ offer \notin active \cup elevated \cup Elems(queue)
  BY DEF WorkInv, Apart
<1> HIDE DEF m
<1>10. WorkInv'
  <2>1. a \in SUBSET (1..next) /\ Elems(queue) \cap (a \cup elevated) = {} /\ a \cap elevated = {}
    BY <1>8, <1>9
  <2>2. offer' \notin a \cup elevated \cup Elems(queue) /\ offer' \in (1..next) \cup {None}
    BY <1>3, <1>4, <1>6, <1>8, <1>9
  <2>3. \A i \in 1..next : job'[i] # None
    BY <1>1 DEF WorkInv
  <2>4. \A i \in Elems(queue) : Quiet(i)' /\ i \notin active
    <3>1. Elems(queue) \subseteq Ids
      BY Bounds
    <3> QED
      BY <1>2, <1>9, <3>1 DEF WorkInv, Told
  <2>5. \A i \in a : /\ Runs(i) => Quiet(i)'
                     /\ ~Runs(i) => Once(i)'
    <3>1. a \subseteq Ids \ {j}
      BY <1>8, Bounds
    <3> QED
      BY <1>2, <3>1 DEF WorkInv, Told
  <2>6. \A i \in Ids \ (a \cup Elems(queue)) : Quiet(i)' /\ (i \notin elevated => ~Runs(i))
    BY <1>2, <1>3 DEF WorkInv, Told
  <2> HIDE DEF a
  <2> QED
    BY <1>1, <1>8, <2>1, <2>2, <2>3, <2>4, <2>5, <2>6, StartWorks
<1>11. /\ active' \subseteq a \cup Elems(queue) /\ Elems(queue') \subseteq Elems(queue)
       /\ worker' \in [Ids -> Worker]
  <2>1. a \in SUBSET (1..next)
    BY <1>8
  <2> HIDE DEF a
  <2> QED
    BY <1>1, <1>8, <2>1, StartNextMoves
<1>12. queue' \in Seq(Ids) /\ active' \subseteq Ids
  BY <1>1, <1>8, QueueTypes
<1>13. TypeOK'
  <2>1. /\ history' \subseteq Ids \X {"Finished", "Cancelled", "Failed"}
        /\ offer' \in Ids \cup {None}
        /\ progress' \subseteq Ids /\ cancel' \subseteq Ids
    BY <1>1, <1>4, <1>5 DEF TypeOK
  <2> QED
    BY <1>1, <1>2, <1>7, <1>11, <1>12, <2>1 DEF TypeOK, files
<1>14. Narrows
  BY <1>1, <1>3, <1>4, <1>11 DEF Narrows, Tracked
<1>15. OnFinished(j) => j \notin Tracked'
  BY <1>1, <1>3, <1>4, <1>9, <1>11 DEF Tracked
<1> QED
  BY <1>1, <1>3, <1>10, <1>13, <1>14, <1>15

LEMMA ProgressWorks ==
  ASSUME TypeOK, QueueInv, WorkInv, NEW j \in Ids, OnProgress(j)
  PROVE  TypeOK' /\ WorkInv' /\ Narrows /\ next' = next
<1>1. /\ channel # <<>> /\ channel' = Tail(channel) /\ Head(channel).type = "Progress"
      /\ progress' = progress \cup {j}
      /\ UNCHANGED <<next, job, queue, active, cancel, history, conflict, offer, elevated, worker,
                     undos, files>>
  BY DEF OnProgress, Take
<1>2. /\ channel' \in Seq(Transfer)
      /\ \A i : (Quiet(i) => Quiet(i)') /\ (Once(i) => Once(i)')
  BY <1>1, TakeTells
<1>3. TypeOK'
  BY <1>1, <1>2 DEF TypeOK, undos, files
<1>4. \A i \in Ids : Told(i)'
  BY <1>1, <1>2 DEF WorkInv, Told, Runs
<1>5. Tracked' = Tracked /\ Apart'
  BY <1>1 DEF Tracked, Apart, Elems, WorkInv
<1> QED
  BY <1>1, <1>3, <1>4, <1>5 DEF WorkInv, Narrows

LEMMA OfferWorks ==
  ASSUME TypeOK, QueueInv, WorkInv, ConfirmElevatedTransfer \/ CancelElevatedTransfer
  PROVE  TypeOK' /\ WorkInv' /\ Narrows /\ next' = next
<1>1. /\ offer \in 1..next /\ offer \in Ids /\ None \notin Ids /\ offer' = None
      /\ offer \notin active \cup elevated \cup Elems(queue)
      /\ UNCHANGED <<next, job, queue, active, cancel, history, channel, conflict, undos, files>>
  BY Bounds, TrackedBounds DEF ConfirmElevatedTransfer, CancelElevatedTransfer, WorkInv, Apart
<1>2. \A i : Terminal(i)' = Terminal(i)
  BY <1>1 DEF Terminal
<1>3. None \notin active \cup elevated \cup Elems(queue) /\ 1..next \subseteq Ids
  BY <1>1, Bounds, TrackedBounds
<1>4. CASE ConfirmElevatedTransfer
  <2>1. /\ elevated' = elevated \cup {offer} /\ progress' = progress \cup {offer}
        /\ worker' = [worker EXCEPT ![offer] = [Idle EXCEPT !.state = "ready"]]
    BY <1>4 DEF ConfirmElevatedTransfer
  <2>2. [Idle EXCEPT !.state = "ready"] \in Worker
    BY SchedulerAssumption DEF Idle, Worker
  <2>3. /\ worker' \in [Ids -> Worker]
        /\ \A i \in Ids \ {offer} : worker'[i] = worker[i]
    BY <1>1, <2>1, <2>2 DEF TypeOK
  <2>4. TypeOK'
    BY <1>1, <2>1, <2>3 DEF TypeOK, undos, files
  <2>5. ASSUME NEW i \in Ids PROVE Told(i)'
    <3>1. CASE i = offer
      BY <1>1, <1>2, <2>1, <3>1 DEF WorkInv, Told, Quiet
    <3>2. CASE i # offer
      BY <1>1, <1>2, <2>1, <2>3, <3>2 DEF WorkInv, Told, Runs, Quiet, Once
    <3> QED
      BY <3>1, <3>2
  <2>6. Tracked' \subseteq Tracked \cup {None} /\ Apart'
    BY <1>1, <1>3, <2>1 DEF WorkInv, Tracked, Apart, Elems
  <2>7. \A i \in 1..next : i # None
    BY <1>1, <1>3
  <2> QED
    BY <1>1, <2>4, <2>5, <2>6, <2>7 DEF WorkInv, Narrows
<1>5. CASE CancelElevatedTransfer
  <2>1. UNCHANGED <<progress, elevated, worker>>
    BY <1>5 DEF CancelElevatedTransfer
  <2>2. TypeOK'
    BY <1>1, <2>1 DEF TypeOK, undos, files
  <2>3. \A i \in Ids : Told(i)'
    BY <1>1, <1>2, <2>1 DEF WorkInv, Told, Runs, Quiet, Once
  <2>4. Tracked' \subseteq Tracked \cup {None} /\ Apart'
    BY <1>1, <1>3, <2>1 DEF WorkInv, Tracked, Apart, Elems
  <2>5. \A i \in 1..next : i # None
    BY <1>1, <1>3
  <2> QED
    BY <1>1, <2>2, <2>3, <2>4, <2>5 DEF WorkInv, Narrows
<1> QED
  BY <1>4, <1>5

LEMMA ElevatedEndWorks ==
  ASSUME TypeOK, QueueInv, WorkInv, NEW j \in Ids, ElevatedTransferFinished(j)
  PROVE  TypeOK' /\ WorkInv' /\ Narrows /\ next' = next /\ j \in Tracked /\ j \notin Tracked'
<1>1. /\ j \in elevated /\ elevated' = elevated \ {j} /\ progress' = progress \ {j}
      /\ worker' = [worker EXCEPT ![j].state = "over"]
      /\ UNCHANGED <<next, job, queue, active, cancel, history, channel, conflict, offer, undoing,
                     trashing, asked, trashed, files>>
  BY DEF ElevatedTransferFinished, SetWorker
<1>2. \A i : Terminal(i)' = Terminal(i)
  BY <1>1 DEF Terminal
<1>3. j \in 1..next /\ job[j] \in Job
  <2>1. j \in 1..next
    BY <1>1, TrackedBounds
  <2> QED
    BY <2>1 DEF WorkInv, TypeOK
<1>4. worker' \in [Ids -> Worker] /\ \A i \in Ids \ {j} : worker'[i] = worker[i]
  <2>1. worker \in [Ids -> Worker] /\ worker[j] \in Worker
    BY DEF TypeOK
  <2>2. [worker[j] EXCEPT !.state = "over"] \in Worker
    BY <2>1 DEF Worker
  <2>3. worker' = [worker EXCEPT ![j] = [worker[j] EXCEPT !.state = "over"]]
    BY <1>1, <2>1
  <2> QED
    BY <2>1, <2>2, <2>3
<1>5. worker'[j].state = "over"
  BY <1>1 DEF TypeOK, Worker
<1>6. undo' \in Action \cup {None}
  <2>1. CASE undo' = Result(j, worker[j].target) /\ worker[j].target # None
    <3>1. worker[j].target \in Slots
      BY <2>1 DEF TypeOK, Worker
    <3> QED
      BY <1>3, <2>1, <3>1, ResultIsAction
  <2>2. CASE undo' = undo
    BY <2>2 DEF TypeOK
  <2> QED
    BY <2>1, <2>2 DEF ElevatedTransferFinished, Undoable
<1>7. TypeOK'
  BY <1>1, <1>4, <1>6 DEF TypeOK, files
<1>8. j \notin active \cup Elems(queue) \cup {offer}
  BY <1>1 DEF WorkInv, Apart
<1>9. ASSUME NEW i \in Ids PROVE Told(i)'
  <2>1. CASE i = j
    BY <1>1, <1>2, <1>5, <1>8, <2>1 DEF WorkInv, Told, Runs, Quiet
  <2>2. CASE i # j
    BY <1>1, <1>2, <1>4, <2>2 DEF WorkInv, Told, Runs, Quiet, Once
  <2> QED
    BY <2>1, <2>2
<1>10. /\ Tracked' \subseteq Tracked /\ Apart' /\ j \in Tracked /\ j \notin Tracked'
  BY <1>1, <1>8 DEF WorkInv, Tracked, Apart, Elems
<1> QED
  BY <1>1, <1>7, <1>9, <1>10 DEF WorkInv, Narrows

-----------------------------------------------------------------------------
(* Undo.  What is held to be undone is told apart by the transfer that made  *)
(* it, which has left all the lists, or by its number at the trash.          *)

Held == ({undo} \ {None}) \cup {u.action : u \in undoing}

Settled(a) ==
  IF a.op = "Trash" THEN a.nth <= trashed /\ (trashing # None => a.nth < trashed)
  ELSE a.what \in 1..next /\ a.what \notin Tracked

ActsInv == (\A a \in Held : Settled(a)) /\ UndoHeldOnce

\* A step that holds no new action.
LEMMA ActsStay ==
  ASSUME TypeOK, TypeOK', ActsInv, Narrows, next <= next', undo' \in {undo, None},
         UNCHANGED <<undoing, trashing, trashed>>
  PROVE  ActsInv'
<1>1. next \in Nat /\ next' \in Nat /\ \A i : i \in 1..next => i \in 1..next'
  <2>1. next \in Nat /\ next' \in Nat
    BY DEF TypeOK
  <2> QED
    BY <2>1
<1>2. Held' \subseteq Held
  BY DEF Held
<1>3. ASSUME NEW a \in Held PROVE Settled(a)'
  BY <1>1, <1>3 DEF ActsInv, Settled, Narrows
<1>4. UndoHeldOnce'
  BY DEF ActsInv, UndoHeldOnce
<1> QED
  BY <1>2, <1>3, <1>4 DEF ActsInv

\* A step that ends a transfer and holds its undo.
LEMMA ActsEnd ==
  ASSUME TypeOK, TypeOK', ActsInv, Narrows, next' = next, NEW j \in 1..next, NEW root,
         j \in Tracked, j \notin Tracked', job[j] \in Job, undo' = Result(j, root),
         UNCHANGED <<undoing, trashing, trashed>>
  PROVE  ActsInv'
<1>1. undo'.op # "Trash" /\ undo'.what = j
  BY DEF Result, Job, Kind
<1>2. Settled(undo)'
  BY <1>1 DEF Settled
<1>3. ASSUME NEW u \in undoing PROVE Settled(u.action)' /\ u.action # undo'
  <2>1. u.action \in Held
    BY DEF Held
  <2> QED
    BY <1>1, <2>1 DEF ActsInv, Settled, Narrows
<1>4. UndoHeldOnce'
  BY <1>3 DEF ActsInv, UndoHeldOnce
<1>5. \A a \in Held' : Settled(a)'
  <2>1. Held' \subseteq {undo'} \cup {u.action : u \in undoing}
    BY DEF Held
  <2> QED
    BY <1>2, <1>3, <2>1 DEF Settled
<1> QED
  BY <1>4, <1>5 DEF ActsInv

\* The steps of the undo threads and of the trash touch no list.
LEMMA TransfersStay ==
  ASSUME WorkInv, UNCHANGED transfers
  PROVE  WorkInv' /\ Tracked' = Tracked /\ next' = next
<1>1. WorkInv'
  BY WorkStays DEF transfers
<1> QED
  BY <1>1 DEF transfers, Tracked, Elems

LEMMA UndoLastWorks ==
  ASSUME TypeOK, WorkInv, ActsInv, UndoLastAction
  PROVE  TypeOK' /\ WorkInv' /\ ActsInv'
<1> DEFINE new == [action |-> undo, state |-> "running"]
<1>1. /\ undo # None /\ undo' = None /\ undoing' = undoing \cup {new} /\ asked' = asked + 1
      /\ asked < MaxUndos /\ UNCHANGED <<transfers, trashing, trashed, files>>
  BY DEF UndoLastAction
<1>2. new.action = undo /\ undo \in Action /\ new \in Undoing
  BY <1>1 DEF TypeOK, Undoing
<1> HIDE DEF new
<1>3. WorkInv' /\ Tracked' = Tracked /\ next' = next
  BY <1>1, TransfersStay
<1>4. TypeOK'
  <2>1. asked' \in 0..MaxUndos
    BY <1>1, SchedulerAssumption DEF TypeOK
  <2> QED
    BY <1>1, <1>2, <2>1 DEF TypeOK, transfers, files
<1>5. Held' \subseteq Held
  BY <1>1, <1>2 DEF Held
<1>6. \A a \in Held : Settled(a)'
  BY <1>1, <1>3 DEF ActsInv, Settled
<1>7. UndoHeldOnce'
  BY <1>1, <1>2 DEF ActsInv, UndoHeldOnce
<1> QED
  BY <1>3, <1>4, <1>5, <1>6, <1>7 DEF ActsInv

\* A thread that has done its work still holds the same action.
LEMMA ThreadHolds ==
  ASSUME TypeOK, ActsInv, NEW u \in undoing, NEW state \in {"ok", "err"},
         undoing' = (undoing \ {u}) \cup {[u EXCEPT !.state = state]},
         next' = next, Tracked' = Tracked, UNCHANGED <<undo, trashing, trashed>>
  PROVE  ActsInv' /\ undoing' \subseteq Undoing
<1> DEFINE new == [u EXCEPT !.state = state]
<1>1. u \in Undoing
  BY DEF TypeOK
<1>2. new \in Undoing /\ new.action = u.action
  BY <1>1 DEF Undoing
<1> HIDE DEF new
<1>3. undoing' = (undoing \ {u}) \cup {new}
  BY DEF new
<1>4. Held' \subseteq Held
  BY <1>2, <1>3 DEF Held
<1>5. \A a \in Held : Settled(a)'
  BY DEF ActsInv, Settled
<1>6. UndoHeldOnce'
  BY <1>2, <1>3 DEF ActsInv, UndoHeldOnce
<1> QED
  BY <1>2, <1>3, <1>4, <1>5, <1>6 DEF ActsInv, TypeOK

LEMMA UndoThreadWorks ==
  ASSUME TypeOK, QueueInv, WorkInv, ActsInv, NEW u \in undoing,
         UndoWorks(u) \/ UndoFails(u) \/ UndoFinished(u)
  PROVE  TypeOK' /\ WorkInv' /\ ActsInv'
<1>1. UNCHANGED <<transfers, trashing, asked, trashed>>
  BY DEF UndoWorks, UndoFails, UndoFinished
<1>2. WorkInv' /\ Tracked' = Tracked /\ next' = next
  BY <1>1, TransfersStay
<1>3. u \in Undoing /\ u.action \in Action /\ u.action \in Held /\ Settled(u.action)
  BY DEF TypeOK, Undoing, Held, ActsInv
<1>4. CASE UndoWorks(u)
  <2>1. ActsInv' /\ undoing' \subseteq Undoing
    BY <1>1, <1>2, <1>4, ThreadHolds DEF UndoWorks
  <2> DEFINE a == u.action
  <2>2. a.op \in {"Copy", "Move", "Trash"} /\ a.slot \in Slots /\ a.what \in Contents
    BY <1>3 DEF Action
  <2>3. sources' \subseteq Ids
    <3>1. a.op = "Move" => a.what \in Ids
      BY <1>3, Bounds DEF Settled
    <3>2. sources' = sources \/ (a.op = "Move" /\ sources' = sources \cup {a.what})
      BY <1>4, <2>2 DEF UndoWorks
    <3> QED
      BY <3>1, <3>2 DEF TypeOK
  <2>4. disk' \in [Slots -> Contents \cup {None}] /\ overtaken' \subseteq Ids
    BY <1>4, <2>2 DEF UndoWorks, TypeOK, CopyingTo
  <2>5. TypeOK'
    BY <1>1, <1>4, <2>1, <2>3, <2>4 DEF TypeOK, transfers, UndoWorks
  <2> QED
    BY <1>2, <2>1, <2>5
<1>5. CASE UndoFails(u)
  <2>1. ActsInv' /\ undoing' \subseteq Undoing
    BY <1>1, <1>2, <1>5, ThreadHolds DEF UndoFails
  <2>2. TypeOK'
    BY <1>1, <1>5, <2>1 DEF TypeOK, transfers, files, UndoFails
  <2> QED
    BY <1>2, <2>1, <2>2
<1>6. CASE UndoFinished(u)
  <2>1. /\ undoing' = undoing \ {u} /\ undo' \in {undo, u.action} /\ UNCHANGED files
    BY <1>6 DEF UndoFinished
  <2>2. TypeOK'
    BY <1>1, <1>3, <2>1 DEF TypeOK, transfers, files
  <2>3. Held' \subseteq Held
    BY <2>1 DEF Held
  <2>4. \A a \in Held : Settled(a)'
    BY <1>1, <1>2 DEF ActsInv, Settled
  <2>5. UndoHeldOnce'
    BY <2>1 DEF ActsInv, UndoHeldOnce
  <2> QED
    BY <1>2, <2>2, <2>3, <2>4, <2>5 DEF ActsInv
<1> QED
  BY <1>4, <1>5, <1>6

LEMMA TrashMoves ==
  ASSUME TypeOK, WorkInv, ActsInv, MoveToTrash \/ TrashWorks \/ TrashFinished
  PROVE  TypeOK' /\ WorkInv' /\ ActsInv'
<1>1. UNCHANGED <<transfers, undoing, asked, sources, overtaken>>
  BY DEF MoveToTrash, TrashWorks, TrashFinished, files
<1>2. WorkInv' /\ Tracked' = Tracked /\ next' = next
  BY <1>1, TransfersStay
<1>3. None \notin Action /\ None \notin Trashing /\ trashed \in Nat /\ MaxTrashes \in Nat
  BY NoneAssumption, SchedulerAssumption DEF TypeOK
<1>4. \A a \in Held : a \in Action /\ a.nth \in Nat /\ Settled(a)
  <2>1. \A a \in Held : a \in Action
    BY DEF Held, TypeOK, Undoing
  <2> QED
    BY <2>1 DEF Action, ActsInv
<1>5. CASE MoveToTrash
  <2>1. /\ trashing = None /\ trashed < MaxTrashes /\ trashed' = trashed + 1 /\ undo' = None
        /\ UNCHANGED files
    BY <1>5 DEF MoveToTrash
  <2>2. trashing' \in Trashing
    BY <1>5 DEF MoveToTrash, Trashing, TypeOK
  <2>3. TypeOK'
    BY <1>1, <1>3, <2>1, <2>2 DEF TypeOK, transfers, files
  <2>4. Held' \subseteq Held
    BY <1>1, <2>1 DEF Held
  <2>5. \A a \in Held : Settled(a)'
    BY <1>2, <1>3, <1>4, <2>1 DEF Settled
  <2>6. UndoHeldOnce'
    BY <1>1, <2>1 DEF ActsInv, UndoHeldOnce
  <2> QED
    BY <1>2, <2>3, <2>4, <2>5, <2>6 DEF ActsInv
<1>6. CASE TrashWorks
  <2>1. trashing # None /\ trashing \in Trashing /\ UNCHANGED <<undo, trashed>>
    BY <1>6 DEF TrashWorks, TypeOK
  <2>2. trashing' \in Trashing /\ disk' \in [Slots -> Contents \cup {None}]
    <3>1. disk \in [Slots -> Contents \cup {None}] /\ trashing.slot \in Slots
      BY <2>1 DEF TypeOK, Trashing
    <3>2. disk[trashing.slot] # None => disk[trashing.slot] \in Contents
      BY <3>1
    <3> QED
      BY <1>6, <2>1, <3>1, <3>2 DEF TrashWorks, Trashing
  <2>3. TypeOK'
    BY <1>1, <2>1, <2>2 DEF TypeOK, transfers
  <2>4. Held' = Held
    BY <1>1, <2>1 DEF Held
  <2>5. \A a \in Held : Settled(a)'
    BY <1>2, <1>4, <2>1 DEF Settled
  <2>6. UndoHeldOnce'
    BY <1>1, <2>1 DEF ActsInv, UndoHeldOnce
  <2> QED
    BY <1>2, <2>3, <2>4, <2>5, <2>6 DEF ActsInv
<1>7. CASE TrashFinished
  <2>1. trashing # None /\ trashing \in Trashing /\ trashing' = None /\ UNCHANGED <<trashed, files>>
    BY <1>7 DEF TrashFinished, TypeOK
  <2>2. PICK new \in Action : new.op = "Trash" /\ new.nth = trashed /\ undo' \in {undo, new}
    <3> DEFINE n == [op |-> "Trash", slot |-> trashing.slot, what |-> trashing.what,
                     nth |-> trashed]
    <3>1. n \in Action /\ n.op = "Trash" /\ n.nth = trashed
      BY <2>1 DEF Action, Trashing, TypeOK
    <3>2. undo' \in {undo, n}
      BY <1>7 DEF TrashFinished
    <3> QED
      BY <3>1, <3>2
  <2>3. TypeOK'
    BY <1>1, <2>1, <2>2 DEF TypeOK, transfers, files
  <2>4. Held' \subseteq Held \cup {new}
    BY <1>1, <2>2 DEF Held
  <2>5. \A a \in Held : Settled(a)' /\ a # new
    BY <1>2, <1>3, <1>4, <2>1, <2>2 DEF Settled
  <2>6. Settled(new)'
    BY <1>3, <2>1, <2>2 DEF Settled
  <2>7. UndoHeldOnce'
    <3>1. \A u \in undoing : u.action # new
      BY <2>5 DEF Held
    <3> QED
      BY <1>1, <2>2, <3>1 DEF ActsInv, UndoHeldOnce
  <2> QED
    BY <1>2, <2>3, <2>4, <2>5, <2>6, <2>7 DEF ActsInv
<1> QED
  BY <1>5, <1>6, <1>7

-----------------------------------------------------------------------------
(* The invariant of the specification.                                      *)

WorkersInv == TypeOK /\ QueueInv /\ WorkInv /\ ActsInv

LEMMA WorkersInit == Init => WorkersInv
<1> SUFFICES ASSUME Init PROVE WorkersInv
  OBVIOUS
<1>1. MaxJobs \in Nat /\ MaxUndos \in Nat /\ MaxTrashes \in Nat /\ 0 \in Contents
  BY SchedulerAssumption DEF Contents
<1>2. Idle \in Worker
  BY SchedulerAssumption DEF Idle, Worker
<1>3. Occupied \subseteq Slots
  BY SchedulerAssumption
<1>4. /\ next = 0 /\ queue = <<>> /\ channel = <<>> /\ active = {} /\ elevated = {}
      /\ offer = None /\ undo = None /\ undoing = {} /\ worker = [j \in Ids |-> Idle]
  BY DEF Init
<1>5. TypeOK
  BY <1>1, <1>2, <1>3 DEF Init, TypeOK
<1>6. \A j : Quiet(j)
  BY <1>4 DEF Quiet, Terminal
<1>7. \A j \in Ids : Told(j)
  BY <1>4, <1>6 DEF Told, Runs, Idle
<1>8. Tracked = {None} /\ Apart
  BY <1>4 DEF Tracked, Apart, Elems
<1>9. WorkInv
  BY <1>4, <1>7, <1>8 DEF WorkInv
<1>10. ActsInv
  BY <1>4 DEF ActsInv, Held, UndoHeldOnce
<1> QED
  BY <1>5, <1>9, <1>10, QueueInit DEF WorkersInv

LEMMA WorkersStep == WorkersInv /\ [Next]_vars => WorkersInv'
<1> SUFFICES ASSUME WorkersInv, [Next]_vars PROVE WorkersInv'
  OBVIOUS
<1> USE DEF WorkersInv
<1>1. QueueInv'
  BY QueueStep
<1>2. next <= next
  BY DEF TypeOK
<1>3. CASE RequestTransfer \/ ResolveTransferConflict
  <2>1. TypeOK' /\ WorkInv' /\ Narrows /\ next <= next'
    BY <1>1, <1>3, RequestWorks
  <2>2. undo' \in {undo, None} /\ UNCHANGED <<undoing, trashing, trashed>>
    BY <1>3 DEF RequestTransfer, ResolveTransferConflict, QueueTransfer
  <2> QED
    BY <1>1, <2>1, <2>2, ActsStay
<1>4. ASSUME NEW j \in Ids, CancelActive(j) \/ CancelQueued(j) \/ CancelTransferConflict
      PROVE WorkersInv'
  <2>1. TypeOK' /\ WorkInv' /\ Narrows /\ next' = next
    BY <1>1, <1>4, CancelWorks
  <2>2. UNCHANGED <<undo, undoing, trashing, trashed>>
    BY <1>4 DEF CancelActive, CancelQueued, CancelTransferConflict, undos
  <2> QED
    BY <1>1, <1>2, <2>1, <2>2, ActsStay
<1>5. ASSUME NEW j \in Ids, Work(j) PROVE WorkersInv'
  <2>1. TypeOK' /\ WorkInv' /\ Narrows /\ next' = next
    BY <1>5, WorkWorks
  <2>2. UNCHANGED <<undo, undoing, trashing, trashed>>
    BY <1>5, WorkTypes DEF WorkerOnly, undos
  <2> QED
    BY <1>1, <1>2, <2>1, <2>2, ActsStay
<1>6. ASSUME NEW j \in Ids, ElevatedTransferFinished(j) PROVE WorkersInv'
  <2>1. /\ TypeOK' /\ WorkInv' /\ Narrows /\ next' = next /\ j \in Tracked /\ j \notin Tracked'
    BY <1>6, ElevatedEndWorks
  <2>2. /\ undo' = undo \/ \E root : undo' = Result(j, root)
        /\ UNCHANGED <<undoing, trashing, trashed>>
    BY <1>6 DEF ElevatedTransferFinished
  <2>3. j \in 1..next /\ job[j] \in Job
    <3>1. j \in 1..next
      BY <2>1, Bounds DEF WorkInv
    <3> QED
      BY <3>1 DEF WorkInv, TypeOK
  <2> QED
    BY <1>1, <1>2, <2>1, <2>2, <2>3, ActsStay, ActsEnd
<1>7. ASSUME NEW j \in Ids, OnProgress(j) PROVE WorkersInv'
  <2>1. TypeOK' /\ WorkInv' /\ Narrows /\ next' = next
    BY <1>7, ProgressWorks
  <2>2. UNCHANGED <<undo, undoing, trashing, trashed>>
    BY <1>7 DEF OnProgress, undos
  <2> QED
    BY <1>1, <1>2, <2>1, <2>2, ActsStay
<1>8. ASSUME NEW j \in Ids, OnFinished(j) \/ OnFailed(j) \/ OnCancelled(j) PROVE WorkersInv'
  <2>1. /\ TypeOK' /\ WorkInv' /\ Narrows /\ next' = next /\ j \in active
        /\ OnFinished(j) => j \notin Tracked'
    BY <1>1, <1>8, EndWorks
  <2>2. /\ undo' = undo \/ (OnFinished(j) /\ \E root : undo' = Result(j, root))
        /\ UNCHANGED <<undoing, trashing, trashed>>
    BY <1>8 DEF OnFinished, OnFailed, OnCancelled, undos
  <2>3. j \in 1..next /\ job[j] \in Job /\ j \in Tracked
    <3>1. j \in 1..next
      BY <2>1, Bounds
    <3> QED
      BY <2>1, <3>1 DEF WorkInv, TypeOK, Tracked
  <2> QED
    BY <1>1, <1>2, <2>1, <2>2, <2>3, ActsStay, ActsEnd
<1>9. CASE ConfirmElevatedTransfer \/ CancelElevatedTransfer
  <2>1. TypeOK' /\ WorkInv' /\ Narrows /\ next' = next
    BY <1>9, OfferWorks
  <2>2. UNCHANGED <<undo, undoing, trashing, trashed>>
    BY <1>9 DEF ConfirmElevatedTransfer, CancelElevatedTransfer, undos
  <2> QED
    BY <1>1, <1>2, <2>1, <2>2, ActsStay
<1>10. CASE UndoLastAction
  BY <1>1, <1>10, UndoLastWorks
<1>11. CASE UndoThread
  BY <1>1, <1>11, UndoThreadWorks DEF UndoThread
<1>12. CASE MoveToTrash \/ TrashWorks \/ TrashFinished
  BY <1>1, <1>12, TrashMoves
<1>13. CASE UNCHANGED vars
  <2>1. TypeOK'
    BY <1>13 DEF TypeOK, vars, transfers, undos, files
  <2>2. WorkInv' /\ Tracked' = Tracked /\ next' = next
    BY <1>13, TransfersStay DEF vars
  <2>3. undo' = undo /\ UNCHANGED <<undoing, trashing, trashed>>
    BY <1>13 DEF vars, undos
  <2> QED
    BY <1>1, <1>2, <2>1, <2>2, <2>3, ActsStay DEF Narrows
<1>14. CASE CancelTransferConflict
  <2>1. /\ UNCHANGED <<next, job, queue, active, cancel, progress, history, channel, offer, elevated,
                       worker, undos, files>>
        /\ conflict' = None
    BY <1>14 DEF CancelTransferConflict
  <2>2. TypeOK'
    BY <2>1 DEF TypeOK, undos, files
  <2>3. WorkInv' /\ Narrows
    BY <2>1, WorkStays DEF Narrows, Tracked, Elems
  <2> QED
    BY <1>1, <1>2, <2>1, <2>2, <2>3, ActsStay DEF undos
<1> QED
  BY <1>3, <1>4, <1>5, <1>6, <1>7, <1>8, <1>9, <1>10, <1>11, <1>12, <1>13, <1>14
     DEF Next, Poll, Rest

-----------------------------------------------------------------------------
(* Every variable keeps its type: no thread, message, list or action ever   *)
(* names a transfer that was not asked for (`Init` and every handler).      *)
THEOREM TypeCorrect == Spec => []TypeOK
<1>1. WorkersInv => TypeOK
  BY DEF WorkersInv
<1> QED
  BY <1>1, WorkersInit, WorkersStep, PTL DEF Spec

(* Every active transfer has a thread at work or exactly one terminal message *)
(* on its way, and nothing else has: poll_transfer_messages gives each place *)
(* back once, whatever ends the transfer and whatever was asked meanwhile.   *)
THEOREM PlacesGivenBack == Spec => []ActiveHasWorker
<1>1. WorkInv => ActiveHasWorker
  <2> SUFFICES ASSUME WorkInv PROVE ActiveHasWorker
    OBVIOUS
  <2>1. \A j : Once(j) => Cardinality(Terminal(j)) = 1
    BY FS_Singleton DEF Once
  <2> QED
    BY <2>1 DEF WorkInv, Told, Runs, Quiet, Apart, ActiveHasWorker
<1>2. WorkersInv => ActiveHasWorker
  BY <1>1 DEF WorkersInv
<1> QED
  BY <1>2, WorkersInit, WorkersStep, PTL DEF Spec

(* One completed action is never undone twice at once: undo_last_action takes *)
(* it out of the window before the thread starts, and puts it back only after *)
(* an error.                                                                  *)
THEOREM UndosHeldOnce == Spec => []UndoHeldOnce
<1>1. WorkersInv => UndoHeldOnce
  BY DEF WorkersInv, ActsInv
<1> QED
  BY <1>1, WorkersInit, WorkersStep, PTL DEF Spec

-----------------------------------------------------------------------------
(* What the window shows.  Every transfer that is listed has an entry in     *)
(* transfer_progress; one with an end in the history has left the lists, has *)
(* no entry and no message on its way, so nothing can bring the entry back.  *)

Past  == {h[1] : h \in history}
Heard == {channel[i].id : i \in 1..Len(channel)}

\* A terminal message is the last of its transfer.
LastWord ==
  \A i, k \in 1..Len(channel) :
    i < k /\ channel[i].id = channel[k].id => channel[i].type = "Progress"

ShownInv ==
  /\ Elems(queue) \cup active \cup elevated \subseteq progress
  /\ Past \subseteq (1..next) \ (Tracked \cup progress \cup Heard)
  /\ Heard \subseteq (1..next) \ Elems(queue)
  /\ LastWord

LEMMA SendHeard ==
  ASSUME TypeOK, LastWord, NEW m \in Transfer, Quiet(m.id), channel' = Append(channel, m)
  PROVE  Heard' = Heard \cup {m.id} /\ LastWord'
<1>1. /\ Len(channel) \in Nat /\ Len(channel') = Len(channel) + 1
      /\ \A i \in 1..Len(channel) : channel'[i] = channel[i]
      /\ channel'[Len(channel) + 1] = m
  BY AppendProperties DEF TypeOK
<1>2. 1..Len(channel') = 1..Len(channel) \cup {Len(channel) + 1}
  BY <1>1
<1>3. Heard' = Heard \cup {m.id}
  BY <1>1, <1>2 DEF Heard
<1>4. ASSUME NEW i \in 1..Len(channel'), NEW k \in 1..Len(channel'), i < k,
             channel'[i].id = channel'[k].id
      PROVE  channel'[i].type = "Progress"
  <2>1. i \in 1..Len(channel)
    BY <1>1, <1>2, <1>4
  <2>2. CASE k \in 1..Len(channel)
    BY <1>1, <1>4, <2>1, <2>2 DEF LastWord
  <2>3. CASE k = Len(channel) + 1
    BY <1>1, <1>4, <2>1, <2>3 DEF Quiet, Terminal
  <2> QED
    BY <1>2, <2>2, <2>3
<1> QED
  BY <1>3, <1>4 DEF LastWord

LEMMA TakeHeard ==
  ASSUME TypeOK, LastWord, channel # <<>>, channel' = Tail(channel)
  PROVE  /\ Heard' \subseteq Heard /\ Head(channel).id \in Heard /\ LastWord'
         /\ Head(channel).type # "Progress" => Head(channel).id \notin Heard'
<1>1. /\ Head(channel) = channel[1]
      /\ Len(channel) \in Nat \ {0} /\ Len(channel') = Len(channel) - 1
      /\ \A i \in 1..Len(channel') : channel'[i] = channel[i + 1]
  BY HeadTailProperties, EmptySeq DEF TypeOK
<1>2. \A i \in 1..Len(channel') : i + 1 \in 1..Len(channel) /\ 1 < i + 1
  BY <1>1
<1>3. 1 \in 1..Len(channel)
  BY <1>1
<1>4. Heard' \subseteq Heard /\ Head(channel).id \in Heard
  BY <1>1, <1>2, <1>3 DEF Heard
<1>5. LastWord'
  <2>1. \A i, k \in 1..Len(channel') : i < k => i + 1 < k + 1
    BY <1>1
  <2> QED
    BY <1>1, <1>2, <2>1 DEF LastWord
<1>6. ASSUME Head(channel).type # "Progress", Head(channel).id \in Heard' PROVE FALSE
  <2>1. PICK i \in 1..Len(channel') : channel'[i].id = Head(channel).id
    BY <1>6 DEF Heard
  <2> QED
    BY <1>1, <1>2, <1>3, <1>6, <2>1 DEF LastWord
<1> QED
  BY <1>4, <1>5, <1>6

\* What start_next_transfers leaves in the lists.
LEMMA StartNextKeeps ==
  ASSUME NEW n \in Nat, NEW q \in Seq(1..n), NEW a \in SUBSET (1..n), StartNext(q, a)
  PROVE  /\ active' \cup Elems(queue') \subseteq a \cup Elems(q)
         /\ Elems(queue') \subseteq Elems(q)
  BY StartNextMoves

LEMMA AppendElems ==
  ASSUME NEW n \in Nat, NEW q \in Seq(1..n)
  PROVE  Append(q, n + 1) \in Seq(1..(n + 1)) /\ Elems(Append(q, n + 1)) = Elems(q) \cup {n + 1}
<1> DEFINE r == Append(q, n + 1)
<1>1. q \in Seq(1..(n + 1)) /\ n + 1 \in 1..(n + 1) /\ Len(q) \in Nat
  <2>1. \A i \in 1..Len(q) : q[i] \in 1..(n + 1)
    BY ElementOfSeq
  <2> QED
    BY <2>1
<1>2. /\ r \in Seq(1..(n + 1)) /\ Len(r) = Len(q) + 1 /\ r[Len(q) + 1] = n + 1
      /\ \A i \in 1..Len(q) : r[i] = q[i]
  BY <1>1, AppendProperties
<1>3. 1..Len(r) = 1..Len(q) \cup {Len(q) + 1}
  BY <1>1, <1>2
<1> HIDE DEF r
<1>4. Elems(r) = Elems(q) \cup {n + 1}
  BY <1>2, <1>3 DEF Elems
<1> QED
  BY <1>2, <1>4 DEF r

\* A step that says nothing and takes no transfer up.
LEMMA ShownStays ==
  ASSUME ShownInv, UNCHANGED <<next, channel, history>>,
         Tracked' \subseteq Tracked \cup {None}, None \notin 1..next,
         Elems(queue') \subseteq Elems(queue),
         Elems(queue') \cup active' \cup elevated' \subseteq progress',
         progress' \subseteq progress \cup Tracked
  PROVE  ShownInv'
<1>1. Heard' = Heard /\ Past' = Past /\ LastWord'
  BY DEF Heard, Past, LastWord, ShownInv
<1> QED
  BY <1>1 DEF ShownInv

\* The end of j, of which no other message is under way.
LEMMA ShownEnds ==
  ASSUME ShownInv, NEW j \in 1..next, next' = next, j \notin Heard', Heard' \subseteq Heard,
         LastWord', progress' = progress \ {j}, Past' \subseteq Past \cup {j},
         Tracked' \subseteq Tracked \cup {None, j}, None \notin 1..next,
         j \notin Elems(queue') \cup active' \cup elevated',
         Elems(queue') \cup active' \cup elevated' \subseteq Elems(queue) \cup active \cup elevated,
         Elems(queue') \subseteq Elems(queue),
         j \in Tracked' => Past' \subseteq Past, j \notin Past
  PROVE  ShownInv'
<1>1. Elems(queue') \cup active' \cup elevated' \subseteq progress'
  BY DEF ShownInv
<1>2. Heard' \subseteq (1..next') \ Elems(queue')
  BY DEF ShownInv
<1>3. ASSUME NEW i \in Past'
      PROVE  i \in 1..next /\ i \notin Tracked' /\ i \notin progress' /\ i \notin Heard'
  BY <1>3 DEF ShownInv
<1> QED
  BY <1>1, <1>2, <1>3 DEF ShownInv

LEMMA ShownTransfer ==
  ASSUME TypeOK, QueueInv, WorkInv, ShownInv, next < MaxJobs,
         NEW kind \in Kind, NEW policy \in Policy, QueueTransfer(kind, policy),
         UNCHANGED <<elevated, offer, channel, history>>
  PROVE  ShownInv'
<1> DEFINE n == next + 1
           q == Append(queue, n)
<1>1. next' = n /\ progress' = progress \cup {n} /\ StartNext(q, active)
  BY DEF QueueTransfer
<1>2. /\ next \in Nat /\ n \in Nat /\ 1..n = 1..next \cup {n} /\ n \notin 1..next
  BY DEF QueueInv
<1>3. q \in Seq(1..n) /\ Elems(q) = Elems(queue) \cup {n} /\ active \in SUBSET (1..n)
  <2>1. queue \in Seq(1..next) /\ active \subseteq 1..next
    BY DEF QueueInv, Lists
  <2> QED
    BY <1>2, <2>1, AppendElems
<1> HIDE DEF n, q
<1>4. /\ active' \cup Elems(queue') \subseteq active \cup Elems(q)
      /\ Elems(queue') \subseteq Elems(q)
  BY <1>1, <1>2, <1>3, StartNextKeeps
<1>5. Heard' = Heard /\ Past' = Past /\ LastWord'
  BY DEF Heard, Past, LastWord, ShownInv
<1>6. Elems(queue') \cup active' \cup elevated' \subseteq progress'
  BY <1>1, <1>3, <1>4 DEF ShownInv
<1>7. Tracked' \subseteq Tracked \cup {n}
  BY <1>3, <1>4 DEF Tracked
<1> QED
  BY <1>1, <1>2, <1>3, <1>4, <1>5, <1>6, <1>7 DEF ShownInv

LEMMA WithoutForgets ==
  ASSUME NEW S, NEW q \in Seq(S), Distinct(q), NEW i \in 1..Len(q)
  PROVE  q[i] \notin Elems(Without(q, i))
<1>1. Len(q) \in Nat \ {0} /\ i \in Nat
  BY EmptySeq
<1>2. Len(Without(q, i)) = Len(q) - 1
  BY <1>1 DEF Without
<1>3. ASSUME NEW k \in 1..(Len(q) - 1) PROVE Without(q, i)[k] # q[i]
  <2>1. k \in 1..Len(q) /\ k + 1 \in 1..Len(q) /\ k \in Nat
    BY <1>1
  <2>2. CASE k < i
    BY <1>1, <2>1, <2>2 DEF Without, Distinct
  <2>3. CASE ~(k < i)
    BY <1>1, <2>1, <2>3 DEF Without, Distinct
  <2> QED
    BY <2>2, <2>3
<1> QED
  BY <1>2, <1>3 DEF Elems

LEMMA ShownCancel ==
  ASSUME TypeOK, QueueInv, WorkInv, ShownInv, NEW j \in Ids, CancelQueued(j)
  PROVE  ShownInv'
<1>1. PICK i \in 1..Len(queue) : queue[i] = j /\ queue' = Without(queue, i)
  BY DEF CancelQueued
<1>2. /\ progress' = progress \ {j} /\ history' = history \cup {<<j, "Cancelled">>}
      /\ UNCHANGED <<next, active, channel, offer, elevated>>
  BY DEF CancelQueued
<1>3. Elems(queue') \subseteq Elems(queue) /\ j \notin Elems(queue') /\ j \in Elems(queue)
  <2>1. queue \in Seq(1..next) /\ Distinct(queue)
    BY DEF QueueInv, Lists
  <2>2. j \in Elems(queue)
    BY <1>1 DEF Elems
  <2> QED
    BY <1>1, <2>1, <2>2, WithoutEntries, WithoutForgets
<1>4. j \notin active \cup elevated \cup {offer}
  BY <1>3 DEF WorkInv, Apart
<1>5. j \in 1..next /\ None \notin 1..next /\ j \in Tracked
  BY <1>3, Bounds DEF Tracked
<1>6. Heard' = Heard /\ LastWord' /\ Past' \subseteq Past \cup {j}
  BY <1>2 DEF Heard, Past, LastWord, ShownInv
<1>7. Tracked' \subseteq Tracked /\ j \notin Tracked'
  BY <1>2, <1>3, <1>4 DEF Tracked
<1>8. j \notin Heard /\ j \notin Past
  BY <1>3, <1>5 DEF ShownInv
<1> QED
  BY <1>2, <1>3, <1>4, <1>5, <1>6, <1>7, <1>8, ShownEnds

LEMMA ShownWork ==
  ASSUME TypeOK, QueueInv, WorkInv, ShownInv, NEW j \in Ids, Work(j)
  PROVE  ShownInv'
<1>1. /\ Runs(j)
      /\ UNCHANGED <<next, job, queue, active, cancel, progress, history, conflict, offer,
                     elevated, undos>>
  BY WorkTypes DEF WorkerOnly
<1>2. j \in active \cup elevated /\ Quiet(j)
  BY <1>1, WorkerIds
<1>3. /\ j \in 1..next /\ j \in Tracked /\ j \notin Elems(queue)
  <2>1. j \in 1..next
    BY <1>2, Bounds, TrackedBounds
  <2> QED
    BY <1>2, <2>1 DEF Tracked, WorkInv, Apart
<1>4. Tracked' = Tracked /\ Past' = Past /\ Elems(queue') = Elems(queue)
  BY <1>1 DEF Tracked, Past, Elems
<1>5. CASE UNCHANGED channel
  <2>1. Heard' = Heard /\ LastWord'
    BY <1>5 DEF Heard, LastWord, ShownInv
  <2> QED
    BY <1>1, <1>4, <2>1 DEF ShownInv
<1>6. CASE \E m \in Transfer : m.id = j /\ channel' = Append(channel, m)
  <2>1. Heard' = Heard \cup {j} /\ LastWord'
    BY <1>2, <1>6, SendHeard DEF ShownInv
  <2> QED
    BY <1>1, <1>3, <1>4, <2>1 DEF ShownInv
<1>7. \/ UNCHANGED channel
      \/ \E type \in {"Progress", "Finished", "Failed", "Cancelled"}, root \in Slots \cup {None},
            denied \in BOOLEAN :
           channel' = Append(channel, [type |-> type, id |-> j, root |-> root, denied |-> denied])
  <2>1. worker[j].target \in Slots \cup {None} /\ Denials \subseteq BOOLEAN
    BY SchedulerAssumption DEF TypeOK, Worker
  <2>2. CASE Reserve(j) \/ SendProgress(j) \/ StopJob(j)
    BY <2>2 DEF Reserve, SendProgress, StopJob, Send
  <2>3. CASE Succeed(j)
    BY <2>1, <2>3 DEF Succeed, Send
  <2>4. CASE FailJob(j)
    BY <2>1, <2>4 DEF FailJob, Send
  <2> QED
    BY <2>2, <2>3, <2>4 DEF Work
<1>8. UNCHANGED channel \/ \E m \in Transfer : m.id = j /\ channel' = Append(channel, m)
  BY <1>7 DEF Transfer
<1> QED
  BY <1>5, <1>6, <1>8

LEMMA ShownProgress ==
  ASSUME TypeOK, QueueInv, WorkInv, ShownInv, NEW j \in Ids, OnProgress(j)
  PROVE  ShownInv'
<1>1. /\ channel # <<>> /\ channel' = Tail(channel) /\ Head(channel).id = j
      /\ progress' = progress \cup {j}
      /\ UNCHANGED <<next, queue, active, history, offer, elevated>>
  BY DEF OnProgress, Take
<1>2. Heard' \subseteq Heard /\ j \in Heard /\ LastWord'
  BY <1>1, TakeHeard DEF ShownInv
<1>3. Tracked' = Tracked /\ Past' = Past /\ Elems(queue') = Elems(queue)
  BY <1>1 DEF Tracked, Past, Elems
<1> QED
  BY <1>1, <1>2, <1>3 DEF ShownInv

LEMMA ShownEnd ==
  ASSUME TypeOK, QueueInv, QueueInv', WorkInv, ShownInv, NEW j \in Ids,
         OnFinished(j) \/ OnFailed(j) \/ OnCancelled(j)
  PROVE  ShownInv'
<1> DEFINE a == active \ {j}
<1>1. /\ channel # <<>> /\ channel' = Tail(channel) /\ Head(channel).id = j
      /\ Head(channel).type # "Progress"
      /\ StartNext(queue, a) /\ UNCHANGED <<next, elevated>> /\ progress' = progress \ {j}
  BY DEF OnFinished, OnFailed, OnCancelled, Take
<1>2. Heard' \subseteq Heard /\ j \in Heard /\ j \notin Heard' /\ LastWord'
  BY <1>1, TakeHeard DEF ShownInv
<1>3. j \in active
  BY EndWorks
<1>4. \/ /\ offer' = offer
         /\ history' \subseteq history \cup ({j} \X {"Finished", "Cancelled", "Failed"})
      \/ offer' \in {offer, j} /\ history' = history
  <2>1. CASE OnFinished(j)
    BY <2>1 DEF OnFinished
  <2>2. CASE OnCancelled(j)
    BY <2>2 DEF OnCancelled
  <2>3. CASE OnFailed(j)
    BY <2>3 DEF OnFailed
  <2> QED
    BY <2>1, <2>2, <2>3
<1>5. Past' \subseteq Past \cup {j} /\ (offer' # offer => Past' = Past)
  BY <1>4 DEF Past
<1>6. /\ queue \in Seq(1..next) /\ a \in SUBSET (1..next) /\ next \in Nat
      /\ j \in 1..next /\ None \notin 1..next
  <2>1. queue \in Seq(1..next) /\ active \subseteq 1..next /\ next \in Nat
    BY DEF QueueInv, Lists
  <2> QED
    BY <1>3, <2>1, Bounds
<1> HIDE DEF a
<1>7. /\ active' \cup Elems(queue') \subseteq a \cup Elems(queue)
      /\ Elems(queue') \subseteq Elems(queue)
  BY <1>1, <1>6, StartNextKeeps
<1>8. /\ j \notin a \cup elevated \cup Elems(queue) /\ j # offer /\ j \in Tracked
  BY <1>3 DEF a, WorkInv, Apart, Tracked
<1>9. offer' \in {offer, j}
  BY <1>4
<1>10. /\ Tracked' \subseteq Tracked \cup {j} /\ j \notin Elems(queue') \cup active' \cup elevated'
       /\ j \in Tracked' => offer' # offer
  BY <1>1, <1>7, <1>8, <1>9 DEF a, Tracked
<1>11. j \notin Past
  BY <1>8 DEF ShownInv
<1> QED
  BY <1>1, <1>2, <1>5, <1>6, <1>7, <1>10, <1>11, ShownEnds DEF a

LEMMA ShownStep == WorkersInv /\ ShownInv /\ [Next]_vars => ShownInv'
<1> SUFFICES ASSUME WorkersInv, ShownInv, [Next]_vars PROVE ShownInv'
  OBVIOUS
<1>1. TypeOK /\ QueueInv /\ WorkInv /\ QueueInv'
  BY QueueStep DEF WorkersInv
<1>2. None \notin 1..next
  BY <1>1, Bounds
<1>3. ASSUME UNCHANGED <<next, channel, history, queue, active, elevated, offer, progress>>
      PROVE  ShownInv'
  BY <1>2, <1>3, ShownStays DEF Tracked, ShownInv
<1>4. CASE RequestTransfer
  <2>1. CASE UNCHANGED <<next, progress, active, queue>>
    BY <1>3, <1>4, <2>1 DEF RequestTransfer
  <2>2. CASE \E kind \in Kinds : QueueTransfer(kind, "KeepBoth")
    <3>1. PICK kind \in Kinds : QueueTransfer(kind, "KeepBoth")
      BY <2>2
    <3>2. kind \in Kind /\ "KeepBoth" \in Policy
      BY SchedulerAssumption DEF Policy
    <3> QED
      BY <1>1, <1>4, <3>1, <3>2, ShownTransfer DEF RequestTransfer
  <2> QED
    BY <1>4, <2>1, <2>2 DEF RequestTransfer
<1>5. CASE ResolveTransferConflict
  <2>1. conflict \in Kind
    BY <1>1, <1>5 DEF ResolveTransferConflict, TypeOK
  <2> QED
    BY <1>1, <1>5, <2>1, ShownTransfer DEF ResolveTransferConflict
<1>6. ASSUME NEW j \in Ids, CancelActive(j) PROVE ShownInv'
  BY <1>3, <1>6 DEF CancelActive
<1>7. ASSUME NEW j \in Ids, ElevatedTransferFinished(j) PROVE ShownInv'
  <2>1. /\ j \in elevated /\ elevated' = elevated \ {j} /\ progress' = progress \ {j}
        /\ UNCHANGED <<next, queue, active, history, channel, offer>>
    BY <1>7 DEF ElevatedTransferFinished
  <2>2. j \notin active \cup Elems(queue)
    BY <1>1, <2>1 DEF WorkInv, Apart
  <2>3. Tracked' \subseteq Tracked
    BY <2>1 DEF Tracked
  <2>4. Elems(queue') \cup active' \cup elevated' \subseteq progress'
    BY <2>1, <2>2 DEF ShownInv
  <2> QED
    BY <1>2, <2>1, <2>3, <2>4, ShownStays
<1>8. CASE ConfirmElevatedTransfer
  <2>1. /\ offer' = None /\ elevated' = elevated \cup {offer} /\ progress' = progress \cup {offer}
        /\ UNCHANGED <<next, queue, active, history, channel>>
    BY <1>8 DEF ConfirmElevatedTransfer
  <2>2. Tracked' \subseteq Tracked \cup {None} /\ offer \in Tracked
    BY <2>1 DEF Tracked
  <2>3. Elems(queue') \cup active' \cup elevated' \subseteq progress'
    BY <2>1 DEF ShownInv
  <2> QED
    BY <1>2, <2>1, <2>2, <2>3, ShownStays
<1>9. CASE CancelElevatedTransfer
  <2>1. offer' = None /\ UNCHANGED <<next, queue, active, history, channel, elevated, progress>>
    BY <1>9 DEF CancelElevatedTransfer
  <2>2. Tracked' \subseteq Tracked \cup {None}
    BY <2>1 DEF Tracked
  <2> QED
    BY <1>2, <2>1, <2>2, ShownStays DEF ShownInv
<1>10. CASE \/ CancelTransferConflict \/ UndoLastAction \/ UndoThread \/ Rest \/ UNCHANGED vars
            \/ MoveToTrash \/ TrashWorks \/ TrashFinished
  <2>1. UNCHANGED <<next, channel, history, queue, active, elevated, offer, progress>>
    BY <1>10 DEF CancelTransferConflict, UndoLastAction, UndoThread, UndoWorks, UndoFails,
                 UndoFinished, Rest, MoveToTrash, TrashWorks, TrashFinished, vars, transfers
  <2> QED
    BY <1>3, <2>1
<1> QED
  BY <1>1, <1>4, <1>5, <1>6, <1>7, <1>8, <1>9, <1>10, ShownCancel, ShownWork, ShownProgress,
     ShownEnd DEF Next, Poll

(* The window shows every transfer that is queued, active or elevated, and     *)
(* none that its history says has ended, unless that is listed again: the      *)
(* entries of poll_transfer_messages come and go with the lists, whatever      *)
(* reports are still on their way when a transfer ends.                        *)
THEOREM ProgressIsShown == Spec => []ProgressMatches
<1>1. Init => ShownInv
  BY DEF Init, ShownInv, Elems, Past, Heard, LastWord
<1>2. ShownInv => ProgressMatches
  BY DEF ShownInv, ProgressMatches, Past
<1> QED
  BY <1>1, <1>2, WorkersInit, WorkersStep, ShownStep, PTL DEF Spec

-----------------------------------------------------------------------------
(* What an undo takes away.  Only the result of a transfer that kept both is *)
(* held, and such a transfer has put its result over nothing, unless it is a *)
(* move whose name was taken after it had been chosen.                       *)

KeepsBoth(j) == job[j].policy = "KeepBoth"

\* Of two threads of one process that have chosen one name, one was out of names.
OneEach ==
  \A s \in Slots : \A i, j \in CopyingTo(s) \ elevated : i # j => i \in overtaken \/ j \in overtaken

\* The name a thread has chosen stays free, or the thread counts as overtaken.
Untaken ==
  \A s \in Slots : \A j \in CopyingTo(s) : KeepsBoth(j) => disk[s] = None \/ j \in overtaken

OverNothing ==
  \A j \in Ids : j \in 1..next /\ KeepsBoth(j) => worker[j].before = None \/ Displaces(j)

RestoreInv ==
  /\ OneEach /\ Untaken /\ OverNothing
  /\ \A j \in Ids : Runs(j) \/ j \notin 1..next => worker[j].before = None
  /\ \A a \in Held : a.op # "Trash" => KeepsBoth(a.what)

\* A thread that chooses no name and finishes nothing.
Calm(i) ==
  /\ worker'[i].state = "copying" => worker[i].state = "copying" /\ worker'[i].target = worker[i].target
  /\ \/ worker'[i].before = None
     \/ worker'[i].before = worker[i].before /\ (Runs(i)' => Runs(i))

LEMMA CopyingBounds ==
  ASSUME TypeOK, QueueInv, WorkInv, NEW s \in Slots, NEW j \in CopyingTo(s)
  PROVE  j \in 1..next /\ j \in Ids /\ Runs(j)
<1>1. j \in Ids /\ Runs(j)
  BY DEF CopyingTo, Runs
<1>2. j \in active \cup elevated
  BY <1>1, WorkerIds
<1> QED
  BY <1>1, <1>2, Bounds, TrackedBounds

\* Steps in which nobody takes a name.
LEMMA RestoreStays ==
  ASSUME TypeOK, QueueInv, WorkInv, ActsInv, RestoreInv,
         \A j \in 1..next : j \in 1..next' /\ job'[j] = job[j],
         \A i \in Ids : Calm(i),
         \A i \in elevated \ elevated' : worker'[i].state # "copying",
         overtaken \subseteq overtaken',
         \A s \in Slots : disk'[s] \in {disk[s], None},
         \A a \in Held' \ Held : a.op # "Trash" => a.what \in 1..next /\ KeepsBoth(a.what)
  PROVE  RestoreInv'
<1>1. \A j \in 1..next : KeepsBoth(j)' <=> KeepsBoth(j)
  BY DEF KeepsBoth
<1>2. \A s \in Slots : CopyingTo(s)' \subseteq CopyingTo(s)
  BY DEF CopyingTo, Calm
<1>3. \A s \in Slots : \A j \in CopyingTo(s) : j \in 1..next
  BY CopyingBounds
<1>4. OneEach'
  <2>1. \A s \in Slots : CopyingTo(s)' \ elevated' \subseteq CopyingTo(s) \ elevated
    BY <1>2 DEF CopyingTo
  <2> QED
    BY <2>1 DEF RestoreInv, OneEach
<1>5. Untaken'
  BY <1>1, <1>2, <1>3 DEF RestoreInv, Untaken
<1>6. ASSUME NEW j \in Ids, Runs(j)' \/ j \notin 1..next' PROVE worker'[j].before = None
  BY <1>6 DEF RestoreInv, Calm
<1>7. OverNothing'
  <2>1. SUFFICES ASSUME NEW j \in Ids, j \in 1..next', KeepsBoth(j)', worker'[j].before # None
                 PROVE  Displaces(j)'
    BY DEF OverNothing
  <2>2. worker'[j].before = worker[j].before
    BY <2>1 DEF Calm
  <2>3. j \in 1..next
    BY <2>1, <2>2 DEF RestoreInv
  <2>4. Displaces(j)
    BY <1>1, <2>1, <2>2, <2>3 DEF RestoreInv, OverNothing
  <2> QED
    BY <2>3, <2>4 DEF Displaces
<1>8. ASSUME NEW a \in Held', a.op # "Trash" PROVE KeepsBoth(a.what)'
  <2>1. CASE a \in Held
    BY <1>1, <1>8, <2>1 DEF ActsInv, Settled, RestoreInv
  <2>2. CASE a \notin Held
    BY <1>1, <1>8, <2>2
  <2> QED
    BY <2>1, <2>2
<1> QED
  BY <1>4, <1>5, <1>6, <1>7, <1>8 DEF RestoreInv

LEMMA CalmStart ==
  ASSUME NEW n \in Nat, NEW q \in Seq(1..n), NEW a \in SUBSET (1..n), StartNext(q, a)
  PROVE  \A i \in Ids : Calm(i)
<1>1. \A i \in Ids : worker'[i] = IF i \in Started(q, a)
                                  THEN [Idle EXCEPT !.state = "ready"] ELSE worker[i]
  BY StartNextMoves
<1>2. /\ [Idle EXCEPT !.state = "ready"].before = None
      /\ [Idle EXCEPT !.state = "ready"].state = "ready"
  BY DEF Idle
<1> QED
  BY <1>1, <1>2 DEF Calm, Runs

LEMMA RestoreTransfer ==
  ASSUME TypeOK, QueueInv, WorkInv, ActsInv, RestoreInv, next < MaxJobs,
         NEW kind \in Kind, NEW policy \in Policy, QueueTransfer(kind, policy),
         UNCHANGED <<undoing, elevated, files>>
  PROVE  RestoreInv'
<1> DEFINE n == next + 1
           q == Append(queue, n)
<1>1. /\ next' = n /\ undo' = None /\ StartNext(q, active)
      /\ job' = [job EXCEPT ![n] = [kind |-> kind, policy |-> policy]]
  BY DEF QueueTransfer
<1>2. next \in Nat /\ n \in Nat /\ 1..n = 1..next \cup {n} /\ n \notin 1..next
  BY DEF QueueInv
<1>3. q \in Seq(1..n) /\ active \in SUBSET (1..n)
  <2>1. queue \in Seq(1..next) /\ active \subseteq 1..next
    BY DEF QueueInv, Lists
  <2> QED
    BY <1>2, <2>1, AppendElems
<1> HIDE DEF n, q
<1>4. \A i \in Ids : Calm(i)
  BY <1>1, <1>2, <1>3, CalmStart
<1>5. \A j \in 1..next : j \in 1..next' /\ job'[j] = job[j]
  BY <1>1, <1>2, Bounds DEF TypeOK
<1>6. Held' \subseteq Held
  BY <1>1 DEF Held
<1> QED
  BY <1>4, <1>5, <1>6, RestoreStays DEF files

\* The name that j's thread chooses is free, or nothing is and j counts as overtaken.
LEMMA RestoreReserve ==
  ASSUME TypeOK, QueueInv, WorkInv, RestoreInv, NEW j \in Ids, Reserve(j)
  PROVE  RestoreInv'
<1>1. /\ Runs(j) /\ UNCHANGED <<next, job, undo, undoing, elevated, disk>>
      /\ worker \in [Ids -> Worker]
      /\ overtaken' = IF RunsOut(j) THEN overtaken \cup {j} ELSE overtaken \ {j}
  BY DEF Reserve, WorkerOnly, undos, Runs, TypeOK
<1>2. PICK t \in Targets(j) :
        worker' = [worker EXCEPT ![j] = [worker[j] EXCEPT !.state = "copying", !.target = t]]
  <2>1. PICK t \in Targets(j) : worker' = [worker EXCEPT ![j].state = "copying", ![j].target = t]
    BY DEF Reserve
  <2> QED
    BY <1>1, <2>1
<1>3. /\ worker'[j].state = "copying" /\ worker'[j].target = t
      /\ worker'[j].before = worker[j].before
      /\ \A i \in Ids \ {j} : worker'[i] = worker[i]
  <2>1. worker[j] \in Worker
    BY <1>1
  <2> QED
    BY <1>1, <1>2, <2>1 DEF Worker
<1>4. \A s \in Slots : CopyingTo(s)' \subseteq CopyingTo(s) \cup (IF s = t THEN {j} ELSE {})
  BY <1>3 DEF CopyingTo
<1>5. job[j].policy \in {"Replace", "Skip", "KeepBoth"}
  <2>1. job[j] \in Job
    BY <1>1, WorkerIds
  <2> QED
    BY <2>1 DEF Job, Policy
<1>6. t \in Slots /\ ~RunsOut(j) => t \notin Claimed(j)
  BY <1>5, SchedulerAssumption DEF Targets, Unique, RunsOut, Free, Contents
<1>7. KeepsBoth(j) /\ t \in Slots /\ ~RunsOut(j) => disk[t] = None
  BY DEF Targets, Unique, RunsOut, Free, KeepsBoth
<1>8. OneEach'
  <2>1. SUFFICES ASSUME NEW s \in Slots, NEW i \in CopyingTo(s)' \ elevated,
                        NEW k \in CopyingTo(s)' \ elevated, i # k
                 PROVE  i \in overtaken' \/ k \in overtaken'
    BY <1>1 DEF OneEach
  <2>2. CASE i # j /\ k # j
    BY <1>1, <1>4, <2>1, <2>2 DEF RestoreInv, OneEach
  <2>3. ASSUME i = j \/ k = j, ~RunsOut(j) PROVE FALSE
    <3>1. s = t /\ j \notin elevated
      BY <1>3, <2>3, <2>1 DEF CopyingTo
    <3>2. PICK o \in CopyingTo(s) \ elevated : TRUE
      BY <1>4, <2>1, <2>3
    <3>3. s \in Claimed(j)
      BY <3>1, <3>2 DEF Claimed, CopyingTo
    <3> QED
      BY <1>6, <2>3, <3>1, <3>3
  <2> QED
    BY <1>1, <2>2, <2>3
<1>9. Untaken'
  <2>1. SUFFICES ASSUME NEW s \in Slots, NEW i \in CopyingTo(s)', KeepsBoth(i), disk[s] # None
                 PROVE  i \in overtaken'
    BY <1>1 DEF Untaken, KeepsBoth
  <2>2. CASE i = j
    <3>1. s = t
      BY <1>3, <2>1, <2>2 DEF CopyingTo
    <3> QED
      BY <1>1, <1>7, <2>1, <2>2, <3>1
  <2>3. CASE i # j
    BY <1>1, <1>4, <2>1, <2>3 DEF RestoreInv, Untaken
  <2> QED
    BY <2>2, <2>3
<1>10. \A i \in Ids : worker'[i].before = worker[i].before /\ (Runs(i)' <=> Runs(i))
  BY <1>1, <1>3 DEF Runs
<1>11. worker[j].before = None
  BY <1>1 DEF RestoreInv
<1>12. \A i \in Ids \ {j} : Displaces(i)' <=> Displaces(i)
  BY <1>1 DEF Displaces
<1>13. Held' = Held /\ \A i : KeepsBoth(i)' <=> KeepsBoth(i)
  BY <1>1 DEF Held, KeepsBoth
<1>14. OverNothing'
  BY <1>1, <1>10, <1>11, <1>12, <1>13 DEF RestoreInv, OverNothing
<1> QED
  BY <1>1, <1>8, <1>9, <1>10, <1>13, <1>14 DEF RestoreInv

\* What j puts in its place was not there, unless j is a move that was overtaken; and
\* who had chosen the same name is now overtaken.
LEMMA RestoreSucceed ==
  ASSUME TypeOK, QueueInv, WorkInv, RestoreInv, NEW j \in Ids, Succeed(j)
  PROVE  RestoreInv'
<1> DEFINE t == worker[j].target
           before == IF t = None THEN None ELSE disk[t]
           state == IF j \in elevated THEN "done" ELSE "over"
<1>1. /\ Runs(j) /\ worker[j].state = "copying"
      /\ UNCHANGED <<next, job, undo, undoing, elevated>>
      /\ worker \in [Ids -> Worker] /\ t \in Slots \cup {None}
      /\ t # None => disk[t] = None \/ job[j].policy = "Replace" \/ job[j].kind = "Move"
      /\ worker' = [worker EXCEPT ![j].state = state, ![j].before = before]
      /\ overtaken' = overtaken \cup Overtaken(j, t)
      /\ disk' = [s \in Slots |-> IF s = t THEN j ELSE disk[s]]
  BY DEF Succeed, WorkerOnly, undos, Runs, TypeOK, Worker
<1>2. /\ worker'[j].state = state /\ worker'[j].before = before
      /\ \A i \in Ids \ {j} : worker'[i] = worker[i]
  <2>1. worker' = [worker EXCEPT ![j] = [worker[j] EXCEPT !.state = state, !.before = before]]
    BY <1>1
  <2>2. worker[j] \in Worker
    BY <1>1
  <2> HIDE DEF state, before, t
  <2> QED
    BY <1>1, <2>1, <2>2 DEF Worker
<1>3. j \in 1..next
  BY <1>1, WorkerIds, Bounds, TrackedBounds
<1>4. \A s \in Slots : CopyingTo(s)' \subseteq CopyingTo(s) \ {j}
  BY <1>2 DEF CopyingTo
<1>5. t \in Slots => j \in CopyingTo(t)
  BY <1>1 DEF CopyingTo
<1>6. Held' = Held /\ \A i : KeepsBoth(i)' <=> KeepsBoth(i)
  BY <1>1 DEF Held, KeepsBoth
<1> HIDE DEF t, before, state
<1>7. OneEach'
  BY <1>1, <1>4 DEF RestoreInv, OneEach
<1>8. Untaken'
  <2>1. SUFFICES ASSUME NEW s \in Slots, NEW i \in CopyingTo(s)', KeepsBoth(i), disk'[s] # None
                 PROVE  i \in overtaken'
    BY <1>6 DEF Untaken
  <2>2. CASE s # t
    BY <1>1, <1>4, <2>1, <2>2 DEF RestoreInv, Untaken
  <2>3. CASE s = t
    <3>1. i \in CopyingTo(t) \ {j} /\ j \in CopyingTo(t) /\ t \in Slots
      BY <1>4, <1>5, <2>3
    <3>2. CASE i \in Overtaken(j, t)
      BY <1>1, <3>2
    <3>3. CASE i \notin Overtaken(j, t)
      <4>1. i \notin elevated /\ j \notin elevated /\ j \notin overtaken
        BY <3>1, <3>3 DEF Overtaken
      <4> QED
        BY <1>1, <3>1, <4>1 DEF RestoreInv, OneEach
    <3> QED
      BY <3>2, <3>3
  <2> QED
    BY <2>2, <2>3
<1>9. KeepsBoth(j) => before = None \/ Displaces(j)'
  <2>1. SUFFICES ASSUME KeepsBoth(j), before # None PROVE Displaces(j)'
    OBVIOUS
  <2>2. t \in Slots /\ disk[t] # None
    BY <1>1, <2>1 DEF before
  <2>3. job[j].kind = "Move"
    BY <1>1, <2>1, <2>2, SchedulerAssumption DEF KeepsBoth, Contents
  <2>4. j \in overtaken
    BY <1>5, <2>1, <2>2 DEF RestoreInv, Untaken
  <2> QED
    BY <1>1, <2>3, <2>4 DEF Displaces
<1>10. OverNothing'
  <2>1. \A i \in Ids : Displaces(i) => Displaces(i)'
    BY <1>1 DEF Displaces
  <2> QED
    BY <1>1, <1>2, <1>6, <1>9, <2>1 DEF RestoreInv, OverNothing
<1>11. ASSUME NEW i \in Ids, Runs(i)' \/ i \notin 1..next PROVE worker'[i].before = None
  <2>1. i # j
    BY <1>2, <1>3, <1>11 DEF Runs, state
  <2> QED
    BY <1>2, <1>11, <2>1 DEF RestoreInv, Runs
<1> QED
  BY <1>1, <1>6, <1>7, <1>8, <1>10, <1>11 DEF RestoreInv

LEMMA RestoreWork ==
  ASSUME TypeOK, QueueInv, WorkInv, ActsInv, RestoreInv, NEW j \in Ids, Work(j)
  PROVE  RestoreInv'
<1>1. CASE SendProgress(j) \/ FailJob(j) \/ StopJob(j)
  <2>1. /\ worker \in [Ids -> Worker] /\ worker[j] \in Worker
        /\ Runs(j) /\ \A i \in Ids \ {j} : worker'[i] = worker[i]
        /\ UNCHANGED <<next, job, undo, undoing, elevated, files>>
    BY <1>1, WorkTypes DEF WorkerOnly, undos, SendProgress, FailJob, StopJob, TypeOK
  <2>2. Calm(j)
    <3>1. CASE SendProgress(j)
      BY <2>1, <3>1 DEF SendProgress, Worker, Calm, Runs
    <3>2. CASE FailJob(j) \/ StopJob(j)
      <4>1. PICK state \in {"over", "failed"} : worker' = [worker EXCEPT ![j].state = state]
        BY <3>2 DEF FailJob, StopJob, SetWorker
      <4>2. worker'[j].state = state /\ worker'[j].before = worker[j].before
        BY <2>1, <4>1 DEF Worker
      <4> QED
        BY <4>2 DEF Calm, Runs
    <3> QED
      BY <1>1, <3>1, <3>2
  <2>3. \A i \in Ids : Calm(i)
    BY <2>1, <2>2 DEF Calm, Runs
  <2> QED
    BY <2>1, <2>3, RestoreStays DEF Held, files
<1> QED
  BY <1>1, RestoreReserve, RestoreSucceed DEF Work

LEMMA RestoreEnd ==
  ASSUME TypeOK, QueueInv, QueueInv', WorkInv, ActsInv, RestoreInv, NEW j \in Ids,
         OnFinished(j) \/ OnFailed(j) \/ OnCancelled(j) \/ ElevatedTransferFinished(j)
  PROVE  RestoreInv'
<1>1. UNCHANGED <<next, job, undoing, files>>
  BY DEF OnFinished, OnFailed, OnCancelled, ElevatedTransferFinished, undos
<1>2. \A i \in Ids : Calm(i)
  <2>1. CASE StartNext(queue, active \ {j})
    <3>1. queue \in Seq(1..next) /\ active \ {j} \in SUBSET (1..next) /\ next \in Nat
      BY DEF QueueInv, Lists
    <3> QED
      BY <2>1, <3>1, CalmStart
  <2>2. CASE SetWorker(j, "over")
    <3>1. worker \in [Ids -> Worker] /\ worker[j] \in Worker
      BY DEF TypeOK
    <3>2. worker'[j].state = "over" /\ worker'[j].before = worker[j].before
      BY <2>2, <3>1 DEF SetWorker, Worker
    <3> QED
      BY <2>2, <3>1, <3>2 DEF SetWorker, Calm, Runs
  <2> QED
    BY <2>1, <2>2 DEF OnFinished, OnFailed, OnCancelled, ElevatedTransferFinished
<1>3. \A i \in elevated \ elevated' : worker'[i].state # "copying"
  <2>1. CASE ElevatedTransferFinished(j)
    <3>1. elevated' = elevated \ {j} /\ SetWorker(j, "over")
      BY <2>1 DEF ElevatedTransferFinished
    <3>2. worker \in [Ids -> Worker] /\ worker[j] \in Worker
      BY DEF TypeOK
    <3> QED
      BY <3>1, <3>2 DEF SetWorker, Worker
  <2>2. CASE OnFinished(j) \/ OnFailed(j) \/ OnCancelled(j)
    BY <2>2 DEF OnFinished, OnFailed, OnCancelled
  <2> QED
    BY <2>1, <2>2
<1>4. undo' # undo => \E root : undo' = Result(j, root) /\ KeepsBoth(j) /\ j \in 1..next
  <2>1. CASE OnFinished(j) \/ ElevatedTransferFinished(j)
    <3>1. undo' # undo => j \in active \cup elevated
      BY <2>1 DEF OnFinished, ElevatedTransferFinished
    <3> QED
      BY <2>1, <3>1, Bounds, TrackedBounds
         DEF OnFinished, ElevatedTransferFinished, Undoable, KeepsBoth
  <2>2. CASE OnFailed(j) \/ OnCancelled(j)
    BY <2>2 DEF OnFailed, OnCancelled, undos
  <2> QED
    BY <2>1, <2>2
<1>5. \A a \in Held' \ Held : a.what \in 1..next /\ KeepsBoth(a.what)
  BY <1>1, <1>4 DEF Held, Result
<1> QED
  BY <1>1, <1>2, <1>3, <1>5, RestoreStays DEF files

\* What an undo thread holds was held before.
LEMMA HeldByThread ==
  ASSUME TypeOK, UndoThread
  PROVE  Held' \subseteq Held
<1>1. PICK u \in undoing : UndoWorks(u) \/ UndoFails(u) \/ UndoFinished(u)
  BY DEF UndoThread
<1>2. u \in Undoing
  BY DEF TypeOK
<1>3. CASE UndoWorks(u) \/ UndoFails(u)
  <2>1. PICK new \in Undoing : /\ undoing' = (undoing \ {u}) \cup {new}
                               /\ new.action = u.action
    <3>1. \A state \in {"ok", "err"} : /\ [u EXCEPT !.state = state] \in Undoing
                                       /\ [u EXCEPT !.state = state].action = u.action
      BY <1>2 DEF Undoing
    <3> QED
      BY <1>3, <3>1 DEF UndoWorks, UndoFails
  <2>2. undo' = undo
    BY <1>3 DEF UndoWorks, UndoFails
  <2> QED
    BY <2>1, <2>2 DEF Held
<1>4. CASE UndoFinished(u)
  BY <1>4 DEF UndoFinished, Held
<1> QED
  BY <1>1, <1>3, <1>4

\* What comes back from the trash overtakes who has chosen its name.
LEMMA RestoreFilled ==
  ASSUME TypeOK, RestoreInv, UNCHANGED <<next, job, worker, elevated>>, Held' \subseteq Held,
         NEW s, NEW c, disk' = [disk EXCEPT ![s] = c],
         overtaken' = overtaken \cup CopyingTo(s)
  PROVE  RestoreInv'
<1>1. /\ \A r : CopyingTo(r)' = CopyingTo(r)
      /\ \A i : (KeepsBoth(i)' <=> KeepsBoth(i)) /\ (Runs(i)' <=> Runs(i))
      /\ \A i : Displaces(i) => Displaces(i)'
  BY DEF CopyingTo, KeepsBoth, Runs, Displaces
<1>2. OneEach'
  BY <1>1 DEF RestoreInv, OneEach
<1>3. Untaken'
  <2>1. \A r \in Slots : r # s => disk'[r] = disk[r]
    BY DEF TypeOK
  <2> QED
    BY <1>1, <2>1 DEF RestoreInv, Untaken
<1>4. OverNothing'
  BY <1>1 DEF RestoreInv, OverNothing
<1> QED
  BY <1>1, <1>2, <1>3, <1>4 DEF RestoreInv

LEMMA RestoreStep == WorkersInv /\ RestoreInv /\ [Next]_vars => RestoreInv'
<1> SUFFICES ASSUME WorkersInv, RestoreInv, [Next]_vars PROVE RestoreInv'
  OBVIOUS
<1>1. TypeOK /\ QueueInv /\ WorkInv /\ ActsInv /\ QueueInv'
  BY QueueStep DEF WorkersInv
<1>2. ASSUME UNCHANGED <<next, job, worker, elevated>>,
             overtaken \subseteq overtaken', \A s \in Slots : disk'[s] \in {disk[s], None},
             \A a \in Held' \ Held : a.op = "Trash"
      PROVE  RestoreInv'
  <2>1. \A i \in Ids : Calm(i)
    BY <1>2 DEF Calm, Runs
  <2> QED
    BY <1>1, <1>2, <2>1, RestoreStays
<1>3. CASE RequestTransfer
  <2>1. CASE UNCHANGED <<next, undo, job, worker>>
    BY <1>2, <1>3, <2>1 DEF RequestTransfer, Held, files
  <2>2. CASE \E kind \in Kinds : QueueTransfer(kind, "KeepBoth")
    <3>1. PICK kind \in Kinds : QueueTransfer(kind, "KeepBoth")
      BY <2>2
    <3>2. kind \in Kind /\ "KeepBoth" \in Policy
      BY SchedulerAssumption DEF Policy
    <3> QED
      BY <1>1, <1>3, <3>1, <3>2, RestoreTransfer DEF RequestTransfer
  <2> QED
    BY <1>3, <2>1, <2>2 DEF RequestTransfer
<1>4. CASE ResolveTransferConflict
  <2>1. conflict \in Kind
    BY <1>1, <1>4 DEF ResolveTransferConflict, TypeOK
  <2> QED
    BY <1>1, <1>4, <2>1, RestoreTransfer DEF ResolveTransferConflict
<1>5. ASSUME NEW j \in Ids, CancelActive(j) \/ CancelQueued(j) \/ OnProgress(j) PROVE RestoreInv'
  <2>1. UNCHANGED <<next, job, worker, elevated, undo, undoing, files>>
    BY <1>5 DEF CancelActive, CancelQueued, OnProgress, undos
  <2> QED
    BY <1>2, <2>1 DEF Held, files
<1>6. CASE ConfirmElevatedTransfer
  <2>1. /\ worker' = [worker EXCEPT ![offer] = [Idle EXCEPT !.state = "ready"]]
        /\ UNCHANGED <<next, job, undo, undoing, files>> /\ elevated \subseteq elevated'
    BY <1>6 DEF ConfirmElevatedTransfer, undos
  <2>2. /\ [Idle EXCEPT !.state = "ready"].before = None
        /\ [Idle EXCEPT !.state = "ready"].state = "ready"
    BY DEF Idle
  <2>3. \A i \in Ids : Calm(i)
    BY <1>1, <2>1, <2>2 DEF TypeOK, Calm, Runs
  <2>4. Held' = Held
    BY <2>1 DEF Held
  <2> QED
    BY <1>1, <2>1, <2>3, <2>4, RestoreStays DEF files
<1>7. CASE \/ CancelTransferConflict \/ CancelElevatedTransfer \/ Rest \/ UNCHANGED vars
           \/ TrashWorks
  <2>1. UNCHANGED <<next, job, worker, elevated, undo, undoing, overtaken>>
    BY <1>7 DEF CancelTransferConflict, CancelElevatedTransfer, Rest, TrashWorks, vars, undos,
                transfers, files
  <2>2. \A s \in Slots : disk'[s] \in {disk[s], None}
    <3>1. disk \in [Slots -> Contents \cup {None}]
      BY <1>1 DEF TypeOK
    <3>2. CASE UNCHANGED disk
      BY <3>2
    <3>3. CASE TrashWorks /\ disk' = [disk EXCEPT ![trashing.slot] = None]
      BY <3>1, <3>3
    <3> QED
      BY <1>7, <3>2, <3>3 DEF CancelTransferConflict, CancelElevatedTransfer, Rest, TrashWorks, vars,
                              files
  <2> QED
    BY <1>2, <2>1, <2>2 DEF Held
<1>8. CASE UndoLastAction
  <2>1. Held' \subseteq Held /\ UNCHANGED <<next, job, worker, elevated, files>>
    BY <1>8 DEF UndoLastAction, Held, transfers
  <2> QED
    BY <1>2, <2>1 DEF files
<1>9. CASE UndoThread
  <2>1. Held' \subseteq Held /\ UNCHANGED <<next, job, worker, elevated>>
    BY <1>1, <1>9, HeldByThread DEF UndoThread, UndoWorks, UndoFails, UndoFinished, transfers
  <2>2. PICK u \in undoing : UndoWorks(u) \/ UndoFails(u) \/ UndoFinished(u)
    BY <1>9 DEF UndoThread
  <2>3. CASE UndoWorks(u) /\ u.action.op = "Trash"
    BY <1>1, <2>1, <2>3, RestoreFilled DEF UndoWorks
  <2>4. CASE UndoWorks(u) /\ u.action.op # "Trash"
    <3>1. disk \in [Slots -> Contents \cup {None}]
      BY <1>1 DEF TypeOK
    <3>2. \A s \in Slots : disk'[s] \in {disk[s], None}
      BY <2>4, <3>1 DEF UndoWorks
    <3> QED
      BY <1>2, <2>1, <2>4, <3>2 DEF UndoWorks
  <2>5. CASE UndoFails(u) \/ UndoFinished(u)
    <3>1. UNCHANGED files
      BY <2>5 DEF UndoFails, UndoFinished
    <3> QED
      BY <1>2, <2>1, <3>1 DEF files
  <2> QED
    BY <2>2, <2>3, <2>4, <2>5
<1>10. CASE MoveToTrash
  <2>1. Held' \subseteq Held /\ UNCHANGED <<next, job, worker, elevated, files>>
    BY <1>10 DEF MoveToTrash, Held, transfers
  <2> QED
    BY <1>2, <2>1 DEF files
<1>11. CASE TrashFinished
  <2>1. \A a \in Held' \ Held : a.op = "Trash"
    BY <1>11 DEF TrashFinished, Held
  <2>2. UNCHANGED <<next, job, worker, elevated, files>>
    BY <1>11 DEF TrashFinished, transfers
  <2> QED
    BY <1>2, <2>1, <2>2 DEF files
<1> QED
  BY <1>1, <1>3, <1>4, <1>5, <1>6, <1>7, <1>8, <1>9, <1>10, <1>11, RestoreWork, RestoreEnd
     DEF Next, Poll

\* Of one transfer's undo: the thread that succeeds is the one that takes the
\* result away, and there was nothing below it.
LEMMA UndoTakesOnlyItsOwn ==
  ASSUME WorkersInv, RestoreInv, [Next]_vars, NEW u \in undoing, u.state = "running",
         u.action.op # "Trash", [u EXCEPT !.state = "ok"] \in undoing', u \notin undoing'
  PROVE  Displaces(u.action.what) \/ disk'[u.action.slot] = worker[u.action.what].before
<1>1. TypeOK /\ QueueInv /\ ActsInv /\ u \in Undoing
  BY DEF WorkersInv, TypeOK
<1> DEFINE ok == [u EXCEPT !.state = "ok"]
<1>2. ok \in Undoing /\ ok.action = u.action /\ ok.state = "ok" /\ ok # u
  BY <1>1 DEF Undoing
<1>3. ok \notin undoing
  BY <1>1, <1>2 DEF ActsInv, UndoHeldOnce
<1>4. undoing' # undoing
  OBVIOUS
<1> HIDE DEF ok
<1>5. UndoThread
  <2>1. CASE RequestTransfer \/ ResolveTransferConflict \/ CancelTransferConflict
    BY <1>4, <2>1 DEF RequestTransfer, ResolveTransferConflict, CancelTransferConflict, undos
  <2>2. ASSUME NEW j \in Ids, \/ CancelActive(j) \/ CancelQueued(j) \/ ElevatedTransferFinished(j)
                              \/ OnProgress(j) \/ OnFinished(j) \/ OnFailed(j) \/ OnCancelled(j)
        PROVE FALSE
    BY <1>4, <2>2 DEF CancelActive, CancelQueued, ElevatedTransferFinished, OnProgress, OnFinished,
                      OnFailed, OnCancelled, undos
  <2>3. ASSUME NEW j \in Ids, Work(j) PROVE FALSE
    BY <1>4, <2>3 DEF Work, Reserve, SendProgress, Succeed, FailJob, StopJob, WorkerOnly, undos
  <2>4. CASE \/ ConfirmElevatedTransfer \/ CancelElevatedTransfer \/ Rest \/ UNCHANGED vars
             \/ MoveToTrash \/ TrashWorks \/ TrashFinished
    BY <1>4, <2>4 DEF ConfirmElevatedTransfer, CancelElevatedTransfer, Rest, vars, MoveToTrash,
                      TrashWorks, TrashFinished, undos
  <2>5. CASE UndoLastAction
    <3>1. u \in undoing'
      BY <2>5 DEF UndoLastAction
    <3> QED
      BY <3>1
  <2> QED
    BY <2>1, <2>2, <2>3, <2>4, <2>5 DEF Next, Poll
<1>6. PICK v \in undoing : UndoWorks(v) \/ UndoFails(v) \/ UndoFinished(v)
  BY <1>5 DEF UndoThread
<1>7. undoing \ {v} \subseteq undoing'
  BY <1>6 DEF UndoWorks, UndoFails, UndoFinished
<1>8. v = u
  BY <1>7
<1>9. UndoWorks(u)
  <2>1. ~UndoFinished(u)
    BY DEF UndoFinished
  <2>2. ~UndoFails(u)
    <3>1. [u EXCEPT !.state = "err"].state = "err"
      BY <1>1 DEF Undoing
    <3> QED
      BY <1>2, <1>3, <3>1 DEF UndoFails, ok
  <2> QED
    BY <1>6, <1>8, <2>1, <2>2
<1>10. u.action \in Action /\ u.action.slot \in Slots
  BY <1>1 DEF Undoing, Action
<1>11. disk'[u.action.slot] = None
  BY <1>1, <1>9, <1>10 DEF UndoWorks, TypeOK
<1>12. u.action \in Held /\ u.action.what \in Ids /\ u.action.what \in 1..next
  <2>1. u.action \in Held
    BY DEF Held
  <2>2. u.action.what \in 1..next
    BY <1>1, <2>1 DEF ActsInv, Settled
  <2> QED
    BY <1>1, <2>1, <2>2, Bounds
<1>13. Displaces(u.action.what) \/ worker[u.action.what].before = None
  BY <1>12 DEF RestoreInv, OverNothing
<1> QED
  BY <1>11, <1>13

(* A successful undo of a transfer leaves in its target what was there before   *)
(* the transfer, unless the transfer is a move whose name was taken after it had *)
(* been chosen: undo_last_action is only ever given results of transfers that    *)
(* kept both, and the names reserved in a process keep its threads apart.        *)
THEOREM UndosRestore == Spec => UndoRestores
<1>1. Init => RestoreInv
  <2>1. SUFFICES ASSUME Init PROVE RestoreInv
    OBVIOUS
  <2>2. \A j \in Ids : worker[j].before = None /\ worker[j].state = "idle"
    BY <2>1 DEF Init, Idle
  <2>3. \A s \in Slots : CopyingTo(s) = {}
    BY <2>2 DEF CopyingTo
  <2>4. Held = {}
    BY <2>1 DEF Init, Held
  <2> QED
    BY <2>2, <2>3, <2>4 DEF RestoreInv, OneEach, Untaken, OverNothing
<1>2. WorkersInv /\ RestoreInv /\ [Next]_vars =>
        [\A u \in undoing :
           /\ u.state = "running" /\ u.action.op # "Trash"
           /\ [u EXCEPT !.state = "ok"] \in undoing'
           /\ u \notin undoing'
           => Displaces(u.action.what) \/ disk'[u.action.slot] = worker[u.action.what].before]_vars
  BY UndoTakesOnlyItsOwn
<1> QED
  BY <1>1, <1>2, WorkersInit, WorkersStep, RestoreStep, PTL DEF Spec, UndoRestores
=============================================================================
