----------------------- MODULE DirectoryWatcher_proofs -----------------------
(* Proofs about DirectoryWatcher, for any directories, entries, volumes,    *)
(* threads and capacities.  First, an ejection that has been told that its  *)
(* volume is free finds it free; then, the watcher implements ChangeFeed,   *)
(* so no change is forgotten.                                               *)
EXTENDS DirectoryWatcher, FiniteSetTheorems, SequenceTheorems, TLAPS

States == {"idle", "bump", "send", "wait", "replied", "paused", "failed", "rebump", "rewake",
           "over"}
Early == {"idle", "bump", "send"}
Held  == {"bump", "send", "wait", "replied", "paused", "failed"}

\* The part of the type that the argument needs; a version is seen and applied only
\* after it was made.
Typed ==
  /\ desired \subseteq Dirs /\ version \in Nat /\ suspended \in [Roots -> Nat]
  /\ signals \in Seq(Signal) /\ worker \in Worker /\ applied \in Nat
  /\ pauser \in [Pausers -> States]
  /\ applied <= version /\ worker.seen <= version

\* A root is suspended once for every guard that is alive.
Holders(r) == {p \in Pausers : RootOf[p] = r /\ pauser[p] \in Held}
Counted == \A r \in Roots : suspended[r] = Cardinality(Holders(r))

From(signal, p) == signal # None /\ signal.type = "Synchronize" /\ signal.from = p
Clean(p) == Under[RootOf[p]] \cap watched = {}

\* No request of p's is under way before it is sent.
Unsent(p) == ~Asks(p) /\ \A i \in 1..Len(signals) : ~From(signals[i], p)

\* Once p has raised the version, the worker has let go or has yet to apply it; when it
\* comes to handle p's request it has let go.
Safe(p) ==
  /\ pauser[p] \in Early => Unsent(p)
  /\ pauser[p] \in {"send", "wait"} => Clean(p) \/ applied < version
  /\ pauser[p] = "wait" /\ Asks(p) /\ worker.at = "handle" => Clean(p)
  /\ pauser[p] \in {"replied", "paused"} => Clean(p) /\ Under[RootOf[p]] \cap closing = {}

WatcherInv == Typed /\ Counted /\ \A p \in Pausers : Safe(p)

-----------------------------------------------------------------------------
LEMMA WatcherInit == Init => WatcherInv
<1> SUFFICES ASSUME Init PROVE WatcherInv
  OBVIOUS
<1>1. <<>> \in Seq(Signal) /\ Len(<<>>) = 0
  BY EmptySeq
<1>2. Typed
  BY <1>1 DEF Init, Typed, Worker, States
<1>3. \A p \in Pausers : pauser[p] = "idle" /\ pauser[p] \notin Held
  BY DEF Init, Held
<1>4. Counted
  <2> SUFFICES ASSUME NEW r \in Roots PROVE suspended[r] = Cardinality(Holders(r))
    BY DEF Counted
  <2>1. Holders(r) = {}
    BY <1>3 DEF Holders
  <2> QED
    BY <2>1, FS_EmptySet DEF Init
<1>5. ASSUME NEW p \in Pausers PROVE Safe(p)
  BY <1>1, <1>3 DEF Init, Safe, Unsent, Asks
<1> QED
  BY <1>2, <1>4, <1>5 DEF WatcherInv

\* A held root is among the suspended ones.
LEMMA HeldIsSuspended ==
  ASSUME Typed, Counted, NEW p \in Pausers, pauser[p] \in Held
  PROVE  Under[RootOf[p]] \subseteq Suspended
<1> DEFINE r == RootOf[p]
<1>1. r \in Roots /\ p \in Holders(r)
  BY WatcherAssumption DEF Holders
<1>2. IsFiniteSet(Holders(r))
  BY WatcherAssumption, FS_Subset DEF Holders
<1>3. Cardinality(Holders(r)) # 0
  BY <1>1, <1>2, FS_EmptySet
<1>4. suspended[r] > 0
  BY <1>1, <1>3 DEF Counted, Typed
<1> QED
  BY <1>1, <1>4 DEF Suspended

-----------------------------------------------------------------------------
(* The other threads: signals, versions and handles come and go.            *)

SameSenders ==
  \A p \in Pausers : \A i \in 1..Len(signals') :
    From(signals'[i], p) => \E k \in 1..Len(signals) : From(signals[k], p)

\* A signal that asks for nothing, sent or dropped.
LEMMA Enqueue ==
  ASSUME Typed, NEW s \in Signal, s.type # "Synchronize",
         signals' = signals \/ signals' = Append(signals, s)
  PROVE  signals' \in Seq(Signal) /\ SameSenders
<1>1. CASE signals' = signals
  BY <1>1 DEF Typed, SameSenders
<1>2. CASE signals' = Append(signals, s)
  <2>1. /\ signals' \in Seq(Signal) /\ Len(signals') = Len(signals) + 1
        /\ \A i \in 1..Len(signals) : signals'[i] = signals[i]
        /\ signals'[Len(signals) + 1] = s
    BY <1>2, AppendProperties DEF Typed
  <2>2. ASSUME NEW p \in Pausers, NEW i \in 1..Len(signals'), From(signals'[i], p)
        PROVE  i \in 1..Len(signals)
    <3>1. signals'[i] # s
      BY <2>2 DEF From
    <3> QED
      BY <2>1, <3>1 DEF Typed
  <2> QED
    BY <2>1, <2>2 DEF SameSenders
<1> QED
  BY <1>1, <1>2

LEMMA OthersStep ==
  ASSUME WatcherInv,
         desired' \subseteq Dirs, version' \in {version, version + 1},
         signals' \in Seq(Signal), SameSenders, closing' \subseteq closing,
         UNCHANGED <<suspended, worker, watched, applied, pauser>>
  PROVE  WatcherInv'
<1>1. version' \in Nat /\ version <= version'
  BY DEF WatcherInv, Typed
<1>2. Typed'
  BY <1>1 DEF WatcherInv, Typed, Worker
<1>3. Counted'
  BY DEF WatcherInv, Counted, Holders
<1>4. ASSUME NEW p \in Pausers PROVE Safe(p)'
  <2>1. Asks(p)' <=> Asks(p)
    BY DEF Asks
  <2>2. pauser'[p] \in Early => Unsent(p)'
    BY <2>1 DEF WatcherInv, Safe, Unsent, SameSenders
  <2>3. applied < version => applied' < version'
    BY <1>1 DEF WatcherInv, Typed
  <2> QED
    BY <2>1, <2>2, <2>3 DEF WatcherInv, Safe, Clean
<1> QED
  BY <1>2, <1>3, <1>4 DEF WatcherInv

LEMMA OtherThreads ==
  ASSUME WatcherInv,
         SetVisible \/ UiThread \/ EntriesChange \/ CallbackThread \/ QuietPasses \/ AgePasses
           \/ CloseHandle \/ Consumer \/ Rest \/ UNCHANGED vars
  PROVE  WatcherInv'
<1>1. Typed
  BY DEF WatcherInv
<1>2. Reconfigure \in Signal /\ Reconfigure.type # "Synchronize"
      /\ OutputReady \in Signal /\ OutputReady.type # "Synchronize"
  BY DEF Signal, Reconfigure, OutputReady
<1>3. signals' = signals => signals' \in Seq(Signal) /\ SameSenders
  BY <1>1 DEF Typed, SameSenders
<1>4. ASSUME NEW s, TrySend(s) PROVE signals' = signals \/ signals' = Append(signals, s)
  BY <1>4 DEF TrySend
<1>5. signals' \in Seq(Signal) /\ SameSenders
  <2>1. CASE SendReconfigure
    BY <1>1, <1>2, <1>4, <2>1, Enqueue DEF SendReconfigure
  <2>2. CASE EntriesChange
    <3>1. ASSUME NEW changed \in SUBSET Files, NEW large,
                 Notify(changed, [type |-> "Event", paths |-> changed], large)
          PROVE  signals' \in Seq(Signal) /\ SameSenders
      <4>1. [type |-> "Event", paths |-> changed] \in Signal
        BY DEF Signal
      <4>2. signals' = signals \/ signals' = Append(signals, [type |-> "Event", paths |-> changed])
        BY <3>1 DEF Notify
      <4> QED
        BY <1>1, <4>1, <4>2, Enqueue
    <3>2. ASSUME NEW changed \in SUBSET Files, NEW large,
                 Notify(changed, [type |-> "Lost"], large)
          PROVE  signals' \in Seq(Signal) /\ SameSenders
      <4>1. [type |-> "Lost"] \in Signal
        BY DEF Signal
      <4>2. signals' = signals \/ signals' = Append(signals, [type |-> "Lost"])
        BY <3>2 DEF Notify
      <4> QED
        BY <1>1, <4>1, <4>2, Enqueue
    <3> QED
      BY <2>2, <3>1, <3>2, WatcherAssumption DEF EntriesChange
  <2>3. CASE WakeForOverflow
    BY <1>1, <1>2, <1>4, <2>3, Enqueue DEF WakeForOverflow
  <2>4. CASE WakeWorker
    BY <1>1, <1>2, <1>4, <2>4, Enqueue DEF WakeWorker
  <2>5. CASE SetVisible \/ BumpVersion \/ StoreOverflow \/ ReadChange
    BY <1>3, <2>5 DEF SetVisible, BumpVersion, StoreOverflow, ReadChange
  <2>6. CASE QuietPasses \/ AgePasses \/ CloseHandle \/ Rest \/ UNCHANGED vars
    BY <1>3, <2>6 DEF QuietPasses, AgePasses, CloseHandle, TimeOnly, Rest, vars
  <2> QED
    BY <2>1, <2>2, <2>3, <2>4, <2>5, <2>6 DEF UiThread, CallbackThread, Consumer
<1>6. /\ desired' \subseteq Dirs /\ version' \in {version, version + 1}
      /\ closing' \subseteq closing /\ UNCHANGED <<suspended, worker, watched, applied, pauser>>
  <2>1. CASE SetVisible \/ UiThread
    <3>1. SetVisible => desired' \subseteq Dirs
      <4>1. SetVisible => visits' \in 1..Len(Views) /\ desired' \in Views[visits']
        BY DEF SetVisible
      <4>2. \A i \in 1..Len(Views) : Views[i] \in SUBSET SUBSET Dirs
        BY ElementOfSeq, WatcherAssumption
      <4> QED
        BY <4>1, <4>2
    <3> QED
      BY <1>1, <2>1, <3>1 DEF Typed, SetVisible, UiThread, BumpVersion, SendReconfigure, UiOnly, mine
  <2>2. CASE EntriesChange \/ CallbackThread
    BY <1>1, <2>2 DEF Typed, EntriesChange, Notify, CallbackThread, StoreOverflow,
                      WakeForOverflow, CallbackOnly, mine, shared
  <2>3. CASE QuietPasses \/ AgePasses \/ CloseHandle
    BY <1>1, <2>3 DEF Typed, QuietPasses, AgePasses, CloseHandle, TimeOnly, shared
  <2>4. CASE Consumer
    BY <1>1, <2>4 DEF Typed, Consumer, ReadChange, WakeWorker, ConsumerOnly, mine, shared
  <2>5. CASE Rest \/ UNCHANGED vars
    BY <1>1, <2>5 DEF Typed, Rest, vars, shared, mine
  <2> QED
    BY <2>1, <2>2, <2>3, <2>4, <2>5
<1> QED
  BY <1>5, <1>6, OthersStep

-----------------------------------------------------------------------------
(* The worker.                                                              *)

\* A step of the worker leaves the guards as they are.
LEMMA WorkerFrame ==
  ASSUME WatcherInv, UNCHANGED <<suspended, pauser>>
  PROVE  Counted'
  BY DEF WatcherInv, Counted, Holders

LEMMA ReceiveStep == WatcherInv /\ Receive => WatcherInv'
<1> SUFFICES ASSUME WatcherInv, Receive PROVE WatcherInv'
  OBVIOUS
<1>1. /\ UNCHANGED <<desired, version, suspended, watched, applied, closing, pauser>>
      /\ worker'.at = "load" /\ worker'.seen = worker.seen
  BY DEF Receive, WorkerOnly, mine, shared, WatcherInv, Typed, Worker
<1>2. \/ worker'.signal = None /\ worker' \in Worker /\ signals' = signals
      \/ /\ worker'.signal = Head(signals) /\ worker' \in Worker
         /\ signals # <<>> /\ signals' = Tail(signals)
  <2>1. signals # <<>> => Head(signals) \in Signal
    BY HeadTailProperties DEF WatcherInv, Typed
  <2> QED
    BY <2>1 DEF Receive, WatcherInv, Typed, Worker
<1>3. /\ signals' \in Seq(Signal)
      /\ \A p \in Pausers : Unsent(p) => Unsent(p)'
  <2>1. CASE worker'.signal = None /\ signals' = signals
    BY <2>1 DEF WatcherInv, Typed, Unsent, Asks
  <2>2. CASE worker'.signal = Head(signals) /\ signals # <<>> /\ signals' = Tail(signals)
    <3>1. /\ signals \in Seq(Signal) /\ Len(signals) \in Nat \ {0}
          /\ signals' \in Seq(Signal) /\ Len(signals') = Len(signals) - 1
          /\ \A i \in 1..Len(signals') : signals'[i] = signals[i + 1]
          /\ worker'.signal = signals[1]
      BY <2>2, HeadTailProperties, EmptySeq DEF WatcherInv, Typed
    <3>2. ASSUME NEW p \in Pausers, Unsent(p) PROVE Unsent(p)'
      <4>1. ~From(signals[1], p)
        BY <3>1, <3>2 DEF Unsent
      <4>2. ASSUME NEW i \in 1..Len(signals') PROVE ~From(signals'[i], p)
        BY <3>1, <3>2 DEF Unsent
      <4> QED
        BY <3>1, <4>1, <4>2 DEF Unsent, Asks, From
    <3> QED
      BY <3>1, <3>2
  <2> QED
    BY <1>2, <2>1, <2>2
<1>4. Typed'
  BY <1>1, <1>2, <1>3 DEF WatcherInv, Typed
<1>5. ASSUME NEW p \in Pausers PROVE Safe(p)'
  BY <1>1, <1>3 DEF WatcherInv, Safe, Clean
<1> QED
  BY <1>1, <1>4, <1>5, WorkerFrame DEF WatcherInv

\* The worker goes on to handle a request only if there is no newer version.
LEMMA LoadStep == WatcherInv /\ LoadVersion => WatcherInv'
<1> SUFFICES ASSUME WatcherInv, LoadVersion PROVE WatcherInv'
  OBVIOUS
<1>1. /\ UNCHANGED <<desired, version, suspended, signals, watched, applied, closing, pauser>>
      /\ worker' \in Worker /\ worker'.signal = worker.signal /\ worker'.seen = version
      /\ worker'.at = "handle" => version = applied
  BY DEF LoadVersion, WorkerOnly, mine, shared, WatcherInv, Typed, Worker
<1>2. Typed'
  BY <1>1 DEF WatcherInv, Typed
<1>3. ASSUME NEW p \in Pausers PROVE Safe(p)'
  <2>1. Unsent(p) => Unsent(p)'
    BY <1>1 DEF Unsent, Asks
  <2>2. worker'.at = "handle" => ~(applied < version)
    BY <1>1 DEF WatcherInv, Typed
  <2> QED
    BY <1>1, <2>1, <2>2 DEF WatcherInv, Safe, Clean
<1> QED
  BY <1>1, <1>2, <1>3, WorkerFrame DEF WatcherInv

LEMMA LockStep == WatcherInv /\ (LockDesired \/ Publish) => WatcherInv'
<1> SUFFICES ASSUME WatcherInv, LockDesired \/ Publish PROVE WatcherInv'
  OBVIOUS
<1>1. /\ UNCHANGED <<desired, version, suspended, signals, watched, applied, closing, pauser>>
      /\ worker' \in Worker /\ worker'.signal = worker.signal /\ worker'.seen = worker.seen
      /\ worker'.at # "handle"
  BY DEF LockDesired, Publish, WorkerOnly, mine, shared, WatcherInv, Typed, Worker
<1>2. Typed'
  BY <1>1 DEF WatcherInv, Typed
<1>3. ASSUME NEW p \in Pausers PROVE Safe(p)'
  <2>1. Unsent(p) => Unsent(p)'
    BY <1>1 DEF Unsent, Asks
  <2> QED
    BY <1>1, <2>1 DEF WatcherInv, Safe, Clean
<1> QED
  BY <1>1, <1>2, <1>3, WorkerFrame DEF WatcherInv

\* Whatever version it applies, the worker reads the suspended roots as they are.
LEMMA ApplyStep == WatcherInv /\ ApplyWatches => WatcherInv'
<1> SUFFICES ASSUME WatcherInv, ApplyWatches PROVE WatcherInv'
  OBVIOUS
<1>1. /\ UNCHANGED <<desired, version, suspended, signals, pauser>>
      /\ worker' \in Worker /\ worker'.signal = worker.signal /\ worker'.seen = worker.seen
      /\ applied' = worker.seen
      /\ closing' \subseteq closing \cup watched
      /\ watched' \cap Suspended = {}
  BY DEF ApplyWatches, WorkerOnly, shared, WatcherInv, Typed, Worker
<1>2. Typed'
  BY <1>1 DEF WatcherInv, Typed, Worker
<1>3. ASSUME NEW p \in Pausers PROVE Safe(p)'
  <2>1. pauser[p] \in Held => Clean(p)'
    BY <1>1, HeldIsSuspended DEF WatcherInv, Clean
  <2>2. Unsent(p) => Unsent(p)'
    BY <1>1 DEF Unsent, Asks
  <2>3. pauser[p] \in {"replied", "paused"} => Under[RootOf[p]] \cap closing' = {}
    BY <1>1 DEF WatcherInv, Safe, Clean
  <2> QED
    BY <1>1, <2>1, <2>2, <2>3 DEF WatcherInv, Safe, Held
<1> QED
  BY <1>1, <1>2, <1>3, WorkerFrame DEF WatcherInv

\* The reply is sent when the worker watches nothing below the volume and every handle
\* it gave up is closed.
LEMMA HandleStep == WatcherInv /\ HandleSignal => WatcherInv'
<1> SUFFICES ASSUME WatcherInv, HandleSignal PROVE WatcherInv'
  OBVIOUS
<1> DEFINE replied(p) == Asks(p) /\ pauser[p] = "wait"
<1>1. /\ UNCHANGED <<desired, version, suspended, signals, watched, applied>>
      /\ worker' \in Worker /\ worker'.signal = None /\ worker'.seen = worker.seen
      /\ worker.at = "handle" /\ worker'.at = "publish"
  BY DEF HandleSignal, WorkerOnly, shared, WatcherInv, Typed, Worker
<1>2. pauser' = [p \in Pausers |-> IF replied(p) THEN "replied" ELSE pauser[p]]
  BY DEF HandleSignal, Answer
<1>3. closing' = {} \/ closing' = closing
  BY DEF HandleSignal, Answer
<1>4. (\E p \in Pausers : Asks(p)) => closing' = {}
  BY DEF HandleSignal, Answer
<1>5. Typed'
  <2>1. pauser' \in [Pausers -> States]
    BY <1>2 DEF WatcherInv, Typed, States
  <2> QED
    BY <1>1, <2>1 DEF WatcherInv, Typed
<1>6. Counted'
  <2>1. ASSUME NEW p \in Pausers PROVE pauser'[p] \in Held <=> pauser[p] \in Held
    BY <1>2 DEF Held
  <2>2. \A r \in Roots : Holders(r)' = Holders(r)
    BY <2>1 DEF Holders
  <2> QED
    BY <1>1, <2>2 DEF WatcherInv, Counted
<1>7. ASSUME NEW p \in Pausers PROVE Safe(p)'
  <2>1. CASE replied(p)
    <3>1. Clean(p)' /\ closing' = {} /\ pauser'[p] = "replied"
      BY <1>1, <1>2, <1>4, <2>1 DEF WatcherInv, Safe, Clean
    <3> QED
      BY <3>1 DEF Safe, Early
  <2>2. CASE ~replied(p)
    <3>1. pauser'[p] = pauser[p]
      BY <1>2, <2>2
    <3>2. Unsent(p) => Unsent(p)'
      BY <1>1 DEF Unsent, Asks
    <3> QED
      BY <1>1, <1>3, <3>1, <3>2 DEF WatcherInv, Safe, Clean
  <2> QED
    BY <2>1, <2>2
<1> QED
  BY <1>5, <1>6, <1>7 DEF WatcherInv

-----------------------------------------------------------------------------
(* The ejecting threads.                                                    *)

\* p moves, and the rest of what the others rely on stays.
Moves(p, to) ==
  /\ pauser' = [pauser EXCEPT ![p] = to] /\ to \in States
  /\ version' \in {version, version + 1}
  /\ signals' \in Seq(Signal)
  /\ \A q \in Pausers \ {p} : \A i \in 1..Len(signals') :
       From(signals'[i], q) => \E k \in 1..Len(signals) : From(signals[k], q)
  /\ UNCHANGED <<desired, worker, watched, applied, closing>>

LEMMA MoveStep ==
  ASSUME WatcherInv, NEW p \in Pausers, NEW to, Moves(p, to),
         suspended' \in [Roots -> Nat], Counted', Safe(p)'
  PROVE  WatcherInv'
<1>1. version' \in Nat /\ version <= version'
  BY DEF WatcherInv, Typed, Moves
<1>2. Typed'
  BY <1>1 DEF WatcherInv, Typed, Moves, Worker
<1>3. ASSUME NEW q \in Pausers \ {p} PROVE Safe(q)'
  <2>1. pauser'[q] = pauser[q] /\ (Asks(q)' <=> Asks(q))
    BY DEF Moves, Asks, WatcherInv, Typed
  <2>2. Unsent(q) => Unsent(q)'
    BY <2>1 DEF Unsent, Moves
  <2>3. applied < version => applied' < version'
    BY <1>1 DEF WatcherInv, Typed, Moves
  <2> QED
    BY <2>1, <2>2, <2>3 DEF WatcherInv, Safe, Clean, Moves
<1> QED
  BY <1>2, <1>3 DEF WatcherInv

\* The count follows the guards.
LEMMA CountStays ==
  ASSUME WatcherInv, NEW p \in Pausers, NEW to, pauser' = [pauser EXCEPT ![p] = to],
         suspended' = suspended, pauser[p] \in Held <=> to \in Held
  PROVE  Counted'
<1>1. \A q \in Pausers : pauser'[q] \in Held <=> pauser[q] \in Held
  BY DEF WatcherInv, Typed
<1>2. \A r \in Roots : Holders(r)' = Holders(r)
  BY <1>1 DEF Holders
<1> QED
  BY <1>2 DEF WatcherInv, Counted

LEMMA SuspendStep == \A p \in Pausers : WatcherInv /\ Suspend(p) => WatcherInv'
<1> SUFFICES ASSUME NEW p \in Pausers, WatcherInv, Suspend(p) PROVE WatcherInv'
  OBVIOUS
<1> DEFINE root == RootOf[p]
<1>1. /\ pauser[p] = "idle" /\ pauser' = [pauser EXCEPT ![p] = "bump"]
      /\ pauser'[p] = "bump" /\ Moves(p, "bump")
  BY DEF Suspend, Go, PauserOnly, Moves, States, mine, WatcherInv, Typed
<1>2. root \in Roots /\ suspended' = [suspended EXCEPT ![root] = suspended[root] + 1]
  BY WatcherAssumption DEF Suspend
<1>3. suspended' \in [Roots -> Nat]
  BY <1>2 DEF WatcherInv, Typed
<1>4. Counted'
  <2> SUFFICES ASSUME NEW r \in Roots PROVE suspended'[r] = Cardinality(Holders(r)')
    BY DEF Counted
  <2>1. CASE r = root
    <3>1. Holders(r)' = Holders(r) \cup {p} /\ p \notin Holders(r)
      BY <1>1, <2>1 DEF Holders, Held, WatcherInv, Typed
    <3>2. IsFiniteSet(Holders(r))
      BY WatcherAssumption, FS_Subset DEF Holders
    <3>3. Cardinality(Holders(r)') = Cardinality(Holders(r)) + 1
      BY <3>1, <3>2, FS_AddElement
    <3> QED
      BY <1>2, <2>1, <3>3 DEF WatcherInv, Counted, Typed
  <2>2. CASE r # root
    <3>1. Holders(r)' = Holders(r)
      BY <1>1, <2>2 DEF Holders, WatcherInv, Typed
    <3> QED
      BY <1>2, <2>2, <3>1 DEF WatcherInv, Counted, Typed
  <2> QED
    BY <2>1, <2>2
<1>5. Safe(p)'
  <2>1. Unsent(p)'
    BY <1>1 DEF WatcherInv, Safe, Early, Unsent, Suspend, Asks, PauserOnly
  <2> QED
    BY <1>1, <2>1 DEF Safe
<1> QED
  BY <1>1, <1>3, <1>4, <1>5, MoveStep

LEMMA ResumeStep == \A p \in Pausers : WatcherInv /\ Resume(p) => WatcherInv'
<1> SUFFICES ASSUME NEW p \in Pausers, WatcherInv, Resume(p) PROVE WatcherInv'
  OBVIOUS
<1> DEFINE root == RootOf[p]
<1>1. /\ pauser[p] \in {"paused", "failed"} /\ pauser' = [pauser EXCEPT ![p] = "rebump"]
      /\ pauser'[p] = "rebump" /\ Moves(p, "rebump")
  BY DEF Resume, Go, PauserOnly, Moves, States, mine, WatcherInv, Typed
<1>2. root \in Roots /\ suspended' = [suspended EXCEPT ![root] = suspended[root] - 1]
  BY WatcherAssumption DEF Resume
<1>3. \A r \in Roots : IsFiniteSet(Holders(r)) /\ Cardinality(Holders(r)) \in Nat
  BY WatcherAssumption, FS_Subset, FS_CardinalityType DEF Holders
<1>4. Holders(root)' = Holders(root) \ {p} /\ p \in Holders(root)
  BY <1>1 DEF Holders, Held, WatcherInv, Typed
<1>5. Cardinality(Holders(root)') = Cardinality(Holders(root)) - 1
  BY <1>2, <1>3, <1>4, FS_RemoveElement
<1>6. Cardinality(Holders(root)') \in Nat
  BY <1>2, <1>3, <1>4, FS_Subset, FS_CardinalityType
<1>7. suspended'[root] = Cardinality(Holders(root)')
  BY <1>2, <1>5 DEF WatcherInv, Counted, Typed
<1>8. suspended' \in [Roots -> Nat]
  BY <1>2, <1>6, <1>7 DEF WatcherInv, Typed
<1>9. Counted'
  <2> SUFFICES ASSUME NEW r \in Roots PROVE suspended'[r] = Cardinality(Holders(r)')
    BY DEF Counted
  <2>1. CASE r = root
    BY <1>7, <2>1
  <2>2. CASE r # root
    <3>1. Holders(r)' = Holders(r)
      BY <1>1, <2>2 DEF Holders, WatcherInv, Typed
    <3> QED
      BY <1>2, <2>2, <3>1 DEF WatcherInv, Counted, Typed
  <2> QED
    BY <2>1, <2>2
<1>10. Safe(p)'
  BY <1>1 DEF Safe, Early
<1> QED
  BY <1>1, <1>8, <1>9, <1>10, MoveStep

LEMMA BumpStep == \A p \in Pausers : WatcherInv /\ BumpForPause(p) => WatcherInv'
<1> SUFFICES ASSUME NEW p \in Pausers, WatcherInv, BumpForPause(p) PROVE WatcherInv'
  OBVIOUS
<1>1. UNCHANGED <<desired, suspended, signals, worker, watched, applied, closing>>
      /\ version' = version + 1
  BY DEF BumpForPause, PauserOnly, mine
<1>2. suspended' \in [Roots -> Nat]
  BY <1>1 DEF WatcherInv, Typed
<1>3. CASE Go(p, "bump", "send")
  <2>1. /\ pauser[p] = "bump" /\ pauser' = [pauser EXCEPT ![p] = "send"]
        /\ pauser'[p] = "send" /\ Moves(p, "send")
    BY <1>1, <1>3 DEF Go, Moves, States, WatcherInv, Typed
  <2>2. Unsent(p)'
    BY <1>1, <2>1 DEF WatcherInv, Safe, Early, Unsent, Asks
  <2>3. applied' < version'
    BY <1>1 DEF WatcherInv, Typed
  <2>4. Safe(p)'
    BY <2>1, <2>2, <2>3 DEF Safe
  <2>5. Counted'
    BY <1>1, <2>1, CountStays DEF Held
  <2> QED
    BY <1>2, <2>1, <2>4, <2>5, MoveStep
<1>4. CASE Go(p, "rebump", "rewake")
  <2>1. /\ pauser[p] = "rebump" /\ pauser' = [pauser EXCEPT ![p] = "rewake"]
        /\ pauser'[p] = "rewake" /\ Moves(p, "rewake")
    BY <1>1, <1>4 DEF Go, Moves, States, WatcherInv, Typed
  <2>2. Safe(p)'
    BY <2>1 DEF Safe, Early
  <2>3. Counted'
    BY <1>1, <2>1, CountStays DEF Held
  <2> QED
    BY <1>2, <2>1, <2>2, <2>3, MoveStep
<1> QED
  BY <1>3, <1>4 DEF BumpForPause

LEMMA SynchronizeStep == \A p \in Pausers : WatcherInv /\ Synchronize(p) => WatcherInv'
<1> SUFFICES ASSUME NEW p \in Pausers, WatcherInv, Synchronize(p) PROVE WatcherInv'
  OBVIOUS
<1> DEFINE s == [type |-> "Synchronize", from |-> p]
<1>1. /\ UNCHANGED <<desired, version, suspended, worker, watched, applied, closing>>
      /\ pauser[p] = "send" /\ pauser' = [pauser EXCEPT ![p] = "wait"] /\ pauser'[p] = "wait"
      /\ signals' = Append(signals, s)
  BY DEF Synchronize, Go, PauserOnly, mine, WatcherInv, Typed
<1>2. s \in Signal
  BY DEF Signal
<1>3. /\ signals' \in Seq(Signal) /\ Len(signals') = Len(signals) + 1
      /\ \A i \in 1..Len(signals) : signals'[i] = signals[i]
      /\ signals'[Len(signals) + 1] = s
  BY <1>1, <1>2, AppendProperties DEF WatcherInv, Typed
<1>4. ASSUME NEW q \in Pausers \ {p}, NEW i \in 1..Len(signals'), From(signals'[i], q)
      PROVE  i \in 1..Len(signals)
  <2>1. signals'[i] # s
    BY <1>4 DEF From
  <2> QED
    BY <1>3, <2>1 DEF WatcherInv, Typed
<1>5. Moves(p, "wait")
  BY <1>1, <1>3, <1>4 DEF Moves, States
<1>6. Safe(p)'
  <2>1. ~Asks(p)'
    BY <1>1 DEF WatcherInv, Safe, Early, Unsent, Asks
  <2>2. Clean(p)' \/ applied' < version'
    BY <1>1 DEF WatcherInv, Safe, Clean
  <2> QED
    BY <1>1, <2>1, <2>2 DEF Safe, Early
<1>7. Counted'
  BY <1>1, CountStays DEF Held
<1> QED
  BY <1>1, <1>5, <1>6, <1>7, MoveStep DEF WatcherInv, Typed

LEMMA LateStep ==
  \A p \in Pausers : WatcherInv /\ (TimeOut(p) \/ Paused(p) \/ WakeAfterPause(p)) => WatcherInv'
<1> SUFFICES ASSUME NEW p \in Pausers, WatcherInv, TimeOut(p) \/ Paused(p) \/ WakeAfterPause(p)
             PROVE  WatcherInv'
  OBVIOUS
<1>1. UNCHANGED <<desired, version, suspended, worker, watched, applied, closing>>
  BY DEF TimeOut, Paused, WakeAfterPause, PauserOnly, mine
<1>2. suspended' \in [Roots -> Nat]
  BY <1>1 DEF WatcherInv, Typed
<1>3. signals' \in Seq(Signal) /\ SameSenders
  <2>1. CASE signals' = signals
    BY <2>1 DEF WatcherInv, Typed, SameSenders
  <2>2. CASE TrySend(Reconfigure)
    <3>1. Reconfigure \in Signal /\ Reconfigure.type # "Synchronize"
      BY DEF Signal, Reconfigure
    <3>2. signals' = signals \/ signals' = Append(signals, Reconfigure)
      BY <2>2 DEF TrySend
    <3> QED
      BY <3>1, <3>2, Enqueue DEF WatcherInv
  <2> QED
    BY <2>1, <2>2 DEF TimeOut, Paused, WakeAfterPause
<1>4. ASSUME NEW from, NEW to \in States, Go(p, from, to)
      PROVE  pauser[p] = from /\ pauser' = [pauser EXCEPT ![p] = to] /\ pauser'[p] = to
             /\ Moves(p, to)
  BY <1>1, <1>3, <1>4 DEF Go, Moves, SameSenders, WatcherInv, Typed
<1>5. CASE TimeOut(p)
  <2>1. pauser[p] \in {"send", "wait"} /\ Moves(p, "failed") /\ pauser'[p] = "failed"
        /\ pauser' = [pauser EXCEPT ![p] = "failed"]
    BY <1>4, <1>5 DEF TimeOut, States
  <2>2. Safe(p)'
    BY <2>1 DEF Safe, Early
  <2>3. Counted'
    BY <1>1, <2>1, CountStays DEF Held
  <2> QED
    BY <1>2, <2>1, <2>2, <2>3, MoveStep
<1>6. CASE Paused(p)
  <2>1. pauser[p] = "replied" /\ Moves(p, "paused") /\ pauser'[p] = "paused"
        /\ pauser' = [pauser EXCEPT ![p] = "paused"]
    BY <1>4, <1>6 DEF Paused, States
  <2>2. Safe(p)'
    BY <1>1, <2>1 DEF WatcherInv, Safe, Clean, Early
  <2>3. Counted'
    BY <1>1, <2>1, CountStays DEF Held
  <2> QED
    BY <1>2, <2>1, <2>2, <2>3, MoveStep
<1>7. CASE WakeAfterPause(p)
  <2>1. pauser[p] = "rewake" /\ Moves(p, "over") /\ pauser'[p] = "over"
        /\ pauser' = [pauser EXCEPT ![p] = "over"]
    BY <1>4, <1>7 DEF WakeAfterPause, States
  <2>2. Safe(p)'
    BY <2>1 DEF Safe, Early
  <2>3. Counted'
    BY <1>1, <2>1, CountStays DEF Held
  <2> QED
    BY <1>2, <2>1, <2>2, <2>3, MoveStep
<1> QED
  BY <1>5, <1>6, <1>7

-----------------------------------------------------------------------------
LEMMA WatcherStep == WatcherInv /\ [Next]_vars => WatcherInv'
<1> SUFFICES ASSUME WatcherInv, [Next]_vars PROVE WatcherInv'
  OBVIOUS
<1>1. CASE WorkerThread
  BY <1>1, ReceiveStep, LoadStep, LockStep, ApplyStep, HandleStep DEF WorkerThread
<1>2. ASSUME NEW p \in Pausers, Suspend(p) \/ PauseSteps(p) PROVE WatcherInv'
  BY <1>2, SuspendStep, ResumeStep, BumpStep, SynchronizeStep, LateStep DEF PauseSteps
<1> QED
  BY <1>1, <1>2, OtherThreads DEF Next

\* From the success of pause_directory_watches until its guard is dropped, nothing is
\* watched and no handle is open below the volume: for any number of volumes, ejecting
\* threads and directories, any capacity of the signal channel, and whatever the window
\* shows and the other ejections do meanwhile.
THEOREM PausesHold == Spec => []PauseReleasesHandles
<1>1. WatcherInv => PauseReleasesHandles
  BY DEF WatcherInv, Safe, Clean, PauseReleasesHandles
<1> QED
  BY <1>1, WatcherInit, WatcherStep, PTL DEF Spec

-----------------------------------------------------------------------------
(* The watcher as a change feed.                                            *)

\* Between its loops the worker has no signal in its hands.
Handled == worker.at \in {"recv", "publish"} => worker.signal = None

FeedInv == TypeOK /\ Handled /\ ChangesAreKept

-----------------------------------------------------------------------------
(* What a step must do to be a step of the feed.                            *)

Keeps == watched' = watched /\ stale' = stale /\ Untold \subseteq Untold'

LEMMA KeepsIsChange == FeedInv /\ Keeps => Feed!Next
<1> SUFFICES ASSUME FeedInv, Keeps PROVE Feed!Next
  OBVIOUS
<1>1. Front' \subseteq Files /\ Untold' \subseteq Files
  BY DEF Front, Untold
<1>2. Feed!Change({})
  BY DEF Keeps, FeedInv, ChangesAreKept, Feed!Change
<1> QED
  BY <1>1, <1>2 DEF Feed!Next

LEMMA FeedKeeps == ChangesAreKept /\ [Feed!Next]_Feed!feed => ChangesAreKept'
<1> SUFFICES ASSUME ChangesAreKept, [Feed!Next]_Feed!feed PROVE ChangesAreKept'
  OBVIOUS
<1>1. CASE UNCHANGED Feed!feed
  BY <1>1 DEF Feed!feed, ChangesAreKept
<1>2. CASE \E changed \in SUBSET Files : Feed!Change(changed)
  BY <1>2 DEF Feed!Change, ChangesAreKept
<1>3. CASE Feed!Read(Front)
  BY <1>3 DEF Feed!Read, ChangesAreKept
<1>4. CASE \E next \in SUBSET Dirs : Feed!Watch(next)
  BY <1>4 DEF Feed!Watch, ChangesAreKept
<1> QED
  BY <1>1, <1>2, <1>3, <1>4 DEF Feed!Next

\* A signal that is sent, or dropped, takes nothing from the others.
LEMMA SendKeeps ==
  ASSUME TypeOK, NEW s \in Signal, signals' = signals \/ signals' = Append(signals, s),
         UNCHANGED <<watched, overflow, worker, batch, pending, output>>,
         callback' = callback \/ callback # "store"
  PROVE  Untold \subseteq Untold'
<1>1. \A i \in 1..Len(signals) : i \in 1..Len(signals') /\ signals'[i] = signals[i]
  <2>1. CASE signals' = signals
    BY <2>1
  <2>2. CASE signals' = Append(signals, s)
    BY <2>2, AppendProperties DEF TypeOK
  <2> QED
    BY <2>1, <2>2
<1> QED
  BY <1>1 DEF Untold

-----------------------------------------------------------------------------
(* The threads beside the worker.                                           *)

LEMMA Channels ==
  /\ Reconfigure \in Signal /\ OutputReady \in Signal /\ [type |-> "Lost"] \in Signal
  /\ \A paths \in SUBSET Files : [type |-> "Event", paths |-> paths] \in Signal
  /\ \A p \in Pausers : [type |-> "Synchronize", from |-> p] \in Signal
BY DEF Reconfigure, OutputReady, Signal

LEMMA SendTypes ==
  ASSUME TypeOK, NEW s \in Signal,
         \/ signals' = signals
         \/ Len(signals) < SignalCap /\ signals' = Append(signals, s)
  PROVE  signals' \in Seq(Signal) /\ Len(signals') <= SignalCap
<1>1. CASE signals' = signals
  BY <1>1 DEF TypeOK
<1>2. CASE Len(signals) < SignalCap /\ signals' = Append(signals, s)
  BY <1>2, AppendProperties, WatcherAssumption DEF TypeOK
<1> QED
  BY <1>1, <1>2

\* A step that only sends a signal, and moves threads other than the worker.
LEMMA SendStep ==
  ASSUME FeedInv, WatcherInv', NEW s \in Signal,
         \/ signals' = signals
         \/ Len(signals) < SignalCap /\ signals' = Append(signals, s),
         UNCHANGED <<output, overflow, worker, mine, stale>>,
         callback' \in {"idle", "store", "wake"}, callback' = callback \/ callback # "store",
         ui' \in {"idle", "bump", "send"}, consumer' \in {"recv", "wake"},
         visits' \in 0..Len(Views)
  PROVE  TypeOK' /\ Handled' /\ Feed!Next
<1>1. signals' \in Seq(Signal) /\ Len(signals') <= SignalCap
  BY SendTypes DEF FeedInv
<1>2. TypeOK'
  BY <1>1 DEF FeedInv, TypeOK, mine, WatcherInv, Typed, States
<1>3. Handled'
  BY DEF FeedInv, Handled
<1>4. Keeps
  BY SendKeeps DEF FeedInv, Keeps, mine
<1> QED
  BY <1>2, <1>3, <1>4, KeepsIsChange

LEMMA UiFeed ==
  FeedInv /\ WatcherInv' /\ (SetVisible \/ UiThread) => TypeOK' /\ Handled' /\ Feed!Next
<1> SUFFICES ASSUME FeedInv, WatcherInv', SetVisible \/ UiThread
             PROVE  TypeOK' /\ Handled' /\ Feed!Next
  OBVIOUS
<1>1. visits' \in 0..Len(Views)
  BY DEF FeedInv, TypeOK, SetVisible, UiThread, BumpVersion, SendReconfigure, UiOnly
<1>2. \/ signals' = signals
      \/ Len(signals) < SignalCap /\ signals' = Append(signals, Reconfigure)
  BY DEF SetVisible, UiThread, BumpVersion, SendReconfigure, TrySend
<1> QED
  BY <1>1, <1>2, Channels, SendStep
  DEF FeedInv, TypeOK, SetVisible, UiThread, BumpVersion, SendReconfigure, UiOnly

LEMMA PauseFeed ==
  ASSUME FeedInv, WatcherInv', NEW p \in Pausers, Suspend(p) \/ PauseSteps(p)
  PROVE  TypeOK' /\ Handled' /\ Feed!Next
<1>1. \/ signals' = signals
      \/ Len(signals) < SignalCap /\ signals' = Append(signals, Reconfigure)
      \/ /\ Len(signals) < SignalCap
         /\ signals' = Append(signals, [type |-> "Synchronize", from |-> p])
  BY DEF Suspend, PauseSteps, BumpForPause, Synchronize, TimeOut, Paused, Resume, WakeAfterPause, TrySend
<1>2. PauserOnly
  BY DEF Suspend, PauseSteps, BumpForPause, Synchronize, TimeOut, Paused, Resume, WakeAfterPause
<1> QED
  BY <1>1, <1>2, Channels, SendStep DEF PauserOnly, FeedInv, TypeOK

LEMMA TimeFeed ==
  FeedInv /\ WatcherInv' /\ (QuietPasses \/ AgePasses \/ CloseHandle)
    => TypeOK' /\ Handled' /\ Feed!Next
<1> SUFFICES ASSUME FeedInv, WatcherInv', QuietPasses \/ AgePasses \/ CloseHandle
             PROVE  TypeOK' /\ Handled' /\ Feed!Next
  OBVIOUS
<1>1. batch' \in Batch \cup {None} /\ closing' \subseteq Dirs
  BY DEF FeedInv, TypeOK, QuietPasses, AgePasses, CloseHandle, Batch
<1>2. TypeOK'
  BY <1>1 DEF FeedInv, TypeOK, QuietPasses, AgePasses, CloseHandle, TimeOnly, shared
<1>3. Handled'
  BY DEF FeedInv, Handled, QuietPasses, AgePasses, CloseHandle, TimeOnly
<1>4. \A f \in Files : Gathers(batch, f) => Gathers(batch', f)
  <2>1. CASE CloseHandle
    BY <2>1 DEF CloseHandle, Gathers
  <2>2. CASE QuietPasses \/ AgePasses
    <3>1. batch \in Batch /\ batch' \in Batch
      BY <2>2 DEF QuietPasses, AgePasses, FeedInv, TypeOK, Batch
    <3>2. batch'.dirs = batch.dirs /\ batch'.paths = batch.paths /\ batch'.full = batch.full
      BY <2>2, <3>1 DEF QuietPasses, AgePasses, Batch
    <3>3. batch' # None
      BY <3>1, NoneAssumption
    <3> QED
      BY <3>2, <3>3 DEF Gathers
  <2> QED
    BY <2>1, <2>2
<1>5. Keeps
  BY <1>4 DEF QuietPasses, AgePasses, CloseHandle, TimeOnly, Keeps, Untold
<1> QED
  BY <1>2, <1>3, <1>5, KeepsIsChange

LEMMA CallbackFeed ==
  FeedInv /\ WatcherInv' /\ CallbackThread => TypeOK' /\ Handled' /\ Feed!Next
<1> SUFFICES ASSUME FeedInv, WatcherInv', CallbackThread PROVE TypeOK' /\ Handled' /\ Feed!Next
  OBVIOUS
<1>1. CASE WakeForOverflow
  <2>1. \/ signals' = signals
        \/ Len(signals) < SignalCap /\ signals' = Append(signals, OutputReady)
    BY <1>1 DEF WakeForOverflow, TrySend
  <2> QED
    BY <1>1, <2>1, Channels, SendStep DEF WakeForOverflow, CallbackOnly, FeedInv, TypeOK
<1>2. CASE StoreOverflow
  <2>1. TypeOK'
    BY <1>2 DEF StoreOverflow, CallbackOnly, FeedInv, TypeOK, mine, shared
  <2>2. Handled'
    BY <1>2 DEF StoreOverflow, CallbackOnly, FeedInv, Handled
  <2>3. Keeps
    BY <1>2 DEF StoreOverflow, CallbackOnly, mine, Keeps, Untold
  <2> QED
    BY <2>1, <2>2, <2>3, KeepsIsChange
<1> QED
  BY <1>1, <1>2 DEF CallbackThread

\* The changed entries of watched directories are in the event, or in the overflow.
LEMMA NotifyFeed ==
  ASSUME FeedInv, WatcherInv', NEW changed \in SUBSET Files, NEW signal \in Signal,
         NEW large, Notify(changed, signal, large),
         \A f \in changed : Carries(signal, f)
  PROVE  TypeOK' /\ Handled' /\ Feed!Next
<1>1. stale' = stale \cup {f \in changed : DirOf[f] \in watched} /\ UNCHANGED watched
  BY DEF Notify, CallbackOnly, mine
<1>2. /\ UNCHANGED <<overflow, worker, batch, pending, output>>
      /\ \/ signals' = signals /\ callback' = "store"
         \/ signals' = Append(signals, signal) /\ callback' = "idle" /\ Len(signals) < SignalCap
  <2>1. Len(signals) # SignalCap => Len(signals) < SignalCap
    BY WatcherAssumption DEF FeedInv, TypeOK
  <2> QED
    BY <2>1 DEF Notify, CallbackOnly, mine
<1>3. signals' \in Seq(Signal) /\ Len(signals') <= SignalCap
  BY <1>2, SendTypes DEF FeedInv
<1>4. TypeOK'
  BY <1>1, <1>2, <1>3 DEF Notify, CallbackOnly, FeedInv, TypeOK, shared, mine
<1>5. Handled'
  BY <1>2 DEF FeedInv, Handled
<1>6. Untold \subseteq Untold'
  <2>1. callback # "store"
    BY DEF Notify
  <2> QED
    BY <1>1, <1>2, <2>1, SendKeeps DEF FeedInv
<1>7. {f \in changed : DirOf[f] \in watched} \subseteq Untold'
  <2>1. CASE callback' = "store"
    BY <1>1, <2>1 DEF Untold
  <2>2. CASE signals' = Append(signals, signal)
    <3>1. Len(signals) + 1 \in 1..Len(signals') /\ signals'[Len(signals) + 1] = signal
      BY <2>2, AppendProperties DEF FeedInv, TypeOK
    <3> QED
      BY <1>1, <3>1 DEF Untold
  <2> QED
    BY <1>2, <2>1, <2>2
<1>8. Feed!Change(changed)
  BY <1>1, <1>6, <1>7 DEF Feed!Change, Feed!Below, FeedInv, ChangesAreKept
<1>9. Front' \subseteq Files /\ Untold' \subseteq Files
  BY DEF Front, Untold
<1> QED
  BY <1>4, <1>5, <1>8, <1>9 DEF Feed!Next

LEMMA EntriesFeed ==
  FeedInv /\ WatcherInv' /\ EntriesChange => TypeOK' /\ Handled' /\ Feed!Next
<1> SUFFICES ASSUME FeedInv, WatcherInv', EntriesChange PROVE TypeOK' /\ Handled' /\ Feed!Next
  OBVIOUS
<1>1. PICK changed \in SUBSET Files :
        \/ Notify(changed, [type |-> "Event", paths |-> changed], Cardinality(changed) > MaxPaths)
        \/ Notify(changed, [type |-> "Lost"], FALSE)
  BY WatcherAssumption DEF EntriesChange
<1>2. \A f \in changed : /\ Carries([type |-> "Event", paths |-> changed], f)
                         /\ Carries([type |-> "Lost"], f)
  BY Channels, NoneAssumption DEF Carries
<1>3. CASE Notify(changed, [type |-> "Lost"], FALSE)
  BY <1>2, <1>3, Channels, NotifyFeed
<1>4. CASE Notify(changed, [type |-> "Event", paths |-> changed], Cardinality(changed) > MaxPaths)
  BY <1>2, <1>4, Channels, NotifyFeed
<1> QED
  BY <1>1, <1>3, <1>4

LEMMA ConsumerFeed ==
  FeedInv /\ WatcherInv' /\ Consumer => TypeOK' /\ Handled' /\ Feed!Next
<1> SUFFICES ASSUME FeedInv, WatcherInv', Consumer PROVE TypeOK' /\ Handled' /\ Feed!Next
  OBVIOUS
<1>1. CASE WakeWorker
  <2>1. \/ signals' = signals
        \/ Len(signals) < SignalCap /\ signals' = Append(signals, OutputReady)
    BY <1>1 DEF WakeWorker, TrySend
  <2> QED
    BY <1>1, <2>1, Channels, SendStep DEF WakeWorker, ConsumerOnly, FeedInv, TypeOK
<1>2. CASE ReadChange
  <2>1. /\ output' \in Seq(Change) /\ Len(output') = Len(output) - 1 /\ Len(output) >= 1
        /\ \A i \in 1..Len(output') : i + 1 \in 1..Len(output) /\ output'[i] = output[i + 1]
        /\ Head(output) = output[1]
    BY <1>2, HeadTailProperties, EmptySeq DEF ReadChange, FeedInv, TypeOK
  <2>2. TypeOK'
    <3>1. Len(output') <= OutputCap
      BY <2>1, WatcherAssumption DEF FeedInv, TypeOK
    <3>2. stale' \subseteq Files /\ consumer' \in {"recv", "wake"}
      BY <1>2 DEF ReadChange, FeedInv, TypeOK
    <3> QED
      BY <1>2, <2>1, <3>1, <3>2 DEF ReadChange, ConsumerOnly, FeedInv, TypeOK, shared, mine
  <2>3. Handled'
    BY <1>2 DEF ReadChange, ConsumerOnly, FeedInv, Handled
  <2>4. Front = {f \in Files : Holds(output[1], f)} /\ stale' = stale \ Front
    BY <1>2, <2>1 DEF ReadChange, Front, FeedInv, TypeOK
  <2>5. Untold' \subseteq Untold
    BY <1>2, <2>1 DEF ReadChange, ConsumerOnly, mine, Untold
  <2>6. Untold \ Front \subseteq Untold'
    <3> SUFFICES ASSUME NEW f \in Untold, f \notin Front PROVE f \in Untold'
      OBVIOUS
    <3>1. CASE \E i \in 1..Len(output) : Holds(output[i], f)
      <4>1. PICK i \in 1..Len(output) : Holds(output[i], f)
        BY <3>1
      <4>2. i # 1
        BY <2>4, <4>1 DEF Untold
      <4>3. i - 1 \in 1..Len(output') /\ output'[i - 1] = output[i]
        BY <2>1, <4>2 DEF FeedInv, TypeOK
      <4> QED
        BY <1>2, <4>1, <4>3 DEF ReadChange, ConsumerOnly, mine, Untold
    <3>2. CASE ~\E i \in 1..Len(output) : Holds(output[i], f)
      BY <1>2, <3>2 DEF ReadChange, ConsumerOnly, mine, Untold
    <3> QED
      BY <3>1, <3>2
  <2>7. Feed!Read(Front)
    BY <1>2, <2>4, <2>5, <2>6 DEF Feed!Read, ReadChange, ConsumerOnly, mine
  <2>8. Front' \subseteq Files /\ Untold' \subseteq Files
    BY DEF Front, Untold
  <2> QED
    BY <2>2, <2>3, <2>7, <2>8 DEF Feed!Next
<1> QED
  BY <1>1, <1>2 DEF Consumer

-----------------------------------------------------------------------------
(* Batches and changes never lose what they have gathered.                  *)

LEMMA RecordKeeps ==
  ASSUME NEW b \in Batch, NEW dirs \in SUBSET Dirs, NEW paths \in SUBSET (Files \cup Dirs)
  PROVE  /\ Record(b, dirs, paths) \in Batch
         /\ Record(b, dirs, paths).dirs = b.dirs \cup dirs
         /\ b.full => Record(b, dirs, paths).full
         /\ \A f \in Files : Gathers(b, f) \/ (DirOf[f] \in dirs /\ f \in paths)
                               => Gathers(Record(b, dirs, paths), f)
<1> DEFINE room == /\ Cardinality(b.paths \cup paths) <= MaxPaths
                   /\ paths # {} => Cardinality(b.paths) < MaxPaths
           r == Record(b, dirs, paths)
<1>1. /\ r.dirs = b.dirs \cup dirs /\ r.full = (b.full \/ ~room)
      /\ r.paths = IF b.full THEN b.paths ELSE IF room THEN b.paths \cup paths ELSE {}
      /\ r.quiet = FALSE /\ r.old = b.old /\ r = [b EXCEPT !.dirs = r.dirs,
           !.quiet = FALSE, !.full = r.full, !.paths = r.paths]
  BY DEF Record, Batch
<1>2. r \in Batch
  <2>1. r.dirs \subseteq Dirs /\ r.full \in BOOLEAN /\ r.paths \subseteq Files \cup Dirs
    BY <1>1 DEF Batch
  <2> HIDE DEF r
  <2> QED
    BY <1>1, <2>1 DEF Batch
<1>3. r # None
  BY <1>2, NoneAssumption
<1> HIDE DEF r, room
<1>4. ASSUME NEW f \in Files, Gathers(b, f) \/ (DirOf[f] \in dirs /\ f \in paths)
      PROVE  Gathers(r, f)
  BY <1>1, <1>3, <1>4 DEF Gathers
<1> QED
  BY <1>1, <1>2, <1>4 DEF r

LEMMA GatheredKeeps ==
  ASSUME NEW b \in Batch \cup {None}
  PROVE  Gathered(b) \in Batch /\ \A f \in Files : Gathers(b, f) => Gathers(Gathered(b), f)
BY DEF Gathered, NewBatch, Batch, Gathers

LEMMA RecordFullKeeps ==
  ASSUME NEW b \in Batch \cup {None}, watched \subseteq Dirs
  PROVE  /\ RecordFull(b) \in Batch \cup {None}
         /\ \A f \in Files : Gathers(b, f) \/ DirOf[f] \in watched => Gathers(RecordFull(b), f)
<1>1. CASE watched = {}
  BY <1>1 DEF RecordFull
<1>2. CASE watched # {}
  <2> DEFINE g == Record(Gathered(b), watched, {})
  <2>1. /\ g \in Batch /\ g.dirs = Gathered(b).dirs \cup watched
        /\ Gathered(b) \in Batch
        /\ \A f \in Files : Gathers(b, f) => Gathers(g, f)
    BY GatheredKeeps, RecordKeeps
  <2>2. RecordFull(b) = [g EXCEPT !.full = TRUE, !.paths = {}]
    BY <1>2 DEF RecordFull
  <2> HIDE DEF g
  <2>3. /\ RecordFull(b) \in Batch /\ RecordFull(b).full
        /\ RecordFull(b).dirs = g.dirs
    BY <2>1, <2>2 DEF Batch
  <2>4. RecordFull(b) # None
    BY <2>3, NoneAssumption
  <2> QED
    BY <2>1, <2>3, <2>4 DEF Gathers
<1> QED
  BY <1>1, <1>2

LEMMA RecordSignalKeeps ==
  ASSUME NEW b \in Batch \cup {None}, NEW signal \in Signal \cup {None}, watched \subseteq Dirs
  PROVE  /\ RecordSignal(b, signal) \in Batch \cup {None}
         /\ \A f \in Files :
              Gathers(b, f) \/ (DirOf[f] \in watched /\ Carries(signal, f))
                => Gathers(RecordSignal(b, signal), f)
<1>1. CASE signal # None /\ signal.type = "Lost"
  <2>1. RecordSignal(b, signal) = RecordFull(b)
    BY <1>1 DEF RecordSignal
  <2> QED
    BY <2>1, RecordFullKeeps
<1>2. CASE signal # None /\ signal.type = "Event"
  <2>1. signal.paths \in SUBSET Files /\ signal.paths \in SUBSET (Files \cup Dirs)
    BY <1>2 DEF Signal
  <2>2. DirsFor(signal.paths) \in SUBSET Dirs
    BY DEF DirsFor
  <2>3. CASE DirsFor(signal.paths) = {}
    BY <1>2, <2>1, <2>3 DEF RecordSignal, DirsFor, Carries
  <2>4. CASE DirsFor(signal.paths) # {}
    <3>1. RecordSignal(b, signal) = Record(Gathered(b), DirsFor(signal.paths), signal.paths)
      BY <1>2, <2>4 DEF RecordSignal
    <3>2. \A f \in signal.paths : DirOf[f] \in watched => DirOf[f] \in DirsFor(signal.paths)
      BY DEF DirsFor
    <3> DEFINE g == Gathered(b)
               dirs == DirsFor(signal.paths)
               paths == signal.paths
               r == Record(g, dirs, paths)
    <3>3. g \in Batch /\ \A f \in Files : Gathers(b, f) => Gathers(g, f)
      BY GatheredKeeps
    <3>4. dirs \in SUBSET Dirs /\ paths \in SUBSET (Files \cup Dirs)
      BY <2>1, <2>2
    <3>5. RecordSignal(b, signal) = r
      BY <3>1
    <3>6. \A f \in Files : DirOf[f] \in watched /\ Carries(signal, f) => DirOf[f] \in dirs /\ f \in paths
      BY <1>2, <3>2 DEF Carries
    <3> HIDE DEF g, dirs, paths
    <3>7. /\ r \in Batch
          /\ \A f \in Files : Gathers(g, f) \/ (DirOf[f] \in dirs /\ f \in paths) => Gathers(r, f)
      BY <3>3, <3>4, RecordKeeps
    <3> HIDE DEF r
    <3> QED
      BY <3>3, <3>5, <3>6, <3>7
  <2> QED
    BY <2>3, <2>4
<1>3. CASE signal = None \/ signal.type \notin {"Lost", "Event"}
  BY <1>3 DEF RecordSignal, Carries
<1> QED
  BY <1>1, <1>2, <1>3

LEMMA IntoChangeKeeps ==
  ASSUME NEW b \in Batch
  PROVE  /\ IntoChange(b) \in Change
         /\ \A f \in Files : Gathers(b, f) => Holds(IntoChange(b), f)
<1>1. IntoChange(b) \in Change
  BY DEF IntoChange, Batch, Change
<1>2. IntoChange(b) # None
  BY <1>1, NoneAssumption
<1> QED
  BY <1>1, <1>2 DEF IntoChange, Gathers, Holds, Tells

LEMMA MergeKeeps ==
  ASSUME NEW previous \in Change, NEW next \in Change
  PROVE  /\ Merge(previous, next) \in Change
         /\ \A f \in Files : Holds(previous, f) \/ Holds(next, f)
                               => Holds(Merge(previous, next), f)
<1> DEFINE marked == Marked(previous) \/ Marked(next)
           start == [NewBatch EXCEPT !.full = marked]
           dirs == previous.dirs \cup next.dirs
           paths == previous.paths \cup next.paths
           merged == Record(start, dirs, paths)
<1>1. start \in Batch /\ start.full = marked
  BY DEF NewBatch, Batch
<1>2. dirs \in SUBSET Dirs /\ paths \in SUBSET (Files \cup Dirs)
  BY DEF Change
<1>3. Merge(previous, next) = IntoChange(merged)
  BY DEF Merge
<1>4. \A f \in Files : Holds(previous, f) \/ Holds(next, f)
                         => DirOf[f] \in dirs /\ (f \in paths \/ marked)
  BY DEF Holds, Tells, Marked
<1> HIDE DEF start, dirs, paths, marked
<1>5. /\ merged \in Batch
      /\ marked => merged.full
      /\ merged.dirs = start.dirs \cup dirs
      /\ \A f \in Files : DirOf[f] \in dirs /\ f \in paths => Gathers(merged, f)
  BY <1>1, <1>2, RecordKeeps
<1> HIDE DEF merged
<1>6. merged # None
  BY <1>5, NoneAssumption
<1>7. \A f \in Files : DirOf[f] \in dirs /\ marked => Gathers(merged, f)
  BY <1>5, <1>6 DEF Gathers
<1> QED
  BY <1>3, <1>4, <1>5, <1>7, IntoChangeKeeps

\* What is retained still tells of the entries that stay watched.
LEMMA RetainKeeps ==
  ASSUME NEW dirs \in SUBSET Dirs
  PROVE  /\ \A b \in Batch \cup {None} :
              /\ Retain(b, dirs) \in Batch \cup {None}
              /\ \A f \in Files : Gathers(b, f) /\ DirOf[f] \in dirs => Gathers(Retain(b, dirs), f)
         /\ \A c \in Change \cup {None} :
              /\ Retain(c, dirs) \in Change \cup {None}
              /\ \A f \in Files : Holds(c, f) /\ DirOf[f] \in dirs => Holds(Retain(c, dirs), f)
<1>1. \A f \in Files : In(f) = DirOf[f] /\ DirOf[f] \in Dirs /\ In(DirOf[f]) = DirOf[f]
  BY WatcherAssumption DEF In
<1>2. ASSUME NEW b \in Batch
      PROVE  /\ Retain(b, dirs) \in Batch
             /\ \A f \in Files : Gathers(b, f) /\ DirOf[f] \in dirs => Gathers(Retain(b, dirs), f)
  <2>1. Retain(b, dirs) = [b EXCEPT !.dirs = b.dirs \cap dirs,
                                    !.paths = RetainPaths(b.paths, b.dirs \cap dirs)]
    BY NoneAssumption DEF Retain
  <2>2. /\ Retain(b, dirs) \in Batch /\ Retain(b, dirs).dirs = b.dirs \cap dirs
        /\ Retain(b, dirs).paths = {x \in b.paths : In(x) \in b.dirs \cap dirs}
        /\ Retain(b, dirs).full = b.full
    BY <2>1 DEF Batch, RetainPaths
  <2>3. Retain(b, dirs) # None
    BY <2>2, NoneAssumption
  <2> QED
    BY <1>1, <2>2, <2>3 DEF Gathers
<1>3. ASSUME NEW c \in Change
      PROVE  /\ Retain(c, dirs) \in Change
             /\ \A f \in Files : Holds(c, f) /\ DirOf[f] \in dirs => Holds(Retain(c, dirs), f)
  <2>1. Retain(c, dirs) = [c EXCEPT !.dirs = c.dirs \cap dirs,
                                    !.paths = RetainPaths(c.paths, c.dirs \cap dirs)]
    BY NoneAssumption DEF Retain
  <2>2. /\ Retain(c, dirs) \in Change /\ Retain(c, dirs).dirs = c.dirs \cap dirs
        /\ Retain(c, dirs).paths = {x \in c.paths : In(x) \in c.dirs \cap dirs}
    BY <2>1 DEF Change, RetainPaths
  <2>3. Retain(c, dirs) # None
    BY <2>2, NoneAssumption
  <2> QED
    BY <1>1, <2>2, <2>3 DEF Holds, Tells
<1>4. Retain(None, dirs) = None /\ \A f \in Files : ~Gathers(None, f) /\ ~Holds(None, f)
  BY DEF Retain, Gathers, Holds
<1> QED
  BY <1>2, <1>3, <1>4

-----------------------------------------------------------------------------
(* The worker.                                                              *)

LEMMA ReceiveFeed == FeedInv /\ WatcherInv' /\ Receive => TypeOK' /\ Handled' /\ Feed!Next
<1> SUFFICES ASSUME FeedInv, WatcherInv', Receive PROVE TypeOK' /\ Handled' /\ Feed!Next
  OBVIOUS
<1>1. /\ UNCHANGED <<output, overflow, batch, pending, stale, watched, callback>>
      /\ worker.signal = None /\ worker'.at = "load"
  BY DEF Receive, WorkerOnly, mine, FeedInv, Handled, TypeOK, Worker
<1>2. /\ signals' \in Seq(Signal) /\ Len(signals') <= SignalCap
      /\ \A f \in Files : \A i \in 1..Len(signals) : Carries(signals[i], f) =>
           \/ Carries(worker'.signal, f)
           \/ \E k \in 1..Len(signals') : Carries(signals'[k], f)
  <2>1. CASE signals' = signals
    BY <2>1 DEF FeedInv, TypeOK
  <2>2. CASE signals # <<>> /\ signals' = Tail(signals) /\ worker'.signal = Head(signals)
    <3>1. /\ Len(signals) \in Nat \ {0} /\ signals' \in Seq(Signal)
          /\ Len(signals') = Len(signals) - 1
          /\ \A i \in 1..Len(signals') : signals'[i] = signals[i + 1]
          /\ worker'.signal = signals[1]
      BY <2>2, HeadTailProperties, EmptySeq DEF FeedInv, TypeOK
    <3>2. ASSUME NEW i \in 1..Len(signals), i # 1
          PROVE  i - 1 \in 1..Len(signals') /\ signals'[i - 1] = signals[i]
      BY <3>1, <3>2
    <3>3. Len(signals') <= SignalCap
      BY <3>1, WatcherAssumption DEF FeedInv, TypeOK
    <3> QED
      BY <3>1, <3>2, <3>3
  <2> QED
    BY <2>1, <2>2 DEF Receive, FeedInv, TypeOK, Worker
<1>3. TypeOK'
  BY <1>1, <1>2 DEF Receive, WorkerOnly, shared, mine, FeedInv, TypeOK, WatcherInv, Typed
<1>4. Handled'
  BY <1>1 DEF Handled
<1>5. Keeps
  <2>1. \A f : ~Carries(worker.signal, f)
    BY <1>1 DEF Carries
  <2> QED
    BY <1>1, <1>2, <2>1 DEF Keeps, Untold
<1> QED
  BY <1>3, <1>4, <1>5, KeepsIsChange

LEMMA LoadFeed ==
  FeedInv /\ WatcherInv' /\ (LoadVersion \/ LockDesired) => TypeOK' /\ Handled' /\ Feed!Next
<1> SUFFICES ASSUME FeedInv, WatcherInv', LoadVersion \/ LockDesired
             PROVE  TypeOK' /\ Handled' /\ Feed!Next
  OBVIOUS
<1>1. /\ worker'.signal = worker.signal /\ worker'.at \notin {"recv", "publish"}
      /\ UNCHANGED <<signals, output, overflow, mine, pauser, stale, shared, callback, ui, consumer, visits>>
  BY DEF LoadVersion, LockDesired, WorkerOnly, FeedInv, TypeOK, Worker
<1>2. TypeOK'
  BY <1>1 DEF FeedInv, TypeOK, mine, shared, WatcherInv, Typed
<1>3. Handled'
  BY <1>1 DEF Handled
<1>4. Keeps
  BY <1>1 DEF mine, Keeps, Untold
<1> QED
  BY <1>2, <1>3, <1>4, KeepsIsChange

\* What the worker retains is what the feed keeps when other directories are watched.
LEMMA ApplyFeed == FeedInv /\ WatcherInv' /\ ApplyWatches => TypeOK' /\ Handled' /\ Feed!Next
<1> SUFFICES ASSUME FeedInv, WatcherInv', ApplyWatches PROVE TypeOK' /\ Handled' /\ Feed!Next
  OBVIOUS
<1>1. /\ worker'.signal = worker.signal /\ worker'.at = "handle"
      /\ UNCHANGED <<signals, output, overflow, callback, ui, consumer, visits>>
      /\ batch' = Retain(batch, watched') /\ pending' = Retain(pending, watched')
      /\ stale' = {f \in stale : DirOf[f] \in watched'}
      /\ closing' = (closing \cup watched) \ watched'
  BY DEF ApplyWatches, WorkerOnly, FeedInv, TypeOK, Worker
<1>2. watched' \in SUBSET Dirs
  BY DEF ApplyWatches, FeedInv, TypeOK, Worker
<1>3. batch \in Batch \cup {None} /\ pending \in Change \cup {None}
  BY DEF FeedInv, TypeOK
<1>4. /\ batch' \in Batch \cup {None}
      /\ \A f \in Files : Gathers(batch, f) /\ DirOf[f] \in watched' => Gathers(batch', f)
      /\ pending' \in Change \cup {None}
      /\ \A f \in Files : Holds(pending, f) /\ DirOf[f] \in watched' => Holds(pending', f)
  BY <1>1, <1>2, <1>3, RetainKeeps
<1>5. TypeOK'
  BY <1>1, <1>2, <1>4 DEF FeedInv, TypeOK, WatcherInv, Typed, States
<1>6. Handled'
  BY <1>1 DEF Handled
<1>7. Feed!Watch(watched')
  <2>1. \A f \in Untold : DirOf[f] \in watched' => f \in Untold'
    BY <1>1, <1>4 DEF Untold
  <2> QED
    BY <1>1, <2>1 DEF Feed!Watch, Feed!Below, Untold, FeedInv, TypeOK
<1>8. Front' \subseteq Files /\ Untold' \subseteq Files
  BY DEF Front, Untold
<1> QED
  BY <1>2, <1>5, <1>6, <1>7, <1>8 DEF Feed!Next

\* The overflow and the signal are in the batch before the flag is cleared.
LEMMA HandleFeed == FeedInv /\ WatcherInv' /\ HandleSignal => TypeOK' /\ Handled' /\ Feed!Next
<1> SUFFICES ASSUME FeedInv, WatcherInv', HandleSignal PROVE TypeOK' /\ Handled' /\ Feed!Next
  OBVIOUS
<1> DEFINE flagged  == IF overflow THEN RecordFull(batch) ELSE batch
           recorded == RecordSignal(flagged, worker.signal)
           due      == recorded # None /\ recorded.dirs # {} /\ (recorded.quiet \/ recorded.old)
<1>1. /\ UNCHANGED <<signals, output, watched, stale, callback, ui, consumer, visits>>
      /\ overflow' = FALSE /\ worker'.signal = None /\ worker'.at = "publish"
      /\ batch' = IF due \/ (recorded # None /\ recorded.dirs = {}) THEN None ELSE recorded
      /\ pending' = IF ~due THEN pending
                    ELSE IF pending = None THEN IntoChange(recorded)
                    ELSE Merge(pending, IntoChange(recorded))
      /\ closing' \subseteq closing
  BY DEF HandleSignal, Answer, WorkerOnly, FeedInv, TypeOK, Worker
<1>2. /\ batch \in Batch \cup {None} /\ pending \in Change \cup {None}
      /\ worker.signal \in Signal \cup {None} /\ watched \subseteq Dirs
  BY DEF FeedInv, TypeOK, Worker
<1>3. /\ flagged \in Batch \cup {None}
      /\ \A f \in Files : Gathers(batch, f) \/ (DirOf[f] \in watched /\ overflow)
                            => Gathers(flagged, f)
  BY <1>2, RecordFullKeeps
<1> HIDE DEF flagged
<1>4. /\ recorded \in Batch \cup {None}
      /\ \A f \in Files :
           Gathers(batch, f) \/ (DirOf[f] \in watched /\ (overflow \/ Carries(worker.signal, f)))
             => Gathers(recorded, f)
  BY <1>2, <1>3, RecordSignalKeeps
<1> HIDE DEF recorded
<1>5. recorded # None => /\ IntoChange(recorded) \in Change
                         /\ \A f \in Files : Gathers(recorded, f) => Holds(IntoChange(recorded), f)
  BY <1>4, IntoChangeKeeps
<1>6. recorded # None /\ pending # None =>
        /\ Merge(pending, IntoChange(recorded)) \in Change
        /\ \A f \in Files : Holds(pending, f) \/ Holds(IntoChange(recorded), f)
                              => Holds(Merge(pending, IntoChange(recorded)), f)
  BY <1>2, <1>5, MergeKeeps
<1>7. ASSUME NEW f \in Files
      PROVE  /\ Gathers(recorded, f) => Gathers(batch', f) \/ Holds(pending', f)
             /\ Holds(pending, f) => Holds(pending', f)
  <2>1. Gathers(recorded, f) => recorded # None /\ recorded.dirs # {}
    BY DEF Gathers
  <2>2. Holds(pending, f) => pending # None
    BY DEF Holds
  <2> QED
    BY <1>1, <1>5, <1>6, <2>1, <2>2
<1>8. TypeOK'
  <2>1. batch' \in Batch \cup {None} /\ pending' \in Change \cup {None}
    BY <1>1, <1>2, <1>4, <1>5, <1>6
  <2> QED
    BY <1>1, <2>1 DEF FeedInv, TypeOK, WatcherInv, Typed, States
<1>9. Handled'
  BY <1>1 DEF Handled
<1>10. Keeps
  BY <1>1, <1>4, <1>7 DEF Keeps, Untold
<1> QED
  BY <1>8, <1>9, <1>10, KeepsIsChange

LEMMA PublishFeed == FeedInv /\ WatcherInv' /\ Publish => TypeOK' /\ Handled' /\ Feed!Next
<1> SUFFICES ASSUME FeedInv, WatcherInv', Publish PROVE TypeOK' /\ Handled' /\ Feed!Next
  OBVIOUS
<1>1. /\ UNCHANGED <<signals, overflow, watched, batch, closing, stale, callback, ui, consumer, visits>>
      /\ worker'.signal = worker.signal /\ worker.signal = None
  BY DEF Publish, WorkerOnly, FeedInv, TypeOK, Worker, Handled
<1>2. /\ output' \in Seq(Change) /\ Len(output') <= OutputCap /\ pending' \in Change \cup {None}
      /\ \A i \in 1..Len(output) : i \in 1..Len(output') /\ output'[i] = output[i]
      /\ \A f \in Files : Holds(pending, f) =>
           Holds(pending', f) \/ \E i \in 1..Len(output') : Holds(output'[i], f)
  <2>1. CASE pending' = None /\ output' = output /\ (pending = None \/ pending.dirs = {})
    BY <2>1 DEF FeedInv, TypeOK, Holds
  <2>2. CASE /\ pending # None /\ Len(output) < OutputCap
             /\ pending' = None /\ output' = Append(output, pending)
    <3>1. /\ output' \in Seq(Change) /\ Len(output') = Len(output) + 1
          /\ \A i \in 1..Len(output) : output'[i] = output[i]
          /\ output'[Len(output) + 1] = pending /\ Len(output) \in Nat
      BY <2>2, AppendProperties DEF FeedInv, TypeOK
    <3>2. Len(output') <= OutputCap /\ Len(output) + 1 \in 1..Len(output')
      BY <2>2, <3>1, WatcherAssumption
    <3> QED
      BY <2>2, <3>1, <3>2
  <2>3. CASE UNCHANGED <<pending, output>>
    BY <2>3 DEF FeedInv, TypeOK
  <2> QED
    BY <2>1, <2>2, <2>3 DEF Publish
<1>3. TypeOK'
  BY <1>1, <1>2 DEF FeedInv, TypeOK, WatcherInv, Typed, States
<1>4. Handled'
  BY <1>1 DEF Handled
<1>5. Keeps
  BY <1>1, <1>2 DEF Keeps, Untold
<1> QED
  BY <1>3, <1>4, <1>5, KeepsIsChange

-----------------------------------------------------------------------------
LEMMA FeedInit == Init => FeedInv /\ Feed!Init
<1> SUFFICES ASSUME Init PROVE FeedInv /\ Feed!Init
  OBVIOUS
<1>1. <<>> \in Seq(Signal) /\ <<>> \in Seq(Change) /\ Len(<<>>) = 0
  BY EmptySeq
<1>2. TypeOK
  <2>1. worker \in Worker
    BY DEF Init, Worker
  <2>2. /\ Len(signals) <= SignalCap /\ Len(output) <= OutputCap /\ visits \in 0..Len(Views)
        /\ signals \in Seq(Signal) /\ output \in Seq(Change)
    BY <1>1, WatcherAssumption DEF Init
  <2>3. /\ suspended \in [Roots -> Nat]
        /\ pauser \in [Pausers -> {"idle", "bump", "send", "wait", "replied", "paused", "failed",
                                   "rebump", "rewake", "over"}]
    BY DEF Init
  <2> QED
    BY <2>1, <2>2, <2>3 DEF Init, TypeOK
<1>3. Handled
  BY DEF Init, Handled
<1>4. ChangesAreKept
  BY DEF Init, ChangesAreKept
<1>5. Untold = {}
  BY DEF Init, Untold
<1>6. Front = {}
  BY DEF Init, Front
<1> QED
  BY <1>2, <1>3, <1>4, <1>5, <1>6 DEF FeedInv, Feed!Init, Init

\* Every step keeps the invariant and is a step of the feed.
LEMMA FeedStep ==
  WatcherInv' /\ FeedInv /\ [Next]_vars => FeedInv' /\ [Feed!Next]_Feed!feed
<1> SUFFICES ASSUME WatcherInv', FeedInv, [Next]_vars
             PROVE  FeedInv' /\ [Feed!Next]_Feed!feed
  OBVIOUS
<1>1. TypeOK' /\ Handled' /\ [Feed!Next]_Feed!feed
  <2>1. CASE SetVisible \/ UiThread
    BY <2>1, UiFeed
  <2>2. CASE EntriesChange \/ CallbackThread
    BY <2>2, EntriesFeed, CallbackFeed
  <2>3. CASE WorkerThread
    BY <2>3, ReceiveFeed, LoadFeed, ApplyFeed, HandleFeed, PublishFeed DEF WorkerThread
  <2>4. CASE QuietPasses \/ AgePasses \/ CloseHandle
    BY <2>4, TimeFeed
  <2>5. CASE Consumer
    BY <2>5, ConsumerFeed
  <2>6. CASE \E p \in Pausers : Suspend(p) \/ PauseSteps(p)
    BY <2>6, PauseFeed
  <2>7. CASE Rest \/ UNCHANGED vars
    <3>1. UNCHANGED vars
      BY <2>7 DEF Rest
    <3>2. TypeOK' /\ Handled'
      BY <3>1 DEF vars, shared, mine, FeedInv, TypeOK, Handled
    <3>3. UNCHANGED Feed!feed
      BY <3>1 DEF vars, shared, mine, Feed!feed, Untold, Front
    <3> QED
      BY <3>2, <3>3
  <2> QED
    BY <2>1, <2>2, <2>3, <2>4, <2>5, <2>6, <2>7 DEF Next
<1> QED
  BY <1>1, FeedKeeps DEF FeedInv

LEMMA FeedInvariant == Spec => [](WatcherInv /\ FeedInv)
BY WatcherInit, WatcherStep, FeedInit, FeedStep, PTL DEF Spec

\* The channels never exceed their capacities, and every thread is at one of its places:
\* for any directories, entries and threads, and any capacities but zero.
THEOREM TypeCorrect == Spec => []TypeOK
<1>1. FeedInv => TypeOK
  BY DEF FeedInv
<1> QED
  BY <1>1, FeedInvariant, PTL

\* No change in a watched directory is forgotten: until the reader hears of it, some
\* signal, flag, batch or change on its way tells of it.
THEOREM ChangesKept == Spec => []ChangesAreKept
<1>1. FeedInv => ChangesAreKept
  BY DEF FeedInv
<1> QED
  BY <1>1, FeedInvariant, PTL

\* The watcher with its threads, bounded channels, batches, merges and pauses implements
\* the change feed: every one of its steps adds to what will be told, reads a change, or
\* watches other directories.
THEOREM ImplementsFeed == Spec => IsChangeFeed
<1>1. Init => Feed!Init
  BY FeedInit
<1> QED
  BY <1>1, FeedInvariant, FeedStep, PTL DEF Spec, IsChangeFeed, Feed!Spec

-----------------------------------------------------------------------------
(* A worker that blocks without a timer is woken.                           *)

\* Some signal is in the channel, or a thread is about to send one.
Due ==
  signals # <<>> \/ ui = "send" \/ \E p \in Pausers : pauser[p] \in {"send", "failed", "rebump", "rewake"}

\* What the worker has not seen yet when it comes to receive: the overflow it did not
\* record, the output it could not send, the version it did not apply.
OverflowIsDue ==
  worker.at \in {"recv", "publish"} /\ signals = <<>> /\ overflow => callback = "wake"
OutputIsDue ==
  worker.at = "recv" /\ signals = <<>> /\ pending # None => Len(output) = OutputCap \/ consumer = "wake"
VersionIsDue ==
  /\ worker.at \in {"recv", "handle", "publish"} /\ version # applied => Due
  /\ worker.at \in {"lock", "apply"} /\ version # worker.seen => Due

WakeInv == OverflowIsDue /\ OutputIsDue /\ VersionIsDue

LEMMA WakeInit == Init => WakeInv
BY NoneAssumption DEF Init, WakeInv, OverflowIsDue, OutputIsDue, VersionIsDue

\* A signal sent by try_send, or one that was in its way, is in the channel.
LEMMA SentIsThere ==
  ASSUME TypeOK, NEW s \in Signal, TrySend(s)
  PROVE  signals' # <<>>
<1>1. CASE Len(signals) < SignalCap
  BY <1>1, AppendProperties DEF TypeOK, TrySend
<1>2. CASE ~(Len(signals) < SignalCap)
  BY <1>2, WatcherAssumption DEF TypeOK, TrySend
<1> QED
  BY <1>1, <1>2

\* A step of another thread keeps what is due when it leaves a signal, or takes nothing
\* of what the worker waits for.
LEMMA WakeFrame ==
  ASSUME WakeInv, UNCHANGED <<worker, applied, pending>>,
         \/ signals' # <<>>
         \/ /\ signals' = signals
            /\ \/ overflow' = overflow /\ (callback = "wake" => callback' = "wake")
               \/ callback' = "wake"
            /\ \/ output' = output /\ (consumer = "wake" => consumer' = "wake")
               \/ consumer' = "wake"
            /\ \/ version' = version /\ (Due => Due')
               \/ Due'
  PROVE  WakeInv'
<1>1. CASE signals' # <<>>
  BY <1>1 DEF WakeInv, OverflowIsDue, OutputIsDue, VersionIsDue, Due
<1>2. CASE signals' = signals /\ signals' = <<>>
  <2>1. OverflowIsDue'
    BY <1>2 DEF WakeInv, OverflowIsDue
  <2>2. OutputIsDue'
    BY <1>2 DEF WakeInv, OutputIsDue
  <2>3. VersionIsDue'
    BY <1>2 DEF WakeInv, VersionIsDue
  <2> QED
    BY <2>1, <2>2, <2>3 DEF WakeInv
<1> QED
  BY <1>1, <1>2

LEMMA UiWakes == TypeOK /\ WakeInv /\ (SetVisible \/ UiThread) => WakeInv'
<1> SUFFICES ASSUME TypeOK, WakeInv, SetVisible \/ UiThread PROVE WakeInv'
  OBVIOUS
<1>1. UNCHANGED <<worker, applied, pending, overflow, callback, output, consumer, pauser>>
  BY DEF SetVisible, UiThread, BumpVersion, SendReconfigure, UiOnly, mine
<1>2. CASE SetVisible
  <2>1. signals' = signals /\ version' = version /\ (Due => Due')
    BY <1>1, <1>2 DEF SetVisible, Due
  <2> QED
    BY <1>1, <2>1, WakeFrame
<1>3. CASE BumpVersion
  <2>1. signals' = signals /\ Due'
    BY <1>3 DEF BumpVersion, Due
  <2> QED
    BY <1>1, <2>1, WakeFrame
<1>4. CASE SendReconfigure
  BY <1>1, <1>4, Channels, SentIsThere, WakeFrame DEF SendReconfigure
<1> QED
  BY <1>2, <1>3, <1>4 DEF UiThread

LEMMA ChangesWake == TypeOK /\ WakeInv /\ (EntriesChange \/ CallbackThread) => WakeInv'
<1> SUFFICES ASSUME TypeOK, WakeInv, EntriesChange \/ CallbackThread PROVE WakeInv'
  OBVIOUS
<1>1. CASE WakeForOverflow
  BY <1>1, Channels, SentIsThere, WakeFrame DEF WakeForOverflow, CallbackOnly, mine
<1>2. CASE StoreOverflow
  <2>1. Due => Due'
    BY <1>2 DEF StoreOverflow, CallbackOnly, Due
  <2> QED
    BY <1>2, <2>1, WakeFrame DEF StoreOverflow, CallbackOnly, mine, shared
<1>3. ASSUME NEW changed, NEW signal \in Signal, NEW large, Notify(changed, signal, large)
      PROVE  WakeInv'
  <2>1. CASE signals' = Append(signals, signal)
    <3>1. signals' # <<>>
      BY <2>1, AppendProperties DEF TypeOK
    <3> QED
      BY <1>3, <3>1, WakeFrame DEF Notify, CallbackOnly, mine
  <2>2. CASE signals' = signals
    <3>1. Due => Due'
      BY <1>3, <2>2 DEF Notify, CallbackOnly, Due
    <3> QED
      BY <1>3, <2>2, <3>1, WakeFrame DEF Notify, CallbackOnly, mine, shared
  <2> QED
    BY <1>3, <2>1, <2>2 DEF Notify
<1>4. CASE EntriesChange
  <2>1. PICK changed \in SUBSET Files :
          \/ Notify(changed, [type |-> "Event", paths |-> changed], Cardinality(changed) > MaxPaths)
          \/ Notify(changed, [type |-> "Lost"], FALSE)
    BY <1>4, WatcherAssumption DEF EntriesChange
  <2> QED
    BY <1>3, <2>1, Channels
<1> QED
  BY <1>1, <1>2, <1>4 DEF CallbackThread

LEMMA TimeWakes == WakeInv /\ (QuietPasses \/ AgePasses \/ CloseHandle \/ UNCHANGED vars) => WakeInv'
<1> SUFFICES ASSUME WakeInv, QuietPasses \/ AgePasses \/ CloseHandle \/ UNCHANGED vars PROVE WakeInv'
  OBVIOUS
<1>1. /\ UNCHANGED <<worker, applied, pending, signals, overflow, callback, output, consumer>>
      /\ UNCHANGED <<version, ui, pauser>>
  BY DEF QuietPasses, AgePasses, CloseHandle, TimeOnly, vars, shared, mine
<1>2. Due => Due'
  BY <1>1 DEF Due
<1> QED
  BY <1>1, <1>2, WakeFrame

LEMMA ConsumerWakes == TypeOK /\ WakeInv /\ Consumer => WakeInv'
<1> SUFFICES ASSUME TypeOK, WakeInv, Consumer PROVE WakeInv'
  OBVIOUS
<1>1. CASE WakeWorker
  BY <1>1, Channels, SentIsThere, WakeFrame DEF WakeWorker, ConsumerOnly, mine
<1>2. CASE ReadChange
  <2>1. Due => Due'
    BY <1>2 DEF ReadChange, ConsumerOnly, Due
  <2> QED
    BY <1>2, <2>1, WakeFrame DEF ReadChange, ConsumerOnly, mine, shared
<1> QED
  BY <1>1, <1>2 DEF Consumer

LEMMA PauseWakes ==
  ASSUME TypeOK, WakeInv, NEW p \in Pausers, Suspend(p) \/ PauseSteps(p)
  PROVE  WakeInv'
<1>1. UNCHANGED <<worker, applied, pending, overflow, callback, output, consumer, ui>>
  BY DEF Suspend, PauseSteps, BumpForPause, Synchronize, TimeOut, Paused, Resume, WakeAfterPause,
         PauserOnly, mine
<1>2. CASE Suspend(p) \/ Paused(p) \/ TimeOut(p) \/ Resume(p)
  <2>1. signals' = signals /\ version' = version
    BY <1>2 DEF Suspend, Paused, TimeOut, Resume
  <2>2. \A q \in Pausers : pauser[q] \in {"send", "failed", "rebump", "rewake"}
          => pauser'[q] \in {"send", "failed", "rebump", "rewake"}
    BY <1>2 DEF Suspend, Paused, TimeOut, Resume, Go, TypeOK
  <2>3. Due => Due'
    BY <1>1, <2>1, <2>2 DEF Due
  <2> QED
    BY <1>1, <2>1, <2>3, WakeFrame
<1>3. CASE BumpForPause(p)
  <2>1. pauser'[p] \in {"send", "rewake"} /\ signals' = signals
    BY <1>3 DEF BumpForPause, Go, TypeOK
  <2>2. Due'
    BY <2>1 DEF Due
  <2> QED
    BY <1>1, <2>1, <2>2, WakeFrame
<1>4. CASE Synchronize(p)
  <2>1. signals' # <<>>
    BY <1>4, Channels, AppendProperties DEF Synchronize, TypeOK
  <2> QED
    BY <1>1, <2>1, WakeFrame
<1>5. CASE WakeAfterPause(p)
  BY <1>1, <1>5, Channels, SentIsThere, WakeFrame DEF WakeAfterPause
<1> QED
  BY <1>2, <1>3, <1>4, <1>5 DEF PauseSteps

\* The worker looks at the flag, the pending output and the version on its way back.
LEMMA WorkerWakes == TypeOK /\ WakeInv /\ WorkerThread => WakeInv'
<1> SUFFICES ASSUME TypeOK, WakeInv, WorkerThread PROVE WakeInv'
  OBVIOUS
<1>1. UNCHANGED <<version, callback, ui, consumer>>
  BY DEF WorkerThread, Receive, LoadVersion, LockDesired, ApplyWatches, HandleSignal, Publish,
         WorkerOnly, shared
<1>2. CASE Receive
  <2>1. worker'.at = "load"
    BY <1>2 DEF Receive, TypeOK, Worker
  <2> QED
    BY <2>1 DEF WakeInv, OverflowIsDue, OutputIsDue, VersionIsDue
<1>3. CASE LoadVersion
  <2>1. /\ worker'.at \in {"handle", "lock"} /\ worker'.seen = version
        /\ worker'.at = "handle" => version = applied
        /\ applied' = applied
    BY <1>3 DEF LoadVersion, mine, TypeOK, Worker
  <2> QED
    BY <1>1, <2>1 DEF WakeInv, OverflowIsDue, OutputIsDue, VersionIsDue
<1>4. CASE LockDesired
  <2>1. worker'.at = "apply" /\ worker'.seen = worker.seen
    BY <1>4 DEF LockDesired, TypeOK, Worker
  <2>2. Due => Due'
    BY <1>1, <1>4 DEF LockDesired, Due
  <2> QED
    BY <1>1, <1>4, <2>1, <2>2 DEF LockDesired, WakeInv, OverflowIsDue, OutputIsDue, VersionIsDue
<1>5. CASE ApplyWatches
  <2>1. worker'.at = "handle" /\ applied' = worker.seen
    BY <1>5 DEF ApplyWatches, TypeOK, Worker
  <2>2. Due => Due'
    BY <1>1, <1>5 DEF ApplyWatches, Due
  <2> QED
    BY <1>1, <1>5, <2>1, <2>2 DEF ApplyWatches, WakeInv, OverflowIsDue, OutputIsDue, VersionIsDue
<1>6. CASE HandleSignal
  <2>1. worker'.at = "publish" /\ ~overflow' /\ applied' = applied /\ signals' = signals
    BY <1>6 DEF HandleSignal, TypeOK, Worker
  <2>2. \A p \in Pausers : pauser[p] \in {"send", "failed", "rebump", "rewake"} => pauser'[p] = pauser[p]
    BY <1>6 DEF HandleSignal, Answer, TypeOK
  <2>3. Due => Due'
    BY <1>1, <2>1, <2>2 DEF Due
  <2> QED
    BY <1>1, <1>6, <2>1, <2>3 DEF HandleSignal, WakeInv, OverflowIsDue, OutputIsDue, VersionIsDue
<1>7. CASE Publish
  <2>1. worker'.at = "recv" /\ UNCHANGED <<signals, overflow, applied, pauser>>
    BY <1>7 DEF Publish, TypeOK, Worker
  <2>2. pending' # None => Len(output') = OutputCap
    BY <1>7, WatcherAssumption DEF Publish, TypeOK
  <2>3. Due => Due'
    BY <1>1, <2>1 DEF Due
  <2>4. OverflowIsDue'
    BY <1>1, <1>7, <2>1 DEF Publish, WakeInv, OverflowIsDue
  <2>5. OutputIsDue'
    BY <2>2 DEF OutputIsDue
  <2>6. VersionIsDue'
    BY <1>1, <1>7, <2>1, <2>3 DEF Publish, WakeInv, VersionIsDue
  <2> QED
    BY <2>4, <2>5, <2>6 DEF WakeInv
<1> QED
  BY <1>2, <1>3, <1>4, <1>5, <1>6, <1>7 DEF WorkerThread

LEMMA WakeStep == TypeOK /\ WakeInv /\ [Next]_vars => WakeInv'
<1> SUFFICES ASSUME TypeOK, WakeInv, Next \/ UNCHANGED vars PROVE WakeInv'
  OBVIOUS
<1>1. CASE SetVisible \/ UiThread
  BY <1>1, UiWakes
<1>2. CASE EntriesChange \/ CallbackThread
  BY <1>2, ChangesWake
<1>3. CASE WorkerThread
  BY <1>3, WorkerWakes
<1>4. CASE QuietPasses \/ AgePasses \/ CloseHandle \/ Rest \/ UNCHANGED vars
  BY <1>4, TimeWakes DEF Rest
<1>5. CASE Consumer
  BY <1>5, ConsumerWakes
<1>6. CASE \E p \in Pausers : Suspend(p) \/ PauseSteps(p)
  BY <1>6, PauseWakes
<1> QED
  BY <1>1, <1>2, <1>3, <1>4, <1>5, <1>6 DEF Next

\* A worker that waits without a timer is not left with lost events, with output for a
\* channel that has room, or with directories it does not watch yet: somebody will
\* send it a signal, for any number of ejecting threads and any capacities but zero.
THEOREM WorkerIsWoken == Spec => []BlockedWorkerIsWoken
<1>1. TypeOK /\ WakeInv => BlockedWorkerIsWoken
  <2> SUFFICES ASSUME WakeInv PROVE BlockedWorkerIsWoken
    OBVIOUS
  <2> QED
    BY DEF WakeInv, OverflowIsDue, OutputIsDue, VersionIsDue, Due, BlockedWorkerIsWoken
<1>2. FeedInv => TypeOK
  BY DEF FeedInv
<1> QED
  BY <1>1, <1>2, FeedInvariant, WakeInit, WakeStep, PTL DEF Spec
=============================================================================
