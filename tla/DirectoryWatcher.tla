-------------------------- MODULE DirectoryWatcher --------------------------
(***************************************************************************)
(* The directory watcher of BExplorer: src/fs/watcher.rs.  The window says *)
(* which directories it shows; a worker thread watches them, gathers what  *)
(* the operating system reports into batches, and hands each batch to the  *)
(* thread that refreshes the panes.  On Windows a drive that is about to   *)
(* be ejected pauses the watches below it.                                 *)
(*                                                                         *)
(* Six kinds of threads meet at two bounded channels, an overflow flag, a  *)
(* version number and two tables; each of their steps is one operation on  *)
(* one of these.  Directories are flat: a file is in one directory.  Time  *)
(* is in the batch: `quiet` and `old` say that its quiet period and its    *)
(* maximal age have passed.                                                *)
(***************************************************************************)
EXTENDS Integers, Sequences, FiniteSets

CONSTANTS
  Dirs,        \* directories the window may show
  Files,       \* their entries
  DirOf,       \* the directory of each entry
  Unwatchable, \* directories the operating system may refuse to watch
  Roots,       \* the volumes that may be ejected
  Under,       \* the directories below each of them
  Pausers,     \* threads that eject, each of them once
  RootOf,      \* what each of them ejects
  SignalCap,   \* WATCH_SIGNAL_CAPACITY
  OutputCap,   \* WATCH_OUTPUT_CAPACITY
  MaxPaths,    \* MAX_CHANGE_PATHS
  Changes,     \* bound: the sets of entries that change at once; {} is an event without paths
  Views,       \* bound: the sets of directories the window may show first, next, ...
  None         \* no batch, no change, no signal

ASSUME WatcherAssumption ==
  /\ DirOf \in [Files -> Dirs] /\ Unwatchable \subseteq Dirs
  /\ Under \in [Roots -> SUBSET Dirs] /\ RootOf \in [Pausers -> Roots]
  /\ IsFiniteSet(Pausers)
  /\ SignalCap \in Nat \ {0} /\ OutputCap \in Nat \ {0} /\ MaxPaths \in Nat \ {0}
  /\ Changes \subseteq SUBSET Files /\ Views \in Seq(SUBSET SUBSET Dirs)
  /\ Dirs \cap Files = {}

\* DirectoryChange: a directory among the paths stands for all of its entries.
Change == [dirs: SUBSET Dirs, paths: SUBSET (Files \cup Dirs)]
\* ChangeBatch.
Batch == [dirs: SUBSET Dirs, paths: SUBSET (Files \cup Dirs), full: BOOLEAN,
          quiet: BOOLEAN, old: BOOLEAN]
\* WatchSignal; "Lost" is an error of notify or an event that asks for a rescan.
Signal == [type: {"Reconfigure", "OutputReady", "Lost"}]
          \cup [type: {"Event"}, paths: SUBSET Files]
          \cup [type: {"Synchronize"}, from: Pausers]

ASSUME NoneAssumption == None \notin Change \cup Batch \cup Signal

VARIABLES
  desired,   \* desired_directories
  version,   \* desired_version
  suspended, \* suspended_roots: how many pauses hold each root
  signals,   \* the signal channel
  output,    \* the output channel
  overflow,  \* an event did not fit into the signal channel
  worker,    \* the worker: its place in the loop, its signal and locals
  watched,   \* the directories it watches
  applied,   \* applied_version
  batch,     \* the batch it gathers
  pending,   \* pending_output
  closing,   \* unwatched directories whose handle is still open
  callback,  \* where notify's thread is in queue_directory_event
  ui,        \* where the window is in set_visible_directories
  consumer,  \* where the reader is in DirectoryChangeReceiver::recv
  pauser,    \* where each ejecting thread is
  visits,    \* how often the window has shown other directories
  stale      \* ghost: entries changed since the reader last heard of them

shared == <<desired, version, suspended>>
mine   == <<watched, applied, batch, pending, closing>>
vars == <<shared, signals, output, overflow, worker, mine, callback, ui, consumer, pauser,
          visits, stale>>

Worker == [at: {"recv", "load", "lock", "apply", "handle", "publish"},
           signal: Signal \cup {None}, seen: Nat, want: SUBSET Dirs]

TypeOK ==
  /\ desired \subseteq Dirs /\ version \in Nat /\ suspended \in [Roots -> Nat]
  /\ signals \in Seq(Signal) /\ Len(signals) <= SignalCap
  /\ output \in Seq(Change) /\ Len(output) <= OutputCap
  /\ overflow \in BOOLEAN
  /\ worker \in Worker
  /\ watched \subseteq Dirs /\ applied \in Nat /\ closing \subseteq Dirs
  /\ batch \in Batch \cup {None} /\ pending \in Change \cup {None}
  /\ callback \in {"idle", "store", "wake"}
  /\ ui \in {"idle", "bump", "send"}
  /\ consumer \in {"recv", "wake"}
  /\ pauser \in [Pausers -> {"idle", "bump", "send", "wait", "replied", "paused", "failed",
                             "rebump", "rewake", "over"}]
  /\ visits \in 0..Len(Views)
  /\ stale \subseteq Files

Init ==
  /\ desired = {} /\ version = 0 /\ suspended = [r \in Roots |-> 0]
  /\ signals = <<>> /\ output = <<>> /\ overflow = FALSE
  /\ worker = [at |-> "recv", signal |-> None, seen |-> 0, want |-> {}]
  /\ watched = {} /\ applied = 0 /\ batch = None /\ pending = None /\ closing = {}
  /\ callback = "idle" /\ ui = "idle" /\ consumer = "recv"
  /\ pauser = [p \in Pausers |-> "idle"]
  /\ visits = 0 /\ stale = {}

-----------------------------------------------------------------------------
(* Channels.                                                               *)

\* Mutant of TrySend: a channel without a bound.
SendAnyway(signal) == signals' = Append(signals, signal)

\* try_send whose failure is ignored.
TrySend(signal) ==
  signals' = IF Len(signals) < SignalCap THEN Append(signals, signal) ELSE signals

Reconfigure == [type |-> "Reconfigure"]
OutputReady == [type |-> "OutputReady"]

-----------------------------------------------------------------------------
(* The window: set_visible_directories.                                    *)

UiOnly == UNCHANGED <<suspended, output, overflow, worker, mine, callback, consumer, pauser, stale>>

SetVisible ==
  /\ ui = "idle"
  /\ visits' = visits + 1 /\ visits' \in 1..Len(Views)
  /\ \E next \in Views[visits'] \ {desired} : desired' = next
  /\ ui' = "bump"
  /\ UNCHANGED <<version, signals>> /\ UiOnly

BumpVersion ==
  /\ ui = "bump" /\ ui' = "send"
  /\ version' = version + 1
  /\ UNCHANGED <<desired, visits, signals>> /\ UiOnly

SendReconfigure ==
  /\ ui = "send" /\ ui' = "idle"
  /\ TrySend(Reconfigure)
  /\ UNCHANGED <<desired, visits, version>> /\ UiOnly

\* Mutant of UiThread: the worker is woken before the version tells it why.
WakeThenBump ==
  \/ /\ ui = "bump" /\ ui' = "send"
     /\ TrySend(Reconfigure)
     /\ UNCHANGED <<desired, visits, version>> /\ UiOnly
  \/ /\ ui = "send" /\ ui' = "idle"
     /\ version' = version + 1
     /\ UNCHANGED <<desired, visits, signals>> /\ UiOnly

UiThread == BumpVersion \/ SendReconfigure

-----------------------------------------------------------------------------
(* notify's thread: queue_directory_event.                                 *)

CallbackOnly == UNCHANGED <<shared, output, worker, mine, ui, consumer, pauser, visits>>

\* The entries change; the event names them, or the system lost it.
Notify(changed, signal, large) ==
  /\ callback = "idle"
  /\ stale' = stale \cup {f \in changed : DirOf[f] \in watched}
  /\ IF large \/ Len(signals) = SignalCap
     THEN callback' = "store" /\ UNCHANGED signals
     ELSE callback' = "idle" /\ signals' = Append(signals, signal)
  /\ UNCHANGED overflow /\ CallbackOnly

\* Events only come from directories with an open handle; one may name no entry at all.
EntriesChange ==
  \E changed \in Changes :
    /\ watched \cup closing # {}
    /\ changed = {} \/ \E f \in changed : DirOf[f] \in watched \cup closing
    /\ \/ Notify(changed, [type |-> "Event", paths |-> changed], Cardinality(changed) > MaxPaths)
       \/ Notify(changed, [type |-> "Lost"], FALSE)

StoreOverflow ==
  /\ callback = "store" /\ callback' = "wake"
  /\ overflow' = TRUE
  /\ UNCHANGED <<signals, stale>> /\ CallbackOnly

WakeForOverflow ==
  /\ callback = "wake" /\ callback' = "idle"
  /\ TrySend(OutputReady)
  /\ UNCHANGED <<overflow, stale>> /\ CallbackOnly

CallbackThread == StoreOverflow \/ WakeForOverflow

-----------------------------------------------------------------------------
(* Batches and changes.                                                    *)

\* A directory is in itself.
In(x) == IF x \in Files THEN DirOf[x] ELSE x
RetainPaths(paths, dirs) == {x \in paths : In(x) \in dirs}

\* Mutant of Retain: what tells of a directory that is left is dropped as a whole.
RetainOrDrop(change, dirs) ==
  IF change = None \/ ~(change.dirs \subseteq dirs) THEN None ELSE change

\* retain_watched and retain_watched_change.
Retain(change, dirs) ==
  IF change = None THEN None
  ELSE [change EXCEPT !.dirs = @ \cap dirs, !.paths = RetainPaths(@, change.dirs \cap dirs)]

NewBatch == [dirs |-> {}, paths |-> {}, full |-> FALSE, quiet |-> FALSE, old |-> FALSE]
Gathered(b) == IF b = None THEN NewBatch ELSE b

\* Mutant of Record: the age of the batch starts again.
RecordRestarts(b, dirs, paths) ==
  [b EXCEPT !.dirs = @ \cup dirs, !.quiet = FALSE, !.old = FALSE, !.paths = @ \cup paths]

\* ChangeBatch::record: a batch becomes a full refresh when a path comes that would
\* be one too many.
Record(b, dirs, paths) ==
  LET room == /\ Cardinality(b.paths \cup paths) <= MaxPaths
              /\ paths # {} => Cardinality(b.paths) < MaxPaths IN
  [b EXCEPT !.dirs = @ \cup dirs, !.quiet = FALSE, !.full = @ \/ ~room,
            !.paths = IF b.full THEN @ ELSE IF room THEN @ \cup paths ELSE {}]

\* record_full_refresh.
RecordFull(b) ==
  IF watched = {} THEN b
  ELSE [Record(Gathered(b), watched, {}) EXCEPT !.full = TRUE, !.paths = {}]

\* directories_for_event.
DirsFor(paths) == IF paths = {} THEN watched ELSE {DirOf[f] : f \in paths} \cap watched

\* The batch once the signal is recorded.
RecordSignal(b, signal) ==
  CASE signal = None -> b
    [] signal # None /\ signal.type = "Lost" -> RecordFull(b)
    [] signal # None /\ signal.type = "Event" ->
         IF DirsFor(signal.paths) = {} THEN b
         ELSE Record(Gathered(b), DirsFor(signal.paths), signal.paths)
    [] OTHER -> b

\* into_change.
IntoChange(b) == [dirs |-> b.dirs, paths |-> IF b.full THEN b.dirs ELSE b.paths]

Marked(change) == change.paths \cap change.dirs # {}

\* Mutant of Merge: only the later change is kept.
MergeLater(previous, next) == next

\* merge_directory_changes.
Merge(previous, next) ==
  IntoChange(Record([NewBatch EXCEPT !.full = Marked(previous) \/ Marked(next)],
                    previous.dirs \cup next.dirs, previous.paths \cup next.paths))

-----------------------------------------------------------------------------
(* The worker: run_directory_watcher.                                      *)

WorkerOnly == UNCHANGED <<shared, callback, ui, consumer, visits>>

\* recv and recv_timeout: a signal that is there comes before the deadline.
Receive ==
  /\ worker.at = "recv"
  /\ \/ /\ signals # <<>>
        /\ worker' = [worker EXCEPT !.at = "load", !.signal = Head(signals)]
        /\ signals' = Tail(signals)
     \/ /\ signals = <<>>
        /\ batch # None /\ (batch.quiet \/ batch.old)
        /\ worker' = [worker EXCEPT !.at = "load", !.signal = None]
        /\ UNCHANGED signals
  /\ UNCHANGED <<output, overflow, mine, pauser, stale>> /\ WorkerOnly

LoadVersion ==
  /\ worker.at = "load"
  /\ worker' = [worker EXCEPT !.seen = version,
                              !.at = IF version = applied THEN "handle" ELSE "lock"]
  /\ UNCHANGED <<signals, output, overflow, mine, pauser, stale>> /\ WorkerOnly

LockDesired ==
  /\ worker.at = "lock"
  /\ worker' = [worker EXCEPT !.at = "apply", !.want = desired]
  /\ UNCHANGED <<signals, output, overflow, mine, pauser, stale>> /\ WorkerOnly

Suspended == UNION {Under[r] : r \in {q \in Roots : suspended[q] > 0}}

\* sync_watched_directories; nothing tells of entries that are no longer watched.
ApplyWatches ==
  LET want == worker.want \ Suspended IN
  /\ worker.at = "apply"
  /\ \E refused \in SUBSET ((want \cap Unwatchable) \ watched) : watched' = want \ refused
  /\ closing' = (closing \cup watched) \ watched'
  /\ applied' = worker.seen
  /\ batch' = Retain(batch, watched')
  /\ pending' = Retain(pending, watched')
  /\ stale' = {f \in stale : DirOf[f] \in watched'}
  /\ worker' = [worker EXCEPT !.at = "handle"]
  /\ UNCHANGED <<signals, output, overflow, pauser>> /\ WorkerOnly

Asks(p) == worker.signal # None /\ worker.signal.type = "Synchronize" /\ worker.signal.from = p

\* Mutant of Answer: the reply does not wait for the handles.
AnswerAtOnce ==
  /\ pauser' = [p \in Pausers |-> IF Asks(p) /\ pauser[p] = "wait" THEN "replied" ELSE pauser[p]]
  /\ UNCHANGED closing

\* synchronize_notify_unwatches answers once notify has closed every handle.
Answer ==
  /\ pauser' = [p \in Pausers |-> IF Asks(p) /\ pauser[p] = "wait" THEN "replied" ELSE pauser[p]]
  /\ closing' = IF \E p \in Pausers : Asks(p) THEN {} ELSE closing

\* Record the overflow and the signal; a batch that is due becomes pending output.
HandleSignal ==
  LET flagged  == IF overflow THEN RecordFull(batch) ELSE batch
      recorded == RecordSignal(flagged, worker.signal)
      due      == recorded # None /\ recorded.dirs # {} /\ (recorded.quiet \/ recorded.old) IN
  /\ worker.at = "handle"
  /\ overflow' = FALSE
  /\ Answer
  /\ batch' = IF due \/ (recorded # None /\ recorded.dirs = {}) THEN None ELSE recorded
  /\ pending' = IF ~due THEN pending
                ELSE IF pending = None THEN IntoChange(recorded)
                ELSE Merge(pending, IntoChange(recorded))
  /\ worker' = [worker EXCEPT !.at = "publish", !.signal = None]
  /\ UNCHANGED <<signals, output, watched, applied, stale>> /\ WorkerOnly

\* Mutant of Publish: a change that does not fit is dropped.
PublishOrDrop ==
  LET fits == pending # None /\ pending.dirs # {} /\ Len(output) < OutputCap IN
  /\ worker.at = "publish"
  /\ pending' = None /\ output' = IF fits THEN Append(output, pending) ELSE output
  /\ worker' = [worker EXCEPT !.at = "recv"]
  /\ UNCHANGED <<signals, overflow, watched, applied, batch, closing, pauser, stale>> /\ WorkerOnly

\* try_publish_change: a change that does not fit stays pending.
Publish ==
  LET nothing == pending = None \/ pending.dirs = {} IN
  /\ worker.at = "publish"
  /\ IF nothing \/ Len(output) < OutputCap
     THEN pending' = None /\ output' = IF nothing THEN output ELSE Append(output, pending)
     ELSE UNCHANGED <<pending, output>>
  /\ worker' = [worker EXCEPT !.at = "recv"]
  /\ UNCHANGED <<signals, overflow, watched, applied, batch, closing, pauser, stale>> /\ WorkerOnly

WorkerThread ==
  Receive \/ LoadVersion \/ LockDesired \/ ApplyWatches \/ HandleSignal \/ Publish

-----------------------------------------------------------------------------
(* Time passes, and notify closes the handles of unwatched directories.    *)

TimeOnly == UNCHANGED <<shared, signals, output, overflow, worker, watched, applied, pending,
                        callback, ui, consumer, pauser, visits, stale>>

QuietPasses ==
  /\ batch # None /\ ~batch.quiet /\ ~batch.old
  /\ batch' = [batch EXCEPT !.quiet = TRUE]
  /\ UNCHANGED closing /\ TimeOnly

AgePasses ==
  /\ batch # None /\ ~batch.old
  /\ batch' = [batch EXCEPT !.old = TRUE]
  /\ UNCHANGED closing /\ TimeOnly

CloseHandle ==
  /\ \E d \in closing : closing' = closing \ {d}
  /\ UNCHANGED batch /\ TimeOnly

-----------------------------------------------------------------------------
(* The reader: DirectoryChangeReceiver::recv.                              *)

ConsumerOnly == UNCHANGED <<shared, overflow, worker, mine, callback, ui, pauser, visits>>

\* Does the change tell that f has changed?
Tells(change, f) == f \in change.paths \/ DirOf[f] \in change.paths \cap change.dirs
\* Only then is the directory listed again.
Holds(change, f) == change # None /\ DirOf[f] \in change.dirs /\ Tells(change, f)

\* Mutant of ReadChange: the free slot is not announced.
ReadSilently ==
  /\ consumer = "recv" /\ output # <<>>
  /\ output' = Tail(output)
  /\ stale' = {f \in stale : ~Holds(Head(output), f)}
  /\ UNCHANGED <<consumer, signals>> /\ ConsumerOnly

ReadChange ==
  /\ consumer = "recv" /\ output # <<>>
  /\ consumer' = "wake"
  /\ output' = Tail(output)
  /\ stale' = {f \in stale : ~Holds(Head(output), f)}
  /\ UNCHANGED signals /\ ConsumerOnly

WakeWorker ==
  /\ consumer = "wake" /\ consumer' = "recv"
  /\ TrySend(OutputReady)
  /\ UNCHANGED <<output, stale>> /\ ConsumerOnly

Consumer == ReadChange \/ WakeWorker

-----------------------------------------------------------------------------
(* An ejecting thread: pause_directory_watches, the ejection, and the drop *)
(* of the DirectoryWatchPause, which a time-out brings at once.             *)

Go(p, from, to) == pauser[p] = from /\ pauser' = [pauser EXCEPT ![p] = to]
PauserOnly == UNCHANGED <<desired, output, overflow, worker, mine, callback, ui, consumer, visits, stale>>

Suspend(p) ==
  /\ Go(p, "idle", "bump")
  /\ suspended' = [suspended EXCEPT ![RootOf[p]] = @ + 1]
  /\ UNCHANGED <<version, signals>> /\ PauserOnly

BumpForPause(p) ==
  /\ Go(p, "bump", "send") \/ Go(p, "rebump", "rewake")
  /\ version' = version + 1
  /\ UNCHANGED <<suspended, signals>> /\ PauserOnly

Synchronize(p) ==
  /\ Len(signals) < SignalCap
  /\ Go(p, "send", "wait")
  /\ signals' = Append(signals, [type |-> "Synchronize", from |-> p])
  /\ UNCHANGED <<version, suspended>> /\ PauserOnly

TimeOut(p) ==
  /\ Go(p, "wait", "failed") \/ (Len(signals) = SignalCap /\ Go(p, "send", "failed"))
  /\ UNCHANGED <<version, suspended, signals>> /\ PauserOnly

Paused(p) ==
  /\ Go(p, "replied", "paused")
  /\ UNCHANGED <<version, suspended, signals>> /\ PauserOnly

Resume(p) ==
  /\ Go(p, "paused", "rebump") \/ Go(p, "failed", "rebump")
  /\ suspended' = [suspended EXCEPT ![RootOf[p]] = @ - 1]
  /\ UNCHANGED <<version, signals>> /\ PauserOnly

WakeAfterPause(p) ==
  /\ Go(p, "rewake", "over")
  /\ TrySend(Reconfigure)
  /\ UNCHANGED <<version, suspended>> /\ PauserOnly

PauseSteps(p) == BumpForPause(p) \/ Synchronize(p) \/ TimeOut(p) \/ Paused(p) \/ Resume(p)
                 \/ WakeAfterPause(p)

-----------------------------------------------------------------------------
\* Nothing is under way: every thread waits for the user or for a file to change.
Rest ==
  /\ ui = "idle" /\ callback = "idle" /\ consumer = "recv" /\ output = <<>>
  /\ worker.at = "recv" /\ signals = <<>> /\ batch = None /\ closing = {}
  /\ \A p \in Pausers : pauser[p] \in {"idle", "over"}
  /\ UNCHANGED vars

Next ==
  \/ SetVisible \/ UiThread
  \/ EntriesChange \/ CallbackThread
  \/ WorkerThread
  \/ QuietPasses \/ AgePasses \/ CloseHandle
  \/ Consumer
  \/ \E p \in Pausers : Suspend(p) \/ PauseSteps(p)
  \/ Rest

Spec == Init /\ [][Next]_vars

\* Threads run, a batch grows old, and an ejection ends; the user may do nothing,
\* and files may change for ever.
FairSpec ==
  /\ Spec
  /\ WF_vars(UiThread) /\ WF_vars(CallbackThread) /\ WF_vars(WorkerThread)
  /\ WF_vars(Consumer) /\ WF_vars(AgePasses)
  /\ \A p \in Pausers : WF_vars(PauseSteps(p))

-----------------------------------------------------------------------------
(* Properties.                                                             *)

Carries(signal, f) ==
  signal # None /\ (signal.type = "Lost" \/ (signal.type = "Event" /\ f \in signal.paths))
Gathers(b, f) == b # None /\ DirOf[f] \in b.dirs /\ (b.full \/ f \in b.paths)

\* The entries some report on its way to the reader tells of.
Untold ==
  {f \in Files :
    /\ DirOf[f] \in watched
    /\ \/ callback = "store" \/ overflow
       \/ \E i \in 1..Len(signals) : Carries(signals[i], f)
       \/ Carries(worker.signal, f)
       \/ Gathers(batch, f) \/ Holds(pending, f)
       \/ \E i \in 1..Len(output) : Holds(output[i], f)}

\* No change in a watched directory is forgotten: until the reader hears of it, it
\* is in a signal, in the overflow flag or about to be, in the batch, in the pending
\* output or in the output channel, however full the channels are and whatever the
\* window shows in the meantime.
ChangesAreKept == stale \subseteq Untold

\* The worker has no timer while it gathers nothing, so it must never block while
\* there is something for it to do that nobody will wake it for: events lost, a free
\* slot for the pending output, other directories to watch.
BlockedWorkerIsWoken ==
  worker.at = "recv" /\ signals = <<>> /\ batch = None =>
    /\ overflow => callback = "wake"
    /\ pending # None => Len(output) = OutputCap \/ consumer = "wake"
    /\ version # applied =>
         ui = "send" \/ \E p \in Pausers : pauser[p] \in {"send", "failed", "rebump", "rewake"}

Front == IF output = <<>> THEN {} ELSE {f \in Files : Holds(Head(output), f)}

\* The watcher is a change feed: seen from the window, its threads, channels, batches
\* and deadlines only ever add to what will be told, until the reader takes a change
\* that tells of it or its directory is left.
Feed == INSTANCE ChangeFeed WITH Entries <- Files, untold <- Untold, front <- Front
IsChangeFeed == Feed!Spec

\* From the success of pause_directory_watches until its guard is dropped no handle is
\* open below the volume, though the window shows other directories meanwhile and
\* other ejections of the volume begin and end.
PauseReleasesHandles ==
  \A p \in Pausers : pauser[p] = "paused" => Under[RootOf[p]] \cap (watched \cup closing) = {}

\* Every change is told to the reader, or its directory is no longer watched: a batch
\* that never comes to rest grows old, and the last change is not left behind.
ChangesArrive == \A f \in Files : f \in stale ~> f \notin stale

\* When the window has settled the worker watches what it shows, unless a pause or the
\* operating system forbids it.
WatchesFollow ==
  <>[](/\ watched \subseteq desired \ Suspended
       /\ desired \ Suspended \subseteq watched \cup Unwatchable)
=============================================================================
