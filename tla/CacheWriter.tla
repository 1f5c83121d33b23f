---------------------------- MODULE CacheWriter -----------------------------
(***************************************************************************)
(* The caches of the storage units and of the network, saved beside the    *)
(* session: src/iced_ui/helpers/persistence.rs over atomic_file.rs.  In    *)
(* every process the window puts the newest entries of a cache into a slot *)
(* and wakes the writer, whose wake-ups fold into one; the writer takes    *)
(* all slots at once and saves them one after the other.  The window saves *)
(* the session itself.  Two processes save the same files.                 *)
(***************************************************************************)
EXTENDS AtomicFile

CONSTANTS
  Window, Writer, \* the two threads of each process, functions on Procs
  Storage, Network, Session, \* the saved files
  MaxSaves        \* bound: what each window schedules and saves

Caches == {Storage, Network}

ASSUME CacheWriterAssumption ==
  /\ Files = {Storage, Network, Session} /\ Cardinality(Files) = 3
  /\ Window \in [Procs -> Threads] /\ Writer \in [Procs -> Threads]
  /\ \A p \in Procs : ProcOf[Window[p]] = p /\ ProcOf[Writer[p]] = p
  /\ \A p, q \in Procs : Window[p] # Writer[q]
  /\ None \notin Nat /\ MaxSaves \in Nat

Batch == [Caches -> Nat \cup {None}]
NoBatch == [c \in Caches |-> None]

VARIABLES
  pending, \* PendingCaches of each process
  wake,    \* is a token in the channel of capacity one?
  window,  \* what each window's thread is doing
  writer,  \* where the writer is: blocked in recv, about to take, saving
  batch,   \* what the writer has taken
  known,   \* how much of the network each process has discovered
  saves,   \* the number of the last save of each process
  latest,  \* ghost: the last value each process scheduled or saved of each file
  done     \* ghost: the last value it put into place; None after a failure

mem == <<pending, wake, window, writer, batch, known, saves>>
vars == <<files, mem, latest, done>>

TypeOK ==
  /\ FilesTypeOK
  /\ pending \in [Procs -> Batch] /\ batch \in [Procs -> Batch]
  /\ wake \in [Procs -> BOOLEAN]
  /\ window \in [Procs -> {"idle", "wake", "save"}]
  /\ writer \in [Procs -> {"recv", "take", "save"}]
  /\ known \in [Procs -> Nat] /\ saves \in [Procs -> 0..MaxSaves]
  /\ latest \in [Procs -> [Files -> Nat]]
  /\ done \in [Procs -> [Files -> Nat \cup {None}]]

FirstTime == [f \in Files |-> 0]

Init ==
  /\ FilesInit
  /\ pending = [p \in Procs |-> NoBatch] /\ batch = [p \in Procs |-> NoBatch]
  /\ wake = [p \in Procs |-> FALSE]
  /\ window = [p \in Procs |-> "idle"] /\ writer = [p \in Procs |-> "recv"]
  /\ known = [p \in Procs |-> 0] /\ saves = [p \in Procs |-> 0]
  /\ latest = [p \in Procs |-> FirstTime] /\ done = [p \in Procs |-> FirstTime]

-----------------------------------------------------------------------------
(* The window.                                                             *)

Ready(p) == p \in up /\ window[p] = "idle" /\ saves[p] < MaxSaves

\* Mutant of Put: the slot keeps what it has.
PutIfEmpty(p, c, value) ==
  pending' = [pending EXCEPT ![p][c] = IF @ = None THEN value ELSE @]

Put(p, c, value) == pending' = [pending EXCEPT ![p][c] = value]

Counts(p, f, value) ==
  /\ saves' = [saves EXCEPT ![p] = @ + 1]
  /\ latest' = [latest EXCEPT ![p][f] = value]

\* schedule_storage_cache and schedule_network_cache: the slot, then the wake-up.
Schedule(p, c) ==
  LET value == IF c = Network THEN known[p] ELSE saves[p] + 1 IN
  /\ Ready(p)
  /\ Put(p, c, value) /\ Counts(p, c, value)
  /\ window' = [window EXCEPT ![p] = "wake"]
  /\ UNCHANGED <<files, wake, writer, batch, known, done>>

\* Mutant of Wake: a wake-up that only a waiting writer hears.
NotifyOnly(p) ==
  /\ p \in up /\ window[p] = "wake"
  /\ wake' = [wake EXCEPT ![p] = @ \/ writer[p] = "recv"]
  /\ window' = [window EXCEPT ![p] = "idle"]
  /\ UNCHANGED <<files, pending, writer, batch, known, saves, latest, done>>

\* try_send: a second token does not fit and is not needed.
Wake(p) ==
  /\ p \in up /\ window[p] = "wake"
  /\ wake' = [wake EXCEPT ![p] = TRUE]
  /\ window' = [window EXCEPT ![p] = "idle"]
  /\ UNCHANGED <<files, pending, writer, batch, known, saves, latest, done>>

\* Session::save runs on the window's thread.
SaveSession(p) ==
  /\ Ready(p)
  /\ StartSave(Window[p], Session, saves[p] + 1) /\ Counts(p, Session, saves[p] + 1)
  /\ window' = [window EXCEPT ![p] = "save"]
  /\ UNCHANGED <<pending, wake, writer, batch, known, done>>

\* A provider finds a device and adds it to the network's entries.
Discover(p) ==
  /\ p \in up /\ known[p] < MaxSaves
  /\ known' = [known EXCEPT ![p] = @ + 1]
  /\ UNCHANGED <<files, pending, wake, window, writer, batch, saves, latest, done>>

-----------------------------------------------------------------------------
(* The writer.                                                             *)

Receive(p) ==
  /\ p \in up /\ writer[p] = "recv" /\ wake[p]
  /\ wake' = [wake EXCEPT ![p] = FALSE]
  /\ writer' = [writer EXCEPT ![p] = "take"]
  /\ UNCHANGED <<files, pending, window, batch, known, saves, latest, done>>

TakeBatch(p) ==
  /\ p \in up /\ writer[p] = "take"
  /\ batch' = [batch EXCEPT ![p] = pending[p]]
  /\ pending' = [pending EXCEPT ![p] = NoBatch]
  /\ writer' = [writer EXCEPT ![p] = "save"]
  /\ UNCHANGED <<files, wake, window, known, saves, latest, done>>

\* save_storage_cache, then save_network_cache, which takes what is known by then.
SaveNext(p) ==
  /\ p \in up /\ writer[p] = "save" /\ batch[p] # NoBatch
  /\ LET c == IF batch[p][Storage] # None THEN Storage ELSE Network IN
     /\ StartSave(Writer[p], c, IF c = Network THEN known[p] ELSE batch[p][c])
     /\ batch' = [batch EXCEPT ![p][c] = None]
  /\ UNCHANGED <<pending, wake, window, writer, known, saves, latest, done>>

BatchEnds(p) ==
  /\ p \in up /\ writer[p] = "save" /\ batch[p] = NoBatch
  /\ save[Writer[p]].at = "idle"
  /\ writer' = [writer EXCEPT ![p] = "recv"]
  /\ UNCHANGED <<files, pending, wake, window, batch, known, saves, latest, done>>

-----------------------------------------------------------------------------
(* A save of either thread.                                                *)

Saving(t) ==
  /\ WriteStep(t)
  /\ UNCHANGED <<mem, latest, done>>

\* The result is only logged.
SaveEnds(t) ==
  LET p == ProcOf[t] IN
  /\ EndSave(t)
  /\ done' = [done EXCEPT ![p][save[t].file] =
                IF save[t].at = "saved" THEN save[t].value ELSE None]
  /\ window' = IF t = Window[p] THEN [window EXCEPT ![p] = "idle"] ELSE window
  /\ UNCHANGED <<pending, wake, writer, batch, known, saves, latest>>

-----------------------------------------------------------------------------
(* A process ends or crashes, the machine stops; what was in memory is lost. *)

Forget(dead) ==
  LET Reset(f, value) == [p \in Procs |-> IF p \in dead THEN value ELSE f[p]] IN
  /\ pending' = Reset(pending, NoBatch) /\ batch' = Reset(batch, NoBatch)
  /\ wake' = Reset(wake, FALSE)
  /\ window' = Reset(window, "idle") /\ writer' = Reset(writer, "recv")
  /\ latest' = Reset(latest, FirstTime) /\ done' = Reset(done, FirstTime)
  /\ known' = Reset(known, 0)
  /\ UNCHANGED saves

Crash(p) == CrashProcess(p) /\ Forget({p})
Outage == PowerFails /\ Forget(Procs)

\* load_network_cache_state.
Start(p) ==
  /\ Restart(p)
  /\ known' = [known EXCEPT ![p] = IF visible[Network] = None THEN 0 ELSE visible[Network].value]
  /\ UNCHANGED <<pending, wake, window, writer, batch, saves, latest, done>>

-----------------------------------------------------------------------------
\* Every process waits for its window.
Rest ==
  /\ \A p \in up : window[p] = "idle" /\ writer[p] = "recv" /\ ~wake[p]
  /\ UNCHANGED vars

Thread(t) == Saving(t) \/ SaveEnds(t)
WriterLoop(p) == Receive(p) \/ TakeBatch(p) \/ SaveNext(p) \/ BatchEnds(p)

Next ==
  \/ \E p \in Procs : \/ \E c \in Caches : Schedule(p, c)
                      \/ Wake(p) \/ SaveSession(p) \/ Discover(p)
                      \/ WriterLoop(p)
                      \/ Crash(p) \/ Start(p)
  \/ \E t \in Threads : Thread(t)
  \/ Outage
  \/ Rest

Spec == Init /\ [][Next]_vars

\* Threads of a process that runs are scheduled; nobody has to start a process again.
FairSpec ==
  /\ Spec
  /\ \A p \in Procs : WF_vars(Wake(p)) /\ WF_vars(WriterLoop(p))
  /\ \A t \in Threads : WF_vars(Thread(t))

-----------------------------------------------------------------------------
(* Properties.                                                             *)

Asleep(p) == window[p] # "wake" /\ writer[p] = "recv" /\ ~wake[p]

\* When the writer sleeps and nobody is about to wake it, the last value that was
\* scheduled of each cache is the one in place, or its save has failed; of the network
\* it may be a later one.  Wake-ups that fold into one lose no value, and no older value
\* comes last.
NewestIsSaved ==
  \A p \in up, c \in Caches :
    Asleep(p) /\ done[p][c] # None =>
      IF c = Network THEN done[p][c] >= latest[p][c] ELSE done[p][c] = latest[p][c]

\* What is scheduled is taken in the end, unless the process stops.
ScheduledIsTaken ==
  \A p \in Procs : pending[p] # NoBatch ~> pending[p] = NoBatch
=============================================================================
