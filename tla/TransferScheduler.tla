------------------------- MODULE TransferScheduler -------------------------
(***************************************************************************)
(* The scheduler of transfers in BExplorer's window:                       *)
(* src/iced_ui/file_actions.rs and the transfer messages of                *)
(* src/iced_ui/update.rs.  It queues the transfers the user asks for, runs *)
(* a few at a time on threads of their own, polls the channel they report  *)
(* on, offers a denied transfer to an elevated helper, and keeps the one   *)
(* action that can be undone.                                              *)
(*                                                                         *)
(* The workers are cut down to what the window sees of them and to what    *)
(* they do to one name in one folder; TransferEngine is their detail.  The *)
(* window handles one message at a time and every message can arrive late, *)
(* so handling the channel one message per step (the code drains it in a   *)
(* loop) adds no behaviour: the later ones might as well not be there yet. *)
(***************************************************************************)
EXTENDS Integers, Sequences, FiniteSets

CONSTANTS
  MaxParallel,  \* TRANSFER_MAX_PARALLEL
  MaxJobs,      \* bound: transfers the user asks for
  MaxIndex,     \* bound: variants of the one file name
  MaxUndos,     \* bound: how often the user asks to undo
  MaxTrashes,   \* bound: items the user moves to the trash
  MaxProgress,  \* bound: progress reports per worker
  Occupied,     \* the slots that may be taken at first
  Kinds,        \* the TransferKinds the user asks for
  Denials,      \* may access be denied (permission_denied of a failure)?
  None          \* no job, no slot, no action

Ids   == 1..MaxJobs
Slots == 1..MaxIndex
Kind     == {"Copy", "Move"}
Policy   == {"Replace", "Skip", "KeepBoth"}
\* What a slot may hold: the result of a job, or what was there before them all.
Contents == Ids \cup {0}

ASSUME SchedulerAssumption ==
  /\ MaxParallel \in Nat \ {0} /\ MaxJobs \in Nat /\ MaxIndex \in Nat \ {0}
  /\ MaxUndos \in Nat /\ MaxTrashes \in Nat /\ MaxProgress \in Nat
  /\ Occupied \subseteq Slots
  /\ Kinds \subseteq Kind /\ Denials \subseteq BOOLEAN /\ FALSE \in Denials
  /\ None \notin Contents /\ None \notin Slots

VARIABLES
  next,      \* next_transfer_id
  job,       \* the TransferJob of each id, None before it is queued
  queue,     \* transfer_queue
  active,    \* active_transfers
  cancel,    \* the cancel flags of the active transfers
  progress,  \* the ids with an entry in transfer_progress
  history,   \* transfer_history, without the removal of old entries
  channel,   \* transfer_tx and transfer_rx
  conflict,  \* transfer_conflict_dialog: the kind asked for, or None
  offer,     \* elevated_transfer_dialog
  elevated,  \* active_elevated_transfers
  undo,      \* last_undo_action
  undoing,   \* undo actions at work on a background thread
  trashing,  \* the move to the trash in progress in the pane
  worker,    \* the thread of each job
  disk,      \* the folder: what each variant of the name holds
  sources,   \* the jobs whose source is still where it was
  overtaken, \* ghost: the jobs whose target was taken after they had chosen it
  asked,     \* how often the user has asked to undo
  trashed    \* how many items the user has moved to the trash

transfers == <<next, job, queue, active, cancel, progress, history, channel, conflict,
               offer, elevated, worker>>
undos == <<undo, undoing, trashing, asked, trashed>>
files == <<disk, sources, overtaken>>
vars  == <<transfers, undos, files>>

\* TransferJob.
Job == [kind: Kind, policy: Policy]
\* UndoAction: Copy and Move name the job's result, Trash what was in a slot (and,
\* ghost, the how many-th item that went to the trash it was).
Action == [op: {"Copy", "Move", "Trash"}, slot: Slots, what: Contents, nth: 0..MaxTrashes]
Undoing == [action: Action, state: {"running", "ok", "err"}]
\* TransferMessage; `root` is the one completed root, if any.
Transfer == [type: {"Progress", "Finished", "Failed", "Cancelled"}, id: Ids,
             root: Slots \cup {None}, denied: BOOLEAN]
\* The thread: where it is ("done" and "failed" are an elevated helper's results
\* under way), its target, how often it has reported, and (ghost) what its target
\* held when it finished.
Worker == [state: {"idle", "ready", "copying", "over", "done", "failed"},
           target: Slots \cup {None}, sent: 0..MaxProgress, before: Contents \cup {None}]
Trashing == [slot: Slots, what: Contents, state: {"running", "ok", "err"}]

ASSUME NoneAssumption == None \notin Kind \cup Job \cup Action \cup Trashing

Elems(q) == {q[i] : i \in 1..Len(q)}

TypeOK ==
  /\ next \in 0..MaxJobs
  /\ job \in [Ids -> Job \cup {None}]
  /\ queue \in Seq(Ids)
  /\ active \subseteq Ids /\ progress \subseteq Ids /\ elevated \subseteq Ids
  /\ cancel \subseteq Ids
  /\ history \subseteq Ids \X {"Finished", "Cancelled", "Failed"}
  /\ channel \in Seq(Transfer)
  /\ conflict \in Kind \cup {None}
  /\ offer \in Ids \cup {None}
  /\ undo \in Action \cup {None}
  /\ undoing \subseteq Undoing
  /\ trashing \in Trashing \cup {None}
  /\ worker \in [Ids -> Worker]
  /\ disk \in [Slots -> Contents \cup {None}]
  /\ sources \subseteq Ids /\ overtaken \subseteq Ids
  /\ asked \in 0..MaxUndos /\ trashed \in 0..MaxTrashes

Idle == [state |-> "idle", target |-> None, sent |-> 0, before |-> None]

Init ==
  /\ next = 0
  /\ job = [j \in Ids |-> None]
  /\ queue = <<>> /\ channel = <<>>
  /\ active = {} /\ cancel = {} /\ progress = {} /\ history = {} /\ elevated = {}
  /\ conflict = None /\ offer = None /\ undo = None /\ undoing = {} /\ trashing = None
  /\ worker = [j \in Ids |-> Idle]
  /\ \E taken \in SUBSET Occupied : disk = [s \in Slots |-> IF s \in taken THEN 0 ELSE None]
  /\ sources = Ids /\ overtaken = {}
  /\ asked = 0 /\ trashed = 0

-----------------------------------------------------------------------------
(* start_next_transfers: from the front of the queue while there is room.   *)

Least(a, b) == IF a <= b THEN a ELSE b
Room(a) == IF Cardinality(a) < MaxParallel THEN MaxParallel - Cardinality(a) ELSE 0
Started(q, a) == {q[i] : i \in 1..Least(Len(q), Room(a))}

\* The queue q and the active transfers a, after start_next_transfers.
StartNext(q, a) ==
  /\ active' = a \cup Started(q, a)
  /\ queue' = SubSeq(q, Least(Len(q), Room(a)) + 1, Len(q))
  /\ worker' = [j \in Ids |-> IF j \in Started(q, a) THEN [Idle EXCEPT !.state = "ready"]
                                                      ELSE worker[j]]

-----------------------------------------------------------------------------
(* Requests.                                                               *)

\* queue_transfer_with_policy.
QueueTransfer(kind, policy) ==
  LET j == next + 1 IN
  /\ next' = j
  /\ undo' = None
  /\ job' = [job EXCEPT ![j] = [kind |-> kind, policy |-> policy]]
  /\ progress' = progress \cup {j}
  /\ StartNext(Append(queue, j), active)

\* request_transfer: ask about a name that is taken, else keep both.  Nothing keeps
\* a request from taking the place of one that is still to be answered.
RequestTransfer ==
  /\ next < MaxJobs
  /\ \E kind \in Kinds :
       \/ /\ disk[1] # None
          /\ conflict' = kind
          /\ UNCHANGED <<next, undo, job, progress, active, queue, worker>>
       \/ /\ disk[1] = None
          /\ QueueTransfer(kind, "KeepBoth")
          /\ UNCHANGED conflict
  /\ UNCHANGED <<cancel, history, channel, offer, elevated, undoing, trashing, files, asked,
                 trashed>>

ResolveTransferConflict ==
  /\ conflict # None
  /\ next < MaxJobs
  /\ \E policy \in Policy : QueueTransfer(conflict, policy)
  /\ conflict' = None
  /\ UNCHANGED <<cancel, history, channel, offer, elevated, undoing, trashing, files, asked,
                 trashed>>

CancelTransferConflict ==
  /\ conflict # None
  /\ conflict' = None
  /\ UNCHANGED <<next, job, queue, active, cancel, progress, history, channel, offer,
                 elevated, worker, undos, files>>

\* Mutant of CancelActive: the transfer is forgotten as soon as it is cancelled.
CancelAndForget(j) ==
  /\ j \in active /\ j \notin cancel
  /\ cancel' = cancel \cup {j}
  /\ StartNext(queue, active \ {j})
  /\ UNCHANGED <<next, job, progress, history, channel, conflict, offer, elevated,
                 undos, files>>

\* CancelTransfer sets the flag of an active transfer.
CancelActive(j) ==
  /\ j \in active /\ j \notin cancel
  /\ cancel' = cancel \cup {j}
  /\ UNCHANGED <<next, job, queue, active, progress, history, channel, conflict, offer,
                 elevated, worker, undos, files>>

Without(q, i) == [k \in 1..(Len(q) - 1) |-> IF k < i THEN q[k] ELSE q[k + 1]]

\* CancelTransfer removes a queued transfer.
CancelQueued(j) ==
  /\ \E i \in 1..Len(queue) : queue[i] = j /\ queue' = Without(queue, i)
  /\ progress' = progress \ {j}
  /\ history' = history \cup {<<j, "Cancelled">>}
  /\ UNCHANGED <<next, job, active, cancel, channel, conflict, offer, elevated, worker,
                 undos, files>>

-----------------------------------------------------------------------------
(* The workers: transfer_queue::run_transfer, or the elevated helper.       *)

\* The names reserved in j's process; an elevated helper is one of its own.
Claimed(j) ==
  {worker[k].target : k \in {i \in Ids \ elevated : worker[i].state = "copying" /\ j \notin elevated}}

Free(j) == {s \in Slots : disk[s] = None /\ s \notin Claimed(j)}
Unique(j) == IF Free(j) = {} THEN {1} ELSE {s \in Free(j) : \A t \in Free(j) : s <= t}

\* resolve_conflict_with_reservations; None is a source that is skipped.
Targets(j) ==
  CASE job[j].policy = "Replace"  -> IF 1 \in Claimed(j) THEN Unique(j) ELSE {1}
    [] job[j].policy = "Skip"     -> IF 1 \in Free(j) THEN {1} ELSE {None}
    [] job[j].policy = "KeepBoth" -> Unique(j)

\* unique_destination is asked for a free name and there is none.
RunsOut(j) ==
  /\ Free(j) = {}
  /\ job[j].policy = "KeepBoth" \/ (job[j].policy = "Replace" /\ 1 \in Claimed(j))

\* The threads about to put something into slot s, which has been filled meanwhile.
CopyingTo(s) == {i \in Ids : worker[i].state = "copying" /\ worker[i].target = s}
\* Those of them that j, in a process of its own or out of names, did not know of.
Overtaken(j, s) ==
  {i \in CopyingTo(s) \ {j} : i \in elevated \/ j \in elevated \/ j \in overtaken}

SetWorker(j, state) == worker' = [worker EXCEPT ![j].state = state]
Send(type, j, root, denied) ==
  channel' = Append(channel, [type |-> type, id |-> j, root |-> root, denied |-> denied])
WorkerOnly == UNCHANGED <<next, job, queue, active, cancel, progress, history, conflict, offer,
                          elevated, undos>>

Reserve(j) ==
  /\ worker[j].state = "ready"
  /\ \E t \in Targets(j) : worker' = [worker EXCEPT ![j].state = "copying", ![j].target = t]
  /\ overtaken' = IF RunsOut(j) THEN overtaken \cup {j} ELSE overtaken \ {j}
  /\ UNCHANGED <<channel, disk, sources>> /\ WorkerOnly

SendProgress(j) ==
  /\ worker[j].state = "copying" /\ worker[j].sent < MaxProgress
  /\ worker' = [worker EXCEPT ![j].sent = @ + 1]
  /\ Send("Progress", j, None, FALSE)
  /\ UNCHANGED files /\ WorkerOnly

\* The copy is complete.  A replacement may put it over something, and so may the rename
\* of a move, which does not ask again whether the name is taken.
Succeed(j) ==
  LET t == worker[j].target IN
  /\ worker[j].state = "copying"
  /\ t # None => disk[t] = None \/ job[j].policy = "Replace" \/ job[j].kind = "Move"
  /\ disk' = [s \in Slots |-> IF s = t THEN j ELSE disk[s]]
  /\ sources' = IF job[j].kind = "Move" /\ t # None THEN sources \ {j} ELSE sources
  /\ worker' = [worker EXCEPT ![j].state = IF j \in elevated THEN "done" ELSE "over",
                              ![j].before = IF t = None THEN None ELSE disk[t]]
  /\ overtaken' = overtaken \cup Overtaken(j, t)
  /\ IF j \in elevated THEN UNCHANGED channel ELSE Send("Finished", j, t, FALSE)
  /\ WorkerOnly

\* An error, a denied access or a panic.
FailJob(j) ==
  /\ worker[j].state \in {"ready", "copying"}
  /\ SetWorker(j, IF j \in elevated THEN "failed" ELSE "over")
  /\ IF j \in elevated THEN UNCHANGED channel
     ELSE \E denied \in Denials : (j \in cancel => ~denied) /\ Send("Failed", j, None, denied)
  /\ UNCHANGED files /\ WorkerOnly

StopJob(j) ==
  /\ worker[j].state \in {"ready", "copying"}
  /\ j \in cancel /\ j \notin elevated
  /\ SetWorker(j, "over")
  /\ Send("Cancelled", j, None, FALSE)
  /\ UNCHANGED files /\ WorkerOnly

-----------------------------------------------------------------------------
(* poll_transfer_messages.                                                 *)

\* Mutants of Undoable: replacements too, or whatever ends without an error.
UndoableReplaced(j, root) == root # None
UndoableAlways(j, root) == TRUE

\* Only a transfer that kept both can be undone, and only if it made something.
Undoable(j, root) == job[j].policy = "KeepBoth" /\ root # None

Result(j, root) == [op |-> job[j].kind, slot |-> root, what |-> j, nth |-> 0]

\* Take the next message, which must be of this type.
Take(type, j) == channel # <<>> /\ Head(channel).type = type /\ Head(channel).id = j
                 /\ channel' = Tail(channel)

OnProgress(j) ==
  /\ Take("Progress", j)
  /\ progress' = progress \cup {j}
  /\ UNCHANGED <<next, job, queue, active, cancel, history, conflict, offer, elevated, worker,
                 undos, files>>

\* Mutant of OnFinished: the progress entry stays behind.
OnFinishedKeeping(j) ==
  /\ Take("Finished", j)
  /\ history' = history \cup {<<j, "Finished">>}
  /\ undo' = IF j \in active /\ Undoable(j, Head(channel).root)
             THEN Result(j, Head(channel).root) ELSE undo
  /\ cancel' = cancel \ {j}
  /\ StartNext(queue, active \ {j})
  /\ UNCHANGED <<next, job, progress, conflict, offer, elevated, undoing, trashing, asked,
                 trashed, files>>

OnFinished(j) ==
  LET root == Head(channel).root IN
  /\ Take("Finished", j)
  /\ progress' = progress \ {j}
  /\ history' = IF j \in progress \cup active THEN history \cup {<<j, "Finished">>} ELSE history
  /\ undo' = IF j \in active /\ Undoable(j, root) THEN Result(j, root) ELSE undo
  /\ cancel' = cancel \ {j}
  /\ StartNext(queue, active \ {j})
  /\ UNCHANGED <<next, job, conflict, offer, elevated, undoing, trashing, asked, trashed, files>>

\* Mutant of OnFailed: a denied transfer keeps its place until it is answered.
OnFailedWaiting(j) ==
  /\ Take("Failed", j)
  /\ progress' = progress \ {j}
  /\ history' = history
  /\ offer' = IF Head(channel).denied THEN j ELSE offer
  /\ StartNext(queue, active)
  /\ UNCHANGED <<next, job, cancel, conflict, elevated, undos, files>>

\* A denied transfer goes to the dialog that offers to elevate it.
OnFailed(j) ==
  LET denied == Head(channel).denied IN
  /\ Take("Failed", j)
  /\ progress' = progress \ {j}
  /\ history' = IF ~denied /\ j \in progress THEN history \cup {<<j, "Failed">>} ELSE history
  /\ offer' = IF j \in active /\ denied THEN j ELSE offer
  /\ cancel' = cancel \ {j}
  /\ StartNext(queue, active \ {j})
  /\ UNCHANGED <<next, job, conflict, elevated, undos, files>>

\* Mutant of OnCancelled: the queue is not looked at.
OnCancelledIdle(j) ==
  /\ Take("Cancelled", j)
  /\ progress' = progress \ {j}
  /\ history' = history \cup {<<j, "Cancelled">>}
  /\ cancel' = cancel \ {j}
  /\ active' = active \ {j}
  /\ UNCHANGED <<queue, worker>>
  /\ UNCHANGED <<next, job, conflict, offer, elevated, undos, files>>

OnCancelled(j) ==
  /\ Take("Cancelled", j)
  /\ progress' = progress \ {j}
  /\ history' = IF j \in progress THEN history \cup {<<j, "Cancelled">>} ELSE history
  /\ cancel' = cancel \ {j}
  /\ StartNext(queue, active \ {j})
  /\ UNCHANGED <<next, job, conflict, offer, elevated, undos, files>>

Poll == \E j \in Ids : OnProgress(j) \/ OnFinished(j) \/ OnFailed(j) \/ OnCancelled(j)

-----------------------------------------------------------------------------
(* Elevation.                                                              *)

ConfirmElevatedTransfer ==
  /\ offer # None
  /\ offer' = None
  /\ elevated' = elevated \cup {offer}
  /\ progress' = progress \cup {offer}
  /\ worker' = [worker EXCEPT ![offer] = [Idle EXCEPT !.state = "ready"]]
  /\ UNCHANGED <<next, job, queue, active, cancel, history, channel, conflict, undos,
                 files>>

CancelElevatedTransfer ==
  /\ offer # None
  /\ offer' = None
  /\ UNCHANGED <<next, job, queue, active, cancel, progress, history, channel, conflict,
                 elevated, worker, undos, files>>

ElevatedTransferFinished(j) ==
  LET root == worker[j].target  done == worker[j].state = "done" IN
  /\ j \in elevated /\ worker[j].state \in {"done", "failed"}
  /\ elevated' = elevated \ {j}
  /\ progress' = progress \ {j}
  /\ SetWorker(j, "over")
  /\ undo' = IF done /\ Undoable(j, root) THEN Result(j, root) ELSE undo
  /\ UNCHANGED <<next, job, queue, active, cancel, history, channel, conflict, offer, undoing,
                 trashing, asked, trashed, files>>

-----------------------------------------------------------------------------
(* Undo.                                                                   *)

\* Mutant of UndoLastAction: the action is read but not taken.
UndoWithoutTaking ==
  /\ asked < MaxUndos /\ undo # None
  /\ asked' = asked + 1
  /\ undoing' = undoing \cup {[action |-> undo, state |-> "running"]}
  /\ UNCHANGED <<undo, transfers, trashing, trashed, files>>

\* undo_last_action takes the action and hands it to a background thread.
UndoLastAction ==
  /\ asked < MaxUndos /\ undo # None
  /\ asked' = asked + 1
  /\ undoing' = undoing \cup {[action |-> undo, state |-> "running"]}
  /\ undo' = None
  /\ UNCHANGED <<transfers, trashing, trashed, files>>

\* delete_permanently (which passes over what is gone), move_paths_back or
\* restore_from_trash.
UndoWorks(u) ==
  LET s == u.action.slot IN
  /\ u.state = "running"
  /\ undoing' = (undoing \ {u}) \cup {[u EXCEPT !.state = "ok"]}
  /\ CASE u.action.op = "Copy"  -> UNCHANGED sources
       [] u.action.op = "Move"  -> /\ disk[s] # None /\ u.action.what \notin sources
                                   /\ sources' = sources \cup {u.action.what}
       [] u.action.op = "Trash" -> disk[s] = None /\ UNCHANGED sources
  /\ disk' = [disk EXCEPT ![s] = IF u.action.op = "Trash" THEN u.action.what ELSE None]
  /\ overtaken' = IF u.action.op = "Trash" THEN overtaken \cup CopyingTo(s) ELSE overtaken
  /\ UNCHANGED <<transfers, undo, trashing, asked, trashed>>

UndoFails(u) ==
  /\ u.state = "running"
  /\ undoing' = (undoing \ {u}) \cup {[u EXCEPT !.state = "err"]}
  /\ UNCHANGED <<transfers, undo, trashing, asked, trashed, files>>

\* UndoFinished: after an error the action can be undone again.
UndoFinished(u) ==
  /\ u.state \in {"ok", "err"}
  /\ undoing' = undoing \ {u}
  /\ undo' = IF u.state = "err" THEN u.action ELSE undo
  /\ UNCHANGED <<transfers, trashing, asked, trashed, files>>

UndoThread == \E u \in undoing : UndoWorks(u) \/ UndoFails(u) \/ UndoFinished(u)

-----------------------------------------------------------------------------
(* context_delete, which moves an item to the trash.                        *)

MoveToTrash ==
  /\ trashing = None  \* begin_file_operation
  /\ trashed < MaxTrashes /\ trashed' = trashed + 1
  /\ undo' = None
  /\ \E s \in Slots :
       /\ disk[s] # None
       /\ trashing' = [slot |-> s, what |-> disk[s], state |-> "running"]
  /\ UNCHANGED <<transfers, undoing, asked, files>>

\* delete_to_trash_with_undo_controlled.  An item that is gone
\* leaves no undo record, as an error does.
TrashWorks ==
  /\ trashing # None /\ trashing.state = "running"
  /\ \/ /\ disk[trashing.slot] # None
        /\ disk' = [disk EXCEPT ![trashing.slot] = None]
        /\ trashing' = [trashing EXCEPT !.what = disk[trashing.slot], !.state = "ok"]
     \/ /\ trashing' = [trashing EXCEPT !.state = "err"]
        /\ UNCHANGED disk
  /\ UNCHANGED <<transfers, undo, undoing, asked, trashed, sources, overtaken>>

TrashFinished ==
  /\ trashing # None /\ trashing.state \in {"ok", "err"}
  /\ trashing' = None
  /\ undo' = IF trashing.state = "ok"
             THEN [op |-> "Trash", slot |-> trashing.slot, what |-> trashing.what, nth |-> trashed]
             ELSE undo
  /\ UNCHANGED <<transfers, undoing, asked, trashed, files>>

-----------------------------------------------------------------------------
Work(j) == Reserve(j) \/ SendProgress(j) \/ Succeed(j) \/ FailJob(j) \/ StopJob(j)

\* Nothing is under way: the window waits for the user.
Rest ==
  /\ queue = <<>> /\ channel = <<>> /\ active = {} /\ elevated = {} /\ undoing = {}
  /\ trashing = None
  /\ UNCHANGED vars

Next ==
  \/ RequestTransfer \/ ResolveTransferConflict \/ CancelTransferConflict
  \/ \E j \in Ids : CancelActive(j) \/ CancelQueued(j)
  \/ \E j \in Ids : Work(j) \/ ElevatedTransferFinished(j)
  \/ Poll
  \/ ConfirmElevatedTransfer \/ CancelElevatedTransfer
  \/ UndoLastAction \/ UndoThread
  \/ MoveToTrash \/ TrashWorks \/ TrashFinished
  \/ Rest

Spec == Init /\ [][Next]_vars

\* Threads run, the window polls every 80 ms while anything is under way, and
\* results of background tasks arrive; the user need not do anything.
FairSpec ==
  /\ Spec
  /\ \A j \in Ids : WF_vars(Work(j)) /\ WF_vars(ElevatedTransferFinished(j))
  /\ WF_vars(Poll)

-----------------------------------------------------------------------------
(* Properties.                                                             *)

\* A transfer waits only while all places are taken: however transfers end, are
\* cancelled or denied, no handler forgets to start the next one, or starts too
\* many.
QueueWaitsOnlyWhenFull ==
  /\ Cardinality(active) <= MaxParallel
  /\ queue # <<>> => Cardinality(active) = MaxParallel

Terminal(j) ==
  {i \in 1..Len(channel) : channel[i].id = j /\ channel[i].type # "Progress"}

\* Every active transfer has a running thread or exactly one terminal message on
\* its way, never both or neither, and nothing else has: a place in the list is
\* always given back, and given back once.  A transfer is in one list at most.
ActiveHasWorker ==
  /\ \A j \in Ids \ elevated :
       LET runs == worker[j].state \in {"ready", "copying"}
           told == Terminal(j) IN
       /\ j \in active => (runs /\ told = {}) \/ (~runs /\ Cardinality(told) = 1)
       /\ j \notin active => ~runs /\ told = {}
  /\ active \cap elevated = {} /\ Elems(queue) \cap (active \cup elevated) = {}
  /\ offer \notin active \cup elevated \cup Elems(queue)

\* The window shows every transfer that is waiting or running, and shows none as in
\* progress that it also shows as ended.  (A report an elevated helper sends just
\* before its result can leave an entry behind, of a transfer with no such record.)
ProgressMatches ==
  /\ Elems(queue) \cup active \cup elevated \subseteq progress
  /\ \A j \in progress :
       j \in Elems(queue) \cup active \cup elevated \/ \A h \in history : h[1] # j

\* One completed action is never undone twice at once: not while an undo of it is
\* at work, nor by two threads.
UndoHeldOnce ==
  /\ undo # None => \A u \in undoing : u.action # undo
  /\ \A u, v \in undoing : u.action = v.action => u = v

\* The rename of j's move may have replaced what took the chosen name meanwhile.
Displaces(j) == job[j].kind = "Move" /\ j \in overtaken

\* A successful undo of a transfer leaves in the target what was there before the
\* transfer, so nothing that was replaced is gone for good after it.  The one exception
\* is a move whose name was taken, after it was chosen, by a transfer of another process
\* or by something put back from the trash, or that found no free name.
UndoRestores ==
  [][\A u \in undoing :
       /\ u.state = "running" /\ u.action.op # "Trash"
       /\ [u EXCEPT !.state = "ok"] \in undoing'
       /\ u \notin undoing'
       => Displaces(u.action.what) \/ disk'[u.action.slot] = worker[u.action.what].before]_vars

\* Every transfer that is queued, active or elevated gets out of these lists.
Listed(j) == j \in Elems(queue) \cup active \cup elevated
TransfersLeave == \A j \in Ids : Listed(j) ~> ~Listed(j)
=============================================================================
