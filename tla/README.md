# A verification of BExplorer

BExplorer (version 1.0.6) is a file explorer for Windows and Linux, written in Rust with the
iced toolkit: 127 Rust files, about 86,600 lines. This directory holds TLA+ models of the parts
of it that are hard to test, the TLC runs that check them, and TLAPS proofs about them. Paths
are relative to the repository; `TRANSFER_MAX_PARALLEL` and other names in capitals are the
code's constants.

How to run, in this directory:

    tlc -workers 2 -config TransferEngine.cfg MCTransferEngine.tla
    tlapm TransferEngine_proofs.tla

`PROJECT.json` lists the runs, the source lines behind every definition (`map`), for every
property of a passing run a plausible bug that breaks it (`mutants`), the disagreements between
code and documentation (`findings`), and the hazards the properties were chosen for.

## The system

One window thread owns all the state of the interface, in `BExplorerIced`
(`src/iced_ui/mod.rs`), and handles one message at a time. Everything slow runs elsewhere:
threads for transfers, a thread that watches directories, blocking tasks for listings and file
operations, helper processes for elevated work and archives. What is hard is what happens
between these.

| component | state | operations | talks to | what makes it correct |
|---|---|---|---|---|
| Transfer engine (`fs/transfer_queue.rs`, `fs/transfer_queue/local.rs`) | a job's runtime; the process-wide `RESERVED_TARGETS`; cancel and pause flags; the file system | reserve a name, copy, stage and commit a replacement, move, clean up, report | one channel to the window; other jobs through the table and the folder | no content is lost that the user did not replace; names are exclusive; a completed root is complete; cancelling works |
| Transfer scheduler (`iced_ui/file_actions.rs`, transfer messages in `iced_ui/update.rs`) | queue, active and elevated transfers, progress, history, conflict and elevation dialogs, the one undo | request, resolve, cancel, poll, elevate, undo, move to the trash | starts engine threads, polls their channel, waits for helpers | places are neither leaked nor given twice; every transfer leaves; the undo destroys nothing |
| Directory watcher (`fs/watcher.rs`) | wanted and watched directories, version, overflow flag, batch, pending change, two bounded channels | show directories, report, gather, publish, pause for an ejection | window, notify's thread, the reader that refreshes panes, ejecting threads | no change forgotten; no lost wake-up; handles released while a volume is ejected |
| Directory refresh and pane loads (`iced_ui/directory_refresh.rs`, `iced_ui/navigation.rs`) | tickets, request numbers, cancel flags per pane | load, refresh, finish, cancel, queue again | watcher's reader, listing tasks | an old listing never replaces a newer one; the pane ends up showing what is there |
| File operations and trash (`fs/operations.rs`, `fs/trash.rs`, `platform/shell/elevation.rs`) | undo records, progress | delete, trash, restore, purge, move back, create, rename | blocking tasks, elevated helper, other programs | nothing goes that nobody asked to delete; an undo knows its items |
| Operation host (`app/operation_host.rs`, window messages in `iced_ui/mod.rs`, `update.rs`) | marker file, listener, activation queue; the window's and the operations' state | publish, activate, acknowledge, unpublish, close, exit | other processes of the program | a path whose launch was acknowledged is kept; no operation is killed; no process stays behind unseen |
| Cache writer (`iced_ui/helpers/persistence.rs`) | latest value of each cache, one wake-up | schedule, take, save | window, atomic files | the last value is written |
| Worker pool (`iced_ui/helpers/workers.rs`) | bounded queue, permits | submit, cancel | image code | cancelled work frees its place |
| Atomic files, session, configuration (`utils/atomic_file.rs`, `app/session.rs`, `app/config.rs`) | files | write a sibling, flush, rename | everything that saves | a crash leaves the old or the new file |
| Portable devices (`fs/portable.rs`, `platform/*/portable.rs`) | device sessions, quarantine of operations that may still run | list, export, import, delete | transfer engine | an operation that may continue is not undone behind its back |
| Archive jobs (`fs/archive*`) | helper process, output files | extract, create, cancel | window | no partial output is taken for a whole one |
| Network discovery (`iced_ui/network_refresh.rs`, `platform/windows/network.rs`) | single-flight keys, cache, revision | query, publish, collect | window, native threads | the last result is collected |
| Search, duplicates, storage analysis (`fs/search.rs`, `fs/duplicates.rs`, `fs/storage_analysis.rs`) | cancellable scans | scan, stream, cancel | window | results of a cancelled scan are ignored |
| Thumbnails and image caches | caches, permits | load, evict, prune | worker pool | bounds hold |
| Storage monitors (`platform/*/storage_watch.rs`) | one coalesced signal | notify | window | no lost wake-up |
| Shell integration, views, listing, properties | none that a later step depends on | calls to the desktop, rendering | | |

The behaviours that make these hard are listed one by one, with their lines, under `hazards`.

## The modules

| module | models | extends |
|---|---|---|
| `TransferEngine` | `src/fs/transfer_queue.rs`, `src/fs/transfer_queue/local.rs` | |
| `MCTransferEngine` | instances for TLC | `TransferEngine` |
| `TransferEngine_proofs` | theorems for every instance: types and reservations | `TransferEngine` |
| `TransferContent_proofs` | the same: no content is lost, completed roots are complete | `TransferEngine_proofs` |
| `TransferScheduler` | `src/iced_ui/file_actions.rs`, transfer, undo and trash messages of `src/iced_ui/update.rs` | |
| `TransferScheduler_proofs` | theorems for every instance: the queue, workers, places, progress, undo | `TransferScheduler` |
| `MCTransferScheduler` | instances for TLC | `TransferScheduler` |
| `ChangeFeed` | what `src/fs/watcher.rs` promises to the window: an abstract specification | |
| `DirectoryWatcher` | `src/fs/watcher.rs`; implements `ChangeFeed` | instantiates `ChangeFeed` |
| `MCDirectoryWatcher` | instances for TLC | `DirectoryWatcher` |
| `DirectoryWatcher_proofs` | theorems for every instance: pauses, changes, wake-ups, and the refinement of `ChangeFeed` | `DirectoryWatcher` |
| `DirectoryRefresh` | `src/iced_ui/directory_refresh.rs`, `navigation.rs`, `search_state.rs`, load messages of `update.rs` | instantiates `ChangeFeed` |
| `DirectoryRefresh_proofs` | theorems for every instance | `DirectoryRefresh` |
| `MCDirectoryRefresh` | instances for TLC | `DirectoryRefresh` |
| `AtomicFile` | `src/utils/atomic_file.rs`, with crashes and power failures | |
| `CacheWriter` | `src/iced_ui/helpers/persistence.rs`, and the session's saves | `AtomicFile` |
| `CacheWriter_proofs` | theorems for every instance | `CacheWriter` |
| `MCCacheWriter` | instances for TLC | `CacheWriter` |
| `OperationHost` | `src/app/operation_host.rs`, `src/main.rs`, window messages of `src/iced_ui/mod.rs` and `update.rs` | |
| `OperationHost_proofs` | theorems for every instance | `OperationHost` |
| `MCOperationHost` | instances for TLC | `OperationHost` |
| `FileOperations` | `src/fs/operations.rs`, `src/fs/trash.rs`, renaming, creation and undo in `file_actions.rs` and `update.rs` | |
| `FileOperations_proofs` | theorems for every instance | `FileOperations` |
| `MCFileOperations` | instances for TLC | `FileOperations` |

Three compositions: `DirectoryRefresh` runs the window over the watcher, which it sees as a
`ChangeFeed`; `DirectoryWatcher` is shown to be one. `CacheWriter` runs its threads over
`AtomicFile`. `OperationHost` publishes its marker in one step, which `FilesAreWhole` of
`AtomicFile` justifies.

Operators whose comment begins with "Mutant of" are not part of any specification: each is a
definition changed by a plausible bug, there to show that a property notices it.

### TransferEngine

Each job is a thread. `pc[j]` is its place in `run_transfer_inner`; a step is one call on the
file system or one critical section of the reservation table, so the interleavings of jobs, of
the user and of other programs are those of the code. `rt[j]` is `TransferRuntime` with the
locals that outlive a step; `reserved` is `RESERVED_TARGETS`, one per process, since the
table is a static; `cancel` and `pause` are `TransferControl`.

The file system holds what the properties tell apart. A *place* is a top-level entry: an input,
a variant `<<b, i>>` of the name `b` in the destination (`<<b, 2>>` is "b (2)"), or a
hidden staging or backup sibling. Its nodes are its root and, in a folder, its files. A node
records where its content was first stored and the edits that it contains, whether a job is still writing it,
and whether it would survive a power failure (`sync_all`). A *version* is the two first together: `Gone` is the set of versions
of which a step destroys the last durable copy (one that contains all the edits of another keeps it too).

What is kept of the code: the order of reserve, `same_file`, `track_reserved`; `move_path`'s rename with its
fallback to copying; `create_new` and the snapshots of the source before and after; the staged
replacement with its single `replace_file` for files and its two renames with rollback for
everything else; the check of each source file (`VerifySource`) and, a step later, its removal (`UnlinkSource`); `protect_destination`;
the cleanup by path of a cancelled job; and the order of cleanup and release, which differs
between the local and the portable route. Any call may fail. A portable provider may answer that an operation is
pending, and then nothing is cleaned up.

What is abstracted: folders have one level; `cleanup_failed_transfer` and `run_transfer` read the cancel flag
separately (so `Cancelled` may be reported though nothing was cleaned up, as in the code); a
portable job has the shape of a local one. Not modelled: symbolic links,
`create_dir_all` of missing parents, sparse progress reports, crashes.

`exhausted` is a ghost: `unique_destination` tries 9,998 numbered names and then returns the
base name, taken or not (`RunsOut`). The model has `MaxIndex` names; what holds only until they run out is
stated with `~exhausted`, and runs have enough names. It is set whenever the names run out, also when
the base name is not reserved but merely there: a Keep-both copy is then sent onto an existing entry.

### TransferScheduler

The window's state, variable for variable, and a worker per job cut down to what the window sees
of it: reserve a target, report progress, succeed, fail (denied or not), stop. The folder has
one name with `MaxIndex` variants, which is what undo and replacement need. An elevated helper is a process with a
reservation table of its own, so it and a normal transfer may choose one name; a copy then fails, but a move's `rename` replaces what is there
(`Succeed`). `overtaken` is a ghost: the transfers whose name somebody else has taken, or may take, after they chose it. The window handles
one message at a time; the code drains the channel in a loop, which is the same as handling one
message per step, since a later message might as well not have arrived yet.

Elevation runs the job again in a helper process whose result comes back as a message
(`ElevatedTransferFinished`) and whose progress is relayed on the same channel as the others.
Undo takes the action, works on a background thread, and puts the action back if it failed. An action of a
transfer is told apart from others by the transfer; one of the trash by `nth`, a ghost that counts the moves to the trash.

Not modelled: pausing (the engine has it), which pane owns a transfer, windows that open and
close, the expiry of the history, several sources per transfer, the elevated deletion.

### DirectoryWatcher

Six kinds of threads: the window (`set_visible_directories`), notify's callback
(`queue_directory_event`), the worker (`run_directory_watcher`), the reader
(`DirectoryChangeReceiver::recv`), and on Windows the ejecting threads (`pause_directory_watches` and the drop
of its guard), besides time. A step is one operation on a channel, an atomic or a mutex. So
the worker's loop is six steps: receive, load the version, lock the wanted directories, lock the
suspended ones and apply, handle, publish.

Time is in the batch: `quiet` becomes true when its quiet period (700 ms) has passed and false
when something is recorded; `old` becomes true when its maximal age (2 s) has passed. `closing`
holds the directories that are unwatched but whose handle notify has not closed yet: on Windows
`unwatch` only queues the removal, and the answer to `Synchronize` waits for it. `stale` is a ghost:
the entries of watched directories that changed and of which the reader has not been told.

An event tells of a set of entries of one directory or another that change at once (`Changes`): of one, of several that may be more than a batch
holds, or of none, which stands for any of the watched ones. The sets that the window shows, in which order, are `Views`.

Abstracted: directories are flat; when an event has more paths than fit, which of them were
inserted before the overflow does not matter, since they are cleared; an ejecting thread ejects one root, once.
Not modelled: the end of the worker when a channel is disconnected, which happens only at exit.

### ChangeFeed, and the watcher as one

Seen from the window the watcher is four variables: the watched directories, the entries that
changed since the window last heard of them (`stale`), the entries that some report on its way
will tell of (`untold`), and those the next report tells of. Entries change; reports are read; other
directories are watched, and what is told of those that are left may be dropped. Nothing else
may happen: `untold` only grows, except by a reading of what it tells or a directory that is left.
`DirectoryWatcher` has `Feed`, with `untold` made of every place where a change can be (signals, overflow
flag, batch, pending change, output), and `IsChangeFeed` says that each step of its six kinds of threads is
a step of the feed or none.

### DirectoryRefresh

The window is one record, `win`, and each handler an operator on it, in the order the code calls
them: `StartLoad` retains, cancels, tells the watcher which folders are visible, and starts; every message that
ends a load or a search calls `StartReady`. Tasks are in `win.tasks` with what they have read;
dropping a `DirectoryLoadToken` removes those that have not read yet, and the results of the
others still arrive and are told from current ones by request number and ticket, as in the code. A listing is
the version its folder had when it was read.

The watcher is a `ChangeFeed` whose entries are whole folders, with the two steps of its thread that
matter: it takes the wanted directories, and later applies them. So a folder may change between its listing
and its watch; `silent` is a ghost of such changes, which nobody tells, and `dropped` of refreshes that were lost.

Not modelled: several tabs in a pane, the network root, the trash, devices, folders that cannot be watched,
and the window that closes and is shown again (which neither reloads nor watches what its panes show).

### AtomicFile and CacheWriter

A save is one step per call: name, create, write, flush, rename, sync the folder, clean up. `visible`
is what programs see of a file; `stable` what may be found of it when the machine has stopped: after a
rename, until the folder is synced, both the old and the new content. After a power failure a
content that was not flushed may be a part of itself. A process may stop between any two calls, and its successor may have its number, and
so the names of its temporary files. `remove_file` of the clean-up may fail as any call; its failure is ignored, and the temporary file is `stuck`.

The cache writer has a slot for each of two caches and a channel for one wake-up. It takes both
slots and saves them; of the network it saves what is known by then, not what was scheduled. The window saves the session on
its own thread meanwhile. The save of the network cache that a discovery thread makes itself
(`fs/explorer.rs:998`) is serialized with these by a mutex and takes the same snapshot; it is left out.

### OperationHost

A process goes through `try_activate_in` (read the markers, ask each host, remove the markers of
those that do not answer) and then runs. Its window's messages are operators on its record, as in
DirectoryRefresh. The operations are three: a transfer, which is polled; a deletion, whose end
is a message; an analysis, which lasts until its window is closed. `Leaves` is the end of a handler: it publishes a host, or drops it,
which removes the marker and waits for the request that is being answered. Ghosts: `lost` has the paths that were acknowledged by a
host that ended before they were drained; `outlived` the processes whose host stays though nothing polls it.

Left out: the progress windows (a process without its main window may have them), mtime ties and
markers that cannot be parsed, Linux's check of a pending change of properties, and that a new main window opens later than it is asked for.

### FileOperations

A path holds nothing, a file, or a folder of files. Each job is a thread and a step is one call: a path that goes to the trash, an
item that is restored or purged, a check, a rename, a copy of any part of a folder, a removal, a file of
a listed folder, a creation, a renaming. Every job but an undo begins with `begin_file_operation`, which forgets the last undo. Any call may fail, which ends the job as the code does. Other programs write files, trash them and purge items at
any time. The trash and `std::fs` are external. An item of the trash has an identity (`id`) that is free again once it has left the trash: on Linux it
is the path of its `.trashinfo` file. So a selection that the user made, or a listing that a job made, may find another item under it. `nth` is a ghost that tells items apart for good. Ghosts: `asked` has the contents that somebody asked to delete, `overrun` those that came between a check or a
listing and the call that relies on it, or had the name that the user gave to another file or the identity of an item that was chosen to be purged; `replaced` has those that the undo of a move replaces at the
original place, which its documentation excludes; what an undo of a move
found at its targets when it checked them (`there`), or at a source that it then copied (`copied`), is not among them.

## The runs

Every bound is a constant of the module, with a comment that calls it a bound.

| run | states | what it shows |
|---|---|---|
| `engine_race` | 688,000 | Two jobs of one process want one name. Every kind and policy, the name free, a file or a folder at first; one source is a folder, the other a file; any call fails; one job can be cancelled. `ReservationsExclusive`, `NothingLost`, `CompletedRootsComplete`, `TypeOK`. |
| `engine_user` | 135,000 | A move of a folder while the user edits it twice, pauses, and cancels, and another program creates a file, next to a paste of a file onto itself. `UserContentKept`; `CancelEnds` under fairness. |
| `engine_portable_cleanup` | violation | the finding below |
| `scheduler` | 134,000 | Three transfers, two places, denials, cancellation, elevation. `QueueWaitsOnlyWhenFull`, `ActiveHasWorker`; `TransfersLeave` under fairness. |
| `undo` | 2,480,000 | Two transfers of any kind and policy with a progress report each, two undos, a move to the trash. `ProgressMatches`, `UndoHeldOnce`, `UndoRestores`, `TypeOK`. |
| `watcher_changes` | 1,740,000 | Two directories with an entry each are shown, then only one of them, whose entry changes for ever, alone or together with the other (which is one path too many). Channels of one place, at most one path per batch: every channel overflows, every batch does, and batches, pending changes and watches are cut down to the directory that stays. `ChangesAreKept`, `BlockedWorkerIsWoken`, `TypeOK`; `IsChangeFeed`, the refinement. |
| `watcher_fresh` | 193,000 | A shown directory whose files change for ever, one or two at a time (two overflow a batch), or in events that name none. `ChangesArrive` under fairness. |
| `watcher_pause` | 1,070,000 | Two ejections of one drive while the window shows other directories, one of which cannot be watched. `PauseReleasesHandles`; `WatchesFollow` under fairness. |
| `refresh` | 1,330,000 | Two folders, two panes, two acts of the user from three saved sessions (a folder beside the storage view on either side, with cached units and with none; no split), a change of each folder, a listing that fails. One folder is in both panes after a split or a navigation. `PaneShowsItsFolder`, `NeverOlder`, `StalePaneIsServed`, `RefreshIsWaitedFor`, `LoadingIsServed`, `TypeOK`. |
| `cache_writer` | 136,000 | A process with its window and its writer, two saves, two failing calls (so that a save and its clean-up can both fail), two crashes or power failures. `FilesAreWhole`, `TempsAreOwned`, `NewestIsSaved`; `ScheduledIsTaken` under fairness. |
| `operation_host` | 125,000 | Two launches, two operations of any kind, one process that is killed, one answer that is not waited for. `AcknowledgedIsHeld`, `MarkersLead`, `AttentionIsShown`, `ActivationsArePolled`, `WorkIsNotKilled`, `TypeOK`; `DetachedEnds` under fairness. |
| `file_operations` | 2,310,000 | Two paths, two threads, two jobs of any kind from a moved, a copied and a plain folder, two acts of other programs, one failing call, on one volume and across two. `NothingLost`, `UndoIsExact`, `TypeOK`. |

Why the bounds are enough:

- *Engine.* The jobs of a process meet in the reservation table and at the paths they write. A
  conflict needs two jobs and one name; a third adds waiting, not another kind of overlap. A folder
  with one file is what distinguishes children from their root, which is what ordering,
  `remove_dir` and partial removal depend on. Two edits give a version before and one after the copy of a source. Three variants of a name suffice for two jobs beside
  an existing entry.
- *Scheduler.* Two places and three transfers make one wait, which is the point of
  `QueueWaitsOnlyWhenFull`; the code's limit of 3 differs only in number. For undo two transfers
  and a trash operation give every order of two results and a request.
- *Watcher.* Capacities of 1 make every `try_send` fail that can fail (the code has 32 signals, 2 changes,
  2,048 paths, which reach the same branches later). A view that loses a directory and keeps another is what cuts batches,
  pending changes and watches down; the entry of the directory that stays tells whether a cut loses too much. A change of both at once
  puts both directories into one batch. Where watches come and go for ejections any set of directories may be shown, twice.

- *Refresh.* A result can be late by one navigation or one listing; two acts of the user and one change
  of each folder give a listing that is overtaken by a newer one, by another place, by the other pane and by a search. Two
  panes are all there are.
- *Cache writer.* Two saves make one wait behind the other; the failure and the stops may fall
  between any two calls, and the second stop may hit what the first has left.
- *Operation host.* Two operations overlap, so that one ends while the other keeps the
  process; each process can be host of the other.
- *File operations.* Two jobs and another program are what a race needs; a folder with two
  names has one that was listed and one that was not.

### Fairness

Liveness needs that threads run, and nothing more of the code than that: weak fairness of each
job's steps; of each worker, of the helpers' results and of the window's poll (a subscription
every 80 ms while a transfer is active); of the window's, notify's, the worker's, the reader's and an
ejecting thread's steps. A batch grows old because time passes (weak fairness of `AgePasses`),
but nothing says that it is ever quiet. The user never has to act: a paused job may stay paused,
which is why `CancelEnds` is the property about pausing, and a denied transfer may stay in its
dialog, which is why `TransfersLeave` speaks of the lists; an analysis may stay open, which `DetachedEnds` allows for. A process that runs
goes on (its writer, its windows' messages, its host's thread); nobody has to start one, and nobody has to close a window. A call on the file system is assumed to return. `DirectoryRefresh`
states no fairness: that a pane is up to date in the end is said by `StalePaneIsServed`, at every step.

## The properties

Type invariants apart, these are the ones worth reading first.

- `NothingLost` is about the set of versions that would survive a power failure, stagings not
  counted. No step of anybody may shrink it, except the step by which a job whose policy is
  Replace has put its whole copy, on disk, in the place of what it replaces, and the removal of a moved source that the user
  saved again after the last look at it (`local.rs:316`; `Overlooks`). No call of `std::fs` looks and removes
  at once, so the window is excepted by name; any version that was saved before the look is kept.
- `ChangesAreKept` says where each untold change is: in a signal, in the overflow flag or about to be, in
  the batch, in the pending change, in the output. `BlockedWorkerIsWoken` is about the
  same moments from the other side: the worker has no timer when it gathers nothing.
- `ActiveHasWorker` relates the window's list, the threads and the channel: a place has a running
  thread or one terminal message under way, never both, never neither.
- `UndoRestores` compares the folder after an undo with what it was when the transfer put its result there. It excepts a move that was overtaken (`Displaces`).
- `IsChangeFeed` makes the watcher's promise a specification, and `StalePaneIsServed` uses it: whoever shows an old
  folder is served by a change that is yet to be told, by a pending refresh, or by one that has not read too early. The two
  ghosts in it are what the code gives up (below).
- `AcknowledgedIsHeld` spans two processes: a launch ends on the word of another, which must have the path.
- `NothingLost` of the file operations is about all jobs and programs at once: a content is on
  disk, in the trash, or somebody asked for its deletion when it was there, but for the races that its comment lists.
- `NewestIsSaved` relates what was scheduled to what is on disk whenever the writer sleeps.

## Findings

`PROJECT.json` has the quotes. The run of the first ends in a violation; its property states what the documentation and a test say. The
others are disjuncts of properties that hold otherwise, each under a name of its own: without it TLC finds the violation.

1. A cancelled export from a device releases its reserved names before it deletes, by path, what it
   created (`transfer_queue.rs:729`, `:731`). A job that takes the name in between loses what it
   moved there. The local route has the two in the other order.
2. A Keep-both move renames onto the name it has chosen without looking again (`transfer_queue.rs:924`, `:925`), where the documentation promises a numbered name beside
   what is there. A normal move and an elevated helper have two reservation tables and may choose one name. `Displaces` of `UndoRestores`.
3. The undo of a move looks at the original places first and moves later (`operations.rs:606`, `:617`), and replaces what came in between, which its comment rules out.
   `replaced` of `NothingLost`.
4. A deletion to the trash tells its items from older ones by their identities before it (`operations.rs:456`, `:507`). One that gets the identity of an item that
   has just left the trash is taken for that one and cannot be undone, where the comment speaks of exactly this deletion. `undo.before` of `UndoIsExact`.

## What the models showed besides

Behaviours of the code that came up while it was modelled. Where a property meets one, it names it as an
exception and a ghost variable marks it; no run is kept for them.

*Transfers.* An error of `same_file` (`transfer_queue.rs:645`) leaves its name reserved until the program
ends, and later replacements of that name become numbered copies. The `rename` of a move also
replaces a file that another program created under the reserved name in the meantime (`:925`). When two transfers are denied,
the second takes the place of the first in the only dialog (`file_actions.rs:631`), and the first is
not recorded anywhere. A transfer that was running when another was queued sets the undo when it
finishes (`file_actions.rs:582`), so the undo may not be of the most recent operation.

*Panes.* A change between the listing of a folder and its watch, which another thread installs, is never told
(`navigation.rs:132`). A refresh whose listing fails is not tried again (`:430`). A refresh that waits for a pane is forgotten when that pane leaves for the
storage view or the split is closed. A load of the second pane that outlives the split, beside the storage view, is taken for the
storage units: they become the folder's entries, and the saved cache loses its drives (`update.rs:67`, `:138`); a pane that comes to the storage view later is shown them
until the units are listed again.

*Files.* A process that gets the number of one that crashed may find its temporary name taken: that save
fails, and the clean-up removes the old file (`atomic_file.rs:18`, `:31`). A clean-up that fails as well leaves the temporary file of a process that runs, and nothing removes it later.

*Operation host.* A host that was published while the window was open is retired by `PollTransfers` alone (`update.rs:4252`); if its last operation ends without a
poll (an analysis, a deletion) it stays, and later launches are acknowledged and not opened until something polls. Paths that a host receives while its main window
closes, or while it is dropped, are lost with it. A launch that does not wait for a slow host removes its
marker for good. An undo that runs is not among the operations that keep a process alive (`mod.rs:1813`).

*File operations.* A rename replaces a file that has the new name, without a question (`operations.rs:767`), where the one of the properties dialog refuses to
(`properties.rs:1425`); a new text document cuts a file that came after its name was chosen (`:801`). The removal after a copy takes additions with it (`:843`). A deletion to the trash that fails half way loses the undo of what it has trashed
(`:481`). A failed undo is offered again though a part of it is done (`update.rs:1500`). If the trash cannot be listed before a deletion, the undo
covers older items of the same paths (`:456`). What the user has chosen in a listing of the trash is found by its identity (`trash.rs:208`), which another item may have
got meanwhile; that one is then restored or purged.

## The proofs
The theorems hold for every value of the constants that satisfies the module's assumptions (each module has one
that is named after it, and where it needs to it says that "none" is no value): any number of transfers, processes,
places and names, of directories, volumes and ejecting threads, of files and savers, of paths and jobs. They are types of constants, but for these:
a job reads from no hidden sibling of another (`Inputs \cap Temps = {}`), a disk starts with contents that are numbered without a gap
(`StartsAssumption`), and ejecting threads and paths are finitely many, to count them.

**Engine** (`TransferEngine_proofs`). `TypeCorrect` is `Spec => []TypeOK`. `TypeOK` alone is not
inductive: nothing in it says that the node a job is at, or the name its target stands for, is one
the step's guard has established. `TypeInv` adds `Located`, which ties the program counter to the
local state, and each step is proved with one lemma per group of actions.
`ReservationsAreExclusive` is `Spec => []ReservationsExclusive`. Its invariant `ExclusiveInv` says
why: what a job claims (`Claims`: the names it holds, and the target it has just reserved while it
tests whether source and target are the same) is in its process's registry (`Claimed`), and two
jobs of one process claim different names (`Apart`); so a name that is not in the registry is
nobody's, and a release takes away nobody else's.
The exclusion is lost only once `reserve_destination` has used up its variants and returns a name
that is taken, so both the property and the invariant stop at `exhausted`.

**Content** (`TransferContent_proofs`). `UserContentIsKept` is `Spec => UserContentKept`, `NothingIsLost` is `Spec => NothingLost` when
no other program writes into the destination, and `RootsAreComplete` is `Spec => CompletedRootsComplete` when no job reads from the folder it writes to.
All three are action properties and assume that the jobs are `Separate`: they run in one process, none
reads from a device, and no move takes something out of the destination folder. Each of the three is needed, and TLC has a trace for each where it is dropped: two processes
have two reservation tables, and `rename` onto a name that both were given replaces what the first moved there; the portable route is
the finding above; and between the check of a moved source and its removal (`local.rs`) another job may replace that source by what it
has just moved, which is then removed. Copies out of the destination folder, and several jobs with one source, are covered.

They are about versions, so the copy of a source is compared with what was read (`snap`) and what is removed with what was looked at last. `UnlinkSource` has two cases:
the source is as it was at the last look, and then what goes has been copied; or it has been saved since, which is `Overlooks`.

The invariant `KeepInv` has a part for the files and one per job, and the proof is a frame argument. A job changes only what it holds, its own hidden siblings, and inputs, where it only
removes (`Frame`); so `OtherJob` shows once that no step of one job disturbs the invariant of another, from `ReservationsAreExclusive`.
What remains is a lemma for each of the 26 actions about the job itself (`Keeps`), and one (`Touches`) for the user and other programs. `JobInv` says:
`CopyInv`, that the copy is where it should be: only the open file is being written and all is on disk once synced (`Settled`, `Opened`), what has been copied from the source of a move is there under its own origin (`Traced`, which
is why `UnlinkSource` loses nothing), and what is not there yet is still to be copied (`Covered`, which is why roots are complete);
`RoomInv`, that a rename onto the target finds nothing, or a stranger's file; `BackupInv`, that the backup's name is free before it is used; `CreatedInv`, that what a
cancelled job may remove by path has never been on disk, so it never was the last copy; and `Shape`, how a job's variables hang together. `FilesInv` says that a
file has no children and that an input outside of the destination has its own content.

The attempt at this proof found that the ghost `exhausted` was wrong: it was set only when the name that is given out was reserved, and a Keep-both copy that runs out of names onto an existing entry was
taken for an ordinary one. `RunsOut` says now when `unique_destination` has no name left.

**Scheduler** (`TransferScheduler_proofs`). `QueueIsServed` is `Spec => []QueueWaitsOnlyWhenFull`
and `NeverStartedTwice` is `Spec => []QueuedOnce`. The property by itself is not inductive: taking
the first entries of the queue fills as many places as it takes entries only if the entries are
different from one another and from the active transfers, and a new request keeps that only because
its id is new. So `QueueInv` has `Lists` (the queue has no repetitions, is disjoint from the active
transfers, and both hold ids up to `next_transfer_id`) beside `Served`. The argument:
`StartNextServes` shows that `start_next_transfers` establishes `Served` from any `Lists`
(`MoveFront` counts what moves); `AppendNew`, `PlaceGivenBack` and `WithoutServes` show that a
request, the end of a transfer and a cancellation leave `Lists`; every other action leaves the lists
alone. `QueueInv` needs no typing of the rest of the state.

**Workers and undo** (the same module). `TypeCorrect`, `PlacesGivenBack` (`[]ActiveHasWorker`) and
`UndosHeldOnce` (`[]UndoHeldOnce`). `ActiveHasWorker` says nothing of elevated transfers and does not survive the
confirmation of an offer by itself: the offered transfer may get a thread only because it has none and no message is left
of its first run. So `WorkInv` has `Told` for every id (an active one has a thread at work and no terminal message or
the other way round; any other has no message, and a thread only if it is elevated), `Apart` (the lists, the offer included, are
disjoint), and that everything in them was asked for. `TakeTells` and `SendTells` count the terminal messages of a channel
when one is taken or sent; `StartWorks` is the step every handler ends with. The undo rests on `Settled`: a transfer whose action
is held is in no list any more (`Narrows`: nothing comes back), and an action of the trash has a number below the one at work, so a
new action is never one that is held already.

**Progress and restoring** (the same module). `ProgressIsShown` is `Spec => []ProgressMatches`. An entry of `transfer_progress` is created by the request and by every report, so
what must not happen is a report that comes after the end. `ShownInv` says that a transfer with an end in the history is in no list, has no entry and no message on its way (`Past`, `Heard`), because
the terminal message of a transfer is its last in the channel (`LastWord`) and what ends without one (a denied transfer that is declined) has none there.
`UndosRestore` is `Spec => UndoRestores`, an action property: `RestoreInv` says that an action in the window or in a thread is of a transfer that kept both (`KeepsBoth`), and that such a transfer found nothing
at its target (`OverNothing`), so removing it leaves what was there, or has been overtaken. Why it found nothing is in the reservations: of two threads of one process that put something under one name one counts
as overtaken (`OneEach`), and a name that is chosen stays free or its thread does (`Untaken`).

**Watcher** (`DirectoryWatcher_proofs`). `PausesHold` is `Spec => []PauseReleasesHandles`. The success
of a pause is seen by the ejecting thread, and what it promises is in the worker's hands, so the
invariant follows the pause from one to the other. `Counted` says that a root is suspended as often
as guards for it are alive; with it a synchronisation never watches below a held volume, whichever
version it applies (`ApplyStep`). `Safe` says that a thread that has raised the version finds the worker
clean or behind it, so the worker synchronises before it handles the request (`LoadStep`); that
the worker is clean when it handles the request, and closes its handles before the reply
(`HandleStep`); and that no request is under way before it is sent, without which a thread could be
answered for a request it has not made. The threads are assumed to be finitely many, to count them.

**Change feed** (the second part of `DirectoryWatcher_proofs`). `ChangesKept` is `Spec => []ChangesAreKept` and `ImplementsFeed` is
`Spec => IsChangeFeed`, the refinement. The two rest on one invariant, `FeedInv`: the types, `ChangesAreKept` itself,
and `Handled` (between its loops the worker has no signal in its hands, so none is lost when it receives the next), beside the invariant
of the pauses. The argument goes action by action: a batch is cut down only to the watched directories, one that
overflows tells of all of its directories, and a pending change is merged with the next and not replaced. Nearly every step `Keeps` what
is watched and only adds to what will be told, which is a step of the feed (`KeepsIsChange`); those that remain are the change of an entry, the
reading of a report and the application of another set of directories, each of which is an action of the feed.
`WorkerIsWoken` is `Spec => []BlockedWorkerIsWoken`: `WakeInv` says for the overflow flag, the pending change and the version that each is
`Due` when the worker may block, a signal in its channel or in somebody's hands. `SentIsThere` is the core of it: a `try_send` that fails has found a
signal in the channel.

**Directory refresh** (`DirectoryRefresh_proofs`). `InOrder` is `Spec => []RefreshInv`; from it follow `TypeCorrect`, `PanesShowTheirFolder` (`[]PaneShowsItsFolder`),
`StalePanesAreServed` (`[]StalePaneIsServed`), `RefreshesAreWaitedFor` (`[]RefreshIsWaitedFor`), `LoadsAreServed` (`[]LoadingIsServed`) and, as an action property,
`ListingsGrowNewer` (`Spec => NeverOlder`). None of these is inductive alone: whether a late result may be shown depends on who else asks for the pane. `PaneInv` says of a window that
request numbers and tickets are handed out once (`Numbered`), that one task at most asks for a pane by its present number and one refresh at most has a ticket of a folder (`Sole`); that what a visible pane waits for is
of the folder it is at, and that a pane loads just as long as its load is under way (`Awaits`); that no listing is of a version yet to come (`Dated`) and none under way is older than what its pane shows
(`Ordered`); and that a listing, shown or under way, that is too old is made up for by a refresh that is pending or has not read too early (`Fresh`), or its folder is among those `Known` to be untold, silent or dropped.
A handler is a chain of operators on the window, and the proof follows the chain: each operator has a lemma that says what it leaves (`Thins` for what cancels or queues refreshes, `Starting`, `GivesUp`, `Asking`, `StopsLoading`, `Turned`) and one
that says that it keeps `PaneInv`, except for a pane that is about to load; each of the fifteen actions then is a few lines, with `ActKeeps` and `WindowStep` for what the ghosts account for.
The attempt found `NeverOlder` false at the storage view, with three acts of the user: a pane that returns there is given a folder's listing that was taken for the storage units (below), which may be older than what it
showed of that folder. The property now is about panes that are at a folder.

**Cache writer** (`CacheWriter_proofs`). `TypeCorrect`, `SavedFilesAreWhole` (`[]FilesAreWhole`) and `TempsAreCleaned`
(`[]TempsAreOwned`). A temporary file that is neither of a save under way nor of a process that has stopped is `stuck`: the save failed and so did its clean-up. A file is whole because what is renamed over it was written and flushed by the save that renames it. That needs the
temporary file to be the save's own all the time: `OneName` (no two files have one name), `OwnNames` (two saves of a process have
different sequence numbers) and `Sound` (the number of a save is below its process's counter, and its file is as far as the save). A
process may have the number of one that crashed and find its file; `create_new` is what keeps the two apart.
`NewestComesLast` is `Spec => []NewestIsSaved`. Its invariant follows a value through the writer (`Carried`): the newest value of a cache is in its slot, or else in the batch that was taken,
or else in the save under way, or else in place, in this order. `NewestOf` adds who wakes the writer: a filled slot has a token in the channel, or a
window about to send one, or a writer about to take. Of the network the order is weaker, since its save writes what is known by then.

**Operation host** (`OperationHost_proofs`). One invariant, `HostInv`, gives `TypeCorrect`, `MarkersAreTrue`, `PathsAreHeld`, `DialogsAreShown`, `HostsArePolled` and, as an action property, `NoWorkIsKilled`. `LeadInv` is `MarkersLead`
for processes that are yet to run too; `HeldInv` says that a path is with its launch until somebody has it, and that who has it either
opens it, keeps it in the queue of the host, or lost it when it ended (the ghost `lost`); `PollInv` that a host is polled from its first moment and that whoever has no window is detached. Each handler of a window is an operator on its record, and
`Spared` is shown for each.

**File operations** (`FileOperations_proofs`). `TypeCorrect`, `ContentsAreKept` (`[]NothingLost`) and `UndosAreExact` (`[]UndoIsExact`). The hard case is the undo of a move across volumes, which copies and then removes: what it removes is accounted for because it has been
copied, and it must stay so while other jobs delete. `Twice` says that a content is in two places, and every step `KeepsTwice`: it leaves two places, or it was asked for, or overran it. It needs `OneMove`: there is one undo, so one move at most is taken back at a time, and two of them could each take
the other's copy. `Knows` and `TrashesOwn` are the exactness of the undo of a deletion: its items are younger than whatever was listed before it, and of its own paths. Both speak of an item
by its number (`nth`), and of its identity only where the code compares identities.
The attempt found that the ghost `overrun` did not tell what an undo had copied itself from what came later to its source; `copied` does.

## What is only model-checked

- Liveness (`CancelEnds`, `TransfersLeave`, `ChangesArrive`, `WatchesFollow`, `ScheduledIsTaken`, `DetachedEnds`): TLAPS has no rules here for fairness and `ENABLED`.
- The engine's properties of content where jobs are not `Separate`: two processes, devices, moves out of the destination folder. They do not hold there.

## Not modelled

- *Portable devices*: MTP and its providers are external; what an export does to the local folder is in the engine.
- *Archives, search, duplicates, thumbnails, properties*: formats, decoders and scans; their jobs have the shape of a transfer (start, progress, cancel, end)
  or of a listing (request number, late result), and what goes wrong between threads is modelled there.
- *Network discovery*: the single-flight queries and their revisions; `CacheWriter` has the growing set of what is known.
- *Shell integration, storage monitors, views*: calls to the desktop and rendering, without state that a later step depends on. Rendering and dialogs
  are more than half of the lines of the program.

## The plan

1. *Transfer engine*: a crash of the machine, with a property about where the original is.
2. *An abstract transfer* (it is queued, works, and ends in one outcome, changing at most its own targets), which `TransferEngine` implements and
   `TransferScheduler` uses as its worker.
3. *Portable quarantine*, *archive jobs*, *network single-flight*, in this order.

The suite is kept to a dozen runs.
