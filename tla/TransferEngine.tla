--------------------------- MODULE TransferEngine ---------------------------
(***************************************************************************)
(* The transfer engine of BExplorer: src/fs/transfer_queue.rs and          *)
(* src/fs/transfer_queue/local.rs.  Several jobs, each on a thread of its  *)
(* own, copy or move their sources into one destination folder.  Every     *)
(* step of a job is one call on the file system or one critical section of *)
(* the reservation table, so all the interleavings of the threads, of the  *)
(* user (pause, cancel, editing a source) and of other programs are here.  *)
(*                                                                         *)
(* The file system is cut down to what the properties tell apart.  A place *)
(* is a top-level entry: an input (a path a job reads from), a slot of the *)
(* destination folder (<<b, 1>> is the name b itself, <<b, i>> its         *)
(* numbered variant "b (i)"), or a hidden staging or backup sibling.  An   *)
(* entry is a file or a folder of files; its nodes are Root and the Kids.  *)
(***************************************************************************)
EXTENDS Integers, FiniteSets

CONSTANTS
  Jobs,         \* the transfer jobs started by the scheduler
  Portable,     \* those that read from a portable device (run_portable_transfer)
  Procs,        \* the processes that run jobs: BExplorer and elevated helpers
  ProcOf,       \* the process each job runs in
  Inputs,       \* the places the jobs read from
  Sources,      \* the inputs of each job
  NameOf,       \* the file name of each input
  Bases,        \* the file names that occur
  MaxIndex,     \* unique_destination tries the variants 1..MaxIndex of a name
  Root, Kids,   \* the nodes of an entry: its root and, in a folder, its files
  Shapes,       \* the initial shapes of each input and slot
  Kinds,        \* the TransferKinds each job draws from
  Policies,     \* the ConflictPolicies each job draws from
  Cancellable,  \* bound: the jobs the user may cancel
  Pausable,     \* bound: the jobs the user may pause
  MaxEdits,     \* bound: edits the user makes to the inputs
  MaxStrangers, \* bound: files other programs create in the destination
  Nobody,       \* the writer of a file nobody is writing
  None          \* no node, no place

Nodes  == {Root} \cup Kids
Slots  == Bases \X (1..MaxIndex)
Temps  == Jobs \X Inputs \X {"staging", "backup"}
Places == Inputs \cup Slots \cup Temps

\* Which file a piece of content is a version of: one that was there at first, one that
\* the user has added, or a stranger.
Stranger == <<"stranger">>
Origins  == (Places \X Nodes) \cup (Inputs \X Nodes \X Nat) \cup {Stranger}

\* A directory entry.  `of` and `ver` stand for the content: a version of the file `of`
\* with the edits `ver`.  `part` is the job that still has to complete the file, `safe`
\* says the content is on disk.
Node == [dir: BOOLEAN, of: Origins, ver: SUBSET Nat, part: Jobs \cup {Nobody}, safe: BOOLEAN]
Tree == [Nodes -> Node \cup {None}]

ASSUME TransferAssumption ==
  /\ Portable \subseteq Jobs
  /\ ProcOf \in [Jobs -> Procs]
  /\ Sources \in [Jobs -> SUBSET Inputs]
  /\ NameOf \in [Inputs -> Bases]
  /\ MaxIndex \in Nat \ {0} /\ MaxEdits \in Nat /\ MaxStrangers \in Nat
  /\ Cancellable \subseteq Jobs /\ Pausable \subseteq Jobs
  /\ Root \notin Kids
  /\ Shapes \in [Inputs \cup Slots -> SUBSET {"absent", "file", "dir", "bare"}]
  /\ Kinds \in [Jobs -> SUBSET {"Copy", "Move"}]
  /\ Policies \in [Jobs -> SUBSET {"Replace", "Skip", "KeepBoth"}]
  /\ Nobody \notin Jobs
  /\ None \notin Node /\ None \notin Places /\ None \notin Nodes
  /\ Inputs \cap Temps = {}

VARIABLES
  fs,        \* the file system: the tree at each place
  reserved,  \* RESERVED_TARGETS of each process
  job,       \* the kind and conflict policy of each job (never changes)
  cancel,    \* TransferControl.cancel
  pause,     \* TransferControl.pause
  pc,        \* where each job stands
  rt,        \* each job's TransferRuntime and locals
  edits,     \* how often the user has edited an input
  strangers, \* how many files other programs have created
  exhausted  \* has unique_destination ever run out of names?

vars == <<fs, reserved, job, cancel, pause, pc, rt, edits, strangers, exhausted>>
envVars == <<job, cancel, pause, edits, strangers>>

Labels == {"prepare", "next", "reserve", "same", "rename", "copy", "write", "sync",
           "commit", "install", "rollback", "dropbackup", "verify", "unlink",
           "complete", "unstage", "cleanup", "sweep", "release", "report"}
Outcomes == {"Finished", "Cancelled", "Failed"}

Snapshot == [place: Inputs, node: Nodes, was: Node \cup {None}]
Runtime ==
  [left: SUBSET Inputs,                  \* job.sources still to process
   src: Inputs \cup {None},              \* the current source
   target: Slots \cup {None},            \* its reserved target
   into: Places \cup {None},             \* where it is copied: target or staging
   todo: SUBSET Nodes,                   \* nodes left to copy or to remove
   node: Nodes \cup {None},              \* the node at hand
   snap: Node \cup {None},               \* its SourceSnapshot
   created: SUBSET (Places \X Nodes),    \* created_targets
   held: SUBSET Slots,                   \* reserved_targets
   copied: SUBSET Snapshot,              \* copied_sources
   roots: SUBSET (Inputs \X Slots),      \* completed_roots
   err: {"none", "error", "pending"}]    \* the Result under way

TypeOK ==
  /\ fs \in [Places -> Tree]
  /\ reserved \in [Procs -> SUBSET Slots]
  /\ job \in [Jobs -> [kind: {"Copy", "Move"}, policy: {"Replace", "Skip", "KeepBoth"}]]
  /\ cancel \in [Jobs -> BOOLEAN]
  /\ pause \in [Jobs -> BOOLEAN]
  /\ pc \in [Jobs -> Labels \cup Outcomes]
  /\ rt \in [Jobs -> Runtime]
  /\ edits \in 0..MaxEdits
  /\ strangers \in 0..MaxStrangers
  /\ exhausted \in BOOLEAN

-----------------------------------------------------------------------------
(* The file system.                                                        *)

Absent == [n \in Nodes |-> None]
File(p, n) == [dir |-> FALSE, of |-> <<p, n>>, ver |-> {}, part |-> Nobody, safe |-> TRUE]
Folder(p)  == [dir |-> TRUE,  of |-> <<p, Root>>, ver |-> {}, part |-> Nobody, safe |-> TRUE]

Shaped(p, shape) ==
  CASE shape = "absent" -> Absent
    [] shape = "file"   -> [Absent EXCEPT ![Root] = File(p, Root)]
    [] shape = "bare"   -> [Absent EXCEPT ![Root] = Folder(p)]
    [] shape = "dir"    -> [n \in Nodes |-> IF n = Root THEN Folder(p) ELSE File(p, n)]

Exists(p) == fs[p][Root] # None
IsFile(p) == Exists(p) /\ ~fs[p][Root].dir
KidsAt(p) == {n \in Kids : fs[p][n] # None}

\* rename(p, q): the tree moves, and whatever was at q is gone.
Renamed(p, q) == [fs EXCEPT ![q] = fs[p], ![p] = Absent]
\* POSIX and MoveFileEx let a file replace a file; a folder needs a free name.
CanRename(p, q) == Exists(p) /\ (~Exists(q) \/ (IsFile(p) /\ IsFile(q)))

\* Mutant of Staging: the staging sibling is named after the target.
StagingByTarget(j) == <<j, rt[j].target, "staging">>

Staging(j) == <<j, rt[j].src, "staging">>
Backup(j)  == <<j, rt[j].src, "backup">>
Staged(j)  == rt[j].into = Staging(j)

\* TransferRuntime::new.
Idle == [left |-> {}, src |-> None, target |-> None, into |-> None, todo |-> {},
         node |-> None, snap |-> None, created |-> {}, held |-> {}, copied |-> {},
         roots |-> {}, err |-> "none"]

Init ==
  /\ \E shape \in [Inputs \cup Slots -> {"absent", "file", "dir", "bare"}] :
       /\ \A p \in Inputs \cup Slots : shape[p] \in Shapes[p]
       /\ fs = [p \in Places |-> IF p \in Temps THEN Absent ELSE Shaped(p, shape[p])]
  /\ reserved = [q \in Procs |-> {}]
  /\ job \in [Jobs -> [kind: {"Copy", "Move"}, policy: {"Replace", "Skip", "KeepBoth"}]]
  /\ \A j \in Jobs : job[j].kind \in Kinds[j] /\ job[j].policy \in Policies[j]
  /\ cancel = [j \in Jobs |-> FALSE]
  /\ pause = [j \in Jobs |-> FALSE]
  /\ pc = [j \in Jobs |-> "prepare"]
  /\ rt = [j \in Jobs |-> [Idle EXCEPT !.left = Sources[j]]]
  /\ edits = 0 /\ strangers = 0 /\ exhausted = FALSE

-----------------------------------------------------------------------------
(* Control flow shared by the steps.                                       *)

Goto(j, label) == pc' = [pc EXCEPT ![j] = label]
Update(j, r)   == rt' = [rt EXCEPT ![j] = r]

\* check_cancelled followed by wait_if_paused.
Go(j) == ~cancel[j] /\ ~pause[j]

\* run_transfer_inner cleans up and then releases its reservations;
\* run_portable_transfer releases them and then cleans up.
Exit(j)         == IF j \in Portable THEN "release" ELSE "cleanup"
AfterCleanup(j) == IF j \in Portable THEN "report" ELSE "release"
AfterRelease(j) == IF j \in Portable THEN "cleanup" ELSE "report"

\* An error leaves the loop over the sources, through cleanup_failed_staging
\* when a staged replacement was under way.
Fail(j, e) ==
  /\ Goto(j, IF Staged(j) THEN "unstage" ELSE Exit(j))
  /\ Update(j, [rt[j] EXCEPT !.err = e])
  /\ UNCHANGED <<fs, reserved, exhausted, envVars>>

\* Mutant of Abort: the pause loop does not look at the cancel flag.
AbortUnpaused(j) ==
  /\ pc[j] \in {"prepare", "next", "rename", "copy", "write", "verify"}
  /\ pc[j] = "next" => rt[j].left # {}
  /\ cancel[j] /\ ~pause[j]
  /\ Fail(j, "error")

\* A checkpoint finds the cancel flag set.
Abort(j) ==
  /\ pc[j] \in {"prepare", "next", "rename", "copy", "write", "verify"}
  /\ pc[j] = "next" => rt[j].left # {}
  /\ cancel[j]
  /\ Fail(j, "error")

\* Any of these calls can fail.  A provider of a portable device may also
\* answer OperationPending: the operation may continue behind our back.
Fault(j) ==
  /\ \/ pc[j] \in {"prepare", "next", "copy", "write", "sync", "commit", "verify", "unlink"}
     \/ pc[j] = "same" /\ j \notin Portable
  /\ pc[j] = "next" => rt[j].left # {}
  /\ \E e \in IF j \in Portable THEN {"error", "pending"} ELSE {"error"} : Fail(j, e)

-----------------------------------------------------------------------------
(* run_transfer_inner: one iteration per source.                           *)

Prepare(j) ==
  /\ pc[j] = "prepare"
  /\ ~cancel[j]
  /\ Goto(j, "next")
  /\ UNCHANGED <<fs, reserved, rt, exhausted, envVars>>

\* A source that has disappeared since the job was queued is passed over.
NextSource(j) ==
  /\ pc[j] = "next"
  /\ Go(j)
  /\ \E s \in rt[j].left :
       /\ Update(j, [rt[j] EXCEPT !.left = @ \ {s}, !.src = s, !.into = None])
       /\ Goto(j, IF Exists(s) THEN "reserve" ELSE "next")
  /\ UNCHANGED <<fs, reserved, exhausted, envVars>>

EndOfSources(j) ==
  /\ pc[j] = "next"
  /\ rt[j].left = {}
  /\ Goto(j, Exit(j))
  /\ UNCHANGED <<fs, reserved, rt, exhausted, envVars>>

FreeIndexes(b, r) == {i \in 1..MaxIndex : ~Exists(<<b, i>>) /\ <<b, i>> \notin r}

\* Mutant of UniqueDestination: looks at the folder but not at the reservations.
UniqueUnreserved(b, r) ==
  {<<b, i>> : i \in {k \in FreeIndexes(b, {}) : \A l \in FreeIndexes(b, {}) : k <= l}}

\* The first free variant of the name, or the name itself when there is none.
UniqueDestination(b, r) ==
  IF FreeIndexes(b, r) = {}
  THEN {<<b, 1>>}
  ELSE {<<b, i>> : i \in {k \in FreeIndexes(b, r) : \A l \in FreeIndexes(b, r) : k <= l}}

\* resolve_conflict_with_reservations: at most one target; none means skip.
ResolveConflict(policy, b, r) ==
  CASE policy = "Replace"  -> IF <<b, 1>> \in r THEN UniqueDestination(b, r) ELSE {<<b, 1>>}
    [] policy = "Skip"     -> IF Exists(<<b, 1>>) \/ <<b, 1>> \in r THEN {} ELSE {<<b, 1>>}
    [] policy = "KeepBoth" -> UniqueDestination(b, r)

\* unique_destination is asked for a variant and there is none.
RunsOut(policy, b, r) ==
  /\ policy = "KeepBoth" \/ (policy = "Replace" /\ <<b, 1>> \in r)
  /\ FreeIndexes(b, r) = {}

\* reserve_destination, under the lock of the process's reservation table.
ReserveDestination(j) ==
  /\ pc[j] = "reserve"
  /\ LET b == NameOf[rt[j].src]
         r == reserved[ProcOf[j]]
         targets == ResolveConflict(job[j].policy, b, r)
     IN \/ /\ targets = {}
           /\ Goto(j, "next")
           /\ UNCHANGED <<reserved, rt, exhausted>>
        \/ \E t \in targets :
             /\ reserved' = [reserved EXCEPT ![ProcOf[j]] = @ \cup {t}]
             /\ exhausted' = (exhausted \/ RunsOut(job[j].policy, b, r))
             /\ Update(j, [rt[j] EXCEPT !.target = t])
             /\ Goto(j, "same")
  /\ UNCHANGED <<fs, envVars>>

\* The target is the source itself: skip it and give the reservation back.
SkipSameFile(j) ==
  /\ pc[j] = "same"
  /\ j \notin Portable
  /\ rt[j].target = rt[j].src
  /\ reserved' = [reserved EXCEPT ![ProcOf[j]] = @ \ {rt[j].target}]
  /\ Goto(j, "next")
  /\ UNCHANGED <<fs, rt, exhausted, envVars>>

\* track_reserved, and the choice between a staged replacement, a move and a copy.
ChooseRoute(j) ==
  /\ pc[j] = "same"
  /\ j \notin Portable => rt[j].target # rt[j].src
  /\ LET t == rt[j].target
         replacing == job[j].policy = "Replace" /\ Exists(t)
     IN /\ Goto(j, IF job[j].kind = "Move" /\ ~replacing /\ j \notin Portable
                   THEN "rename" ELSE "copy")
        /\ Update(j, [rt[j] EXCEPT !.held = @ \cup {t}, !.todo = {Root},
                                   !.into = IF replacing THEN Staging(j) ELSE t])
  /\ UNCHANGED <<fs, reserved, exhausted, envVars>>

\* move_path: a plain rename when it works, else copy, sync and remove.
Rename(j) ==
  /\ pc[j] = "rename"
  /\ Go(j)
  /\ \/ /\ ~(job[j].policy = "Replace" /\ Exists(rt[j].target))
        /\ CanRename(rt[j].src, rt[j].target)
        /\ fs' = Renamed(rt[j].src, rt[j].target)
        /\ Goto(j, "complete")
     \/ /\ Goto(j, "copy")
        /\ UNCHANGED fs
  /\ UNCHANGED <<reserved, rt, exhausted, envVars>>

-----------------------------------------------------------------------------
(* copy_path.                                                              *)

\* After the last node: cross-device moves and replacements are synced first.
Copied(j) == IF job[j].kind = "Move" \/ Staged(j) THEN "sync" ELSE "complete"
\* Mutant of AfterNode: a folder counts as copied once it is created.
AfterFirstNode(j, rest) == Copied(j)

AfterNode(j, rest) == IF rest = {} THEN Copied(j) ELSE "copy"

Snapshots(j, n) ==
  IF job[j].kind = "Move" THEN {[place |-> rt[j].src, node |-> n, was |-> fs[rt[j].src][n]]} ELSE {}

\* create_dir, which fails when the name is taken, then read_dir.
CopyFolder(j) ==
  /\ pc[j] = "copy"
  /\ Go(j)
  /\ Root \in rt[j].todo
  /\ LET s == rt[j].src  d == rt[j].into IN
       /\ Exists(s) /\ fs[s][Root].dir
       /\ ~Exists(d)
       /\ fs' = [fs EXCEPT ![d] = [Absent EXCEPT ![Root] = [fs[s][Root] EXCEPT !.safe = FALSE]]]
       /\ Update(j, [rt[j] EXCEPT !.todo = KidsAt(s),
                                  !.created = @ \cup {<<d, Root>>},
                                  !.copied = @ \cup Snapshots(j, Root)])
       /\ Goto(j, AfterNode(j, KidsAt(s)))
  /\ UNCHANGED <<reserved, exhausted, envVars>>

\* Open the source, create_new the target and track it.
CreateFile(j) ==
  /\ pc[j] = "copy"
  /\ Go(j)
  /\ \E n \in rt[j].todo :
       LET s == rt[j].src  d == rt[j].into IN
       /\ fs[s][n] # None
       /\ ~fs[s][n].dir
       /\ fs[d][n] = None
       /\ n \in Kids => (Exists(d) /\ fs[d][Root].dir)
       /\ fs' = [fs EXCEPT ![d][n] = [fs[s][n] EXCEPT !.part = j, !.safe = FALSE]]
       /\ Update(j, [rt[j] EXCEPT !.node = n, !.snap = fs[s][n],
                                  !.created = @ \cup {<<d, n>>}])
  /\ Goto(j, "write")
  /\ UNCHANGED <<reserved, exhausted, envVars>>

\* The open file is still the one at the target path.
StillOpen(j, d, n) == fs[d][n] # None /\ fs[d][n].part = j

\* Copy the content, then compare the source with its snapshot.
WriteFile(j) ==
  /\ pc[j] = "write"
  /\ Go(j)
  /\ LET s == rt[j].src  d == rt[j].into  n == rt[j].node  rest == rt[j].todo \ {n} IN
       /\ fs[s][n] = rt[j].snap
       /\ fs' = IF StillOpen(j, d, n) THEN [fs EXCEPT ![d][n].part = Nobody] ELSE fs
       /\ Update(j, [rt[j] EXCEPT !.todo = rest, !.node = None, !.snap = None,
                                  !.copied = @ \cup Snapshots(j, n)])
       /\ Goto(j, AfterNode(j, rest))
  /\ UNCHANGED <<reserved, exhausted, envVars>>

\* Mutant of Synced: the copy is not flushed before the source goes.
Unsynced(p) == fs[p]

Synced(p) == [n \in Nodes |-> IF fs[p][n] = None THEN None ELSE [fs[p][n] EXCEPT !.safe = TRUE]]

\* protect_destination: a later cancellation must not clean these up.
Unprotected(j, t) == {c \in rt[j].created : c[1] # t}

\* The copied nodes of the current source, which a move now removes.
Removable(j) == {x.node : x \in {y \in rt[j].copied : y.place = rt[j].src}}

\* From a committed copy on: the source of a move is removed, a copy is complete.
Committed(j) ==
  IF job[j].kind = "Move"
  THEN [rt[j] EXCEPT !.created = Unprotected(j, rt[j].target), !.todo = Removable(j),
                     !.into = rt[j].target]
  ELSE [rt[j] EXCEPT !.into = rt[j].target]
AfterCommit(j) == IF job[j].kind = "Move" THEN "verify" ELSE "complete"

\* sync_copied_path.
Sync(j) ==
  /\ pc[j] = "sync"
  /\ Exists(rt[j].into)
  /\ fs' = [fs EXCEPT ![rt[j].into] = Synced(rt[j].into)]
  /\ IF Staged(j) THEN Goto(j, "commit") /\ UNCHANGED rt
                  ELSE Goto(j, AfterCommit(j)) /\ Update(j, Committed(j))
  /\ UNCHANGED <<reserved, exhausted, envVars>>

-----------------------------------------------------------------------------
(* commit_staged_path.                                                     *)

\* A file over a file is one atomic replacement.
ReplaceFile(j) ==
  /\ pc[j] = "commit"
  /\ IsFile(rt[j].into) /\ IsFile(rt[j].target)
  /\ fs' = Renamed(rt[j].into, rt[j].target)
  /\ Update(j, Committed(j))
  /\ Goto(j, AfterCommit(j))
  /\ UNCHANGED <<reserved, exhausted, envVars>>

\* Otherwise the existing entry steps aside first.
SetAside(j) ==
  /\ pc[j] = "commit"
  /\ Exists(rt[j].into) /\ Exists(rt[j].target)
  /\ ~(IsFile(rt[j].into) /\ IsFile(rt[j].target))
  /\ fs' = Renamed(rt[j].target, Backup(j))
  /\ Goto(j, "install")
  /\ UNCHANGED <<reserved, rt, exhausted, envVars>>

Install(j) ==
  /\ pc[j] = "install"
  /\ \/ /\ CanRename(rt[j].into, rt[j].target)
        /\ fs' = Renamed(rt[j].into, rt[j].target)
        /\ Goto(j, "dropbackup")
     \/ /\ Goto(j, "rollback")
        /\ UNCHANGED fs
  /\ UNCHANGED <<reserved, rt, exhausted, envVars>>

\* Put the original back, or leave it at the backup name when that fails too.
Rollback(j) ==
  /\ pc[j] = "rollback"
  /\ \/ CanRename(Backup(j), rt[j].target) /\ fs' = Renamed(Backup(j), rt[j].target)
     \/ UNCHANGED fs
  /\ Goto(j, "unstage")
  /\ Update(j, [rt[j] EXCEPT !.err = "error"])
  /\ UNCHANGED <<reserved, exhausted, envVars>>

\* A backup that cannot be removed is only logged.
DropBackup(j) ==
  /\ pc[j] = "dropbackup"
  /\ \/ fs' = [fs EXCEPT ![Backup(j)] = Absent]
     \/ UNCHANGED fs
  /\ Update(j, Committed(j))
  /\ Goto(j, AfterCommit(j))
  /\ UNCHANGED <<reserved, exhausted, envVars>>

-----------------------------------------------------------------------------
(* remove_copied_source: children before their folder, each checked first.  *)

\* Mutant of WasCopied: the content of the source is not compared again.
OnceCopied(j, n) == \E x \in rt[j].copied : x.place = rt[j].src /\ x.node = n

WasCopied(j, n) ==
  \E x \in rt[j].copied :
    /\ x.place = rt[j].src /\ x.node = n
    /\ fs[x.place][n] # None
    /\ IF x.was.dir THEN fs[x.place][n].dir ELSE fs[x.place][n] = x.was

VerifySource(j) ==
  /\ pc[j] = "verify"
  /\ ~cancel[j]
  /\ \E n \in rt[j].todo :
       /\ n = Root => rt[j].todo = {Root}
       /\ WasCopied(j, n)
       /\ Update(j, [rt[j] EXCEPT !.node = n, !.snap = fs[rt[j].src][n]])
  /\ Goto(j, "unlink")
  /\ UNCHANGED <<fs, reserved, exhausted, envVars>>

\* Mutant of UnlinkSource: the emptied folder is removed with all it contains.
UnlinkTree(j) ==
  /\ pc[j] = "unlink"
  /\ LET s == rt[j].src  n == rt[j].node  rest == rt[j].todo \ {n} IN
       /\ fs' = IF n = Root THEN [fs EXCEPT ![s] = Absent] ELSE [fs EXCEPT ![s][n] = None]
       /\ Update(j, [rt[j] EXCEPT !.todo = rest, !.node = None, !.snap = None])
       /\ Goto(j, IF rest = {} THEN "complete" ELSE "verify")
  /\ UNCHANGED <<reserved, exhausted, envVars>>

UnlinkSource(j) ==
  /\ pc[j] = "unlink"
  /\ LET s == rt[j].src  n == rt[j].node  rest == rt[j].todo \ {n} IN
       /\ fs[s][n] # None
       /\ fs[s][n].dir => KidsAt(s) = {}
       /\ fs' = [fs EXCEPT ![s][n] = None]
       /\ Update(j, [rt[j] EXCEPT !.todo = rest, !.node = None, !.snap = None])
       /\ Goto(j, IF rest = {} THEN "complete" ELSE "verify")
  /\ UNCHANGED <<reserved, exhausted, envVars>>

\* track_completed_root; portable jobs record no roots.
CompleteRoot(j) ==
  /\ pc[j] = "complete"
  /\ LET t == rt[j].target IN
       Update(j, [rt[j] EXCEPT !.created = Unprotected(j, t),
                               !.roots = IF j \in Portable THEN @ ELSE @ \cup {<<rt[j].src, t>>}])
  /\ Goto(j, "next")
  /\ UNCHANGED <<fs, reserved, exhausted, envVars>>

-----------------------------------------------------------------------------
(* The end of a job.                                                       *)

\* cleanup_failed_staging: the staged copy goes, unless it may still be in use.
Unstage(j) ==
  /\ pc[j] = "unstage"
  /\ \/ rt[j].err # "pending" /\ fs' = [fs EXCEPT ![rt[j].into] = Absent]
     \/ UNCHANGED fs
  /\ Goto(j, Exit(j))
  /\ UNCHANGED <<reserved, rt, exhausted, envVars>>

\* cleanup_failed_transfer: only a cancelled job removes what it created.
Cleanup(j) ==
  /\ pc[j] = "cleanup"
  /\ Goto(j, IF rt[j].err = "error" /\ cancel[j] THEN "sweep" ELSE AfterCleanup(j))
  /\ UNCHANGED <<fs, reserved, rt, exhausted, envVars>>

\* cleanup_created_targets goes by path, latest first; failures are logged.
Sweep(j) ==
  /\ pc[j] = "sweep"
  /\ \/ /\ rt[j].created = {}
        /\ Goto(j, AfterCleanup(j))
        /\ UNCHANGED <<fs, rt>>
     \/ \E c \in rt[j].created :
          LET p == c[1]  n == c[2] IN
          /\ n = Root => \A k \in Kids : <<p, k>> \notin rt[j].created
          /\ \/ fs[p][n] # None /\ (n = Root => KidsAt(p) = {}) /\ fs' = [fs EXCEPT ![p][n] = None]
             \/ UNCHANGED fs
          /\ Update(j, [rt[j] EXCEPT !.created = @ \ {c}])
          /\ UNCHANGED pc
  /\ UNCHANGED <<reserved, exhausted, envVars>>

\* release_reserved_targets.
Release(j) ==
  /\ pc[j] = "release"
  /\ reserved' = [reserved EXCEPT ![ProcOf[j]] = @ \ rt[j].held]
  /\ Update(j, [rt[j] EXCEPT !.held = {}])
  /\ Goto(j, AfterRelease(j))
  /\ UNCHANGED <<fs, exhausted, envVars>>

\* run_transfer: the one terminal message of the job, which carries its roots;
\* the rest of its runtime is dropped.
Report(j) ==
  /\ pc[j] = "report"
  /\ Goto(j, CASE rt[j].err = "none" -> "Finished"
               [] rt[j].err = "error" /\ cancel[j] -> "Cancelled"
               [] OTHER -> "Failed")
  /\ Update(j, [Idle EXCEPT !.roots = rt[j].roots])
  /\ UNCHANGED <<fs, reserved, exhausted, envVars>>

Step(j) ==
  \/ Prepare(j) \/ NextSource(j) \/ EndOfSources(j) \/ ReserveDestination(j)
  \/ SkipSameFile(j) \/ ChooseRoute(j) \/ Rename(j)
  \/ CopyFolder(j) \/ CreateFile(j) \/ WriteFile(j) \/ Sync(j)
  \/ ReplaceFile(j) \/ SetAside(j) \/ Install(j) \/ Rollback(j) \/ DropBackup(j)
  \/ VerifySource(j) \/ UnlinkSource(j) \/ CompleteRoot(j)
  \/ Unstage(j) \/ Cleanup(j) \/ Sweep(j) \/ Release(j) \/ Report(j)
  \/ Abort(j) \/ Fault(j)

-----------------------------------------------------------------------------
(* The user and other programs.                                            *)

Ended(j) == pc[j] \in Outcomes

RequestCancel(j) ==
  /\ j \in Cancellable
  /\ ~Ended(j) /\ ~cancel[j]
  /\ cancel' = [cancel EXCEPT ![j] = TRUE]
  /\ UNCHANGED <<fs, reserved, job, pause, pc, rt, edits, strangers, exhausted>>

TogglePause(j) ==
  /\ j \in Pausable
  /\ ~Ended(j)
  /\ pause' = [pause EXCEPT ![j] = ~@]
  /\ UNCHANGED <<fs, reserved, job, cancel, pc, rt, edits, strangers, exhausted>>

\* The user saves a new version of a file at an input, or adds one to a folder.  A version
\* saved in a copy that is not flushed yet is flushed with it.
EditInput ==
  /\ edits < MaxEdits
  /\ edits' = edits + 1
  /\ \E s \in Inputs, n \in Nodes :
       \/ /\ fs[s][n] # None /\ ~fs[s][n].dir
          /\ fs' = [fs EXCEPT ![s][n].ver = @ \cup {edits'}]
       \/ /\ fs[s][n] = None /\ Exists(s) /\ fs[s][Root].dir
          /\ fs' = [fs EXCEPT ![s][n] = [File(s, n) EXCEPT !.of = <<s, n, edits'>>]]
  /\ UNCHANGED <<reserved, job, cancel, pause, pc, rt, strangers, exhausted>>

\* Another program creates a file in the destination folder.
CreateStranger ==
  /\ strangers < MaxStrangers
  /\ strangers' = strangers + 1
  /\ \E t \in Slots :
       /\ ~Exists(t)
       /\ fs' = [fs EXCEPT ![t][Root] = [File(t, Root) EXCEPT !.of = Stranger]]
  /\ UNCHANGED <<reserved, job, cancel, pause, pc, rt, edits, exhausted>>

User == EditInput \/ CreateStranger \/ \E j \in Jobs : RequestCancel(j) \/ TogglePause(j)

AllEnded == (\A j \in Jobs : Ended(j)) /\ UNCHANGED vars

Next == (\E j \in Jobs : Step(j)) \/ User \/ AllEnded

Spec == Init /\ [][Next]_vars

\* Every job has a thread of its own; nothing forces the user to do anything.
FairSpec == Spec /\ \A j \in Jobs : WF_vars(Step(j))

-----------------------------------------------------------------------------
(* Properties.                                                             *)

\* No two jobs of one process ever hold the same target: what
\* reserve_destination is for, unless it has run out of names.
ReservationsExclusive ==
  ~exhausted =>
    \A j, k \in Jobs :
      j # k /\ ProcOf[j] = ProcOf[k] => rt[j].held \cap rt[k].held = {}

\* The versions of files in these places that would survive a power failure.
KeptIn(places) ==
  LET kept == {c \in places \X Nodes :
                 LET node == fs[c[1]][c[2]] IN
                 node # None /\ ~node.dir /\ node.part = Nobody /\ node.safe}
  IN {<<fs[c[1]][c[2]].of, fs[c[1]][c[2]].ver>> : c \in kept}
\* A staging copy does not count: it may be discarded at any time.
Kept == KeptIn({p \in Places : p \notin Temps \/ p[3] = "backup"})

\* What a step loses: no copy of the version is left, nor a version made from it.
Gone == {c \in Kept : \A d \in Kept' : d[1] = c[1] => ~(c[2] \subseteq d[2])}

\* The entry at p is complete and on disk.
Whole(p) == Exists(p) /\ \A n \in Nodes : fs[p][n] # None => fs[p][n].part = Nobody /\ fs[p][n].safe

\* A job whose policy is Replace puts its whole copy in the place of the target,
\* and only what was stored there goes.
Replaces(j) ==
  /\ job[j].policy = "Replace"
  /\ pc[j] \in {"commit", "dropbackup"} /\ pc'[j] \in {"verify", "complete"}
  /\ Whole(rt[j].target)'
  /\ Gone \subseteq KeptIn({rt[j].target, Backup(j)})

\* A move removes the version that the user saves between its last look at the source
\* and the removal.
Overlooks(j) ==
  /\ pc[j] = "unlink" /\ fs[rt[j].src][rt[j].node] # rt[j].snap
  /\ Gone \subseteq {<<fs[rt[j].src][rt[j].node].of, fs[rt[j].src][rt[j].node].ver>>}

\* No interleaving, failure, pause, cancellation or cleanup ever destroys the last
\* durable copy of a version of a file, except a finished replacement the user chose and
\* what the user saves at a source between the last check and the removal.
NothingLost ==
  [][~exhausted' => Gone = {} \/ \E j \in Jobs : Replaces(j) \/ Overlooks(j)]_vars

\* The same for everything but the files other programs create meanwhile: whatever they
\* do, no version that the user has saved is lost but in this one window.
UserContentKept ==
  [][~exhausted' => \/ \A c \in Gone : c[1] = Stranger
                    \/ \E j \in Jobs : Replaces(j) \/ Overlooks(j)]_vars

\* A root that a job records as completed is complete at its target (unless names
\* have run out): nothing there is half written and, unless the user edits it,
\* nothing of the source is missing.
CompletedRootsComplete ==
  [][~exhausted' => \A j \in Jobs : \A r \in rt'[j].roots \ rt[j].roots :
       /\ Exists(r[2])'
       /\ \A n \in Nodes : fs'[r[2]][n] # None => fs'[r[2]][n].part = Nobody
       /\ edits = 0 => \A n \in Nodes : fs'[r[1]][n] # None => fs'[r[2]][n] # None]_vars

\* A cancelled job ends, even a paused one.
CancelEnds == \A j \in Jobs : cancel[j] ~> Ended(j)
=============================================================================
