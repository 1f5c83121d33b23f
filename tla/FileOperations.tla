--------------------------- MODULE FileOperations ---------------------------
(***************************************************************************)
(* Deleting, creating, renaming and undoing: src/fs/operations.rs and      *)
(* src/fs/trash.rs, and the one undo that the window keeps                 *)
(* (file_actions.rs, update.rs).  The work runs on threads, call by call;  *)
(* other programs write to the same folders, trash what is there and empty *)
(* the trash meanwhile.                                                    *)
(*                                                                         *)
(* A path holds nothing, a file, or a folder of files.  Contents are       *)
(* numbered as they are written.  The trash crate is external: moving to   *)
(* the trash, restoring and purging one item are single steps that may     *)
(* fail, and a restore refuses a path that is taken.  An item is known by  *)
(* the name of its .trashinfo file, which another item may get once the    *)
(* first has left the trash.                                               *)
(***************************************************************************)
EXTENDS Integers, Sequences, FiniteSets, SequencesExt

CONSTANTS
  Paths,       \* what is deleted, copied and moved
  Kids,        \* names in folders
  Own,         \* the content of a path that is a file
  Workers,     \* threads of run_blocking_file_operation
  None,        \* nothing at a path, no job, no undo
  Starts,      \* what there is at first: disk and undo
  MaxForeign,  \* bound: what other programs do
  MaxFailures, \* bound: calls that fail
  MaxJobs      \* bound: what the user starts

Names == Kids \cup {Own}
Node == [Names -> Nat \cup {None}]
\* ghost nth: how many items have been trashed before it.
Item == [id: Nat, nth: Nat, from: Paths, node: Node]

ASSUME FileOperationsAssumption ==
  /\ Own \notin Kids /\ None \notin Nat /\ None \notin Node /\ None # {}
  /\ IsFiniteSet(Paths)
  /\ MaxForeign \in Nat /\ MaxFailures \in Nat /\ MaxJobs \in Nat

VARIABLES
  disk,     \* what each path holds
  trash,    \* items of the system's trash
  nextId, nextContent, \* the numbers of the next item and the next content
  undo,     \* last_undo_action
  job,      \* what each thread is doing
  across,   \* are the paths of a move on two volumes?
  foreign, failures, jobs, \* counters for the bounds
  asked,    \* ghost: contents that were there when the user's deletion came by
  overrun,  \* ghost: contents that came between a check, a listing or a copy and what
            \* follows, or had the name that another path was given
  replaced  \* ghost: contents that came to the original place of a move after the check of
            \* its undo, and that the undo has replaced

counts == <<foreign, failures, jobs>>
vars == <<disk, trash, nextId, nextContent, undo, job, across, counts, asked, overrun, replaced>>

Contents(node) == IF node = None THEN {} ELSE {node[n] : n \in Names} \ {None}
IsDir(node) == node[Own] = None
OnDisk == UNION {Contents(disk[p]) : p \in Paths}
InTrash == UNION {Contents(i.node) : i \in trash}
Ids(items) == {i.id : i \in items}

\* UndoAction; ghost: what was in the trash before, the items that this deletion has
\* trashed, whether the first listing worked, and the first number it may have used.
Undos ==
  [kind: {"trash"}, items: (SUBSET Nat) \ {{}}, before: SUBSET Nat, mine: SUBSET Nat,
   blind: BOOLEAN, from: Nat]
  \cup [kind: {"copy"}, targets: Seq(Paths)]
  \cup [kind: {"move"}, pairs: Seq(Paths \X Paths)]

Jobs ==
  [op: {"trash"}, todo: Seq(Paths), paths: SUBSET Paths, before: SUBSET Nat,
   mine: SUBSET Nat, blind: BOOLEAN, from: Nat]
  \cup [op: {"restore", "purge"}, todo: SUBSET Item, action: Undos \cup {None}]
  \cup [op: {"check", "back", "remove"}, todo: Seq(Paths \X Paths), there: SUBSET Nat,
         copied: SUBSET Nat, action: Undos]
  \cup [op: {"delete"}, todo: Seq(Paths), listed: (SUBSET Kids) \cup {None},
        action: Undos \cup {None}]
  \cup [op: {"folder", "file"}, target: Paths]
  \cup [op: {"rename"}, path: Paths, target: Paths]

\* The contents that are there at first are numbered from 1, and nothing has been
\* trashed yet.
ASSUME StartsAssumption ==
  \A start \in Starts :
    /\ start.disk \in [Paths -> Node \cup {None}]
    /\ LET contents == UNION {Contents(start.disk[p]) : p \in Paths} IN
       IsFiniteSet(contents) /\ contents = 1..Cardinality(contents)
    /\ start.undo \in Undos \cup {None}
    /\ start.undo # None => start.undo.kind # "trash"

TypeOK ==
  /\ disk \in [Paths -> Node \cup {None}]
  /\ trash \subseteq Item
  /\ \A i, j \in trash : i.id = j.id => i = j
  /\ \A i \in trash : i.id < nextId /\ i.nth < nextId
  /\ \A c \in OnDisk \cup InTrash : c < nextContent
  /\ undo \in Undos \cup {None}
  /\ job \in [Workers -> Jobs \cup {None}]
  /\ across \in BOOLEAN
  /\ foreign \in 0..MaxForeign /\ failures \in 0..MaxFailures /\ jobs \in 0..MaxJobs
  /\ asked \subseteq 0..nextContent /\ overrun \subseteq 0..nextContent
  /\ replaced \subseteq 0..nextContent

Init ==
  /\ \E start \in Starts : disk = start.disk /\ undo = start.undo
  /\ trash = {} /\ nextId = 1 /\ nextContent = 1 + Cardinality(OnDisk)
  /\ job = [w \in Workers |-> None]
  /\ across \in BOOLEAN
  /\ foreign = 0 /\ failures = 0 /\ jobs = 0
  /\ asked = {} /\ overrun = {} /\ replaced = {}

-----------------------------------------------------------------------------
(* Steps of all jobs.                                                      *)

Fails == failures < MaxFailures /\ failures' = failures + 1
Goes(w, next) == job' = [job EXCEPT ![w] = next]

\* Message::UndoFinished with an error: the undo is offered again.
UndoFails(w) == Goes(w, None) /\ undo' = IF job[w].action = None THEN undo ELSE job[w].action
Ends(w) == Goes(w, None) /\ UNCHANGED undo

Begin(w) == job[w] = None /\ jobs < MaxJobs /\ jobs' = jobs + 1
\* begin_file_operation.
BeginOperation(w) == Begin(w) /\ undo' = None
Doing(w, op) == job[w] # None /\ job[w].op = op

-----------------------------------------------------------------------------
(* Moving to the trash: delete_to_trash_with_undo_controlled.              *)

\* Mutant of Listed: what was in the trash before is not looked at.
ListedNothing == {}

\* native_items before the first deletion.
Listed == Ids(trash)

\* Where the listing fails the set is empty (unwrap_or_default).
MoveToTrash(w) ==
  /\ BeginOperation(w)
  /\ \E paths \in (SUBSET Paths) \ {{}}, blind \in BOOLEAN :
       /\ IF blind THEN Fails ELSE UNCHANGED failures
       /\ Goes(w, [op |-> "trash", todo |-> SetToSeq(paths), paths |-> paths,
                   before |-> IF blind THEN {} ELSE Listed, mine |-> {}, blind |-> blind,
                   from |-> nextId])
  /\ UNCHANGED <<disk, trash, nextId, nextContent, across, foreign, asked, overrun, replaced>>

\* The new item is called as none in the trash is: a new name, or that of an item that
\* has been restored or purged since.
ToTrash(p) ==
  /\ \E id \in (1..nextId) \ Ids(trash) :
       trash' = trash \cup {[id |-> id, nth |-> nextId, from |-> p, node |-> disk[p]]}
  /\ nextId' = nextId + 1
  /\ disk' = [disk EXCEPT ![p] = None]

\* One path; an error returns at once, and with it goes what the undo would need.
TrashNext(w) ==
  LET p == Head(job[w].todo) IN
  /\ Doing(w, "trash") /\ job[w].todo # <<>>
  /\ \/ /\ disk[p] = None
        /\ Goes(w, [job[w] EXCEPT !.todo = Tail(@)])
        /\ UNCHANGED <<disk, trash, nextId, undo, failures>>
     \/ /\ disk[p] # None /\ ToTrash(p)
        /\ Goes(w, [job[w] EXCEPT !.todo = Tail(@), !.mine = @ \cup {nextId}])
        /\ UNCHANGED <<undo, failures>>
     \/ /\ disk[p] # None /\ Fails /\ Ends(w)
        /\ UNCHANGED <<disk, trash, nextId>>
  /\ UNCHANGED <<nextContent, across, foreign, jobs, asked, overrun, replaced>>

UndoTrash(w, items) ==
  [kind |-> "trash", items |-> items, before |-> job[w].before, mine |-> job[w].mine,
   blind |-> job[w].blind, from |-> job[w].from]

\* Mutant of Offered: an undo of nothing is kept too.
OfferedAnyway(w, items) == UndoTrash(w, items)

\* TrashFinished.
Offered(w, items) == IF items = {} THEN undo ELSE UndoTrash(w, items)

\* The items that are new and come from the deleted paths; the user may have cancelled.
TrashFinished(w) ==
  LET new == {i \in trash : i.id \notin job[w].before /\ i.from \in job[w].paths} IN
  /\ Doing(w, "trash")
  /\ \E items \in {Ids(new), {}} :
       /\ IF items # Ids(new) THEN Fails ELSE UNCHANGED failures
       /\ undo' = Offered(w, items)
  /\ Goes(w, None)
  /\ UNCHANGED <<disk, trash, nextId, nextContent, across, foreign, jobs, asked, overrun, replaced>>

-----------------------------------------------------------------------------
(* Items of the trash: restore_from_trash, restore_items, purge_items and  *)
(* empty.  All of them list the trash first and then use what they found.  *)

InTheTrash(ids) == {i \in trash : i.id \in ids}

\* selected_items finds what has the chosen identifiers now: the items that the user has
\* chosen, or others that have got the identifiers of those; nothing if one is gone.
\* All items (empty) are chosen as they are found.
SelectItems(w) ==
  /\ BeginOperation(w)
  /\ \E op \in {"restore", "purge"}, found \in SUBSET trash :
       /\ Goes(w, [op |-> op, todo |-> found, action |-> None])
       /\ IF op = "purge"
          THEN \E chosen \in SUBSET found :
                 /\ \A i \in found \ chosen : i.id # i.nth
                 /\ asked' = asked \cup UNION {Contents(i.node) : i \in chosen}
          ELSE UNCHANGED asked
  /\ UNCHANGED <<disk, trash, nextId, nextContent, across, foreign, failures, overrun, replaced>>

\* What has the identifier of a listed item now goes to the place that was listed.
RestoreNext(w) ==
  \E item \in job[w].todo :
    /\ \/ \E i \in InTheTrash({item.id}) :
            /\ disk[item.from] = None
            /\ disk' = [disk EXCEPT ![item.from] = i.node] /\ trash' = trash \ {i}
            /\ Goes(w, [job[w] EXCEPT !.todo = @ \ {item}])
            /\ UNCHANGED <<undo, failures>>
       \/ /\ InTheTrash({item.id}) = {} \/ disk[item.from] # None
          /\ UndoFails(w) /\ UNCHANGED <<disk, trash, failures>>
       \/ Fails /\ UndoFails(w) /\ UNCHANGED <<disk, trash>>
    /\ UNCHANGED <<nextId, nextContent, across, foreign, jobs, asked, overrun, replaced>>

PurgeNext(w) ==
  \E item \in job[w].todo :
    /\ \/ \E i \in InTheTrash({item.id}) :
            /\ trash' = trash \ {i}
            /\ Goes(w, [job[w] EXCEPT !.todo = @ \ {item}])
            /\ overrun' = overrun \cup (Contents(i.node) \ asked)
            /\ UNCHANGED failures
       \/ /\ InTheTrash({item.id}) = {}
          /\ Goes(w, None) /\ UNCHANGED <<trash, failures, overrun>>
       \/ Fails /\ Goes(w, None) /\ UNCHANGED <<trash, overrun>>
    /\ UNCHANGED <<disk, nextId, nextContent, undo, across, foreign, jobs, asked, replaced>>

ItemsEnd(w) ==
  /\ job[w].todo = {} /\ Ends(w)
  /\ UNCHANGED <<disk, trash, nextId, nextContent, across, counts, asked, overrun, replaced>>

TrashItems(w) ==
  \/ Doing(w, "restore") /\ (RestoreNext(w) \/ ItemsEnd(w))
  \/ Doing(w, "purge") /\ (PurgeNext(w) \/ ItemsEnd(w))

-----------------------------------------------------------------------------
(* Undoing: undo_last_action.                                              *)

\* An undo of a move is checked first, that of a trash looks for all its items.
UndoLastAction(w) ==
  /\ Begin(w) /\ undo # None
  /\ LET jobOf ==
           CASE undo.kind = "trash" -> [op |-> "restore", todo |-> InTheTrash(undo.items),
                                        action |-> undo]
             [] undo.kind = "copy" -> [op |-> "delete", todo |-> undo.targets, listed |-> None,
                                       action |-> undo]
             [] undo.kind = "move" -> [op |-> "check", todo |-> undo.pairs, there |-> {},
                                       copied |-> {}, action |-> undo] IN
     IF undo.kind = "trash" /\ ~undo.items \subseteq Ids(trash)
     THEN UNCHANGED <<job, undo>>
     ELSE Goes(w, jobOf) /\ undo' = None
  /\ UNCHANGED <<disk, trash, nextId, nextContent, across, foreign, failures, asked, overrun, replaced>>

\* Mutant of Returnable: only the moved paths are looked at.
MovedAreThere(pairs) == \A i \in 1..Len(pairs) : disk[pairs[i][1]] # None

\* The checks of move_paths_back, before the first move.
Returnable(pairs) ==
  \A i \in 1..Len(pairs) : disk[pairs[i][1]] # None /\ disk[pairs[i][2]] = None

BackCheck(w) ==
  /\ Doing(w, "check")
  /\ IF Returnable(job[w].todo)
     THEN /\ Goes(w, [job[w] EXCEPT !.op = "back",
                       !.there = UNION {Contents(disk[pair[2]]) : pair \in ToSet(job[w].todo)}])
          /\ UNCHANGED undo
     ELSE UndoFails(w)
  /\ UNCHANGED <<disk, trash, nextId, nextContent, across, counts, asked, overrun, replaced>>

\* rename replaces a file by a file and nothing by anything, on one volume.
Renames(moved, old) ==
  ~across /\ IF old = None THEN TRUE
             ELSE IsDir(moved) = IsDir(old) /\ (IsDir(moved) => Contents(old) = {})

Over(moved, old) ==
  IF old = None THEN moved ELSE [n \in Names |-> IF moved[n] = None THEN old[n] ELSE moved[n]]
Part(node, names) == [n \in Names |-> IF n \in names THEN node[n] ELSE None]

\* What a move back replaces has come to the original place since the check.
Replaces(w, gone) == replaced' = replaced \cup (gone \ job[w].there)

\* move_recursively of one pair: a rename, or else a copy onto what is there, which
\* may fail half way.
Rename(w, from, to) ==
  /\ disk[from] # None /\ Renames(disk[from], disk[to])
  /\ disk' = [disk EXCEPT ![from] = None, ![to] = disk[from]]
  /\ Goes(w, [job[w] EXCEPT !.todo = Tail(@)])
  /\ Replaces(w, Contents(disk[to])) /\ UNCHANGED <<undo, failures>>

CopyOver(w, from, to) ==
  /\ disk[from] # None /\ ~Renames(disk[from], disk[to])
  /\ disk[to] # None => IsDir(disk[to]) = IsDir(disk[from])
  /\ \E names \in SUBSET Names :
       LET onto == Over(Part(disk[from], names), disk[to]) IN
       /\ disk' = [disk EXCEPT ![to] = onto]
       /\ Replaces(w, Contents(disk[to]) \ Contents(onto))
       /\ IF names = Names
          THEN /\ Goes(w, [job[w] EXCEPT !.op = "remove", !.copied = Contents(disk[from])])
               /\ UNCHANGED <<undo, failures>>
          ELSE Fails /\ UndoFails(w)

MoveFails(w, from, to) ==
  /\ IF disk[from] = None THEN UNCHANGED failures
     ELSE IF disk[to] = None THEN Fails
     ELSE IF IsDir(disk[to]) = IsDir(disk[from]) THEN Fails ELSE UNCHANGED failures
  /\ UndoFails(w)
  /\ UNCHANGED <<disk, replaced>>

BackNext(w) ==
  /\ Doing(w, "back") /\ job[w].todo # <<>>
  /\ LET from == Head(job[w].todo)[1]
         to == Head(job[w].todo)[2] IN
     Rename(w, from, to) \/ CopyOver(w, from, to) \/ MoveFails(w, from, to)
  /\ UNCHANGED <<trash, nextId, nextContent, across, foreign, jobs, asked, overrun>>

\* remove_dir_all or remove_file of what was copied, and of what came to it since.
BackRemove(w) ==
  LET from == Head(job[w].todo)[1] IN
  /\ Doing(w, "remove")
  /\ \/ /\ disk' = [disk EXCEPT ![from] = None]
        /\ Goes(w, [job[w] EXCEPT !.op = "back", !.todo = Tail(@)])
        /\ overrun' = overrun \cup (Contents(disk[from]) \
             (job[w].copied \cup UNION {Contents(disk[p]) : p \in Paths \ {from}}))
        /\ UNCHANGED <<undo, failures>>
     \/ Fails /\ UndoFails(w) /\ UNCHANGED <<disk, overrun>>
  /\ UNCHANGED <<trash, nextId, nextContent, across, foreign, jobs, asked, replaced>>

BackEnds(w) ==
  /\ Doing(w, "back") /\ job[w].todo = <<>>
  /\ Ends(w)
  /\ UNCHANGED <<disk, trash, nextId, nextContent, across, counts, asked, overrun, replaced>>

-----------------------------------------------------------------------------
(* Deleting for good: delete_permanently_with_control.                     *)

Delete(w) ==
  /\ BeginOperation(w)
  /\ \E paths \in (SUBSET Paths) \ {{}} :
       Goes(w, [op |-> "delete", todo |-> SetToSeq(paths), listed |-> None, action |-> None])
  /\ UNCHANGED <<disk, trash, nextId, nextContent, across, foreign, failures, asked, overrun, replaced>>

\* PendingDelete::Visit of a root: a folder is listed.
Visit(w) ==
  LET p == Head(job[w].todo) IN
  /\ job[w].todo # <<>> /\ job[w].listed = None
  /\ IF disk[p] # None /\ IsDir(disk[p])
     THEN /\ Goes(w, [job[w] EXCEPT !.listed = {k \in Kids : disk[p][k] # None}])
          /\ UNCHANGED disk
     ELSE /\ disk' = [disk EXCEPT ![p] = None]
          /\ Goes(w, [job[w] EXCEPT !.todo = Tail(@)])
  /\ asked' = asked \cup Contents(disk[p])
  /\ UNCHANGED <<undo, failures, overrun>>

\* One of the listed files, if the folder still has it.
RemoveFile(w) ==
  LET p == Head(job[w].todo) IN
  /\ job[w].listed \notin {None, {}}
  /\ \E k \in job[w].listed :
       /\ Goes(w, [job[w] EXCEPT !.listed = @ \ {k}])
       /\ IF disk[p] # None /\ IsDir(disk[p])
          THEN /\ disk' = [disk EXCEPT ![p][k] = None]
               /\ overrun' = overrun \cup ({disk[p][k]} \ (asked \cup {None}))
          ELSE UNCHANGED <<disk, overrun>>
  /\ UNCHANGED <<undo, failures, asked>>

\* Mutant of RemovesDirectory: whatever is in the folder goes with it.
RemovesAnyway(node) == TRUE

\* remove_dir refuses a folder that is not empty.
RemovesDirectory(node) == node # None /\ IsDir(node) /\ Contents(node) = {}

RemoveDirectory(w) ==
  LET p == Head(job[w].todo) IN
  /\ job[w].listed = {}
  /\ IF RemovesDirectory(disk[p])
     THEN /\ disk' = [disk EXCEPT ![p] = None]
          /\ Goes(w, [job[w] EXCEPT !.todo = Tail(@), !.listed = None]) /\ UNCHANGED undo
     ELSE UndoFails(w) /\ UNCHANGED disk
  /\ UNCHANGED <<failures, asked, overrun>>

\* The user cancels, which ends the job well, a call fails, or nothing is left.
DeleteEnds(w) ==
  /\ \/ Fails /\ UndoFails(w)
     \/ (job[w].todo = <<>> \/ job[w].action = None) /\ Ends(w) /\ UNCHANGED failures
  /\ UNCHANGED <<disk, asked, overrun>>

DeleteNext(w) ==
  /\ Doing(w, "delete")
  /\ Visit(w) \/ RemoveFile(w) \/ RemoveDirectory(w) \/ DeleteEnds(w)
  /\ UNCHANGED <<trash, nextId, nextContent, across, foreign, jobs, replaced>>

-----------------------------------------------------------------------------
(* Creating and renaming.                                                  *)

\* unique_destination, which does not run out of names here.
UniqueDestination == {p \in Paths : disk[p] = None}

Create(w, op) ==
  /\ BeginOperation(w)
  /\ \E p \in UniqueDestination : Goes(w, [op |-> op, target |-> p])
  /\ UNCHANGED <<disk, trash, nextId, nextContent, across, foreign, failures, asked, overrun, replaced>>

NewFolder(w) == Create(w, "folder")
NewTextDocument(w) == Create(w, "file")

\* create_dir_all is content with a folder that has come since.
CreateFolder(w) ==
  LET p == job[w].target IN
  /\ Doing(w, "folder")
  /\ \/ /\ disk[p] = None
        /\ disk' = [disk EXCEPT ![p] = [n \in Names |-> None]] /\ UNCHANGED failures
     \/ /\ UNCHANGED disk
        /\ IF disk[p] = None THEN Fails ELSE UNCHANGED failures
  /\ Ends(w)
  /\ UNCHANGED <<trash, nextId, nextContent, across, foreign, jobs, asked, overrun, replaced>>

\* File::create cuts a file that has come since.
CreateFile(w) ==
  LET p == job[w].target IN
  /\ Doing(w, "file")
  /\ \/ /\ disk[p] # None => ~IsDir(disk[p])
        /\ disk' = [disk EXCEPT ![p] = [n \in Names |-> IF n = Own THEN nextContent ELSE None]]
        /\ nextContent' = nextContent + 1
        /\ overrun' = overrun \cup Contents(disk[p])
        /\ UNCHANGED failures
     \/ /\ IF disk[p] # None /\ IsDir(disk[p]) THEN UNCHANGED failures ELSE Fails
        /\ UNCHANGED <<disk, nextContent, overrun>>
  /\ Ends(w)
  /\ UNCHANGED <<trash, nextId, across, foreign, jobs, asked, replaced>>

\* commit_pending_rename; a new name is in the same folder, so on one volume.
CommitRename(w) ==
  /\ BeginOperation(w) /\ ~across
  /\ \E p, target \in Paths :
       p # target /\ disk[p] # None /\ Goes(w, [op |-> "rename", path |-> p, target |-> target])
  /\ UNCHANGED <<disk, trash, nextId, nextContent, across, foreign, failures, asked, overrun, replaced>>

\* rename_path, which does not ask whether the name is taken.
RenamePath(w) ==
  LET from == job[w].path  to == job[w].target IN
  /\ Doing(w, "rename")
  /\ \/ /\ disk[from] # None /\ Renames(disk[from], disk[to])
        /\ disk' = [disk EXCEPT ![from] = None, ![to] = disk[from]]
        /\ overrun' = overrun \cup Contents(disk[to])
        /\ UNCHANGED failures
     \/ /\ IF disk[from] # None /\ Renames(disk[from], disk[to]) THEN Fails ELSE UNCHANGED failures
        /\ UNCHANGED <<disk, overrun>>
  /\ Ends(w)
  /\ UNCHANGED <<trash, nextId, nextContent, across, foreign, jobs, asked, replaced>>

-----------------------------------------------------------------------------
(* Other programs.                                                         *)

Elsewhere == foreign < MaxForeign /\ foreign' = foreign + 1

\* A new file, or a folder with one, or a new file in a folder.
Write(p, n) ==
  /\ Elsewhere
  /\ IF disk[p] = None
     THEN disk' = [disk EXCEPT ![p] = [m \in Names |-> IF m = n THEN nextContent ELSE None]]
     ELSE /\ IsDir(disk[p]) /\ n # Own /\ disk[p][n] = None
          /\ disk' = [disk EXCEPT ![p][n] = nextContent]
  /\ nextContent' = nextContent + 1
  /\ UNCHANGED <<trash, nextId, undo, job, across, failures, jobs, asked, overrun, replaced>>

TrashElsewhere(p) ==
  /\ Elsewhere /\ disk[p] # None
  /\ ToTrash(p)
  /\ UNCHANGED <<nextContent, undo, job, across, failures, jobs, asked, overrun, replaced>>

PurgeElsewhere(i) ==
  /\ Elsewhere
  /\ trash' = trash \ {i} /\ asked' = asked \cup Contents(i.node)
  /\ UNCHANGED <<disk, nextId, nextContent, undo, job, across, failures, jobs, overrun, replaced>>

-----------------------------------------------------------------------------
Rest == (\A w \in Workers : job[w] = None) /\ UNCHANGED vars

Worker(w) ==
  \/ MoveToTrash(w) \/ TrashNext(w) \/ TrashFinished(w)
  \/ SelectItems(w) \/ TrashItems(w)
  \/ UndoLastAction(w) \/ BackCheck(w) \/ BackNext(w) \/ BackRemove(w) \/ BackEnds(w)
  \/ Delete(w) \/ DeleteNext(w)
  \/ NewFolder(w) \/ NewTextDocument(w) \/ CreateFolder(w) \/ CreateFile(w)
  \/ CommitRename(w) \/ RenamePath(w)

Next ==
  \/ \E w \in Workers : Worker(w)
  \/ \E p \in Paths : TrashElsewhere(p) \/ \E n \in Names : Write(p, n)
  \/ \E i \in trash : PurgeElsewhere(i)
  \/ Rest

Spec == Init /\ [][Next]_vars

-----------------------------------------------------------------------------
(* Properties.                                                             *)

\* No content disappears that nobody asked to delete: not when a deletion meets files
\* that came after it had listed the folder, not when an undo is refused or fails half
\* way.  The known exceptions come between the undo's copy of a path and the removal of
\* that path, between the choice of a new name and its creation, take a listed name in a
\* folder that has taken the place of the listed one, have the name that the user gives
\* to another or the identifier that a purged item had in the trash, or have come to the
\* original place of a move between the check of its undo and the move back, which the
\* comment of move_paths_back rules out: what is replaced is what it promises to keep.
NothingLost ==
  \A c \in 1..(nextContent - 1) : c \in OnDisk \cup InTrash \cup asked \cup overrun \cup replaced

\* The undo of a move to the trash knows every item of this deletion that is still
\* there, but for one that has got the identifier of an item that was there before, and
\* of others only those that were trashed from the same paths meanwhile or that have got
\* the identifier of one of its items, or all of them where the trash could not be listed.
UndoIsExact ==
  undo # None /\ undo.kind = "trash" =>
    /\ \A i \in trash : i.nth \in undo.mine => i.id \in undo.items \cup undo.before
    /\ undo.blind \/ \A i \in trash : i.id \in undo.items => i.nth >= undo.from
=============================================================================
