----------------------------- MODULE AtomicFile -----------------------------
(***************************************************************************)
(* Saving a file: src/utils/atomic_file.rs.  A save writes a new file      *)
(* beside the old one, flushes it, renames it onto the old one and syncs   *)
(* the folder; any of these can fail, and the process or the machine can   *)
(* stop between any two of them.  A file on disk is the set of contents    *)
(* that may be found after the machine has stopped.                        *)
(*                                                                         *)
(* A process that starts again has the number of its predecessor here,     *)
(* which an operating system may give it: the names of its temporary       *)
(* files, made of that number and a sequence, may be taken.                *)
(***************************************************************************)
EXTENDS Integers, FiniteSets

CONSTANTS
  Procs,       \* processes
  Threads,     \* threads that save
  ProcOf,      \* the process of each thread
  Files,       \* the files they save
  None,        \* no content
  MaxStops,    \* bound: crashes and power failures
  MaxFailures  \* bound: calls that fail

ASSUME AtomicFileAssumption ==
  /\ ProcOf \in [Threads -> Procs]
  /\ MaxStops \in Nat /\ MaxFailures \in Nat

\* What a file holds: the number of the save that wrote it, whether it is all of it,
\* and whether it has reached the disk.
Content == [value: Nat, whole: BOOLEAN, flushed: BOOLEAN]
\* A temporary file; its name is the file's with the process and the sequence.
Temp == [file: Files, proc: Procs, seq: Nat, content: Content, orphan: BOOLEAN, stuck: BOOLEAN]
\* What a thread is doing in write.
Save == [at: {"idle", "create", "write", "flush", "replace", "sync", "saved", "clean", "failed"},
         file: Files, value: Nat, seq: Nat]

ASSUME ContentAssumption == None \notin Content

VARIABLES
  visible,  \* what the programs see of each file
  stable,   \* what may be found of it when the machine has stopped
  temps,    \* temporary files; ghosts: those whose process has stopped are orphans,
            \* those whose removal has failed are stuck
  sequence, \* TEMP_FILE_SEQUENCE of each process
  save,     \* what each thread is doing
  up,       \* the processes that run
  stops,    \* how often a process or the machine has stopped
  failures  \* how many calls have failed

files == <<visible, stable, temps, sequence, save, up, stops, failures>>

FilesTypeOK ==
  /\ visible \in [Files -> Content \cup {None}]
  /\ stable \in [Files -> SUBSET (Content \cup {None})]
  /\ temps \subseteq Temp
  /\ sequence \in [Procs -> Nat]
  /\ save \in [Threads -> Save]
  /\ up \subseteq Procs
  /\ stops \in 0..MaxStops /\ failures \in 0..MaxFailures

Idle == [at |-> "idle", file |-> CHOOSE f \in Files : TRUE, value |-> 0, seq |-> 0]

FilesInit ==
  /\ visible = [f \in Files |-> None]
  /\ stable = [f \in Files |-> {None}]
  /\ temps = {}
  /\ sequence = [p \in Procs |-> 1]
  /\ save = [t \in Threads |-> Idle]
  /\ up = Procs
  /\ stops = 0 /\ failures = 0

-----------------------------------------------------------------------------
(* write, one call at a time.                                              *)

Names(tmp, t) == tmp.file = save[t].file /\ tmp.proc = ProcOf[t] /\ tmp.seq = save[t].seq
TempOf(t) == CHOOSE tmp \in temps : Names(tmp, t)

At(t, at) == save[t].at = at /\ ProcOf[t] \in up
Goto(t, at) == save' = [save EXCEPT ![t].at = at]

\* The content of t's temporary file changes.
Writes(t, content) ==
  temps' = (temps \ {TempOf(t)}) \cup {[TempOf(t) EXCEPT !.content = content]}

\* A call fails, and the temporary file is removed.
Fails(t) ==
  /\ failures < MaxFailures /\ failures' = failures + 1
  /\ Goto(t, "clean")

\* temporary_sibling.
StartSave(t, f, value) ==
  /\ At(t, "idle")
  /\ save' = [save EXCEPT ![t] = [at |-> "create", file |-> f, value |-> value,
                                  seq |-> sequence[ProcOf[t]]]]
  /\ sequence' = [sequence EXCEPT ![ProcOf[t]] = @ + 1]
  /\ UNCHANGED <<visible, stable, temps, up, stops, failures>>

\* create_new refuses a name that is taken.
Create(t) ==
  /\ At(t, "create")
  /\ \/ /\ \A tmp \in temps : ~Names(tmp, t)
        /\ temps' = temps \cup {[file |-> save[t].file, proc |-> ProcOf[t], seq |-> save[t].seq,
                                 content |-> [value |-> save[t].value, whole |-> FALSE,
                                              flushed |-> FALSE],
                                 orphan |-> FALSE, stuck |-> FALSE]}
        /\ Goto(t, "write") /\ UNCHANGED failures
     \/ /\ \E tmp \in temps : Names(tmp, t)
        /\ Goto(t, "clean") /\ UNCHANGED <<temps, failures>>
     \/ Fails(t) /\ UNCHANGED temps
  /\ UNCHANGED <<visible, stable, sequence, up, stops>>

WriteAll(t) ==
  /\ At(t, "write")
  /\ \/ Writes(t, [TempOf(t).content EXCEPT !.whole = TRUE])
        /\ Goto(t, "flush") /\ UNCHANGED failures
     \/ Fails(t) /\ UNCHANGED temps
  /\ UNCHANGED <<visible, stable, sequence, up, stops>>

\* Mutant of Flush: sync_all is left out.
SkipFlush(t) ==
  /\ At(t, "flush")
  /\ Goto(t, "replace")
  /\ UNCHANGED <<visible, stable, temps, sequence, up, stops, failures>>

Flush(t) ==
  /\ At(t, "flush")
  /\ \/ Writes(t, [TempOf(t).content EXCEPT !.flushed = TRUE])
        /\ Goto(t, "replace") /\ UNCHANGED failures
     \/ Fails(t) /\ UNCHANGED temps
  /\ UNCHANGED <<visible, stable, sequence, up, stops>>

\* replace_file: the folder's own entry reaches the disk whenever the system likes.
Replace(t) ==
  LET content == TempOf(t).content IN
  /\ At(t, "replace")
  /\ \/ /\ visible' = [visible EXCEPT ![save[t].file] = content]
        /\ stable' = [stable EXCEPT ![save[t].file] = @ \cup {content}]
        /\ temps' = temps \ {TempOf(t)}
        /\ Goto(t, "sync") /\ UNCHANGED failures
     \/ Fails(t) /\ UNCHANGED <<visible, stable, temps>>
  /\ UNCHANGED <<sequence, up, stops>>

\* sync_parent, whose failure is ignored.
SyncParent(t) ==
  LET f == save[t].file IN
  /\ At(t, "sync")
  /\ \/ stable' = [stable EXCEPT ![f] = {visible[f]}]
     \/ UNCHANGED stable
  /\ Goto(t, "saved")
  /\ UNCHANGED <<visible, temps, sequence, up, stops, failures>>

\* Mutant of CleanUp: the temporary file stays.
CleanNothing(t) ==
  /\ At(t, "clean")
  /\ Goto(t, "failed")
  /\ UNCHANGED <<visible, stable, temps, sequence, up, stops, failures>>

\* remove_file, whose own failure is ignored: the file stays then.
CleanUp(t) ==
  LET own == {tmp \in temps : Names(tmp, t)} IN
  /\ At(t, "clean")
  /\ \/ temps' = temps \ own /\ UNCHANGED failures
     \/ /\ failures < MaxFailures /\ failures' = failures + 1
        /\ temps' = (temps \ own) \cup {[tmp EXCEPT !.stuck = TRUE] : tmp \in own}
  /\ Goto(t, "failed")
  /\ UNCHANGED <<visible, stable, sequence, up, stops>>

\* write returns.
EndSave(t) ==
  /\ At(t, "saved") \/ At(t, "failed")
  /\ save' = [save EXCEPT ![t] = Idle]
  /\ UNCHANGED <<visible, stable, temps, sequence, up, stops, failures>>

WriteStep(t) ==
  Create(t) \/ WriteAll(t) \/ Flush(t) \/ Replace(t) \/ SyncParent(t) \/ CleanUp(t)

-----------------------------------------------------------------------------
(* Processes and the machine stop and start again.                         *)

Stopped(dead) ==
  /\ stops < MaxStops /\ stops' = stops + 1
  /\ up' = up \ dead
  /\ save' = [t \in Threads |-> IF ProcOf[t] \in dead THEN Idle ELSE save[t]]
  /\ UNCHANGED failures

Orphaned(dead) ==
  {[tmp EXCEPT !.orphan = tmp.orphan \/ tmp.proc \in dead] : tmp \in temps}

CrashProcess(p) ==
  /\ p \in up
  /\ Stopped({p})
  /\ temps' = Orphaned({p})
  /\ UNCHANGED <<visible, stable, sequence>>

\* What a content is once the power is back.
Found(content) ==
  IF content = None THEN None
  ELSE [content EXCEPT !.whole = @ /\ content.flushed, !.flushed = TRUE]

PowerFails ==
  /\ up # {}
  /\ Stopped(Procs)
  /\ \E kept \in SUBSET Orphaned(Procs) : temps' = kept
  /\ visible' \in [Files -> {Found(c) : c \in UNION {stable[f] : f \in Files}}]
  /\ \A f \in Files : visible'[f] \in {Found(c) : c \in stable[f]}
  /\ stable' = [f \in Files |-> {visible'[f]}]
  /\ UNCHANGED sequence

Restart(p) ==
  /\ p \notin up
  /\ up' = up \cup {p}
  /\ sequence' = [sequence EXCEPT ![p] = 1]
  /\ UNCHANGED <<visible, stable, temps, save, stops, failures>>

-----------------------------------------------------------------------------
(* Properties.                                                             *)

Whole(content) == content = None \/ (content.whole /\ content.flushed)

\* Whoever reads a saved file, whenever a process or the machine stops and whatever
\* fails, finds an old or a new content of it and never a part of one.
FilesAreWhole ==
  \A f \in Files : Whole(visible[f]) /\ \A c \in stable[f] : Whole(c)

\* A temporary file belongs to a save that is under way, or to a process that has
\* stopped, unless two calls have failed, one of the save and then the removal
\* (atomic_file.rs:31): a single failure leaves none behind.
TempsAreOwned ==
  \A tmp \in temps :
    \/ tmp.orphan
    \/ tmp.stuck /\ failures > 1
    \/ \E t \in Threads : save[t].at \in {"write", "flush", "replace", "clean"} /\ Names(tmp, t)
=============================================================================
