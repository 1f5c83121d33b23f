-------------------------- MODULE CacheWriter_proofs --------------------------
(* Proofs about CacheWriter and the saves of AtomicFile below it: whoever   *)
(* reads a saved file finds all of an old or of a new content, for any       *)
(* processes, threads, crashes, power failures and failed calls.             *)
EXTENDS CacheWriter, FiniteSetTheorems, TLAPS

Working == {"write", "flush", "replace"}

OneName == \A a, b \in temps : a.file = b.file /\ a.proc = b.proc /\ a.seq = b.seq => a = b

\* A save has a sequence of its own, and its temporary file while it fills it.
Sound(t) ==
  /\ save[t].at # "idle" => ProcOf[t] \in up /\ save[t].seq < sequence[ProcOf[t]]
  /\ save[t].at \in Working =>
       \E tmp \in temps : /\ Names(tmp, t)
                          /\ save[t].at # "write" => tmp.content.whole
                          /\ save[t].at = "replace" => tmp.content.flushed

OwnNames ==
  \A t, u \in Threads :
    save[t].at # "idle" /\ save[u].at # "idle" /\ ProcOf[t] = ProcOf[u]
      => save[t].seq # save[u].seq \/ t = u

\* A save that finds its own file there when it cleans up has failed.
Blamed ==
  \A t \in Threads, tmp \in temps :
    save[t].at = "clean" /\ Names(tmp, t) => tmp.orphan \/ failures > 0

SavesInv == OneName /\ (\A t \in Threads : Sound(t)) /\ OwnNames /\ Blamed /\ TempsAreOwned

FilesInv == FilesTypeOK /\ SavesInv /\ FilesAreWhole

-----------------------------------------------------------------------------
LEMMA IdleIsSave == Idle \in Save /\ Idle.at = "idle"
<1>1. \E f \in Files : TRUE
  BY CacheWriterAssumption
<1> QED
  BY <1>1 DEF Idle, Save

\* The temporary file of a save that is at work.
LEMMA TempIsOwn ==
  ASSUME FilesInv, NEW t \in Threads, save[t].at \in Working
  PROVE  /\ TempOf(t) \in temps /\ Names(TempOf(t), t)
         /\ save[t].at # "write" => TempOf(t).content.whole
         /\ save[t].at = "replace" => TempOf(t).content.flushed
         /\ \A tmp \in temps : Names(tmp, t) => tmp = TempOf(t)
<1>1. PICK tmp \in temps : /\ Names(tmp, t)
                           /\ save[t].at # "write" => tmp.content.whole
                           /\ save[t].at = "replace" => tmp.content.flushed
  BY DEF FilesInv, SavesInv, Sound
<1>2. TempOf(t) \in temps /\ Names(TempOf(t), t)
  BY <1>1 DEF TempOf
<1>3. \A other \in temps : Names(other, t) => other = TempOf(t)
  BY <1>2 DEF FilesInv, SavesInv, OneName, Names
<1> QED
  BY <1>1, <1>2, <1>3

\* A save goes on and touches no temporary file but its own.
LEMMA ThreadStep ==
  ASSUME FilesInv, NEW t \in Threads, NEW at, at # "idle",
         save[t].at # "idle", ProcOf[t] \in up, Goto(t, at), UNCHANGED <<sequence, up>>,
         \A tmp : ~Names(tmp, t) => (tmp \in temps' <=> tmp \in temps),
         \A a, b \in temps' : Names(a, t) /\ Names(b, t) => a = b,
         at \in Working =>
           \E tmp \in temps' : /\ Names(tmp, t)
                               /\ at # "write" => tmp.content.whole
                               /\ at = "replace" => tmp.content.flushed,
         failures' \in Nat, failures' >= failures,
         \A tmp \in temps' : Names(tmp, t) =>
           \/ tmp.orphan \/ (tmp.stuck /\ failures' > 1)
           \/ at \in Working \/ (at = "clean" /\ failures' > 0)
  PROVE  SavesInv'
<1>0. failures \in Nat
  BY AtomicFileAssumption DEF FilesInv, FilesTypeOK
<1>1. /\ save'[t].at = at /\ save'[t].file = save[t].file /\ save'[t].seq = save[t].seq
      /\ \A u \in Threads \ {t} : save'[u] = save[u]
  BY DEF Goto, FilesInv, FilesTypeOK, Save
<1>2. \A tmp : \A u \in Threads : Names(tmp, u)' <=> Names(tmp, u)
  BY <1>1 DEF Names
<1>3. OneName'
  <2> SUFFICES ASSUME NEW a \in temps', NEW b \in temps',
                      a.file = b.file, a.proc = b.proc, a.seq = b.seq
               PROVE  a = b
    BY DEF OneName
  <2>1. Names(a, t) <=> Names(b, t)
    BY DEF Names
  <2>2. CASE Names(a, t)
    BY <2>1, <2>2
  <2>3. CASE ~Names(a, t)
    BY <2>1, <2>3 DEF FilesInv, SavesInv, OneName
  <2> QED
    BY <2>2, <2>3
<1>4. OwnNames'
  BY <1>1 DEF FilesInv, SavesInv, OwnNames
<1>5. ASSUME NEW u \in Threads \ {t}, save[u].at # "idle" PROVE \A tmp : ~(Names(tmp, u) /\ Names(tmp, t))
  BY <1>5 DEF FilesInv, SavesInv, OwnNames, Names
<1>6. ASSUME NEW u \in Threads PROVE Sound(u)'
  <2>1. CASE u = t
    BY <1>1, <1>2, <2>1 DEF FilesInv, SavesInv, Sound
  <2>2. CASE u # t
    <3>1. save'[u] = save[u] /\ Sound(u)
      BY <1>1, <2>2 DEF FilesInv, SavesInv
    <3>2. CASE save[u].at \in Working
      <4>1. PICK tmp \in temps : /\ Names(tmp, u)
                                 /\ save[u].at # "write" => tmp.content.whole
                                 /\ save[u].at = "replace" => tmp.content.flushed
        BY <3>1, <3>2 DEF Sound
      <4>2. ~Names(tmp, t)
        BY <1>5, <2>2, <3>2, <4>1 DEF Working
      <4>3. tmp \in temps' /\ Names(tmp, u)'
        BY <1>2, <4>1, <4>2
      <4> QED
        BY <3>1, <4>1, <4>3 DEF Sound
    <3>3. CASE save[u].at \notin Working
      BY <3>1, <3>3 DEF Sound
    <3> QED
      BY <3>2, <3>3
  <2> QED
    BY <2>1, <2>2
<1>7. TempsAreOwned'
  <2> SUFFICES ASSUME NEW tmp \in temps', ~tmp.orphan, ~(tmp.stuck /\ failures' > 1)
               PROVE  \E u \in Threads : /\ save'[u].at \in {"write", "flush", "replace", "clean"}
                                         /\ Names(tmp, u)'
    BY DEF TempsAreOwned
  <2>1. CASE Names(tmp, t)
    BY <1>1, <1>2, <2>1 DEF Working
  <2>2. CASE ~Names(tmp, t)
    <3>1. PICK u \in Threads : /\ save[u].at \in {"write", "flush", "replace", "clean"}
                               /\ Names(tmp, u)
      BY <1>0, <2>2 DEF FilesInv, SavesInv, TempsAreOwned
    <3>2. u # t
      BY <2>2, <3>1
    <3> QED
      BY <1>1, <1>2, <3>1, <3>2
  <2> QED
    BY <2>1, <2>2
<1>8. Blamed'
  <2> SUFFICES ASSUME NEW u \in Threads, NEW tmp \in temps',
                      save'[u].at = "clean", Names(tmp, u)'
               PROVE  tmp.orphan \/ failures' > 0
    BY DEF Blamed
  <2>1. Names(tmp, u)
    BY <1>2
  <2>2. CASE u = t
    BY <1>1, <2>1, <2>2 DEF Working
  <2>3. CASE u # t
    <3>1. save[u].at = "clean" /\ ~Names(tmp, t)
      BY <1>1, <1>5, <2>1, <2>3
    <3>2. tmp \in temps
      BY <3>1
    <3> QED
      BY <1>0, <2>1, <3>1, <3>2 DEF FilesInv, SavesInv, Blamed
  <2> QED
    BY <2>2, <2>3
<1> QED
  BY <1>3, <1>4, <1>6, <1>7, <1>8 DEF SavesInv

-----------------------------------------------------------------------------
(* The steps of a save.                                                     *)

LEMMA GotoTypes ==
  ASSUME FilesInv, NEW t \in Threads, NEW at \in {"create", "write", "flush", "replace", "sync",
                                                  "saved", "clean", "failed"}, Goto(t, at)
  PROVE  save' \in [Threads -> Save]
BY DEF FilesInv, FilesTypeOK, Goto, Save

LEMMA FailStep ==
  ASSUME FilesInv, NEW t \in Threads, ProcOf[t] \in up, save[t].at \in Working \cup {"create"},
         Fails(t), UNCHANGED <<visible, stable, temps, sequence, up, stops>>
  PROVE  FilesInv'
<1>1. /\ Goto(t, "clean") /\ failures' \in 0..MaxFailures
      /\ failures' \in Nat /\ failures' > 0 /\ failures' >= failures
  BY AtomicFileAssumption DEF Fails, FilesInv, FilesTypeOK
<1>2. FilesTypeOK'
  BY <1>1, GotoTypes DEF FilesInv, FilesTypeOK
<1>3. \A a, b \in temps : Names(a, t) /\ Names(b, t) => a = b
  BY DEF FilesInv, SavesInv, OneName, Names
<1>4. SavesInv'
  BY <1>1, <1>3, ThreadStep DEF Working
<1> QED
  BY <1>2, <1>4 DEF FilesInv, FilesAreWhole

LEMMA CreateStep == \A t \in Threads : FilesInv /\ Create(t) => FilesInv'
<1> SUFFICES ASSUME NEW t \in Threads, FilesInv, Create(t) PROVE FilesInv'
  OBVIOUS
<1>1. /\ save[t].at = "create" /\ ProcOf[t] \in up
      /\ UNCHANGED <<visible, stable, sequence, up, stops>> /\ failures \in Nat
  BY AtomicFileAssumption DEF Create, At, FilesInv, FilesTypeOK
<1>2. CASE Fails(t) /\ UNCHANGED temps
  BY <1>1, <1>2, FailStep
<1> DEFINE new == [file |-> save[t].file, proc |-> ProcOf[t], seq |-> save[t].seq,
                   content |-> [value |-> save[t].value, whole |-> FALSE, flushed |-> FALSE],
                   orphan |-> FALSE, stuck |-> FALSE]
<1>3. CASE /\ \A tmp \in temps : ~Names(tmp, t)
           /\ temps' = temps \cup {new} /\ Goto(t, "write") /\ UNCHANGED failures
  <2>1. new \in Temp /\ Names(new, t)
    BY AtomicFileAssumption DEF FilesInv, FilesTypeOK, Temp, Content, Save, Names
  <2> HIDE DEF new
  <2>2. FilesTypeOK'
    BY <1>1, <1>3, <2>1, GotoTypes DEF FilesInv, FilesTypeOK
  <2>3. SavesInv'
    BY <1>1, <1>3, <2>1, ThreadStep DEF Working
  <2> QED
    BY <1>1, <2>2, <2>3 DEF FilesInv, FilesAreWhole
<1>4. CASE Goto(t, "clean") /\ UNCHANGED <<temps, failures>>
  <2>1. FilesTypeOK'
    BY <1>1, <1>4, GotoTypes DEF FilesInv, FilesTypeOK
  <2>2. \A a, b \in temps : Names(a, t) /\ Names(b, t) => a = b
    BY DEF FilesInv, SavesInv, OneName, Names
  <2>3. \A tmp \in temps : Names(tmp, t) => tmp.orphan \/ (tmp.stuck /\ failures > 1)
    BY <1>1 DEF FilesInv, SavesInv, TempsAreOwned, OwnNames, Names
  <2>4. SavesInv'
    BY <1>1, <1>4, <2>2, <2>3, ThreadStep DEF Working
  <2> QED
    BY <1>1, <2>1, <2>4 DEF FilesInv, FilesAreWhole
<1> QED
  BY <1>2, <1>3, <1>4 DEF Create

\* What is written goes into the save's own temporary file.
LEMMA FillStep ==
  ASSUME FilesInv, NEW t \in Threads, ProcOf[t] \in up, save[t].at \in Working,
         NEW content \in Content, NEW at \in {"flush", "replace"},
         Writes(t, content), Goto(t, at),
         content.whole, at = "replace" => content.flushed,
         UNCHANGED <<visible, stable, sequence, up, stops, failures>>
  PROVE  FilesInv'
<1> DEFINE old == TempOf(t)
           new == [old EXCEPT !.content = content]
<1>1. /\ old \in temps /\ Names(old, t)
      /\ \A tmp \in temps : Names(tmp, t) => tmp = old
  BY TempIsOwn
<1>2. temps' = (temps \ {old}) \cup {new}
  BY DEF Writes
<1> HIDE DEF old
<1>3. old \in Temp
  BY <1>1 DEF FilesInv, FilesTypeOK
<1>4. new \in Temp /\ Names(new, t) /\ new.content = content
  BY <1>1, <1>3 DEF Temp, Names
<1> HIDE DEF new
<1>5. FilesTypeOK'
  BY <1>2, <1>4, GotoTypes DEF FilesInv, FilesTypeOK
<1>6. \A tmp : ~Names(tmp, t) => (tmp \in temps' <=> tmp \in temps)
  BY <1>1, <1>2, <1>4
<1>7. \A tmp \in temps' : Names(tmp, t) => tmp = new
  BY <1>1, <1>2
<1>8. failures \in Nat
  BY AtomicFileAssumption DEF FilesInv, FilesTypeOK
<1>9. SavesInv'
  BY <1>2, <1>4, <1>6, <1>7, <1>8, ThreadStep DEF Working
<1> QED
  BY <1>5, <1>9 DEF FilesInv, FilesAreWhole

LEMMA WriteAndFlush == \A t \in Threads : FilesInv /\ (WriteAll(t) \/ Flush(t)) => FilesInv'
<1> SUFFICES ASSUME NEW t \in Threads, FilesInv, WriteAll(t) \/ Flush(t) PROVE FilesInv'
  OBVIOUS
<1>1. /\ save[t].at \in {"write", "flush"} /\ ProcOf[t] \in up
      /\ UNCHANGED <<visible, stable, sequence, up, stops>>
  BY DEF WriteAll, Flush, At
<1>2. CASE Fails(t) /\ UNCHANGED temps
  BY <1>1, <1>2, FailStep DEF Working
<1>3. TempOf(t).content \in Content
  BY <1>1, TempIsOwn DEF Working, FilesInv, FilesTypeOK, Temp
<1>4. CASE /\ Writes(t, [TempOf(t).content EXCEPT !.whole = TRUE])
           /\ Goto(t, "flush") /\ UNCHANGED failures
  <2> DEFINE content == [TempOf(t).content EXCEPT !.whole = TRUE]
  <2>1. content \in Content /\ content.whole
    BY <1>3 DEF Content
  <2> HIDE DEF content
  <2>2. Writes(t, content)
    BY <1>4 DEF content
  <2> QED
    BY <1>1, <1>4, <2>1, <2>2, FillStep DEF Working
<1>5. CASE /\ save[t].at = "flush" /\ Writes(t, [TempOf(t).content EXCEPT !.flushed = TRUE])
           /\ Goto(t, "replace") /\ UNCHANGED failures
  <2> DEFINE content == [TempOf(t).content EXCEPT !.flushed = TRUE]
  <2>1. TempOf(t).content.whole
    BY <1>1, <1>5, TempIsOwn DEF Working
  <2>2. content \in Content /\ content.whole /\ content.flushed
    BY <1>3, <2>1 DEF Content
  <2> HIDE DEF content
  <2>3. Writes(t, content)
    BY <1>5 DEF content
  <2> QED
    BY <1>1, <1>5, <2>2, <2>3, FillStep DEF Working
<1> QED
  BY <1>2, <1>4, <1>5 DEF WriteAll, Flush, At

\* Only what is whole and flushed takes the place of a saved file.
LEMMA ReplaceStep == \A t \in Threads : FilesInv /\ Replace(t) => FilesInv'
<1> SUFFICES ASSUME NEW t \in Threads, FilesInv, Replace(t) PROVE FilesInv'
  OBVIOUS
<1> DEFINE content == TempOf(t).content
<1>1. save[t].at = "replace" /\ ProcOf[t] \in up /\ UNCHANGED <<sequence, up, stops>>
  BY DEF Replace, At
<1> failures \in Nat
  BY AtomicFileAssumption DEF FilesInv, FilesTypeOK
<1>2. CASE Fails(t) /\ UNCHANGED <<visible, stable, temps>>
  BY <1>1, <1>2, FailStep DEF Working
<1>3. CASE /\ visible' = [visible EXCEPT ![save[t].file] = content]
           /\ stable' = [stable EXCEPT ![save[t].file] = @ \cup {content}]
           /\ temps' = temps \ {TempOf(t)} /\ Goto(t, "sync") /\ UNCHANGED failures
  <2>1. /\ TempOf(t) \in temps /\ Names(TempOf(t), t)
        /\ content.whole /\ content.flushed
        /\ \A tmp \in temps : Names(tmp, t) => tmp = TempOf(t)
    BY <1>1, TempIsOwn DEF Working
  <2>2. content \in Content /\ save[t].file \in Files
    BY <2>1 DEF FilesInv, FilesTypeOK, Temp, Save
  <2> HIDE DEF content
  <2>3. /\ visible' \in [Files -> Content \cup {None}]
        /\ stable' \in [Files -> SUBSET (Content \cup {None})]
    BY <1>3, <2>2 DEF FilesInv, FilesTypeOK
  <2>4. FilesTypeOK'
    BY <1>1, <1>3, <2>3, GotoTypes DEF FilesInv, FilesTypeOK
  <2>5. SavesInv'
    BY <1>1, <1>3, <2>1, ThreadStep DEF Working
  <2>6. FilesAreWhole'
    <3>1. Whole(content)
      BY <2>1 DEF Whole, content
    <3> QED
      BY <1>3, <2>2, <3>1 DEF FilesInv, FilesTypeOK, FilesAreWhole
  <2> QED
    BY <2>4, <2>5, <2>6 DEF FilesInv
<1> QED
  BY <1>2, <1>3 DEF Replace

LEMMA SyncStep == \A t \in Threads : FilesInv /\ SyncParent(t) => FilesInv'
<1> SUFFICES ASSUME NEW t \in Threads, FilesInv, SyncParent(t) PROVE FilesInv'
  OBVIOUS
<1>1. /\ save[t].at = "sync" /\ ProcOf[t] \in up /\ Goto(t, "saved")
      /\ UNCHANGED <<visible, temps, sequence, up, stops, failures>>
      /\ stable' = stable \/ stable' = [stable EXCEPT ![save[t].file] = {visible[save[t].file]}]
  BY DEF SyncParent, At
<1>2. save[t].file \in Files /\ failures \in Nat
  BY AtomicFileAssumption DEF FilesInv, FilesTypeOK, Save
<1>3. stable' \in [Files -> SUBSET (Content \cup {None})] /\ FilesAreWhole'
  BY <1>1, <1>2 DEF FilesInv, FilesTypeOK, FilesAreWhole
<1>4. FilesTypeOK'
  BY <1>1, <1>3, GotoTypes DEF FilesInv, FilesTypeOK
<1>5. \A tmp \in temps : Names(tmp, t) => tmp.orphan \/ (tmp.stuck /\ failures > 1)
  BY <1>1 DEF FilesInv, SavesInv, TempsAreOwned, OwnNames, Names
<1>6. \A a, b \in temps : Names(a, t) /\ Names(b, t) => a = b
  BY DEF FilesInv, SavesInv, OneName, Names
<1>7. SavesInv'
  BY <1>1, <1>2, <1>5, <1>6, ThreadStep DEF Working
<1> QED
  BY <1>3, <1>4, <1>7 DEF FilesInv

LEMMA CleanStep == \A t \in Threads : FilesInv /\ CleanUp(t) => FilesInv'
<1> SUFFICES ASSUME NEW t \in Threads, FilesInv, CleanUp(t) PROVE FilesInv'
  OBVIOUS
<1> DEFINE own == {tmp \in temps : Names(tmp, t)}
           kept == {[tmp EXCEPT !.stuck = TRUE] : tmp \in own}
<1>1. /\ save[t].at = "clean" /\ ProcOf[t] \in up /\ Goto(t, "failed")
      /\ \/ temps' = temps \ own /\ failures' = failures
         \/ /\ temps' = (temps \ own) \cup kept
            /\ failures < MaxFailures /\ failures' = failures + 1
      /\ UNCHANGED <<visible, stable, sequence, up, stops>>
  BY DEF CleanUp, At
<1>2. \A new \in kept : /\ new \in Temp /\ Names(new, t) /\ new.stuck
                        /\ \E tmp \in own : new = [tmp EXCEPT !.stuck = TRUE]
  <2> SUFFICES ASSUME NEW new \in kept
               PROVE  /\ new \in Temp /\ Names(new, t) /\ new.stuck
                      /\ \E tmp \in own : new = [tmp EXCEPT !.stuck = TRUE]
    OBVIOUS
  <2>1. PICK tmp \in own : new = [tmp EXCEPT !.stuck = TRUE]
    OBVIOUS
  <2>2. tmp \in Temp /\ Names(tmp, t)
    BY DEF FilesInv, FilesTypeOK
  <2>3. /\ new \in Temp /\ new.file = tmp.file /\ new.proc = tmp.proc /\ new.seq = tmp.seq
        /\ new.stuck
    BY <2>1, <2>2 DEF Temp
  <2> QED
    BY <2>1, <2>2, <2>3 DEF Names
<1>3. \A a, b \in own : a = b
  BY DEF FilesInv, SavesInv, OneName, Names
<1>4. \A a, b \in kept : a = b
  BY <1>2, <1>3
<1> HIDE DEF kept
<1>5. failures' \in 0..MaxFailures /\ failures \in Nat /\ failures' >= failures
  BY <1>1, AtomicFileAssumption DEF FilesInv, FilesTypeOK
<1>6. temps' \subseteq Temp
  BY <1>1, <1>2 DEF FilesInv, FilesTypeOK
<1>7. FilesTypeOK'
  BY <1>1, <1>5, <1>6, GotoTypes DEF FilesInv, FilesTypeOK
<1>8. SavesInv'
  <2>1. \A tmp : ~Names(tmp, t) => (tmp \in temps' <=> tmp \in temps)
    BY <1>1, <1>2
  <2>2. \A a \in temps' : Names(a, t) => a \in kept
    BY <1>1, <1>2
  <2>3. ASSUME NEW new \in kept, kept \cap temps' # {} PROVE new.orphan \/ (new.stuck /\ failures' > 1)
    <3>1. PICK tmp \in own : new = [tmp EXCEPT !.stuck = TRUE]
      BY <1>2
    <3>2. tmp \in Temp /\ Names(tmp, t)
      BY DEF FilesInv, FilesTypeOK
    <3>3. new.orphan = tmp.orphan
      BY <3>1, <3>2 DEF Temp
    <3>4. tmp.orphan \/ failures > 0
      BY <1>1 DEF FilesInv, SavesInv, Blamed
    <3> QED
      BY <1>1, <1>2, <1>5, <2>3, <3>3, <3>4
  <2> QED
    BY <1>1, <1>4, <1>5, <2>1, <2>2, <2>3, ThreadStep DEF Working
<1> QED
  BY <1>1, <1>7, <1>8 DEF FilesInv, FilesAreWhole

LEMMA SavingStep == \A t \in Threads : FilesInv /\ WriteStep(t) => FilesInv'
BY CreateStep, WriteAndFlush, ReplaceStep, SyncStep, CleanStep DEF WriteStep

-----------------------------------------------------------------------------
(* Saves begin and end.                                                     *)

LEMMA StartStep ==
  ASSUME FilesInv, NEW t \in Threads, NEW f \in Files, NEW value \in Nat, StartSave(t, f, value)
  PROVE  FilesInv'
<1> DEFINE p == ProcOf[t]
<1>1. /\ save[t].at = "idle" /\ p \in up /\ p \in Procs
      /\ save' = [save EXCEPT ![t] = [at |-> "create", file |-> f, value |-> value,
                                      seq |-> sequence[p]]]
      /\ sequence' = [sequence EXCEPT ![p] = @ + 1]
      /\ UNCHANGED <<visible, stable, temps, up, stops, failures>>
  BY DEF StartSave, At, FilesInv, FilesTypeOK
<1> HIDE DEF p
<1>2. FilesTypeOK'
  <2>1. sequence[p] \in Nat
    BY <1>1 DEF FilesInv, FilesTypeOK
  <2>2. sequence' \in [Procs -> Nat]
    BY <1>1, <2>1 DEF FilesInv, FilesTypeOK
  <2>3. save' \in [Threads -> Save]
    BY <1>1, <2>1 DEF FilesInv, FilesTypeOK, Save
  <2> QED
    BY <1>1, <2>2, <2>3 DEF FilesInv, FilesTypeOK
<1>3. /\ save'[t].at = "create" /\ save'[t].seq = sequence[p]
      /\ \A u \in Threads \ {t} : save'[u] = save[u]
      /\ \A q \in Procs : sequence'[q] = IF q = p THEN sequence[p] + 1 ELSE sequence[q]
      /\ \A q \in Procs : sequence[q] \in Nat
      /\ \A u \in Threads : save[u].seq \in Nat /\ ProcOf[u] \in Procs
  BY <1>1, AtomicFileAssumption DEF FilesInv, FilesTypeOK, Save
<1>4. \A tmp : \A u \in Threads \ {t} : Names(tmp, u)' <=> Names(tmp, u)
  BY <1>3 DEF Names
<1>5. ASSUME NEW u \in Threads PROVE Sound(u)'
  <2>1. CASE u = t
    BY <1>1, <1>3, <2>1 DEF Sound, Working, p
  <2>2. CASE u # t
    <3>1. Sound(u)
      BY DEF FilesInv, SavesInv
    <3>2. save[u].at # "idle" => ProcOf[u] \in up' /\ save[u].seq < sequence'[ProcOf[u]]
      BY <1>1, <1>3, <3>1 DEF Sound
    <3> QED
      BY <1>1, <1>3, <1>4, <2>2, <3>1, <3>2 DEF Sound
  <2> QED
    BY <2>1, <2>2
<1>6. OwnNames'
  <2>1. \A u \in Threads \ {t} : save[u].at # "idle" /\ ProcOf[u] = p => save[u].seq < sequence[p]
    BY DEF FilesInv, SavesInv, Sound
  <2>2. \A u \in Threads \ {t} : save[u].at # "idle" /\ ProcOf[u] = p => save[u].seq # sequence[p]
    BY <1>1, <1>3, <2>1
  <2> QED
    BY <1>3, <2>2 DEF FilesInv, SavesInv, OwnNames, p
<1>7. OneName' /\ Blamed' /\ TempsAreOwned'
  <2>1. \A u \in Threads : save[u].at \in {"write", "flush", "replace", "clean"} => u # t
    BY <1>1
  <2> QED
    BY <1>1, <1>3, <1>4, <2>1 DEF FilesInv, SavesInv, OneName, Blamed, TempsAreOwned
<1> QED
  BY <1>1, <1>2, <1>5, <1>6, <1>7 DEF FilesInv, SavesInv, FilesAreWhole

LEMMA EndStep == \A t \in Threads : FilesInv /\ EndSave(t) => FilesInv'
<1> SUFFICES ASSUME NEW t \in Threads, FilesInv, EndSave(t) PROVE FilesInv'
  OBVIOUS
<1>1. /\ save[t].at \in {"saved", "failed"} /\ save' = [save EXCEPT ![t] = Idle]
      /\ UNCHANGED <<visible, stable, temps, sequence, up, stops, failures>>
  BY DEF EndSave, At
<1>2. FilesTypeOK'
  BY <1>1, IdleIsSave DEF FilesInv, FilesTypeOK
<1>3. save'[t].at = "idle" /\ \A u \in Threads \ {t} : save'[u] = save[u]
  BY <1>1, IdleIsSave DEF FilesInv, FilesTypeOK
<1>4. \A tmp : \A u \in Threads \ {t} : Names(tmp, u)' <=> Names(tmp, u)
  BY <1>3 DEF Names
<1>5. ASSUME NEW u \in Threads PROVE Sound(u)'
  BY <1>1, <1>3, <1>4 DEF FilesInv, SavesInv, Sound, Working
<1>6. OwnNames' /\ OneName' /\ Blamed'
  BY <1>1, <1>3, <1>4 DEF FilesInv, SavesInv, OwnNames, OneName, Blamed
<1>7. TempsAreOwned'
  <2>1. \A u \in Threads : save[u].at \in {"write", "flush", "replace", "clean"} => u # t
    BY <1>1
  <2> QED
    BY <1>1, <1>3, <1>4, <2>1 DEF FilesInv, SavesInv, TempsAreOwned
<1> QED
  BY <1>1, <1>2, <1>5, <1>6, <1>7 DEF FilesInv, SavesInv, FilesAreWhole

-----------------------------------------------------------------------------
(* Processes and the machine stop and start again.                          *)

LEMMA StoppedStep ==
  ASSUME FilesInv, NEW dead \in SUBSET Procs, Stopped(dead), UNCHANGED sequence,
         NEW kept \in SUBSET Orphaned(dead), temps' = kept,
         dead = Procs \/ kept = Orphaned(dead),
         visible' \in [Files -> Content \cup {None}],
         stable' \in [Files -> SUBSET (Content \cup {None})],
         FilesAreWhole'
  PROVE  FilesInv'
<1>1. /\ up' = up \ dead /\ stops' \in 0..MaxStops /\ failures' = failures
      /\ \A t \in Threads : save'[t] = IF ProcOf[t] \in dead THEN Idle ELSE save[t]
      /\ save' \in [Threads -> Save]
  BY AtomicFileAssumption, IdleIsSave DEF Stopped, FilesInv, FilesTypeOK
<1>2. ASSUME NEW new \in temps'
      PROVE  \E tmp \in temps : /\ new.file = tmp.file /\ new.proc = tmp.proc /\ new.seq = tmp.seq
                                /\ new.content = tmp.content /\ new \in Temp
                                /\ new.orphan = (tmp.orphan \/ tmp.proc \in dead)
                                /\ new.stuck = tmp.stuck
                                /\ new = [tmp EXCEPT !.orphan = tmp.orphan \/ tmp.proc \in dead]
  <2>1. PICK tmp \in temps : new = [tmp EXCEPT !.orphan = tmp.orphan \/ tmp.proc \in dead]
    BY <1>2 DEF Orphaned
  <2>2. tmp \in Temp /\ (tmp.orphan \/ tmp.proc \in dead) \in BOOLEAN
    BY DEF FilesInv, FilesTypeOK, Temp
  <2> QED
    BY <2>1, <2>2 DEF Temp
<1>3. FilesTypeOK'
  BY <1>1, <1>2 DEF FilesInv, FilesTypeOK
<1>4. OneName'
  BY <1>2 DEF FilesInv, SavesInv, OneName
<1>5. ASSUME NEW t \in Threads, save'[t].at # "idle"
      PROVE  ProcOf[t] \notin dead /\ save'[t] = save[t] /\ \A tmp : Names(tmp, t)' <=> Names(tmp, t)
  BY <1>1, <1>5, IdleIsSave DEF Names
<1>6. OwnNames'
  BY <1>5 DEF FilesInv, SavesInv, OwnNames
<1>7. ASSUME NEW t \in Threads PROVE Sound(t)'
  <2>1. CASE save'[t].at = "idle"
    BY <2>1 DEF Sound, Working
  <2>2. CASE save'[t].at # "idle"
    <3>1. /\ save'[t] = save[t] /\ ProcOf[t] \notin dead /\ Sound(t)
          /\ \A tmp : Names(tmp, t)' <=> Names(tmp, t)
      BY <1>5, <2>2 DEF FilesInv, SavesInv
    <3>2. CASE save[t].at \in Working
      <4>1. PICK tmp \in temps : /\ Names(tmp, t)
                                 /\ save[t].at # "write" => tmp.content.whole
                                 /\ save[t].at = "replace" => tmp.content.flushed
        BY <3>1, <3>2 DEF Sound
      <4> DEFINE new == [tmp EXCEPT !.orphan = tmp.orphan \/ tmp.proc \in dead]
      <4>2. ProcOf[t] \in Procs /\ dead # Procs
        BY <3>1, AtomicFileAssumption
      <4>3. new \in temps'
        BY <4>2 DEF Orphaned
      <4>4. tmp \in Temp
        BY DEF FilesInv, FilesTypeOK
      <4>5. new.content = tmp.content /\ Names(new, t)
        BY <4>1, <4>4 DEF Names, Temp
      <4> HIDE DEF new
      <4> QED
        BY <1>1, <3>1, <4>1, <4>3, <4>5 DEF Sound
    <3>3. CASE save[t].at \notin Working
      BY <1>1, <3>1, <3>3 DEF Sound
    <3> QED
      BY <3>2, <3>3
  <2> QED
    BY <2>1, <2>2
<1>8. TempsAreOwned'
  <2> SUFFICES ASSUME NEW new \in temps', ~new.orphan, ~(new.stuck /\ failures' > 1)
               PROVE  \E t \in Threads : /\ save'[t].at \in {"write", "flush", "replace", "clean"}
                                         /\ Names(new, t)'
    BY DEF TempsAreOwned
  <2>1. PICK tmp \in temps : /\ new.file = tmp.file /\ new.proc = tmp.proc /\ new.seq = tmp.seq
                             /\ new.stuck = tmp.stuck
                             /\ new.orphan = (tmp.orphan \/ tmp.proc \in dead)
    BY <1>2
  <2>2. ~tmp.orphan /\ ~(tmp.stuck /\ failures > 1) /\ tmp.proc \notin dead
    BY <1>1, <2>1
  <2>3. PICK t \in Threads : /\ save[t].at \in {"write", "flush", "replace", "clean"}
                             /\ Names(tmp, t)
    BY <2>2 DEF FilesInv, SavesInv, TempsAreOwned
  <2>4. save'[t] = save[t]
    BY <1>1, <2>2, <2>3 DEF Names
  <2> QED
    BY <2>1, <2>3, <2>4 DEF Names
<1>9. Blamed'
  <2> SUFFICES ASSUME NEW t \in Threads, NEW new \in temps', save'[t].at = "clean", Names(new, t)'
               PROVE  new.orphan \/ failures' > 0
    BY DEF Blamed
  <2>1. save[t].at = "clean" /\ Names(new, t)
    BY <1>5
  <2>2. PICK tmp \in temps : /\ new.file = tmp.file /\ new.proc = tmp.proc /\ new.seq = tmp.seq
                             /\ new.orphan = (tmp.orphan \/ tmp.proc \in dead)
    BY <1>2
  <2>3. tmp.orphan \/ failures > 0
    BY <2>1, <2>2 DEF FilesInv, SavesInv, Blamed, Names
  <2> QED
    BY <1>1, <2>2, <2>3
<1> QED
  BY <1>3, <1>4, <1>6, <1>7, <1>8, <1>9 DEF FilesInv, SavesInv

LEMMA CrashStep == \A p \in Procs : FilesInv /\ CrashProcess(p) => FilesInv'
<1> SUFFICES ASSUME NEW p \in Procs, FilesInv, CrashProcess(p) PROVE FilesInv'
  OBVIOUS
<1>1. /\ Stopped({p}) /\ temps' = Orphaned({p}) /\ UNCHANGED <<visible, stable, sequence>>
  BY DEF CrashProcess
<1>2. FilesAreWhole'
  BY <1>1 DEF FilesInv, FilesAreWhole
<1> QED
  BY <1>1, <1>2, StoppedStep DEF FilesInv, FilesTypeOK

\* Of what is whole and flushed the power takes nothing.
LEMMA PowerStep == FilesInv /\ PowerFails => FilesInv'
<1> SUFFICES ASSUME FilesInv, PowerFails PROVE FilesInv'
  OBVIOUS
<1>1. PICK kept \in SUBSET Orphaned(Procs) : temps' = kept
  BY DEF PowerFails
<1>2. /\ Stopped(Procs) /\ UNCHANGED sequence
      /\ \A f \in Files : visible'[f] \in {Found(c) : c \in stable[f]}
      /\ stable' = [f \in Files |-> {visible'[f]}]
      /\ visible' = [f \in Files |-> visible'[f]]
  BY DEF PowerFails
<1>3. ASSUME NEW f \in Files PROVE visible'[f] \in Content \cup {None} /\ Whole(visible'[f])
  <2>1. PICK c \in stable[f] : visible'[f] = Found(c)
    BY <1>2
  <2>2. Whole(c) /\ c \in Content \cup {None}
    BY DEF FilesInv, FilesTypeOK, FilesAreWhole
  <2>3. CASE c = None
    BY <2>1, <2>3 DEF Found, Whole
  <2>4. CASE c # None
    <3>1. c \in Content /\ c.whole /\ c.flushed
      BY <2>2, <2>4 DEF Whole
    <3>2. Found(c) = [c EXCEPT !.whole = c.whole /\ c.flushed, !.flushed = TRUE]
      BY <2>4 DEF Found
    <3>3. Found(c) \in Content /\ Found(c).whole /\ Found(c).flushed
      BY <3>1, <3>2 DEF Content
    <3> QED
      BY <2>1, <3>3 DEF Whole
  <2> QED
    BY <2>3, <2>4
<1>4. /\ visible' \in [Files -> Content \cup {None}]
      /\ stable' \in [Files -> SUBSET (Content \cup {None})]
      /\ FilesAreWhole'
  BY <1>2, <1>3 DEF FilesAreWhole
<1> QED
  BY <1>1, <1>2, <1>4, StoppedStep

\* A process that starts again has no save under way.
LEMMA RestartStep == \A p \in Procs : FilesInv /\ Restart(p) => FilesInv'
<1> SUFFICES ASSUME NEW p \in Procs, FilesInv, Restart(p) PROVE FilesInv'
  OBVIOUS
<1>1. /\ p \notin up /\ up' = up \cup {p} /\ sequence' = [sequence EXCEPT ![p] = 1]
      /\ UNCHANGED <<visible, stable, temps, save, stops, failures>>
  BY DEF Restart
<1>2. FilesTypeOK'
  BY <1>1 DEF FilesInv, FilesTypeOK
<1>3. ASSUME NEW t \in Threads PROVE Sound(t)'
  <2>1. Sound(t) /\ ProcOf[t] \in Procs
    BY AtomicFileAssumption DEF FilesInv, SavesInv
  <2>2. save[t].at # "idle" => ProcOf[t] # p
    BY <1>1, <2>1 DEF Sound
  <2>3. save[t].at # "idle" => sequence'[ProcOf[t]] = sequence[ProcOf[t]]
    BY <1>1, <2>1, <2>2 DEF FilesInv, FilesTypeOK
  <2> QED
    BY <1>1, <2>1, <2>3 DEF Sound, Names
<1> QED
  BY <1>1, <1>2, <1>3
  DEF FilesInv, SavesInv, FilesAreWhole, OneName, OwnNames, Blamed, TempsAreOwned, Names

-----------------------------------------------------------------------------
(* The window and the writer.                                               *)

LEMMA Constants ==
  /\ Caches \subseteq Files /\ Storage \in Files /\ Network \in Files /\ Session \in Files
  /\ \A p \in Procs : Window[p] \in Threads /\ Writer[p] \in Threads
BY CacheWriterAssumption DEF Caches

LEMMA FilesStay == FilesInv /\ UNCHANGED files => FilesInv'
BY DEF files, FilesInv, FilesTypeOK, SavesInv, FilesAreWhole, OneName, OwnNames, Blamed,
       TempsAreOwned, Sound, Names

LEMMA WindowStep ==
  ASSUME TypeOK, FilesInv, NEW p \in Procs,
         (\E c \in Caches : Schedule(p, c)) \/ Wake(p) \/ SaveSession(p) \/ Discover(p)
  PROVE  TypeOK' /\ FilesInv'
<1>1. known[p] \in Nat /\ saves[p] \in Nat
  BY CacheWriterAssumption DEF TypeOK
<1>2. CASE \E c \in Caches : Schedule(p, c)
  <2>1. PICK c \in Caches : Schedule(p, c)
    BY <1>2
  <2> DEFINE value == IF c = Network THEN known[p] ELSE saves[p] + 1
  <2>2. value \in Nat /\ c \in Files
    BY <1>1, Constants
  <2>3. /\ UNCHANGED files /\ UNCHANGED <<wake, writer, batch, known, done>>
        /\ pending' = [pending EXCEPT ![p][c] = value]
        /\ latest' = [latest EXCEPT ![p][c] = value]
        /\ saves' = [saves EXCEPT ![p] = @ + 1] /\ saves[p] < MaxSaves
        /\ window' = [window EXCEPT ![p] = "wake"]
    BY <2>1 DEF Schedule, Put, Counts, Ready
  <2> HIDE DEF value
  <2>4. /\ pending' \in [Procs -> Batch] /\ latest' \in [Procs -> [Files -> Nat]]
        /\ window' \in [Procs -> {"idle", "wake", "save"}]
    BY <2>2, <2>3 DEF TypeOK, Batch
  <2>5. saves' \in [Procs -> 0..MaxSaves]
    BY <2>3, <1>1, CacheWriterAssumption DEF TypeOK
  <2>6. FilesInv'
    BY <2>3, FilesStay
  <2> QED
    BY <2>3, <2>4, <2>5, <2>6 DEF TypeOK, FilesInv
<1>3. CASE SaveSession(p)
  <2>1. /\ StartSave(Window[p], Session, saves[p] + 1)
        /\ UNCHANGED <<pending, wake, writer, batch, known, done>>
        /\ latest' = [latest EXCEPT ![p][Session] = saves[p] + 1]
        /\ saves' = [saves EXCEPT ![p] = @ + 1] /\ saves[p] < MaxSaves
        /\ window' = [window EXCEPT ![p] = "save"]
    BY <1>3 DEF SaveSession, Counts, Ready
  <2>2. FilesInv'
    BY <1>1, <2>1, Constants, StartStep
  <2>3. latest' \in [Procs -> [Files -> Nat]] /\ window' \in [Procs -> {"idle", "wake", "save"}]
    BY <1>1, <2>1, Constants DEF TypeOK
  <2>4. saves' \in [Procs -> 0..MaxSaves]
    BY <2>1, <1>1, CacheWriterAssumption DEF TypeOK
  <2> QED
    BY <2>1, <2>2, <2>3, <2>4 DEF TypeOK, FilesInv
<1>4. CASE Wake(p) \/ Discover(p)
  <2>1. UNCHANGED files
    BY <1>4 DEF Wake, Discover
  <2>2. FilesInv'
    BY <2>1, FilesStay
  <2>3. FilesTypeOK'
    BY <2>2 DEF FilesInv
  <2>4. CASE Wake(p)
    BY <2>2, <2>3, <2>4 DEF Wake, TypeOK
  <2>5. CASE Discover(p)
    BY <1>1, <2>2, <2>3, <2>5 DEF Discover, TypeOK
  <2> QED
    BY <1>4, <2>4, <2>5
<1> QED
  BY <1>2, <1>3, <1>4

LEMMA WriterStep ==
  ASSUME TypeOK, FilesInv, NEW p \in Procs, WriterLoop(p)
  PROVE  TypeOK' /\ FilesInv'
<1>1. CASE Receive(p) \/ TakeBatch(p) \/ BatchEnds(p)
  <2>1. UNCHANGED files
    BY <1>1 DEF Receive, TakeBatch, BatchEnds
  <2>2. FilesInv'
    BY <2>1, FilesStay
  <2>3. NoBatch \in Batch
    BY DEF NoBatch, Batch
  <2>4. FilesTypeOK'
    BY <2>2 DEF FilesInv
  <2>5. CASE Receive(p)
    BY <2>2, <2>4, <2>5 DEF Receive, TypeOK
  <2>6. CASE TakeBatch(p)
    BY <2>2, <2>3, <2>4, <2>6 DEF TakeBatch, TypeOK
  <2>7. CASE BatchEnds(p)
    BY <2>2, <2>4, <2>7 DEF BatchEnds, TypeOK
  <2> QED
    BY <1>1, <2>5, <2>6, <2>7
<1>2. CASE SaveNext(p)
  <2> DEFINE c == IF batch[p][Storage] # None THEN Storage ELSE Network
             value == IF c = Network THEN known[p] ELSE batch[p][c]
  <2>1. /\ StartSave(Writer[p], c, value)
        /\ batch' = [batch EXCEPT ![p][c] = None]
        /\ UNCHANGED <<pending, wake, window, writer, known, saves, latest, done>>
    BY <1>2 DEF SaveNext
  <2>2. c \in Caches /\ value \in Nat
    BY DEF TypeOK, Batch, Caches
  <2> HIDE DEF c, value
  <2>3. FilesInv'
    BY <2>1, <2>2, Constants, StartStep
  <2>4. batch' \in [Procs -> Batch]
    BY <2>1, <2>2 DEF TypeOK, Batch
  <2> QED
    BY <2>1, <2>3, <2>4 DEF TypeOK, FilesInv
<1> QED
  BY <1>1, <1>2 DEF WriterLoop

LEMMA ThreadsStep ==
  ASSUME TypeOK, FilesInv, NEW t \in Threads, Thread(t)
  PROVE  TypeOK' /\ FilesInv'
<1>1. CASE Saving(t)
  <2>1. WriteStep(t) /\ UNCHANGED <<mem, latest, done>>
    BY <1>1 DEF Saving
  <2>2. FilesInv'
    BY <2>1, SavingStep
  <2> QED
    BY <2>1, <2>2 DEF mem, TypeOK, FilesInv
<1>2. CASE SaveEnds(t)
  <2> DEFINE p == ProcOf[t]
             result == IF save[t].at = "saved" THEN save[t].value ELSE None
  <2>1. /\ EndSave(t) /\ UNCHANGED <<pending, wake, writer, batch, known, saves, latest>>
        /\ done' = [done EXCEPT ![p][save[t].file] = result]
        /\ window' = IF t = Window[p] THEN [window EXCEPT ![p] = "idle"] ELSE window
    BY <1>2 DEF SaveEnds
  <2>2. p \in Procs /\ save[t].file \in Files /\ result \in Nat \cup {None}
    BY AtomicFileAssumption DEF FilesInv, FilesTypeOK, Save
  <2> HIDE DEF p, result
  <2>3. FilesInv'
    BY <2>1, EndStep
  <2>4. /\ done' \in [Procs -> [Files -> Nat \cup {None}]]
        /\ window' \in [Procs -> {"idle", "wake", "save"}]
    BY <2>1, <2>2 DEF TypeOK
  <2> QED
    BY <2>1, <2>3, <2>4 DEF TypeOK, FilesInv
<1> QED
  BY <1>1, <1>2 DEF Thread

\* What a process forgets leaves the rest as it is.
LEMMA ForgetTypes ==
  ASSUME TypeOK, NEW dead \in SUBSET Procs, Forget(dead)
  PROVE  /\ pending' \in [Procs -> Batch] /\ batch' \in [Procs -> Batch]
         /\ wake' \in [Procs -> BOOLEAN]
         /\ window' \in [Procs -> {"idle", "wake", "save"}]
         /\ writer' \in [Procs -> {"recv", "take", "save"}]
         /\ known' \in [Procs -> Nat] /\ saves' \in [Procs -> 0..MaxSaves]
         /\ latest' \in [Procs -> [Files -> Nat]]
         /\ done' \in [Procs -> [Files -> Nat \cup {None}]]
<1>1. /\ NoBatch \in Batch /\ FirstTime \in [Files -> Nat]
      /\ FirstTime \in [Files -> Nat \cup {None}]
  BY DEF NoBatch, Batch, FirstTime
<1> QED
  BY <1>1 DEF Forget, TypeOK

LEMMA StopStep ==
  ASSUME TypeOK, FilesInv, Outage \/ \E p \in Procs : Crash(p) \/ Start(p)
  PROVE  TypeOK' /\ FilesInv'
<1>1. CASE Outage
  <2>1. FilesInv'
    BY <1>1, PowerStep DEF Outage
  <2> QED
    BY <1>1, <2>1, ForgetTypes DEF Outage, TypeOK, FilesInv
<1>2. ASSUME NEW p \in Procs, Crash(p) PROVE TypeOK' /\ FilesInv'
  <2>1. FilesInv'
    BY <1>2, CrashStep DEF Crash
  <2>2. Forget({p}) /\ {p} \in SUBSET Procs
    BY <1>2 DEF Crash
  <2> QED
    BY <2>1, <2>2, ForgetTypes DEF TypeOK, FilesInv
<1>3. ASSUME NEW p \in Procs, Start(p) PROVE TypeOK' /\ FilesInv'
  <2>1. FilesInv'
    BY <1>3, RestartStep DEF Start
  <2>2. visible[Network] # None => visible[Network].value \in Nat
    BY Constants DEF FilesInv, FilesTypeOK, Content
  <2>3. known' \in [Procs -> Nat]
    BY <1>3, <2>2 DEF Start, TypeOK
  <2> QED
    BY <1>3, <2>1, <2>3 DEF Start, TypeOK, FilesInv
<1> QED
  BY <1>1, <1>2, <1>3

-----------------------------------------------------------------------------
LEMMA CacheInit == Init => TypeOK /\ FilesInv
<1> SUFFICES ASSUME Init PROVE TypeOK /\ FilesInv
  OBVIOUS
<1>1. FilesInit /\ \A t \in Threads : save[t] = Idle
  BY DEF Init, FilesInit
<1>2. FilesTypeOK
  BY <1>1, IdleIsSave, AtomicFileAssumption DEF FilesInit, FilesTypeOK
<1>3. SavesInv
  BY <1>1, IdleIsSave DEF FilesInit, SavesInv, OneName, Sound, OwnNames, Blamed, TempsAreOwned, Working
<1>4. FilesAreWhole
  BY <1>1 DEF FilesInit, FilesAreWhole, Whole
<1>5. NoBatch \in Batch /\ FirstTime \in [Files -> Nat] /\ FirstTime \in [Files -> Nat \cup {None}]
  BY DEF NoBatch, Batch, FirstTime
<1> QED
  BY <1>2, <1>3, <1>4, <1>5, CacheWriterAssumption DEF Init, TypeOK, FilesInv

LEMMA CacheStep == TypeOK /\ FilesInv /\ [Next]_vars => (TypeOK /\ FilesInv)'
<1> SUFFICES ASSUME TypeOK, FilesInv, [Next]_vars PROVE TypeOK' /\ FilesInv'
  OBVIOUS
<1>1. CASE Rest \/ UNCHANGED vars
  <2>1. UNCHANGED vars
    BY <1>1 DEF Rest
  <2>2. FilesInv'
    BY <2>1, FilesStay DEF vars
  <2> QED
    BY <2>1, <2>2 DEF vars, mem, TypeOK, FilesInv
<1>2. ASSUME NEW p \in Procs,
             \/ \E c \in Caches : Schedule(p, c)
             \/ Wake(p) \/ SaveSession(p) \/ Discover(p)
      PROVE  TypeOK' /\ FilesInv'
  BY <1>2, WindowStep
<1>3. ASSUME NEW p \in Procs, WriterLoop(p) PROVE TypeOK' /\ FilesInv'
  BY <1>3, WriterStep
<1>4. ASSUME NEW t \in Threads, Thread(t) PROVE TypeOK' /\ FilesInv'
  BY <1>4, ThreadsStep
<1>5. CASE Outage \/ \E p \in Procs : Crash(p) \/ Start(p)
  BY <1>5, StopStep
<1> QED
  BY <1>1, <1>2, <1>3, <1>4, <1>5 DEF Next

LEMMA CacheInvariant == Spec => [](TypeOK /\ FilesInv)
BY CacheInit, CacheStep, PTL DEF Spec


-----------------------------------------------------------------------------
(* The newest value of a cache: where it is on its way to the disk.        *)

\* Only a writer saves caches, and only a window's thread saves the session.
Saver(t) ==
  save[t].at # "idle" =>
    \/ t = Writer[ProcOf[t]] /\ save[t].file \in Caches
    \/ t = Window[ProcOf[t]] /\ save[t].file = Session

\* As new as the last value that was scheduled; of the network, or newer.
Fresh(p, c, value) == IF c = Network THEN value >= latest[p][c] ELSE value = latest[p][c]

\* The newest value is in its slot, or else in the batch, or else being saved, or else in
\* place, unless its save has failed.
Carried(p, c) ==
  IF pending[p][c] # None THEN c = Storage => pending[p][c] = latest[p][c]
  ELSE IF batch[p][c] # None THEN c = Storage => batch[p][c] = latest[p][c]
  ELSE IF save[Writer[p]].at # "idle" /\ save[Writer[p]].file = c
       THEN Fresh(p, c, save[Writer[p]].value)
  ELSE done[p][c] = None \/ Fresh(p, c, done[p][c])

\* Besides: a thread that waits saves nothing; a slot that is filled has somebody who
\* wakes the writer, or the writer is about to take; what is known of the network is
\* never older than what was scheduled of it.
NewestOf(p) ==
  /\ \A c \in Caches : Carried(p, c)
  /\ writer[p] # "save" => batch[p] = NoBatch /\ save[Writer[p]].at = "idle"
  /\ window[p] # "save" => save[Window[p]].at = "idle"
  /\ pending[p] # NoBatch => window[p] = "wake" \/ wake[p] \/ writer[p] = "take"
  /\ known[p] >= latest[p][Network]
  /\ p \notin up => latest[p] = FirstTime

NewestInv == (\A t \in Threads : Saver(t)) /\ \A p \in Procs : NewestOf(p)

CacheInv == TypeOK /\ FilesInv /\ NewestInv

LEMMA ThreeFiles == Storage # Network /\ Storage # Session /\ Network # Session
<1>1. ASSUME NEW a, NEW b, Files = {a, b}
      PROVE  FALSE
  <2>1. IsFiniteSet({a, b}) /\ Cardinality({a, b}) <= 2
    <3>1. IsFiniteSet({b}) /\ Cardinality({b}) = 1
      BY FS_Singleton
    <3>2. /\ IsFiniteSet({b} \cup {a})
          /\ Cardinality({b} \cup {a}) = IF a \in {b} THEN 1 ELSE 1 + 1
      BY <3>1, FS_AddElement
    <3>3. {b} \cup {a} = {a, b}
      OBVIOUS
    <3> QED
      BY <3>2, <3>3
  <2> QED
    BY <1>1, <2>1, CacheWriterAssumption
<1>2. Files = {Storage, Network, Session}
  BY CacheWriterAssumption
<1>3. CASE Storage = Network
  <2>1. Files = {Network, Session}
    BY <1>2, <1>3
  <2> QED
    BY <2>1, <1>1
<1>4. CASE Storage = Session
  <2>1. Files = {Network, Session}
    BY <1>2, <1>4
  <2> QED
    BY <2>1, <1>1
<1>5. CASE Network = Session
  <2>1. Files = {Storage, Session}
    BY <1>2, <1>5
  <2> QED
    BY <2>1, <1>1
<1> QED
  BY <1>3, <1>4, <1>5

\* A process whose state and saves are not touched.
LEMMA OthersNewest ==
  ASSUME NEW q \in Procs, NewestOf(q),
         pending'[q] = pending[q], wake'[q] = wake[q], window'[q] = window[q],
         writer'[q] = writer[q], batch'[q] = batch[q], known'[q] = known[q],
         latest'[q] = latest[q], done'[q] = done[q],
         save'[Writer[q]] = save[Writer[q]], save'[Window[q]] = save[Window[q]],
         q \in up => q \in up'
  PROVE  NewestOf(q)'
<1>1. ASSUME NEW c \in Caches, Carried(q, c)
      PROVE  Carried(q, c)'
  BY <1>1 DEF Carried, Fresh
<1> QED
  BY <1>1 DEF NewestOf

\* The threads of a process are its own.
LEMMA OwnThreads ==
  /\ \A p \in Procs : Window[p] \in Threads /\ Writer[p] \in Threads
  /\ \A p \in Procs : ProcOf[Window[p]] = p /\ ProcOf[Writer[p]] = p
  /\ \A p, q \in Procs : Window[p] # Writer[q]
  /\ \A p, q \in Procs : Window[p] = Window[q] \/ Writer[p] = Writer[q] => p = q
<1>1. \A p \in Procs : ProcOf[Window[p]] = p /\ ProcOf[Writer[p]] = p
  BY CacheWriterAssumption
<1> QED
  BY <1>1, CacheWriterAssumption

LEMMA ScheduleNewest ==
  ASSUME CacheInv, NEW p \in Procs, NEW c \in Caches, Schedule(p, c)
  PROVE  NewestInv'
<1> DEFINE value == IF c = Network THEN known[p] ELSE saves[p] + 1
<1>1. /\ p \in up /\ UNCHANGED files /\ UNCHANGED <<wake, writer, batch, known, done>>
      /\ pending' = [pending EXCEPT ![p][c] = value]
      /\ latest' = [latest EXCEPT ![p][c] = value]
      /\ window' = [window EXCEPT ![p] = "wake"] /\ window[p] = "idle"
  BY DEF Schedule, Put, Counts, Ready
<1>2. /\ save' = save /\ up' = up
      /\ pending \in [Procs -> Batch] /\ latest \in [Procs -> [Files -> Nat]]
      /\ window \in [Procs -> {"idle", "wake", "save"}]
      /\ known[p] \in Nat /\ saves[p] \in Nat
  <2>1. saves[p] \in 0..MaxSaves /\ MaxSaves \in Nat
    BY CacheWriterAssumption DEF CacheInv, TypeOK
  <2>2. saves[p] \in Nat
    BY <2>1
  <2> QED
    BY <1>1, <2>2 DEF files, CacheInv, TypeOK
<1>3. value \in Nat /\ value # None
  BY <1>2, CacheWriterAssumption
<1>4. c = Network => value = known[p]
  OBVIOUS
<1> HIDE DEF value
<1>5. c \in Files /\ Network \in Files
  BY Constants
<1>6. /\ pending'[p][c] = value /\ latest'[p][c] = value
      /\ \A d \in Caches \ {c} : pending'[p][d] = pending[p][d]
      /\ \A d \in Files \ {c} : latest'[p][d] = latest[p][d]
      /\ \A q \in Procs \ {p} : pending'[q] = pending[q] /\ latest'[q] = latest[q]
                                /\ window'[q] = window[q]
      /\ window'[p] = "wake"
  BY <1>1, <1>2, <1>5 DEF Batch
<1>7. NewestOf(p) /\ \A q \in Procs : NewestOf(q)
  BY DEF CacheInv, NewestInv
<1>8. ASSUME NEW d \in Caches
      PROVE  Carried(p, d)'
  <2>1. CASE d = c
    BY <2>1, <1>3, <1>6 DEF Carried
  <2>2. CASE d # c
    <3>1. Carried(p, d) /\ pending'[p][d] = pending[p][d] /\ latest'[p][d] = latest[p][d]
      BY <2>2, <1>6, <1>7, Constants DEF NewestOf
    <3> QED
      BY <3>1, <1>1, <1>2 DEF Carried, Fresh
  <2> QED
    BY <2>1, <2>2
<1>9. known'[p] >= latest'[p][Network]
  BY <1>1, <1>2, <1>4, <1>5, <1>6, <1>7 DEF NewestOf
<1>10. NewestOf(p)'
  BY <1>1, <1>2, <1>6, <1>7, <1>8, <1>9 DEF NewestOf
<1>11. ASSUME NEW q \in Procs \ {p}
       PROVE  NewestOf(q)'
  BY <1>1, <1>2, <1>6, <1>7, OthersNewest
<1> QED
  BY <1>2, <1>10, <1>11 DEF CacheInv, NewestInv, Saver

LEMMA WakeNewest ==
  ASSUME CacheInv, NEW p \in Procs, Wake(p) \/ Discover(p)
  PROVE  NewestInv'
<1>1. /\ UNCHANGED files /\ UNCHANGED <<pending, writer, batch, latest, done>>
  BY DEF Wake, Discover
<1>2. /\ save' = save /\ up' = up
      /\ window \in [Procs -> {"idle", "wake", "save"}] /\ wake \in [Procs -> BOOLEAN]
      /\ known \in [Procs -> Nat] /\ latest[p][Network] \in Nat
  BY <1>1, Constants DEF files, CacheInv, TypeOK
<1>3. \A q \in Procs : NewestOf(q)
  BY DEF CacheInv, NewestInv
<1>4. \A c \in Caches : Carried(p, c)'
  BY <1>1, <1>2, <1>3 DEF NewestOf, Carried, Fresh
<1>5. NewestOf(p)'
  <2>1. CASE Wake(p)
    BY <2>1, <1>1, <1>2, <1>3, <1>4 DEF Wake, NewestOf
  <2>2. CASE Discover(p)
    <3>1. known'[p] = known[p] + 1 /\ wake' = wake /\ window' = window
      BY <2>2, <1>2 DEF Discover
    <3> QED
      BY <3>1, <1>1, <1>2, <1>3, <1>4 DEF NewestOf
  <2> QED
    BY <2>1, <2>2
<1>6. ASSUME NEW q \in Procs \ {p}
      PROVE  NewestOf(q)'
  <2>1. wake'[q] = wake[q] /\ window'[q] = window[q] /\ known'[q] = known[q]
    BY <1>2 DEF Wake, Discover
  <2> QED
    BY <2>1, <1>1, <1>2, <1>3, OthersNewest
<1> QED
  BY <1>2, <1>5, <1>6 DEF CacheInv, NewestInv, Saver

\* The window saves the session; the caches' values stay where they are.
LEMMA SessionNewest ==
  ASSUME CacheInv, NEW p \in Procs, SaveSession(p)
  PROVE  NewestInv'
<1> DEFINE new == [at |-> "create", file |-> Session, value |-> saves[p] + 1,
                   seq |-> sequence[ProcOf[Window[p]]]]
<1>1. /\ p \in up /\ window[p] = "idle" /\ up' = up
      /\ save' = [save EXCEPT ![Window[p]] = new]
      /\ latest' = [latest EXCEPT ![p][Session] = saves[p] + 1]
      /\ window' = [window EXCEPT ![p] = "save"]
      /\ UNCHANGED <<pending, wake, writer, batch, known, done>>
  BY DEF SaveSession, Ready, StartSave, Counts
<1>2. /\ save \in [Threads -> Save] /\ latest \in [Procs -> [Files -> Nat]]
      /\ window \in [Procs -> {"idle", "wake", "save"}]
  BY DEF CacheInv, TypeOK, FilesInv, FilesTypeOK
<1>3. new.at = "create" /\ new.file = Session
  OBVIOUS
<1> HIDE DEF new
<1>4. /\ save'[Window[p]] = new
      /\ \A t \in Threads \ {Window[p]} : save'[t] = save[t]
      /\ \A q \in Procs \ {p} : latest'[q] = latest[q] /\ window'[q] = window[q]
      /\ \A c \in Caches : latest'[p][c] = latest[p][c]
      /\ window'[p] = "save"
  BY <1>1, <1>2, OwnThreads, Constants, ThreeFiles DEF Caches
<1>5. \A q \in Procs : NewestOf(q)
  BY DEF CacheInv, NewestInv
<1>6. save'[Writer[p]] = save[Writer[p]] /\ Network \in Caches
  BY <1>4, OwnThreads DEF Caches
<1>7. \A c \in Caches : Carried(p, c)'
  BY <1>1, <1>4, <1>5, <1>6 DEF NewestOf, Carried, Fresh
<1>8. NewestOf(p)'
  BY <1>1, <1>4, <1>5, <1>6, <1>7 DEF NewestOf
<1>9. ASSUME NEW q \in Procs \ {p}
      PROVE  NewestOf(q)'
  <2>1. save'[Writer[q]] = save[Writer[q]] /\ save'[Window[q]] = save[Window[q]]
    BY <1>4, OwnThreads
  <2> QED
    BY <2>1, <1>1, <1>4, <1>5, OthersNewest
<1>10. ASSUME NEW t \in Threads
       PROVE  Saver(t)'
  <2>1. CASE t = Window[p]
    BY <2>1, <1>3, <1>4, OwnThreads DEF Saver
  <2>2. CASE t # Window[p]
    BY <2>2, <1>4 DEF Saver, CacheInv, NewestInv
  <2> QED
    BY <2>1, <2>2
<1> QED
  BY <1>8, <1>9, <1>10 DEF NewestInv

LEMMA TakeNewest ==
  ASSUME CacheInv, NEW p \in Procs, Receive(p) \/ TakeBatch(p) \/ BatchEnds(p)
  PROVE  NewestInv'
<1>1. UNCHANGED files /\ UNCHANGED <<window, known, latest, done>>
  BY DEF Receive, TakeBatch, BatchEnds
<1>2. /\ save' = save /\ up' = up
      /\ pending \in [Procs -> Batch] /\ batch \in [Procs -> Batch] /\ wake \in [Procs -> BOOLEAN]
      /\ writer \in [Procs -> {"recv", "take", "save"}]
  BY <1>1 DEF files, CacheInv, TypeOK
<1>3. \A q \in Procs : NewestOf(q)
  BY DEF CacheInv, NewestInv
<1>4. ASSUME NEW q \in Procs \ {p}
      PROVE  NewestOf(q)'
  <2>1. /\ wake'[q] = wake[q] /\ pending'[q] = pending[q]
        /\ writer'[q] = writer[q] /\ batch'[q] = batch[q]
    BY <1>2 DEF Receive, TakeBatch, BatchEnds
  <2> QED
    BY <2>1, <1>1, <1>2, <1>3, OthersNewest
<1>5. CASE Receive(p)
  <2>1. /\ writer'[p] = "take" /\ writer[p] = "recv"
        /\ pending' = pending /\ batch' = batch
    BY <1>2, <1>5 DEF Receive
  <2>2. \A c \in Caches : Carried(p, c)'
    BY <2>1, <1>1, <1>2, <1>3 DEF NewestOf, Carried, Fresh
  <2>3. NewestOf(p)'
    BY <2>1, <2>2, <1>1, <1>2, <1>3 DEF NewestOf
  <2> QED
    BY <2>3, <1>2, <1>4 DEF CacheInv, NewestInv, Saver
<1>6. CASE TakeBatch(p)
  <2>1. /\ writer'[p] = "save" /\ writer[p] = "take" /\ p \in up
        /\ pending'[p] = NoBatch /\ batch'[p] = pending[p]
    BY <1>2, <1>6 DEF TakeBatch
  <2>2. batch[p] = NoBatch /\ save[Writer[p]].at = "idle"
    BY <2>1, <1>3 DEF NewestOf
  <2>3. ASSUME NEW c \in Caches
        PROVE  Carried(p, c)'
    <3>1. Carried(p, c) /\ batch[p][c] = None /\ pending'[p][c] = None
      BY <2>1, <2>2, <1>3 DEF NewestOf, NoBatch
    <3> QED
      BY <3>1, <2>1, <2>2, <1>1, <1>2 DEF Carried, Fresh
  <2>4. NewestOf(p)'
    BY <2>1, <2>3, <1>1, <1>2, <1>3 DEF NewestOf
  <2> QED
    BY <2>4, <1>2, <1>4 DEF CacheInv, NewestInv, Saver
<1>7. CASE BatchEnds(p)
  <2>1. /\ writer'[p] = "recv" /\ writer[p] = "save" /\ batch[p] = NoBatch
        /\ save[Writer[p]].at = "idle"
        /\ pending' = pending /\ batch' = batch /\ wake' = wake
    BY <1>2, <1>7 DEF BatchEnds
  <2>2. \A c \in Caches : Carried(p, c)'
    BY <2>1, <1>1, <1>2, <1>3 DEF NewestOf, Carried, Fresh
  <2>3. NewestOf(p)'
    BY <2>1, <2>2, <1>1, <1>2, <1>3 DEF NewestOf
  <2> QED
    BY <2>3, <1>2, <1>4 DEF CacheInv, NewestInv, Saver
<1> QED
  BY <1>5, <1>6, <1>7

\* The writer saves what it has taken of one cache, of the network what is known by then.
LEMMA SaveNextNewest ==
  ASSUME CacheInv, NEW p \in Procs, SaveNext(p)
  PROVE  NewestInv'
<1> DEFINE c == IF batch[p][Storage] # None THEN Storage ELSE Network
           value == IF c = Network THEN known[p] ELSE batch[p][c]
           new == [at |-> "create", file |-> c, value |-> value,
                   seq |-> sequence[ProcOf[Writer[p]]]]
<1>1. /\ p \in up /\ writer[p] = "save" /\ batch[p] # NoBatch /\ up' = up
      /\ save[Writer[p]].at = "idle"
      /\ save' = [save EXCEPT ![Writer[p]] = new]
      /\ batch' = [batch EXCEPT ![p][c] = None]
      /\ UNCHANGED <<pending, wake, window, writer, known, latest, done>>
  BY DEF SaveNext, StartSave, At
<1>2. /\ save \in [Threads -> Save] /\ batch \in [Procs -> Batch] /\ known[p] \in Nat
      /\ latest[p] \in [Files -> Nat]
  BY DEF CacheInv, TypeOK, FilesInv, FilesTypeOK
<1>3. c \in Caches /\ batch[p][c] # None /\ \A d \in Caches : d # c => c = Storage \/ batch[p][d] = None
  <2>1. batch[p] \in [Caches -> Nat \cup {None}]
    BY <1>2 DEF Batch
  <2>2. \E d \in Caches : batch[p][d] # None
    <3>1. SUFFICES ASSUME \A d \in Caches : batch[p][d] = None
                   PROVE  FALSE
      OBVIOUS
    <3>2. batch[p] = NoBatch
      BY <3>1, <2>1 DEF NoBatch
    <3> QED
      BY <3>2, <1>1
  <2> QED
    BY <2>2 DEF Caches
<1>4. new.at = "create" /\ new.file = c /\ new.value = value
  OBVIOUS
<1>5. /\ c = Network => value = known[p]
      /\ c = Storage => value = batch[p][c]
  BY ThreeFiles
<1> HIDE DEF new, value, c
<1>6. /\ save'[Writer[p]] = new
      /\ \A t \in Threads \ {Writer[p]} : save'[t] = save[t]
      /\ \A q \in Procs \ {p} : batch'[q] = batch[q]
      /\ \A d \in Caches \ {c} : batch'[p][d] = batch[p][d]
      /\ batch'[p][c] = None
  BY <1>1, <1>2, <1>3, OwnThreads DEF Batch
<1>7. \A q \in Procs : NewestOf(q)
  BY DEF CacheInv, NewestInv
<1>8. ASSUME NEW d \in Caches
      PROVE  Carried(p, d)'
  <2>1. Carried(p, d) /\ known[p] >= latest[p][Network]
    BY <1>7 DEF NewestOf
  <2>2. CASE d = c
    <3>1. CASE pending[p][c] # None
      BY <3>1, <2>1, <2>2, <1>1 DEF Carried
    <3>2. CASE pending[p][c] = None
      <4>1. Fresh(p, c, value)
        BY <3>2, <2>1, <2>2, <1>3, <1>5 DEF Carried, Fresh, Caches
      <4> QED
        BY <4>1, <3>2, <2>2, <1>1, <1>4, <1>6 DEF Carried, Fresh
    <3> QED
      BY <3>1, <3>2
  <2>3. CASE d # c
    BY <2>1, <2>3, <1>1, <1>4, <1>6 DEF Carried, Fresh
  <2> QED
    BY <2>2, <2>3
<1>9. save'[Window[p]] = save[Window[p]]
  BY <1>6, OwnThreads
<1>10. NewestOf(p)'
  BY <1>1, <1>7, <1>8, <1>9 DEF NewestOf
<1>11. ASSUME NEW q \in Procs \ {p}
       PROVE  NewestOf(q)'
  <2>1. save'[Writer[q]] = save[Writer[q]] /\ save'[Window[q]] = save[Window[q]]
    BY <1>6, OwnThreads
  <2> QED
    BY <2>1, <1>1, <1>6, <1>7, OthersNewest
<1>12. ASSUME NEW t \in Threads
       PROVE  Saver(t)'
  <2>1. CASE t = Writer[p]
    BY <2>1, <1>3, <1>4, <1>6, OwnThreads DEF Saver
  <2>2. CASE t # Writer[p]
    BY <2>2, <1>6 DEF Saver, CacheInv, NewestInv
  <2> QED
    BY <2>1, <2>2
<1> QED
  BY <1>10, <1>11, <1>12 DEF NewestInv

\* A save goes on: its file and its value stay.
LEMMA SavingNewest ==
  ASSUME CacheInv, NEW t \in Threads, Saving(t)
  PROVE  NewestInv'
<1>1. /\ \E at : at # "idle" /\ Goto(t, at)
      /\ save[t].at # "idle"
      /\ UNCHANGED <<pending, wake, window, writer, batch, known, latest, done, up>>
  <2>1. \E at : at # "idle" /\ Goto(t, at)
    BY DEF Saving, WriteStep, Create, WriteAll, Flush, Replace, SyncParent, CleanUp, Fails
  <2> QED
    BY <2>1 DEF Saving, mem, WriteStep, Create, WriteAll, Flush, Replace, SyncParent, CleanUp, At
<1>2. PICK at : at # "idle" /\ save' = [save EXCEPT ![t].at = at]
  BY <1>1 DEF Goto
<1>3. save \in [Threads -> Save] /\ save[t] \in Save
  BY DEF CacheInv, FilesInv, FilesTypeOK
<1>4. /\ save'[t].at = at /\ save'[t].file = save[t].file /\ save'[t].value = save[t].value
      /\ \A u \in Threads \ {t} : save'[u] = save[u]
  BY <1>2, <1>3 DEF Save
<1>5. \A u \in Threads : /\ save'[u].at = "idle" <=> save[u].at = "idle"
                         /\ save'[u].file = save[u].file /\ save'[u].value = save[u].value
  BY <1>1, <1>2, <1>4
<1>6. ASSUME NEW q \in Procs
      PROVE  NewestOf(q)'
  <2>1. NewestOf(q) /\ Writer[q] \in Threads /\ Window[q] \in Threads
    BY OwnThreads DEF CacheInv, NewestInv
  <2>2. ASSUME NEW c \in Caches
        PROVE  Carried(q, c)'
    BY <2>1, <1>1, <1>5 DEF NewestOf, Carried, Fresh
  <2> QED
    BY <2>1, <2>2, <1>1, <1>5 DEF NewestOf
<1>7. \A u \in Threads : Saver(u)'
  BY <1>5 DEF CacheInv, NewestInv, Saver
<1> QED
  BY <1>6, <1>7 DEF NewestInv

\* A save ends: its value is in place, or nobody knows which.
LEMMA SaveEndsNewest ==
  ASSUME CacheInv, NEW t \in Threads, SaveEnds(t)
  PROVE  NewestInv'
<1> DEFINE p == ProcOf[t]
           result == IF save[t].at = "saved" THEN save[t].value ELSE None
<1>1. /\ save[t].at # "idle" /\ save' = [save EXCEPT ![t] = Idle] /\ up' = up /\ p \in up
      /\ done' = [done EXCEPT ![p][save[t].file] = result]
      /\ window' = IF t = Window[p] THEN [window EXCEPT ![p] = "idle"] ELSE window
      /\ UNCHANGED <<pending, wake, writer, batch, known, latest>>
  BY DEF SaveEnds, EndSave, At
<1>2. /\ save \in [Threads -> Save] /\ p \in Procs
      /\ done \in [Procs -> [Files -> Nat \cup {None}]]
      /\ window \in [Procs -> {"idle", "wake", "save"}]
  BY AtomicFileAssumption DEF CacheInv, TypeOK, FilesInv, FilesTypeOK
<1>3. save[t].file \in Files
  BY <1>2 DEF Save
<1>4. result = None \/ result = save[t].value
  OBVIOUS
<1> HIDE DEF result
<1>5. /\ save'[t].at = "idle" /\ \A u \in Threads \ {t} : save'[u] = save[u]
  BY <1>1, <1>2, IdleIsSave
<1>6. /\ done'[p][save[t].file] = result
      /\ \A f \in Files : f # save[t].file => done'[p][f] = done[p][f]
      /\ \A q \in Procs \ {p} : done'[q] = done[q] /\ window'[q] = window[q]
  BY <1>1, <1>2, <1>3
<1>7. \A q \in Procs : NewestOf(q)
  BY DEF CacheInv, NewestInv
<1>8. \/ t = Writer[p] /\ save[t].file \in Caches
      \/ t = Window[p] /\ save[t].file = Session
  BY <1>1 DEF CacheInv, NewestInv, Saver
<1>9. ASSUME NEW q \in Procs \ {p}
      PROVE  NewestOf(q)'
  <2>1. Writer[q] # t /\ Window[q] # t /\ Writer[q] \in Threads /\ Window[q] \in Threads
    BY OwnThreads
  <2> QED
    BY <2>1, <1>1, <1>5, <1>6, <1>7, OthersNewest
<1>10. NewestOf(p)'
  <2>1. CASE t = Writer[p]
    <3>1. window' = window /\ save'[Window[p]] = save[Window[p]]
      BY <2>1, <1>1, <1>2, <1>5, OwnThreads
    <3>2. ASSUME NEW c \in Caches
          PROVE  Carried(p, c)'
      <4>1. Carried(p, c) /\ c \in Files
        BY <1>2, <1>7, Constants DEF NewestOf
      <4>2. CASE c = save[t].file
        BY <4>1, <4>2, <2>1, <1>1, <1>4, <1>5, <1>6 DEF Carried, Fresh
      <4>3. CASE c # save[t].file
        BY <4>1, <4>3, <2>1, <1>1, <1>5, <1>6 DEF Carried, Fresh
      <4> QED
        BY <4>2, <4>3
    <3> QED
      BY <2>1, <3>1, <3>2, <1>1, <1>2, <1>5, <1>7 DEF NewestOf
  <2>2. CASE t = Window[p]
    <3>1. save'[Writer[p]] = save[Writer[p]] /\ window[p] = "save" /\ window'[p] = "idle"
      BY <2>2, <1>1, <1>2, <1>5, <1>7, OwnThreads DEF NewestOf
    <3>2. ASSUME NEW c \in Caches
          PROVE  Carried(p, c)'
      <4>1. Carried(p, c) /\ c \in Files /\ c # Session /\ save[t].file = Session
        BY <2>2, <1>2, <1>7, <1>8, Constants, ThreeFiles, OwnThreads DEF NewestOf, Caches
      <4> QED
        BY <4>1, <3>1, <1>1, <1>6 DEF Carried, Fresh
    <3> QED
      BY <2>2, <3>1, <3>2, <1>1, <1>2, <1>5, <1>7 DEF NewestOf
  <2> QED
    BY <1>8, <2>1, <2>2
<1>11. ASSUME NEW u \in Threads
       PROVE  Saver(u)'
  <2>1. CASE u = t
    BY <2>1, <1>5 DEF Saver
  <2>2. CASE u # t
    BY <2>2, <1>5 DEF CacheInv, NewestInv, Saver
  <2> QED
    BY <2>1, <2>2
<1> QED
  BY <1>9, <1>10, <1>11 DEF NewestInv

\* A process that stops forgets its caches; it has scheduled nothing.
LEMMA StoppedNewest ==
  ASSUME CacheInv, NEW dead \in SUBSET Procs, Stopped(dead), Forget(dead)
  PROVE  NewestInv'
<1>1. /\ up' = up \ dead
      /\ \A t \in Threads : save'[t] = IF ProcOf[t] \in dead THEN Idle ELSE save[t]
  BY DEF Stopped
<1>2. \A q \in Procs : NewestOf(q)
  BY DEF CacheInv, NewestInv
<1>3. ASSUME NEW q \in Procs, q \in dead
      PROVE  NewestOf(q)'
  <2>1. /\ pending'[q] = NoBatch /\ batch'[q] = NoBatch /\ window'[q] = "idle"
        /\ writer'[q] = "recv" /\ latest'[q] = FirstTime /\ done'[q] = FirstTime /\ known'[q] = 0
    BY <1>3 DEF Forget
  <2>2. save'[Writer[q]].at = "idle" /\ save'[Window[q]].at = "idle"
    BY <1>1, <1>3, OwnThreads, IdleIsSave
  <2>3. FirstTime[Network] = 0 /\ \A c \in Caches : FirstTime[c] = 0 /\ NoBatch[c] = None
    BY Constants DEF FirstTime, NoBatch
  <2>4. ASSUME NEW c \in Caches
        PROVE  Carried(q, c)'
    BY <2>1, <2>2, <2>3 DEF Carried, Fresh
  <2> QED
    BY <2>1, <2>2, <2>3, <2>4 DEF NewestOf
<1>4. ASSUME NEW q \in Procs, q \notin dead
      PROVE  NewestOf(q)'
  <2>1. /\ pending'[q] = pending[q] /\ batch'[q] = batch[q] /\ window'[q] = window[q]
        /\ writer'[q] = writer[q] /\ latest'[q] = latest[q] /\ done'[q] = done[q]
        /\ known'[q] = known[q] /\ wake'[q] = wake[q]
    BY <1>4 DEF Forget
  <2>2. save'[Writer[q]] = save[Writer[q]] /\ save'[Window[q]] = save[Window[q]]
    BY <1>1, <1>4, OwnThreads
  <2>3. q \in up => q \in up'
    BY <1>1, <1>4
  <2> QED
    BY <2>1, <2>2, <2>3, <1>2, OthersNewest
<1>5. ASSUME NEW t \in Threads
      PROVE  Saver(t)'
  BY <1>1, IdleIsSave DEF CacheInv, NewestInv, Saver
<1> QED
  BY <1>3, <1>4, <1>5 DEF NewestInv

\* A process that starts reads what is known of the network; it has scheduled nothing.
LEMMA StartNewest ==
  ASSUME CacheInv, NEW p \in Procs, Start(p)
  PROVE  NewestInv'
<1>1. /\ p \notin up /\ up' = up \cup {p} /\ save' = save
      /\ known' = [known EXCEPT ![p] = IF visible[Network] = None THEN 0
                                       ELSE visible[Network].value]
      /\ UNCHANGED <<pending, wake, window, writer, batch, latest, done>>
  BY DEF Start, Restart
<1>2. known \in [Procs -> Nat]
  BY DEF CacheInv, TypeOK
<1>3. \A q \in Procs : NewestOf(q)
  BY DEF CacheInv, NewestInv
<1>4. visible[Network] # None => visible[Network].value \in Nat
  BY Constants DEF CacheInv, FilesInv, FilesTypeOK, Content
<1>5. known'[p] \in Nat
  BY <1>1, <1>2, <1>4
<1>6. latest[p] = FirstTime /\ FirstTime[Network] = 0
  BY <1>1, <1>3, Constants DEF NewestOf, FirstTime
<1>7. ASSUME NEW q \in Procs
      PROVE  NewestOf(q)'
  <2>1. \A c \in Caches : Carried(q, c)'
    BY <1>1, <1>3 DEF NewestOf, Carried, Fresh
  <2>2. known'[q] >= latest'[q][Network]
    <3>1. CASE q = p
      BY <3>1, <1>1, <1>5, <1>6
    <3>2. CASE q # p
      BY <3>2, <1>1, <1>2, <1>3 DEF NewestOf
    <3> QED
      BY <3>1, <3>2
  <2> QED
    BY <2>1, <2>2, <1>1, <1>3 DEF NewestOf
<1> QED
  BY <1>1, <1>7 DEF CacheInv, NewestInv, Saver

LEMMA NewestInit == Init => NewestInv
<1> SUFFICES ASSUME Init PROVE NewestInv
  OBVIOUS
<1>1. /\ \A t \in Threads : save[t] = Idle
      /\ \A p \in Procs : /\ pending[p] = NoBatch /\ batch[p] = NoBatch
                          /\ window[p] = "idle" /\ writer[p] = "recv" /\ known[p] = 0
                          /\ latest[p] = FirstTime /\ done[p] = FirstTime
  BY DEF Init, FilesInit
<1>2. FirstTime[Network] = 0 /\ \A c \in Caches : FirstTime[c] = 0 /\ NoBatch[c] = None
  BY Constants DEF FirstTime, NoBatch
<1>3. \A p \in Procs, c \in Caches : Carried(p, c)
  BY <1>1, <1>2, OwnThreads, IdleIsSave DEF Carried, Fresh
<1> QED
  BY <1>1, <1>2, <1>3, OwnThreads, IdleIsSave DEF NewestInv, NewestOf, Saver

LEMMA NewestStep == CacheInv /\ [Next]_vars => NewestInv'
<1> SUFFICES ASSUME CacheInv, [Next]_vars PROVE NewestInv'
  OBVIOUS
<1>1. CASE Rest \/ UNCHANGED vars
  <2>1. UNCHANGED <<save, up, pending, wake, window, writer, batch, known, latest, done>>
    BY <1>1 DEF Rest, vars, mem, files
  <2>2. \A p \in Procs, c \in Caches : Carried(p, c) => Carried(p, c)'
    BY <2>1 DEF Carried, Fresh
  <2> QED
    BY <2>1, <2>2 DEF CacheInv, NewestInv, NewestOf, Saver
<1>2. ASSUME NEW p \in Procs, NEW c \in Caches, Schedule(p, c) PROVE NewestInv'
  BY <1>2, ScheduleNewest
<1>3. ASSUME NEW p \in Procs, Wake(p) \/ Discover(p) PROVE NewestInv'
  BY <1>3, WakeNewest
<1>4. ASSUME NEW p \in Procs, SaveSession(p) PROVE NewestInv'
  BY <1>4, SessionNewest
<1>5. ASSUME NEW p \in Procs, WriterLoop(p) PROVE NewestInv'
  BY <1>5, TakeNewest, SaveNextNewest DEF WriterLoop
<1>6. ASSUME NEW p \in Procs, Crash(p) PROVE NewestInv'
  BY <1>6, StoppedNewest DEF Crash, CrashProcess
<1>7. ASSUME NEW p \in Procs, Start(p) PROVE NewestInv'
  BY <1>7, StartNewest
<1>8. ASSUME NEW t \in Threads, Thread(t) PROVE NewestInv'
  BY <1>8, SavingNewest, SaveEndsNewest DEF Thread
<1>9. CASE Outage
  BY <1>9, StoppedNewest DEF Outage, PowerFails
<1> QED
  BY <1>1, <1>2, <1>3, <1>4, <1>5, <1>6, <1>7, <1>8, <1>9 DEF Next

-----------------------------------------------------------------------------
(* The theorems.                                                           *)

\* Every reachable state has its type: what the window schedules, what the writer takes
\* and what is on disk, through crashes, power failures and restarts.
THEOREM TypeCorrect == Spec => []TypeOK
BY CacheInvariant, PTL

\* Whoever reads a saved file finds an old or a new content of it and never a part of
\* one, for any processes, threads and bounds, whatever fails and stops.
THEOREM SavedFilesAreWhole == Spec => []FilesAreWhole
<1>1. FilesInv => FilesAreWhole
  BY DEF FilesInv
<1> QED
  BY <1>1, CacheInvariant, PTL

\* No single failure leaves a temporary file behind: each belongs to a save that is under
\* way or to a process that has stopped, unless a call of its save and its removal failed.
THEOREM TempsAreCleaned == Spec => []TempsAreOwned
<1>1. FilesInv => TempsAreOwned
  BY DEF FilesInv, SavesInv
<1> QED
  BY <1>1, CacheInvariant, PTL

\* When a writer sleeps, the last value that was scheduled of each cache is in place, or
\* its save has failed: wake-ups that fold into one lose no value, a value that is put
\* into a slot while an older one is saved is saved after it, and no older one comes last.
THEOREM NewestComesLast == Spec => []NewestIsSaved
<1>1. CacheInv => NewestIsSaved
  <2> SUFFICES ASSUME CacheInv, NEW p \in up, NEW c \in Caches, Asleep(p), done[p][c] # None
               PROVE  IF c = Network THEN done[p][c] >= latest[p][c]
                                     ELSE done[p][c] = latest[p][c]
    BY DEF NewestIsSaved
  <2>1. p \in Procs
    BY DEF CacheInv, FilesInv, FilesTypeOK
  <2>2. NewestOf(p)
    BY <2>1 DEF CacheInv, NewestInv
  <2>3. pending[p] = NoBatch /\ batch[p] = NoBatch /\ save[Writer[p]].at = "idle"
    BY <2>2 DEF NewestOf, Asleep
  <2>4. pending[p][c] = None /\ batch[p][c] = None
    BY <2>3 DEF NoBatch
  <2> QED
    BY <2>2, <2>3, <2>4 DEF NewestOf, Carried, Fresh
<1>2. Init => CacheInv
  BY CacheInit, NewestInit DEF CacheInv
<1>3. CacheInv /\ [Next]_vars => CacheInv'
  BY CacheStep, NewestStep DEF CacheInv
<1> QED
  BY <1>1, <1>2, <1>3, PTL DEF Spec
=============================================================================
