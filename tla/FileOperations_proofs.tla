----------------------- MODULE FileOperations_proofs -----------------------
(* Proofs about FileOperations: no content is lost and no undo of a deletion *)
(* is inexact, for any paths, threads, failures and other programs.         *)
EXTENDS FileOperations, FiniteSetTheorems, SequenceTheorems, TLAPS

\* The data part of the type.
DataOK ==
  /\ disk \in [Paths -> Node \cup {None}]
  /\ trash \subseteq Item
  /\ \A i, j \in trash : i.id = j.id => i = j
  /\ \A i \in trash : i.id < nextId /\ i.nth < nextId
  /\ \A c \in OnDisk \cup InTrash : c < nextContent
  /\ asked \subseteq 0..nextContent /\ overrun \subseteq 0..nextContent
  /\ replaced \subseteq 0..nextContent
  /\ nextId \in Nat /\ nextContent \in Nat

\* The control part.
ControlOK ==
  /\ undo \in Undos \cup {None}
  /\ job \in [Workers -> Jobs \cup {None}]
  /\ across \in BOOLEAN
  /\ foreign \in 0..MaxForeign /\ failures \in 0..MaxFailures /\ jobs \in 0..MaxJobs

\* A content that is in two places survives the loss of one.
Twice(c) ==
  \/ \E p, q \in Paths : p # q /\ c \in Contents(disk[p]) /\ c \in Contents(disk[q])
  \/ \E p \in Paths : \E i \in trash : c \in Contents(disk[p]) /\ c \in Contents(i.node)
  \/ \E i, j \in trash : i # j /\ c \in Contents(i.node) /\ c \in Contents(j.node)

\* What an undo of a deletion knows, while it is offered and while it runs.
Knows(u) ==
  u # None /\ u.kind = "trash" =>
    /\ u.from <= nextId /\ \A n \in u.mine : n < nextId
    /\ \A i \in trash : i.nth \in u.mine => i.id \in u.items \cup u.before
    /\ u.blind \/ \A i \in trash : i.id \in u.items => i.nth >= u.from

\* A deletion has trashed items of its paths only; whatever was in the trash before has
\* been listed.
TrashesOwn(j) ==
  /\ ToSet(j.todo) \subseteq j.paths
  /\ j.from <= nextId /\ \A n \in j.mine : n < nextId
  /\ \A i \in trash : i.nth \in j.mine => i.from \in j.paths
  /\ j.blind \/ \A i \in trash : i.nth < j.from => i.id \in j.before

\* What may be missing from disk and trash.
Excused == asked \cup overrun \cup replaced

\* The undo of a move has found its targets free; what it has copied is in two places.
MovesBack(j) ==
  /\ j.there = {} /\ j.action.kind = "move"
  /\ j.op # "check" => \A i \in 1..Len(j.todo) : j.todo[i][1] # j.todo[i][2]
  /\ j.op = "remove" => j.todo # <<>> /\ \A c \in j.copied : Twice(c) \/ c \in Excused

TrashJobs ==
  [op: {"trash"}, todo: Seq(Paths), paths: SUBSET Paths, before: SUBSET Nat,
   mine: SUBSET Nat, blind: BOOLEAN, from: Nat]

Moving(j) == j # None /\ j.op \in {"check", "back", "remove"}
IsMove(u) == u # None /\ u.kind = "move"

JobOK(j) ==
  j # None =>
    /\ j.op = "trash" => TrashesOwn(j)
    /\ j.op = "purge" => j.action = None
    /\ j.op = "restore" /\ j.action # None => j.action.kind = "trash" /\ Knows(j.action)
    /\ j.op = "delete" => /\ j.action # None => j.action.kind = "copy"
                          /\ j.listed # None => j.todo # <<>>
    /\ Moving(j) => MovesBack(j)

\* One undo is kept, so one move at most is taken back at a time.
OneMove ==
  /\ \A v, w \in Workers : Moving(job[v]) /\ Moving(job[w]) => v = w
  /\ IsMove(undo) => \A w \in Workers : ~Moving(job[w])

FilesInv ==
  DataOK /\ ControlOK /\ Knows(undo) /\ (\A w \in Workers : JobOK(job[w])) /\ OneMove /\ NothingLost

-----------------------------------------------------------------------------
(* What a step may do to the data.                                          *)

\* Items are numbered once, and what was excused stays so.
Grows ==
  /\ nextId <= nextId' /\ Excused \subseteq Excused'
  /\ \A i \in trash' : i \in trash \/ i.nth >= nextId

KeepsTwice == \A c : Twice(c) => Twice(c)' \/ c \in Excused'

LEMMA NodeContents ==
  ASSUME NEW node \in Node \cup {None}
  PROVE  /\ Contents(node) \subseteq Nat
         /\ node # None => node \in Node /\ Contents(node) = {node[n] : n \in Names} \ {None}
         /\ node = None => Contents(node) = {}
BY FileOperationsAssumption DEF Contents, Node

LEMMA Places ==
  ASSUME DataOK
  PROVE  /\ \A p \in Paths : disk[p] \in Node \cup {None} /\ Contents(disk[p]) \subseteq 0..nextContent
         /\ \A p \in Paths : \A c \in Contents(disk[p]) : c \in OnDisk /\ c < nextContent
         /\ \A i \in trash : i.id \in Nat /\ i.nth \in Nat /\ i.from \in Paths /\ i.node \in Node
         /\ \A i \in trash : \A c \in Contents(i.node) : c \in InTrash /\ c \in Nat /\ c < nextContent
<1>1. \A i \in trash : i.id \in Nat /\ i.nth \in Nat /\ i.from \in Paths /\ i.node \in Node
  BY DEF DataOK, Item
<1>2. \A p \in Paths : disk[p] \in Node \cup {None}
  BY DEF DataOK
<1>3. \A p \in Paths : \A c \in Contents(disk[p]) : c \in OnDisk /\ c \in Nat /\ c < nextContent
  BY <1>2, NodeContents DEF DataOK, OnDisk
<1>4. \A i \in trash : \A c \in Contents(i.node) : c \in InTrash /\ c \in Nat /\ c < nextContent
  BY <1>1, NodeContents DEF DataOK, InTrash
<1> QED
  BY <1>1, <1>2, <1>3, <1>4 DEF DataOK

\* The type of the data, from its parts.
LEMMA DataFrom ==
  ASSUME DataOK, disk' \in [Paths -> Node \cup {None}], trash' \subseteq Item,
         \A i, j \in trash' : i.id = j.id => i = j,
         nextId' \in Nat, nextContent' \in Nat, nextContent <= nextContent',
         \A i \in trash' : i.id < nextId' /\ i.nth < nextId',
         \A p \in Paths : \A c \in Contents(disk'[p]) : c < nextContent',
         \A i \in trash' : \A c \in Contents(i.node) : c < nextContent',
         asked' \subseteq 0..nextContent', overrun' \subseteq 0..nextContent',
         replaced' \subseteq 0..nextContent'
  PROVE  DataOK'
BY DEF DataOK, OnDisk, InTrash

\* Nothing moves.
LEMMA NothingMoves ==
  ASSUME DataOK, NothingLost, UNCHANGED <<disk, trash, nextId, nextContent>>,
         asked \subseteq asked', asked' \subseteq 0..nextContent, UNCHANGED <<overrun, replaced>>
  PROVE  DataOK' /\ Grows /\ KeepsTwice /\ NothingLost'
<1>1. DataOK'
  BY DEF DataOK, OnDisk, InTrash
<1>2. Grows
  BY DEF Grows, DataOK, Excused
<1>3. KeepsTwice
  BY DEF KeepsTwice, Twice
<1>4. NothingLost'
  BY DEF NothingLost, OnDisk, InTrash
<1> QED
  BY <1>1, <1>2, <1>3, <1>4

\* A path is moved to the trash.
LEMMA PathToTrash ==
  ASSUME DataOK, NothingLost, NEW p \in Paths, disk[p] # None, ToTrash(p),
         UNCHANGED <<nextContent, asked, overrun, replaced>>
  PROVE  DataOK' /\ Grows /\ KeepsTwice /\ NothingLost'
<1>1. PICK item :
        \E id \in (1..nextId) \ Ids(trash) :
          /\ item = [id |-> id, nth |-> nextId, from |-> p, node |-> disk[p]]
          /\ trash' = trash \cup {item}
  BY DEF ToTrash
<1>2. /\ item \in Item /\ item.id \in Nat /\ item.id <= nextId /\ item.nth = nextId /\ item.node = disk[p] /\ disk[p] \in Node
      /\ trash' = trash \cup {item} /\ nextId' = nextId + 1
      /\ disk' = [disk EXCEPT ![p] = None]
  BY <1>1, Places DEF ToTrash, Item, DataOK
<1>3. \A i \in trash : i.id < nextId /\ i.nth < nextId /\ i.id \in Nat /\ i.nth \in Nat /\ i.id # item.id
  BY <1>1, Places DEF DataOK, Ids
<1>4. /\ \A q \in Paths \ {p} : disk'[q] = disk[q]
      /\ disk'[p] = None /\ Contents(disk'[p]) = {}
  BY <1>2 DEF DataOK, Contents
<1>5. DataOK'
  <2>1. disk' \in [Paths -> Node \cup {None}] /\ trash' \subseteq Item
    BY <1>2 DEF DataOK
  <2>2. \A i, j \in trash' : i.id = j.id => i = j
    BY <1>2, <1>3 DEF DataOK
  <2>3. \A i \in trash' : i.id < nextId' /\ i.nth < nextId'
    BY <1>2, <1>3 DEF DataOK
  <2>4. \A q \in Paths : \A c \in Contents(disk'[q]) : c < nextContent'
    BY <1>4, Places
  <2>5. \A i \in trash' : \A c \in Contents(i.node) : c < nextContent'
    BY <1>2, Places
  <2> QED
    BY <1>2, <2>1, <2>2, <2>3, <2>4, <2>5, DataFrom DEF DataOK
<1>6. Grows
  BY <1>2 DEF Grows, DataOK, Excused
<1>7. ASSUME NEW c, c \in OnDisk PROVE c \in OnDisk' \cup InTrash'
  <2>1. PICK q \in Paths : c \in Contents(disk[q])
    BY <1>7 DEF OnDisk
  <2>2. CASE q = p
    BY <1>2, <2>1, <2>2 DEF InTrash
  <2>3. CASE q # p
    BY <1>4, <2>1, <2>3 DEF OnDisk
  <2> QED
    BY <2>2, <2>3
<1>8. InTrash \subseteq InTrash'
  BY <1>2 DEF InTrash
<1>9. NothingLost'
  BY <1>7, <1>8 DEF NothingLost
<1>10. ASSUME NEW c, Twice(c) PROVE Twice(c)'
  <2>1. ASSUME NEW a \in Paths, NEW b \in Paths, a # b, c \in Contents(disk[a]), c \in Contents(disk[b])
        PROVE  Twice(c)'
    BY <1>2, <1>4, <2>1 DEF Twice
  <2>2. ASSUME NEW a \in Paths, NEW i \in trash, c \in Contents(disk[a]), c \in Contents(i.node)
        PROVE  Twice(c)'
    <3>1. CASE a = p
      <4>1. i # item /\ i \in trash' /\ item \in trash'
        BY <1>2, <1>3 DEF DataOK
      <4> QED
        BY <1>2, <2>2, <3>1, <4>1 DEF Twice
    <3>2. CASE a # p
      BY <1>2, <1>4, <2>2, <3>2 DEF Twice
    <3> QED
      BY <3>1, <3>2
  <2>3. ASSUME NEW i \in trash, NEW j \in trash, i # j, c \in Contents(i.node), c \in Contents(j.node)
        PROVE  Twice(c)'
    BY <1>2, <2>3 DEF Twice
  <2> QED
    BY <1>10, <2>1, <2>2, <2>3 DEF Twice
<1> QED
  BY <1>5, <1>6, <1>9, <1>10 DEF KeepsTwice

\* An item goes to a path that is free.
LEMMA ItemToPath ==
  ASSUME DataOK, NothingLost, NEW item \in trash, NEW p \in Paths, disk[p] = None,
         disk' = [disk EXCEPT ![p] = item.node], trash' = trash \ {item},
         UNCHANGED <<nextId, nextContent, asked, overrun, replaced>>
  PROVE  DataOK' /\ Grows /\ KeepsTwice /\ NothingLost'
<1>1. item.node \in Node /\ disk'[p] = item.node /\ Contents(disk[p]) = {}
  BY Places DEF DataOK, Contents
<1>2. \A q \in Paths \ {p} : disk'[q] = disk[q]
  BY <1>1 DEF DataOK
<1>3. DataOK'
  <2>1. disk' \in [Paths -> Node \cup {None}] /\ trash' \subseteq Item
    BY <1>1 DEF DataOK
  <2>2. \A q \in Paths : \A c \in Contents(disk'[q]) : c < nextContent'
    BY <1>1, <1>2, Places
  <2>3. \A i \in trash' : \A c \in Contents(i.node) : c < nextContent'
    BY Places
  <2> QED
    BY <2>1, <2>2, <2>3, DataFrom DEF DataOK
<1>4. Grows
  BY DEF Grows, DataOK, Excused
<1>5. OnDisk \subseteq OnDisk'
  BY <1>1, <1>2 DEF OnDisk
<1>6. ASSUME NEW c, c \in InTrash PROVE c \in OnDisk' \cup InTrash'
  <2>1. PICK i \in trash : c \in Contents(i.node)
    BY <1>6 DEF InTrash
  <2>2. CASE i = item
    BY <1>1, <2>1, <2>2 DEF OnDisk
  <2>3. CASE i # item
    BY <2>1, <2>3 DEF InTrash
  <2> QED
    BY <2>2, <2>3
<1>7. NothingLost'
  BY <1>5, <1>6 DEF NothingLost
<1>8. ASSUME NEW c, Twice(c) PROVE Twice(c)'
  <2>1. ASSUME NEW a \in Paths, NEW b \in Paths, a # b, c \in Contents(disk[a]), c \in Contents(disk[b])
        PROVE  Twice(c)'
    BY <1>1, <1>2, <2>1 DEF Twice
  <2>2. ASSUME NEW a \in Paths, NEW i \in trash, c \in Contents(disk[a]), c \in Contents(i.node)
        PROVE  Twice(c)'
    <3>1. a # p /\ c \in Contents(disk'[a])
      BY <1>1, <1>2, <2>2
    <3>2. CASE i = item
      BY <1>1, <2>2, <3>1, <3>2 DEF Twice
    <3>3. CASE i # item
      BY <2>2, <3>1, <3>3 DEF Twice
    <3> QED
      BY <3>2, <3>3
  <2>3. ASSUME NEW i \in trash, NEW j \in trash, i # j, c \in Contents(i.node), c \in Contents(j.node)
        PROVE  Twice(c)'
    <3>1. CASE i = item
      BY <1>1, <2>3, <3>1 DEF Twice
    <3>2. CASE j = item
      BY <1>1, <2>3, <3>2 DEF Twice
    <3>3. CASE i # item /\ j # item
      BY <2>3, <3>3 DEF Twice
    <3> QED
      BY <3>1, <3>2, <3>3
  <2> QED
    BY <1>8, <2>1, <2>2, <2>3 DEF Twice
<1> QED
  BY <1>3, <1>4, <1>7, <1>8 DEF KeepsTwice

\* Items are purged whose contents were asked for or are overrun.
LEMMA ItemsGo ==
  ASSUME DataOK, NothingLost, trash' \subseteq trash,
         \A i \in trash \ trash' : Contents(i.node) \subseteq asked' \cup overrun',
         asked \subseteq asked', asked' \subseteq 0..nextContent,
         overrun \subseteq overrun', overrun' \subseteq 0..nextContent,
         UNCHANGED <<disk, nextId, nextContent, replaced>>
  PROVE  DataOK' /\ Grows /\ KeepsTwice /\ NothingLost'
<1>1. DataOK'
  <2>1. \A p \in Paths : \A c \in Contents(disk'[p]) : c < nextContent'
    BY Places
  <2>2. \A i \in trash' : \A c \in Contents(i.node) : c < nextContent'
    BY Places
  <2> QED
    BY <2>1, <2>2, DataFrom DEF DataOK
<1>2. Grows
  BY DEF Grows, DataOK, Excused
<1>3. InTrash \subseteq InTrash' \cup asked' \cup overrun'
  BY DEF InTrash
<1>4. NothingLost'
  BY <1>3 DEF NothingLost, OnDisk
<1>5. KeepsTwice
  BY DEF KeepsTwice, Twice, Excused
<1> QED
  BY <1>1, <1>2, <1>4, <1>5

\* A path replaces another one, whose contents are overrun or replaced.
LEMMA PathToPath ==
  ASSUME DataOK, NothingLost, NEW from \in Paths, NEW to \in Paths, disk[from] # None,
         disk' = [disk EXCEPT ![from] = None, ![to] = disk[from]],
         Contents(disk[to]) \subseteq overrun' \cup replaced',
         overrun \subseteq overrun', overrun' \subseteq overrun \cup Contents(disk[to]),
         replaced \subseteq replaced', replaced' \subseteq replaced \cup Contents(disk[to]),
         UNCHANGED <<trash, nextId, nextContent, asked>>
  PROVE  DataOK' /\ Grows /\ KeepsTwice /\ NothingLost'
<1>1. /\ disk'[to] = disk[from]
      /\ from # to => disk'[from] = None /\ Contents(disk'[from]) = {}
      /\ \A q \in Paths \ {from, to} : disk'[q] = disk[q]
  BY DEF DataOK, Contents
<1>2. Contents(disk[to]) \subseteq Excused'
  BY DEF Excused
<1>3. DataOK'
  <2>1. disk' \in [Paths -> Node \cup {None}]
    BY DEF DataOK
  <2>2. \A q \in Paths : \A c \in Contents(disk'[q]) : c < nextContent'
    BY <1>1, Places
  <2>3. \A i \in trash' : \A c \in Contents(i.node) : c < nextContent'
    BY Places
  <2>4. overrun' \subseteq 0..nextContent' /\ replaced' \subseteq 0..nextContent'
    BY Places DEF DataOK
  <2> QED
    BY <2>1, <2>2, <2>3, <2>4, DataFrom DEF DataOK
<1>4. Grows
  BY DEF Grows, DataOK, Excused
<1>5. ASSUME NEW c, NEW q \in Paths, c \in Contents(disk[q]), c \notin Excused'
      PROVE  q # to /\ \E r \in Paths : c \in Contents(disk'[r]) /\ r = IF q = from THEN to ELSE q
  BY <1>1, <1>2, <1>5
<1>6. OnDisk \subseteq OnDisk' \cup Excused'
  <2> SUFFICES ASSUME NEW q \in Paths, NEW c \in Contents(disk[q]), c \notin Excused'
               PROVE  c \in OnDisk'
    BY DEF OnDisk
  <2>1. PICK r \in Paths : c \in Contents(disk'[r])
    BY <1>5
  <2> QED
    BY <2>1 DEF OnDisk
<1>7. NothingLost'
  BY <1>6, <1>4 DEF NothingLost, InTrash, Excused, Grows
<1>8. ASSUME NEW c, Twice(c), c \notin Excused' PROVE Twice(c)'
  <2>1. ASSUME NEW a \in Paths, NEW b \in Paths, a # b, c \in Contents(disk[a]), c \in Contents(disk[b])
        PROVE  Twice(c)'
    BY <1>5, <1>8, <2>1 DEF Twice
  <2>2. ASSUME NEW a \in Paths, NEW i \in trash, c \in Contents(disk[a]), c \in Contents(i.node)
        PROVE  Twice(c)'
    BY <1>5, <1>8, <2>2 DEF Twice
  <2> QED
    BY <1>8, <2>1, <2>2 DEF Twice
<1> QED
  BY <1>3, <1>4, <1>7, <1>8 DEF KeepsTwice

\* What one path holds changes; what it loses was asked for or is overrun.
LEMMA PathChanges ==
  ASSUME DataOK, NothingLost, NEW p \in Paths, NEW node \in Node \cup {None},
         disk' = [disk EXCEPT ![p] = node],
         Contents(disk[p]) \ Contents(node) \subseteq Excused',
         asked \subseteq asked', overrun \subseteq overrun', replaced \subseteq replaced',
         asked' \subseteq 0..nextContent, overrun' \subseteq 0..nextContent,
         replaced' \subseteq 0..nextContent,
         \/ nextContent' = nextContent
         \/ nextContent' = nextContent + 1 /\ nextContent \in Contents(node),
         \A c \in Contents(node) : c < nextContent',
         UNCHANGED <<trash, nextId>>
  PROVE  DataOK' /\ Grows /\ KeepsTwice /\ NothingLost'
<1>1. disk'[p] = node /\ \A q \in Paths \ {p} : disk'[q] = disk[q]
  BY DEF DataOK
<1>2. nextContent' \in Nat /\ nextContent <= nextContent'
  BY DEF DataOK
<1>3. DataOK'
  <2>1. disk' \in [Paths -> Node \cup {None}]
    BY DEF DataOK
  <2>2. \A q \in Paths : \A c \in Contents(disk'[q]) : c < nextContent'
    BY <1>1, <1>2, Places DEF DataOK
  <2>3. \A i \in trash' : \A c \in Contents(i.node) : c < nextContent'
    BY <1>2, Places DEF DataOK
  <2>4. asked' \subseteq 0..nextContent' /\ overrun' \subseteq 0..nextContent'
        /\ replaced' \subseteq 0..nextContent'
    BY <1>2 DEF DataOK
  <2> QED
    BY <1>2, <2>1, <2>2, <2>3, <2>4, DataFrom DEF DataOK
<1>4. Grows
  BY DEF Grows, DataOK, Excused
<1>5. ASSUME NEW c, NEW q \in Paths, c \in Contents(disk[q]), c \notin Excused'
      PROVE  c \in Contents(disk'[q])
  BY <1>1, <1>5
<1>6. OnDisk \subseteq OnDisk' \cup Excused'
  BY <1>5 DEF OnDisk
<1>7. nextContent' = nextContent + 1 => nextContent \in OnDisk'
  BY <1>1 DEF OnDisk, DataOK
<1>8. NothingLost'
  BY <1>4, <1>6, <1>7 DEF NothingLost, InTrash, DataOK, Excused, Grows
<1>9. ASSUME NEW c, Twice(c), c \notin Excused' PROVE Twice(c)'
  BY <1>5, <1>9 DEF Twice
<1> QED
  BY <1>3, <1>4, <1>8, <1>9 DEF KeepsTwice

-----------------------------------------------------------------------------
(* What a step may do to the jobs and the undo.                             *)

Data == DataOK' /\ Grows /\ KeepsTwice /\ NothingLost'

LEMMA JobFields ==
  ASSUME NEW j \in Jobs
  PROVE  /\ j.op = "trash" =>
              /\ j.todo \in Seq(Paths) /\ j.paths \subseteq Paths /\ j.before \subseteq Nat
              /\ j.mine \subseteq Nat /\ j.blind \in BOOLEAN /\ j.from \in Nat
              /\ j \in TrashJobs
         /\ j.op \in {"restore", "purge"} =>
              /\ j.todo \subseteq Item /\ j.action \in Undos \cup {None}
              /\ j = [op |-> j.op, todo |-> j.todo, action |-> j.action]
         /\ j.op \in {"check", "back", "remove"} =>
              /\ j.todo \in Seq(Paths \X Paths) /\ j.action \in Undos
              /\ j.there \subseteq Nat /\ j.copied \subseteq Nat
              /\ j = [op |-> j.op, todo |-> j.todo, there |-> j.there, copied |-> j.copied,
                      action |-> j.action]
         /\ j.op = "delete" =>
              /\ j.todo \in Seq(Paths) /\ j.listed \in (SUBSET Kids) \cup {None}
              /\ j.action \in Undos \cup {None}
              /\ j = [op |-> "delete", todo |-> j.todo, listed |-> j.listed, action |-> j.action]
         /\ j.op \in {"folder", "file"} => j.target \in Paths
         /\ j.op = "rename" => j.path \in Paths /\ j.target \in Paths
<1>1. CASE j \in [op: {"trash"}, todo: Seq(Paths), paths: SUBSET Paths, before: SUBSET Nat,
                  mine: SUBSET Nat, blind: BOOLEAN, from: Nat]
  BY <1>1 DEF TrashJobs
<1>2. CASE j \in [op: {"restore", "purge"}, todo: SUBSET Item, action: Undos \cup {None}]
  BY <1>2
<1>3. CASE j \in [op: {"check", "back", "remove"}, todo: Seq(Paths \X Paths), there: SUBSET Nat,
                  copied: SUBSET Nat, action: Undos]
  BY <1>3
<1>4. CASE j \in [op: {"delete"}, todo: Seq(Paths), listed: (SUBSET Kids) \cup {None},
                  action: Undos \cup {None}]
  BY <1>4
<1>5. CASE j \in [op: {"folder", "file"}, target: Paths]
  BY <1>5
<1>6. CASE j \in [op: {"rename"}, path: Paths, target: Paths]
  BY <1>6
<1> QED
  BY <1>1, <1>2, <1>3, <1>4, <1>5, <1>6 DEF Jobs

LEMMA UndoFields ==
  ASSUME NEW u \in Undos
  PROVE  /\ u.kind = "trash" => /\ u.items \subseteq Nat /\ u.before \subseteq Nat /\ u.mine \subseteq Nat /\ u.from \in Nat
                                /\ u.blind \in BOOLEAN
         /\ u.kind = "copy" => u.targets \in Seq(Paths)
         /\ u.kind = "move" => u.pairs \in Seq(Paths \X Paths)
         /\ u.kind \in {"trash", "copy", "move"}
BY DEF Undos

\* What an undo knows stays true.
LEMMA KnowsStays ==
  ASSUME DataOK, DataOK', Grows, NEW u \in Undos \cup {None}, Knows(u)
  PROVE  Knows(u)'
<1> SUFFICES ASSUME u # None, u.kind = "trash"
             PROVE  /\ u.from <= nextId' /\ \A n \in u.mine : n < nextId'
                    /\ \A i \in trash' : i.nth \in u.mine => i.id \in u.items \cup u.before
                    /\ u.blind \/ \A i \in trash' : i.id \in u.items => i.nth >= u.from
  BY DEF Knows
<1>1. /\ u.mine \subseteq Nat /\ u.from \in Nat /\ nextId \in Nat /\ nextId' \in Nat
      /\ u.from <= nextId /\ \A n \in u.mine : n < nextId
      /\ \A i \in trash' : i.nth \in Nat
  BY UndoFields DEF Knows, DataOK, Item
<1>2. u.from <= nextId' /\ \A n \in u.mine : n < nextId'
  BY <1>1 DEF Grows
<1>3. \A i \in trash' : i.nth \in u.mine => i \in trash
  BY <1>1 DEF Grows
<1>4. \A i \in trash' : i.nth < u.from => i \in trash
  BY <1>1 DEF Grows
<1> QED
  BY <1>1, <1>2, <1>3, <1>4 DEF Knows

\* So does what a job relies on.
LEMMA JobStays ==
  ASSUME DataOK, DataOK', Grows, NEW j \in Jobs \cup {None}, JobOK(j),
         Moving(j) => KeepsTwice
  PROVE  JobOK(j)'
<1> SUFFICES ASSUME j # None PROVE JobOK(j)'
  BY DEF JobOK
<1>1. j \in Jobs /\ nextId \in Nat /\ nextId' \in Nat
  BY DEF DataOK
<1>2. ASSUME j.op = "trash" PROVE TrashesOwn(j)'
  <2>1. TrashesOwn(j) /\ j.from \in Nat /\ j.mine \subseteq Nat /\ j.before \subseteq Nat
    BY <1>1, <1>2, JobFields DEF JobOK
  <2>2. \A i \in trash' : i.nth \in Nat /\ (i \in trash \/ i.nth >= nextId)
    BY Places DEF DataOK, Item, Grows
  <2>3. \A i \in trash' : i.nth \in j.mine => i.from \in j.paths
    BY <1>1, <2>1, <2>2 DEF TrashesOwn
  <2>4. j.blind \/ \A i \in trash' : i.nth < j.from => i.id \in j.before
    BY <1>1, <2>1, <2>2 DEF TrashesOwn
  <2>5. j.from <= nextId' /\ \A n \in j.mine : n < nextId'
    BY <1>1, <2>1 DEF TrashesOwn, Grows
  <2> QED
    BY <2>1, <2>3, <2>4, <2>5 DEF TrashesOwn
<1>4. ASSUME j.op = "restore", j.action # None PROVE Knows(j.action)'
  <2>1. j.action \in Undos \cup {None} /\ Knows(j.action)
    BY <1>1, <1>4, JobFields DEF JobOK
  <2>2. PICK u : u = j.action
    OBVIOUS
  <2>3. Knows(u)'
    BY <2>1, <2>2, KnowsStays
  <2> QED
    BY <2>2, <2>3
<1>5. ASSUME Moving(j) PROVE MovesBack(j)'
  BY <1>5 DEF JobOK, MovesBack, KeepsTwice, Grows
<1> QED
  BY <1>2, <1>4, <1>5 DEF JobOK, Moving

\* One job moves on, and the undo is left, given up, taken, or offered.
LEMMA JobStep ==
  ASSUME FilesInv, DataOK', Grows, NothingLost',
         NEW w \in Workers, NEW next \in Jobs \cup {None}, Goes(w, next), JobOK(next)',
         KeepsTwice \/ Moving(job[w]),
         undo' \in Undos \cup {None}, Knows(undo)',
         Moving(next) => (Moving(job[w]) \/ IsMove(undo)) /\ ~IsMove(undo'),
         IsMove(undo') => IsMove(undo) \/ Moving(job[w]),
         UNCHANGED across,
         foreign' \in 0..MaxForeign, failures' \in 0..MaxFailures, jobs' \in 0..MaxJobs
  PROVE  FilesInv'
<1>1. /\ job'[w] = next
      /\ \A v \in Workers \ {w} : job'[v] = job[v]
      /\ job' \in [Workers -> Jobs \cup {None}]
  BY DEF Goes, FilesInv, ControlOK
<1>2. ControlOK'
  BY <1>1 DEF FilesInv, ControlOK
<1>3. ASSUME NEW v \in Workers PROVE JobOK(job[v])'
  <2>1. CASE v = w
    BY <1>1, <2>1
  <2>2. CASE v # w
    <3>1. PICK j : j = job[v]
      OBVIOUS
    <3>2. Moving(j) => KeepsTwice
      BY <2>2, <3>1 DEF FilesInv, OneMove
    <3>3. JobOK(j)'
      BY <3>1, <3>2, JobStays DEF FilesInv, ControlOK
    <3> QED
      BY <1>1, <2>2, <3>1, <3>3
  <2> QED
    BY <2>1, <2>2
<1>4. OneMove'
  <2>1. \A u, v \in Workers : Moving(job'[u]) /\ Moving(job'[v]) => u = v
    BY <1>1 DEF FilesInv, OneMove
  <2>2. IsMove(undo') => \A v \in Workers : ~Moving(job'[v])
    BY <1>1 DEF FilesInv, OneMove
  <2> QED
    BY <2>1, <2>2 DEF OneMove, Moving, IsMove
<1> QED
  BY <1>2, <1>3, <1>4 DEF FilesInv


-----------------------------------------------------------------------------
(* The parts that the steps share.                                          *)

LEMMA Bounds ==
  ASSUME ControlOK
  PROVE  /\ Fails => failures' \in 0..MaxFailures
         /\ foreign \in 0..MaxForeign /\ failures \in 0..MaxFailures /\ jobs \in 0..MaxJobs
         /\ jobs < MaxJobs => jobs + 1 \in 0..MaxJobs
         /\ foreign < MaxForeign => foreign + 1 \in 0..MaxForeign
BY FileOperationsAssumption DEF ControlOK, Fails

\* The undo that is offered stays as it is.
LEMMA UndoStays ==
  ASSUME FilesInv, DataOK', Grows, UNCHANGED undo
  PROVE  undo' \in Undos \cup {None} /\ Knows(undo)' /\ (IsMove(undo') => IsMove(undo))
<1>1. undo \in Undos \cup {None}
  BY DEF FilesInv, ControlOK
<1>2. PICK u : u = undo
  OBVIOUS
<1>3. Knows(u)'
  BY <1>1, <1>2, KnowsStays DEF FilesInv
<1>4. Knows(undo)'
  BY <1>2, <1>3 DEF Knows
<1> QED
  BY <1>1, <1>4

\* The undo that a job takes back is offered again.
LEMMA UndoReturns ==
  ASSUME FilesInv, DataOK', Grows, NEW w \in Workers, job[w] # None,
         job[w].op \in {"restore", "purge", "check", "back", "remove", "delete"},
         undo' = IF job[w].action = None THEN undo ELSE job[w].action
  PROVE  /\ undo' \in Undos \cup {None} /\ Knows(undo)'
         /\ IsMove(undo') => IsMove(undo) \/ Moving(job[w])
<1> PICK j : j = job[w]
  OBVIOUS
<1>1. j \in Jobs /\ j # None /\ JobOK(j)
  BY DEF FilesInv, ControlOK
<1>2. CASE j.action = None
  <2>1. UNCHANGED undo
    BY <1>2
  <2> QED
    BY <2>1, UndoStays
<1>3. CASE j.action # None
  <2>1. PICK u : u = j.action
    OBVIOUS
  <2>2. u \in Undos /\ undo' = u
    BY <1>1, <1>3, <2>1, JobFields
  <2>3. Knows(u) /\ (u.kind = "move" => Moving(j))
    BY <1>1, <1>3, <2>1 DEF JobOK, Moving, MovesBack, Knows
  <2>4. Knows(u)'
    BY <2>2, <2>3, KnowsStays DEF FilesInv
  <2>5. Knows(undo)'
    BY <2>2, <2>4 DEF Knows
  <2> QED
    BY <2>2, <2>3, <2>5 DEF IsMove
<1> QED
  BY <1>2, <1>3

\* A job ends: well, or with an error that offers its undo again.
LEMMA JobEnds ==
  ASSUME FilesInv, DataOK', Grows, NothingLost', NEW w \in Workers,
         KeepsTwice \/ Moving(job[w]),
         \/ Ends(w)
         \/ /\ UndoFails(w) /\ job[w] # None
            /\ job[w].op \in {"restore", "purge", "check", "back", "remove", "delete"},
         UNCHANGED <<across, foreign, jobs>>, failures' \in 0..MaxFailures
  PROVE  FilesInv'
<1>1. Goes(w, None) /\ JobOK(None)' /\ ~Moving(None)
  BY DEF Ends, UndoFails, JobOK, Moving
<1>2. /\ undo' \in Undos \cup {None} /\ Knows(undo)'
      /\ IsMove(undo') => IsMove(undo) \/ Moving(job[w])
  BY UndoStays, UndoReturns DEF Ends, UndoFails
<1>3. foreign' \in 0..MaxForeign /\ jobs' \in 0..MaxJobs
  BY DEF FilesInv, ControlOK
<1> QED
  BY <1>1, <1>2, <1>3, JobStep

\* A job that does not move paths back goes on.
LEMMA JobGoes ==
  ASSUME FilesInv, Data, NEW w \in Workers, NEW next \in Jobs \cup {None}, Goes(w, next),
         JobOK(next)', ~Moving(next), UNCHANGED <<undo, across, foreign, jobs>>,
         failures' \in 0..MaxFailures
  PROVE  FilesInv'
<1>1. undo' \in Undos \cup {None} /\ Knows(undo)' /\ (IsMove(undo') => IsMove(undo))
  BY UndoStays DEF Data
<1>2. foreign' \in 0..MaxForeign /\ jobs' \in 0..MaxJobs
  BY DEF FilesInv, ControlOK
<1> QED
  BY <1>1, <1>2, JobStep DEF Data

\* A job begins, and with it the undo that was offered is gone.
LEMMA JobBegins ==
  ASSUME FilesInv, Data, NEW w \in Workers, NEW next \in Jobs \cup {None}, Goes(w, next),
         JobOK(next)', Moving(next) => IsMove(undo), undo' = None, jobs < MaxJobs, jobs' = jobs + 1,
         UNCHANGED <<across, foreign>>, failures' \in 0..MaxFailures
  PROVE  FilesInv'
<1>1. undo' \in Undos \cup {None} /\ Knows(undo)' /\ ~IsMove(undo')
  BY DEF Knows, IsMove
<1>2. foreign' \in 0..MaxForeign /\ jobs' \in 0..MaxJobs
  BY Bounds DEF FilesInv
<1> QED
  BY <1>1, <1>2, JobStep DEF Data

\* Other programs leave the jobs and the undo alone.
LEMMA OtherStep ==
  ASSUME FilesInv, Data, UNCHANGED <<undo, job, across, failures, jobs>>,
         foreign' \in 0..MaxForeign
  PROVE  FilesInv'
<1>1. ControlOK'
  BY DEF FilesInv, ControlOK
<1>2. Knows(undo)'
  BY UndoStays DEF Data
<1>3. ASSUME NEW v \in Workers PROVE JobOK(job[v])'
  <2>1. PICK j : j = job[v]
    OBVIOUS
  <2>2. JobOK(j)'
    BY <2>1, JobStays DEF FilesInv, ControlOK, Data
  <2> QED
    BY <2>1, <2>2
<1>4. OneMove'
  BY DEF FilesInv, OneMove, Moving, IsMove
<1> QED
  BY <1>1, <1>2, <1>3, <1>4 DEF FilesInv, Data

\* Nothing moves, and nothing is asked for or overrun.
LEMMA StillData ==
  ASSUME FilesInv, UNCHANGED <<disk, trash, nextId, nextContent, asked, overrun, replaced>>
  PROVE  Data
<1>1. DataOK /\ NothingLost /\ asked \subseteq 0..nextContent
  BY DEF FilesInv, DataOK
<1> QED
  BY <1>1, NothingMoves DEF Data

\* SetToSeq lists a set of paths.
LEMMA ListsPaths ==
  ASSUME NEW paths \in SUBSET Paths
  PROVE  SetToSeq(paths) \in Seq(Paths) /\ ToSet(SetToSeq(paths)) \subseteq paths
<1>1. IsFiniteSet(paths)
  BY FileOperationsAssumption, FS_Subset
<1>2. PICK n \in Nat : ExistsBijection(1..n, paths)
  BY <1>1, FS_NatBijection
<1>3. n = Cardinality(paths)
  BY <1>1, <1>2, FS_CountingElements
<1>4. \E f \in [1..Cardinality(paths) -> paths] : IsInjective(f)
  BY <1>2, <1>3 DEF ExistsBijection, Bijection, Injection, Surjection, IsInjective
<1>5. SetToSeq(paths) \in [1..n -> paths]
  BY <1>3, <1>4 DEF SetToSeq
<1> QED
  BY <1>5 DEF ToSet

-----------------------------------------------------------------------------
(* Moving to the trash.                                                     *)

LEMMA MoveToTrashStep == ASSUME FilesInv, NEW w \in Workers, MoveToTrash(w) PROVE FilesInv'
<1>1. Data
  BY StillData DEF MoveToTrash
<1>2. PICK paths \in SUBSET Paths, blind \in BOOLEAN :
        /\ IF blind THEN Fails ELSE UNCHANGED failures
        /\ Goes(w, [op |-> "trash", todo |-> SetToSeq(paths), paths |-> paths,
                    before |-> IF blind THEN {} ELSE Listed, mine |-> {}, blind |-> blind,
                    from |-> nextId])
  BY DEF MoveToTrash
<1>3. PICK before, from : before = (IF blind THEN {} ELSE Listed) /\ from = nextId
  OBVIOUS
<1>4. /\ from \in Nat /\ before \subseteq Nat
      /\ blind \/ \A i \in trash : i.id \in before
  BY <1>3, Places DEF Listed, Ids, FilesInv, DataOK
<1> DEFINE next == [op |-> "trash", todo |-> SetToSeq(paths), paths |-> paths, before |-> before,
                    mine |-> {}, blind |-> blind, from |-> from]
<1>5. next \in Jobs
  BY <1>4, ListsPaths DEF Jobs
<1>6. TrashesOwn(next)'
  BY <1>3, <1>4, ListsPaths DEF TrashesOwn, MoveToTrash
<1>7. JobOK(next)' /\ ~Moving(next)
  BY <1>6 DEF JobOK, Moving
<1>8. failures' \in 0..MaxFailures
  BY <1>2, Bounds DEF FilesInv
<1>9. Goes(w, next)
  BY <1>2, <1>3
<1> HIDE DEF next
<1> QED
  BY <1>1, <1>5, <1>7, <1>8, <1>9, JobBegins DEF MoveToTrash, BeginOperation, Begin

LEMMA TrashNextStep == ASSUME FilesInv, NEW w \in Workers, TrashNext(w) PROVE FilesInv'
<1> PICK j : j = job[w]
  OBVIOUS
<1>1. j \in Jobs /\ j # None /\ j.op = "trash" /\ j.todo # <<>>
  BY DEF TrashNext, Doing, FilesInv, ControlOK
<1>2. TrashesOwn(j)
  BY <1>1 DEF FilesInv, JobOK
<1>3. PICK p : p = Head(j.todo)
  OBVIOUS
<1>4. j.todo \in Seq(Paths) /\ Tail(j.todo) \in Seq(Paths) /\ p \in Paths /\ p \in j.paths
      /\ ToSet(Tail(j.todo)) \subseteq j.paths
  <2>1. j.todo \in Seq(Paths) /\ Len(j.todo) > 0
    BY <1>1, JobFields, EmptySeq
  <2>2. ToSet(Tail(j.todo)) \subseteq ToSet(j.todo) /\ Head(j.todo) \in ToSet(j.todo)
    BY <1>1, <2>1, HeadTailProperties DEF ToSet
  <2> QED
    BY <1>1, <1>2, <1>3, <2>1, <2>2, HeadTailProperties DEF TrashesOwn
<1>5. ControlOK /\ DataOK /\ NothingLost /\ failures \in 0..MaxFailures
  BY DEF FilesInv, ControlOK
<1>6. ASSUME disk[p] = None, Goes(w, [j EXCEPT !.todo = Tail(@)]),
             UNCHANGED <<disk, trash, nextId, undo, failures>>
      PROVE  FilesInv'
  <2>1. Data
    BY <1>6, StillData DEF TrashNext
  <2>2. PICK next : next = [j EXCEPT !.todo = Tail(@)]
    OBVIOUS
  <2>3. /\ next.op = "trash" /\ next.todo = Tail(j.todo) /\ next.paths = j.paths
        /\ next.before = j.before /\ next.mine = j.mine /\ next.blind = j.blind
        /\ next.from = j.from
        /\ next \in [op: {"trash"}, todo: Seq(Paths), paths: SUBSET Paths, before: SUBSET Nat,
                     mine: SUBSET Nat, blind: BOOLEAN, from: Nat]
    <3>1. j \in TrashJobs /\ j.mine \in SUBSET Nat
      BY <1>1, JobFields
    <3>2. next \in TrashJobs
      BY <1>4, <2>2, <3>1 DEF TrashJobs
    <3> QED
      BY <2>2, <3>1, <3>2 DEF TrashJobs
  <2>4. TrashesOwn(next)'
    BY <1>2, <1>4, <1>6, <2>3 DEF TrashesOwn
  <2>5. next \in Jobs /\ JobOK(next)' /\ ~Moving(next)
    BY <2>3, <2>4 DEF Jobs, JobOK, Moving
  <2> QED
    BY <1>5, <1>6, <2>1, <2>2, <2>5, JobGoes DEF TrashNext
<1>7. ASSUME disk[p] # None, ToTrash(p),
             Goes(w, [j EXCEPT !.todo = Tail(@), !.mine = @ \cup {nextId}]),
             UNCHANGED <<undo, failures>>
      PROVE  FilesInv'
  <2>1. Data
    BY <1>4, <1>5, <1>7, PathToTrash DEF TrashNext, Data
  <2>2. PICK next, n : next = [j EXCEPT !.todo = Tail(@), !.mine = @ \cup {n}] /\ n = nextId
    OBVIOUS
  <2>3. /\ next.op = "trash" /\ next.todo = Tail(j.todo) /\ next.paths = j.paths
        /\ next.before = j.before /\ next.mine = j.mine \cup {n} /\ next.blind = j.blind
        /\ next.from = j.from
        /\ next \in [op: {"trash"}, todo: Seq(Paths), paths: SUBSET Paths, before: SUBSET Nat,
                     mine: SUBSET Nat, blind: BOOLEAN, from: Nat]
    <3>1. n \in Nat
      BY <1>5, <2>2 DEF DataOK
    <3>2. j \in TrashJobs /\ j.mine \in SUBSET Nat
      BY <1>1, JobFields
    <3>3. next \in TrashJobs
      BY <1>4, <2>2, <3>1, <3>2 DEF TrashJobs
    <3> QED
      BY <2>2, <3>2, <3>3 DEF TrashJobs
  <2>4. PICK item : trash' = trash \cup {item} /\ item.nth = n /\ item.from = p
    <3>1. PICK id, item : /\ item = [id |-> id, nth |-> n, from |-> p, node |-> disk[p]]
                          /\ trash' = trash \cup {item}
      BY <1>7, <2>2 DEF ToTrash
    <3> QED
      BY <3>1
  <2>5. /\ j.from \in Nat /\ n \in Nat /\ j.mine \subseteq Nat /\ nextId' = n + 1
        /\ \A i \in trash : i.nth \in Nat /\ i.nth < n
    BY <1>1, <1>5, <1>7, <2>2, JobFields, Places DEF DataOK, ToTrash
  <2>6. TrashesOwn(next)'
    <3>1. next.from <= nextId' /\ \A k \in next.mine : k < nextId'
      BY <1>2, <2>2, <2>3, <2>5 DEF TrashesOwn
    <3>2. \A i \in trash' : i.nth \in next.mine => i.from \in next.paths
      BY <1>2, <1>4, <2>3, <2>4, <2>5 DEF TrashesOwn
    <3>3. next.blind \/ \A i \in trash' : i.nth < next.from => i.id \in next.before
      BY <1>2, <2>2, <2>3, <2>4, <2>5 DEF TrashesOwn
    <3> QED
      BY <1>4, <2>3, <3>1, <3>2, <3>3 DEF TrashesOwn
  <2>7. next \in Jobs /\ JobOK(next)' /\ ~Moving(next)
    BY <2>3, <2>6 DEF Jobs, JobOK, Moving
  <2> QED
    BY <1>5, <1>7, <2>1, <2>2, <2>7, JobGoes DEF TrashNext
<1>8. ASSUME Fails, Ends(w), UNCHANGED <<disk, trash, nextId>> PROVE FilesInv'
  <2>1. Data
    BY <1>8, StillData DEF TrashNext
  <2> QED
    BY <1>5, <1>8, <2>1, Bounds, JobEnds DEF TrashNext, Data
<1> QED
  BY <1>3, <1>6, <1>7, <1>8 DEF TrashNext

\* The items that are new are younger than the job, and all of its own are among them.
LEMMA TrashFinishedStep == ASSUME FilesInv, NEW w \in Workers, TrashFinished(w) PROVE FilesInv'
<1> PICK j : j = job[w]
  OBVIOUS
<1>1. j \in Jobs /\ j # None /\ j.op = "trash"
  BY DEF TrashFinished, Doing, FilesInv, ControlOK
<1>2. TrashesOwn(j)
  BY <1>1 DEF FilesInv, JobOK
<1>3. Data
  BY StillData DEF TrashFinished
<1>4. PICK new : new = {i \in trash : i.id \notin j.before /\ i.from \in j.paths}
  OBVIOUS
<1>5. PICK items \in {Ids(new), {}} :
        /\ IF items # Ids(new) THEN Fails ELSE UNCHANGED failures
        /\ undo' = Offered(w, items)
  BY <1>4 DEF TrashFinished
<1>6. failures' \in 0..MaxFailures
  BY <1>5, Bounds DEF FilesInv
<1>7. undo' \in Undos \cup {None} /\ Knows(undo)' /\ (IsMove(undo') => IsMove(undo))
  <2>1. CASE items = {}
    BY <1>3, <1>5, <2>1, UndoStays DEF Offered, Data
  <2>2. CASE items # {}
    <3>1. PICK u : u = [kind |-> "trash", items |-> items, before |-> j.before, mine |-> j.mine,
                        blind |-> j.blind, from |-> j.from]
      OBVIOUS
    <3>2. undo' = u /\ items = Ids(new)
      BY <1>5, <2>2, <3>1 DEF Offered, UndoTrash
    <3>3. /\ j.from \in Nat /\ j.before \subseteq Nat /\ j.mine \subseteq Nat /\ j.blind \in BOOLEAN
          /\ \A i \in trash : i.id \in Nat /\ i.nth \in Nat
      BY <1>1, JobFields, Places DEF FilesInv
    <3>4. items \subseteq Nat
      BY <1>4, <3>2, <3>3 DEF Ids
    <3>5. /\ u.kind = "trash" /\ u.items = items /\ u.before = j.before /\ u.mine = j.mine
          /\ u.blind = j.blind /\ u.from = j.from /\ u \in Undos
      <4>1. u \in [kind: {"trash"}, items: (SUBSET Nat) \ {{}}, before: SUBSET Nat, mine: SUBSET Nat,
                   blind: BOOLEAN, from: Nat]
        <5>1. /\ items \in (SUBSET Nat) \ {{}} /\ j.before \in SUBSET Nat /\ j.mine \in SUBSET Nat
              /\ j.blind \in BOOLEAN /\ j.from \in Nat
          BY <2>2, <3>3, <3>4
        <5> QED
          BY <3>1, <5>1, Zenon
      <4> QED
        BY <3>1, <4>1 DEF Undos
    <3>6. \A i \in trash : i.nth \in j.mine => i.id \in items \cup j.before
      BY <1>2, <1>4, <3>2 DEF TrashesOwn, Ids
    <3>7. \A i \in trash : i.id \in items => i \in new
      BY <1>4, <3>2 DEF Ids, FilesInv, DataOK
    <3>8. j.blind \/ \A i \in trash : i.id \in items => i.nth >= j.from
      BY <1>2, <1>4, <3>3, <3>7 DEF TrashesOwn
    <3>9. UNCHANGED <<trash, nextId>>
      BY DEF TrashFinished
    <3>10. Knows(u)'
      BY <1>2, <3>5, <3>6, <3>8, <3>9 DEF Knows, TrashesOwn
    <3>11. Knows(undo)'
      BY <3>2, <3>10 DEF Knows
    <3> QED
      BY <3>2, <3>5, <3>11 DEF IsMove
  <2> QED
    BY <2>1, <2>2
<1>8. Goes(w, None) /\ JobOK(None)' /\ ~Moving(None) /\ UNCHANGED <<across, foreign, jobs>>
  BY DEF TrashFinished, JobOK, Moving
<1> QED
  BY <1>3, <1>6, <1>7, <1>8, JobStep DEF Data, FilesInv, ControlOK

-----------------------------------------------------------------------------
(* The items of the trash.                                                  *)

LEMMA SelectItemsStep == ASSUME FilesInv, NEW w \in Workers, SelectItems(w) PROVE FilesInv'
<1>1. PICK op \in {"restore", "purge"}, found \in SUBSET trash :
        /\ Goes(w, [op |-> op, todo |-> found, action |-> None])
        /\ IF op = "purge"
           THEN \E chosen \in SUBSET found :
                  /\ \A i \in found \ chosen : i.id # i.nth
                  /\ asked' = asked \cup UNION {Contents(i.node) : i \in chosen}
           ELSE UNCHANGED asked
  BY DEF SelectItems
<1>2. PICK next : next = [op |-> op, todo |-> found, action |-> None]
  OBVIOUS
<1>3. \A i \in trash : Contents(i.node) \subseteq 0..nextContent
  BY Places DEF FilesInv, DataOK
<1>4. Data
  <2>1. asked \subseteq 0..nextContent
    BY DEF FilesInv, DataOK
  <2>2. asked \subseteq asked' /\ asked' \subseteq 0..nextContent
    <3>1. CASE op # "purge"
      BY <1>1, <2>1, <3>1
    <3>2. CASE op = "purge"
      <4>1. PICK chosen \in SUBSET found :
              asked' = asked \cup UNION {Contents(i.node) : i \in chosen}
        BY <1>1, <3>2
      <4> QED
        BY <1>3, <2>1, <4>1
    <3> QED
      BY <3>1, <3>2
  <2> QED
    BY <2>2, NothingMoves DEF SelectItems, FilesInv, DataOK, Data
<1>5. found \subseteq Item
  BY DEF FilesInv, DataOK
<1>6. next \in Jobs /\ ~Moving(next)
  BY <1>2, <1>5 DEF Jobs, Moving
<1>7. JobOK(next)'
  BY <1>2 DEF JobOK, Moving
<1>8. failures' \in 0..MaxFailures
  BY DEF SelectItems, FilesInv, ControlOK
<1> QED
  BY <1>1, <1>2, <1>4, <1>6, <1>7, <1>8, JobBegins DEF SelectItems, BeginOperation, Begin

LEMMA RestoreNextStep ==
  ASSUME FilesInv, NEW w \in Workers, Doing(w, "restore"), RestoreNext(w) PROVE FilesInv'
<1> PICK j : j = job[w]
  OBVIOUS
<1>1. j \in Jobs /\ j # None /\ j.op = "restore" /\ JobOK(j)
  BY DEF Doing, FilesInv, ControlOK
<1>2. ControlOK /\ DataOK /\ NothingLost /\ failures \in 0..MaxFailures
  BY DEF FilesInv, ControlOK
<1>3. UNCHANGED <<nextId, nextContent, across, foreign, jobs, asked, overrun, replaced>>
  BY DEF RestoreNext
<1>4. ASSUME NEW item \in j.todo, NEW i \in trash, disk[item.from] = None,
             disk' = [disk EXCEPT ![item.from] = i.node], trash' = trash \ {i},
             Goes(w, [j EXCEPT !.todo = @ \ {item}]), UNCHANGED <<undo, failures>>
      PROVE  FilesInv'
  <2>1. Data
    <3>1. item.from \in Paths
      BY <1>1, JobFields DEF Item
    <3> QED
      BY <1>2, <1>3, <1>4, <3>1, ItemToPath DEF Data
  <2>2. PICK next : next = [j EXCEPT !.todo = @ \ {item}]
    OBVIOUS
  <2>3. /\ next.op = "restore" /\ next.action = j.action
        /\ next \in [op: {"restore", "purge"}, todo: SUBSET Item, action: Undos \cup {None}]
    BY <1>1, <2>2, JobFields
  <2>4. PICK u : u = j.action
    OBVIOUS
  <2>5. u # None => u.kind = "trash" /\ Knows(u)'
    <3>1. u \in Undos \cup {None}
      BY <1>1, <2>4, JobFields
    <3> QED
      BY <1>1, <1>2, <2>1, <2>4, <3>1, KnowsStays DEF JobOK, Data
  <2>6. next.action # None => next.action.kind = "trash" /\ Knows(next.action)'
    BY <2>3, <2>4, <2>5 DEF Knows
  <2>7. next \in Jobs /\ JobOK(next)' /\ ~Moving(next)
    BY <2>3, <2>6 DEF Jobs, JobOK, Moving
  <2> QED
    BY <1>2, <1>3, <1>4, <2>1, <2>2, <2>7, JobGoes
<1>5. ASSUME UndoFails(w), UNCHANGED <<disk, trash>>, failures' = failures \/ Fails
      PROVE  FilesInv'
  <2>1. Data
    BY <1>3, <1>5, StillData
  <2> QED
    BY <1>1, <1>2, <1>3, <1>5, <2>1, Bounds, JobEnds DEF Data
<1> QED
  BY <1>4, <1>5 DEF RestoreNext, InTheTrash

LEMMA PurgeNextStep ==
  ASSUME FilesInv, NEW w \in Workers, Doing(w, "purge"), PurgeNext(w) PROVE FilesInv'
<1> PICK j : j = job[w]
  OBVIOUS
<1>1. j \in Jobs /\ j # None /\ j.op = "purge" /\ JobOK(j)
  BY DEF Doing, FilesInv, ControlOK
<1>2. ControlOK /\ DataOK /\ NothingLost /\ failures \in 0..MaxFailures
  BY DEF FilesInv, ControlOK
<1>3. UNCHANGED <<disk, nextId, nextContent, undo, across, foreign, jobs, asked, replaced>>
  BY DEF PurgeNext
<1>4. ASSUME NEW item \in j.todo, NEW i \in trash, trash' = trash \ {i},
             overrun' = overrun \cup (Contents(i.node) \ asked),
             Goes(w, [j EXCEPT !.todo = @ \ {item}]), UNCHANGED failures
      PROVE  FilesInv'
  <2>1. \A k \in trash \ trash' : Contents(k.node) \subseteq asked' \cup overrun'
    BY <1>3, <1>4
  <2>2. asked' \subseteq 0..nextContent /\ overrun' \subseteq 0..nextContent
    BY <1>2, <1>3, <1>4, Places DEF DataOK
  <2>3. Data
    BY <1>2, <1>3, <1>4, <2>1, <2>2, ItemsGo DEF Data
  <2>4. PICK next : next = [j EXCEPT !.todo = @ \ {item}]
    OBVIOUS
  <2>5. /\ next.op = "purge" /\ next.action = j.action
        /\ next \in [op: {"restore", "purge"}, todo: SUBSET Item, action: Undos \cup {None}]
    BY <1>1, <2>4, JobFields
  <2>6. next \in Jobs /\ JobOK(next)' /\ ~Moving(next)
    BY <1>1, <2>5 DEF Jobs, JobOK, Moving
  <2> QED
    BY <1>2, <1>3, <1>4, <2>3, <2>4, <2>6, JobGoes
<1>5. ASSUME Goes(w, None), UNCHANGED <<trash, overrun>>, failures' = failures \/ Fails PROVE FilesInv'
  <2>1. Data
    BY <1>3, <1>5, StillData
  <2> QED
    BY <1>2, <1>3, <1>5, <2>1, Bounds, JobEnds DEF Data, Ends
<1> QED
  BY <1>4, <1>5 DEF PurgeNext, InTheTrash

LEMMA TrashItemsStep == ASSUME FilesInv, NEW w \in Workers, TrashItems(w) PROVE FilesInv'
<1>1. CASE ItemsEnd(w)
  <2>1. Data
    BY <1>1, StillData DEF ItemsEnd
  <2> QED
    BY <1>1, <2>1, Bounds, JobEnds DEF ItemsEnd, counts, Data, FilesInv
<1> QED
  BY <1>1, RestoreNextStep, PurgeNextStep DEF TrashItems

-----------------------------------------------------------------------------
(* Undoing.                                                                 *)

LEMMA UndoLastActionStep == ASSUME FilesInv, NEW w \in Workers, UndoLastAction(w) PROVE FilesInv'
<1>1. Data
  BY StillData DEF UndoLastAction
<1>2. PICK u : u = undo
  OBVIOUS
<1>3. u \in Undos /\ u # None /\ Knows(u) /\ ControlOK
  BY <1>2 DEF UndoLastAction, FilesInv, ControlOK
<1>4. failures' \in 0..MaxFailures /\ foreign' \in 0..MaxForeign /\ jobs' \in 0..MaxJobs
  BY <1>3, Bounds DEF UndoLastAction, Begin, ControlOK
<1>5. ASSUME UNCHANGED <<job, undo>> PROVE FilesInv'
  <2>1. PICK j : j = job[w]
    OBVIOUS
  <2>2. j = None /\ Goes(w, None)
    BY <1>3, <1>5, <2>1 DEF UndoLastAction, Begin, Goes, ControlOK
  <2>3. JobOK(None)' /\ ~Moving(None)
    BY DEF JobOK, Moving
  <2> QED
    BY <1>1, <1>4, <1>5, <2>2, <2>3, UndoStays, JobStep DEF UndoLastAction, Data
<1>6. Knows(u)'
  BY <1>1, <1>3, KnowsStays DEF FilesInv, Data
<1>7. ASSUME u.kind = "trash", undo' = None,
             Goes(w, [op |-> "restore", todo |-> InTheTrash(u.items), action |-> u])
      PROVE  FilesInv'
  <2>1. PICK next : next = [op |-> "restore", todo |-> InTheTrash(u.items), action |-> u]
    OBVIOUS
  <2>2. next \in Jobs /\ ~Moving(next)
    BY <1>3, <1>7, <2>1 DEF Jobs, Moving, InTheTrash, FilesInv, DataOK
  <2>3. JobOK(next)'
    BY <1>6, <1>7, <2>1 DEF JobOK, Moving
  <2> QED
    BY <1>1, <1>4, <1>7, <2>1, <2>2, <2>3, JobBegins DEF UndoLastAction, Begin
<1>8. ASSUME u.kind = "copy", undo' = None,
             Goes(w, [op |-> "delete", todo |-> u.targets, listed |-> None, action |-> u])
      PROVE  FilesInv'
  <2>1. PICK next : next = [op |-> "delete", todo |-> u.targets, listed |-> None, action |-> u]
    OBVIOUS
  <2>2. next \in Jobs /\ ~Moving(next)
    BY <1>3, <1>8, <2>1, UndoFields DEF Jobs, Moving
  <2>3. JobOK(next)'
    BY <1>8, <2>1 DEF JobOK, Moving
  <2> QED
    BY <1>1, <1>4, <1>8, <2>1, <2>2, <2>3, JobBegins DEF UndoLastAction, Begin
<1>9. ASSUME u.kind = "move", undo' = None,
             Goes(w, [op |-> "check", todo |-> u.pairs, there |-> {}, copied |-> {}, action |-> u])
      PROVE  FilesInv'
  <2>1. PICK next : next = [op |-> "check", todo |-> u.pairs, there |-> {}, copied |-> {}, action |-> u]
    OBVIOUS
  <2>2. next \in Jobs /\ IsMove(undo)
    BY <1>2, <1>3, <1>9, <2>1, UndoFields DEF Jobs, IsMove
  <2>3. JobOK(next)'
    BY <1>9, <2>1 DEF JobOK, MovesBack
  <2> QED
    BY <1>1, <1>4, <1>9, <2>1, <2>2, <2>3, JobBegins DEF UndoLastAction, Begin
<1> QED
  BY <1>2, <1>3, <1>5, <1>7, <1>8, <1>9, UndoFields DEF UndoLastAction

\* A job that moves paths back goes on with it.
LEMMA MoverGoes ==
  ASSUME FilesInv, DataOK', Grows, NothingLost', NEW w \in Workers, Moving(job[w]),
         NEW next \in Jobs, Goes(w, next), JobOK(next)',
         UNCHANGED <<undo, across, foreign, jobs>>, failures' \in 0..MaxFailures
  PROVE  FilesInv'
<1>1. undo' \in Undos \cup {None} /\ Knows(undo)' /\ (IsMove(undo') => IsMove(undo))
  BY UndoStays
<1>2. ~IsMove(undo')
  BY <1>1 DEF FilesInv, OneMove
<1>3. foreign' \in 0..MaxForeign /\ jobs' \in 0..MaxJobs
  BY DEF FilesInv, ControlOK
<1> QED
  BY <1>1, <1>2, <1>3, JobStep

MoveJobs ==
  [op: {"check", "back", "remove"}, todo: Seq(Paths \X Paths), there: SUBSET Nat,
   copied: SUBSET Nat, action: Undos]

LEMMA Movers ==
  ASSUME FilesInv, NEW w \in Workers, NEW j, j = job[w], Doing(w, "check") \/ Doing(w, "back") \/ Doing(w, "remove")
  PROVE  /\ j \in MoveJobs /\ j # None /\ MovesBack(j) /\ Moving(j)
         /\ j.todo # <<>> =>
              /\ Head(j.todo)[1] \in Paths /\ Head(j.todo)[2] \in Paths
              /\ Head(j.todo) = j.todo[1] /\ Tail(j.todo) \in Seq(Paths \X Paths)
              /\ \A i \in 1..Len(Tail(j.todo)) : i + 1 \in 1..Len(j.todo) /\ Tail(j.todo)[i] = j.todo[i + 1]
<1>1. j \in Jobs /\ j # None /\ JobOK(j) /\ Moving(j)
  BY DEF FilesInv, ControlOK, Doing, Moving
<1>2. j \in MoveJobs
  <2>1. /\ j.todo \in Seq(Paths \X Paths) /\ j.action \in Undos
        /\ j.there \subseteq Nat /\ j.copied \subseteq Nat /\ j.op \in {"check", "back", "remove"}
        /\ j = [op |-> j.op, todo |-> j.todo, there |-> j.there, copied |-> j.copied,
                action |-> j.action]
    BY <1>1, JobFields DEF Moving
  <2> QED
    BY <2>1 DEF MoveJobs
<1>3. ASSUME j.todo # <<>>
      PROVE  /\ Head(j.todo) \in Paths \X Paths
             /\ Head(j.todo) = j.todo[1] /\ Tail(j.todo) \in Seq(Paths \X Paths)
             /\ \A i \in 1..Len(Tail(j.todo)) : i + 1 \in 1..Len(j.todo) /\ Tail(j.todo)[i] = j.todo[i + 1]
  <2>1. j.todo \in Seq(Paths \X Paths)
    BY <1>2 DEF MoveJobs
  <2> QED
    BY <1>3, <2>1, HeadTailProperties
<1> QED
  BY <1>1, <1>2, <1>3 DEF JobOK

\* The targets are free when they are checked, so no target is its own source.
LEMMA BackCheckStep == ASSUME FilesInv, NEW w \in Workers, BackCheck(w) PROVE FilesInv'
<1> PICK j : j = job[w]
  OBVIOUS
<1>1. j \in MoveJobs /\ j # None /\ MovesBack(j) /\ Moving(j) /\ j.op = "check"
  BY Movers DEF BackCheck, Doing
<1>2. Data /\ UNCHANGED <<disk, across, foreign, failures, jobs>> /\ failures' \in 0..MaxFailures
  BY StillData DEF BackCheck, counts, FilesInv, ControlOK
<1>3. CASE ~Returnable(j.todo)
  BY <1>1, <1>2, <1>3, JobEnds DEF BackCheck, Data
<1>4. CASE Returnable(j.todo)
  <2>1. PICK there : there = UNION {Contents(disk[pair[2]]) : pair \in ToSet(j.todo)}
    OBVIOUS
  <2>2. PICK next : next = [j EXCEPT !.op = "back", !.there = there]
    OBVIOUS
  <2>3. there = {}
    <3>1. \A pair \in ToSet(j.todo) : Contents(disk[pair[2]]) = {}
      BY <1>1, <1>4 DEF MoveJobs, Returnable, ToSet, Contents
    <3> QED
      BY <2>1, <3>1
  <2>4. next \in MoveJobs /\ next.op = "back" /\ next.there = {} /\ next.todo = j.todo
        /\ next.action = j.action
    BY <1>1, <2>2, <2>3 DEF MoveJobs
  <2>5. \A i \in 1..Len(j.todo) : j.todo[i][1] # j.todo[i][2]
    BY <1>4 DEF Returnable
  <2>6. next \in Jobs /\ JobOK(next)'
    BY <1>1, <2>4, <2>5 DEF MoveJobs, Jobs, JobOK, Moving, MovesBack
  <2>7. Goes(w, next) /\ UNCHANGED undo
    BY <1>4, <2>1, <2>2 DEF BackCheck
  <2> QED
    BY <1>1, <1>2, <2>6, <2>7, MoverGoes DEF Data
<1> QED
  BY <1>3, <1>4

LEMMA RenameBackStep ==
  ASSUME FilesInv, NEW w \in Workers, Doing(w, "back"), job[w].todo # <<>>,
         Rename(w, Head(job[w].todo)[1], Head(job[w].todo)[2]),
         UNCHANGED <<trash, nextId, nextContent, across, foreign, jobs, asked, overrun>>
  PROVE  FilesInv'
<1> PICK j : j = job[w]
  OBVIOUS
<1>1. PICK from, to : from = Head(j.todo)[1] /\ to = Head(j.todo)[2]
  OBVIOUS
<1>2. j \in MoveJobs /\ j # None /\ MovesBack(j) /\ Moving(j) /\ j.op = "back"
  BY Movers DEF Doing
<1>3. /\ from \in Paths /\ to \in Paths /\ Tail(j.todo) \in Seq(Paths \X Paths)
      /\ \A i \in 1..Len(Tail(j.todo)) : i + 1 \in 1..Len(j.todo) /\ Tail(j.todo)[i] = j.todo[i + 1]
  BY <1>1, Movers
<1>4. j.there = {}
  BY <1>2 DEF MovesBack
<1>5. Data
  <2>1. replaced' = replaced \cup Contents(disk[to])
    BY <1>1, <1>4 DEF Rename, Replaces
  <2> QED
    BY <1>1, <1>3, <2>1, PathToPath DEF Rename, FilesInv, Data
<1>6. PICK next : next = [j EXCEPT !.todo = Tail(@)]
  OBVIOUS
<1>7. next \in MoveJobs /\ next.op = "back" /\ next.there = {} /\ next.todo = Tail(j.todo)
      /\ next.action = j.action
  BY <1>2, <1>3, <1>4, <1>6 DEF MoveJobs
<1>8. next \in Jobs /\ JobOK(next)'
  BY <1>2, <1>3, <1>7 DEF MoveJobs, Jobs, JobOK, Moving, MovesBack
<1>9. failures' \in 0..MaxFailures
  BY DEF Rename, FilesInv, ControlOK
<1> QED
  BY <1>2, <1>5, <1>6, <1>8, <1>9, MoverGoes DEF Rename, Data

LEMMA OverNode ==
  ASSUME NEW moved \in Node, NEW old \in Node \cup {None}, NEW names \in SUBSET Names
  PROVE  /\ Part(moved, names) \in Node /\ Contents(Part(moved, names)) \subseteq Contents(moved)
         /\ Part(moved, Names) = moved
         /\ Over(moved, old) \in Node
         /\ Contents(moved) \subseteq Contents(Over(moved, old))
         /\ Contents(Over(moved, old)) \subseteq Contents(moved) \cup Contents(old)
<1>1. Part(moved, names) \in Node /\ Part(moved, Names) = moved
  BY DEF Part, Node
<1>2. Contents(Part(moved, names)) \subseteq Contents(moved)
  <2>1. \A n \in Names : Part(moved, names)[n] \in {moved[n], None}
    BY DEF Part
  <2> QED
    BY <1>1, <2>1, NodeContents, FileOperationsAssumption
<1>3. Over(moved, old) \in Node
  BY DEF Over, Node
<1>4. CASE old = None
  BY <1>1, <1>2, <1>3, <1>4 DEF Over
<1>5. CASE old # None
  <2>1. \A n \in Names : Over(moved, old)[n] = IF moved[n] = None THEN old[n] ELSE moved[n]
    BY <1>5 DEF Over
  <2> QED
    BY <1>1, <1>2, <1>3, <1>5, <2>1, NodeContents, FileOperationsAssumption
<1> QED
  BY <1>4, <1>5

\* A whole copy leaves what it has copied in two places.
LEMMA CopyOverStep ==
  ASSUME FilesInv, NEW w \in Workers, Doing(w, "back"), job[w].todo # <<>>,
         CopyOver(w, Head(job[w].todo)[1], Head(job[w].todo)[2]),
         UNCHANGED <<trash, nextId, nextContent, across, foreign, jobs, asked, overrun>>
  PROVE  FilesInv'
<1> PICK j : j = job[w]
  OBVIOUS
<1>1. PICK from, to : from = Head(j.todo)[1] /\ to = Head(j.todo)[2]
  OBVIOUS
<1>2. j \in MoveJobs /\ j # None /\ MovesBack(j) /\ Moving(j) /\ j.op = "back"
  BY Movers DEF Doing
<1>3. from \in Paths /\ to \in Paths /\ from # to
  <2>1. j.todo \in Seq(Paths \X Paths)
    BY <1>2 DEF MoveJobs
  <2>2. 1 \in 1..Len(j.todo) /\ Head(j.todo) = j.todo[1]
    BY <2>1, HeadTailProperties, EmptySeq
  <2> QED
    BY <1>1, <1>2, <2>2, Movers DEF MovesBack
<1>4. PICK names \in SUBSET Names :
        LET onto == Over(Part(disk[from], names), disk[to]) IN
        /\ disk' = [disk EXCEPT ![to] = onto]
        /\ Replaces(w, Contents(disk[to]) \ Contents(onto))
        /\ IF names = Names
           THEN /\ Goes(w, [j EXCEPT !.op = "remove", !.copied = Contents(disk[from])])
                /\ UNCHANGED <<undo, failures>>
           ELSE Fails /\ UndoFails(w)
  BY <1>1 DEF CopyOver
<1>5. PICK onto, copied : onto = Over(Part(disk[from], names), disk[to]) /\ copied = Contents(disk[from])
  OBVIOUS
<1>6. /\ disk[from] \in Node /\ disk[to] \in Node \cup {None} /\ DataOK /\ NothingLost /\ ControlOK
      /\ \A c \in Contents(disk[from]) \cup Contents(disk[to]) : c \in Nat /\ c < nextContent
      /\ asked \subseteq 0..nextContent /\ overrun \subseteq 0..nextContent
      /\ replaced \subseteq 0..nextContent /\ nextContent \in Nat
  <2>1. DataOK /\ NothingLost /\ ControlOK /\ disk[from] # None
    BY <1>1 DEF CopyOver, FilesInv
  <2>2. /\ asked \subseteq 0..nextContent /\ overrun \subseteq 0..nextContent
        /\ replaced \subseteq 0..nextContent /\ nextContent \in Nat
        /\ disk[from] \in Node /\ disk[to] \in Node \cup {None}
    BY <1>3, <2>1 DEF DataOK
  <2>3. \A c \in Contents(disk[from]) \cup Contents(disk[to]) : c \in Nat /\ c < nextContent
    BY <1>3, <2>1, <2>2, Places, NodeContents
  <2> QED
    BY <2>1, <2>2, <2>3
<1>7. /\ onto \in Node /\ Contents(onto) \subseteq Contents(disk[from]) \cup Contents(disk[to])
      /\ names = Names => Contents(disk[from]) \subseteq Contents(onto)
  <2>1. PICK part : part = Part(disk[from], names)
    OBVIOUS
  <2>2. /\ part \in Node /\ Contents(part) \subseteq Contents(disk[from])
        /\ names = Names => part = disk[from]
    BY <1>6, <2>1, OverNode
  <2>3. /\ Over(part, disk[to]) \in Node /\ Contents(part) \subseteq Contents(Over(part, disk[to]))
        /\ Contents(Over(part, disk[to])) \subseteq Contents(part) \cup Contents(disk[to])
    BY <1>6, <2>2, OverNode
  <2> QED
    BY <1>5, <2>1, <2>2, <2>3
<1>8. /\ disk' = [disk EXCEPT ![to] = onto]
      /\ replaced' = replaced \cup (Contents(disk[to]) \ Contents(onto))
  BY <1>2, <1>4, <1>5 DEF Replaces, MovesBack
<1>9. Data
  <2>1. replaced' \subseteq 0..nextContent
    <3>1. Contents(disk[to]) \subseteq 0..nextContent
      BY <1>6
    <3> QED
      BY <1>6, <1>8, <3>1
  <2>2. \A c \in Contents(onto) : c < nextContent'
    BY <1>6, <1>7
  <2>3. Contents(disk[to]) \ Contents(onto) \subseteq Excused'
    BY <1>8 DEF Excused
  <2> QED
    BY <1>3, <1>6, <1>7, <1>8, <2>1, <2>2, <2>3, PathChanges DEF Data
<1>10. CASE names # Names
  BY <1>2, <1>4, <1>6, <1>9, <1>10, Bounds, JobEnds DEF Data, MoveJobs
<1>11. CASE names = Names
  <2>1. PICK next : next = [j EXCEPT !.op = "remove", !.copied = copied]
    OBVIOUS
  <2>2. next \in MoveJobs /\ next.op = "remove" /\ next.there = {} /\ next.todo = j.todo
        /\ next.action = j.action /\ next.copied = copied
    <3>1. copied \in SUBSET Nat /\ j.there = {}
      BY <1>2, <1>5, <1>6 DEF MovesBack
    <3> QED
      BY <1>2, <2>1, <3>1 DEF MoveJobs
  <2>3. ASSUME NEW c \in copied PROVE Twice(c)'
    <3>1. c \in Contents(disk'[from]) /\ c \in Contents(disk'[to])
      BY <1>3, <1>5, <1>6, <1>7, <1>8, <1>11 DEF DataOK
    <3> QED
      BY <1>3, <3>1 DEF Twice
  <2>4. next \in Jobs /\ JobOK(next)'
    BY <1>2, <2>2, <2>3 DEF MoveJobs, Jobs, JobOK, Moving, MovesBack
  <2>5. Goes(w, next) /\ UNCHANGED undo /\ failures' \in 0..MaxFailures
    BY <1>4, <1>5, <1>6, <1>11, <2>1 DEF ControlOK
  <2> QED
    BY <1>2, <1>9, <2>4, <2>5, MoverGoes DEF Data
<1> QED
  BY <1>10, <1>11

LEMMA BackNextStep == ASSUME FilesInv, NEW w \in Workers, BackNext(w) PROVE FilesInv'
<1>1. ASSUME MoveFails(w, Head(job[w].todo)[1], Head(job[w].todo)[2]) PROVE FilesInv'
  <2>1. Data
    BY <1>1, StillData DEF BackNext, MoveFails
  <2>2. failures' \in 0..MaxFailures
    BY <1>1, Bounds DEF MoveFails, FilesInv
  <2> QED
    BY <1>1, <2>1, <2>2, JobEnds DEF BackNext, Doing, MoveFails, Data
<1> QED
  BY <1>1, RenameBackStep, CopyOverStep DEF BackNext

\* What a source loses is in two places, or it is overrun.
LEMMA BackRemoveStep == ASSUME FilesInv, NEW w \in Workers, BackRemove(w) PROVE FilesInv'
<1> PICK j : j = job[w]
  OBVIOUS
<1>1. PICK from : from = Head(j.todo)[1]
  OBVIOUS
<1>2. j \in MoveJobs /\ j # None /\ MovesBack(j) /\ Moving(j) /\ j.op = "remove" /\ j.todo # <<>>
  <2>1. j \in MoveJobs /\ j # None /\ MovesBack(j) /\ Moving(j) /\ j.op = "remove"
    BY Movers DEF BackRemove, Doing
  <2> QED
    BY <2>1 DEF MovesBack
<1>3. /\ from \in Paths /\ Tail(j.todo) \in Seq(Paths \X Paths)
      /\ \A i \in 1..Len(Tail(j.todo)) : i + 1 \in 1..Len(j.todo) /\ Tail(j.todo)[i] = j.todo[i + 1]
  BY <1>1, <1>2, Movers DEF BackRemove
<1>4. /\ DataOK /\ NothingLost /\ ControlOK
      /\ UNCHANGED <<trash, nextId, nextContent, across, foreign, jobs, asked, replaced>>
  BY DEF FilesInv, BackRemove
<1>5. ASSUME Fails, UndoFails(w), UNCHANGED <<disk, overrun>> PROVE FilesInv'
  <2>1. Data
    BY <1>4, <1>5, StillData
  <2> QED
    BY <1>2, <1>4, <1>5, <2>1, Bounds, JobEnds DEF Data
<1>6. ASSUME disk' = [disk EXCEPT ![from] = None],
             Goes(w, [j EXCEPT !.op = "back", !.todo = Tail(@)]),
             overrun' = overrun \cup (Contents(disk[from]) \
               (j.copied \cup UNION {Contents(disk[p]) : p \in Paths \ {from}})),
             UNCHANGED <<undo, failures>>
      PROVE  FilesInv'
  <2> DEFINE elsewhere == UNION {Contents(disk[p]) : p \in Paths \ {from}}
  <2>1. overrun' = overrun \cup (Contents(disk[from]) \ (j.copied \cup elsewhere))
    BY <1>6
  <2>2. /\ disk'[from] = None /\ Contents(disk'[from]) = {}
        /\ \A p \in Paths \ {from} : disk'[p] = disk[p]
    BY <1>3, <1>4, <1>6 DEF DataOK, Contents
  <2>3. DataOK'
    <3>1. disk' \in [Paths -> Node \cup {None}]
      BY <1>4, <1>6 DEF DataOK
    <3>2. \A p \in Paths : \A c \in Contents(disk'[p]) : c < nextContent'
      BY <1>4, <2>2, Places
    <3>3. \A i \in trash' : \A c \in Contents(i.node) : c < nextContent'
      BY <1>4, Places
    <3>4. overrun' \subseteq 0..nextContent' /\ replaced' \subseteq 0..nextContent'
      BY <1>3, <1>4, <2>1, Places DEF DataOK
    <3> HIDE DEF elsewhere
    <3> QED
      BY <1>4, <3>1, <3>2, <3>3, <3>4, DataFrom DEF DataOK
  <2>4. Grows
    BY <1>4, <2>1 DEF Grows, DataOK, Excused
  <2>5. elsewhere \subseteq OnDisk' /\ InTrash' = InTrash
    BY <1>4, <2>2 DEF OnDisk, InTrash
  <2>6. ASSUME NEW c, c \in Contents(disk[from])
        PROVE  c \in OnDisk' \cup InTrash' \cup Excused'
    <3>1. CASE c \in elsewhere
      BY <2>5, <3>1
    <3>2. CASE c \notin elsewhere /\ c \notin j.copied
      BY <2>1, <2>6, <3>2 DEF Excused
    <3>3. CASE c \notin elsewhere /\ c \in j.copied
      <4>1. Twice(c) \/ c \in Excused
        BY <1>2, <3>3 DEF MovesBack
      <4>2. \A p \in Paths : c \in Contents(disk[p]) => p = from
        BY <3>3
      <4>3. Twice(c) => c \in InTrash
        BY <4>2 DEF Twice, InTrash
      <4> QED
        BY <1>4, <2>4, <2>5, <4>1, <4>3 DEF Grows
    <3> QED
      BY <3>1, <3>2, <3>3
  <2>7. OnDisk \subseteq elsewhere \cup Contents(disk[from])
    BY DEF OnDisk
  <2>8. NothingLost'
    <3> SUFFICES ASSUME NEW c \in 1..(nextContent - 1)
                 PROVE  c \in OnDisk' \cup InTrash' \cup Excused'
      BY <1>4 DEF NothingLost, Excused
    <3>1. c \in OnDisk \cup InTrash \cup Excused
      BY <1>4 DEF NothingLost, Excused
    <3> QED
      BY <1>4, <2>4, <2>5, <2>6, <2>7, <3>1 DEF Grows
  <2>9. PICK next : next = [j EXCEPT !.op = "back", !.todo = Tail(@)]
    OBVIOUS
  <2>10. next \in MoveJobs /\ next.op = "back" /\ next.there = {} /\ next.todo = Tail(j.todo)
         /\ next.action = j.action
    BY <1>2, <1>3, <2>9 DEF MoveJobs, MovesBack
  <2>11. next \in Jobs /\ JobOK(next)'
    BY <1>2, <1>3, <2>10 DEF MoveJobs, Jobs, JobOK, Moving, MovesBack
  <2>12. failures' \in 0..MaxFailures
    BY <1>4, <1>6 DEF ControlOK
  <2> HIDE DEF elsewhere
  <2> QED
    BY <1>2, <1>4, <1>6, <2>3, <2>4, <2>8, <2>9, <2>11, <2>12, MoverGoes
<1> QED
  BY <1>1, <1>4, <1>5, <1>6 DEF BackRemove

LEMMA BackEndsStep == ASSUME FilesInv, NEW w \in Workers, BackEnds(w) PROVE FilesInv'
<1>1. Data
  BY StillData DEF BackEnds
<1> QED
  BY <1>1, Bounds, JobEnds DEF BackEnds, counts, Data, FilesInv

-----------------------------------------------------------------------------
(* Deleting for good.                                                       *)

LEMMA DeleteStep == ASSUME FilesInv, NEW w \in Workers, Delete(w) PROVE FilesInv'
<1>1. Data
  BY StillData DEF Delete
<1>2. PICK paths \in SUBSET Paths :
        Goes(w, [op |-> "delete", todo |-> SetToSeq(paths), listed |-> None, action |-> None])
  BY DEF Delete
<1>3. PICK next : next = [op |-> "delete", todo |-> SetToSeq(paths), listed |-> None, action |-> None]
  OBVIOUS
<1>4. next \in Jobs /\ ~Moving(next)
  BY <1>3, ListsPaths DEF Jobs, Moving
<1>5. JobOK(next)'
  BY <1>3 DEF JobOK, Moving
<1>6. failures' \in 0..MaxFailures
  BY DEF Delete, FilesInv, ControlOK
<1> QED
  BY <1>1, <1>2, <1>3, <1>4, <1>5, <1>6, JobBegins DEF Delete, BeginOperation, Begin

DeleteJobs ==
  [op: {"delete"}, todo: Seq(Paths), listed: (SUBSET Kids) \cup {None}, action: Undos \cup {None}]

\* A deletion goes on with the same action; only a path that is left is listed.
LEMMA DeleterGoes ==
  ASSUME FilesInv, Data, NEW w \in Workers, NEW j \in DeleteJobs, j = job[w], j # None,
         NEW next \in DeleteJobs, Goes(w, next), next.action = j.action,
         next.listed # None => next.todo # <<>>,
         UNCHANGED <<undo, across, foreign, jobs, failures>>
  PROVE  FilesInv'
<1>1. JobOK(j) /\ j.op = "delete" /\ next.op = "delete"
  BY DEF FilesInv, DeleteJobs
<1>2. JobOK(next)' /\ ~Moving(next)
  BY <1>1 DEF JobOK, Moving
<1>3. next \in Jobs /\ failures' \in 0..MaxFailures
  BY DEF Jobs, DeleteJobs, FilesInv, ControlOK
<1> QED
  BY <1>2, <1>3, JobGoes

LEMMA DeleteNextStep == ASSUME FilesInv, NEW w \in Workers, DeleteNext(w) PROVE FilesInv'
<1> PICK j : j = job[w]
  OBVIOUS
<1>1. j \in DeleteJobs /\ j # None /\ j.op = "delete"
  <2>1. j \in Jobs /\ j # None /\ j.op = "delete"
    BY DEF DeleteNext, Doing, FilesInv, ControlOK
  <2>2. j.todo \in Seq(Paths) /\ j.listed \in (SUBSET Kids) \cup {None} /\ j.action \in Undos \cup {None}
        /\ j = [op |-> "delete", todo |-> j.todo, listed |-> j.listed, action |-> j.action]
    BY <2>1, JobFields
  <2> QED
    BY <2>1, <2>2 DEF DeleteJobs
<1>2. /\ DataOK /\ NothingLost /\ ControlOK /\ nextContent \in Nat
      /\ UNCHANGED <<trash, nextId, nextContent, across, foreign, jobs, replaced>>
      /\ asked \subseteq 0..nextContent /\ overrun \subseteq 0..nextContent
      /\ replaced \subseteq 0..nextContent
  BY DEF FilesInv, DataOK, DeleteNext
<1>3. PICK p : p = Head(j.todo)
  OBVIOUS
<1>4. j.todo # <<>> =>
        /\ p \in Paths /\ Tail(j.todo) \in Seq(Paths)
        /\ disk[p] \in Node \cup {None} /\ Contents(disk[p]) \subseteq 0..nextContent
        /\ \A c \in Contents(disk[p]) : c < nextContent
  <2>1. j.todo # <<>> => p \in Paths /\ Tail(j.todo) \in Seq(Paths)
    BY <1>1, <1>3, HeadTailProperties DEF DeleteJobs
  <2> QED
    BY <1>2, <2>1, Places
<1>5. None \in Node \cup {None} /\ Contents(None) = {}
  BY DEF Contents
<1>6. j.listed # None => j.todo # <<>>
  BY <1>1 DEF FilesInv, JobOK
<1>7. CASE Visit(w)
  <2>1. /\ j.todo # <<>> /\ j.listed = None /\ asked' = asked \cup Contents(disk[p]) /\ UNCHANGED <<undo, failures, overrun>>
        /\ asked' \subseteq 0..nextContent
    BY <1>2, <1>3, <1>4, <1>7 DEF Visit
  <2>2. CASE disk[p] # None /\ IsDir(disk[p])
    <3>1. PICK next : next = [j EXCEPT !.listed = {k \in Kids : disk[p][k] # None}]
      OBVIOUS
    <3>2. Goes(w, next) /\ UNCHANGED disk
      BY <1>3, <1>7, <2>2, <3>1 DEF Visit
    <3>3. next \in DeleteJobs /\ next.action = j.action /\ next.todo # <<>>
      BY <1>1, <2>1, <3>1 DEF DeleteJobs
    <3>4. Data
      BY <1>2, <2>1, <3>2, NothingMoves DEF Data
    <3> QED
      BY <1>1, <1>2, <2>1, <3>2, <3>3, <3>4, DeleterGoes
  <2>3. CASE ~(disk[p] # None /\ IsDir(disk[p]))
    <3>1. PICK next : next = [j EXCEPT !.todo = Tail(@)]
      OBVIOUS
    <3>2. Goes(w, next) /\ disk' = [disk EXCEPT ![p] = None]
      BY <1>3, <1>7, <2>3, <3>1 DEF Visit
    <3>3. next \in DeleteJobs /\ next.action = j.action /\ next.listed = None
      BY <1>1, <1>4, <2>1, <3>1 DEF DeleteJobs
    <3>4. Data
      <4>1. Contents(disk[p]) \ Contents(None) \subseteq Excused'
        BY <2>1 DEF Excused
      <4> QED
        BY <1>2, <1>4, <1>5, <2>1, <3>2, <4>1, PathChanges DEF Data
    <3> QED
      BY <1>1, <1>2, <2>1, <3>2, <3>3, <3>4, DeleterGoes
  <2> QED
    BY <2>2, <2>3
<1>8. CASE RemoveFile(w)
  <2>1. PICK k \in j.listed :
          /\ Goes(w, [j EXCEPT !.listed = @ \ {k}])
          /\ IF disk[p] # None /\ IsDir(disk[p])
             THEN /\ disk' = [disk EXCEPT ![p][k] = None]
                  /\ overrun' = overrun \cup ({disk[p][k]} \ (asked \cup {None}))
             ELSE UNCHANGED <<disk, overrun>>
    BY <1>3, <1>8 DEF RemoveFile
  <2>2. PICK next : next = [j EXCEPT !.listed = @ \ {k}]
    OBVIOUS
  <2>3. k \in Kids /\ next \in DeleteJobs /\ next.action = j.action /\ next.todo # <<>> /\ p \in Paths
    BY <1>1, <1>4, <1>8, <1>6, <2>1, <2>2 DEF DeleteJobs, RemoveFile
  <2>4. UNCHANGED <<undo, failures, asked>>
    BY <1>8 DEF RemoveFile
  <2>5. Data
    <3>1. CASE ~(disk[p] # None /\ IsDir(disk[p]))
      BY <1>2, <2>1, <2>4, <3>1, StillData
    <3>2. CASE disk[p] # None /\ IsDir(disk[p])
      <4>1. PICK node : node = [disk[p] EXCEPT ![k] = None]
        OBVIOUS
      <4>2. disk[p] \in Node /\ k \in Names /\ Contents(disk[p]) \subseteq 0..nextContent
            /\ \A c \in Contents(disk[p]) : c < nextContent
        BY <1>2, <2>3, <3>2, Places DEF Names
      <4>3. node \in Node /\ \A n \in Names : node[n] = IF n = k THEN None ELSE disk[p][n]
        BY <4>1, <4>2 DEF Node
      <4>4. Contents(node) \subseteq Contents(disk[p]) /\ Contents(disk[p]) \ Contents(node) \subseteq {disk[p][k]} \ {None}
        BY <3>2, <4>2, <4>3, NodeContents, FileOperationsAssumption
      <4>5. disk' = [disk EXCEPT ![p] = node]
        BY <2>1, <3>2, <4>1
      <4>6. {disk[p][k]} \ {None} \subseteq Contents(disk[p])
        BY <3>2, <4>2, NodeContents
      <4>7. overrun' = overrun \cup ({disk[p][k]} \ (asked \cup {None}))
        BY <2>1, <3>2
      <4>8. overrun' \subseteq 0..nextContent
        BY <1>2, <4>2, <4>6, <4>7
      <4>9. Contents(disk[p]) \ Contents(node) \subseteq Excused'
        BY <2>4, <4>4, <4>7 DEF Excused
      <4> QED
        BY <1>2, <2>3, <2>4, <3>2, <4>2, <4>3, <4>4, <4>5, <4>7, <4>8, <4>9, PathChanges DEF Data
    <3> QED
      BY <3>1, <3>2
  <2> QED
    BY <1>1, <1>2, <2>1, <2>2, <2>3, <2>4, <2>5, DeleterGoes
<1>9. CASE RemoveDirectory(w)
  <2>1. UNCHANGED <<failures, asked, overrun>>
    BY <1>9 DEF RemoveDirectory
  <2>2. CASE ~RemovesDirectory(disk[p])
    <3>1. UndoFails(w) /\ UNCHANGED disk
      BY <1>3, <1>9, <2>2 DEF RemoveDirectory
    <3>2. Data
      BY <1>2, <2>1, <3>1, StillData
    <3> QED
      BY <1>1, <1>2, <2>1, <3>1, <3>2, Bounds, JobEnds DEF Data
  <2>3. CASE RemovesDirectory(disk[p])
    <3>1. PICK next : next = [j EXCEPT !.todo = Tail(@), !.listed = None]
      OBVIOUS
    <3>2. Goes(w, next) /\ disk' = [disk EXCEPT ![p] = None] /\ UNCHANGED undo
      BY <1>3, <1>9, <2>3, <3>1 DEF RemoveDirectory
    <3>3. Contents(disk[p]) = {}
      BY <2>3 DEF RemovesDirectory
    <3>4. j.todo # <<>>
      BY <1>9, <1>6, FileOperationsAssumption DEF RemoveDirectory
    <3>5. next \in DeleteJobs /\ next.action = j.action /\ next.listed = None
      BY <1>1, <1>4, <3>1, <3>4 DEF DeleteJobs
    <3>6. Data
      BY <1>2, <1>4, <1>5, <2>1, <3>2, <3>3, <3>4, PathChanges DEF Data
    <3> QED
      BY <1>1, <1>2, <2>1, <3>2, <3>5, <3>6, DeleterGoes
  <2> QED
    BY <2>2, <2>3
<1>10. CASE DeleteEnds(w)
  <2>1. Data
    BY <1>2, <1>10, StillData DEF DeleteEnds
  <2> QED
    BY <1>1, <1>2, <1>10, <2>1, Bounds, JobEnds DEF DeleteEnds, Data
<1> QED
  BY <1>7, <1>8, <1>9, <1>10 DEF DeleteNext

-----------------------------------------------------------------------------
(* Creating and renaming.                                                   *)

\* Jobs that rely on nothing.
LEMMA FreeJobs ==
  ASSUME NEW p \in Paths, NEW q \in Paths, NEW op \in {"folder", "file"}, NEW next,
         next = [op |-> op, target |-> p] \/ next = [op |-> "rename", path |-> q, target |-> p]
  PROVE  next \in Jobs /\ JobOK(next)' /\ ~Moving(next)
BY DEF Jobs, JobOK, Moving

LEMMA CreateStep ==
  ASSUME FilesInv, NEW w \in Workers, NewFolder(w) \/ NewTextDocument(w) \/ CommitRename(w)
  PROVE  FilesInv'
<1>1. Data
  BY StillData DEF NewFolder, NewTextDocument, Create, CommitRename
<1>2. PICK p, q, op, next :
        /\ p \in Paths /\ q \in Paths /\ op \in {"folder", "file"}
        /\ Goes(w, next)
        /\ next = [op |-> op, target |-> p] \/ next = [op |-> "rename", path |-> q, target |-> p]
  BY DEF NewFolder, NewTextDocument, Create, CommitRename, UniqueDestination
<1>3. next \in Jobs /\ JobOK(next)' /\ ~Moving(next)
  BY <1>2, FreeJobs
<1>4. /\ undo' = None /\ jobs < MaxJobs /\ jobs' = jobs + 1 /\ UNCHANGED <<across, foreign>>
      /\ failures' \in 0..MaxFailures
  BY DEF NewFolder, NewTextDocument, Create, CommitRename, BeginOperation, Begin, FilesInv, ControlOK
<1> QED
  BY <1>1, <1>2, <1>3, <1>4, JobBegins

LEMMA CreateFolderStep == ASSUME FilesInv, NEW w \in Workers, CreateFolder(w) PROVE FilesInv'
<1>1. PICK p : p = job[w].target
  OBVIOUS
<1>2. p \in Paths
  BY <1>1, JobFields DEF CreateFolder, Doing, FilesInv, ControlOK
<1>3. /\ DataOK /\ NothingLost /\ asked \subseteq 0..nextContent /\ overrun \subseteq 0..nextContent
      /\ replaced \subseteq 0..nextContent
  BY DEF FilesInv, DataOK
<1>4. PICK node : node = [n \in Names |-> None]
  OBVIOUS
<1>5. node \in Node /\ Contents(node) = {}
  BY <1>4 DEF Node, Contents
<1>6. Data
  <2>1. CASE UNCHANGED disk
    BY <2>1, StillData DEF CreateFolder
  <2>2. CASE disk[p] = None /\ disk' = [disk EXCEPT ![p] = node]
    <3>1. Contents(disk[p]) = {}
      BY <2>2 DEF Contents
    <3> QED
      BY <1>2, <1>3, <1>5, <2>2, <3>1, PathChanges DEF CreateFolder, Data
  <2> QED
    BY <1>1, <1>4, <2>1, <2>2 DEF CreateFolder
<1>7. failures' \in 0..MaxFailures
  BY Bounds DEF CreateFolder, FilesInv
<1> QED
  BY <1>6, <1>7, JobEnds DEF CreateFolder, Data

\* What is cut is overrun.
LEMMA CreateFileStep == ASSUME FilesInv, NEW w \in Workers, CreateFile(w) PROVE FilesInv'
<1>1. PICK p : p = job[w].target
  OBVIOUS
<1>2. p \in Paths
  BY <1>1, JobFields DEF CreateFile, Doing, FilesInv, ControlOK
<1>3. /\ DataOK /\ NothingLost /\ asked \subseteq 0..nextContent /\ overrun \subseteq 0..nextContent
      /\ replaced \subseteq 0..nextContent /\ Contents(disk[p]) \subseteq 0..nextContent /\ nextContent \in Nat
  BY <1>2, Places DEF FilesInv, DataOK
<1>4. PICK node : node = [n \in Names |-> IF n = Own THEN nextContent ELSE None]
  OBVIOUS
<1>5. node \in Node /\ Contents(node) = {nextContent}
  <2>1. node \in Node
    BY <1>3, <1>4 DEF Node
  <2>2. Own \in Names /\ node[Own] = nextContent /\ \A n \in Names : node[n] \in {nextContent, None}
    BY <1>4 DEF Names
  <2>3. nextContent # None
    BY <1>3, FileOperationsAssumption
  <2>4. node # None
    BY <2>1, FileOperationsAssumption
  <2> QED
    BY <2>1, <2>2, <2>3, <2>4, NodeContents
<1>6. ASSUME disk' = [disk EXCEPT ![p] = node], nextContent' = nextContent + 1,
             overrun' = overrun \cup Contents(disk[p])
      PROVE  Data
  <2>1. UNCHANGED <<trash, nextId, asked, replaced>>
    BY DEF CreateFile
  <2>2. nextContent < nextContent'
    BY <1>3, <1>6
  <2>3. Contents(disk[p]) \ Contents(node) \subseteq Excused'
    BY <1>6 DEF Excused
  <2> QED
    BY <1>2, <1>3, <1>5, <1>6, <2>1, <2>2, <2>3, PathChanges DEF Data
<1>7. ASSUME UNCHANGED <<disk, nextContent, overrun>> PROVE Data
  BY <1>7, StillData DEF CreateFile
<1>8. Data
  BY <1>1, <1>4, <1>6, <1>7 DEF CreateFile
<1>9. failures' \in 0..MaxFailures
  BY Bounds DEF CreateFile, FilesInv
<1> QED
  BY <1>8, <1>9, JobEnds DEF CreateFile, Data

LEMMA RenamePathStep == ASSUME FilesInv, NEW w \in Workers, RenamePath(w) PROVE FilesInv'
<1>1. PICK from, to : from = job[w].path /\ to = job[w].target
  OBVIOUS
<1>2. from \in Paths /\ to \in Paths /\ DataOK /\ NothingLost
  BY <1>1, JobFields DEF RenamePath, Doing, FilesInv, ControlOK
<1>3. Data
  <2>1. CASE UNCHANGED <<disk, overrun>>
    BY <2>1, StillData DEF RenamePath
  <2>2. CASE /\ disk[from] # None /\ disk' = [disk EXCEPT ![from] = None, ![to] = disk[from]]
             /\ overrun' = overrun \cup Contents(disk[to])
    BY <1>2, <2>2, PathToPath DEF RenamePath, Data
  <2> QED
    BY <1>1, <2>1, <2>2 DEF RenamePath
<1>4. failures' \in 0..MaxFailures
  BY Bounds DEF RenamePath, FilesInv
<1> QED
  BY <1>3, <1>4, JobEnds DEF RenamePath, Data

-----------------------------------------------------------------------------
(* Other programs.                                                          *)

LEMMA WriteStep == ASSUME FilesInv, NEW p \in Paths, NEW n \in Names, Write(p, n) PROVE FilesInv'
<1>1. /\ DataOK /\ NothingLost /\ ControlOK /\ nextContent \in Nat /\ nextContent' = nextContent + 1
      /\ asked \subseteq 0..nextContent /\ overrun \subseteq 0..nextContent
      /\ replaced \subseteq 0..nextContent /\ UNCHANGED <<trash, nextId, asked, overrun, replaced>>
  BY DEF Write, FilesInv, DataOK
<1>2. nextContent # None /\ disk[p] \in Node \cup {None} /\ \A c \in Contents(disk[p]) : c < nextContent'
  <2>1. \A c \in Contents(disk[p]) : c \in Nat /\ c < nextContent
    BY <1>1, Places, NodeContents
  <2> QED
    BY <1>1, <2>1, Places, FileOperationsAssumption
<1>3. CASE disk[p] = None
  <2>1. PICK node : node = [m \in Names |-> IF m = n THEN nextContent ELSE None]
    OBVIOUS
  <2>2. node \in Node /\ node[n] = nextContent /\ \A m \in Names : node[m] \in {nextContent, None}
    BY <1>1, <2>1 DEF Node
  <2>3. Contents(node) = {nextContent}
    BY <1>2, <2>2, NodeContents, FileOperationsAssumption
  <2>4. disk' = [disk EXCEPT ![p] = node] /\ Contents(disk[p]) = {}
    BY <1>3, <2>1 DEF Write, Contents
  <2>5. \A c \in Contents(node) : c < nextContent'
    BY <1>1, <2>3
  <2>6. Data
    BY <1>1, <2>2, <2>3, <2>4, <2>5, PathChanges DEF Data
  <2> QED
    BY <1>1, <2>6, Bounds, OtherStep DEF Write, Elsewhere
<1>4. CASE disk[p] # None
  <2>1. PICK node : node = [disk[p] EXCEPT ![n] = nextContent]
    OBVIOUS
  <2>2. disk[p] \in Node /\ disk[p][n] = None /\ disk' = [disk EXCEPT ![p] = node]
    BY <1>2, <1>4, <2>1 DEF Write
  <2>3. node \in Node /\ \A m \in Names : node[m] = IF m = n THEN nextContent ELSE disk[p][m]
    BY <1>1, <2>1, <2>2 DEF Node
  <2>4. node # None
    BY <2>3, FileOperationsAssumption
  <2>5. Contents(node) = Contents(disk[p]) \cup {nextContent}
    BY <1>2, <1>4, <2>2, <2>3, <2>4, NodeContents
  <2>6. \A c \in Contents(node) : c < nextContent'
    BY <1>1, <1>2, <2>5
  <2>7. Data
    BY <1>1, <2>2, <2>3, <2>5, <2>6, PathChanges DEF Data
  <2> QED
    BY <1>1, <2>7, Bounds, OtherStep DEF Write, Elsewhere
<1> QED
  BY <1>3, <1>4

LEMMA TrashElsewhereStep == ASSUME FilesInv, NEW p \in Paths, TrashElsewhere(p) PROVE FilesInv'
<1>1. DataOK /\ NothingLost /\ ControlOK
  BY DEF FilesInv
<1>2. Data
  BY <1>1, PathToTrash DEF TrashElsewhere, Data
<1> QED
  BY <1>1, <1>2, Bounds, OtherStep DEF TrashElsewhere, Elsewhere

LEMMA PurgeElsewhereStep == ASSUME FilesInv, NEW i \in trash, PurgeElsewhere(i) PROVE FilesInv'
<1>1. DataOK /\ NothingLost /\ ControlOK
  BY DEF FilesInv
<1>2. /\ Contents(i.node) \subseteq 0..nextContent /\ asked \subseteq 0..nextContent
      /\ overrun \subseteq 0..nextContent
  BY <1>1, Places DEF DataOK
<1>3. Data
  <2>1. asked' \subseteq 0..nextContent /\ asked \subseteq asked' /\ trash' \subseteq trash
    BY <1>2 DEF PurgeElsewhere
  <2>2. \A k \in trash \ trash' : Contents(k.node) \subseteq asked'
    BY DEF PurgeElsewhere
  <2> QED
    BY <1>1, <1>2, <2>1, <2>2, ItemsGo DEF PurgeElsewhere, Data
<1> QED
  BY <1>1, <1>3, Bounds, OtherStep DEF PurgeElsewhere, Elsewhere

-----------------------------------------------------------------------------
LEMMA FilesInit == Init => FilesInv
<1> SUFFICES ASSUME Init PROVE FilesInv
  OBVIOUS
<1>1. PICK start \in Starts : disk = start.disk /\ undo = start.undo
  BY DEF Init
<1>2. /\ disk \in [Paths -> Node \cup {None}]
      /\ IsFiniteSet(OnDisk) /\ OnDisk = 1..Cardinality(OnDisk)
      /\ undo \in Undos \cup {None} /\ (undo # None => undo.kind # "trash")
  BY <1>1, StartsAssumption DEF OnDisk
<1>3. Cardinality(OnDisk) \in Nat /\ nextContent = 1 + Cardinality(OnDisk)
  BY <1>2, FS_CardinalityType DEF Init
<1>4. InTrash = {}
  BY DEF Init, InTrash
<1>5. DataOK
  <2>1. \A c \in OnDisk \cup InTrash : c < nextContent
    BY <1>2, <1>3, <1>4
  <2> QED
    BY <1>2, <1>3, <2>1 DEF Init, DataOK
<1>6. ControlOK
  BY <1>2, FileOperationsAssumption DEF Init, ControlOK
<1>7. \A w \in Workers : job[w] = None
  BY DEF Init
<1>8. OneMove /\ \A w \in Workers : JobOK(job[w])
  BY <1>7 DEF OneMove, Moving, JobOK
<1>9. Knows(undo)
  BY <1>2 DEF Knows
<1>10. NothingLost
  BY <1>2, <1>3 DEF NothingLost
<1> QED
  BY <1>5, <1>6, <1>8, <1>9, <1>10 DEF FilesInv

LEMMA FilesStep == FilesInv /\ [Next]_vars => FilesInv'
<1> SUFFICES ASSUME FilesInv, Next \/ UNCHANGED vars PROVE FilesInv'
  OBVIOUS
<1>1. ASSUME NEW w \in Workers, Worker(w) PROVE FilesInv'
  BY <1>1, MoveToTrashStep, TrashNextStep, TrashFinishedStep, SelectItemsStep, TrashItemsStep,
     UndoLastActionStep, BackCheckStep, BackNextStep, BackRemoveStep, BackEndsStep,
     DeleteStep, DeleteNextStep, CreateStep, CreateFolderStep, CreateFileStep, RenamePathStep
  DEF Worker
<1>2. ASSUME NEW p \in Paths, TrashElsewhere(p) \/ \E n \in Names : Write(p, n) PROVE FilesInv'
  BY <1>2, TrashElsewhereStep, WriteStep
<1>3. ASSUME NEW i \in trash, PurgeElsewhere(i) PROVE FilesInv'
  BY <1>3, PurgeElsewhereStep
<1>4. ASSUME UNCHANGED vars PROVE FilesInv'
  <2>1. Data
    BY <1>4, StillData DEF vars
  <2>2. foreign' \in 0..MaxForeign
    BY <1>4 DEF vars, counts, FilesInv, ControlOK
  <2> QED
    BY <1>4, <2>1, <2>2, OtherStep DEF vars, counts
<1> QED
  BY <1>1, <1>2, <1>3, <1>4 DEF Next, Rest

LEMMA FilesInvariant == Spec => []FilesInv
BY FilesInit, FilesStep, PTL DEF Spec

\* Jobs, undos, items and contents are what the code can hold, no two items of the trash
\* have one identifier, and contents are numbered without a gap: for any paths, threads,
\* failures and other programs.
THEOREM TypeCorrect == Spec => []TypeOK
<1>1. FilesInv => TypeOK
  BY DEF FilesInv, DataOK, ControlOK, TypeOK
<1> QED
  BY <1>1, FilesInvariant, PTL

\* No content disappears that nobody asked to delete, but for the known exceptions:
\* whatever runs together, is refused, or fails half way.
THEOREM ContentsAreKept == Spec => []NothingLost
<1>1. FilesInv => NothingLost
  BY DEF FilesInv
<1> QED
  BY <1>1, FilesInvariant, PTL

\* The undo of a deletion knows the deletion's items that are still in the trash, but for
\* one that has got the identifier of an item that was there before, and no item that was
\* there before it, whatever else goes to the trash or leaves it meanwhile.
THEOREM UndosAreExact == Spec => []UndoIsExact
<1>1. FilesInv => UndoIsExact
  BY DEF FilesInv, Knows, UndoIsExact
<1> QED
  BY <1>1, FilesInvariant, PTL
=============================================================================
