----------------------- MODULE TransferContent_proofs -----------------------
(* Proofs about TransferEngine: no content is lost, and a completed root is *)
(* complete.  For any jobs, sources, names, shapes, policies, edits and     *)
(* failures, as long as the jobs are Separate.                              *)
EXTENDS TransferEngine_proofs

\* Jobs of one process, none of which reads from a device, and whose moves read
\* from outside the destination folder.
Separate ==
  /\ Portable = {}
  /\ \A j, k \in Jobs : ProcOf[j] = ProcOf[k]
  /\ \A j \in Jobs : "Move" \in Kinds[j] => Sources[j] \cap Slots = {}

-----------------------------------------------------------------------------
(* The invariant.                                                           *)

Moves(j) == job[j].kind = "Move"

\* The hidden siblings of a job's sources.
StagingOf(j, s) == <<j, s, "staging">>
BackupOf(j, s)  == <<j, s, "backup">>
Stagings(j) == {StagingOf(j, s) : s \in Inputs}
Backups(j)  == {BackupOf(j, s) : s \in Inputs}

\* Nothing of the current source has been copied yet.
Fresh(j) == pc[j] = "copy" /\ Root \in rt[j].todo

\* How a job's runtime hangs together.
SourceShape(j) ==
  /\ job[j].kind \in Kinds[j]
  /\ rt[j].left \subseteq Sources[j]
  /\ pc[j] \in AtSource => rt[j].src \in Sources[j] /\ rt[j].src \notin rt[j].left
  /\ rt[j].into \in Places => rt[j].src \in Inputs
  /\ \A y \in rt[j].copied : y.place \notin rt[j].left
  /\ pc[j] \in {"reserve", "same", "rename"} \/ Fresh(j) =>
       \A y \in rt[j].copied : y.place # rt[j].src
RouteShape(j) ==
  /\ pc[j] \in AtCopy => rt[j].target \in rt[j].held /\ rt[j].into \in {rt[j].target, Staging(j)}
  /\ pc[j] \in {"commit", "install", "rollback", "dropbackup", "unstage"} => Staged(j)
  /\ pc[j] \in {"rename", "verify", "unlink", "complete"} => rt[j].into = rt[j].target
  /\ pc[j] \in {"rename", "verify", "unlink"} => Moves(j)
  /\ pc[j] = "sync" => Moves(j) \/ Staged(j)
  /\ pc[j] \in AtCopy /\ Staged(j) => job[j].policy = "Replace"
TodoShape(j) ==
  /\ pc[j] \in {"copy", "write"} /\ Root \in rt[j].todo => rt[j].todo = {Root}
  /\ pc[j] = "rename" => rt[j].todo = {Root}
  /\ pc[j] \in {"write", "unlink"} => rt[j].node \in rt[j].todo
  /\ pc[j] \in {"verify", "unlink"} => rt[j].todo \subseteq Removable(j)
  /\ pc[j] = "unlink" => \E y \in rt[j].copied :
       y.place = rt[j].src /\ y.node = rt[j].node /\ (rt[j].snap.dir \/ rt[j].snap = y.was)
CreatedShape(j) ==
  /\ pc[j] # "report" => \A c \in rt[j].created : c[1] \in rt[j].held \cup Stagings(j)
  /\ \/ pc[j] \in {"rename", "verify", "unlink"} \/ Fresh(j)
     \/ pc[j] \in AtCopy /\ Staged(j)
     => \A c \in rt[j].created : c[1] # rt[j].target
Shape(j) == SourceShape(j) /\ RouteShape(j) /\ TodoShape(j) /\ CreatedShape(j)

\* A file has no children; a child is a file below a folder; nobody writes a folder.
WellFormed(t) ==
  /\ \A k \in Kids : t[k] # None => t[Root] # None /\ t[Root].dir /\ ~t[k].dir
  /\ \A n \in Nodes : t[n] # None /\ t[n].dir => t[n].part = Nobody

\* Only the user writes to an input outside the destination.
Pristine(s) == \A n \in Nodes : fs[s][n] # None => fs[s][n].of # Stranger /\ fs[s][n].part = Nobody

\* The content of w is that of v, or a version made from it.
From(w, v) == w.of = v.of /\ v.ver \subseteq w.ver
USE DEF From

FilesInv ==
  /\ \A p \in Places : WellFormed(fs[p])
  /\ \A s \in Inputs \ Slots : Pristine(s)
  /\ strangers = 0 =>
       \A p \in Places, n \in Nodes : fs[p][n] # None => fs[p][n].of # Stranger

\* Where the job's copy of its source is, once it has begun.
CopyAt(j)  == IF pc[j] = "dropbackup" THEN rt[j].target ELSE rt[j].into
HasCopy(j) ==
  \/ pc[j] \in {"write", "sync", "commit", "install", "dropbackup", "verify", "unlink", "complete"}
  \/ pc[j] = "copy" /\ Root \notin rt[j].todo
Open(j, n) == pc[j] = "write" /\ n = rt[j].node

\* The copy at d: only the open file is being written, and it is on disk once synced.
Settled(j, d) ==
  /\ Exists(d)
  /\ \A n \in Nodes : fs[d][n] # None /\ ~Open(j, n) => fs[d][n].part = Nobody
  /\ pc[j] \in {"commit", "install", "dropbackup", "verify", "unlink"} =>
       \A n \in Nodes : fs[d][n] # None => fs[d][n].safe
Opened(j, d) ==
  \A n \in Nodes : Open(j, n) =>
    /\ fs[d][n] # None /\ fs[d][n].part = j /\ ~fs[d][n].dir
    /\ Moves(j) => From(fs[d][n], rt[j].snap)
\* What has been copied from the source of a move is at d, or a version made from it.
Traced(j, d) ==
  Moves(j) /\ pc[j] # "complete" =>
    /\ \A y \in rt[j].copied : y.place = rt[j].src =>
         fs[d][y.node] # None /\ From(fs[d][y.node], y.was) /\ ~Open(j, y.node)
    /\ Exists(rt[j].src) => fs[d][Root].dir = fs[rt[j].src][Root].dir
\* What is not at d yet is still to be copied.
Covered(j, d) ==
  edits = 0 /\ Inputs \cap Slots = {} =>
    \A n \in Nodes : fs[rt[j].src][n] # None =>
      fs[d][n] # None \/ (pc[j] \in {"copy", "write"} /\ n \in rt[j].todo)
Copies(j, d) == Settled(j, d) /\ Opened(j, d) /\ Traced(j, d) /\ Covered(j, d)
CopyInv(j) == HasCopy(j) => \E d \in Places : d = CopyAt(j) /\ Copies(j, d)

\* What a rename may overwrite.
OnlyStranger(t) == Exists(t) => fs[t][Root].of = Stranger /\ ~fs[t][Root].dir
RoomInv(j) ==
  \/ pc[j] \in {"same", "rename"} /\ job[j].policy # "Replace"
  \/ pc[j] \in {"install", "rollback"}
  => OnlyStranger(rt[j].target)

\* The backup names of sources that are still to be replaced are free.
BeforeBackup == {"reserve", "same", "rename", "copy", "write", "sync", "commit"}
BackupInv(j) ==
  /\ \A s \in rt[j].left : fs[BackupOf(j, s)] = Absent
  /\ pc[j] \in BeforeBackup => fs[Backup(j)] = Absent

\* What a cleanup may remove has never been said to be on disk.
CreatedInv(j) ==
  pc[j] # "report" => \A c \in rt[j].created : c[1] \in Slots =>
    fs[c[1]][c[2]] # None /\ (fs[c[1]][c[2]].dir \/ ~fs[c[1]][c[2]].safe)

JobInv(j) == Shape(j) /\ CopyInv(j) /\ RoomInv(j) /\ BackupInv(j) /\ CreatedInv(j)

KeepInv == ~exhausted => FilesInv /\ \A j \in Jobs : JobInv(j)

-----------------------------------------------------------------------------
(* Places.                                                                  *)

LEMMA SlotsTemps == Slots \cap Temps = {}
  BY DEF Slots, Temps

LEMMA Siblings ==
  /\ \A j \in Jobs, s \in Inputs : StagingOf(j, s) \in Temps /\ BackupOf(j, s) \in Temps
  /\ \A j, k, s, t : StagingOf(j, s) # BackupOf(k, t)
  /\ \A j, k, s, t : StagingOf(j, s) = StagingOf(k, t) => j = k /\ s = t
  /\ \A j, k, s, t : BackupOf(j, s) = BackupOf(k, t) => j = k /\ s = t
  BY DEF StagingOf, BackupOf, Temps

\* The places a job works in, told apart.
LEMMA OwnPlaces ==
  ASSUME Separate, TypeInv, NEW j \in Jobs, SourceShape(j)
  PROVE  /\ rt[j].src \in Inputs => /\ Staging(j) \in Temps /\ Backup(j) \in Temps
                                    /\ Staging(j) \in Stagings(j) /\ Backup(j) \in Backups(j)
         /\ Staging(j) = StagingOf(j, rt[j].src) /\ Backup(j) = BackupOf(j, rt[j].src)
         /\ Staging(j) # Backup(j)
         /\ Stagings(j) \subseteq Temps /\ Backups(j) \subseteq Temps
         /\ Stagings(j) \cap Backups(j) = {}
         /\ Inputs \subseteq Places /\ Slots \subseteq Places /\ Temps \subseteq Places
         /\ Inputs \cap Temps = {} /\ Slots \cap Temps = {}
         /\ pc[j] \in AtSource => rt[j].src \in Inputs
         /\ pc[j] \in AtSource /\ Moves(j) => rt[j].src \notin Slots
<1>1. rt[j].src \in Inputs => /\ Staging(j) \in Temps /\ Backup(j) \in Temps
                              /\ Staging(j) \in Stagings(j) /\ Backup(j) \in Backups(j)
  BY DEF Staging, Backup, Stagings, Backups, StagingOf, BackupOf, Temps
<1>2. /\ Staging(j) = StagingOf(j, rt[j].src) /\ Backup(j) = BackupOf(j, rt[j].src)
      /\ Staging(j) # Backup(j)
  BY DEF Staging, Backup, StagingOf, BackupOf
<1>3. Stagings(j) \subseteq Temps /\ Backups(j) \subseteq Temps /\ Stagings(j) \cap Backups(j) = {}
  BY Siblings DEF Stagings, Backups
<1>4. Inputs \subseteq Places /\ Slots \subseteq Places /\ Temps \subseteq Places
  BY DEF Places
<1>5. Inputs \cap Temps = {} /\ Slots \cap Temps = {}
  BY TransferAssumption, SlotsTemps
<1>6. pc[j] \in AtSource => rt[j].src \in Inputs
  BY Facts
<1>7. pc[j] \in AtSource /\ Moves(j) => rt[j].src \notin Slots
  BY DEF SourceShape, Moves, Separate
<1> QED
  BY <1>1, <1>2, <1>3, <1>4, <1>5, <1>6, <1>7

\* A rename between different places.
LEMMA RenameAt ==
  ASSUME fs \in [Places -> Tree], NEW p \in Places, NEW q \in Places, p # q, fs' = Renamed(p, q)
  PROVE  fs'[q] = fs[p] /\ fs'[p] = Absent /\ \A r \in Places \ {p, q} : fs'[r] = fs[r]
  BY DEF Renamed

LEMMA PutAt ==
  ASSUME fs \in [Places -> Tree], NEW p \in Places, NEW t, fs' = [fs EXCEPT ![p] = t]
  PROVE  fs'[p] = t /\ \A r \in Places \ {p} : fs'[r] = fs[r]
  OBVIOUS

LEMMA NodeAt ==
  ASSUME fs \in [Places -> Tree], NEW p \in Places, NEW n \in Nodes, NEW v,
         fs' = [fs EXCEPT ![p][n] = v]
  PROVE  /\ fs'[p][n] = v /\ \A m \in Nodes \ {n} : fs'[p][m] = fs[p][m]
         /\ \A r \in Places \ {p} : fs'[r] = fs[r]
<1>1. fs[p] \in Tree /\ fs'[p] = [fs[p] EXCEPT ![n] = v]
  OBVIOUS
<1> QED
  BY <1>1 DEF Tree

\* A place that does not exist holds nothing at all.
LEMMA NothingThere ==
  ASSUME fs \in [Places -> Tree], FilesInv, NEW p \in Places, ~Exists(p)
  PROVE  \A n \in Nodes : fs[p][n] = None
  BY DEF FilesInv, WellFormed, Exists, Nodes

LEMMA AbsentNodes == \A n \in Nodes : Absent[n] = None
  BY DEF Absent

LEMMA RootNode == Root \in Nodes /\ Root \notin Kids /\ Kids \subseteq Nodes
  BY TransferAssumption DEF Nodes

-----------------------------------------------------------------------------
(* The content that is kept.                                                *)

Lasting(p) == p \notin Temps \/ p[3] = "backup"
Solid(v)   == v # None /\ ~v.dir /\ v.part = Nobody /\ v.safe
KeptAt(p, n, o) == Lasting(p) /\ Solid(fs[p][n]) /\ <<fs[p][n].of, fs[p][n].ver>> = o

\* The versions in the solid files of f in the places P.
ContentOf(f, P) ==
  {<<f[c[1]][c[2]].of, f[c[1]][c[2]].ver>> : c \in {e \in P \X Nodes :
     LET node == f[e[1]][e[2]] IN node # None /\ ~node.dir /\ node.part = Nobody /\ node.safe}}

LEMMA ContentIff ==
  ASSUME NEW f, NEW P, NEW o
  PROVE  o \in ContentOf(f, P) <=> \E p \in P, n \in Nodes : Solid(f[p][n]) /\ <<f[p][n].of, f[p][n].ver>> = o
<1> DEFINE kept == {e \in P \X Nodes :
                  LET node == f[e[1]][e[2]] IN
                  node # None /\ ~node.dir /\ node.part = Nobody /\ node.safe}
<1>1. \A p \in P, n \in Nodes : <<p, n>> \in kept <=> Solid(f[p][n])
  BY DEF Solid
<1>2. \A c \in kept : c[1] \in P /\ c[2] \in Nodes /\ c = <<c[1], c[2]>>
  OBVIOUS
<1> HIDE DEF kept
<1>3. ASSUME NEW p \in P, NEW n \in Nodes, Solid(f[p][n]), <<f[p][n].of, f[p][n].ver>> = o
      PROVE  \E c \in kept : <<f[c[1]][c[2]].of, f[c[1]][c[2]].ver>> = o
  <2>1. <<p, n>> \in kept /\ <<p, n>>[1] = p /\ <<p, n>>[2] = n
    BY <1>1, <1>3
  <2> QED
    BY <1>3, <2>1
<1>4. (\E c \in kept : <<f[c[1]][c[2]].of, f[c[1]][c[2]].ver>> = o)
      => \E p \in P, n \in Nodes : Solid(f[p][n]) /\ <<f[p][n].of, f[p][n].ver>> = o
  BY <1>1, <1>2
<1>5. o \in {<<f[c[1]][c[2]].of, f[c[1]][c[2]].ver>> : c \in kept} <=> \E c \in kept : <<f[c[1]][c[2]].of, f[c[1]][c[2]].ver>> = o
  BY Zenon
<1> QED
  BY <1>3, <1>4, <1>5 DEF kept, ContentOf

LEMMA KeptIff ==
  \A o : /\ o \in Kept <=> \E p \in Places, n \in Nodes : KeptAt(p, n, o)
         /\ o \in Kept' <=> \E p \in Places, n \in Nodes : KeptAt(p, n, o)'
<1> DEFINE P == {p \in Places : Lasting(p)}
<1> TAKE o
<1>1. o \in Kept <=> \E p \in P, n \in Nodes : Solid(fs[p][n]) /\ <<fs[p][n].of, fs[p][n].ver>> = o
  <2>1. Kept = ContentOf(fs, P)
    BY Zenon DEF Kept, KeptIn, Lasting, ContentOf
  <2> QED
    BY <2>1, ContentIff
<1>2. o \in Kept' <=> \E p \in P, n \in Nodes : Solid(fs'[p][n]) /\ <<fs'[p][n].of, fs'[p][n].ver>> = o
  <2>1. Kept' = ContentOf(fs', P)
    BY Zenon DEF Kept, KeptIn, Lasting, ContentOf
  <2> QED
    BY <2>1, ContentIff
<1>3. (\E p \in P, n \in Nodes : Solid(fs[p][n]) /\ <<fs[p][n].of, fs[p][n].ver>> = o)
      <=> \E p \in Places, n \in Nodes : KeptAt(p, n, o)
  BY DEF KeptAt
<1>4. (\E p \in P, n \in Nodes : Solid(fs'[p][n]) /\ <<fs'[p][n].of, fs'[p][n].ver>> = o)
      <=> \E p \in Places, n \in Nodes : KeptAt(p, n, o)'
  BY DEF KeptAt, Lasting, Solid
<1> QED
  BY <1>1, <1>2, <1>3, <1>4

\* A step loses nothing but what other programs have created.
UsersKept == \A c \in Gone : c[1] = Stranger

\* Content is kept when every solid node of a lasting place has a successor.
LEMMA KeepsContent ==
  ASSUME \A p \in Places, n \in Nodes : Lasting(p) /\ Solid(fs[p][n]) =>
           \/ fs[p][n].of = Stranger
           \/ \E q \in Places, m \in Nodes :
                Lasting(q) /\ Solid(fs'[q][m]) /\ From(fs'[q][m], fs[p][n])
  PROVE  UsersKept
<1> SUFFICES ASSUME NEW c \in Gone, c[1] # Stranger PROVE FALSE
  BY DEF UsersKept
<1>1. c \in Kept /\ \A d \in Kept' : d[1] = c[1] => ~(c[2] \subseteq d[2])
  BY Zenon DEF Gone
<1>2. PICK p \in Places, n \in Nodes : KeptAt(p, n, c)
  BY <1>1, KeptIff
<1>3. c[1] = fs[p][n].of /\ c[2] = fs[p][n].ver
  BY <1>2 DEF KeptAt
<1>4. PICK q \in Places, m \in Nodes :
        Lasting(q) /\ Solid(fs'[q][m]) /\ From(fs'[q][m], fs[p][n])
  BY <1>2, <1>3 DEF KeptAt
<1>8. PICK d : d = <<fs'[q][m].of, fs'[q][m].ver>>
  OBVIOUS
<1>5. KeptAt(q, m, d)'
  BY <1>4, <1>8 DEF KeptAt, Lasting, Solid
<1>6. d \in Kept'
  BY <1>5, KeptIff
<1>7. d[1] = c[1] /\ c[2] \subseteq d[2]
  BY <1>3, <1>4, <1>8 DEF From
<1> QED
  BY <1>1, <1>6, <1>7

\* It is enough that the node itself stays solid.
LEMMA KeepsNodes ==
  ASSUME \A p \in Places, n \in Nodes : Lasting(p) /\ Solid(fs[p][n]) =>
           Solid(fs'[p][n]) /\ From(fs'[p][n], fs[p][n])
  PROVE  UsersKept
  BY KeepsContent

\* When a single node changes, only its version can be lost.
LEMMA OnlyHere ==
  ASSUME NEW s \in Places, NEW n \in Nodes,
         \A p \in Places, m \in Nodes : p # s \/ m # n => fs'[p][m] = fs[p][m],
         NEW c \in Gone
  PROVE  c = <<fs[s][n].of, fs[s][n].ver>>
<1>1. c \in Kept /\ \A d \in Kept' : d[1] = c[1] => ~(c[2] \subseteq d[2])
  BY Zenon DEF Gone
<1>2. PICK p \in Places, m \in Nodes : KeptAt(p, m, c)
  BY <1>1, KeptIff
<1>3. CASE p # s \/ m # n
  <2>1. KeptAt(p, m, c)'
    BY <1>2, <1>3 DEF KeptAt, Lasting, Solid
  <2> QED
    BY <1>1, <2>1, KeptIff
<1> QED
  BY <1>2, <1>3 DEF KeptAt

LEMMA LastingPlaces ==
  /\ \A p \in Inputs \cup Slots : Lasting(p)
  /\ \A j \in Jobs, s \in Inputs : Lasting(BackupOf(j, s)) /\ ~Lasting(StagingOf(j, s))
<1>1. \A p \in Inputs \cup Slots : Lasting(p)
  BY SlotsTemps, TransferAssumption DEF Lasting
<1>2. \A j \in Jobs, s \in Inputs : Lasting(BackupOf(j, s)) /\ ~Lasting(StagingOf(j, s))
  BY Siblings DEF Lasting, BackupOf, StagingOf
<1> QED
  BY <1>1, <1>2

-----------------------------------------------------------------------------
(* The files under the steps of a job.                                      *)

LEMMA MoveFiles ==
  ASSUME fs \in [Places -> Tree], FilesInv, NEW p \in Places, NEW q \in Places, p # q,
         q \notin Inputs \ Slots, fs' = Renamed(p, q), strangers' = strangers
  PROVE  FilesInv'
<1>1. fs'[q] = fs[p] /\ fs'[p] = Absent /\ \A r \in Places \ {p, q} : fs'[r] = fs[r]
  BY RenameAt
<1>2. \A r \in Places : WellFormed(fs'[r])
  <2>1. WellFormed(Absent)
    BY AbsentNodes, RootNode DEF WellFormed
  <2> QED
    BY <1>1, <2>1 DEF FilesInv
<1>3. \A s \in Inputs \ Slots : Pristine(s)'
  <2> SUFFICES ASSUME NEW s \in Inputs \ Slots PROVE Pristine(s)'
    OBVIOUS
  <2>1. s \in Places
    BY DEF Places
  <2>2. Pristine(s)
    BY DEF FilesInv
  <2>3. CASE s = p
    BY <1>1, <2>3, AbsentNodes DEF Pristine
  <2>4. CASE s # p
    BY <1>1, <2>1, <2>2, <2>4 DEF Pristine
  <2> QED
    BY <2>3, <2>4
<1>4. strangers = 0 => \A r \in Places, n \in Nodes : fs'[r][n] # None => fs'[r][n].of # Stranger
  BY <1>1, AbsentNodes DEF FilesInv
<1> QED
  BY <1>2, <1>3, <1>4 DEF FilesInv

LEMMA PutFiles ==
  ASSUME fs \in [Places -> Tree], FilesInv, NEW p \in Places, p \notin Inputs \ Slots,
         \A r \in Places \ {p} : fs'[r] = fs[r], WellFormed(fs'[p]), strangers' = strangers,
         strangers = 0 => \A n \in Nodes : fs'[p][n] # None => fs'[p][n].of # Stranger
  PROVE  FilesInv'
<1>1. \A r \in Places : WellFormed(fs'[r])
  BY DEF FilesInv
<1>2. \A s \in Inputs \ Slots : Pristine(s)'
  BY DEF FilesInv, Pristine, Places
<1>3. strangers = 0 => \A r \in Places, n \in Nodes : fs'[r][n] # None => fs'[r][n].of # Stranger
  BY DEF FilesInv
<1> QED
  BY <1>1, <1>2, <1>3 DEF FilesInv

\* A node without children is removed.
LEMMA CutFiles ==
  ASSUME fs \in [Places -> Tree], FilesInv, NEW p \in Places, NEW n \in Nodes,
         fs[p][n] # None, fs[p][n].dir => KidsAt(p) = {},
         fs' = [fs EXCEPT ![p][n] = None], strangers' = strangers
  PROVE  FilesInv'
<1>1. /\ fs'[p][n] = None /\ \A m \in Nodes \ {n} : fs'[p][m] = fs[p][m]
      /\ \A r \in Places \ {p} : fs'[r] = fs[r]
  BY NodeAt
<1>2. WellFormed(fs[p])
  BY DEF FilesInv
<1>3. WellFormed(fs'[p])
  <2>1. n = Root => \A k \in Kids : fs[p][k] = None
    BY <1>2 DEF WellFormed, KidsAt
  <2> QED
    BY <1>1, <1>2, <2>1, RootNode DEF WellFormed
<1>4. \A r \in Places : WellFormed(fs'[r])
  BY <1>1, <1>3 DEF FilesInv
<1>5. \A s \in Inputs \ Slots : Pristine(s)'
  <2> SUFFICES ASSUME NEW s \in Inputs \ Slots PROVE Pristine(s)'
    OBVIOUS
  <2>1. Pristine(s) /\ s \in Places
    BY DEF FilesInv, Places
  <2>2. \A m \in Nodes : fs'[s][m] \in {fs[s][m], None}
    BY <1>1, <2>1
  <2> QED
    BY <2>1, <2>2 DEF Pristine
<1>6. strangers = 0 => \A r \in Places, m \in Nodes : fs'[r][m] # None => fs'[r][m].of # Stranger
  <2>1. \A r \in Places, m \in Nodes : fs'[r][m] \in {fs[r][m], None}
    BY <1>1
  <2> QED
    BY <2>1 DEF FilesInv
<1> QED
  BY <1>4, <1>5, <1>6 DEF FilesInv

LEMMA SameFiles ==
  ASSUME FilesInv, fs' = fs, strangers' = strangers
  PROVE  FilesInv'
  BY DEF FilesInv, Pristine

-----------------------------------------------------------------------------
(* What a step of one job may change, and what that leaves of the others.   *)

Frame(j) ==
  \A p \in Places \ (rt[j].held \cup Stagings(j) \cup Backups(j)) :
    \/ fs'[p] = fs[p]
    \/ p \in Inputs \ Slots /\ \A n \in Nodes : fs'[p][n] \in {fs[p][n], None}

LEMMA OtherJob ==
  ASSUME Separate, TypeInv, ExclusiveInv, ~exhausted, NEW j \in Jobs, NEW k \in Jobs, j # k,
         JobInv(k), Frame(j), OnlyMoves(j), UNCHANGED envVars
  PROVE  JobInv(k)'
<1>1. pc'[k] = pc[k] /\ rt'[k] = rt[k] /\ job' = job /\ edits' = edits
  BY DEF OnlyMoves, envVars
<1>2. Shape(k)'
  BY <1>1 DEF JobInv, Shape, SourceShape, RouteShape, TodoShape, CreatedShape, Fresh, Moves,
              Staged, Staging, Removable
<1> HIDE DEF Stagings, Backups
<1>3. SourceShape(k)
  BY DEF JobInv, Shape
<1>4. \A t \in Claims(k) \cap Slots : fs'[t] = fs[t]
  <2> SUFFICES ASSUME NEW t \in Claims(k) \cap Slots PROVE fs'[t] = fs[t]
    OBVIOUS
  <2>1. t \notin rt[j].held
    BY DEF ExclusiveInv, Apart, Claims, Separate
  <2>2. t \in Places /\ t \notin Stagings(j) /\ t \notin Backups(j)
    <3>1. t \notin Temps /\ t \in Places
      BY SlotsTemps DEF Places
    <3> QED
      BY <3>1, Siblings DEF Stagings, Backups
  <2> QED
    BY <2>1, <2>2 DEF Frame
<1>5. \A s \in Inputs : fs'[BackupOf(k, s)] = fs[BackupOf(k, s)]
                        /\ fs'[StagingOf(k, s)] = fs[StagingOf(k, s)]
  <2> SUFFICES ASSUME NEW s \in Inputs, NEW p \in {BackupOf(k, s), StagingOf(k, s)}
               PROVE  fs'[p] = fs[p]
    OBVIOUS
  <2>1. p \in Temps /\ p \in Places /\ p \notin Slots /\ p \notin Inputs
    BY Siblings, SlotsTemps, TransferAssumption DEF Places
  <2>2. p \notin Stagings(j) /\ p \notin Backups(j)
    BY Siblings DEF Stagings, Backups
  <2>3. rt[j].held \subseteq Slots
    BY Facts DEF Runtime
  <2> QED
    BY <2>1, <2>2, <2>3 DEF Frame
<1>6. \A s \in Inputs \ Slots : \A n \in Nodes : fs'[s][n] \in {fs[s][n], None}
  <2> SUFFICES ASSUME NEW s \in Inputs \ Slots, NEW n \in Nodes
               PROVE  fs'[s][n] \in {fs[s][n], None}
    OBVIOUS
  <2>1. s \in Places /\ s \notin Temps
    BY TransferAssumption DEF Places
  <2>2. s \notin Stagings(j) /\ s \notin Backups(j)
    BY <2>1, Siblings DEF Stagings, Backups
  <2>3. s \notin rt[j].held
    BY Facts DEF Runtime
  <2> QED
    BY <2>1, <2>2, <2>3 DEF Frame
<1>7. CopyInv(k)'
  <2> SUFFICES ASSUME HasCopy(k)' PROVE \E d \in Places : d = CopyAt(k)' /\ Copies(k, d)'
    BY DEF CopyInv
  <2>1. HasCopy(k) /\ CopyAt(k)' = CopyAt(k)
    BY <1>1 DEF HasCopy, CopyAt
  <2>2. PICK d \in Places : d = CopyAt(k) /\ Copies(k, d)
    BY <2>1 DEF JobInv, CopyInv
  <2>3. pc[k] \in AtCopy
    BY <2>1 DEF HasCopy, AtCopy, AtTarget, AtSource
  <2>4. rt[k].src \in Inputs /\ (Moves(k) => rt[k].src \notin Slots)
    BY <1>3, <2>3, OwnPlaces DEF AtCopy, AtTarget
  <2>5. fs'[d] = fs[d]
    <3>1. rt[k].target \in Claims(k) \cap Slots
      BY <2>3, Facts DEF JobInv, Shape, RouteShape, Claims, AtCopy
    <3>2. d \in {rt[k].target, Staging(k)}
      BY <2>2, <2>3 DEF JobInv, Shape, RouteShape, CopyAt
    <3>3. Staging(k) = StagingOf(k, rt[k].src)
      BY DEF Staging, StagingOf
    <3> QED
      BY <1>4, <1>5, <2>4, <3>1, <3>2, <3>3
  <2>6. Settled(k, d)'
    BY <1>1, <2>2, <2>5 DEF Copies, Settled, Exists, Open
  <2>7. Opened(k, d)'
    BY <1>1, <2>2, <2>5 DEF Copies, Opened, Open, Moves
  <2>8. Traced(k, d)'
    BY <1>1, <1>6, <2>2, <2>4, <2>5, RootNode DEF Copies, Traced, Open, Moves, Exists
  <2>9. Covered(k, d)'
    BY <1>1, <1>6, <2>2, <2>4, <2>5 DEF Copies, Covered
  <2> QED
    BY <2>1, <2>2, <2>6, <2>7, <2>8, <2>9 DEF Copies
<1>8. RoomInv(k)'
  <2> SUFFICES ASSUME \/ pc[k] \in {"same", "rename"} /\ job[k].policy # "Replace"
                      \/ pc[k] \in {"install", "rollback"}
               PROVE  OnlyStranger(rt[k].target)'
    BY <1>1 DEF RoomInv
  <2>1. OnlyStranger(rt[k].target)
    BY DEF JobInv, RoomInv
  <2>2. rt[k].target \in Claims(k) \cap Slots
    <3>1. pc[k] \in AtTarget /\ (pc[k] = "same" \/ pc[k] \in AtCopy)
      BY DEF AtCopy, AtTarget, AtSource
    <3> QED
      BY <3>1, Facts DEF JobInv, Shape, RouteShape, Claims
  <2> QED
    BY <1>1, <1>4, <2>1, <2>2 DEF OnlyStranger, Exists
<1>9. BackupInv(k)'
  <2>1. \A s \in rt[k].left : s \in Inputs
    BY Facts DEF Runtime
  <2>2. pc[k] \in BeforeBackup => rt[k].src \in Inputs /\ Backup(k) = BackupOf(k, rt[k].src)
    BY Facts DEF BeforeBackup, AtSource, Backup, BackupOf
  <2>3. Backup(k)' = Backup(k)
    BY <1>1 DEF Backup
  <2> QED
    BY <1>1, <1>5, <2>1, <2>2, <2>3 DEF JobInv, BackupInv
<1>10. CreatedInv(k)'
  <2> SUFFICES ASSUME pc[k] # "report", NEW c \in rt[k].created, c[1] \in Slots
               PROVE  fs'[c[1]][c[2]] # None /\ (fs'[c[1]][c[2]].dir \/ ~fs'[c[1]][c[2]].safe)
    BY <1>1 DEF CreatedInv
  <2>1. c[1] \in Claims(k)
    BY Siblings, SlotsTemps DEF JobInv, Shape, CreatedShape, Claims, Stagings
  <2> QED
    BY <1>4, <2>1 DEF JobInv, CreatedInv
<1> QED
  BY <1>2, <1>7, <1>8, <1>9, <1>10 DEF JobInv

-----------------------------------------------------------------------------
(* What every step of a job owes.                                           *)

Ready(j) == Separate /\ TypeInv /\ ExclusiveInv /\ ~exhausted /\ FilesInv /\ JobInv(j)

Keeps(j) ==
  /\ FilesInv' /\ JobInv(j)' /\ Frame(j)
  /\ UsersKept \/ Replaces(j) \/ Overlooks(j)

\* A step that leaves the files alone.
LEMMA StillFiles ==
  ASSUME NEW j \in Jobs, Ready(j), fs' = fs, UNCHANGED envVars
  PROVE  FilesInv' /\ Frame(j) /\ UsersKept
<1>1. FilesInv'
  BY SameFiles DEF Ready, envVars
<1>2. UsersKept
  BY KeepsNodes
<1> QED
  BY <1>1, <1>2 DEF Frame

\* A step after which the job works on no source.
LEMMA Away ==
  ASSUME NEW j \in Jobs, Ready(j), UNCHANGED envVars, pc'[j] \notin AtSource,
         rt'[j].left \subseteq rt[j].left, rt'[j].copied \subseteq rt[j].copied,
         rt'[j].into \in Places => rt'[j].src \in Inputs,
         rt'[j].created \subseteq rt[j].created,
         pc'[j] = "unstage" => rt'[j].into = <<j, rt'[j].src, "staging">>,
         pc'[j] # "report" /\ rt'[j].created # {} =>
           pc[j] # "report" /\ rt[j].held \subseteq rt'[j].held,
         \A s \in rt[j].left : fs'[BackupOf(j, s)] = fs[BackupOf(j, s)],
         \A c \in rt'[j].created : c[1] \in Slots => fs'[c[1]][c[2]] = fs[c[1]][c[2]]
  PROVE  JobInv(j)'
<1>1. Shape(j)'
  <2>1. job' = job
    BY DEF envVars
  <2>2. SourceShape(j)'
    BY <2>1 DEF Ready, JobInv, Shape, SourceShape, Fresh, AtSource
  <2>3. RouteShape(j)'
    BY <2>1 DEF RouteShape, AtCopy, AtTarget, AtSource, Staged, Staging
  <2>4. TodoShape(j)'
    BY DEF TodoShape, AtSource
  <2>5. CreatedShape(j)'
    <3>1. \A c \in rt'[j].created : pc'[j] # "report" => c[1] \in rt'[j].held \cup Stagings(j)
      BY DEF Ready, JobInv, Shape, CreatedShape
    <3>2. ~Fresh(j)' /\ pc'[j] \notin {"rename", "verify", "unlink"} /\ pc'[j] \notin AtCopy
      BY DEF Fresh, AtSource, AtTarget, AtCopy
    <3> QED
      BY <3>1, <3>2 DEF CreatedShape, Stagings
  <2> QED
    BY <2>2, <2>3, <2>4, <2>5 DEF Shape
<1>2. CopyInv(j)' /\ RoomInv(j)'
  <2>1. ~HasCopy(j)'
    BY DEF HasCopy, AtSource
  <2> QED
    BY <2>1 DEF CopyInv, RoomInv, AtSource
<1>3. BackupInv(j)'
  <2>1. pc'[j] \notin BeforeBackup
    BY DEF BeforeBackup, AtSource
  <2> QED
    BY <2>1 DEF Ready, JobInv, BackupInv, Absent
<1>4. CreatedInv(j)'
  BY DEF Ready, JobInv, CreatedInv
<1> QED
  BY <1>1, <1>2, <1>3, <1>4 DEF JobInv

\* The same for a step that leaves files and runtime alone.
LEMMA AwayStill ==
  ASSUME NEW j \in Jobs, Ready(j), UNCHANGED <<fs, rt, envVars>>,
         pc'[j] \notin AtSource \cup {"unstage"}, pc[j] # "report"
  PROVE  Keeps(j)
<1>1. SourceShape(j)
  BY DEF Ready, JobInv, Shape
<1>2. JobInv(j)'
  BY <1>1, Away DEF SourceShape
<1> QED
  BY <1>2, StillFiles DEF Keeps

LEMMA PrepareKeeps == ASSUME NEW j \in Jobs, Ready(j), Prepare(j) PROVE Keeps(j)
<1>1. pc'[j] = "next"
  BY Moved DEF Prepare, Ready
<1> QED
  BY <1>1, AwayStill DEF Prepare, AtSource

LEMMA EndOfSourcesKeeps == ASSUME NEW j \in Jobs, Ready(j), EndOfSources(j) PROVE Keeps(j)
<1>1. pc'[j] \in {"release", "cleanup"}
  BY Moved DEF EndOfSources, Ready, Exit
<1> QED
  BY <1>1, AwayStill DEF EndOfSources, AtSource

LEMMA SkipKeeps == ASSUME NEW j \in Jobs, Ready(j), SkipSameFile(j) PROVE Keeps(j)
<1>1. pc'[j] = "next"
  BY Moved DEF SkipSameFile, Ready
<1> QED
  BY <1>1, AwayStill DEF SkipSameFile, AtSource

LEMMA CleanupKeeps == ASSUME NEW j \in Jobs, Ready(j), Cleanup(j) PROVE Keeps(j)
<1>1. pc'[j] \in {"sweep", "report", "release"}
  BY Moved DEF Cleanup, Ready, AfterCleanup
<1> QED
  BY <1>1, AwayStill DEF Cleanup, AtSource

LEMMA FailKeeps ==
  ASSUME NEW j \in Jobs, Ready(j), pc[j] # "report", NEW e, Fail(j, e)
  PROVE  Keeps(j)
<1> USE DEF Ready
<1>1. /\ pc'[j] = IF Staged(j) THEN "unstage" ELSE Exit(j)
      /\ rt'[j] = [rt[j] EXCEPT !.err = e] /\ UNCHANGED <<fs, envVars>>
  BY Moved DEF Fail
<1>2. /\ rt'[j].left = rt[j].left /\ rt'[j].copied = rt[j].copied /\ rt'[j].into = rt[j].into
      /\ rt'[j].src = rt[j].src /\ rt'[j].created = rt[j].created /\ rt'[j].held = rt[j].held
  BY <1>1, Facts DEF Runtime
<1>3. pc'[j] \notin AtSource /\ (pc'[j] = "unstage" => rt[j].into = <<j, rt[j].src, "staging">>)
  BY <1>1 DEF Exit, AtSource, Staged, Staging
<1>4. SourceShape(j)
  BY DEF JobInv, Shape
<1>5. JobInv(j)'
  BY <1>1, <1>2, <1>3, <1>4, Away DEF SourceShape
<1> QED
  BY <1>1, <1>5, StillFiles DEF Keeps

LEMMA ErrorKeeps == ASSUME NEW j \in Jobs, Ready(j), Abort(j) \/ Fault(j) PROVE Keeps(j)
<1>1. PICK e : Fail(j, e)
  BY DEF Abort, Fault
<1>2. pc[j] # "report"
  BY DEF Abort, Fault
<1> QED
  BY <1>1, <1>2, FailKeeps

LEMMA CompleteKeeps == ASSUME NEW j \in Jobs, Ready(j), CompleteRoot(j) PROVE Keeps(j)
<1> USE DEF Ready
<1> DEFINE x == Unprotected(j, rt[j].target)
<1>1. PICK y : rt'[j] = [rt[j] EXCEPT !.created = x, !.roots = y]
  <2>1. PICK y : Update(j, [rt[j] EXCEPT !.created = x, !.roots = y])
    BY DEF CompleteRoot
  <2> QED
    BY <2>1, Moved
<1>2. pc'[j] = "next" /\ UNCHANGED <<fs, envVars>> /\ pc[j] # "report"
  BY Moved DEF CompleteRoot
<1>3. /\ rt'[j].left = rt[j].left /\ rt'[j].copied = rt[j].copied /\ rt'[j].into = rt[j].into
      /\ rt'[j].src = rt[j].src /\ rt'[j].created = x /\ rt'[j].held = rt[j].held
  BY <1>1, Facts DEF Runtime
<1>4. SourceShape(j) /\ x \subseteq rt[j].created
  BY <1>1 DEF JobInv, Shape, Unprotected
<1> HIDE DEF x
<1>5. JobInv(j)'
  BY <1>2, <1>3, <1>4, Away DEF SourceShape, AtSource
<1> QED
  BY <1>2, <1>5, StillFiles DEF Keeps

LEMMA ReleaseKeeps == ASSUME NEW j \in Jobs, Ready(j), Release(j) PROVE Keeps(j)
<1> USE DEF Ready
<1>1. rt'[j] = [rt[j] EXCEPT !.held = {}] /\ pc'[j] = "report" /\ UNCHANGED <<fs, envVars>>
  BY Moved DEF Release, AfterRelease, Separate
<1>2. /\ rt'[j].left = rt[j].left /\ rt'[j].copied = rt[j].copied /\ rt'[j].into = rt[j].into
      /\ rt'[j].src = rt[j].src /\ rt'[j].created = rt[j].created
  BY <1>1, Facts DEF Runtime
<1>3. SourceShape(j)
  BY DEF JobInv, Shape
<1>4. JobInv(j)'
  BY <1>1, <1>2, <1>3, Away DEF SourceShape, AtSource
<1> QED
  BY <1>1, <1>4, StillFiles DEF Keeps

LEMMA ReportKeeps == ASSUME NEW j \in Jobs, Ready(j), Report(j) PROVE Keeps(j)
<1> USE DEF Ready
<1>1. /\ rt'[j] = [Idle EXCEPT !.roots = rt[j].roots] /\ UNCHANGED <<fs, envVars>>
      /\ pc'[j] \in {"Finished", "Cancelled", "Failed"}
  BY Moved DEF Report
<1>2. /\ rt'[j].left = {} /\ rt'[j].copied = {} /\ rt'[j].into = None /\ rt'[j].created = {}
  BY <1>1 DEF Idle
<1>3. JobInv(j)'
  BY <1>1, <1>2, Away, TransferAssumption DEF AtSource
<1> QED
  BY <1>1, <1>3, StillFiles DEF Keeps

LEMMA SweepKeeps == ASSUME NEW j \in Jobs, Ready(j), Sweep(j) PROVE Keeps(j)
<1> USE DEF Ready
<1>1. UNCHANGED envVars /\ pc[j] = "sweep" /\ SourceShape(j)
  BY DEF Sweep, JobInv, Shape
<1>2. CASE UNCHANGED <<fs, rt>> /\ Goto(j, AfterCleanup(j))
  <2>1. pc'[j] \in {"report", "release"}
    BY <1>2, Moved DEF AfterCleanup
  <2> QED
    BY <1>1, <1>2, <2>1, AwayStill DEF AtSource
<1>3. ASSUME NEW c \in rt[j].created, UNCHANGED pc,
             Update(j, [rt[j] EXCEPT !.created = @ \ {c}]),
             c[2] = Root => \A k \in Kids : <<c[1], k>> \notin rt[j].created,
             \/ /\ fs[c[1]][c[2]] # None /\ (c[2] = Root => KidsAt(c[1]) = {})
                /\ fs' = [fs EXCEPT ![c[1]][c[2]] = None]
             \/ UNCHANGED fs
      PROVE  Keeps(j)
  <2> DEFINE p == c[1]
             n == c[2]
  <2>1. rt'[j] = [rt[j] EXCEPT !.created = @ \ {c}]
    BY <1>3, Moved
  <2>2. /\ rt'[j].left = rt[j].left /\ rt'[j].copied = rt[j].copied /\ rt'[j].into = rt[j].into
        /\ rt'[j].src = rt[j].src /\ rt'[j].created = rt[j].created \ {c}
        /\ rt'[j].held = rt[j].held
    BY <2>1, Facts DEF Runtime
  <2>3. c = <<p, n>> /\ p \in Places /\ n \in Nodes
    BY Facts DEF Runtime
  <2>4. p \in rt[j].held \cup Stagings(j)
    BY <1>1 DEF JobInv, Shape, CreatedShape
  <2>5. p \in Slots \/ (p \in Stagings(j) /\ p \in Temps)
    BY <2>4, Facts, Siblings DEF Runtime, Stagings
  <2>6. \A s \in rt[j].left : p # BackupOf(j, s) /\ BackupOf(j, s) \in Places
    <3>1. \A s \in rt[j].left : s \in Inputs
      BY Facts DEF Runtime
    <3> QED
      BY <2>5, <3>1, Siblings, SlotsTemps DEF Stagings, Places
  <2>7. CASE UNCHANGED fs
    <3>1. JobInv(j)'
      BY <1>1, <1>3, <2>2, <2>7, Away DEF SourceShape, AtSource
    <3> QED
      BY <1>1, <2>7, <3>1, StillFiles DEF Keeps
  <2>8. CASE /\ fs[p][n] # None /\ (n = Root => KidsAt(p) = {})
             /\ fs' = [fs EXCEPT ![p][n] = None]
    <3>1. /\ fs'[p][n] = None /\ \A m \in Nodes \ {n} : fs'[p][m] = fs[p][m]
          /\ \A r \in Places \ {p} : fs'[r] = fs[r]
      BY <2>3, <2>8, NodeAt, Facts
    <3>2. FilesInv'
      <4>1. fs[p][n].dir => KidsAt(p) = {}
        BY <2>3, <2>8 DEF FilesInv, WellFormed, Nodes
      <4> QED
        BY <1>1, <2>3, <2>8, <4>1, CutFiles, Facts DEF envVars
    <3>3. \A e \in rt'[j].created : fs'[e[1]][e[2]] = fs[e[1]][e[2]]
      <4> SUFFICES ASSUME NEW e \in rt[j].created, e # c PROVE fs'[e[1]][e[2]] = fs[e[1]][e[2]]
        BY <2>2
      <4>1. e = <<e[1], e[2]>> /\ e[1] \in Places /\ e[2] \in Nodes
        BY Facts DEF Runtime
      <4>2. e[1] # p \/ e[2] # n
        BY <2>3, <4>1
      <4> QED
        BY <3>1, <4>1, <4>2
    <3>4. JobInv(j)'
      BY <1>1, <1>3, <2>2, <2>6, <3>1, <3>3, Away DEF SourceShape, AtSource
    <3>5. Frame(j)
      BY <2>4, <3>1 DEF Frame
    <3>6. ~(Lasting(p) /\ Solid(fs[p][n]))
      <4>1. CASE p \in Slots
        BY <1>1, <2>3, <4>1 DEF JobInv, CreatedInv, Solid
      <4>2. CASE p \in Stagings(j)
        BY <4>2, LastingPlaces DEF Stagings
      <4> QED
        BY <2>5, <4>1, <4>2
    <3>7. \A q \in Places, m \in Nodes : (Lasting(q) /\ Solid(fs[q][m])) => fs'[q][m] = fs[q][m]
      BY <3>1, <3>6
    <3>8. UsersKept
      BY <3>7, KeepsNodes
    <3> QED
      BY <3>2, <3>4, <3>5, <3>8 DEF Keeps
  <2> QED
    BY <1>3, <2>7, <2>8
<1> QED
  BY <1>2, <1>3 DEF Sweep

LEMMA UnstageKeeps == ASSUME NEW j \in Jobs, Ready(j), Unstage(j) PROVE Keeps(j)
<1> USE DEF Ready
<1>1. UNCHANGED envVars /\ rt' = rt /\ pc[j] = "unstage" /\ SourceShape(j) /\ rt[j].into = Staging(j)
  BY DEF Unstage, JobInv, Shape, RouteShape, Staged
<1>2. pc'[j] \in {"release", "cleanup"}
  BY Moved DEF Unstage, Exit
<1>3. CASE fs' = fs
  BY <1>1, <1>2, <1>3, AwayStill DEF AtSource
<1>4. CASE rt[j].into \notin Places
  BY <1>1, <1>3, <1>4, Facts DEF Unstage
<1>5. CASE rt[j].into \in Places /\ fs' = [fs EXCEPT ![rt[j].into] = Absent]
  <2> DEFINE p == Staging(j)
  <2>1. p \in Stagings(j) /\ p \in Temps /\ p \in Places /\ p \notin Slots /\ p \notin Inputs
        /\ rt[j].src \in Inputs /\ p = StagingOf(j, rt[j].src)
    BY <1>1, <1>5, OwnPlaces DEF SourceShape
  <2>2. fs'[p] = Absent /\ \A r \in Places \ {p} : fs'[r] = fs[r]
    BY <1>1, <1>5, <2>1, PutAt, Facts
  <2>3. FilesInv'
    <3>1. WellFormed(fs'[p]) /\ \A n \in Nodes : fs'[p][n] = None
      BY <2>2, AbsentNodes, RootNode DEF WellFormed
    <3> QED
      BY <1>1, <2>1, <2>2, <3>1, PutFiles, Facts DEF envVars
  <2>4. \A s \in rt[j].left : fs'[BackupOf(j, s)] = fs[BackupOf(j, s)]
    <3>1. \A s \in rt[j].left : s \in Inputs
      BY Facts DEF Runtime
    <3> QED
      BY <2>1, <2>2, <3>1, Siblings DEF Places
  <2>5. \A c \in rt[j].created : c[1] \in Slots => fs'[c[1]][c[2]] = fs[c[1]][c[2]]
    BY <2>1, <2>2 DEF Places
  <2>6. JobInv(j)'
    BY <1>1, <1>2, <2>4, <2>5, Away DEF SourceShape, AtSource
  <2>7. Frame(j)
    BY <2>1, <2>2 DEF Frame
  <2>8. \A q \in Places, m \in Nodes : (Lasting(q) /\ Solid(fs[q][m])) => fs'[q][m] = fs[q][m]
    BY <2>1, <2>2, LastingPlaces
  <2>9. UsersKept
    BY <2>8, KeepsNodes
  <2> QED
    BY <2>3, <2>6, <2>7, <2>9 DEF Keeps
<1> QED
  BY <1>3, <1>4, <1>5 DEF Unstage

\* A rename between two places of the job.
LEMMA MoveKeeps ==
  ASSUME NEW j \in Jobs, Ready(j), UNCHANGED envVars,
         NEW p \in Places, NEW q \in Places, p # q, fs' = Renamed(p, q),
         p \in rt[j].held \cup Stagings(j) \cup Backups(j) \/ p \in Inputs \ Slots,
         q \in rt[j].held \cup Backups(j),
         OnlyStranger(q)
  PROVE  FilesInv' /\ Frame(j) /\ UsersKept
<1> USE DEF Ready
<1>1. fs'[q] = fs[p] /\ fs'[p] = Absent /\ \A r \in Places \ {p, q} : fs'[r] = fs[r]
  BY RenameAt, Facts
<1>2. q \in Slots \/ q \in Backups(j)
  BY Facts DEF Runtime
<1>3. q \notin Inputs \ Slots
  BY <1>2, Siblings, TransferAssumption DEF Backups
<1>4. FilesInv'
  BY <1>3, MoveFiles, Facts DEF envVars
<1>5. Frame(j)
  BY <1>1, AbsentNodes DEF Frame
<1>6. Lasting(q)
  BY <1>2, LastingPlaces DEF Backups
<1>7. \A n \in Nodes : Solid(fs[q][n]) => fs[q][n].of = Stranger
  <2> SUFFICES ASSUME NEW n \in Nodes, Solid(fs[q][n]) PROVE fs[q][n].of = Stranger
    OBVIOUS
  <2>1. Exists(q) /\ (n = Root \/ fs[q][Root].dir)
    BY RootNode DEF FilesInv, WellFormed, Exists, Nodes, Solid
  <2> QED
    BY <2>1 DEF OnlyStranger
<1>8. UsersKept
  <2> SUFFICES ASSUME NEW r \in Places, NEW n \in Nodes, Lasting(r), Solid(fs[r][n]),
                      fs[r][n].of # Stranger
               PROVE  \E t \in Places, m \in Nodes :
                        Lasting(t) /\ Solid(fs'[t][m]) /\ From(fs'[t][m], fs[r][n])
    BY KeepsContent
  <2>1. r # q
    BY <1>7
  <2>2. CASE r = p
    BY <1>1, <1>6, <2>2
  <2>3. CASE r # p
    BY <1>1, <2>1, <2>3
  <2> QED
    BY <2>2, <2>3
<1> QED
  BY <1>4, <1>5, <1>8

LEMMA RollbackKeeps == ASSUME NEW j \in Jobs, Ready(j), Rollback(j) PROVE Keeps(j)
<1> USE DEF Ready
<1>1. UNCHANGED envVars /\ pc[j] = "rollback" /\ pc'[j] = "unstage"
      /\ rt'[j] = [rt[j] EXCEPT !.err = "error"]
  BY Moved DEF Rollback
<1>2. /\ rt'[j].left = rt[j].left /\ rt'[j].copied = rt[j].copied /\ rt'[j].into = rt[j].into
      /\ rt'[j].src = rt[j].src /\ rt'[j].created = rt[j].created /\ rt'[j].held = rt[j].held
  BY <1>1, Facts DEF Runtime
<1>3. /\ SourceShape(j) /\ rt[j].into = <<j, rt[j].src, "staging">>
      /\ rt[j].target \in rt[j].held /\ OnlyStranger(rt[j].target)
      /\ rt[j].src \notin rt[j].left /\ \A c \in rt[j].created : c[1] # rt[j].target
  BY <1>1 DEF JobInv, Shape, SourceShape, RouteShape, CreatedShape, RoomInv, Staged, Staging,
              AtCopy, AtTarget, AtSource
<1>4. rt[j].src \in Inputs /\ rt[j].target \in Slots
  BY <1>1, Facts DEF AtTarget, AtSource
<1>5. CASE fs' = fs
  <2>1. JobInv(j)'
    BY <1>1, <1>2, <1>3, <1>5, Away DEF SourceShape, AtSource
  <2> QED
    BY <1>1, <1>5, <2>1, StillFiles DEF Keeps
<1>6. CASE fs' = Renamed(Backup(j), rt[j].target)
  <2> DEFINE p == Backup(j)
             q == rt[j].target
  <2>1. p \in Places /\ q \in Places /\ p # q /\ p \in Backups(j) /\ p = BackupOf(j, rt[j].src)
        /\ p \in Temps
    BY <1>3, <1>4, OwnPlaces
  <2>2. fs'[q] = fs[p] /\ fs'[p] = Absent /\ \A r \in Places \ {p, q} : fs'[r] = fs[r]
    BY <1>6, <2>1, RenameAt, Facts
  <2>3. \A s \in rt[j].left : fs'[BackupOf(j, s)] = fs[BackupOf(j, s)]
    <3>1. \A s \in rt[j].left : s \in Inputs /\ s # rt[j].src
      BY <1>3, Facts DEF Runtime
    <3>2. q \notin Temps
      BY <1>4, SlotsTemps
    <3> QED
      BY <2>1, <2>2, <3>1, <3>2, Siblings DEF Places
  <2>4. \A c \in rt[j].created : c[1] \in Slots => fs'[c[1]][c[2]] = fs[c[1]][c[2]]
    BY <1>3, <2>1, <2>2, SlotsTemps DEF Places
  <2>5. JobInv(j)'
    BY <1>1, <1>2, <1>3, <2>3, <2>4, Away DEF SourceShape, AtSource
  <2>6. FilesInv' /\ Frame(j) /\ UsersKept
    BY <1>1, <1>3, <1>6, <2>1, MoveKeeps
  <2> QED
    BY <2>5, <2>6 DEF Keeps
<1> QED
  BY <1>5, <1>6 DEF Rollback

LEMMA NextSourceKeeps == ASSUME NEW j \in Jobs, Ready(j), NextSource(j) PROVE Keeps(j)
<1> USE DEF Ready
<1>1. PICK s \in rt[j].left :
        /\ Update(j, [rt[j] EXCEPT !.left = @ \ {s}, !.src = s, !.into = None])
        /\ Goto(j, IF Exists(s) THEN "reserve" ELSE "next")
  BY DEF NextSource
<1>2. pc[j] = "next" /\ UNCHANGED <<fs, envVars>>
  BY DEF NextSource
<1>3. /\ rt'[j] = [rt[j] EXCEPT !.left = @ \ {s}, !.src = s, !.into = None]
      /\ pc'[j] \in {"reserve", "next"}
  BY <1>1, Moved
<1>4. /\ rt'[j].left = rt[j].left \ {s} /\ rt'[j].src = s /\ rt'[j].into = None
      /\ rt'[j].copied = rt[j].copied /\ rt'[j].created = rt[j].created /\ rt'[j].held = rt[j].held
  BY <1>3, Facts DEF Runtime
<1>5. None \notin Places /\ s \in Inputs
  BY TransferAssumption, Facts DEF Runtime
<1>6. CASE pc'[j] = "next"
  <2>1. JobInv(j)'
    BY <1>2, <1>4, <1>5, <1>6, Away DEF AtSource
  <2> QED
    BY <1>2, <2>1, StillFiles DEF Keeps
<1>7. CASE pc'[j] = "reserve"
  <2>1. job' = job
    BY <1>2 DEF envVars
  <2>2. SourceShape(j)'
    BY <1>4, <1>5, <1>7, <2>1 DEF JobInv, Shape, SourceShape, Fresh
  <2>3. RouteShape(j)' /\ TodoShape(j)'
    BY <1>7 DEF RouteShape, TodoShape, AtCopy, AtTarget
  <2>4. CreatedShape(j)'
    BY <1>2, <1>4, <1>7 DEF JobInv, Shape, CreatedShape, Fresh, AtCopy, AtTarget, Stagings
  <2>5. CopyInv(j)' /\ RoomInv(j)'
    BY <1>7 DEF CopyInv, RoomInv, HasCopy
  <2>6. BackupInv(j)'
    BY <1>2, <1>4 DEF JobInv, BackupInv, Backup, BackupOf, Absent
  <2>7. CreatedInv(j)'
    BY <1>2, <1>4 DEF JobInv, CreatedInv
  <2>8. JobInv(j)'
    BY <2>2, <2>3, <2>4, <2>5, <2>6, <2>7 DEF JobInv, Shape
  <2> QED
    BY <1>2, <2>8, StillFiles DEF Keeps
<1> QED
  BY <1>3, <1>6, <1>7

\* What reserve_destination finds is free, unless the policy is Replace or it ran out.
LEMMA FoundFree ==
  ASSUME NEW policy \in {"Skip", "KeepBoth"}, NEW b, NEW r,
         NEW t \in ResolveConflict(policy, b, r), ~RunsOut(policy, b, r)
  PROVE  ~Exists(t)
<1>1. CASE policy = "Skip"
  BY <1>1 DEF ResolveConflict
<1>2. CASE policy = "KeepBoth"
  <2>1. FreeIndexes(b, r) # {} /\ t \in UniqueDestination(b, r)
    BY <1>2 DEF RunsOut, ResolveConflict
  <2>2. PICK i \in FreeIndexes(b, r) : t = <<b, i>>
    BY <2>1 DEF UniqueDestination
  <2> QED
    BY <2>2 DEF FreeIndexes
<1> QED
  BY <1>1, <1>2

LEMMA ReserveKeeps ==
  ASSUME NEW j \in Jobs, Ready(j), ReserveDestination(j), ~exhausted'
  PROVE  Keeps(j)
<1> USE DEF Ready
<1> DEFINE b == NameOf[rt[j].src]
           q == reserved[ProcOf[j]]
           targets == ResolveConflict(job[j].policy, b, q)
<1>1. UNCHANGED <<fs, envVars>> /\ pc[j] = "reserve"
  BY DEF ReserveDestination
<1>2. CASE Goto(j, "next") /\ rt' = rt
  <2>1. pc'[j] = "next"
    BY <1>2, Moved
  <2> QED
    BY <1>1, <1>2, <2>1, AwayStill DEF AtSource
<1>3. ASSUME NEW t \in targets, exhausted' = (exhausted \/ RunsOut(job[j].policy, b, q)),
             Update(j, [rt[j] EXCEPT !.target = t]), Goto(j, "same")
      PROVE  Keeps(j)
  <2>1. pc'[j] = "same" /\ rt'[j] = [rt[j] EXCEPT !.target = t]
    BY <1>3, Moved
  <2>2. /\ rt'[j].left = rt[j].left /\ rt'[j].copied = rt[j].copied /\ rt'[j].into = rt[j].into
        /\ rt'[j].src = rt[j].src /\ rt'[j].created = rt[j].created /\ rt'[j].held = rt[j].held
        /\ rt'[j].target = t
    BY <2>1, Facts DEF Runtime
  <2>3. job' = job
    BY <1>1 DEF envVars
  <2>4. SourceShape(j)'
    BY <1>1, <2>1, <2>2, <2>3 DEF JobInv, Shape, SourceShape, Fresh, AtSource
  <2>5. RouteShape(j)' /\ TodoShape(j)'
    BY <2>1 DEF RouteShape, TodoShape, AtCopy
  <2>6. CreatedShape(j)'
    BY <1>1, <2>1, <2>2 DEF JobInv, Shape, CreatedShape, Fresh, AtCopy, Stagings
  <2>7. CopyInv(j)'
    BY <2>1 DEF CopyInv, HasCopy
  <2>8. RoomInv(j)'
    <3>1. ~RunsOut(job[j].policy, b, q)
      BY <1>3
    <3>2. job[j].policy \in {"Replace", "Skip", "KeepBoth"}
      BY DEF TypeInv, TypeOK
    <3>3. job[j].policy # "Replace" => ~Exists(t)
      BY <3>1, <3>2, FoundFree
    <3> QED
      BY <1>1, <2>1, <2>2, <2>3, <3>3 DEF RoomInv, OnlyStranger, Exists
  <2>9. BackupInv(j)'
    BY <1>1, <2>1, <2>2 DEF JobInv, BackupInv, Backup, Absent, BeforeBackup
  <2>10. CreatedInv(j)'
    BY <1>1, <2>2 DEF JobInv, CreatedInv
  <2>11. JobInv(j)'
    BY <2>4, <2>5, <2>6, <2>7, <2>8, <2>9, <2>10 DEF JobInv, Shape
  <2> QED
    BY <1>1, <2>11, StillFiles DEF Keeps
<1> QED
  BY <1>2, <1>3 DEF ReserveDestination

LEMMA ChooseKeeps == ASSUME NEW j \in Jobs, Ready(j), ChooseRoute(j) PROVE Keeps(j)
<1> USE DEF Ready
<1> DEFINE t == rt[j].target
           replacing == job[j].policy = "Replace" /\ Exists(t)
           into == IF replacing THEN Staging(j) ELSE t
<1>1. UNCHANGED <<fs, envVars>> /\ pc[j] = "same"
  BY DEF ChooseRoute
<1>2. /\ rt'[j] = [rt[j] EXCEPT !.held = @ \cup {t}, !.todo = {Root}, !.into = into]
      /\ pc'[j] = IF job[j].kind = "Move" /\ ~replacing /\ j \notin Portable
                  THEN "rename" ELSE "copy"
  BY Moved DEF ChooseRoute
<1>3. job' = job /\ rt[j].src \in Inputs /\ t \in Slots
  BY <1>1, Facts DEF envVars, AtTarget, AtSource
<1> HIDE DEF into
<1>4. /\ rt'[j].left = rt[j].left /\ rt'[j].copied = rt[j].copied /\ rt'[j].into = into
      /\ rt'[j].src = rt[j].src /\ rt'[j].created = rt[j].created
      /\ rt'[j].held = rt[j].held \cup {t} /\ rt'[j].target = t /\ rt'[j].todo = {Root}
  BY <1>2, Facts DEF Runtime
<1>5. pc'[j] \in {"rename", "copy"} /\ (pc'[j] = "rename" => Moves(j) /\ ~replacing)
  BY <1>2 DEF Moves
<1>6. t # Staging(j)
  BY <1>3, OwnPlaces DEF JobInv, Shape
<1>7. t \notin rt[j].held
  BY <1>1 DEF ExclusiveInv, Claimed
<1>8. SourceShape(j)'
  BY <1>1, <1>3, <1>4, <1>5 DEF JobInv, Shape, SourceShape, Fresh, AtSource
<1>9. RouteShape(j)'
  BY <1>3, <1>4, <1>5, <1>6 DEF RouteShape, Staged, Staging, Moves, into
<1>10. TodoShape(j)'
  BY <1>4, <1>5 DEF TodoShape
<1>11. CreatedShape(j)'
  <2>1. \A c \in rt[j].created : c[1] \in rt[j].held \cup Stagings(j)
    BY <1>1 DEF JobInv, Shape, CreatedShape
  <2>2. t \notin Stagings(j)
    BY <1>3, OwnPlaces DEF JobInv, Shape
  <2>3. \A c \in rt'[j].created : c[1] # t
    BY <1>4, <1>7, <2>1, <2>2
  <2> QED
    BY <1>4, <2>1, <2>3 DEF CreatedShape, Stagings
<1>12. CopyInv(j)'
  BY <1>4, <1>5 DEF CopyInv, HasCopy
<1>13. RoomInv(j)'
  BY <1>1, <1>3, <1>4, <1>5 DEF JobInv, RoomInv, OnlyStranger, Exists
<1>14. BackupInv(j)'
  BY <1>1, <1>4 DEF JobInv, BackupInv, Backup, Absent, BeforeBackup
<1>15. CreatedInv(j)'
  BY <1>1, <1>4 DEF JobInv, CreatedInv
<1>16. JobInv(j)'
  BY <1>8, <1>9, <1>10, <1>11, <1>12, <1>13, <1>14, <1>15 DEF JobInv, Shape
<1> QED
  BY <1>1, <1>16, StillFiles DEF Keeps

LEMMA VerifyKeeps == ASSUME NEW j \in Jobs, Ready(j), VerifySource(j) PROVE Keeps(j)
<1> USE DEF Ready
<1>1. PICK n \in rt[j].todo :
        WasCopied(j, n) /\ Update(j, [rt[j] EXCEPT !.node = n, !.snap = fs[rt[j].src][n]])
  BY DEF VerifySource
<1>2. pc[j] = "verify" /\ pc'[j] = "unlink" /\ UNCHANGED <<fs, envVars>>
  BY Moved DEF VerifySource
<1>3. /\ rt'[j] = [rt[j] EXCEPT !.node = n, !.snap = fs[rt[j].src][n]]
      /\ job' = job /\ edits' = edits
  BY <1>1, <1>2, Moved DEF envVars
<1>4. /\ rt'[j].left = rt[j].left /\ rt'[j].copied = rt[j].copied /\ rt'[j].into = rt[j].into
      /\ rt'[j].src = rt[j].src /\ rt'[j].created = rt[j].created /\ rt'[j].held = rt[j].held
      /\ rt'[j].target = rt[j].target /\ rt'[j].todo = rt[j].todo /\ rt'[j].node = n
      /\ rt'[j].snap = fs[rt[j].src][n]
  BY <1>3, Facts DEF Runtime
<1>5. SourceShape(j)'
  BY <1>2, <1>3, <1>4 DEF JobInv, Shape, SourceShape, Fresh, AtSource
<1>6. RouteShape(j)'
  BY <1>2, <1>3, <1>4 DEF JobInv, Shape, RouteShape, Moves, Staged, Staging, AtCopy, AtTarget,
                          AtSource
<1>7. TodoShape(j)'
  <2>1. PICK y \in rt[j].copied :
          /\ y.place = rt[j].src /\ y.node = n
          /\ IF y.was.dir THEN fs[y.place][n].dir ELSE fs[y.place][n] = y.was
    BY <1>1 DEF WasCopied
  <2>2. fs[rt[j].src][n].dir \/ fs[rt[j].src][n] = y.was
    BY <2>1
  <2>3. rt[j].todo \subseteq Removable(j) /\ Removable(j)' = Removable(j)
    BY <1>2, <1>4 DEF JobInv, Shape, TodoShape, Removable
  <2> QED
    BY <1>2, <1>4, <2>1, <2>2, <2>3 DEF TodoShape
<1>8. CreatedShape(j)'
  BY <1>2, <1>4 DEF JobInv, Shape, CreatedShape, Stagings
<1>9. CopyInv(j)'
  <2>1. PICK d \in Places : d = CopyAt(j) /\ Copies(j, d)
    BY <1>2 DEF JobInv, CopyInv, HasCopy
  <2>2. CopyAt(j)' = CopyAt(j)
    BY <1>2, <1>4 DEF CopyAt
  <2>3. Settled(j, d)'
    BY <1>2, <2>1 DEF Copies, Settled, Exists, Open
  <2>4. Opened(j, d)'
    BY <1>2 DEF Opened, Open
  <2>5. Traced(j, d)'
    BY <1>2, <1>3, <1>4, <2>1 DEF Copies, Traced, Moves, Exists, Open
  <2>6. Covered(j, d)'
    BY <1>2, <1>3, <1>4, <2>1 DEF Copies, Covered
  <2> QED
    BY <2>1, <2>2, <2>3, <2>4, <2>5, <2>6 DEF CopyInv, Copies
<1>10. RoomInv(j)'
  BY <1>2 DEF RoomInv
<1>11. BackupInv(j)'
  BY <1>2, <1>4 DEF JobInv, BackupInv, Absent, BeforeBackup
<1>12. CreatedInv(j)'
  BY <1>2, <1>4 DEF JobInv, CreatedInv
<1>13. JobInv(j)'
  BY <1>5, <1>6, <1>7, <1>8, <1>9, <1>10, <1>11, <1>12 DEF JobInv, Shape
<1> QED
  BY <1>2, <1>13, StillFiles DEF Keeps

LEMMA RenameKeeps == ASSUME NEW j \in Jobs, Ready(j), Rename(j) PROVE Keeps(j)
<1> USE DEF Ready
<1> DEFINE p == rt[j].src
           q == rt[j].target
<1>1. UNCHANGED <<rt, envVars>> /\ pc[j] = "rename" /\ job' = job /\ edits' = edits
  BY DEF Rename, envVars
<1>2. /\ p \in Inputs /\ q \in Slots /\ p \in Places /\ q \in Places /\ p \notin Slots
      /\ p \notin Temps /\ q \notin Temps /\ q \in rt[j].held /\ rt[j].into = q /\ Moves(j)
      /\ \A c \in rt[j].created : c[1] # q
  <2>1. Moves(j) /\ q \in rt[j].held /\ rt[j].into = q /\ \A c \in rt[j].created : c[1] # q
    BY <1>1 DEF JobInv, Shape, RouteShape, CreatedShape, AtCopy, AtTarget, AtSource
  <2>2. p \in Inputs /\ q \in Slots
    BY <1>1, Facts DEF AtTarget, AtSource
  <2>3. p \notin Slots
    BY <1>1, <2>1, OwnPlaces DEF JobInv, Shape, AtSource
  <2> QED
    BY <2>1, <2>2, <2>3, SlotsTemps, TransferAssumption DEF Places
<1>3. SourceShape(j)'
  BY <1>1 DEF JobInv, Shape, SourceShape, Fresh, AtSource
<1>4. CASE UNCHANGED fs /\ Goto(j, "copy")
  <2>1. pc'[j] = "copy"
    BY <1>4, Moved
  <2>2. RouteShape(j)' /\ TodoShape(j)' /\ CreatedShape(j)'
    <3>1. Staging(j) # q
      BY <1>2, OwnPlaces DEF JobInv, Shape
    <3>2. RouteShape(j)'
      BY <1>1, <1>2, <2>1, <3>1 DEF RouteShape, Staged, Staging
    <3>3. TodoShape(j)'
      BY <1>1, <2>1 DEF JobInv, Shape, TodoShape
    <3>4. CreatedShape(j)'
      BY <1>1, <1>2, <2>1 DEF JobInv, Shape, CreatedShape, Stagings
    <3> QED
      BY <3>2, <3>3, <3>4
  <2>3. CopyInv(j)'
    <3>1. rt[j].todo = {Root}
      BY <1>1 DEF JobInv, Shape, TodoShape
    <3> QED
      BY <1>1, <2>1, <3>1 DEF CopyInv, HasCopy
  <2>4. RoomInv(j)' /\ CreatedInv(j)'
    BY <1>1, <1>4, <2>1 DEF JobInv, RoomInv, CreatedInv
  <2>5. BackupInv(j)'
    BY <1>1, <1>4, <2>1 DEF JobInv, BackupInv, Backup, Absent, BeforeBackup
  <2>6. JobInv(j)'
    BY <1>3, <2>2, <2>3, <2>4, <2>5 DEF JobInv, Shape
  <2> QED
    BY <1>1, <1>4, <2>6, StillFiles DEF Keeps
<1>5. CASE /\ ~(job[j].policy = "Replace" /\ Exists(q)) /\ CanRename(p, q)
           /\ fs' = Renamed(p, q) /\ Goto(j, "complete")
  <2>1. pc'[j] = "complete"
    BY <1>5, Moved
  <2>2. fs'[q] = fs[p] /\ fs'[p] = Absent /\ \A r \in Places \ {p, q} : fs'[r] = fs[r]
    BY <1>2, <1>5, RenameAt, Facts
  <2>3. OnlyStranger(q)
    BY <1>1, <1>5 DEF JobInv, RoomInv, OnlyStranger
  <2>4. FilesInv' /\ Frame(j) /\ UsersKept
    BY <1>1, <1>2, <1>5, <2>3, MoveKeeps
  <2>5. RouteShape(j)' /\ TodoShape(j)' /\ CreatedShape(j)'
    <3>1. Staging(j) # q
      BY <1>2, OwnPlaces DEF JobInv, Shape
    <3>2. RouteShape(j)'
      BY <1>1, <1>2, <2>1, <3>1 DEF RouteShape, Staged, Staging
    <3>3. TodoShape(j)'
      BY <2>1 DEF TodoShape
    <3>4. CreatedShape(j)'
      BY <1>1, <1>2, <2>1 DEF JobInv, Shape, CreatedShape, Stagings
    <3> QED
      BY <3>2, <3>3, <3>4
  <2>6. CopyInv(j)'
    <3>1. PICK d \in Places : d = q
      BY <1>2
    <3>2. CopyAt(j)' = d
      BY <1>1, <1>2, <2>1, <3>1 DEF CopyAt
    <3>3. Settled(j, d)'
      <4>1. Exists(p) /\ Pristine(p)
        BY <1>2, <1>5 DEF CanRename, FilesInv
      <4> QED
        BY <2>1, <2>2, <3>1, <4>1 DEF Settled, Exists, Pristine
    <3>4. Opened(j, d)' /\ Traced(j, d)'
      BY <2>1 DEF Opened, Traced, Open
    <3>5. Covered(j, d)'
      BY <1>1, <2>2, AbsentNodes DEF Covered
    <3> QED
      BY <3>2, <3>3, <3>4, <3>5 DEF CopyInv, Copies
  <2>7. RoomInv(j)'
    BY <2>1 DEF RoomInv
  <2>8. BackupInv(j)'
    <3>1. \A s \in rt[j].left : s \in Inputs
      BY Facts DEF Runtime
    <3>2. \A s \in rt[j].left : fs'[BackupOf(j, s)] = fs[BackupOf(j, s)]
      BY <1>2, <2>2, <3>1, Siblings DEF Places
    <3> QED
      BY <1>1, <2>1, <3>2 DEF JobInv, BackupInv, BeforeBackup, Absent
  <2>9. CreatedInv(j)'
    <3>1. \A c \in rt[j].created : c[1] \in Slots => fs'[c[1]] = fs[c[1]]
      BY <1>2, <2>2 DEF Places
    <3> QED
      BY <1>1, <3>1 DEF JobInv, CreatedInv
  <2>10. JobInv(j)'
    BY <1>3, <2>5, <2>6, <2>7, <2>8, <2>9 DEF JobInv, Shape
  <2> QED
    BY <2>4, <2>10 DEF Keeps
<1> QED
  BY <1>4, <1>5 DEF Rename

\* Where the job is copying to.
LEMMA CopyPlace ==
  ASSUME NEW j \in Jobs, Ready(j), pc[j] \in AtCopy
  PROVE  LET s == rt[j].src  d == rt[j].into  t == rt[j].target IN
         /\ s \in Inputs /\ s \in Places /\ s \notin Temps
         /\ s \in Sources[j] /\ s \notin rt[j].left
         /\ t \in Slots /\ t \in Places /\ t \notin Temps /\ t \in rt[j].held
         /\ d \in Places /\ d \in {t, Staging(j)} /\ d \in rt[j].held \cup Stagings(j)
         /\ d \notin Inputs \ Slots /\ d \notin Backups(j)
         /\ Moves(j) => s \notin Slots /\ s # d /\ s # t
         /\ Staging(j) # t /\ Staging(j) \notin Slots /\ Backup(j) \notin Slots
         /\ Staging(j) \notin Inputs /\ Backup(j) \notin Inputs
         /\ Staging(j) \in Places /\ Backup(j) \in Places /\ Backup(j) # Staging(j)
         /\ Staging(j) \in Stagings(j) /\ Backup(j) \in Backups(j)
         /\ \A x \in rt[j].left : BackupOf(j, x) \in Places /\ BackupOf(j, x) # Backup(j)
                                  /\ BackupOf(j, x) # Staging(j) /\ BackupOf(j, x) # t
                                  /\ BackupOf(j, x) \in Backups(j)
         /\ d = Staging(j) => job[j].policy = "Replace"
<1> USE DEF Ready
<1> DEFINE s == rt[j].src
           d == rt[j].into
           t == rt[j].target
<1>1. pc[j] \in AtSource /\ pc[j] \in AtTarget
  BY DEF AtCopy, AtTarget
<1>2. s \in Inputs /\ t \in Slots
  BY <1>1, Facts
<1>3. s \in Sources[j] /\ s \notin rt[j].left
  BY <1>1 DEF JobInv, Shape, SourceShape
<1>4. t \in rt[j].held /\ d \in {t, Staging(j)} /\ (d = Staging(j) => job[j].policy = "Replace")
  BY DEF JobInv, Shape, RouteShape, Staged
<1>5. s \in Places /\ s \notin Temps /\ t \in Places /\ t \notin Temps
  BY <1>2, SlotsTemps, TransferAssumption DEF Places
<1>6. /\ Staging(j) \in Temps /\ Backup(j) \in Temps /\ Staging(j) \in Places
      /\ Backup(j) \in Places /\ Staging(j) \in Stagings(j) /\ Backup(j) \in Backups(j)
      /\ Staging(j) # Backup(j) /\ Staging(j) \notin Backups(j)
      /\ (Moves(j) => s \notin Slots) /\ Inputs \cap Temps = {} /\ Slots \cap Temps = {}
      /\ Backup(j) = BackupOf(j, s) /\ Staging(j) = StagingOf(j, s) /\ Backups(j) \subseteq Temps
  BY <1>1, <1>2, OwnPlaces DEF JobInv, Shape
<1>7. \A x \in rt[j].left : /\ BackupOf(j, x) \in Places /\ BackupOf(j, x) # Backup(j)
                            /\ BackupOf(j, x) # Staging(j) /\ BackupOf(j, x) # t
                            /\ BackupOf(j, x) \in Backups(j)
  <2> SUFFICES ASSUME NEW x \in rt[j].left
               PROVE  /\ BackupOf(j, x) \in Places /\ BackupOf(j, x) # Backup(j)
                      /\ BackupOf(j, x) # Staging(j) /\ BackupOf(j, x) # t
                      /\ BackupOf(j, x) \in Backups(j)
    OBVIOUS
  <2>1. x \in Inputs /\ x # s
    BY <1>3, Facts DEF Runtime
  <2>2. BackupOf(j, x) \in Temps /\ BackupOf(j, x) # BackupOf(j, s)
        /\ BackupOf(j, x) # StagingOf(j, s)
    BY <2>1, Siblings
  <2>3. BackupOf(j, x) \in Backups(j)
    BY <2>1 DEF Backups
  <2> QED
    BY <1>5, <1>6, <2>2, <2>3 DEF Places
<1>8. d \in Places /\ d \in rt[j].held \cup Stagings(j) /\ d \notin Inputs \ Slots
      /\ d \notin Backups(j) /\ (Moves(j) => s # d /\ s # t)
  BY <1>2, <1>4, <1>5, <1>6
<1> QED
  BY <1>2, <1>3, <1>4, <1>5, <1>6, <1>7, <1>8

\* A step that only writes to the copy.
LEMMA PutKeeps ==
  ASSUME NEW j \in Jobs, Ready(j), UNCHANGED envVars, pc[j] \in AtCopy,
         \A r \in Places \ {rt[j].into} : fs'[r] = fs[r],
         WellFormed(fs'[rt[j].into]),
         strangers = 0 => \A n \in Nodes : fs'[rt[j].into][n] # None =>
                            fs'[rt[j].into][n].of # Stranger,
         \A n \in Nodes : Solid(fs[rt[j].into][n]) =>
           Solid(fs'[rt[j].into][n]) /\ From(fs'[rt[j].into][n], fs[rt[j].into][n])
  PROVE  /\ FilesInv' /\ Frame(j) /\ UsersKept
         /\ \A x \in rt[j].left : fs'[BackupOf(j, x)] = fs[BackupOf(j, x)]
         /\ fs'[Backup(j)] = fs[Backup(j)]
         /\ Moves(j) => fs'[rt[j].src] = fs[rt[j].src]
         /\ \A c \in rt[j].created : c[1] \in Slots /\ c[1] # rt[j].into => fs'[c[1]] = fs[c[1]]
<1> USE DEF Ready
<1> DEFINE d == rt[j].into
<1>1. /\ d \in Places /\ d \notin Inputs \ Slots /\ d \in rt[j].held \cup Stagings(j)
      /\ d \notin Backups(j) /\ Backup(j) \in Backups(j) /\ Backup(j) \in Places
      /\ \A x \in rt[j].left : BackupOf(j, x) \in Backups(j) /\ BackupOf(j, x) \in Places
      /\ rt[j].src \in Places /\ (Moves(j) => rt[j].src # d)
  BY CopyPlace
<1>2. FilesInv'
  BY <1>1, PutFiles, Facts DEF envVars
<1>3. Frame(j)
  BY <1>1 DEF Frame
<1>4. UsersKept
  BY <1>1, KeepsNodes
<1>5. \A c \in rt[j].created : c[1] \in Slots /\ c[1] # d => fs'[c[1]] = fs[c[1]]
  BY DEF Places
<1> QED
  BY <1>1, <1>2, <1>3, <1>4, <1>5

LEMMA CopyFolderKeeps == ASSUME NEW j \in Jobs, Ready(j), CopyFolder(j) PROVE Keeps(j)
<1> USE DEF Ready
<1> DEFINE s == rt[j].src
           d == rt[j].into
           v == [fs[s][Root] EXCEPT !.safe = FALSE]
           kids == KidsAt(s)
           made == rt[j].created \cup {<<d, Root>>}
           copied == rt[j].copied \cup Snapshots(j, Root)
<1>1. /\ pc[j] = "copy" /\ Root \in rt[j].todo /\ Exists(s) /\ fs[s][Root].dir /\ ~Exists(d)
      /\ fs' = [fs EXCEPT ![d] = [Absent EXCEPT ![Root] = v]]
      /\ UNCHANGED envVars /\ job' = job /\ edits' = edits
      /\ rt'[j] = [rt[j] EXCEPT !.todo = kids, !.created = made, !.copied = copied]
      /\ pc'[j] = AfterNode(j, kids)
  BY Moved DEF CopyFolder, envVars
<1>2. pc[j] \in AtCopy
  BY <1>1 DEF AtCopy, AtTarget, AtSource
<1>3. /\ s \in Inputs /\ s \in Places /\ d \in Places /\ s # d
      /\ s \in Sources[j] /\ s \notin rt[j].left
      /\ d \in {rt[j].target, Staging(j)} /\ rt[j].target \in rt[j].held
      /\ d \in rt[j].held \cup Stagings(j) /\ (Moves(j) => s \notin Slots)
      /\ Staging(j) # rt[j].target
  BY <1>1, <1>2, CopyPlace
<1>4. /\ rt'[j].left = rt[j].left /\ rt'[j].copied = copied /\ rt'[j].into = d
      /\ rt'[j].src = s /\ rt'[j].created = made /\ rt'[j].held = rt[j].held
      /\ rt'[j].target = rt[j].target /\ rt'[j].todo = kids
  <2> HIDE DEF s, d, v, kids, made, copied
  <2> QED
    BY <1>1, Facts DEF Runtime, d, s
<1>5. fs[s] \in Tree /\ fs[s][Root] \in Node /\ v \in Node
      /\ v.dir = TRUE /\ v.of = fs[s][Root].of /\ v.ver = fs[s][Root].ver /\ v.part = Nobody /\ v.safe = FALSE
  <2>1. fs[s] \in Tree /\ fs[s][Root] \in Node
    BY <1>1, <1>3, Facts, RootNode DEF Tree, Exists
  <2>2. fs[s][Root].part = Nobody /\ fs[s][Root].dir = TRUE
    BY <1>1, <1>3, <2>1, RootNode DEF FilesInv, WellFormed, Exists, Node
  <2> QED
    BY <2>1, <2>2 DEF Node
<1>6. None \notin Node
  BY TransferAssumption
<1> HIDE DEF v
<1>7. /\ fs'[d][Root] = v /\ \A n \in Nodes \ {Root} : fs'[d][n] = None
      /\ \A r \in Places \ {d} : fs'[r] = fs[r]
  BY <1>1, <1>3, Facts, RootNode DEF Absent
<1>8. \A n \in Nodes : fs[d][n] = None
  BY <1>1, <1>3, NothingThere, Facts
<1>9. WellFormed(fs'[d])
  BY <1>5, <1>7, RootNode DEF WellFormed
<1>10. strangers = 0 => \A n \in Nodes : fs'[d][n] # None => fs'[d][n].of # Stranger
  BY <1>1, <1>3, <1>5, <1>7, RootNode DEF FilesInv, Exists
<1>11. \A n \in Nodes : ~Solid(fs[d][n])
  BY <1>8 DEF Solid
<1>12. /\ FilesInv' /\ Frame(j) /\ UsersKept
       /\ \A x \in rt[j].left : fs'[BackupOf(j, x)] = fs[BackupOf(j, x)]
       /\ fs'[Backup(j)] = fs[Backup(j)]
       /\ \A c \in rt[j].created : c[1] \in Slots /\ c[1] # d => fs'[c[1]] = fs[c[1]]
  BY <1>1, <1>2, <1>7, <1>9, <1>10, <1>11, PutKeeps
<1>13. /\ pc'[j] \in {"copy", "sync", "complete"} /\ (pc'[j] = "copy" <=> kids # {})
       /\ pc'[j] = "sync" => Moves(j) \/ Staged(j)
       /\ pc'[j] = "complete" => ~Moves(j) /\ ~Staged(j)
       /\ Root \notin kids /\ kids \subseteq Nodes
  BY <1>1, RootNode DEF AfterNode, Copied, Moves, KidsAt
<1> HIDE DEF kids
<1>14. /\ \A y \in rt[j].copied : y.place # s /\ y.place \notin rt[j].left
       /\ \A y \in Snapshots(j, Root) : y.place = s /\ y.node = Root /\ y.was = fs[s][Root]
  BY <1>1 DEF JobInv, Shape, SourceShape, Fresh, Snapshots
<1> HIDE DEF made, copied
<1>15. SourceShape(j)'
  BY <1>1, <1>3, <1>4, <1>13, <1>14 DEF JobInv, Shape, SourceShape, Fresh, copied
<1>16. RouteShape(j)'
  <2>1. (Staged(j) <=> d = Staging(j)) /\ (Staged(j)' <=> Staged(j)) /\ Staging(j)' = Staging(j)
    BY <1>4 DEF Staged, Staging
  <2>2. Staged(j) => job[j].policy = "Replace"
    BY <1>2 DEF JobInv, Shape, RouteShape
  <2> QED
    BY <1>1, <1>3, <1>4, <1>13, <2>1, <2>2 DEF RouteShape, Moves
<1>17. TodoShape(j)'
  BY <1>4, <1>13 DEF TodoShape
<1>18. CreatedShape(j)'
  <2>1. \A c \in made : c[1] \in rt[j].held \cup Stagings(j)
    BY <1>1, <1>3 DEF JobInv, Shape, CreatedShape, made
  <2>2. ~Fresh(j)' /\ (Staged(j)' => d = Staging(j))
    BY <1>4, <1>13 DEF Fresh, Staged, Staging
  <2>3. \A c \in rt[j].created : c[1] # rt[j].target
    BY <1>1 DEF JobInv, Shape, CreatedShape, Fresh
  <2>4. Staged(j)' => \A c \in made : c[1] # rt[j].target
    BY <1>3, <2>2, <2>3 DEF made
  <2> QED
    BY <1>4, <1>13, <2>1, <2>2, <2>4 DEF CreatedShape, Stagings
<1>19. CopyInv(j)'
  <2>1. CopyAt(j)' = d
    BY <1>4, <1>13 DEF CopyAt
  <2>2. PICK e \in Places : e = d
    BY <1>3
  <2>3. Settled(j, e)'
    BY <1>5, <1>6, <1>7, <1>13, <2>2, RootNode DEF Settled, Exists
  <2>4. Opened(j, e)'
    BY <1>13 DEF Opened, Open
  <2>5. Traced(j, e)'
    <3> SUFFICES ASSUME Moves(j)
                 PROVE  /\ \A y \in copied : y.place = s =>
                             fs'[e][y.node] # None /\ From(fs'[e][y.node], y.was)
                        /\ fs'[s][Root] # None => fs'[e][Root].dir = fs'[s][Root].dir
      BY <1>1, <1>4, <1>13 DEF Traced, Moves, Exists, Open
    <3>1. From(v, fs[s][Root])
      BY <1>5
    <3>2. fs'[s] = fs[s]
      BY <1>3, <1>7
    <3>3. fs[s][Root].dir = TRUE
      BY <1>1, <1>5 DEF Node
    <3> QED
      BY <1>5, <1>6, <1>7, <1>14, <2>2, <3>1, <3>2, <3>3 DEF copied
  <2>6. Covered(j, e)'
    <3> SUFFICES ASSUME NEW n \in Nodes, fs'[s][n] # None
                 PROVE  fs'[e][n] # None \/ (pc'[j] \in {"copy", "write"} /\ n \in kids)
      BY <1>4 DEF Covered
    <3>1. n = Root \/ n \in kids
      BY <1>3, <1>7 DEF KidsAt, Nodes, kids
    <3> QED
      BY <1>5, <1>6, <1>7, <1>13, <2>2, <3>1
  <2> QED
    BY <2>1, <2>2, <2>3, <2>4, <2>5, <2>6 DEF CopyInv, Copies
<1>20. RoomInv(j)'
  BY <1>13 DEF RoomInv
<1>21. BackupInv(j)'
  <2>1. BackupInv(j) /\ fs[Backup(j)] = Absent
    BY <1>1 DEF JobInv, BackupInv, BeforeBackup
  <2>2. Absent' = Absent /\ Backup(j)' = Backup(j)
    BY <1>4 DEF Absent, Backup
  <2> HIDE DEF s, d, made, copied
  <2> QED
    BY <1>4, <1>12, <2>1, <2>2 DEF BackupInv
<1>22. CreatedInv(j)'
  <2> SUFFICES ASSUME NEW c \in made, c[1] \in Slots
               PROVE  fs'[c[1]][c[2]] # None /\ (fs'[c[1]][c[2]].dir \/ ~fs'[c[1]][c[2]].safe)
    BY <1>4 DEF CreatedInv
  <2>1. CASE c = <<d, Root>>
    BY <1>5, <1>6, <1>7, <2>1
  <2>2. CASE c \in rt[j].created
    <3>1. c[2] \in Nodes /\ fs[c[1]][c[2]] # None
          /\ (fs[c[1]][c[2]].dir \/ ~fs[c[1]][c[2]].safe)
      BY <1>1, <2>2, Facts DEF JobInv, CreatedInv, Runtime
    <3>2. c[1] # d
      BY <1>8, <3>1
    <3> QED
      BY <1>12, <2>2, <3>1, <3>2
  <2> QED
    BY <2>1, <2>2 DEF made
<1>23. JobInv(j)'
  BY <1>15, <1>16, <1>17, <1>18, <1>19, <1>20, <1>21, <1>22 DEF JobInv, Shape
<1> QED
  BY <1>12, <1>23 DEF Keeps

LEMMA CreateFileKeeps == ASSUME NEW j \in Jobs, Ready(j), CreateFile(j) PROVE Keeps(j)
<1> USE DEF Ready
<1> DEFINE s == rt[j].src
           d == rt[j].into
<1>1. PICK n \in rt[j].todo :
        /\ fs[s][n] # None /\ ~fs[s][n].dir /\ fs[d][n] = None
        /\ n \in Kids => (Exists(d) /\ fs[d][Root].dir)
        /\ fs' = [fs EXCEPT ![d][n] = [fs[s][n] EXCEPT !.part = j, !.safe = FALSE]]
        /\ Update(j, [rt[j] EXCEPT !.node = n, !.snap = fs[s][n],
                                   !.created = @ \cup {<<d, n>>}])
  BY DEF CreateFile
<1> DEFINE v == [fs[s][n] EXCEPT !.part = j, !.safe = FALSE]
           made == rt[j].created \cup {<<d, n>>}
<1>2. /\ pc[j] = "copy" /\ pc'[j] = "write" /\ UNCHANGED envVars /\ job' = job /\ edits' = edits
      /\ rt'[j] = [rt[j] EXCEPT !.node = n, !.snap = fs[s][n], !.created = made]
  BY <1>1, Moved DEF CreateFile, envVars
<1>3. pc[j] \in AtCopy
  BY <1>2 DEF AtCopy, AtTarget, AtSource
<1>4. /\ s \in Inputs /\ s \in Places /\ d \in Places /\ s # d
      /\ s \in Sources[j] /\ s \notin rt[j].left
      /\ d \in {rt[j].target, Staging(j)} /\ rt[j].target \in rt[j].held
      /\ d \in rt[j].held \cup Stagings(j) /\ (Moves(j) => s \notin Slots)
      /\ Staging(j) # rt[j].target
  BY <1>1, <1>3, CopyPlace
<1>5. /\ rt'[j].left = rt[j].left /\ rt'[j].copied = rt[j].copied /\ rt'[j].into = d
      /\ rt'[j].src = s /\ rt'[j].created = made /\ rt'[j].held = rt[j].held
      /\ rt'[j].target = rt[j].target /\ rt'[j].todo = rt[j].todo /\ rt'[j].node = n
      /\ rt'[j].snap = fs[s][n]
  <2> HIDE DEF s, d, v, made
  <2> QED
    BY <1>2, Facts DEF Runtime, d, s
<1>6. n \in Nodes
  BY Facts DEF Runtime
<1>7. fs[s] \in Tree /\ fs[s][n] \in Node /\ v \in Node
      /\ v.dir = FALSE /\ v.of = fs[s][n].of /\ v.ver = fs[s][n].ver /\ v.part = j /\ v.safe = FALSE
  <2>1. fs[s] \in Tree /\ fs[s][n] \in Node
    BY <1>1, <1>4, <1>6, Facts DEF Tree
  <2>2. fs[s][n].dir = FALSE
    BY <1>1, <2>1 DEF Node
  <2> QED
    BY <2>1, <2>2 DEF Node
<1>8. None \notin Node /\ Nobody # j
  BY TransferAssumption
<1>9. fs' = [fs EXCEPT ![d][n] = v]
  BY <1>1
<1> HIDE DEF v
<1>10. /\ fs'[d][n] = v /\ \A m \in Nodes \ {n} : fs'[d][m] = fs[d][m]
       /\ \A r \in Places \ {d} : fs'[r] = fs[r]
  BY <1>4, <1>6, <1>9, NodeAt, Facts
<1>11. WellFormed(fs[d]) /\ (n = Root => \A m \in Nodes : fs[d][m] = None)
  BY <1>1, <1>4, NothingThere, Facts DEF FilesInv, Exists
<1>12. WellFormed(fs'[d])
  <2>1. CASE n = Root
    <3>1. \A m \in Nodes \ {Root} : fs'[d][m] = None
      BY <1>10, <1>11, <2>1
    <3> QED
      BY <1>7, <1>10, <2>1, <3>1, RootNode DEF WellFormed
  <2>2. CASE n \in Kids
    <3>1. /\ fs'[d][Root] = fs[d][Root] /\ fs[d][Root] # None /\ fs[d][Root].dir
          /\ \A m \in Nodes \ {n} : fs'[d][m] = fs[d][m]
      BY <1>1, <1>10, <2>2, RootNode DEF Exists
    <3>2. fs'[d][n].dir = FALSE
      BY <1>7, <1>10
    <3> QED
      BY <1>11, <3>1, <3>2, RootNode DEF WellFormed
  <2> QED
    BY <1>6, <2>1, <2>2 DEF Nodes
<1>13. strangers = 0 => \A m \in Nodes : fs'[d][m] # None => fs'[d][m].of # Stranger
  BY <1>1, <1>4, <1>6, <1>7, <1>10 DEF FilesInv
<1>14. \A m \in Nodes : Solid(fs[d][m]) => fs'[d][m] = fs[d][m]
  BY <1>1, <1>10 DEF Solid
<1>15. /\ FilesInv' /\ Frame(j) /\ UsersKept
       /\ \A x \in rt[j].left : fs'[BackupOf(j, x)] = fs[BackupOf(j, x)]
       /\ fs'[Backup(j)] = fs[Backup(j)]
       /\ \A c \in rt[j].created : c[1] \in Slots /\ c[1] # d => fs'[c[1]] = fs[c[1]]
  BY <1>2, <1>3, <1>10, <1>12, <1>13, <1>14, PutKeeps
<1> HIDE DEF made
<1>16. SourceShape(j)'
  BY <1>2, <1>4, <1>5 DEF JobInv, Shape, SourceShape, Fresh
<1>17. RouteShape(j)'
  <2>1. (Staged(j)' <=> Staged(j)) /\ Staging(j)' = Staging(j)
    BY <1>5 DEF Staged, Staging
  <2>2. Staged(j) => job[j].policy = "Replace"
    BY <1>3 DEF JobInv, Shape, RouteShape
  <2> QED
    BY <1>2, <1>4, <1>5, <2>1, <2>2 DEF RouteShape
<1>18. TodoShape(j)'
  BY <1>2, <1>5 DEF JobInv, Shape, TodoShape
<1>19. CreatedShape(j)'
  <2>1. \A c \in made : c[1] \in rt[j].held \cup Stagings(j)
    BY <1>2, <1>4 DEF JobInv, Shape, CreatedShape, made
  <2>2. ~Fresh(j)' /\ (Staged(j)' => Staged(j)) /\ (Staged(j) => d = Staging(j))
    BY <1>2, <1>5 DEF Fresh, Staged, Staging
  <2>3. Staged(j) => \A c \in rt[j].created : c[1] # rt[j].target
    BY <1>3 DEF JobInv, Shape, CreatedShape
  <2>4. Staged(j)' => \A c \in made : c[1] # rt[j].target
    BY <1>4, <2>2, <2>3 DEF made
  <2> QED
    BY <1>2, <1>5, <2>1, <2>2, <2>4 DEF CreatedShape, Stagings
<1>20. CopyInv(j)'
  <2>1. CopyAt(j)' = d
    BY <1>2, <1>5 DEF CopyAt
  <2>2. PICK e \in Places : e = d
    BY <1>4
  <2>3. \A m : Open(j, m)' <=> m = n
    BY <1>2, <1>5 DEF Open
  <2>6. From(v, rt'[j].snap)
    BY <1>5, <1>7
  <2>7. Opened(j, e)'
    <3>1. fs'[e][n] # None /\ fs'[e][n].part = j /\ ~fs'[e][n].dir /\ fs'[e][n] = v
      BY <1>7, <1>8, <1>10, <2>2
    <3>2. Moves(j)' <=> Moves(j)
      BY <1>2 DEF Moves
    <3> HIDE DEF s, d
    <3> QED
      BY <1>5, <2>3, <2>6, <3>1, <3>2 DEF Opened
  <2>4. CASE Root \in rt[j].todo
    <3>1. n = Root
      BY <1>2, <2>4 DEF JobInv, Shape, TodoShape
    <3>2. Settled(j, e)'
      BY <1>2, <1>7, <1>8, <1>10, <1>11, <2>2, <2>3, <3>1 DEF Settled, Exists
    <3>4. Traced(j, e)'
      <4>1. \A y \in rt[j].copied : y.place # s
        BY <1>2, <2>4 DEF JobInv, Shape, SourceShape, Fresh
      <4>2. fs'[s] = fs[s] /\ fs[s][Root].dir = FALSE /\ fs'[e][Root].dir = FALSE
        BY <1>1, <1>4, <1>7, <1>10, <2>2, <3>1 DEF Node
      <4> QED
        BY <1>5, <4>1, <4>2 DEF Traced
    <3>5. Covered(j, e)'
      <4> SUFFICES ASSUME NEW m \in Nodes, fs'[s][m] # None
                   PROVE  fs'[e][m] # None
        BY <1>5 DEF Covered
      <4>1. fs[s][m] # None /\ WellFormed(fs[s])
        BY <1>4, <1>10 DEF FilesInv
      <4>2. m = Root
        BY <1>1, <3>1, <4>1 DEF WellFormed, Nodes
      <4> QED
        BY <1>7, <1>8, <1>10, <2>2, <3>1, <4>2
    <3> QED
      BY <2>1, <2>2, <2>7, <3>2, <3>4, <3>5 DEF CopyInv, Copies
  <2>5. CASE Root \notin rt[j].todo
    <3>1. n # Root /\ n \in Kids
      BY <1>6, <2>5 DEF Nodes
    <3>2. Copies(j, e)
      <4>1. HasCopy(j) /\ CopyAt(j) = d
        BY <1>2, <2>5 DEF HasCopy, CopyAt
      <4> QED
        BY <2>2, <4>1 DEF JobInv, CopyInv
    <3>3. Settled(j, e)'
      BY <1>2, <1>7, <1>8, <1>10, <2>2, <2>3, <3>1, <3>2, RootNode
         DEF Copies, Settled, Exists, Open
    <3>5. Traced(j, e)'
      <4> SUFFICES ASSUME Moves(j)
                   PROVE  /\ \A y \in rt[j].copied : y.place = s =>
                               /\ fs'[e][y.node] # None /\ From(fs'[e][y.node], y.was)
                               /\ y.node # n
                          /\ fs'[s][Root] # None => fs'[e][Root].dir = fs'[s][Root].dir
        BY <1>2, <1>5, <2>3 DEF Traced, Moves, Exists
      <4>1. \A y \in rt[j].copied : y.node \in Nodes
        BY Facts DEF Runtime, Snapshot
      <4>2. \A y \in rt[j].copied : y.place = s =>
              fs[d][y.node] # None /\ From(fs[d][y.node], y.was)
        BY <1>2, <2>2, <3>2 DEF Copies, Traced
      <4>3. fs[s][Root] # None => fs[d][Root].dir = fs[s][Root].dir
        BY <1>2, <2>2, <3>2 DEF Copies, Traced, Exists
      <4>4. \A y \in rt[j].copied : y.place = s => y.node # n
        BY <1>1, <4>2
      <4>5. fs'[s] = fs[s] /\ fs'[d][Root] = fs[d][Root]
        BY <1>4, <1>10, <3>1, RootNode
      <4> QED
        BY <1>10, <2>2, <4>1, <4>2, <4>3, <4>4, <4>5
    <3>6. Covered(j, e)'
      <4> SUFFICES ASSUME edits = 0, Inputs \cap Slots = {}, NEW m \in Nodes, fs'[s][m] # None
                   PROVE  fs'[e][m] # None \/ m \in rt[j].todo
        BY <1>2, <1>5 DEF Covered
      <4>1. fs[e][m] # None \/ m \in rt[j].todo
        BY <1>2, <1>4, <1>10, <3>2 DEF Copies, Covered
      <4> QED
        BY <1>1, <1>10, <2>2, <4>1
    <3> QED
      BY <2>1, <2>2, <2>7, <3>3, <3>5, <3>6 DEF CopyInv, Copies
  <2> QED
    BY <2>4, <2>5
<1>21. RoomInv(j)'
  BY <1>2 DEF RoomInv
<1>22. BackupInv(j)'
  BY <1>2, <1>5, <1>15 DEF JobInv, BackupInv, Absent, Backup, BeforeBackup
<1>23. CreatedInv(j)'
  <2> SUFFICES ASSUME NEW c \in made, c[1] \in Slots
               PROVE  fs'[c[1]][c[2]] # None /\ (fs'[c[1]][c[2]].dir \/ ~fs'[c[1]][c[2]].safe)
    BY <1>5 DEF CreatedInv
  <2>1. CASE c = <<d, n>>
    BY <1>7, <1>8, <1>10, <2>1
  <2>2. CASE c \in rt[j].created
    <3>1. c[2] \in Nodes /\ fs[c[1]][c[2]] # None
          /\ (fs[c[1]][c[2]].dir \/ ~fs[c[1]][c[2]].safe)
      BY <1>2, <2>2, Facts DEF JobInv, CreatedInv, Runtime
    <3>2. c[1] = d => c[2] # n
      BY <1>1, <3>1
    <3> QED
      BY <1>10, <1>15, <2>2, <3>1, <3>2
  <2> QED
    BY <2>1, <2>2 DEF made
<1>24. JobInv(j)'
  BY <1>16, <1>17, <1>18, <1>19, <1>20, <1>21, <1>22, <1>23 DEF JobInv, Shape
<1> QED
  BY <1>15, <1>24 DEF Keeps

LEMMA WriteFileKeeps == ASSUME NEW j \in Jobs, Ready(j), WriteFile(j) PROVE Keeps(j)
<1> USE DEF Ready
<1> DEFINE s == rt[j].src
           d == rt[j].into
           n == rt[j].node
           rest == rt[j].todo \ {n}
           copied == rt[j].copied \cup Snapshots(j, n)
           v == [fs[d][n] EXCEPT !.part = Nobody]
<1>1. /\ pc[j] = "write" /\ pc'[j] = AfterNode(j, rest) /\ UNCHANGED envVars
      /\ job' = job /\ edits' = edits
      /\ fs[s][n] = rt[j].snap
      /\ fs' = IF StillOpen(j, d, n) THEN [fs EXCEPT ![d][n].part = Nobody] ELSE fs
      /\ rt'[j] = [rt[j] EXCEPT !.todo = rest, !.node = None, !.snap = None, !.copied = copied]
  BY Moved DEF WriteFile, envVars
<1>2. pc[j] \in AtCopy
  BY <1>1 DEF AtCopy, AtTarget, AtSource
<1>3. /\ s \in Inputs /\ s \in Places /\ d \in Places
      /\ s \in Sources[j] /\ s \notin rt[j].left
      /\ d \in {rt[j].target, Staging(j)} /\ rt[j].target \in rt[j].held
      /\ d \in rt[j].held \cup Stagings(j) /\ (Moves(j) => s \notin Slots /\ s # d)
      /\ (Inputs \cap Slots = {} => s # d)
      /\ Staging(j) # rt[j].target
  BY <1>2, CopyPlace
<1>4. /\ rt'[j].left = rt[j].left /\ rt'[j].copied = copied /\ rt'[j].into = d
      /\ rt'[j].src = s /\ rt'[j].created = rt[j].created /\ rt'[j].held = rt[j].held
      /\ rt'[j].target = rt[j].target /\ rt'[j].todo = rest
  <2> HIDE DEF s, n, rest, copied
  <2> QED
    BY <1>1, Facts DEF Runtime, s
<1>5. n \in Nodes /\ n \in rt[j].todo /\ (Root \in rest => FALSE)
  BY <1>1, Facts DEF JobInv, Shape, TodoShape
<1>6. PICK e \in Places : e = d
  BY <1>3
<1>7. Copies(j, e)
  <2>1. HasCopy(j) /\ CopyAt(j) = d
    BY <1>1 DEF HasCopy, CopyAt
  <2> QED
    BY <1>6, <2>1 DEF JobInv, CopyInv
<1>8. Open(j, n) /\ \A m : m # n => ~Open(j, m)
  BY <1>1 DEF Open
<1>9. /\ fs[d][n] # None /\ fs[d][n].part = j /\ ~fs[d][n].dir
      /\ Moves(j) => From(fs[d][n], fs[s][n])
  BY <1>1, <1>5, <1>6, <1>7, <1>8 DEF Copies, Opened
<1>10. fs' = [fs EXCEPT ![d][n] = v]
  BY <1>1, <1>9 DEF StillOpen
<1>11. fs[d][n] \in Node /\ v \in Node /\ v.dir = fs[d][n].dir /\ v.of = fs[d][n].of
       /\ v.ver = fs[d][n].ver /\ v.part = Nobody /\ v.safe = fs[d][n].safe
  <2>1. fs[d] \in Tree /\ fs[d][n] \in Node
    BY <1>3, <1>5, <1>9, Facts DEF Tree
  <2> QED
    BY <2>1 DEF Node
<1>12. None \notin Node /\ Nobody # j
  BY TransferAssumption
<1> HIDE DEF v
<1>13. /\ fs'[d][n] = v /\ \A m \in Nodes \ {n} : fs'[d][m] = fs[d][m]
       /\ \A r \in Places \ {d} : fs'[r] = fs[r]
  BY <1>3, <1>5, <1>10, NodeAt, Facts
<1>14. \A m \in Nodes : /\ fs'[d][m] = None <=> fs[d][m] = None
                        /\ fs'[d][m].dir = fs[d][m].dir
                        /\ From(fs'[d][m], fs[d][m])
                        /\ fs'[d][m].safe = fs[d][m].safe
                        /\ m # n => fs'[d][m].part = fs[d][m].part
                        /\ m = n => fs'[d][m].part = Nobody
  <2> SUFFICES ASSUME NEW m \in Nodes
               PROVE  /\ fs'[d][m] = None <=> fs[d][m] = None
                      /\ fs'[d][m].dir = fs[d][m].dir
                      /\ From(fs'[d][m], fs[d][m])
                      /\ fs'[d][m].safe = fs[d][m].safe
                      /\ m # n => fs'[d][m].part = fs[d][m].part
                      /\ m = n => fs'[d][m].part = Nobody
    OBVIOUS
  <2>1. CASE m = n
    BY <1>9, <1>11, <1>12, <1>13, <2>1
  <2>2. CASE m # n
    BY <1>13, <2>2
  <2> QED
    BY <2>1, <2>2
<1>15. WellFormed(fs'[d])
  <2>1. WellFormed(fs[d])
    BY <1>3 DEF FilesInv
  <2> QED
    BY <1>14, <2>1, RootNode DEF WellFormed
<1>16. strangers = 0 => \A m \in Nodes : fs'[d][m] # None => fs'[d][m].of # Stranger
  BY <1>3, <1>14 DEF FilesInv
<1>17. \A m \in Nodes : Solid(fs[d][m]) => Solid(fs'[d][m]) /\ From(fs'[d][m], fs[d][m])
  BY <1>14 DEF Solid
<1>18. /\ FilesInv' /\ Frame(j) /\ UsersKept
       /\ \A x \in rt[j].left : fs'[BackupOf(j, x)] = fs[BackupOf(j, x)]
       /\ fs'[Backup(j)] = fs[Backup(j)]
       /\ \A c \in rt[j].created : c[1] \in Slots /\ c[1] # d => fs'[c[1]] = fs[c[1]]
  BY <1>1, <1>2, <1>13, <1>15, <1>16, <1>17, PutKeeps
<1>19. /\ pc'[j] \in {"copy", "sync", "complete"} /\ (pc'[j] = "copy" <=> rest # {})
       /\ pc'[j] = "sync" => Moves(j) \/ Staged(j)
       /\ pc'[j] = "complete" => ~Moves(j) /\ ~Staged(j)
  BY <1>1 DEF AfterNode, Copied, Moves
<1>20. \A y \in Snapshots(j, n) : y.place = s /\ y.node = n /\ y.was = fs[s][n]
  BY DEF Snapshots
<1> HIDE DEF rest, copied
<1>21. SourceShape(j)'
  <2>1. ~Fresh(j)'
    BY <1>4, <1>5 DEF Fresh
  <2>2. \A y \in copied : y.place \notin rt[j].left
    BY <1>3, <1>20 DEF copied, JobInv, Shape, SourceShape
  <2> QED
    BY <1>1, <1>3, <1>4, <1>19, <2>1, <2>2 DEF JobInv, Shape, SourceShape
<1>22. RouteShape(j)'
  <2>1. (Staged(j) <=> d = Staging(j)) /\ (Staged(j)' <=> Staged(j)) /\ Staging(j)' = Staging(j)
    BY <1>4 DEF Staged, Staging
  <2>2. Staged(j) => job[j].policy = "Replace"
    BY <1>2 DEF JobInv, Shape, RouteShape
  <2> QED
    BY <1>1, <1>3, <1>4, <1>19, <2>1, <2>2 DEF RouteShape, Moves
<1>23. TodoShape(j)'
  BY <1>4, <1>5, <1>19 DEF TodoShape
<1>24. CreatedShape(j)'
  <2>1. ~Fresh(j)' /\ (Staged(j)' => Staged(j))
    BY <1>4, <1>5 DEF Fresh, Staged, Staging
  <2>2. Staged(j) => \A c \in rt[j].created : c[1] # rt[j].target
    BY <1>2 DEF JobInv, Shape, CreatedShape
  <2> QED
    BY <1>1, <1>4, <1>19, <2>1, <2>2 DEF JobInv, Shape, CreatedShape, Stagings
<1>25. CopyInv(j)'
  <2>1. CopyAt(j)' = d
    BY <1>4, <1>19 DEF CopyAt
  <2>2. \A m : ~Open(j, m)'
    BY <1>19 DEF Open
  <2>3. Settled(j, e)'
    BY <1>6, <1>7, <1>8, <1>14, <1>19, <2>2, RootNode DEF Copies, Settled, Exists
  <2>4. Opened(j, e)'
    BY <2>2 DEF Opened
  <2>5. Traced(j, e)'
    <3> SUFFICES ASSUME Moves(j)
                 PROVE  /\ \A y \in copied : y.place = s =>
                             fs'[e][y.node] # None /\ From(fs'[e][y.node], y.was)
                        /\ fs'[s][Root] # None => fs'[e][Root].dir = fs'[s][Root].dir
      BY <1>1, <1>4, <2>2 DEF Traced, Moves, Exists
    <3>1. \A y \in rt[j].copied : y.node \in Nodes
      BY Facts DEF Runtime, Snapshot
    <3>2. \A y \in rt[j].copied : y.place = s =>
            fs[d][y.node] # None /\ From(fs[d][y.node], y.was)
      BY <1>1, <1>6, <1>7 DEF Copies, Traced
    <3>3. fs[s][Root] # None => fs[d][Root].dir = fs[s][Root].dir
      BY <1>1, <1>6, <1>7 DEF Copies, Traced, Exists
    <3>4. fs'[s] = fs[s]
      BY <1>3, <1>13
    <3>5. fs'[d][n] # None /\ From(fs'[d][n], fs[s][n])
      BY <1>5, <1>9, <1>14
    <3>6. ASSUME NEW y \in copied, y.place = s
          PROVE  fs'[e][y.node] # None /\ From(fs'[e][y.node], y.was)
      <4>1. CASE y \in rt[j].copied
        BY <1>6, <1>14, <3>1, <3>2, <3>6, <4>1
      <4>2. CASE y \in Snapshots(j, n)
        BY <1>6, <1>20, <3>5, <4>2
      <4> QED
        BY <4>1, <4>2 DEF copied
    <3>7. fs'[s][Root] # None => fs'[e][Root].dir = fs'[s][Root].dir
      BY <1>6, <1>14, <3>3, <3>4, RootNode
    <3> QED
      BY <3>6, <3>7
  <2>6. Covered(j, e)'
    <3> SUFFICES ASSUME edits = 0, Inputs \cap Slots = {}, NEW m \in Nodes, fs'[s][m] # None
                 PROVE  fs'[e][m] # None \/ (pc'[j] \in {"copy", "write"} /\ m \in rest)
      BY <1>1, <1>4 DEF Covered
    <3>1. fs[e][m] # None \/ m \in rt[j].todo
      BY <1>1, <1>3, <1>7, <1>13 DEF Copies, Covered
    <3>2. m = n \/ m \in rest \/ fs[e][m] # None
      BY <3>1 DEF rest
    <3> QED
      BY <1>5, <1>6, <1>9, <1>14, <1>19, <3>2
  <2> QED
    BY <1>6, <2>1, <2>3, <2>4, <2>5, <2>6 DEF CopyInv, Copies
<1>26. RoomInv(j)'
  BY <1>19 DEF RoomInv
<1>27. BackupInv(j)'
  BY <1>1, <1>4, <1>18 DEF JobInv, BackupInv, Absent, Backup, BeforeBackup
<1>28. CreatedInv(j)'
  <2> SUFFICES ASSUME NEW c \in rt[j].created, c[1] \in Slots
               PROVE  fs'[c[1]][c[2]] # None /\ (fs'[c[1]][c[2]].dir \/ ~fs'[c[1]][c[2]].safe)
    BY <1>4 DEF CreatedInv
  <2>1. c[2] \in Nodes /\ fs[c[1]][c[2]] # None
        /\ (fs[c[1]][c[2]].dir \/ ~fs[c[1]][c[2]].safe)
    BY <1>1, Facts DEF JobInv, CreatedInv, Runtime
  <2>2. CASE c[1] = d
    BY <1>14, <2>1, <2>2
  <2>3. CASE c[1] # d
    BY <1>18, <2>1, <2>3
  <2> QED
    BY <2>2, <2>3
<1>29. JobInv(j)'
  BY <1>21, <1>22, <1>23, <1>24, <1>25, <1>26, <1>27, <1>28 DEF JobInv, Shape
<1> QED
  BY <1>18, <1>29 DEF Keeps

\* From the committed copy on: what sync_copied_path and commit_staged_path leave.
LEMMA CommitInv ==
  ASSUME NEW j \in Jobs, Ready(j), pc[j] \in {"sync", "commit", "dropbackup"},
         pc[j] = "sync" => ~Staged(j),
         rt'[j] = Committed(j), pc'[j] = AfterCommit(j), UNCHANGED envVars,
         NEW d \in Places, d = CopyAt(j), NEW t \in Places, t = rt[j].target,
         \A n \in Nodes : /\ fs'[t][n] = None <=> fs[d][n] = None
                          /\ fs'[t][n].dir = fs[d][n].dir
                          /\ From(fs'[t][n], fs[d][n])
                          /\ fs'[t][n].part = fs[d][n].part
                          /\ fs[d][n] # None => fs'[t][n].safe,
         Moves(j) \/ Inputs \cap Slots = {} => fs'[rt[j].src] = fs[rt[j].src],
         \A x \in rt[j].left : fs'[BackupOf(j, x)] = fs[BackupOf(j, x)],
         \A c \in rt[j].created : c[1] \in Slots /\ c[1] # t => fs'[c[1]] = fs[c[1]]
  PROVE  JobInv(j)'
<1> USE DEF Ready
<1> DEFINE s == rt[j].src
<1>1. pc[j] \in AtCopy /\ job' = job /\ edits' = edits /\ HasCopy(j)
  BY DEF AtCopy, AtTarget, AtSource, envVars, HasCopy
<1>2. /\ s \in Inputs /\ s \in Places /\ s \in Sources[j] /\ s \notin rt[j].left
      /\ t \in rt[j].held /\ Staging(j) # t /\ (Moves(j) => s \notin Slots /\ s # t)
      /\ (Staged(j) => rt[j].into = Staging(j))
  BY <1>1, CopyPlace DEF Staged
<1>3. /\ rt'[j].left = rt[j].left /\ rt'[j].copied = rt[j].copied /\ rt'[j].into = t
      /\ rt'[j].src = s /\ rt'[j].held = rt[j].held /\ rt'[j].target = t
      /\ rt'[j].created \subseteq rt[j].created
      /\ Moves(j) => /\ rt'[j].todo = Removable(j)
                     /\ \A c \in rt'[j].created : c[1] # t
  <2>1. CASE Moves(j)
    <3>1. rt'[j] = [rt[j] EXCEPT !.created = Unprotected(j, t), !.todo = Removable(j), !.into = t]
      BY <2>1 DEF Committed, Moves
    <3> HIDE DEF s
    <3>2. /\ rt'[j].left = rt[j].left /\ rt'[j].copied = rt[j].copied /\ rt'[j].into = t
          /\ rt'[j].src = rt[j].src /\ rt'[j].held = rt[j].held /\ rt'[j].target = rt[j].target
          /\ rt'[j].created = Unprotected(j, t) /\ rt'[j].todo = Removable(j)
      BY <3>1, Facts DEF Runtime
    <3> QED
      BY <3>2 DEF Unprotected, s
  <2>2. CASE ~Moves(j)
    <3>1. rt'[j] = [rt[j] EXCEPT !.into = t]
      BY <2>2 DEF Committed, Moves
    <3> QED
      BY <2>2, <3>1, Facts DEF Runtime
  <2> QED
    BY <2>1, <2>2
<1>4. /\ pc'[j] \in {"verify", "complete"} /\ (pc'[j] = "verify" <=> Moves(j))
  BY DEF AfterCommit, Moves
<1>5. Copies(j, d) /\ \A n : ~Open(j, n)
  BY <1>1 DEF JobInv, CopyInv, Open
<1>6. SourceShape(j)'
  BY <1>1, <1>2, <1>3, <1>4 DEF JobInv, Shape, SourceShape, Fresh
<1>7. RouteShape(j)'
  <2>1. ~Staged(j)'
    BY <1>2, <1>3 DEF Staged, Staging
  <2> QED
    BY <1>1, <1>2, <1>3, <1>4, <2>1 DEF RouteShape, Moves
<1>8. TodoShape(j)'
  <2>1. Removable(j)' = Removable(j)
    BY <1>3 DEF Removable
  <2> QED
    BY <1>3, <1>4, <2>1 DEF TodoShape
<1>9. CreatedShape(j)'
  <2>1. ~Staged(j)' /\ ~Fresh(j)'
    BY <1>2, <1>3, <1>4 DEF Staged, Staging, Fresh
  <2> QED
    BY <1>1, <1>3, <1>4, <2>1 DEF JobInv, Shape, CreatedShape, Stagings
<1>10. CopyInv(j)'
  <2>1. CopyAt(j)' = t
    BY <1>3, <1>4 DEF CopyAt
  <2>2. \A n : ~Open(j, n)'
    BY <1>4 DEF Open
  <2>3. Settled(j, t)'
    BY <1>5, <2>2, RootNode DEF Copies, Settled, Exists
  <2>4. Opened(j, t)'
    BY <2>2 DEF Opened
  <2>5. Traced(j, t)'
    <3> SUFFICES ASSUME Moves(j)
                 PROVE  /\ \A y \in rt[j].copied : y.place = s =>
                             fs'[t][y.node] # None /\ From(fs'[t][y.node], y.was)
                        /\ fs'[s][Root] # None => fs'[t][Root].dir = fs'[s][Root].dir
      BY <1>1, <1>3, <2>2 DEF Traced, Moves, Exists
    <3>1. \A y \in rt[j].copied : y.node \in Nodes
      BY Facts DEF Runtime, Snapshot
    <3>2. /\ \A y \in rt[j].copied : y.place = s =>
               fs[d][y.node] # None /\ From(fs[d][y.node], y.was)
          /\ fs[s][Root] # None => fs[d][Root].dir = fs[s][Root].dir
      BY <1>5 DEF Copies, Traced, Exists
    <3>3. \A n \in Nodes : /\ fs'[t][n] = None <=> fs[d][n] = None
                           /\ From(fs'[t][n], fs[d][n])
                           /\ fs'[t][n].dir = fs[d][n].dir
      OBVIOUS
    <3>4. fs'[s] = fs[s]
      OBVIOUS
    <3>5. ASSUME NEW y \in rt[j].copied, y.place = s
          PROVE  fs'[t][y.node] # None /\ From(fs'[t][y.node], y.was)
      <4>1. y.node \in Nodes /\ fs[d][y.node] # None /\ From(fs[d][y.node], y.was)
        BY <3>1, <3>2, <3>5
      <4> HIDE DEF s
      <4> QED
        BY <3>3, <4>1
    <3>6. fs'[s][Root] # None => fs'[t][Root].dir = fs'[s][Root].dir
      BY <3>2, <3>3, <3>4, RootNode
    <3> QED
      BY <3>5, <3>6
  <2>6. Covered(j, t)'
    <3> SUFFICES ASSUME edits = 0, Inputs \cap Slots = {}, NEW m \in Nodes, fs'[s][m] # None
                 PROVE  fs'[t][m] # None
      BY <1>1, <1>3 DEF Covered
    <3> QED
      BY <1>5 DEF Copies, Covered
  <2> QED
    BY <2>1, <2>3, <2>4, <2>5, <2>6 DEF CopyInv, Copies
<1>11. RoomInv(j)'
  BY <1>4 DEF RoomInv
<1>12. BackupInv(j)'
  BY <1>3, <1>4 DEF JobInv, BackupInv, Absent, BeforeBackup
<1>13. CreatedInv(j)'
  <2> SUFFICES ASSUME NEW c \in rt'[j].created, c[1] \in Slots
               PROVE  fs'[c[1]][c[2]] # None /\ (fs'[c[1]][c[2]].dir \/ ~fs'[c[1]][c[2]].safe)
    BY DEF CreatedInv
  <2>1. c \in rt[j].created /\ fs[c[1]][c[2]] # None
        /\ (fs[c[1]][c[2]].dir \/ ~fs[c[1]][c[2]].safe)
    BY <1>3 DEF JobInv, CreatedInv
  <2>2. c[1] # t
    <3>1. CASE Moves(j)
      BY <1>3, <3>1
    <3>2. CASE Staged(j)
      BY <1>1, <2>1, <3>2 DEF JobInv, Shape, CreatedShape
    <3>3. Moves(j) \/ Staged(j)
      BY DEF JobInv, Shape, RouteShape
    <3> QED
      BY <3>1, <3>2, <3>3
  <2> QED
    BY <2>1, <2>2
<1>14. JobInv(j)'
  BY <1>6, <1>7, <1>8, <1>9, <1>10, <1>11, <1>12, <1>13 DEF JobInv, Shape
<1> QED
  BY <1>14

LEMMA SyncKeeps == ASSUME NEW j \in Jobs, Ready(j), Sync(j) PROVE Keeps(j)
<1> USE DEF Ready
<1> DEFINE s == rt[j].src
           d == rt[j].into
<1>1. /\ pc[j] = "sync" /\ UNCHANGED envVars /\ job' = job /\ edits' = edits
      /\ fs' = [fs EXCEPT ![d] = Synced(d)]
  BY DEF Sync, envVars
<1>2. pc[j] \in AtCopy
  BY <1>1 DEF AtCopy, AtTarget, AtSource
<1>3. /\ s \in Inputs /\ s \in Places /\ d \in Places
      /\ s \in Sources[j] /\ s \notin rt[j].left
      /\ d \in {rt[j].target, Staging(j)} /\ rt[j].target \in rt[j].held
      /\ (Moves(j) \/ Inputs \cap Slots = {} => s # d)
      /\ Staging(j) # rt[j].target /\ Staging(j) \notin Slots
      /\ rt[j].target \in Places
  BY <1>2, CopyPlace
<1>4. /\ fs'[d] = Synced(d) /\ \A r \in Places \ {d} : fs'[r] = fs[r]
  BY <1>1, <1>3, PutAt, Facts
<1>5. \A m \in Nodes : /\ fs'[d][m] = None <=> fs[d][m] = None
                       /\ fs[d][m] # None =>
                            /\ fs'[d][m].dir = fs[d][m].dir
                            /\ From(fs'[d][m], fs[d][m])
                            /\ fs'[d][m].part = fs[d][m].part
                            /\ fs'[d][m].safe
                       /\ fs[d][m] = None => fs'[d][m] = fs[d][m]
  <2> SUFFICES ASSUME NEW m \in Nodes
               PROVE  /\ fs'[d][m] = None <=> fs[d][m] = None
                      /\ fs[d][m] # None =>
                           /\ fs'[d][m].dir = fs[d][m].dir
                           /\ From(fs'[d][m], fs[d][m])
                           /\ fs'[d][m].part = fs[d][m].part
                           /\ fs'[d][m].safe
                      /\ fs[d][m] = None => fs'[d][m] = fs[d][m]
    OBVIOUS
  <2>1. fs'[d][m] = IF fs[d][m] = None THEN None ELSE [fs[d][m] EXCEPT !.safe = TRUE]
    BY <1>4 DEF Synced
  <2>2. CASE fs[d][m] = None
    BY <2>1, <2>2
  <2>3. CASE fs[d][m] # None
    <3>1. fs[d][m] \in Node /\ fs'[d][m] = [fs[d][m] EXCEPT !.safe = TRUE]
      BY <1>3, <2>1, <2>3, Facts DEF Tree
    <3>2. fs'[d][m] \in Node
      BY <3>1 DEF Node
    <3>3. fs'[d][m] # None
      BY <3>2, TransferAssumption
    <3> QED
      BY <2>3, <3>1, <3>3 DEF Node
  <2> QED
    BY <2>2, <2>3
<1>6. WellFormed(fs'[d])
  <2>1. WellFormed(fs[d])
    BY <1>3 DEF FilesInv
  <2> QED
    BY <1>5, <2>1, RootNode DEF WellFormed
<1>7. strangers = 0 => \A m \in Nodes : fs'[d][m] # None => fs'[d][m].of # Stranger
  BY <1>3, <1>5 DEF FilesInv
<1>8. \A m \in Nodes : Solid(fs[d][m]) => Solid(fs'[d][m]) /\ From(fs'[d][m], fs[d][m])
  BY <1>5 DEF Solid
<1>9. /\ FilesInv' /\ Frame(j) /\ UsersKept
      /\ \A x \in rt[j].left : fs'[BackupOf(j, x)] = fs[BackupOf(j, x)]
      /\ fs'[Backup(j)] = fs[Backup(j)]
      /\ \A c \in rt[j].created : c[1] \in Slots /\ c[1] # d => fs'[c[1]] = fs[c[1]]
  BY <1>1, <1>2, <1>4, <1>6, <1>7, <1>8, PutKeeps
<1>10. CASE ~Staged(j)
  <2>1. rt'[j] = Committed(j) /\ pc'[j] = AfterCommit(j)
    BY <1>10, Moved DEF Sync
  <2>2. d = rt[j].target
    BY <1>3, <1>10 DEF Staged
  <2>3. CopyAt(j) = d
    BY <1>1 DEF CopyAt
  <2>4. Moves(j) \/ Inputs \cap Slots = {} => fs'[s] = fs[s]
    BY <1>3, <1>4
  <2>5. \A n \in Nodes : /\ fs'[d][n] = None <=> fs[d][n] = None
                         /\ fs'[d][n].dir = fs[d][n].dir
                         /\ From(fs'[d][n], fs[d][n])
                         /\ fs'[d][n].part = fs[d][n].part
                         /\ fs[d][n] # None => fs'[d][n].safe
    BY <1>5
  <2>6. PICK e \in Places : e = d
    BY <1>3
  <2>7. JobInv(j)'
    BY <1>1, <1>9, <1>10, <2>1, <2>2, <2>3, <2>4, <2>5, <2>6, CommitInv
  <2> QED
    BY <1>9, <2>7 DEF Keeps
<1>11. CASE Staged(j)
  <2>1. rt' = rt /\ pc'[j] = "commit"
    BY <1>11, Moved DEF Sync
  <2>2. d = Staging(j)
    BY <1>11 DEF Staged
  <2>3. SourceShape(j)'
    BY <1>1, <2>1 DEF JobInv, Shape, SourceShape, Fresh, AtSource
  <2>4. RouteShape(j)'
    <3>1. job[j].policy = "Replace"
      BY <1>2, <1>11 DEF JobInv, Shape, RouteShape
    <3> QED
      BY <1>1, <1>3, <1>11, <2>1, <3>1 DEF RouteShape, Staged, Staging
  <2>5. TodoShape(j)'
    BY <2>1 DEF TodoShape
  <2>6. CreatedShape(j)'
    BY <1>1, <1>2, <1>11, <2>1 DEF JobInv, Shape, CreatedShape, Stagings
  <2>7. CopyInv(j)'
    <3>1. PICK e \in Places : e = d
      BY <1>3
    <3>2. Copies(j, e) /\ \A n : ~Open(j, n)
      BY <1>1, <3>1 DEF JobInv, CopyInv, HasCopy, CopyAt, Open
    <3>3. CopyAt(j)' = d /\ \A n : ~Open(j, n)'
      BY <2>1 DEF CopyAt, Open
    <3>4. Settled(j, e)'
      BY <1>5, <3>1, <3>2, <3>3, RootNode DEF Copies, Settled, Exists
    <3>5. Opened(j, e)'
      BY <3>3 DEF Opened
    <3>6. Traced(j, e)'
      <4> SUFFICES ASSUME Moves(j)
                   PROVE  /\ \A y \in rt[j].copied : y.place = s =>
                               fs'[e][y.node] # None /\ From(fs'[e][y.node], y.was)
                          /\ fs'[s][Root] # None => fs'[e][Root].dir = fs'[s][Root].dir
        BY <1>1, <2>1, <3>3 DEF Traced, Moves, Exists
      <4>1. \A y \in rt[j].copied : y.node \in Nodes
        BY Facts DEF Runtime, Snapshot
      <4>2. /\ \A y \in rt[j].copied : y.place = s =>
                 fs[e][y.node] # None /\ From(fs[e][y.node], y.was)
            /\ fs[s][Root] # None => fs[e][Root].dir = fs[s][Root].dir
        BY <1>1, <3>2 DEF Copies, Traced, Exists
      <4>3. fs'[s] = fs[s] /\ fs[e][Root] # None
        BY <1>3, <1>4, <3>2 DEF Copies, Settled, Exists
      <4> QED
        BY <1>5, <3>1, <4>1, <4>2, <4>3, RootNode
    <3>7. Covered(j, e)'
      <4> SUFFICES ASSUME edits = 0, Inputs \cap Slots = {}, NEW m \in Nodes, fs'[s][m] # None
                   PROVE  fs'[e][m] # None
        BY <1>1, <2>1 DEF Covered
      <4>1. fs'[s] = fs[s]
        BY <1>3, <1>4
      <4> QED
        BY <1>1, <1>5, <3>1, <3>2, <4>1 DEF Copies, Covered
    <3> QED
      BY <3>1, <3>3, <3>4, <3>5, <3>6, <3>7 DEF CopyInv, Copies
  <2>8. RoomInv(j)'
    BY <2>1 DEF RoomInv
  <2>9. BackupInv(j)'
    BY <1>1, <1>9, <2>1 DEF JobInv, BackupInv, Absent, Backup, BeforeBackup
  <2>10. CreatedInv(j)'
    <3>1. \A c \in rt[j].created : c[1] \in Slots => fs'[c[1]] = fs[c[1]]
      BY <1>3, <1>9, <2>2
    <3> QED
      BY <1>1, <2>1, <3>1 DEF JobInv, CreatedInv
  <2>11. JobInv(j)'
    BY <2>3, <2>4, <2>5, <2>6, <2>7, <2>8, <2>9, <2>10 DEF JobInv, Shape
  <2> QED
    BY <1>9, <2>11 DEF Keeps
<1> QED
  BY <1>10, <1>11

-----------------------------------------------------------------------------
(* The commit of a replacement, and the removal of a moved source.          *)

\* What is lost was in the places that changed.
LEMMA GivesUp ==
  ASSUME NEW Q \in SUBSET Places,
         \A p \in Places, n \in Nodes : Lasting(p) /\ Solid(fs[p][n]) =>
           p \in Q \/ fs'[p][n] = fs[p][n]
  PROVE  Gone \subseteq KeptIn(Q)
<1> SUFFICES ASSUME NEW o \in Gone PROVE o \in KeptIn(Q)
  OBVIOUS
<1>0. o \in Kept /\ \A d \in Kept' : d[1] = o[1] => ~(o[2] \subseteq d[2])
  BY Zenon DEF Gone
<1>1. PICK p \in Places, n \in Nodes : KeptAt(p, n, o)
  BY <1>0, KeptIff
<1>2. p \in Q
  <2>1. CASE fs'[p][n] = fs[p][n]
    <3>1. KeptAt(p, n, o)'
      BY <1>1, <2>1 DEF KeptAt, Lasting, Solid
    <3> QED
      BY <1>0, <3>1, KeptIff
  <2> QED
    BY <1>1, <2>1 DEF KeptAt
<1>3. o \in ContentOf(fs, Q)
  BY <1>1, <1>2, ContentIff DEF KeptAt
<1>4. KeptIn(Q) = ContentOf(fs, Q)
  BY Zenon DEF KeptIn, ContentOf
<1> QED
  BY <1>3, <1>4

LEMMA ReplaceFileKeeps == ASSUME NEW j \in Jobs, Ready(j), ReplaceFile(j) PROVE Keeps(j)
<1> USE DEF Ready
<1>1. /\ pc[j] = "commit" /\ rt'[j] = Committed(j) /\ pc'[j] = AfterCommit(j)
      /\ UNCHANGED envVars /\ job' = job /\ fs' = Renamed(rt[j].into, rt[j].target)
  BY Moved DEF ReplaceFile, envVars
<1>2. pc[j] \in AtCopy /\ HasCopy(j) /\ CopyAt(j) = rt[j].into
  BY <1>1 DEF AtCopy, AtTarget, AtSource, HasCopy, CopyAt
<1>3. rt[j].into = Staging(j)
  BY <1>1 DEF JobInv, Shape, RouteShape, Staged
<1>4. PICK d \in Places : d = rt[j].into
  BY <1>2, CopyPlace
<1>5. PICK t \in Places : t = rt[j].target
  BY <1>2, CopyPlace
<1>6. /\ d # t /\ d \in Stagings(j) /\ t \in rt[j].held /\ t \in Slots /\ d \notin Slots
      /\ d \notin Inputs /\ rt[j].src \in Places
      /\ \A x \in rt[j].left : BackupOf(j, x) \in Places /\ BackupOf(j, x) # d /\ BackupOf(j, x) # t
      /\ (Moves(j) => rt[j].src \notin Slots) /\ rt[j].src \in Inputs
      /\ job[j].policy = "Replace" /\ Backup(j) \in Places
  BY <1>2, <1>3, <1>4, <1>5, CopyPlace
<1>7. fs'[t] = fs[d] /\ fs'[d] = Absent /\ \A r \in Places \ {d, t} : fs'[r] = fs[r]
  BY <1>1, <1>4, <1>5, <1>6, RenameAt, Facts
<1>8. FilesInv'
  BY <1>1, <1>4, <1>5, <1>6, MoveFiles, Facts DEF envVars
<1>9. Frame(j)
  BY <1>6, <1>7 DEF Frame
<1>10. Copies(j, d) /\ \A n : ~Open(j, n)
  BY <1>1, <1>2, <1>4 DEF JobInv, CopyInv, Open
<1>11. /\ \A n \in Nodes : fs'[t][n] = fs[d][n] /\ (fs[d][n] # None => fs[d][n].safe)
       /\ \A n \in Nodes : fs[d][n] # None => fs[d][n].part = Nobody
       /\ fs[d][Root] # None
  BY <1>1, <1>7, <1>10 DEF Copies, Settled, Exists
<1>12. JobInv(j)'
  <2>1. Moves(j) \/ Inputs \cap Slots = {} => fs'[rt[j].src] = fs[rt[j].src]
    BY <1>6, <1>7
  <2>2. \A x \in rt[j].left : fs'[BackupOf(j, x)] = fs[BackupOf(j, x)]
    BY <1>6, <1>7
  <2>3. \A c \in rt[j].created : c[1] \in Slots /\ c[1] # t => fs'[c[1]] = fs[c[1]]
    BY <1>6, <1>7 DEF Places
  <2> QED
    BY <1>1, <1>2, <1>4, <1>5, <1>11, <2>1, <2>2, <2>3, CommitInv
<1>13. Replaces(j)
  <2>1. pc'[j] \in {"verify", "complete"}
    BY <1>1 DEF AfterCommit
  <2>2. rt'[j].target = t
    BY <1>1, <1>5, Facts DEF Committed, Runtime
  <2>3. Whole(rt[j].target)'
    BY <1>11, <2>2, RootNode DEF Whole, Exists
  <2>4. Gone \subseteq KeptIn({rt[j].target, Backup(j)})
    <3>1. ~Lasting(d)
      BY <1>3, <1>4, <1>6, LastingPlaces DEF Staging, StagingOf
    <3>2. \A p \in Places, n \in Nodes : Lasting(p) /\ Solid(fs[p][n]) =>
            p \in {rt[j].target, Backup(j)} \/ fs'[p][n] = fs[p][n]
      BY <1>5, <1>7, <3>1
    <3> QED
      BY <1>5, <1>6, <3>2, GivesUp
  <2> QED
    BY <1>1, <1>6, <2>1, <2>3, <2>4 DEF Replaces
<1> QED
  BY <1>8, <1>9, <1>12, <1>13 DEF Keeps

LEMMA DropBackupKeeps == ASSUME NEW j \in Jobs, Ready(j), DropBackup(j) PROVE Keeps(j)
<1> USE DEF Ready
<1>1. /\ pc[j] = "dropbackup" /\ rt'[j] = Committed(j) /\ pc'[j] = AfterCommit(j)
      /\ UNCHANGED envVars /\ job' = job
      /\ fs' = [fs EXCEPT ![Backup(j)] = Absent] \/ fs' = fs
  BY Moved DEF DropBackup, envVars
<1>2. pc[j] \in AtCopy /\ HasCopy(j) /\ CopyAt(j) = rt[j].target
  BY <1>1 DEF AtCopy, AtTarget, AtSource, HasCopy, CopyAt
<1>3. rt[j].into = Staging(j)
  BY <1>1 DEF JobInv, Shape, RouteShape, Staged
<1>4. PICK t \in Places : t = rt[j].target
  BY <1>2, CopyPlace
<1>5. PICK b \in Places : b = Backup(j)
  BY <1>2, CopyPlace
<1>6. /\ b # t /\ b \in Backups(j) /\ t \in Slots /\ b \notin Slots /\ b \notin Inputs
      /\ rt[j].src \in Places /\ rt[j].src \in Inputs
      /\ \A x \in rt[j].left : BackupOf(j, x) \in Places /\ BackupOf(j, x) # b
      /\ job[j].policy = "Replace"
  BY <1>2, <1>3, <1>4, <1>5, CopyPlace
<1>7. \A r \in Places \ {b} : fs'[r] = fs[r]
  BY <1>1, <1>5, PutAt, Facts
<1>8. FilesInv'
  <2>1. CASE fs' = fs
    BY <1>1, <2>1, SameFiles DEF envVars
  <2>2. CASE fs' = [fs EXCEPT ![b] = Absent]
    <3>1. fs'[b] = Absent
      BY <2>2, Facts
    <3>2. WellFormed(fs'[b]) /\ \A n \in Nodes : fs'[b][n] = None
      BY <3>1, AbsentNodes, RootNode DEF WellFormed
    <3> QED
      BY <1>1, <1>6, <1>7, <3>2, PutFiles, Facts DEF envVars
  <2> QED
    BY <1>1, <1>5, <2>1, <2>2
<1>9. Frame(j)
  BY <1>6, <1>7 DEF Frame
<1>10. Copies(j, t) /\ \A n : ~Open(j, n)
  BY <1>1, <1>2, <1>4 DEF JobInv, CopyInv, Open
<1>11. /\ \A n \in Nodes : fs'[t][n] = fs[t][n] /\ (fs[t][n] # None => fs[t][n].safe)
       /\ \A n \in Nodes : fs[t][n] # None => fs[t][n].part = Nobody
       /\ fs[t][Root] # None
  BY <1>1, <1>6, <1>7, <1>10 DEF Copies, Settled, Exists
<1>12. JobInv(j)'
  <2>1. fs'[rt[j].src] = fs[rt[j].src]
    BY <1>6, <1>7
  <2>2. \A x \in rt[j].left : fs'[BackupOf(j, x)] = fs[BackupOf(j, x)]
    BY <1>6, <1>7
  <2>3. \A c \in rt[j].created : c[1] \in Slots /\ c[1] # t => fs'[c[1]] = fs[c[1]]
    BY <1>6, <1>7 DEF Places
  <2> QED
    BY <1>1, <1>2, <1>4, <1>11, <2>1, <2>2, <2>3, CommitInv
<1>13. Replaces(j)
  <2>1. pc'[j] \in {"verify", "complete"}
    BY <1>1 DEF AfterCommit
  <2>2. rt'[j].target = t
    BY <1>1, <1>4, Facts DEF Committed, Runtime
  <2>3. Whole(rt[j].target)'
    BY <1>11, <2>2, RootNode DEF Whole, Exists
  <2>4. Gone \subseteq KeptIn({rt[j].target, Backup(j)})
    <3>1. \A p \in Places, n \in Nodes : Lasting(p) /\ Solid(fs[p][n]) =>
            p \in {rt[j].target, Backup(j)} \/ fs'[p][n] = fs[p][n]
      BY <1>5, <1>7
    <3> QED
      BY <1>4, <1>5, <3>1, GivesUp
  <2> QED
    BY <1>1, <1>6, <2>1, <2>3, <2>4 DEF Replaces
<1> QED
  BY <1>8, <1>9, <1>12, <1>13 DEF Keeps

LEMMA SetAsideKeeps == ASSUME NEW j \in Jobs, Ready(j), SetAside(j) PROVE Keeps(j)
<1> USE DEF Ready
<1>1. /\ pc[j] = "commit" /\ pc'[j] = "install" /\ rt' = rt /\ UNCHANGED envVars
      /\ job' = job /\ edits' = edits /\ fs' = Renamed(rt[j].target, Backup(j))
  BY Moved DEF SetAside, envVars
<1>2. pc[j] \in AtCopy /\ HasCopy(j) /\ CopyAt(j) = rt[j].into
  BY <1>1 DEF AtCopy, AtTarget, AtSource, HasCopy, CopyAt
<1>3. rt[j].into = Staging(j) /\ Staged(j)
  BY <1>1 DEF JobInv, Shape, RouteShape, Staged
<1>4. PICK t \in Places : t = rt[j].target
  BY <1>2, CopyPlace
<1>5. PICK b \in Places : b = Backup(j)
  BY <1>2, CopyPlace
<1>6. PICK d \in Places : d = rt[j].into
  BY <1>2, CopyPlace
<1>7. /\ b # t /\ b # d /\ t # d /\ b \in Backups(j) /\ t \in Slots /\ t \in rt[j].held
      /\ b \notin Slots /\ b \notin Inputs /\ rt[j].src \in Places /\ rt[j].src \in Inputs
      /\ \A x \in rt[j].left : BackupOf(j, x) \in Places /\ BackupOf(j, x) # b /\ BackupOf(j, x) # t
      /\ (Moves(j) => rt[j].src \notin Slots) /\ job[j].policy = "Replace"
  BY <1>2, <1>3, <1>4, <1>5, <1>6, CopyPlace
<1>8. fs'[b] = fs[t] /\ fs'[t] = Absent /\ \A r \in Places \ {t, b} : fs'[r] = fs[r]
  BY <1>1, <1>4, <1>5, <1>7, RenameAt, Facts
<1>9. FilesInv' /\ Frame(j) /\ UsersKept
  <2>1. OnlyStranger(b)
    BY <1>1, <1>5, AbsentNodes, RootNode
       DEF JobInv, BackupInv, BeforeBackup, OnlyStranger, Exists
  <2> QED
    BY <1>1, <1>4, <1>5, <1>7, <2>1, MoveKeeps
<1>10. SourceShape(j)'
  BY <1>1 DEF JobInv, Shape, SourceShape, Fresh, AtSource
<1>11. RouteShape(j)'
  BY <1>1, <1>3, <1>4, <1>7 DEF RouteShape, Staged, Staging
<1>12. TodoShape(j)'
  BY <1>1 DEF TodoShape
<1>13. \A c \in rt[j].created : c[1] # t
  BY <1>2, <1>3, <1>4 DEF JobInv, Shape, CreatedShape
<1>14. CreatedShape(j)'
  BY <1>1, <1>4, <1>13 DEF JobInv, Shape, CreatedShape, Stagings
<1>15. CopyInv(j)'
  <2>1. Copies(j, d) /\ \A n : ~Open(j, n)
    BY <1>1, <1>2, <1>6 DEF JobInv, CopyInv, Open
  <2>2. CopyAt(j)' = d /\ \A n : ~Open(j, n)'
    BY <1>1, <1>6 DEF CopyAt, Open
  <2>3. fs'[d] = fs[d] /\ (Moves(j) \/ Inputs \cap Slots = {} => fs'[rt[j].src] = fs[rt[j].src])
    BY <1>7, <1>8
  <2>4. Settled(j, d)' /\ Opened(j, d)'
    BY <1>1, <2>1, <2>2, <2>3 DEF Copies, Settled, Opened, Exists
  <2>5. Traced(j, d)'
    BY <1>1, <2>1, <2>2, <2>3 DEF Copies, Traced, Moves, Exists
  <2>6. Covered(j, d)'
    BY <1>1, <2>1, <2>3 DEF Copies, Covered
  <2> QED
    BY <2>2, <2>4, <2>5, <2>6 DEF CopyInv, Copies
<1>16. RoomInv(j)'
  BY <1>1, <1>4, <1>8, AbsentNodes, RootNode DEF RoomInv, OnlyStranger, Exists
<1>17. BackupInv(j)'
  BY <1>1, <1>7, <1>8 DEF JobInv, BackupInv, Absent, BeforeBackup
<1>18. CreatedInv(j)'
  <2>1. \A c \in rt[j].created : c[1] \in Slots => fs'[c[1]] = fs[c[1]]
    BY <1>7, <1>8, <1>13 DEF Places
  <2> QED
    BY <1>1, <2>1 DEF JobInv, CreatedInv
<1>19. JobInv(j)'
  BY <1>10, <1>11, <1>12, <1>14, <1>15, <1>16, <1>17, <1>18 DEF JobInv, Shape
<1> QED
  BY <1>9, <1>19 DEF Keeps

LEMMA InstallKeeps == ASSUME NEW j \in Jobs, Ready(j), Install(j) PROVE Keeps(j)
<1> USE DEF Ready
<1>1. /\ pc[j] = "install" /\ rt' = rt /\ UNCHANGED envVars /\ job' = job /\ edits' = edits
  BY DEF Install, envVars
<1>2. pc[j] \in AtCopy /\ HasCopy(j) /\ CopyAt(j) = rt[j].into
  BY <1>1 DEF AtCopy, AtTarget, AtSource, HasCopy, CopyAt
<1>3. rt[j].into = Staging(j) /\ Staged(j)
  BY <1>1 DEF JobInv, Shape, RouteShape, Staged
<1>4. PICK t \in Places : t = rt[j].target
  BY <1>2, CopyPlace
<1>5. PICK d \in Places : d = rt[j].into
  BY <1>2, CopyPlace
<1>6. /\ t # d /\ d \in Stagings(j) /\ t \in Slots /\ t \in rt[j].held
      /\ d \notin Slots /\ d \notin Inputs /\ rt[j].src \in Places /\ rt[j].src \in Inputs
      /\ \A x \in rt[j].left : BackupOf(j, x) \in Places /\ BackupOf(j, x) # d /\ BackupOf(j, x) # t
      /\ (Moves(j) => rt[j].src \notin Slots) /\ job[j].policy = "Replace"
  BY <1>2, <1>3, <1>4, <1>5, CopyPlace
<1>7. SourceShape(j)' /\ TodoShape(j)' /\ RouteShape(j)' /\ CreatedShape(j)'
      /\ \A c \in rt[j].created : c[1] # t
  <2>1. pc'[j] \in {"dropbackup", "rollback"}
    <3>1. Goto(j, "dropbackup") \/ Goto(j, "rollback")
      BY DEF Install
    <3> QED
      BY <3>1, Moved
  <2>2. SourceShape(j)'
    BY <1>1, <2>1 DEF JobInv, Shape, SourceShape, Fresh, AtSource
  <2>3. RouteShape(j)'
    BY <1>1, <1>3, <1>4, <1>6, <2>1 DEF RouteShape, Staged, Staging
  <2>4. TodoShape(j)'
    BY <2>1 DEF TodoShape
  <2>5. \A c \in rt[j].created : c[1] # t
    BY <1>2, <1>3, <1>4 DEF JobInv, Shape, CreatedShape
  <2>6. CreatedShape(j)'
    BY <1>1, <1>4, <2>1, <2>5 DEF JobInv, Shape, CreatedShape, Stagings
  <2> QED
    BY <2>2, <2>3, <2>4, <2>5, <2>6
<1>8. OnlyStranger(rt[j].target)
  BY <1>1 DEF JobInv, RoomInv
<1>9. CASE UNCHANGED fs /\ Goto(j, "rollback")
  <2>1. pc'[j] = "rollback"
    BY <1>9, Moved
  <2>2. CopyInv(j)'
    BY <2>1 DEF CopyInv, HasCopy
  <2>3. RoomInv(j)'
    BY <1>1, <1>8, <1>9 DEF RoomInv, OnlyStranger, Exists
  <2>4. BackupInv(j)' /\ CreatedInv(j)'
    BY <1>1, <1>9, <2>1 DEF JobInv, BackupInv, CreatedInv, Absent, BeforeBackup
  <2>5. JobInv(j)'
    BY <1>7, <2>2, <2>3, <2>4 DEF JobInv, Shape
  <2> QED
    BY <1>1, <1>9, <2>5, StillFiles DEF Keeps
<1>10. CASE fs' = Renamed(rt[j].into, rt[j].target) /\ Goto(j, "dropbackup")
  <2>1. pc'[j] = "dropbackup"
    BY <1>10, Moved
  <2>2. fs'[t] = fs[d] /\ fs'[d] = Absent /\ \A r \in Places \ {d, t} : fs'[r] = fs[r]
    BY <1>4, <1>5, <1>6, <1>10, RenameAt, Facts
  <2>3. FilesInv' /\ Frame(j) /\ UsersKept
    BY <1>1, <1>4, <1>5, <1>6, <1>8, <1>10, MoveKeeps
  <2>4. CopyInv(j)'
    <3>1. Copies(j, d) /\ \A n : ~Open(j, n)
      BY <1>1, <1>2, <1>5 DEF JobInv, CopyInv, Open
    <3>2. CopyAt(j)' = t /\ \A n : ~Open(j, n)'
      BY <1>1, <1>4, <2>1 DEF CopyAt, Open
    <3>3. Moves(j) \/ Inputs \cap Slots = {} => fs'[rt[j].src] = fs[rt[j].src]
      BY <1>6, <2>2
    <3>4. Settled(j, t)' /\ Opened(j, t)'
      BY <1>1, <2>2, <3>1, <3>2 DEF Copies, Settled, Opened, Exists
    <3>5. Traced(j, t)'
      BY <1>1, <2>2, <3>1, <3>2, <3>3 DEF Copies, Traced, Moves, Exists
    <3>6. Covered(j, t)'
      BY <1>1, <2>2, <3>1, <3>3 DEF Copies, Covered
    <3> QED
      BY <3>2, <3>4, <3>5, <3>6 DEF CopyInv, Copies
  <2>5. RoomInv(j)'
    BY <2>1 DEF RoomInv
  <2>6. BackupInv(j)'
    BY <1>1, <1>6, <2>1, <2>2 DEF JobInv, BackupInv, Absent, BeforeBackup
  <2>7. CreatedInv(j)'
    <3>1. \A c \in rt[j].created : c[1] \in Slots => fs'[c[1]] = fs[c[1]]
      BY <1>6, <1>7, <2>2 DEF Places
    <3> QED
      BY <1>1, <3>1 DEF JobInv, CreatedInv
  <2>8. JobInv(j)'
    BY <1>7, <2>4, <2>5, <2>6, <2>7 DEF JobInv, Shape
  <2> QED
    BY <2>3, <2>8 DEF Keeps
<1> QED
  BY <1>9, <1>10 DEF Install

LEMMA UnlinkKeeps == ASSUME NEW j \in Jobs, Ready(j), UnlinkSource(j) PROVE Keeps(j)
<1> USE DEF Ready
<1> DEFINE s == rt[j].src
           n == rt[j].node
           rest == rt[j].todo \ {n}
<1>1. /\ pc[j] = "unlink" /\ UNCHANGED envVars /\ job' = job /\ edits' = edits
      /\ fs[s][n] # None /\ (fs[s][n].dir => KidsAt(s) = {})
      /\ fs' = [fs EXCEPT ![s][n] = None]
      /\ rt'[j] = [rt[j] EXCEPT !.todo = rest, !.node = None, !.snap = None]
      /\ pc'[j] \in {"verify", "complete"}
  BY Moved DEF UnlinkSource, envVars
<1>2. pc[j] \in AtCopy /\ HasCopy(j) /\ CopyAt(j) = rt[j].into
  BY <1>1 DEF AtCopy, AtTarget, AtSource, HasCopy, CopyAt
<1>3. Moves(j) /\ rt[j].into = rt[j].target
  BY <1>1 DEF JobInv, Shape, RouteShape
<1>4. PICK t \in Places : t = rt[j].target
  BY <1>2, CopyPlace
<1>5. /\ s \in Inputs /\ s \in Places /\ s \notin Slots /\ s # t /\ t \in Slots
      /\ t \in rt[j].held /\ Staging(j) # t /\ Backup(j) \notin Inputs /\ Backup(j) \in Places
      /\ \A x \in rt[j].left : BackupOf(j, x) \in Places /\ BackupOf(j, x) \in Backups(j)
  BY <1>2, <1>3, <1>4, CopyPlace
<1>6. n \in Nodes /\ n \in rt[j].todo /\ rt[j].todo \subseteq Removable(j)
  BY <1>1, Facts DEF JobInv, Shape, TodoShape
<1>7. /\ rt'[j].left = rt[j].left /\ rt'[j].copied = rt[j].copied /\ rt'[j].into = t
      /\ rt'[j].src = s /\ rt'[j].created = rt[j].created /\ rt'[j].held = rt[j].held
      /\ rt'[j].target = t /\ rt'[j].todo = rest
  <2> HIDE DEF s, n, rest
  <2> QED
    BY <1>1, <1>3, <1>4, Facts DEF Runtime, s
<1>8. /\ fs'[s][n] = None /\ \A m \in Nodes \ {n} : fs'[s][m] = fs[s][m]
      /\ \A r \in Places \ {s} : fs'[r] = fs[r]
  BY <1>1, <1>5, <1>6, NodeAt, Facts
<1>9. FilesInv'
  BY <1>1, <1>5, <1>6, CutFiles, Facts DEF envVars
<1>10. Frame(j)
  BY <1>5, <1>8 DEF Frame
<1>11. Copies(j, t) /\ \A m : ~Open(j, m)
  BY <1>1, <1>2, <1>3, <1>4 DEF JobInv, CopyInv, Open
<1>12. fs'[t] = fs[t]
  BY <1>5, <1>8
<1>13. UsersKept \/ Overlooks(j)
  <2>1. ASSUME Solid(fs[s][n]), fs[s][n] = rt[j].snap
        PROVE  Solid(fs[t][n]) /\ From(fs[t][n], fs[s][n])
    <3>1. PICK y \in rt[j].copied :
            y.place = s /\ y.node = n /\ (rt[j].snap.dir \/ rt[j].snap = y.was)
      BY <1>1 DEF JobInv, Shape, TodoShape
    <3>2. fs[t][n] # None /\ From(fs[t][n], fs[s][n])
      BY <1>1, <1>3, <1>11, <2>1, <3>1 DEF Copies, Traced, Solid
    <3>4. fs[t][n].part = Nobody /\ fs[t][n].safe
      BY <1>1, <1>6, <1>11, <3>2 DEF Copies, Settled
    <3>5. ~fs[t][n].dir
      <4>1. CASE n = Root
        <5>1. fs[t][Root].dir = fs[s][Root].dir
          BY <1>1, <1>3, <1>11, <4>1 DEF Copies, Traced, Exists
        <5> QED
          BY <2>1, <4>1, <5>1 DEF Solid
      <4>2. CASE n \in Kids
        BY <3>2, <4>2 DEF FilesInv, WellFormed
      <4> QED
        BY <1>6, <4>1, <4>2 DEF Nodes
    <3> QED
      BY <3>2, <3>4, <3>5 DEF Solid
  <2>2. ASSUME NEW p \in Places, NEW m \in Nodes, p # s \/ m # n
        PROVE  fs'[p][m] = fs[p][m]
    BY <1>8, <2>2
  <2>3. CASE fs[s][n] = rt[j].snap
    <3> SUFFICES ASSUME NEW p \in Places, NEW m \in Nodes, Lasting(p), Solid(fs[p][m])
                 PROVE  \E q \in Places, l \in Nodes :
                          Lasting(q) /\ Solid(fs'[q][l]) /\ From(fs'[q][l], fs[p][m])
      BY KeepsContent
    <3>1. CASE p = s /\ m = n
      <4>1. Lasting(t)
        BY <1>5, LastingPlaces
      <4> HIDE DEF s, n
      <4> QED
        BY <1>6, <1>12, <2>1, <2>3, <3>1, <4>1
    <3>2. CASE p # s \/ m # n
      BY <2>2, <3>2
    <3> QED
      BY <3>1, <3>2
  <2>4. CASE fs[s][n] # rt[j].snap
    <3>1. ASSUME NEW c \in Gone
          PROVE  c = <<fs[s][n].of, fs[s][n].ver>>
      BY <2>2, OnlyHere, <1>5, <1>6
    <3> QED
      BY <1>1, <2>4, <3>1 DEF Overlooks
  <2> QED
    BY <2>3, <2>4
<1>14. SourceShape(j)'
  BY <1>1, <1>5, <1>7 DEF JobInv, Shape, SourceShape, Fresh, AtSource
<1>15. RouteShape(j)'
  <2>1. ~Staged(j)'
    BY <1>5, <1>7 DEF Staged, Staging
  <2> QED
    BY <1>1, <1>3, <1>5, <1>7, <2>1 DEF RouteShape, Moves
<1>16. TodoShape(j)'
  <2>1. Removable(j)' = Removable(j)
    BY <1>7 DEF Removable
  <2> QED
    BY <1>1, <1>6, <1>7, <2>1 DEF TodoShape
<1>17. CreatedShape(j)'
  BY <1>1, <1>4, <1>7 DEF JobInv, Shape, CreatedShape, Stagings
<1>18. CopyInv(j)'
  <2>1. CopyAt(j)' = t /\ \A m : ~Open(j, m)'
    BY <1>1, <1>7 DEF CopyAt, Open
  <2>2. Settled(j, t)' /\ Opened(j, t)'
    BY <1>1, <1>11, <1>12, <2>1 DEF Copies, Settled, Opened, Exists
  <2>3. Traced(j, t)'
    <3> SUFFICES /\ \A y \in rt[j].copied : y.place = s =>
                      fs'[t][y.node] # None /\ From(fs'[t][y.node], y.was)
                 /\ fs'[s][Root] # None => fs'[t][Root].dir = fs'[s][Root].dir
      BY <1>1, <1>7, <2>1 DEF Traced, Moves, Exists
    <3>1. /\ \A y \in rt[j].copied : y.place = s =>
               fs[t][y.node] # None /\ From(fs[t][y.node], y.was)
          /\ fs[s][Root] # None => fs[t][Root].dir = fs[s][Root].dir
      BY <1>1, <1>3, <1>11 DEF Copies, Traced, Exists
    <3>2. fs'[s][Root] # None => fs'[s][Root] = fs[s][Root]
      BY <1>8, RootNode
    <3> QED
      BY <1>12, <3>1, <3>2
  <2>4. Covered(j, t)'
    <3> SUFFICES ASSUME edits = 0, Inputs \cap Slots = {}, NEW m \in Nodes, fs'[s][m] # None
                 PROVE  fs'[t][m] # None
      BY <1>1, <1>7 DEF Covered
    <3>1. fs[s][m] # None
      BY <1>8
    <3> QED
      BY <1>1, <1>11, <1>12, <3>1 DEF Copies, Covered
  <2> QED
    BY <2>1, <2>2, <2>3, <2>4 DEF CopyInv, Copies
<1>19. RoomInv(j)'
  BY <1>1 DEF RoomInv
<1>20. BackupInv(j)'
  <2>1. \A x \in rt[j].left : fs'[BackupOf(j, x)] = fs[BackupOf(j, x)]
    <3>1. Inputs \cap Temps = {} /\ Backups(j) \subseteq Temps
      BY Siblings, TransferAssumption DEF Backups
    <3> QED
      BY <1>5, <1>8, <3>1
  <2> QED
    BY <1>1, <1>7, <2>1 DEF JobInv, BackupInv, Absent, BeforeBackup
<1>21. CreatedInv(j)'
  <2>1. \A c \in rt[j].created : c[1] \in Slots => fs'[c[1]] = fs[c[1]]
    BY <1>5, <1>8 DEF Places
  <2> QED
    BY <1>1, <1>7, <2>1 DEF JobInv, CreatedInv
<1>22. JobInv(j)'
  BY <1>14, <1>15, <1>16, <1>17, <1>18, <1>19, <1>20, <1>21 DEF JobInv, Shape
<1> QED
  BY <1>9, <1>10, <1>13, <1>22 DEF Keeps

-----------------------------------------------------------------------------
(* Every step of the program.                                               *)

LEMMA StepKeeps ==
  ASSUME NEW j \in Jobs, Ready(j), Step(j), ~exhausted'
  PROVE  Keeps(j)
  BY PrepareKeeps, NextSourceKeeps, EndOfSourcesKeeps, ReserveKeeps, SkipKeeps, ChooseKeeps,
     RenameKeeps, CopyFolderKeeps, CreateFileKeeps, WriteFileKeeps, SyncKeeps, ReplaceFileKeeps,
     SetAsideKeeps, InstallKeeps, RollbackKeeps, DropBackupKeeps, VerifyKeeps, UnlinkKeeps,
     CompleteKeeps, UnstageKeeps, CleanupKeeps, SweepKeeps, ReleaseKeeps, ReportKeeps,
     ErrorKeeps DEF Step

\* The other jobs and the environment stand still during a step.
LEMMA StepFrame ==
  ASSUME TypeInv, NEW j \in Jobs, Step(j)
  PROVE  OnlyMoves(j) /\ UNCHANGED envVars /\ (exhausted => exhausted')
<1>1. UNCHANGED envVars /\ (exhausted => exhausted')
  BY DEF Step, Prepare, NextSource, EndOfSources, ReserveDestination, SkipSameFile, ChooseRoute,
         Rename, CopyFolder, CreateFile, WriteFile, Sync, ReplaceFile, SetAside, Install,
         Rollback, DropBackup, VerifySource, UnlinkSource, CompleteRoot, Unstage, Cleanup,
         Sweep, Release, Report, Abort, Fault, Fail
<1>2. \E r, label : (Update(j, r) \/ rt' = rt) /\ (Goto(j, label) \/ pc' = pc)
  <2>1. CASE Abort(j) \/ Fault(j)
    BY <2>1, Zenon DEF Abort, Fault, Fail
  <2>2. CASE \/ Prepare(j) \/ NextSource(j) \/ EndOfSources(j) \/ ReserveDestination(j)
             \/ SkipSameFile(j) \/ ChooseRoute(j) \/ Rename(j)
    BY <2>2, Zenon DEF Prepare, NextSource, EndOfSources, ReserveDestination, SkipSameFile,
                       ChooseRoute, Rename
  <2>3. CASE CopyFolder(j) \/ CreateFile(j) \/ WriteFile(j) \/ Sync(j)
    BY <2>3, Zenon DEF CopyFolder, CreateFile, WriteFile, Sync
  <2>4. CASE ReplaceFile(j) \/ SetAside(j) \/ Install(j) \/ Rollback(j) \/ DropBackup(j)
    BY <2>4, Zenon DEF ReplaceFile, SetAside, Install, Rollback, DropBackup
  <2>5. CASE VerifySource(j) \/ UnlinkSource(j) \/ CompleteRoot(j)
    BY <2>5, Zenon DEF VerifySource, UnlinkSource, CompleteRoot
  <2>6. CASE Unstage(j) \/ Cleanup(j) \/ Sweep(j) \/ Release(j) \/ Report(j)
    BY <2>6, Zenon DEF Unstage, Cleanup, Sweep, Release, Report
  <2> QED
    BY <2>1, <2>2, <2>3, <2>4, <2>5, <2>6 DEF Step
<1>3. OnlyMoves(j)
  BY <1>2, Moved DEF OnlyMoves
<1> QED
  BY <1>1, <1>3

-----------------------------------------------------------------------------
(* The steps of the user and of other programs.                             *)

\* A node p, n of the destination or of an input becomes v: a file gets a new
\* version, or a file appears where there was nothing.
Touches(p, n, v) ==
  /\ fs' = [fs EXCEPT ![p][n] = v] /\ v # None
  /\ fs[p][n] # None => /\ v.dir = fs[p][n].dir /\ From(v, fs[p][n])
                        /\ v.part = fs[p][n].part /\ v.safe = fs[p][n].safe
  /\ fs[p][n] = None => /\ ~v.dir /\ v.part = Nobody /\ v.safe
                        /\ n = Root => p \in Slots /\ v.of = Stranger
                        /\ n \in Kids => Exists(p) /\ fs[p][Root].dir
                        /\ p \in Inputs \ Slots => v.of # Stranger
                        /\ p \in Slots \/ edits' # 0
                        /\ strangers' = 0 => v.of # Stranger
  /\ edits' = 0 => edits = 0
  /\ strangers' = 0 => strangers = 0
  /\ UNCHANGED <<job, pc, rt>>

LEMMA TouchFiles ==
  ASSUME TypeInv, FilesInv, NEW p \in Inputs \cup Slots, NEW n \in Nodes, NEW v, Touches(p, n, v)
  PROVE  FilesInv' /\ UsersKept
<1> USE DEF Touches
<1>1. p \in Places /\ fs \in [Places -> Tree]
  BY DEF Places, TypeInv, TypeOK
<1>2. /\ fs'[p][n] = v /\ \A m \in Nodes \ {n} : fs'[p][m] = fs[p][m]
      /\ \A r \in Places \ {p} : fs'[r] = fs[r]
  BY <1>1, NodeAt
<1>3. WellFormed(fs'[p])
  <2>1. WellFormed(fs[p])
    BY <1>1 DEF FilesInv
  <2>2. n = Root \/ n \in Kids
    BY DEF Nodes
  <2>3. fs[p][n] = None /\ n = Root => \A k \in Kids : fs[p][k] = None
    BY <2>1 DEF WellFormed
  <2> HIDE DEF Touches
  <2>4. \A k \in Kids : fs'[p][k] # None => fs'[p][Root] # None /\ fs'[p][Root].dir /\ ~fs'[p][k].dir
    BY <1>2, <2>1, <2>2, <2>3, RootNode DEF WellFormed, Touches, Exists
  <2>5. \A m \in Nodes : fs'[p][m] # None /\ fs'[p][m].dir => fs'[p][m].part = Nobody
    BY <1>2, <2>1 DEF WellFormed, Touches
  <2> QED
    BY <2>4, <2>5 DEF WellFormed
<1>4. \A s \in Inputs \ Slots : Pristine(s)'
  <2> SUFFICES ASSUME NEW s \in Inputs \ Slots PROVE Pristine(s)'
    OBVIOUS
  <2>1. Pristine(s) /\ s \in Places
    BY DEF FilesInv, Places
  <2> QED
    BY <1>2, <2>1 DEF Pristine
<1>5. strangers' = 0 =>
        \A r \in Places, m \in Nodes : fs'[r][m] # None => fs'[r][m].of # Stranger
  BY <1>1, <1>2 DEF FilesInv
<1>6. FilesInv'
  BY <1>2, <1>3, <1>4, <1>5 DEF FilesInv
<1>7. \A r \in Places, m \in Nodes : Lasting(r) /\ Solid(fs[r][m]) =>
        Solid(fs'[r][m]) /\ From(fs'[r][m], fs[r][m])
  BY <1>1, <1>2 DEF Solid
<1> QED
  BY <1>6, <1>7, KeepsNodes

LEMMA TouchJob ==
  ASSUME Separate, TypeInv, NEW k \in Jobs, JobInv(k),
         NEW p \in Inputs \cup Slots, NEW n \in Nodes, NEW v, Touches(p, n, v)
  PROVE  JobInv(k)'
<1>1. p \in Places /\ fs \in [Places -> Tree] /\ p \notin Temps
  BY TransferAssumption, SlotsTemps DEF Places, TypeInv, TypeOK
<1>2. /\ fs'[p][n] = v /\ \A m \in Nodes \ {n} : fs'[p][m] = fs[p][m]
      /\ \A r \in Places \ {p} : fs'[r] = fs[r]
  BY <1>1, NodeAt DEF Touches
<1>3. /\ \A r \in Places, m \in Nodes : fs[r][m] # None =>
           /\ fs'[r][m] # None /\ fs'[r][m].dir = fs[r][m].dir /\ From(fs'[r][m], fs[r][m])
           /\ fs'[r][m].part = fs[r][m].part /\ fs'[r][m].safe = fs[r][m].safe
      /\ \A r \in Places, m \in Nodes : fs'[r][m] # None /\ fs[r][m] = None =>
           /\ r = p /\ m = n /\ fs'[r][m].part = Nobody /\ fs'[r][m].safe /\ ~fs'[r][m].dir
           /\ m = Root => p \in Slots /\ fs'[r][m].of = Stranger
           /\ p \in Slots \/ edits' # 0
  BY <1>1, <1>2 DEF Touches
<1>4. UNCHANGED <<job, pc, rt>> /\ (edits' = 0 => edits = 0)
  BY DEF Touches
<1> HIDE DEF Touches
<1>5. Shape(k)'
  BY <1>4 DEF JobInv, Shape, SourceShape, RouteShape, TodoShape, CreatedShape, Fresh, Moves,
              Staged, Staging, Removable
<1>6. SourceShape(k)
  BY DEF JobInv, Shape
<1>7. CopyInv(k)'
  <2> SUFFICES ASSUME HasCopy(k)' PROVE \E d \in Places : d = CopyAt(k)' /\ Copies(k, d)'
    BY DEF CopyInv
  <2>1. HasCopy(k) /\ CopyAt(k)' = CopyAt(k)
    BY <1>4 DEF HasCopy, CopyAt
  <2>2. PICK d \in Places : d = CopyAt(k) /\ Copies(k, d)
    BY <2>1 DEF JobInv, CopyInv
  <2>3. pc[k] \in AtCopy
    BY <2>1 DEF HasCopy, AtCopy, AtTarget, AtSource
  <2>4. rt[k].src \in Inputs /\ rt[k].src \in Places /\ (Moves(k) => rt[k].src \notin Slots)
    BY <1>6, <2>3, OwnPlaces DEF AtCopy, AtTarget, Places
  <2>5. Settled(k, d)'
    BY <1>3, <1>4, <2>2, RootNode DEF Copies, Settled, Exists, Open
  <2>6. Opened(k, d)'
    BY <1>3, <1>4, <2>2 DEF Copies, Opened, Open, Moves
  <2>7. Traced(k, d)'
    <3> SUFFICES ASSUME Moves(k), pc[k] # "complete"
                 PROVE  /\ \A y \in rt[k].copied : y.place = rt[k].src =>
                             /\ fs'[d][y.node] # None
                             /\ From(fs'[d][y.node], y.was) /\ ~Open(k, y.node)
                        /\ fs'[rt[k].src][Root] # None =>
                             fs'[d][Root].dir = fs'[rt[k].src][Root].dir
      BY <1>4 DEF Traced, Moves, Exists, Open
    <3>1. \A y \in rt[k].copied : y.node \in Nodes
      BY Facts DEF Runtime, Snapshot
    <3>2. fs'[rt[k].src][Root] # None => fs[rt[k].src][Root] # None
      BY <1>2, <1>3, <2>4, RootNode
    <3>3. /\ \A y \in rt[k].copied : y.place = rt[k].src =>
               fs[d][y.node] # None /\ From(fs[d][y.node], y.was) /\ ~Open(k, y.node)
          /\ fs[rt[k].src][Root] # None => fs[d][Root].dir = fs[rt[k].src][Root].dir
          /\ fs[d][Root] # None
      BY <2>2 DEF Copies, Traced, Settled, Exists
    <3>4. fs'[rt[k].src][Root] # None =>
            fs'[d][Root].dir = fs[d][Root].dir /\ fs'[rt[k].src][Root].dir = fs[rt[k].src][Root].dir
      BY <1>3, <2>4, <3>2, <3>3, RootNode
    <3>5. \A y \in rt[k].copied : y.place = rt[k].src =>
            fs'[d][y.node] # None /\ From(fs'[d][y.node], y.was)
      BY <1>3, <3>1, <3>3
    <3> QED
      BY <3>2, <3>3, <3>4, <3>5
  <2>8. Covered(k, d)'
    BY <1>3, <1>4, <2>2, <2>4 DEF Copies, Covered
  <2> QED
    BY <2>1, <2>2, <2>5, <2>6, <2>7, <2>8 DEF Copies
<1>8. RoomInv(k)'
  <2> SUFFICES ASSUME \/ pc[k] \in {"same", "rename"} /\ job[k].policy # "Replace"
                      \/ pc[k] \in {"install", "rollback"}
               PROVE  OnlyStranger(rt[k].target)'
    BY <1>4 DEF RoomInv
  <2>1. OnlyStranger(rt[k].target)
    BY DEF JobInv, RoomInv
  <2>2. rt[k].target \in Places
    <3>1. pc[k] \in AtTarget
      BY DEF AtTarget, AtSource
    <3> QED
      BY <3>1, Facts DEF Places
  <2> QED
    BY <1>3, <1>4, <2>1, <2>2, RootNode DEF OnlyStranger, Exists
<1>9. BackupInv(k)'
  <2>1. \A s \in Inputs : fs'[BackupOf(k, s)] = fs[BackupOf(k, s)]
    BY <1>1, <1>2, Siblings DEF Places
  <2>2. \A s \in rt[k].left : s \in Inputs
    BY Facts DEF Runtime
  <2>3. pc[k] \in BeforeBackup => rt[k].src \in Inputs /\ Backup(k) = BackupOf(k, rt[k].src)
    BY Facts DEF BeforeBackup, AtSource, Backup, BackupOf
  <2>4. Backup(k)' = Backup(k)
    BY <1>4 DEF Backup
  <2> QED
    BY <1>4, <2>1, <2>2, <2>3, <2>4 DEF JobInv, BackupInv, Absent
<1>10. CreatedInv(k)'
  <2> SUFFICES ASSUME pc[k] # "report", NEW c \in rt[k].created, c[1] \in Slots
               PROVE  fs'[c[1]][c[2]] # None /\ (fs'[c[1]][c[2]].dir \/ ~fs'[c[1]][c[2]].safe)
    BY <1>4 DEF CreatedInv
  <2>1. c[1] \in Places /\ c[2] \in Nodes
    BY Facts DEF Runtime
  <2> QED
    BY <1>3, <2>1 DEF JobInv, CreatedInv
<1> QED
  BY <1>5, <1>7, <1>8, <1>9, <1>10 DEF JobInv

LEMMA EditTouches ==
  ASSUME TypeInv, EditInput
  PROVE  \E p \in Inputs \cup Slots, n \in Nodes, v \in Node : Touches(p, n, v)
<1>1. edits' = edits + 1 /\ edits \in Nat /\ strangers' = strangers /\ UNCHANGED <<job, pc, rt>>
  BY DEF EditInput, TypeInv, TypeOK
<1>2. PICK s \in Inputs, n \in Nodes :
        \/ /\ fs[s][n] # None /\ ~fs[s][n].dir
           /\ fs' = [fs EXCEPT ![s][n].ver = @ \cup {edits'}]
        \/ /\ fs[s][n] = None /\ Exists(s) /\ fs[s][Root].dir
           /\ fs' = [fs EXCEPT ![s][n] = [File(s, n) EXCEPT !.of = <<s, n, edits'>>]]
  BY DEF EditInput
<1>3. s \in Places /\ fs \in [Places -> Tree]
  BY DEF Places, TypeInv, TypeOK
<1>4. CASE fs[s][n] # None /\ ~fs[s][n].dir /\ fs' = [fs EXCEPT ![s][n].ver = @ \cup {edits'}]
  <2> DEFINE v == [fs[s][n] EXCEPT !.ver = @ \cup {edits'}]
  <2>1. fs[s][n] \in Node
    BY <1>3, <1>4 DEF Tree
  <2>2. v \in Node /\ v.dir = fs[s][n].dir /\ From(v, fs[s][n])
        /\ v.part = fs[s][n].part /\ v.safe = fs[s][n].safe
    BY <1>1, <2>1 DEF Node
  <2>3. fs' = [fs EXCEPT ![s][n] = v]
    BY <1>4
  <2> HIDE DEF v
  <2>4. v # None
    BY <2>2, TransferAssumption
  <2>5. Touches(s, n, v)
    <3>1. edits' # 0 /\ (strangers' = 0 => strangers = 0)
      BY <1>1
    <3> QED
      BY <1>1, <1>4, <2>2, <2>3, <2>4, <3>1 DEF Touches
  <2> QED
    BY <2>2, <2>5
<1>5. CASE /\ fs[s][n] = None /\ Exists(s) /\ fs[s][Root].dir
           /\ fs' = [fs EXCEPT ![s][n] = [File(s, n) EXCEPT !.of = <<s, n, edits'>>]]
  <2> DEFINE v == [File(s, n) EXCEPT !.of = <<s, n, edits'>>]
  <2>1. v \in Node /\ ~v.dir /\ v.of = <<s, n, edits'>> /\ v.part = Nobody /\ v.safe
    <3>1. <<s, n, edits'>> \in Origins
      BY <1>1 DEF Origins
    <3> QED
      BY <3>1 DEF File, Node
  <2>2. fs' = [fs EXCEPT ![s][n] = v]
    BY <1>5
  <2> HIDE DEF v
  <2>3. v # None /\ v.of # Stranger
    BY <2>1, TransferAssumption DEF Stranger
  <2>4. n # Root
    BY <1>5 DEF Exists
  <2>5. Touches(s, n, v)
    <3>1. edits' # 0 /\ (strangers' = 0 => strangers = 0)
      BY <1>1
    <3> QED
      BY <1>1, <1>5, <2>1, <2>2, <2>3, <2>4, <3>1 DEF Touches
  <2> QED
    BY <2>1, <2>5
<1> QED
  BY <1>2, <1>4, <1>5

LEMMA StrangerTouches ==
  ASSUME TypeInv, CreateStranger
  PROVE  \E p \in Inputs \cup Slots, n \in Nodes, v \in Node : Touches(p, n, v)
<1>1. strangers' = strangers + 1 /\ strangers \in Nat /\ edits' = edits /\ UNCHANGED <<job, pc, rt>>
  BY DEF CreateStranger, TypeInv, TypeOK
<1>2. PICK t \in Slots :
        ~Exists(t) /\ fs' = [fs EXCEPT ![t][Root] = [File(t, Root) EXCEPT !.of = Stranger]]
  BY DEF CreateStranger
<1> DEFINE v == [File(t, Root) EXCEPT !.of = Stranger]
<1>3. v \in Node /\ ~v.dir /\ v.of = Stranger /\ v.part = Nobody /\ v.safe
  BY DEF File, Node, Origins
<1>4. fs' = [fs EXCEPT ![t][Root] = v]
  BY <1>2
<1> HIDE DEF v
<1>5. v # None /\ fs[t][Root] = None
  BY <1>2, <1>3, TransferAssumption DEF Exists
<1>6. Touches(t, Root, v)
  BY <1>1, <1>3, <1>4, <1>5, RootNode DEF Touches
<1> QED
  BY <1>3, <1>6, RootNode

\* A step that changes neither the files nor any job.
LEMMA SameJob ==
  ASSUME NEW j \in Jobs, JobInv(j), UNCHANGED <<fs, job, pc, rt, edits>>
  PROVE  JobInv(j)'
<1>1. Shape(j)'
  BY DEF JobInv, Shape, SourceShape, RouteShape, TodoShape, CreatedShape, Fresh, Moves,
         Staged, Staging, Removable
<1>2. CopyInv(j)'
  BY DEF JobInv, CopyInv, HasCopy, CopyAt, Copies, Settled, Opened, Traced, Covered, Open,
         Moves, Exists
<1>3. RoomInv(j)' /\ BackupInv(j)' /\ CreatedInv(j)'
  BY DEF JobInv, RoomInv, OnlyStranger, Exists, BackupInv, Absent, Backup, CreatedInv
<1> QED
  BY <1>1, <1>2, <1>3 DEF JobInv

LEMMA UserKeeps ==
  ASSUME Separate, TypeInv, FilesInv, \A j \in Jobs : JobInv(j), User
  PROVE  /\ FilesInv' /\ \A j \in Jobs : JobInv(j)'
         /\ UsersKept
<1>1. CASE EditInput \/ CreateStranger
  <2>1. PICK p \in Inputs \cup Slots, n \in Nodes, v \in Node : Touches(p, n, v)
    BY <1>1, EditTouches, StrangerTouches
  <2> QED
    BY <2>1, TouchFiles, TouchJob
<1>2. CASE \E j \in Jobs : RequestCancel(j) \/ TogglePause(j)
  <2>1. UNCHANGED <<fs, job, pc, rt, edits, strangers>>
    BY <1>2 DEF RequestCancel, TogglePause
  <2>2. \A j \in Jobs : JobInv(j)'
    BY <2>1, SameJob
  <2> QED
    BY <2>1, <2>2, SameFiles, KeepsNodes
<1> QED
  BY <1>1, <1>2 DEF User

-----------------------------------------------------------------------------
(* The invariant holds from the start and is preserved.                     *)

LEMMA ShapedNodes ==
  ASSUME NEW p \in Places, NEW shape \in {"absent", "file", "dir", "bare"}
  PROVE  /\ WellFormed(Shaped(p, shape))
         /\ \A n \in Nodes : Shaped(p, shape)[n] # None =>
              Shaped(p, shape)[n].of = <<p, n>> /\ Shaped(p, shape)[n].part = Nobody
<1> DEFINE t == Shaped(p, shape)
<1>1. \A n \in Nodes : /\ ~File(p, n).dir /\ File(p, n).of = <<p, n>> /\ File(p, n).part = Nobody
                       /\ Folder(p).dir /\ Folder(p).of = <<p, Root>> /\ Folder(p).part = Nobody
  BY DEF File, Folder
<1>2. \A n \in Nodes : File(p, n) # None /\ Folder(p) # None
  <2>1. \A n \in Nodes : <<p, n>> \in Origins
    BY DEF Origins
  <2>2. \A n \in Nodes : File(p, n) \in Node
    BY <2>1 DEF File, Node
  <2>3. Folder(p) \in Node
    BY <2>1, RootNode DEF Folder, Node
  <2> QED
    BY <2>2, <2>3, TransferAssumption
<1>3. CASE shape = "absent"
  <2>1. t = Absent
    BY <1>3 DEF Shaped
  <2> QED
    BY <2>1, AbsentNodes, RootNode DEF WellFormed
<1>4. CASE shape = "file"
  <2>1. t = [Absent EXCEPT ![Root] = File(p, Root)]
    BY <1>4 DEF Shaped
  <2>2. t[Root] = File(p, Root) /\ \A k \in Nodes \ {Root} : t[k] = None
    BY <2>1, RootNode DEF Absent
  <2> HIDE DEF t
  <2>3. WellFormed(t) /\ \A n \in Nodes : t[n] # None => t[n].of = <<p, n>> /\ t[n].part = Nobody
    BY <1>1, <1>2, <2>2, RootNode DEF WellFormed
  <2> QED
    BY <2>3 DEF t
<1>5. CASE shape = "bare"
  <2>1. t = [Absent EXCEPT ![Root] = Folder(p)]
    BY <1>5 DEF Shaped
  <2>2. t[Root] = Folder(p) /\ \A k \in Nodes \ {Root} : t[k] = None
    BY <2>1, RootNode DEF Absent
  <2> HIDE DEF t
  <2>3. WellFormed(t) /\ \A n \in Nodes : t[n] # None => t[n].of = <<p, n>> /\ t[n].part = Nobody
    BY <1>1, <1>2, <2>2, RootNode DEF WellFormed
  <2> QED
    BY <2>3 DEF t
<1>6. CASE shape = "dir"
  <2>1. t = [n \in Nodes |-> IF n = Root THEN Folder(p) ELSE File(p, n)]
    BY <1>6 DEF Shaped
  <2>2. t[Root] = Folder(p) /\ \A k \in Nodes \ {Root} : t[k] = File(p, k)
    BY <2>1, RootNode
  <2> HIDE DEF t
  <2>3. WellFormed(t) /\ \A n \in Nodes : t[n] # None => t[n].of = <<p, n>> /\ t[n].part = Nobody
    BY <1>1, <1>2, <2>2, RootNode DEF WellFormed
  <2> QED
    BY <2>3 DEF t
<1> QED
  BY <1>3, <1>4, <1>5, <1>6

LEMMA InitKeep == Separate /\ Init => KeepInv
<1> SUFFICES ASSUME Separate, Init PROVE FilesInv /\ \A j \in Jobs : JobInv(j)
  BY DEF KeepInv
<1>1. PICK shape \in [Inputs \cup Slots -> {"absent", "file", "dir", "bare"}] :
        fs = [p \in Places |-> IF p \in Temps THEN Absent ELSE Shaped(p, shape[p])]
  BY DEF Init
<1>2. \A p \in Temps : fs[p] = Absent
  BY <1>1 DEF Places
<1>3. \A p \in Inputs \cup Slots :
        shape[p] \in {"absent", "file", "dir", "bare"} /\ fs[p] = Shaped(p, shape[p])
  BY <1>1, SlotsTemps, TransferAssumption DEF Places
<1>4. ASSUME NEW p \in Places
      PROVE  /\ WellFormed(fs[p])
             /\ \A n \in Nodes : fs[p][n] # None => fs[p][n].of = <<p, n>> /\ fs[p][n].part = Nobody
  <2>1. CASE p \in Temps
    BY <1>2, <2>1, AbsentNodes, RootNode DEF WellFormed
  <2>2. CASE p \in Inputs \cup Slots
    BY <1>3, <2>2, ShapedNodes
  <2> QED
    BY <2>1, <2>2 DEF Places
<1>5. FilesInv
  <2>1. \A s \in Inputs \ Slots : Pristine(s)
    BY <1>4 DEF Pristine, Places, Stranger
  <2>2. \A p \in Places, n \in Nodes : fs[p][n] # None => fs[p][n].of # Stranger
    BY <1>4 DEF Stranger
  <2> QED
    BY <1>4, <2>1, <2>2 DEF FilesInv
<1>6. ASSUME NEW j \in Jobs PROVE JobInv(j)
  <2>1. pc[j] = "prepare" /\ job[j].kind \in Kinds[j]
    BY DEF Init
  <2>2. /\ rt[j].left = Sources[j] /\ rt[j].copied = {} /\ rt[j].created = {}
        /\ rt[j].into = None
    BY DEF Init, Idle
  <2>3. Sources[j] \subseteq Inputs /\ None \notin Places
    BY TransferAssumption
  <2>4. SourceShape(j)
    BY <2>1, <2>2, <2>3 DEF SourceShape, AtSource, Fresh
  <2>5. RouteShape(j) /\ TodoShape(j) /\ CreatedShape(j)
    BY <2>1, <2>2 DEF RouteShape, TodoShape, CreatedShape, AtCopy, AtTarget, AtSource, Fresh
  <2>6. CopyInv(j) /\ RoomInv(j) /\ CreatedInv(j)
    BY <2>1, <2>2 DEF CopyInv, HasCopy, RoomInv, CreatedInv
  <2>7. BackupInv(j)
    BY <1>2, <2>1, <2>2, <2>3, Siblings DEF BackupInv, BeforeBackup
  <2> QED
    BY <2>4, <2>5, <2>6, <2>7 DEF JobInv, Shape
<1> QED
  BY <1>5, <1>6

\* A step of a job keeps what all the jobs have.
LEMMA JobsKeep ==
  ASSUME Separate, TypeInv, ExclusiveInv, KeepInv, NEW j \in Jobs, Step(j), ~exhausted'
  PROVE  Ready(j) /\ Keeps(j) /\ FilesInv' /\ \A k \in Jobs : JobInv(k)'
<1>1. OnlyMoves(j) /\ UNCHANGED envVars /\ ~exhausted
  BY StepFrame
<1>2. Ready(j) /\ \A k \in Jobs : JobInv(k)
  BY <1>1 DEF Ready, KeepInv
<1>3. Keeps(j)
  BY <1>2, StepKeeps
<1>4. ASSUME NEW k \in Jobs PROVE JobInv(k)'
  <2>1. Frame(j) /\ JobInv(j)'
    BY <1>3 DEF Keeps
  <2> QED
    BY <1>1, <1>2, <2>1, OtherJob
<1> QED
  BY <1>2, <1>3, <1>4 DEF Keeps

LEMMA NextKeep == Separate /\ TypeInv /\ ExclusiveInv /\ KeepInv /\ [Next]_vars => KeepInv'
<1> SUFFICES ASSUME Separate, TypeInv, ExclusiveInv, KeepInv, [Next]_vars, ~exhausted'
             PROVE  FilesInv' /\ \A k \in Jobs : JobInv(k)'
  BY DEF KeepInv
<1>1. CASE UNCHANGED vars \/ AllEnded
  <2>1. UNCHANGED <<fs, job, pc, rt, edits, strangers, exhausted>>
    BY <1>1 DEF AllEnded, vars
  <2>2. FilesInv /\ \A k \in Jobs : JobInv(k)
    BY <2>1 DEF KeepInv
  <2> QED
    BY <2>1, <2>2, SameFiles, SameJob
<1>2. CASE User
  <2>1. ~exhausted
    BY <1>2 DEF User, EditInput, CreateStranger, RequestCancel, TogglePause
  <2> QED
    BY <1>2, <2>1, UserKeeps DEF KeepInv
<1>3. CASE \E j \in Jobs : Step(j)
  BY <1>3, JobsKeep
<1> QED
  BY <1>1, <1>2, <1>3 DEF Next

-----------------------------------------------------------------------------
(* What the program promises.                                               *)

LEMMA NextContent ==
  ASSUME Separate, TypeInv, ExclusiveInv, KeepInv, [Next]_vars, ~exhausted'
  PROVE  UsersKept \/ \E j \in Jobs : Replaces(j) \/ Overlooks(j)
<1>1. CASE UNCHANGED vars \/ AllEnded
  BY <1>1, KeepsNodes DEF AllEnded, vars
<1>2. CASE User
  <2>1. ~exhausted
    BY <1>2 DEF User, EditInput, CreateStranger, RequestCancel, TogglePause
  <2> QED
    BY <1>2, <2>1, UserKeeps DEF KeepInv
<1>3. CASE \E j \in Jobs : Step(j)
  BY <1>3, JobsKeep DEF Keeps
<1> QED
  BY <1>1, <1>2, <1>3 DEF Next

\* Whatever jobs run side by side, fail, pause and are cancelled, and whatever the
\* user and other programs do meanwhile, no step destroys the last durable copy of
\* a version the user has saved, except a finished replacement and what the user saves
\* at a source between a move's last look at it and its removal.
THEOREM UserContentIsKept == ASSUME Separate PROVE Spec => UserContentKept
<1>1. TypeInv /\ ExclusiveInv /\ KeepInv /\ [Next]_vars =>
        [~exhausted' => UsersKept \/ \E j \in Jobs : Replaces(j) \/ Overlooks(j)]_vars
  BY NextContent
<1>2. Init => KeepInv
  BY InitKeep
<1>3. TypeInv /\ ExclusiveInv /\ KeepInv /\ [Next]_vars => KeepInv'
  BY NextKeep
<1> QED
  BY <1>1, <1>2, <1>3, InitTypes, NextTypes, InitExclusive, NextExclusive, PTL
     DEF Spec, UserContentKept, UsersKept

\* And when no other program writes into the destination, no file at all is lost.
THEOREM NothingIsLost == ASSUME Separate, MaxStrangers = 0 PROVE Spec => NothingLost
<1>1. TypeInv /\ ExclusiveInv /\ KeepInv /\ [Next]_vars =>
        [~exhausted' => Gone = {} \/ \E j \in Jobs : Replaces(j) \/ Overlooks(j)]_vars
  <2> SUFFICES ASSUME TypeInv, ExclusiveInv, KeepInv, [Next]_vars, ~exhausted'
               PROVE  Gone = {} \/ \E j \in Jobs : Replaces(j) \/ Overlooks(j)
    OBVIOUS
  <2>1. strangers = 0
    BY DEF TypeInv, TypeOK
  <2>2. exhausted => exhausted'
    BY StepFrame DEF Next, User, EditInput, CreateStranger, RequestCancel, TogglePause,
                     AllEnded, vars
  <2>3. \A c \in Kept : c[1] # Stranger
    <3>1. FilesInv
      BY <2>2 DEF KeepInv
    <3>2. \A p \in Places, n \in Nodes : \A c : KeptAt(p, n, c) => c[1] # Stranger
      BY <2>1, <3>1 DEF FilesInv, KeptAt, Solid
    <3> QED
      BY <3>2, KeptIff
  <2>4. UsersKept => Gone = {}
    <3>1. Gone \subseteq Kept
      BY Zenon DEF Gone
    <3> QED
      BY <2>3, <3>1 DEF UsersKept
  <2> QED
    BY <2>4, NextContent
<1>2. Init => KeepInv
  BY InitKeep
<1>3. TypeInv /\ ExclusiveInv /\ KeepInv /\ [Next]_vars => KeepInv'
  BY NextKeep
<1> QED
  BY <1>1, <1>2, <1>3, InitTypes, NextTypes, InitExclusive, NextExclusive, PTL
     DEF Spec, NothingLost

\* Only CompleteRoot records a root.
LEMMA RootsStay ==
  ASSUME TypeInv, NEW j \in Jobs, Step(j), ~CompleteRoot(j)
  PROVE  \A k \in Jobs : rt'[k].roots = rt[k].roots
<1> USE Moved, Facts
<1>0. rt[j] \in Runtime
  OBVIOUS
<1> SUFFICES rt'[j].roots = rt[j].roots
  BY StepFrame DEF OnlyMoves
<1>1. CASE rt' = rt
  BY <1>1
<1>2. ASSUME NEW w, NEW x, NEW y, NEW z,
             \/ Update(j, [rt[j] EXCEPT !.left = x, !.src = y, !.into = z])
             \/ Update(j, [rt[j] EXCEPT !.target = x])
             \/ Update(j, [rt[j] EXCEPT !.held = x, !.todo = y, !.into = z])
             \/ Update(j, [rt[j] EXCEPT !.todo = x, !.created = y, !.copied = z])
             \/ Update(j, [rt[j] EXCEPT !.node = x, !.snap = y, !.created = z])
             \/ Update(j, [rt[j] EXCEPT !.todo = w, !.node = x, !.snap = y, !.copied = z])
             \/ Update(j, [rt[j] EXCEPT !.todo = x, !.node = y, !.snap = z])
             \/ Update(j, [rt[j] EXCEPT !.node = x, !.snap = y])
             \/ Update(j, [rt[j] EXCEPT !.err = x])
             \/ Update(j, [rt[j] EXCEPT !.created = x])
             \/ Update(j, [rt[j] EXCEPT !.held = x])
      PROVE  rt'[j].roots = rt[j].roots
  <2>1. /\ [rt[j] EXCEPT !.left = x, !.src = y, !.into = z].roots = rt[j].roots
        /\ [rt[j] EXCEPT !.target = x].roots = rt[j].roots
        /\ [rt[j] EXCEPT !.held = x, !.todo = y, !.into = z].roots = rt[j].roots
        /\ [rt[j] EXCEPT !.todo = x, !.created = y, !.copied = z].roots = rt[j].roots
        /\ [rt[j] EXCEPT !.node = x, !.snap = y, !.created = z].roots = rt[j].roots
        /\ [rt[j] EXCEPT !.todo = w, !.node = x, !.snap = y, !.copied = z].roots = rt[j].roots
        /\ [rt[j] EXCEPT !.todo = x, !.node = y, !.snap = z].roots = rt[j].roots
        /\ [rt[j] EXCEPT !.node = x, !.snap = y].roots = rt[j].roots
        /\ [rt[j] EXCEPT !.err = x].roots = rt[j].roots
        /\ [rt[j] EXCEPT !.created = x].roots = rt[j].roots
        /\ [rt[j] EXCEPT !.held = x].roots = rt[j].roots
    BY <1>0 DEF Runtime
  <2> QED
    BY <1>2, <2>1
<1>3. CASE Prepare(j) \/ EndOfSources(j) \/ Rename(j) \/ SetAside(j) \/ Install(j)
           \/ Unstage(j) \/ Cleanup(j) \/ SkipSameFile(j)
  BY <1>3, <1>1 DEF Prepare, EndOfSources, Rename, SetAside, Install, Unstage, Cleanup,
                    SkipSameFile
<1>4. CASE NextSource(j)
  <2>1. PICK s : Update(j, [rt[j] EXCEPT !.left = @ \ {s}, !.src = s, !.into = None])
    BY <1>4 DEF NextSource
  <2> QED
    BY <1>2, <2>1
<1>5. CASE ReserveDestination(j)
  BY <1>1, <1>2, <1>5 DEF ReserveDestination
<1>6. CASE ChooseRoute(j)
  <2>1. PICK x, y, z : Update(j, [rt[j] EXCEPT !.held = x, !.todo = y, !.into = z])
    BY <1>6 DEF ChooseRoute
  <2> QED
    BY <1>2, <2>1
<1>7. CASE CopyFolder(j)
  <2>1. PICK x, y, z : Update(j, [rt[j] EXCEPT !.todo = x, !.created = y, !.copied = z])
    BY <1>7 DEF CopyFolder
  <2> QED
    BY <1>2, <2>1
<1>8. CASE CreateFile(j)
  <2>1. PICK x, y, z : Update(j, [rt[j] EXCEPT !.node = x, !.snap = y, !.created = z])
    BY <1>8 DEF CreateFile
  <2> QED
    BY <1>2, <2>1
<1>9. CASE WriteFile(j)
  <2>1. PICK w, z : Update(j, [rt[j] EXCEPT !.todo = w, !.node = None, !.snap = None, !.copied = z])
    BY <1>9 DEF WriteFile
  <2> QED
    BY <1>2, <2>1
<1>10. (Committed(j)).roots = rt[j].roots
  BY <1>0 DEF Committed, Runtime
<1>11. CASE Sync(j) \/ ReplaceFile(j) \/ DropBackup(j)
  BY <1>1, <1>10, <1>11 DEF Sync, ReplaceFile, DropBackup
<1>12. CASE Rollback(j)
  BY <1>2, <1>12 DEF Rollback
<1>18. CASE VerifySource(j)
  <2>1. PICK x, y : Update(j, [rt[j] EXCEPT !.node = x, !.snap = y])
    BY <1>18 DEF VerifySource
  <2> QED
    BY <1>2, <2>1
<1>13. CASE UnlinkSource(j)
  <2>1. PICK x : Update(j, [rt[j] EXCEPT !.todo = x, !.node = None, !.snap = None])
    BY <1>13 DEF UnlinkSource
  <2> QED
    BY <1>2, <2>1
<1>14. CASE Sweep(j)
  <2>1. CASE rt' # rt
    <3>1. PICK x : Update(j, [rt[j] EXCEPT !.created = x])
      BY <1>14, <2>1 DEF Sweep
    <3> QED
      BY <1>2, <3>1
  <2> QED
    BY <1>1, <2>1
<1>15. CASE Release(j)
  BY <1>2, <1>15 DEF Release
<1>16. CASE Report(j)
  BY <1>16 DEF Report, Idle
<1>17. CASE Abort(j) \/ Fault(j)
  <2>1. PICK e : Fail(j, e)
    BY <1>17 DEF Abort, Fault
  <2> QED
    BY <1>2, <2>1 DEF Fail
<1> QED
  BY <1>3, <1>4, <1>5, <1>6, <1>7, <1>8, <1>9, <1>10, <1>11, <1>12, <1>13, <1>14, <1>15, <1>16, <1>17,
     <1>18 DEF Step

\* A root whose copy has been made has it whole at the target.
LEMMA RootIsComplete ==
  ASSUME NEW j \in Jobs, Ready(j), CompleteRoot(j), Inputs \cap Slots = {},
         NEW r \in rt'[j].roots \ rt[j].roots
  PROVE  /\ Exists(r[2])'
         /\ \A n \in Nodes : fs'[r[2]][n] # None => fs'[r[2]][n].part = Nobody
         /\ edits = 0 => \A n \in Nodes : fs'[r[1]][n] # None => fs'[r[2]][n] # None
<1>1. pc[j] = "complete" /\ fs' = fs
  BY DEF CompleteRoot
<1>2. r = <<rt[j].src, rt[j].target>>
  <2> DEFINE x == Unprotected(j, rt[j].target)
             y == IF j \in Portable THEN rt[j].roots
                  ELSE rt[j].roots \cup {<<rt[j].src, rt[j].target>>}
  <2>1. rt[j] \in Runtime
    BY Facts DEF Ready
  <2>2. rt'[j] = [rt[j] EXCEPT !.created = x, !.roots = y]
    BY Moved DEF CompleteRoot, Ready
  <2>3. rt'[j].roots = y
    <3> HIDE DEF x, y
    <3> QED
      BY <2>1, <2>2 DEF Runtime
  <2> QED
    BY <2>3
<1>3. PICK d \in Places : d = rt[j].target /\ Copies(j, d)
  BY <1>1 DEF Ready, JobInv, Shape, RouteShape, CopyInv, HasCopy, CopyAt
<1>4. /\ Exists(d) /\ \A n \in Nodes : fs[d][n] # None => fs[d][n].part = Nobody
      /\ edits = 0 => \A n \in Nodes : fs[rt[j].src][n] # None => fs[d][n] # None
  BY <1>1, <1>3 DEF Copies, Settled, Covered, Open
<1>5. r[1] = rt[j].src /\ r[2] = d
  BY <1>2, <1>3
<1> QED
  BY <1>1, <1>4, <1>5 DEF Exists

\* A root that a job records as completed is complete at its target: nothing there
\* is half written and, unless the user edits it, nothing of the source is missing;
\* for jobs that do not read from the folder they write to.
THEOREM RootsAreComplete ==
  ASSUME Separate, Inputs \cap Slots = {}
  PROVE  Spec => CompletedRootsComplete
<1> DEFINE Completes ==
      ~exhausted' => \A j \in Jobs : \A r \in rt'[j].roots \ rt[j].roots :
        /\ Exists(r[2])'
        /\ \A n \in Nodes : fs'[r[2]][n] # None => fs'[r[2]][n].part = Nobody
        /\ edits = 0 => \A n \in Nodes : fs'[r[1]][n] # None => fs'[r[2]][n] # None
<1>1. TypeInv /\ ExclusiveInv /\ KeepInv /\ [Next]_vars => [Completes]_vars
  <2> SUFFICES ASSUME TypeInv, ExclusiveInv, KeepInv, [Next]_vars, ~exhausted',
                      NEW j \in Jobs, NEW r \in rt'[j].roots \ rt[j].roots
               PROVE  /\ Exists(r[2])'
                      /\ \A n \in Nodes : fs'[r[2]][n] # None => fs'[r[2]][n].part = Nobody
                      /\ edits = 0 => \A n \in Nodes : fs'[r[1]][n] # None => fs'[r[2]][n] # None
    OBVIOUS
  <2>1. rt' # rt
    OBVIOUS
  <2>2. PICK k \in Jobs : Step(k)
    BY <2>1 DEF Next, User, EditInput, CreateStranger, RequestCancel, TogglePause, AllEnded, vars
  <2>3. k = j /\ CompleteRoot(j)
    <3>1. CompleteRoot(k)
      BY <2>2, RootsStay
    <3>2. OnlyMoves(k)
      BY <2>2, StepFrame
    <3> QED
      BY <3>1, <3>2 DEF OnlyMoves
  <2>4. Ready(j)
    BY <2>2, <2>3, JobsKeep
  <2> QED
    BY <2>3, <2>4, RootIsComplete
<1>2. Init => KeepInv
  BY InitKeep
<1>3. TypeInv /\ ExclusiveInv /\ KeepInv /\ [Next]_vars => KeepInv'
  BY NextKeep
<1> QED
  BY <1>1, <1>2, <1>3, InitTypes, NextTypes, InitExclusive, NextExclusive, PTL
     DEF Spec, CompletedRootsComplete
=============================================================================
