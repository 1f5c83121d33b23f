------------------------ MODULE TransferEngine_proofs ------------------------
(* Proofs about TransferEngine: its type invariant and the exclusiveness of *)
(* the reservations, for any jobs, sources, names and processes.            *)
EXTENDS TransferEngine, TLAPS

-----------------------------------------------------------------------------
(* The type invariant alone is not inductive: a step that reads the current *)
(* source, target or copy needs to know that there is one.                  *)

AtSource == {"reserve", "same", "rename", "copy", "write", "sync", "commit", "install",
             "rollback", "dropbackup", "verify", "unlink", "complete"}
AtTarget == AtSource \ {"reserve"}
AtCopy   == AtTarget \ {"same"}

Located(j) ==
  /\ pc[j] \in AtSource => rt[j].src \in Inputs
  /\ pc[j] \in AtTarget => rt[j].target \in Slots
  /\ pc[j] \in AtCopy => rt[j].into \in Places
  /\ pc[j] \in {"write", "unlink"} => rt[j].node \in Nodes

TypeInv == TypeOK /\ \A j \in Jobs : Located(j)

\* A tree stays a tree when a place is given a new one, or a node a new value.
LEMMA PutTree ==
  ASSUME NEW f \in [Places -> Tree], NEW p, NEW t \in Tree
  PROVE  [f EXCEPT ![p] = t] \in [Places -> Tree]
  OBVIOUS

LEMMA PutNode ==
  ASSUME NEW f \in [Places -> Tree], NEW p, NEW n, NEW v \in Node \cup {None}
  PROVE  [f EXCEPT ![p][n] = v] \in [Places -> Tree]
<1>1. CASE p \in Places
  <2>1. f[p] \in Tree
    BY <1>1
  <2>2. [f[p] EXCEPT ![n] = v] \in Tree
    BY <2>1 DEF Tree
  <2> QED
    BY <2>2
<1>2. CASE p \notin Places
  BY <1>2
<1> QED
  BY <1>1, <1>2

LEMMA AbsentTree == Absent \in Tree
  BY DEF Absent, Tree

LEMMA RenamedTree ==
  ASSUME fs \in [Places -> Tree], NEW p \in Places, NEW q
  PROVE  Renamed(p, q) \in [Places -> Tree]
<1>1. fs[p] \in Tree
  OBVIOUS
<1>2. [fs EXCEPT ![q] = fs[p]] \in [Places -> Tree]
  BY <1>1, PutTree
<1>3. [[fs EXCEPT ![q] = fs[p]] EXCEPT ![p] = Absent] \in [Places -> Tree]
  BY <1>2, AbsentTree, PutTree
<1> QED
  BY <1>3 DEF Renamed

\* What a step of job j owes the invariant: its new label and runtime have their
\* types, and the runtime has what the new label needs.
Fits(r, label) ==
  /\ r \in Runtime
  /\ label \in Labels \cup Outcomes
  /\ label \in AtSource => r.src \in Inputs
  /\ label \in AtTarget => r.target \in Slots
  /\ label \in AtCopy => r.into \in Places
  /\ label \in {"write", "unlink"} => r.node \in Nodes

LEMMA StepTypes ==
  ASSUME TypeInv, NEW j \in Jobs, NEW r, NEW label,
         Fits(r, label), Update(j, r), Goto(j, label),
         fs' \in [Places -> Tree], reserved' \in [Procs -> SUBSET Slots],
         exhausted' \in BOOLEAN, UNCHANGED envVars
  PROVE  TypeInv'
<1>1. pc' \in [Jobs -> Labels \cup Outcomes] /\ rt' \in [Jobs -> Runtime]
  BY DEF TypeInv, TypeOK, Fits, Update, Goto
<1>2. TypeOK'
  BY <1>1 DEF TypeInv, TypeOK, envVars
<1>3. ASSUME NEW k \in Jobs PROVE Located(k)'
  <2>1. CASE k = j
    <3>1. pc'[j] = label /\ rt'[j] = r
      BY DEF TypeInv, TypeOK, Update, Goto
    <3> QED
      BY <2>1, <3>1 DEF Located, Fits
  <2>2. CASE k # j
    <3>1. pc'[k] = pc[k] /\ rt'[k] = rt[k]
      BY <2>2 DEF TypeInv, TypeOK, Update, Goto
    <3> QED
      BY <3>1 DEF TypeInv, Located
  <2> QED
    BY <2>1, <2>2
<1> QED
  BY <1>2, <1>3 DEF TypeInv

LEMMA IdleRuntime ==
  ASSUME NEW l \in SUBSET Inputs, NEW q \in SUBSET (Inputs \X Slots)
  PROVE  /\ [Idle EXCEPT !.left = l] \in Runtime
         /\ [Idle EXCEPT !.roots = q] \in Runtime
  BY DEF Idle, Runtime

LEMMA InitTypes == Init => TypeInv
<1> SUFFICES ASSUME Init PROVE TypeInv
  OBVIOUS
<1> USE TransferAssumption
<1>1. fs \in [Places -> Tree]
  <2>1. PICK shape \in [Inputs \cup Slots -> {"absent", "file", "dir", "bare"}] :
          fs = [p \in Places |-> IF p \in Temps THEN Absent ELSE Shaped(p, shape[p])]
    BY DEF Init
  <2>2. ASSUME NEW p \in Places, p \notin Temps PROVE Shaped(p, shape[p]) \in Tree
    <3>1. p \in Inputs \cup Slots /\ shape[p] \in {"absent", "file", "dir", "bare"}
      BY <2>2 DEF Places
    <3>2. Folder(p) \in Node /\ \A n \in Nodes : File(p, n) \in Node
      BY DEF Folder, File, Node, Origins, Nodes
    <3> QED
      BY <3>1, <3>2, AbsentTree DEF Shaped, Tree, Absent
  <2> QED
    BY <2>1, <2>2, AbsentTree
<1>2. rt \in [Jobs -> Runtime]
  BY IdleRuntime DEF Init
<1>3. TypeOK
  <2>1. edits \in 0..MaxEdits /\ strangers \in 0..MaxStrangers
    BY DEF Init
  <2>2. pc \in [Jobs -> Labels \cup Outcomes]
    BY DEF Init, Labels
  <2>3. /\ reserved \in [Procs -> SUBSET Slots]
        /\ job \in [Jobs -> [kind: {"Copy", "Move"}, policy: {"Replace", "Skip", "KeepBoth"}]]
        /\ cancel \in [Jobs -> BOOLEAN] /\ pause \in [Jobs -> BOOLEAN]
        /\ exhausted \in BOOLEAN
    BY DEF Init
  <2> QED
    BY <1>1, <1>2, <2>1, <2>2, <2>3 DEF TypeOK
<1>4. ASSUME NEW j \in Jobs PROVE Located(j)
  BY DEF Init, Located, AtSource, AtTarget, AtCopy
<1> QED
  BY <1>3, <1>4 DEF TypeInv
-----------------------------------------------------------------------------
(* Every step of a job preserves the type invariant.                        *)

LEMMA Facts ==
  ASSUME TypeInv, NEW j \in Jobs
  PROVE  /\ fs \in [Places -> Tree] /\ reserved \in [Procs -> SUBSET Slots]
         /\ exhausted \in BOOLEAN /\ rt[j] \in Runtime
         /\ pc[j] \in Labels \cup Outcomes
         /\ pc[j] \in AtSource => rt[j].src \in Inputs
         /\ pc[j] \in AtTarget => rt[j].target \in Slots
         /\ pc[j] \in AtCopy => rt[j].into \in Places
         /\ pc[j] \in {"write", "unlink"} => rt[j].node \in Nodes
         /\ rt = [rt EXCEPT ![j] = rt[j]] /\ pc = [pc EXCEPT ![j] = pc[j]]
  BY DEF TypeInv, TypeOK, Located

\* A field of a runtime may take any value of its type.
LEMMA PutRuntime ==
  ASSUME NEW r \in Runtime
  PROVE  /\ \A x \in SUBSET Inputs : [r EXCEPT !.left = x] \in Runtime
         /\ \A x \in Inputs : [r EXCEPT !.src = x] \in Runtime
         /\ \A x \in Slots : [r EXCEPT !.target = x] \in Runtime
         /\ \A x \in Places \cup {None} : [r EXCEPT !.into = x] \in Runtime
         /\ \A x \in SUBSET Nodes : [r EXCEPT !.todo = x] \in Runtime
         /\ \A x \in Nodes \cup {None} : [r EXCEPT !.node = x] \in Runtime
         /\ \A x \in Node \cup {None} : [r EXCEPT !.snap = x] \in Runtime
         /\ \A x \in SUBSET (Places \X Nodes) : [r EXCEPT !.created = x] \in Runtime
         /\ \A x \in SUBSET Slots : [r EXCEPT !.held = x] \in Runtime
         /\ \A x \in SUBSET Snapshot : [r EXCEPT !.copied = x] \in Runtime
         /\ \A x \in SUBSET (Inputs \X Slots) : [r EXCEPT !.roots = x] \in Runtime
         /\ \A x \in {"none", "error", "pending"} : [r EXCEPT !.err = x] \in Runtime
<1>1. \A x \in SUBSET Inputs : [r EXCEPT !.left = x] \in Runtime
  BY DEF Runtime
<1>2. \A x \in Inputs : [r EXCEPT !.src = x] \in Runtime
  BY DEF Runtime
<1>3. \A x \in Slots : [r EXCEPT !.target = x] \in Runtime
  BY DEF Runtime
<1>4. \A x \in Places \cup {None} : [r EXCEPT !.into = x] \in Runtime
  BY DEF Runtime
<1>5. \A x \in SUBSET Nodes : [r EXCEPT !.todo = x] \in Runtime
  BY DEF Runtime
<1>6. \A x \in Nodes \cup {None} : [r EXCEPT !.node = x] \in Runtime
  BY DEF Runtime
<1>7. \A x \in Node \cup {None} : [r EXCEPT !.snap = x] \in Runtime
  BY DEF Runtime
<1>8. \A x \in SUBSET (Places \X Nodes) : [r EXCEPT !.created = x] \in Runtime
  BY DEF Runtime
<1>9. \A x \in SUBSET Slots : [r EXCEPT !.held = x] \in Runtime
  BY DEF Runtime
<1>10. \A x \in SUBSET Snapshot : [r EXCEPT !.copied = x] \in Runtime
  BY DEF Runtime
<1>11. \A x \in SUBSET (Inputs \X Slots) : [r EXCEPT !.roots = x] \in Runtime
  BY DEF Runtime
<1>12. \A x \in {"none", "error", "pending"} : [r EXCEPT !.err = x] \in Runtime
  BY DEF Runtime
<1> QED
  BY <1>1, <1>2, <1>3, <1>4, <1>5, <1>6, <1>7, <1>8, <1>9, <1>10, <1>11, <1>12

LEMMA FailTypes ==
  ASSUME TypeInv, NEW j \in Jobs, NEW e \in {"none", "error", "pending"}, Fail(j, e)
  PROVE  TypeInv'
<1> DEFINE r == [rt[j] EXCEPT !.err = e]
           label == IF Staged(j) THEN "unstage" ELSE Exit(j)
<1>1. Fits(r, label)
  BY Facts DEF Fits, Runtime, Exit, Labels, AtSource, AtTarget, AtCopy
<1> QED
  BY <1>1, StepTypes, Facts DEF Fail, envVars

\* A step that only moves to a label which needs nothing of the runtime.
LEMMA MoveOn ==
  ASSUME TypeInv, NEW j \in Jobs, NEW label \in (Labels \cup Outcomes) \ AtSource,
         Goto(j, label), rt' = rt, UNCHANGED <<reserved, exhausted, envVars>>,
         fs' \in [Places -> Tree]
  PROVE  TypeInv'
<1>1. Fits(rt[j], label)
  BY Facts DEF Fits, AtSource, AtTarget, AtCopy
<1>2. Update(j, rt[j])
  BY Facts DEF Update
<1> QED
  BY <1>1, <1>2, StepTypes, Facts

\* The same for a step that moves on with the source, target and copy it has.
LEMMA CarryOn ==
  ASSUME TypeInv, NEW j \in Jobs, pc[j] \in AtCopy,
         NEW label \in AtCopy \ {"write", "unlink"},
         Goto(j, label), rt' = rt, UNCHANGED <<reserved, exhausted, envVars>>,
         fs' \in [Places -> Tree]
  PROVE  TypeInv'
<1>1. Fits(rt[j], label)
  BY Facts DEF Fits, AtSource, AtTarget, AtCopy, Labels
<1>2. Update(j, rt[j])
  BY Facts DEF Update
<1> QED
  BY <1>1, <1>2, StepTypes, Facts

LEMMA PrepareTypes == ASSUME TypeInv, NEW j \in Jobs, Prepare(j) PROVE TypeInv'
  BY MoveOn, Facts DEF Prepare, envVars, Labels, AtSource

LEMMA NextSourceTypes == ASSUME TypeInv, NEW j \in Jobs, NextSource(j) PROVE TypeInv'
<1>1. PICK s \in rt[j].left :
        /\ Update(j, [rt[j] EXCEPT !.left = @ \ {s}, !.src = s, !.into = None])
        /\ Goto(j, IF Exists(s) THEN "reserve" ELSE "next")
  BY DEF NextSource
<1> DEFINE r == [rt[j] EXCEPT !.left = @ \ {s}, !.src = s, !.into = None]
           label == IF Exists(s) THEN "reserve" ELSE "next"
<1>2. r \in Runtime /\ r.src \in Inputs
  <2>1. rt[j] \in Runtime /\ rt[j].left \ {s} \in SUBSET Inputs /\ s \in Inputs
    BY <1>1, Facts DEF Runtime
  <2>2. [[[rt[j] EXCEPT !.left = rt[j].left \ {s}] EXCEPT !.src = s] EXCEPT !.into = None] \in Runtime
    BY <2>1, PutRuntime
  <2>3. r = [[[rt[j] EXCEPT !.left = rt[j].left \ {s}] EXCEPT !.src = s] EXCEPT !.into = None]
    BY <2>1 DEF Runtime
  <2> QED
    BY <2>1, <2>2, <2>3 DEF Runtime
<1>3. Fits(r, label)
  BY <1>2 DEF Fits, Labels, AtSource, AtTarget, AtCopy
<1> QED
  BY <1>1, <1>3, StepTypes, Facts DEF NextSource, envVars

LEMMA EndOfSourcesTypes == ASSUME TypeInv, NEW j \in Jobs, EndOfSources(j) PROVE TypeInv'
  BY MoveOn, Facts DEF EndOfSources, Exit, envVars, Labels, AtSource

\* Every target the conflict policies yield is a slot.
LEMMA ResolveSlots ==
  ASSUME NEW policy \in {"Replace", "Skip", "KeepBoth"}, NEW b \in Bases, NEW r
  PROVE  ResolveConflict(policy, b, r) \subseteq Slots
<1>1. <<b, 1>> \in Slots
  BY TransferAssumption DEF Slots
<1>2. ASSUME NEW t \in UniqueDestination(b, r) PROVE t \in Slots
  <2>1. t = <<b, 1>> \/ \E i \in FreeIndexes(b, r) : t = <<b, i>>
    BY DEF UniqueDestination
  <2>2. FreeIndexes(b, r) \subseteq 1..MaxIndex
    BY DEF FreeIndexes
  <2> QED
    BY <1>1, <2>1, <2>2 DEF Slots
<1> QED
  BY <1>1, <1>2 DEF ResolveConflict

LEMMA ReserveTypes == ASSUME TypeInv, NEW j \in Jobs, ReserveDestination(j) PROVE TypeInv'
<1> DEFINE b == NameOf[rt[j].src]
           q == reserved[ProcOf[j]]
           targets == ResolveConflict(job[j].policy, b, q)
<1>1. rt[j].src \in Inputs /\ b \in Bases
  BY Facts, TransferAssumption DEF ReserveDestination, AtSource
<1>2. targets \subseteq Slots
  BY <1>1, ResolveSlots DEF TypeInv, TypeOK
<1>3. CASE targets = {} /\ Goto(j, "next") /\ UNCHANGED <<reserved, rt, exhausted>>
  BY <1>3, MoveOn, Facts DEF ReserveDestination, Labels, AtSource, envVars
<1>4. ASSUME NEW t \in targets,
             reserved' = [reserved EXCEPT ![ProcOf[j]] = @ \cup {t}],
             exhausted' = (exhausted \/ RunsOut(job[j].policy, b, q)),
             Update(j, [rt[j] EXCEPT !.target = t]), Goto(j, "same")
      PROVE  TypeInv'
  <2>1. Fits([rt[j] EXCEPT !.target = t], "same")
    BY <1>1, <1>2, Facts DEF Fits, Runtime, Labels, AtSource, AtTarget, AtCopy
  <2>2. reserved' \in [Procs -> SUBSET Slots]
    BY <1>2, <1>4, Facts
  <2> QED
    BY <1>4, <2>1, <2>2, StepTypes, Facts DEF ReserveDestination, envVars
<1> QED
  BY <1>3, <1>4 DEF ReserveDestination

LEMMA SkipTypes == ASSUME TypeInv, NEW j \in Jobs, SkipSameFile(j) PROVE TypeInv'
<1>1. Fits(rt[j], "next") /\ Update(j, rt[j])
  BY Facts DEF Fits, Labels, AtSource, AtTarget, AtCopy, SkipSameFile, Update
<1>2. reserved' \in [Procs -> SUBSET Slots]
  BY Facts DEF SkipSameFile
<1> QED
  BY <1>1, <1>2, StepTypes, Facts DEF SkipSameFile, envVars

LEMMA StagingPlace ==
  ASSUME NEW j \in Jobs, rt[j].src \in Inputs
  PROVE  Staging(j) \in Places /\ Backup(j) \in Places
  BY DEF Staging, Backup, Places, Temps

LEMMA ChooseTypes == ASSUME TypeInv, NEW j \in Jobs, ChooseRoute(j) PROVE TypeInv'
<1> DEFINE t == rt[j].target
           replacing == job[j].policy = "Replace" /\ Exists(t)
           r == [rt[j] EXCEPT !.held = @ \cup {t}, !.todo = {Root},
                              !.into = IF replacing THEN Staging(j) ELSE t]
           label == IF job[j].kind = "Move" /\ ~replacing /\ j \notin Portable
                    THEN "rename" ELSE "copy"
<1>1. rt[j].src \in Inputs /\ t \in Slots
  BY Facts DEF ChooseRoute, AtSource, AtTarget
<1>2. Staging(j) \in Places /\ t \in Places
  BY <1>1, StagingPlace DEF Places
<1>3. r \in Runtime
  <2>1. rt[j].held \cup {t} \in SUBSET Slots /\ {Root} \in SUBSET Nodes
    BY <1>1, Facts DEF Runtime, Nodes
  <2>2. (IF replacing THEN Staging(j) ELSE t) \in Places
    BY <1>2
  <2> DEFINE into == IF replacing THEN Staging(j) ELSE t
             chain == [[[rt[j] EXCEPT !.held = rt[j].held \cup {t}] EXCEPT !.todo = {Root}]
                        EXCEPT !.into = into]
  <2>3. chain \in Runtime
    <3> HIDE DEF into
    <3> QED
      BY <2>1, <2>2, Facts, PutRuntime DEF into
  <2>4. r = chain
    BY Facts DEF Runtime
  <2> QED
    BY <2>3, <2>4
<1>4. Fits(r, label)
  BY <1>1, <1>2, <1>3, Facts DEF Runtime, Fits, Labels, AtSource, AtTarget, AtCopy
<1> QED
  BY <1>4, StepTypes, Facts DEF ChooseRoute, envVars

LEMMA RenameTypes == ASSUME TypeInv, NEW j \in Jobs, Rename(j) PROVE TypeInv'
<1>1. pc[j] \in AtCopy /\ rt[j].src \in Inputs
  BY Facts DEF Rename, AtSource, AtTarget, AtCopy
<1>2. Renamed(rt[j].src, rt[j].target) \in [Places -> Tree]
  BY <1>1, RenamedTree, Facts DEF Places
<1>3. fs' \in [Places -> Tree]
  BY <1>2, Facts DEF Rename
<1>4. Goto(j, "complete") \/ Goto(j, "copy")
  BY DEF Rename
<1>5. {"complete", "copy"} \subseteq AtCopy \ {"write", "unlink"}
  BY DEF AtSource, AtTarget, AtCopy
<1> QED
  BY <1>1, <1>3, <1>4, <1>5, CarryOn DEF Rename, envVars
\* The tree operations of the steps, and the sets of nodes they record.
LEMMA SyncedTree ==
  ASSUME fs \in [Places -> Tree], NEW p \in Places
  PROVE  Synced(p) \in Tree
<1>1. \A n \in Nodes : fs[p][n] \in Node \cup {None}
  BY DEF Tree
<1>2. \A v \in Node : [v EXCEPT !.safe = TRUE] \in Node
  BY DEF Node
<1> QED
  BY <1>1, <1>2 DEF Synced, Tree

LEMMA NodeSets ==
  ASSUME TypeInv, NEW j \in Jobs
  PROVE  /\ \A p : KidsAt(p) \in SUBSET Nodes
         /\ \A t : Unprotected(j, t) \in SUBSET (Places \X Nodes)
         /\ Removable(j) \in SUBSET Nodes
<1>1. rt[j].created \in SUBSET (Places \X Nodes) /\ rt[j].copied \in SUBSET Snapshot
  BY Facts DEF Runtime
<1> QED
  BY <1>1 DEF KidsAt, Unprotected, Removable, Snapshot, Nodes

LEMMA SnapshotTypes ==
  ASSUME TypeInv, NEW j \in Jobs, rt[j].src \in Inputs, NEW n \in Nodes
  PROVE  /\ fs[rt[j].src][n] \in Node \cup {None}
         /\ Snapshots(j, n) \in SUBSET Snapshot
<1>1. fs[rt[j].src] \in Tree
  BY Facts DEF Places
<1>2. fs[rt[j].src][n] \in Node \cup {None}
  BY <1>1 DEF Tree
<1> QED
  BY <1>2 DEF Snapshots, Snapshot

LEMMA AfterNodeLabels ==
  ASSUME NEW j, NEW rest
  PROVE  AfterNode(j, rest) \in {"copy", "sync", "complete"}
  BY DEF AfterNode, Copied

LEMMA CopyFolderTypes == ASSUME TypeInv, NEW j \in Jobs, CopyFolder(j) PROVE TypeInv'
<1> DEFINE s == rt[j].src  d == rt[j].into
           kids == KidsAt(s)
           made == rt[j].created \cup {<<d, Root>>}
           snaps == rt[j].copied \cup Snapshots(j, Root)
           r == [rt[j] EXCEPT !.todo = kids, !.created = @ \cup {<<d, Root>>},
                              !.copied = @ \cup Snapshots(j, Root)]
           chain == [[[rt[j] EXCEPT !.todo = kids] EXCEPT !.created = made]
                      EXCEPT !.copied = snaps]
           label == AfterNode(j, kids)
<1>1. /\ s \in Inputs /\ d \in Places /\ rt[j].target \in Slots
      /\ rt[j].created \in SUBSET (Places \X Nodes) /\ rt[j].copied \in SUBSET Snapshot
  BY Facts DEF CopyFolder, AtSource, AtTarget, AtCopy, Runtime
<1>2. Root \in Nodes /\ fs[s][Root] \in Node
  BY <1>1, SnapshotTypes DEF Nodes, CopyFolder, Exists
<1>3. kids \in SUBSET Nodes /\ made \in SUBSET (Places \X Nodes) /\ snaps \in SUBSET Snapshot
  BY <1>1, <1>2, NodeSets, SnapshotTypes
<1>4. chain \in Runtime /\ chain.src = s /\ chain.target = rt[j].target /\ chain.into = d
  <2> HIDE DEF kids, made, snaps
  <2>1. chain \in Runtime
    BY <1>3, Facts, PutRuntime
  <2> QED
    BY <2>1, Facts DEF Runtime
<1>5. r = chain
  BY Facts DEF Runtime
<1>6. Fits(r, label)
  <2> HIDE DEF r, label
  <2>1. label \in {"copy", "sync", "complete"}
    BY AfterNodeLabels DEF label
  <2> QED
    BY <1>1, <1>4, <1>5, <2>1 DEF Fits, Labels, AtSource, AtTarget, AtCopy
<1>7. fs' \in [Places -> Tree]
  <2>1. [fs[s][Root] EXCEPT !.safe = FALSE] \in Node
    BY <1>2 DEF Node
  <2>2. [Absent EXCEPT ![Root] = [fs[s][Root] EXCEPT !.safe = FALSE]] \in Tree
    BY <2>1, AbsentTree DEF Tree
  <2> QED
    BY <2>2, Facts, PutTree DEF CopyFolder
<1> QED
  BY <1>6, <1>7, StepTypes, Facts DEF CopyFolder, envVars

LEMMA CreateFileTypes == ASSUME TypeInv, NEW j \in Jobs, CreateFile(j) PROVE TypeInv'
<1> DEFINE s == rt[j].src  d == rt[j].into
<1>1. PICK n \in rt[j].todo :
        /\ fs[s][n] # None
        /\ fs' = [fs EXCEPT ![d][n] = [fs[s][n] EXCEPT !.part = j, !.safe = FALSE]]
        /\ Update(j, [rt[j] EXCEPT !.node = n, !.snap = fs[s][n], !.created = @ \cup {<<d, n>>}])
  BY DEF CreateFile
<1> DEFINE v == fs[s][n]
           made == rt[j].created \cup {<<d, n>>}
           r == [rt[j] EXCEPT !.node = n, !.snap = v, !.created = @ \cup {<<d, n>>}]
           chain == [[[rt[j] EXCEPT !.node = n] EXCEPT !.snap = v] EXCEPT !.created = made]
<1>2. /\ s \in Inputs /\ d \in Places /\ rt[j].target \in Slots /\ n \in Nodes
      /\ rt[j].created \in SUBSET (Places \X Nodes)
  BY <1>1, Facts DEF CreateFile, AtSource, AtTarget, AtCopy, Runtime
<1>3. v \in Node /\ made \in SUBSET (Places \X Nodes)
  BY <1>1, <1>2, SnapshotTypes
<1>4. chain \in Runtime /\ chain.src = s /\ chain.target = rt[j].target /\ chain.into = d /\ chain.node = n
  <2> HIDE DEF v, made
  <2>1. chain \in Runtime
    BY <1>2, <1>3, Facts, PutRuntime
  <2> QED
    BY <2>1, Facts DEF Runtime
<1>5. r = chain
  BY Facts DEF Runtime
<1>6. Fits(r, "write")
  <2> HIDE DEF r
  <2> QED
    BY <1>2, <1>4, <1>5 DEF Fits, Labels, AtSource, AtTarget, AtCopy
<1>7. fs' \in [Places -> Tree]
  <2>1. [v EXCEPT !.part = j, !.safe = FALSE] \in Node
    BY <1>3 DEF Node
  <2> QED
    BY <1>1, <2>1, Facts, PutNode
<1> QED
  BY <1>1, <1>6, <1>7, StepTypes, Facts DEF CreateFile, envVars

LEMMA WriteFileTypes == ASSUME TypeInv, NEW j \in Jobs, WriteFile(j) PROVE TypeInv'
<1> DEFINE s == rt[j].src  d == rt[j].into  n == rt[j].node  rest == rt[j].todo \ {n}
           snaps == rt[j].copied \cup Snapshots(j, n)
           r == [rt[j] EXCEPT !.todo = rest, !.node = None, !.snap = None,
                              !.copied = @ \cup Snapshots(j, n)]
           chain == [[[[rt[j] EXCEPT !.todo = rest] EXCEPT !.node = None]
                       EXCEPT !.snap = None] EXCEPT !.copied = snaps]
           label == AfterNode(j, rest)
<1>1. /\ s \in Inputs /\ d \in Places /\ rt[j].target \in Slots /\ n \in Nodes
      /\ rt[j].copied \in SUBSET Snapshot /\ rest \in SUBSET Nodes
  BY Facts DEF WriteFile, AtSource, AtTarget, AtCopy, Runtime
<1>2. snaps \in SUBSET Snapshot
  BY <1>1, SnapshotTypes
<1>3. chain \in Runtime /\ chain.src = s /\ chain.target = rt[j].target /\ chain.into = d
  <2> HIDE DEF rest, snaps
  <2>1. chain \in Runtime
    BY <1>1, <1>2, Facts, PutRuntime
  <2> QED
    BY <2>1, Facts DEF Runtime
<1>4. r = chain
  BY Facts DEF Runtime
<1>5. Fits(r, label)
  <2> HIDE DEF r, label
  <2>1. label \in {"copy", "sync", "complete"}
    BY AfterNodeLabels DEF label
  <2> QED
    BY <1>1, <1>3, <1>4, <2>1 DEF Fits, Labels, AtSource, AtTarget, AtCopy
<1>6. fs' \in [Places -> Tree]
  <2>1. CASE ~StillOpen(j, d, n)
    BY <2>1, Facts DEF WriteFile
  <2>2. CASE StillOpen(j, d, n)
    <3>1. fs[d][n] \in Node
      BY <1>1, <2>2, Facts DEF StillOpen, Tree
    <3>2. [fs[d][n] EXCEPT !.part = Nobody] \in Node
      BY <3>1 DEF Node
    <3>3. fs' = [fs EXCEPT ![d][n] = [fs[d][n] EXCEPT !.part = Nobody]]
      BY <2>2 DEF WriteFile
    <3> QED
      BY <3>2, <3>3, Facts, PutNode
  <2> QED
    BY <2>1, <2>2
<1> QED
  BY <1>5, <1>6, StepTypes, Facts DEF WriteFile, envVars
LEMMA CommittedFits ==
  ASSUME TypeInv, NEW j \in Jobs, rt[j].src \in Inputs, rt[j].target \in Slots
  PROVE  Fits(Committed(j), AfterCommit(j))
<1> DEFINE t == rt[j].target  made == Unprotected(j, t)  left == Removable(j)
           moved == [[[rt[j] EXCEPT !.created = made] EXCEPT !.todo = left] EXCEPT !.into = t]
           copied == [rt[j] EXCEPT !.into = t]
<1>1. made \in SUBSET (Places \X Nodes) /\ left \in SUBSET Nodes /\ t \in Places
  BY NodeSets DEF Places
<1>2. moved \in Runtime /\ copied \in Runtime
  <2> HIDE DEF made, left, t
  <2> QED
    BY <1>1, Facts, PutRuntime
<1>3. /\ moved.src = rt[j].src /\ moved.target = t /\ moved.into = t
      /\ copied.src = rt[j].src /\ copied.target = t /\ copied.into = t
  <2> HIDE DEF made, left
  <2> QED
    BY Facts DEF Runtime
<1>4. Committed(j) = IF job[j].kind = "Move" THEN moved ELSE copied
  BY Facts DEF Committed, Runtime
<1> HIDE DEF moved, copied
<1> QED
  BY <1>1, <1>2, <1>3, <1>4 DEF Fits, AfterCommit, Labels, AtSource, AtTarget, AtCopy

\* The current source, target and copy of a job that is past ChooseRoute.
LEMMA Here ==
  ASSUME TypeInv, NEW j \in Jobs, pc[j] \in AtCopy
  PROVE  /\ rt[j].src \in Inputs /\ rt[j].target \in Slots /\ rt[j].into \in Places
         /\ rt[j].target \in Places /\ Backup(j) \in Places
  BY Facts, StagingPlace DEF AtSource, AtTarget, AtCopy, Places

LEMMA SyncTypes == ASSUME TypeInv, NEW j \in Jobs, Sync(j) PROVE TypeInv'
<1>1. pc[j] \in AtCopy
  BY DEF Sync, AtSource, AtTarget, AtCopy
<1>2. fs' \in [Places -> Tree]
  BY <1>1, Here, SyncedTree, PutTree, Facts DEF Sync
<1>3. CASE Staged(j)
  <2>1. "commit" \in AtCopy \ {"write", "unlink"}
    BY DEF AtSource, AtTarget, AtCopy
  <2> QED
    BY <1>1, <1>2, <1>3, <2>1, CarryOn DEF Sync, envVars
<1>4. CASE ~Staged(j)
  BY <1>1, <1>2, <1>4, Here, CommittedFits, StepTypes, Facts DEF Sync, envVars
<1> QED
  BY <1>3, <1>4

LEMMA ReplaceFileTypes == ASSUME TypeInv, NEW j \in Jobs, ReplaceFile(j) PROVE TypeInv'
<1>1. pc[j] \in AtCopy
  BY DEF ReplaceFile, AtSource, AtTarget, AtCopy
<1>2. fs' \in [Places -> Tree]
  BY <1>1, Here, RenamedTree, Facts DEF ReplaceFile
<1> QED
  BY <1>1, <1>2, Here, CommittedFits, StepTypes, Facts DEF ReplaceFile, envVars

LEMMA SetAsideTypes == ASSUME TypeInv, NEW j \in Jobs, SetAside(j) PROVE TypeInv'
<1>1. pc[j] \in AtCopy /\ "install" \in AtCopy \ {"write", "unlink"}
  BY DEF SetAside, AtSource, AtTarget, AtCopy
<1>2. fs' \in [Places -> Tree]
  BY <1>1, Here, RenamedTree, Facts DEF SetAside
<1> QED
  BY <1>1, <1>2, CarryOn DEF SetAside, envVars

LEMMA InstallTypes == ASSUME TypeInv, NEW j \in Jobs, Install(j) PROVE TypeInv'
<1>1. pc[j] \in AtCopy /\ {"dropbackup", "rollback"} \subseteq AtCopy \ {"write", "unlink"}
  BY DEF Install, AtSource, AtTarget, AtCopy
<1>2. fs' \in [Places -> Tree] /\ (Goto(j, "dropbackup") \/ Goto(j, "rollback"))
  BY <1>1, Here, RenamedTree, Facts DEF Install
<1> QED
  BY <1>1, <1>2, CarryOn DEF Install, envVars

LEMMA RollbackTypes == ASSUME TypeInv, NEW j \in Jobs, Rollback(j) PROVE TypeInv'
<1>1. pc[j] \in AtCopy
  BY DEF Rollback, AtSource, AtTarget, AtCopy
<1>2. fs' \in [Places -> Tree]
  BY <1>1, Here, RenamedTree, Facts DEF Rollback
<1>3. Fits([rt[j] EXCEPT !.err = "error"], "unstage")
  BY Facts, PutRuntime DEF Fits, Labels, AtSource, AtTarget, AtCopy
<1> QED
  BY <1>2, <1>3, StepTypes, Facts DEF Rollback, envVars

LEMMA DropBackupTypes == ASSUME TypeInv, NEW j \in Jobs, DropBackup(j) PROVE TypeInv'
<1>1. pc[j] \in AtCopy
  BY DEF DropBackup, AtSource, AtTarget, AtCopy
<1>2. fs' \in [Places -> Tree]
  BY AbsentTree, PutTree, Facts DEF DropBackup
<1> QED
  BY <1>1, <1>2, Here, CommittedFits, StepTypes, Facts DEF DropBackup, envVars

LEMMA VerifyTypes == ASSUME TypeInv, NEW j \in Jobs, VerifySource(j) PROVE TypeInv'
<1>1. PICK n \in rt[j].todo :
        /\ WasCopied(j, n)
        /\ Update(j, [rt[j] EXCEPT !.node = n, !.snap = fs[rt[j].src][n]])
  BY DEF VerifySource
<1> DEFINE v == fs[rt[j].src][n]
           r == [rt[j] EXCEPT !.node = n, !.snap = v]
           chain == [[rt[j] EXCEPT !.node = n] EXCEPT !.snap = v]
<1>2. pc[j] \in AtCopy
  BY DEF VerifySource, AtSource, AtTarget, AtCopy
<1>3. n \in Nodes /\ v \in Node \cup {None}
  <2>1. n \in Nodes /\ rt[j].src \in Places
    BY <1>1, <1>2, Here, Facts DEF Runtime, Places
  <2> QED
    BY <2>1, Facts DEF Tree
<1>4. chain \in Runtime
  <2> HIDE DEF v
  <2> QED
    BY <1>3, Facts, PutRuntime
<1>5. /\ r = chain /\ chain.node = n /\ chain.src = rt[j].src
      /\ chain.target = rt[j].target /\ chain.into = rt[j].into
  BY Facts DEF Runtime
<1>6. Fits(r, "unlink")
  <2> HIDE DEF r, chain
  <2> QED
    BY <1>2, <1>3, <1>4, <1>5, Here DEF Fits, Labels
<1> QED
  BY <1>1, <1>6, StepTypes, Facts DEF VerifySource, envVars

LEMMA UnlinkTypes == ASSUME TypeInv, NEW j \in Jobs, UnlinkSource(j) PROVE TypeInv'
<1> DEFINE rest == rt[j].todo \ {rt[j].node}
           r == [rt[j] EXCEPT !.todo = rest, !.node = None, !.snap = None]
           chain == [[[rt[j] EXCEPT !.todo = rest] EXCEPT !.node = None] EXCEPT !.snap = None]
           label == IF rest = {} THEN "complete" ELSE "verify"
<1>1. pc[j] \in AtCopy
  BY DEF UnlinkSource, AtSource, AtTarget, AtCopy
<1>2. rest \in SUBSET Nodes
  BY Facts DEF Runtime
<1>3. chain \in Runtime
  <2> HIDE DEF rest
  <2> QED
    BY <1>2, Facts, PutRuntime
<1>4. chain.src = rt[j].src /\ chain.target = rt[j].target /\ chain.into = rt[j].into
  BY Facts DEF Runtime
<1>5. r = chain
  BY Facts DEF Runtime
<1>6. Fits(r, label)
  <2> HIDE DEF r, chain
  <2> QED
    BY <1>1, <1>3, <1>4, <1>5, Here DEF Fits, Labels, AtSource, AtTarget, AtCopy
<1>7. fs' \in [Places -> Tree]
  BY Facts, PutNode DEF UnlinkSource
<1> QED
  BY <1>6, <1>7, StepTypes, Facts DEF UnlinkSource, envVars

LEMMA CompleteTypes == ASSUME TypeInv, NEW j \in Jobs, CompleteRoot(j) PROVE TypeInv'
<1> DEFINE t == rt[j].target
           made == Unprotected(j, t)
           done == IF j \in Portable THEN rt[j].roots ELSE rt[j].roots \cup {<<rt[j].src, t>>}
           r == [rt[j] EXCEPT !.created = made,
                              !.roots = IF j \in Portable THEN @ ELSE @ \cup {<<rt[j].src, t>>}]
           chain == [[rt[j] EXCEPT !.created = made] EXCEPT !.roots = done]
<1>1. pc[j] \in AtCopy
  BY DEF CompleteRoot, AtSource, AtTarget, AtCopy
<1>2. made \in SUBSET (Places \X Nodes)
  BY NodeSets
<1>3. done \in SUBSET (Inputs \X Slots)
  BY <1>1, Here, Facts DEF Runtime
<1>4. chain \in Runtime
  <2> HIDE DEF made, done
  <2> QED
    BY <1>2, <1>3, Facts, PutRuntime
<1>5. r = chain
  BY Facts DEF Runtime
<1>6. Fits(r, "next")
  <2> HIDE DEF r, chain
  <2> QED
    BY <1>4, <1>5 DEF Fits, Labels, AtSource, AtTarget, AtCopy
<1> QED
  BY <1>6, StepTypes, Facts DEF CompleteRoot, envVars

LEMMA UnstageTypes == ASSUME TypeInv, NEW j \in Jobs, Unstage(j) PROVE TypeInv'
<1>1. fs' \in [Places -> Tree]
  BY AbsentTree, PutTree, Facts DEF Unstage
<1>2. Exit(j) \in (Labels \cup Outcomes) \ AtSource
  BY DEF Exit, Labels, AtSource
<1> QED
  BY <1>1, <1>2, MoveOn DEF Unstage, envVars

LEMMA CleanupTypes == ASSUME TypeInv, NEW j \in Jobs, Cleanup(j) PROVE TypeInv'
<1> DEFINE label == IF rt[j].err = "error" /\ cancel[j] THEN "sweep" ELSE AfterCleanup(j)
<1>1. label \in (Labels \cup Outcomes) \ AtSource
  BY DEF AfterCleanup, Labels, AtSource
<1> QED
  BY <1>1, MoveOn, Facts DEF Cleanup, envVars

LEMMA SweepTypes == ASSUME TypeInv, NEW j \in Jobs, Sweep(j) PROVE TypeInv'
<1>1. CASE Goto(j, AfterCleanup(j)) /\ UNCHANGED <<fs, rt>>
  <2>1. AfterCleanup(j) \in (Labels \cup Outcomes) \ AtSource
    BY DEF AfterCleanup, Labels, AtSource
  <2> QED
    BY <1>1, <2>1, MoveOn, Facts DEF Sweep, envVars
<1>2. ASSUME NEW c \in rt[j].created,
             fs' = [fs EXCEPT ![c[1]][c[2]] = None] \/ fs' = fs,
             Update(j, [rt[j] EXCEPT !.created = @ \ {c}]), pc' = pc
      PROVE  TypeInv'
  <2> DEFINE made == rt[j].created \ {c}
             r == [rt[j] EXCEPT !.created = made]
  <2>1. fs' \in [Places -> Tree]
    <3>1. fs \in [Places -> Tree]
      BY Facts
    <3>2. [fs EXCEPT ![c[1]][c[2]] = None] \in [Places -> Tree]
      <4> DEFINE p == c[1]
                 n == c[2]
      <4> HIDE DEF p, n
      <4>1. [fs EXCEPT ![p][n] = None] \in [Places -> Tree]
        BY <3>1, PutNode
      <4> QED
        BY <4>1 DEF p, n
    <3> QED
      BY <1>2, <3>1, <3>2
  <2>2. made \in SUBSET (Places \X Nodes)
    <3>1. rt[j] \in Runtime
      BY Facts
    <3>2. rt[j].created \in SUBSET (Places \X Nodes)
      BY <3>1 DEF Runtime
    <3> QED
      BY <3>2, SMT
  <2>3. r \in Runtime
    <3> HIDE DEF made
    <3> QED
      BY <2>2, Facts, PutRuntime
  <2>4. Fits(r, "sweep")
    <3> HIDE DEF r
    <3> QED
      BY <2>3 DEF Fits, Labels, AtSource, AtTarget, AtCopy
  <2>5. Goto(j, "sweep")
    BY <1>2, Facts DEF Sweep, Goto
  <2> QED
    BY <1>2, <2>1, <2>4, <2>5, StepTypes, Facts DEF Sweep, envVars
<1> QED
  BY <1>1, <1>2 DEF Sweep

LEMMA ReleaseTypes == ASSUME TypeInv, NEW j \in Jobs, Release(j) PROVE TypeInv'
<1>1. Fits([rt[j] EXCEPT !.held = {}], AfterRelease(j))
  BY Facts, PutRuntime DEF Fits, AfterRelease, Labels, AtSource, AtTarget, AtCopy
<1>2. reserved' \in [Procs -> SUBSET Slots]
  BY Facts DEF Release
<1> QED
  BY <1>1, <1>2, StepTypes, Facts DEF Release, envVars

LEMMA ReportTypes == ASSUME TypeInv, NEW j \in Jobs, Report(j) PROVE TypeInv'
<1> DEFINE r == [Idle EXCEPT !.roots = rt[j].roots]
           label == CASE rt[j].err = "none" -> "Finished"
                      [] rt[j].err = "error" /\ cancel[j] -> "Cancelled"
                      [] OTHER -> "Failed"
<1>1. rt[j].roots \in SUBSET (Inputs \X Slots)
  BY Facts DEF Runtime
<1>2. r \in Runtime
  BY <1>1, IdleRuntime
<1>3. label \in Outcomes /\ Outcomes \cap AtSource = {} /\ Outcomes \cap {"write", "unlink"} = {}
  BY DEF Outcomes, AtSource
<1>4. Fits(r, label)
  <2> HIDE DEF r, label
  <2> QED
    BY <1>2, <1>3 DEF Fits, AtTarget, AtCopy
<1> QED
  BY <1>4, StepTypes, Facts DEF Report, envVars

LEMMA ErrorTypes == ASSUME TypeInv, NEW j \in Jobs, Abort(j) \/ Fault(j) PROVE TypeInv'
<1>1. \E e \in {"none", "error", "pending"} : Fail(j, e)
  BY DEF Abort, Fault
<1> QED
  BY <1>1, FailTypes

LEMMA StepPreservesTypes == ASSUME TypeInv, NEW j \in Jobs, Step(j) PROVE TypeInv'
  BY PrepareTypes, NextSourceTypes, EndOfSourcesTypes, ReserveTypes, SkipTypes, ChooseTypes,
     RenameTypes, CopyFolderTypes, CreateFileTypes, WriteFileTypes, SyncTypes,
     ReplaceFileTypes, SetAsideTypes, InstallTypes, RollbackTypes, DropBackupTypes,
     VerifyTypes, UnlinkTypes, CompleteTypes, UnstageTypes, CleanupTypes, SweepTypes,
     ReleaseTypes, ReportTypes, ErrorTypes
  DEF Step

LEMMA UserTypes == ASSUME TypeInv, User PROVE TypeInv'
<1> USE TransferAssumption
<1>1. CASE EditInput
  <2>1. edits' \in 0..MaxEdits
    BY <1>1 DEF EditInput, TypeInv, TypeOK
  <2>2. fs' \in [Places -> Tree]
    <3>1. PICK s \in Inputs, n \in Nodes :
            \/ /\ fs[s][n] # None
               /\ fs' = [fs EXCEPT ![s][n].ver = @ \cup {edits'}]
            \/ fs' = [fs EXCEPT ![s][n] = [File(s, n) EXCEPT !.of = <<s, n, edits'>>]]
      BY <1>1 DEF EditInput
    <3>2. fs \in [Places -> Tree] /\ fs[s] \in Tree /\ fs[s][n] \in Node \cup {None}
          /\ edits' \in Nat
      BY <2>1 DEF TypeInv, TypeOK, Tree, Places
    <3>3. [File(s, n) EXCEPT !.of = <<s, n, edits'>>] \in Node
      BY <3>2 DEF File, Node, Origins
    <3>4. CASE fs[s][n] # None /\ fs' = [fs EXCEPT ![s][n].ver = @ \cup {edits'}]
      <4>1. [fs[s][n] EXCEPT !.ver = fs[s][n].ver \cup {edits'}] \in Node
        BY <3>2, <3>4 DEF Node
      <4>2. fs' = [fs EXCEPT ![s][n] = [fs[s][n] EXCEPT !.ver = fs[s][n].ver \cup {edits'}]]
        BY <3>4
      <4> QED
        BY <3>2, <4>1, <4>2, PutNode
    <3>5. CASE fs' = [fs EXCEPT ![s][n] = [File(s, n) EXCEPT !.of = <<s, n, edits'>>]]
      <4> DEFINE v == [File(s, n) EXCEPT !.of = <<s, n, edits'>>]
      <4>1. v \in Node \cup {None}
        BY <3>3
      <4>2. fs' = [fs EXCEPT ![s][n] = v]
        BY <3>5
      <4> HIDE DEF v
      <4> QED
        BY <3>2, <4>1, <4>2, PutNode
    <3> QED
      BY <3>1, <3>4, <3>5
  <2>3. TypeOK'
    BY <1>1, <2>1, <2>2 DEF EditInput, TypeInv, TypeOK
  <2> QED
    BY <1>1, <2>3 DEF EditInput, TypeInv, Located
<1>2. CASE CreateStranger
  <2>1. strangers' \in 0..MaxStrangers
    BY <1>2 DEF CreateStranger, TypeInv, TypeOK
  <2>2. fs' \in [Places -> Tree]
    <3>1. PICK t \in Slots : fs' = [fs EXCEPT ![t][Root] = [File(t, Root) EXCEPT !.of = Stranger]]
      BY <1>2 DEF CreateStranger
    <3>2. [File(t, Root) EXCEPT !.of = Stranger] \in Node
      BY DEF File, Node, Origins
    <3> QED
      BY <3>1, <3>2, PutNode DEF TypeInv, TypeOK
  <2>3. TypeOK'
    BY <1>2, <2>1, <2>2 DEF CreateStranger, TypeInv, TypeOK
  <2> QED
    BY <1>2, <2>3 DEF CreateStranger, TypeInv, Located
<1>3. ASSUME NEW j \in Jobs, RequestCancel(j) \/ TogglePause(j) PROVE TypeInv'
  <2>1. TypeOK'
    BY <1>3 DEF RequestCancel, TogglePause, TypeInv, TypeOK
  <2> QED
    BY <1>3, <2>1 DEF RequestCancel, TogglePause, TypeInv, Located
<1> QED
  BY <1>1, <1>2, <1>3 DEF User

LEMMA NextTypes == TypeInv /\ [Next]_vars => TypeInv'
<1> SUFFICES ASSUME TypeInv, [Next]_vars PROVE TypeInv'
  OBVIOUS
<1>1. CASE UNCHANGED vars
  BY <1>1 DEF vars, TypeInv, TypeOK, Located
<1> QED
  BY <1>1, StepPreservesTypes, UserTypes DEF Next, AllEnded

\* Every variable keeps its type, and a job that works on a source, a target or
\* a copy always has one.
THEOREM TypeCorrect == Spec => []TypeOK
<1>1. TypeInv => TypeOK
  BY DEF TypeInv
<1> QED
  BY <1>1, InitTypes, NextTypes, PTL DEF Spec

-----------------------------------------------------------------------------
(* The reservations are exclusive.  A job claims the targets it tracks and, *)
(* between reserve_destination and track_reserved, the one it was just      *)
(* given.  What is claimed is in the table of the job's process, so nobody  *)
(* else is given it; and only its owner takes it out of the table.          *)

Claims(j) == rt[j].held \cup {t \in {rt[j].target} : pc[j] = "same"}

Claimed(j) ==
  /\ Claims(j) \subseteq reserved[ProcOf[j]]
  /\ pc[j] = "same" => rt[j].target \notin rt[j].held

Apart(j, k) == j # k /\ ProcOf[j] = ProcOf[k] => Claims(j) \cap Claims(k) = {}

ExclusiveInv ==
  ~exhausted => /\ \A j \in Jobs : Claimed(j)
                /\ \A j, k \in Jobs : Apart(j, k)

LEMMA InitExclusive == Init => ExclusiveInv
<1> SUFFICES ASSUME Init PROVE ExclusiveInv
  OBVIOUS
<1>1. ASSUME NEW j \in Jobs PROVE Claims(j) = {} /\ pc[j] # "same"
  <2>1. rt[j].held = {}
    BY DEF Init, Idle
  <2>2. pc[j] # "same"
    BY DEF Init
  <2> QED
    BY <2>1, <2>2 DEF Claims
<1> QED
  BY <1>1 DEF ExclusiveInv, Claimed, Apart

\* The other jobs stand where they stood.
OnlyMoves(j) == \A k \in Jobs \ {j} : pc'[k] = pc[k] /\ rt'[k] = rt[k]

\* A step that neither takes nor gives back a target.
Quiet(j) ==
  /\ OnlyMoves(j)
  /\ rt'[j].held = rt[j].held /\ pc'[j] # "same"
  /\ UNCHANGED <<reserved, exhausted>>

LEMMA QuietExclusive ==
  ASSUME ExclusiveInv, NEW j \in Jobs, Quiet(j)
  PROVE  ExclusiveInv'
<1>1. \A k \in Jobs : Claims(k)' \subseteq Claims(k)
  BY DEF Quiet, OnlyMoves, Claims
<1>2. \A k \in Jobs : pc'[k] = "same" => k # j
  BY DEF Quiet
<1> QED
  BY <1>1, <1>2 DEF Quiet, OnlyMoves, ExclusiveInv, Claimed, Apart

LEMMA Moved ==
  ASSUME TypeInv, NEW j \in Jobs
  PROVE  /\ \A label : Goto(j, label) =>
               pc'[j] = label /\ \A k \in Jobs \ {j} : pc'[k] = pc[k]
         /\ \A r : Update(j, r) =>
               rt'[j] = r /\ \A k \in Jobs \ {j} : rt'[k] = rt[k]
  BY DEF TypeInv, TypeOK, Update, Goto

LEMMA QuietSteps ==
  ASSUME TypeInv, NEW j \in Jobs, Step(j),
         ~ReserveDestination(j), ~SkipSameFile(j), ~ChooseRoute(j), ~Release(j), ~Report(j)
  PROVE  Quiet(j)
<1>1. rt[j] \in Runtime /\ rt'[j].held = rt[j].held /\ OnlyMoves(j)
  <2> USE Moved, Facts DEF OnlyMoves
  <2>1. CASE Prepare(j) \/ EndOfSources(j) \/ Rename(j) \/ SetAside(j) \/ Install(j)
             \/ Unstage(j) \/ Cleanup(j)
    BY <2>1 DEF Prepare, EndOfSources, Rename, SetAside, Install, Unstage, Cleanup
  <2>2. CASE NextSource(j)
    <3>1. PICK s, l : Goto(j, l) /\ Update(j, [rt[j] EXCEPT !.left = @ \ {s}, !.src = s, !.into = None])
      BY <2>2 DEF NextSource
    <3>2. [rt[j] EXCEPT !.left = @ \ {s}, !.src = s, !.into = None].held = rt[j].held
      BY DEF Runtime
    <3> QED
      BY <3>1, <3>2
  <2>3. CASE CopyFolder(j)
    <3>1. PICK x, y, z, l : Goto(j, l) /\ Update(j, [rt[j] EXCEPT !.todo = x, !.created = y, !.copied = z])
      BY <2>3 DEF CopyFolder
    <3>2. [rt[j] EXCEPT !.todo = x, !.created = y, !.copied = z].held = rt[j].held
      BY DEF Runtime
    <3> QED
      BY <3>1, <3>2
  <2>4. CASE CreateFile(j)
    <3>1. PICK x, y, z, l : Goto(j, l) /\ Update(j, [rt[j] EXCEPT !.node = x, !.snap = y, !.created = z])
      BY <2>4 DEF CreateFile
    <3>2. [rt[j] EXCEPT !.node = x, !.snap = y, !.created = z].held = rt[j].held
      BY DEF Runtime
    <3> QED
      BY <3>1, <3>2
  <2>5. CASE WriteFile(j)
    <3>1. PICK x, y, l : Goto(j, l) /\ Update(j, [rt[j] EXCEPT !.todo = x, !.node = None, !.snap = None, !.copied = y])
      BY <2>5 DEF WriteFile
    <3>2. [rt[j] EXCEPT !.todo = x, !.node = None, !.snap = None, !.copied = y].held = rt[j].held
      BY DEF Runtime
    <3> QED
      BY <3>1, <3>2
  <2>6. (Committed(j)).held = rt[j].held
    BY DEF Committed, Runtime
  <2>7. CASE Sync(j)
    BY <2>6, <2>7 DEF Sync
  <2>8. CASE ReplaceFile(j)
    BY <2>6, <2>8 DEF ReplaceFile
  <2>9. CASE DropBackup(j)
    BY <2>6, <2>9 DEF DropBackup
  <2>10. CASE Rollback(j)
    BY <2>10 DEF Rollback, Runtime
  <2>11. CASE VerifySource(j)
    <3>1. PICK n, y, l : Goto(j, l) /\ Update(j, [rt[j] EXCEPT !.node = n, !.snap = y])
      BY <2>11 DEF VerifySource
    <3>2. [rt[j] EXCEPT !.node = n, !.snap = y].held = rt[j].held
      BY DEF Runtime
    <3> QED
      BY <3>1, <3>2
  <2>12. CASE UnlinkSource(j)
    <3>1. PICK x, l : Goto(j, l) /\ Update(j, [rt[j] EXCEPT !.todo = x, !.node = None, !.snap = None])
      BY <2>12 DEF UnlinkSource
    <3>2. [rt[j] EXCEPT !.todo = x, !.node = None, !.snap = None].held = rt[j].held
      BY DEF Runtime
    <3> QED
      BY <3>1, <3>2
  <2>13. CASE CompleteRoot(j)
    <3>1. PICK x, y, l : Goto(j, l) /\ Update(j, [rt[j] EXCEPT !.created = x, !.roots = y])
      BY <2>13 DEF CompleteRoot
    <3>2. [rt[j] EXCEPT !.created = x, !.roots = y].held = rt[j].held
      BY DEF Runtime
    <3> QED
      BY <3>1, <3>2
  <2>14. CASE Sweep(j)
    <3>1. CASE rt' = rt
      BY <2>14, <3>1 DEF Sweep
    <3>2. CASE rt' # rt
      <4>1. PICK x : pc' = pc /\ Update(j, [rt[j] EXCEPT !.created = x])
        BY <2>14, <3>2 DEF Sweep
      <4>2. [rt[j] EXCEPT !.created = x].held = rt[j].held
        BY DEF Runtime
      <4> QED
        BY <4>1, <4>2
    <3> QED
      BY <3>1, <3>2
  <2>15. CASE Abort(j) \/ Fault(j)
    <3>1. PICK e : Fail(j, e)
      BY <2>15 DEF Abort, Fault
    <3> QED
      BY <3>1 DEF Fail, Runtime
  <2> QED
    BY <2>1, <2>2, <2>3, <2>4, <2>5, <2>7, <2>8, <2>9, <2>10, <2>11, <2>12, <2>13, <2>14,
       <2>15 DEF Step
<1>2. UNCHANGED <<reserved, exhausted>>
  BY DEF Step, Prepare, EndOfSources, Rename, SetAside, Install, Unstage, Cleanup, NextSource,
         CopyFolder, CreateFile, WriteFile, Sync, ReplaceFile, DropBackup, Rollback,
         VerifySource, UnlinkSource, CompleteRoot, Sweep, Abort, Fault, Fail
<1>3. pc'[j] # "same"
  <2> USE Moved
  <2>1. CASE Prepare(j) \/ EndOfSources(j)
    BY <2>1 DEF Prepare, EndOfSources, Exit
  <2>8. CASE NextSource(j)
    BY <2>8 DEF NextSource
  <2>2. CASE Rename(j)
    BY <2>2 DEF Rename
  <2>13. CASE CreateFile(j)
    <3>1. Goto(j, "write")
      BY <2>13 DEF CreateFile
    <3> QED
      BY <3>1
  <2>9. \A x : AfterNode(j, x) # "same"
    BY DEF AfterNode, Copied
  <2>10. CASE CopyFolder(j)
    BY <2>9, <2>10 DEF CopyFolder
  <2>11. CASE WriteFile(j)
    BY <2>9, <2>11 DEF WriteFile
  <2>3. CASE Sync(j) \/ ReplaceFile(j) \/ DropBackup(j)
    BY <2>3 DEF Sync, ReplaceFile, DropBackup, AfterCommit
  <2>4. CASE SetAside(j) \/ Install(j) \/ Rollback(j)
    BY <2>4 DEF SetAside, Install, Rollback
  <2>5. CASE UnlinkSource(j) \/ CompleteRoot(j)
    BY <2>5 DEF UnlinkSource, CompleteRoot
  <2>14. CASE VerifySource(j)
    <3>1. Goto(j, "unlink")
      BY <2>14 DEF VerifySource
    <3> QED
      BY <3>1
  <2>6. CASE Unstage(j) \/ Cleanup(j)
    BY <2>6 DEF Unstage, Cleanup, Exit, AfterCleanup
  <2>12. CASE Sweep(j)
    <3>1. Goto(j, AfterCleanup(j)) \/ (pc' = pc /\ pc[j] = "sweep")
      BY <2>12 DEF Sweep
    <3> QED
      BY <3>1 DEF AfterCleanup
  <2>7. CASE Abort(j) \/ Fault(j)
    <3>1. PICK e : Fail(j, e)
      BY <2>7 DEF Abort, Fault
    <3> QED
      BY <3>1 DEF Fail, Exit
  <2> QED
    BY <2>1, <2>2, <2>3, <2>4, <2>5, <2>6, <2>7, <2>8, <2>10, <2>11, <2>12,
       <2>13, <2>14 DEF Step
<1> QED
  BY <1>1, <1>2, <1>3 DEF Quiet

\* A conflict policy yields a reserved target only when no name is left.
LEMMA TakenTarget ==
  ASSUME NEW policy \in {"Replace", "Skip", "KeepBoth"}, NEW b, NEW r,
         NEW t \in ResolveConflict(policy, b, r), t \in r
  PROVE  RunsOut(policy, b, r)
<1>1. CASE policy = "KeepBoth" \/ (policy = "Replace" /\ <<b, 1>> \in r)
  <2>1. t \in UniqueDestination(b, r)
    BY <1>1 DEF ResolveConflict
  <2>2. \A i \in FreeIndexes(b, r) : <<b, i>> \notin r
    BY DEF FreeIndexes
  <2> QED
    BY <1>1, <2>1, <2>2 DEF UniqueDestination, RunsOut
<1>2. CASE policy = "Replace" /\ <<b, 1>> \notin r
  BY <1>2 DEF ResolveConflict
<1>3. CASE policy = "Skip"
  BY <1>3 DEF ResolveConflict
<1> QED
  BY <1>1, <1>2, <1>3

\* reserve_destination gives a job a target that nobody in its process claims.
LEMMA ReserveExclusive ==
  ASSUME TypeInv, ExclusiveInv, NEW j \in Jobs, ReserveDestination(j)
  PROVE  ExclusiveInv'
<1> DEFINE b == NameOf[rt[j].src]
           r == reserved[ProcOf[j]]
           targets == ResolveConflict(job[j].policy, b, r)
<1>1. CASE Goto(j, "next") /\ UNCHANGED <<reserved, rt, exhausted>>
  BY <1>1, Moved, QuietExclusive DEF Quiet, OnlyMoves
<1>2. ASSUME NEW t \in targets,
             reserved' = [reserved EXCEPT ![ProcOf[j]] = @ \cup {t}],
             exhausted' = (exhausted \/ RunsOut(job[j].policy, b, r)),
             Update(j, [rt[j] EXCEPT !.target = t]), Goto(j, "same"), ~exhausted'
      PROVE  (\A k \in Jobs : Claimed(k))' /\ (\A k, l \in Jobs : Apart(k, l))'
  <2>1. ~exhausted /\ t \notin r
    <3>1. job[j].policy \in {"Replace", "Skip", "KeepBoth"}
      BY DEF TypeInv, TypeOK
    <3>2. t \in r => RunsOut(job[j].policy, b, r)
      BY <1>2, <3>1, TakenTarget
    <3> QED
      BY <1>2, <3>2
  <2>2. rt'[j].target = t /\ rt'[j].held = rt[j].held /\ pc'[j] = "same" /\ OnlyMoves(j)
    BY <1>2, Moved, Facts DEF Runtime, OnlyMoves
  <2>3. pc[j] = "reserve"
    BY DEF ReserveDestination
  <2>4. Claims(j)' = Claims(j) \cup {t} /\ \A k \in Jobs \ {j} : Claims(k)' = Claims(k)
    BY <2>2, <2>3 DEF Claims, OnlyMoves
  <2>5. \A k \in Jobs : ProcOf[k] = ProcOf[j] => t \notin Claims(k)
    BY <2>1 DEF ExclusiveInv, Claimed
  <2>6. /\ \A k \in Jobs : reserved[ProcOf[k]] \subseteq reserved'[ProcOf[k]]
        /\ t \in reserved'[ProcOf[j]]
    BY <1>2, TransferAssumption DEF TypeInv, TypeOK
  <2>7. ASSUME NEW k \in Jobs PROVE Claimed(k)'
    <3>1. Claims(k)' \subseteq reserved'[ProcOf[k]]
      BY <2>1, <2>4, <2>6 DEF ExclusiveInv, Claimed
    <3>2. pc'[k] = "same" => rt'[k].target \notin rt'[k].held
      BY <2>1, <2>2, <2>5 DEF OnlyMoves, ExclusiveInv, Claimed, Claims
    <3> QED
      BY <3>1, <3>2 DEF Claimed
  <2>8. ASSUME NEW k \in Jobs, NEW l \in Jobs PROVE Apart(k, l)'
    BY <2>1, <2>4, <2>5 DEF ExclusiveInv, Apart
  <2> QED
    BY <2>7, <2>8
<1> QED
  BY <1>1, <1>2 DEF ReserveDestination, ExclusiveInv

\* What a job takes out of the table is no longer claimed by it, and was never
\* claimed by another.
LEMMA GiveBackExclusive ==
  ASSUME TypeInv, ExclusiveInv, NEW j \in Jobs, NEW given, OnlyMoves(j),
         reserved' = [reserved EXCEPT ![ProcOf[j]] = @ \ given], exhausted' = exhausted,
         given \subseteq Claims(j), Claims(j)' \subseteq Claims(j) \ given, pc'[j] # "same"
  PROVE  ExclusiveInv'
<1> SUFFICES ASSUME ~exhausted
             PROVE  (\A k \in Jobs : Claimed(k))' /\ (\A k, l \in Jobs : Apart(k, l))'
  BY DEF ExclusiveInv
<1>1. \A k \in Jobs \ {j} : Claims(k)' = Claims(k)
  BY DEF OnlyMoves, Claims
<1>2. \A k \in Jobs : reserved'[ProcOf[k]] =
        IF ProcOf[k] = ProcOf[j] THEN reserved[ProcOf[k]] \ given ELSE reserved[ProcOf[k]]
  BY TransferAssumption DEF TypeInv, TypeOK
<1>3. \A k \in Jobs \ {j} : ProcOf[k] = ProcOf[j] => Claims(k) \cap given = {}
  BY DEF ExclusiveInv, Apart
<1>4. ASSUME NEW k \in Jobs PROVE Claimed(k)'
  <2>1. Claims(k)' \subseteq reserved'[ProcOf[k]]
    BY <1>1, <1>2, <1>3 DEF ExclusiveInv, Claimed
  <2>2. pc'[k] = "same" => rt'[k].target \notin rt'[k].held
    BY DEF OnlyMoves, ExclusiveInv, Claimed
  <2> QED
    BY <2>1, <2>2 DEF Claimed
<1>5. ASSUME NEW k \in Jobs, NEW l \in Jobs PROVE Apart(k, l)'
  BY <1>1 DEF ExclusiveInv, Apart
<1> QED
  BY <1>4, <1>5

LEMMA StepExclusive ==
  ASSUME TypeInv, ExclusiveInv, NEW j \in Jobs, Step(j)
  PROVE  ExclusiveInv'
<1>1. CASE SkipSameFile(j)
  <2>1. OnlyMoves(j) /\ pc'[j] = "next" /\ rt' = rt
    BY <1>1, Moved DEF SkipSameFile, OnlyMoves
  <2>2. CASE exhausted
    BY <1>1, <2>2 DEF SkipSameFile, ExclusiveInv
  <2>3. CASE ~exhausted
    <3>1. {rt[j].target} \subseteq Claims(j)
      BY <1>1 DEF SkipSameFile, Claims
    <3>2. Claims(j)' \subseteq Claims(j) \ {rt[j].target}
      BY <1>1, <2>1, <2>3 DEF SkipSameFile, Claims, ExclusiveInv, Claimed
    <3> QED
      BY <1>1, <2>1, <3>1, <3>2, GiveBackExclusive DEF SkipSameFile
  <2> QED
    BY <2>2, <2>3
<1>2. CASE ChooseRoute(j)
  <2>1. OnlyMoves(j) /\ pc'[j] # "same" /\ rt'[j].held = rt[j].held \cup {rt[j].target}
    <3>1. PICK x, y, z :
            /\ Update(j, [rt[j] EXCEPT !.held = @ \cup {rt[j].target}, !.todo = x, !.into = y])
            /\ Goto(j, z) /\ z # "same"
      BY <1>2 DEF ChooseRoute
    <3>2. [rt[j] EXCEPT !.held = @ \cup {rt[j].target}, !.todo = x, !.into = y].held
          = rt[j].held \cup {rt[j].target}
      <4>1. rt[j] \in Runtime
        BY Facts
      <4> QED
        BY <4>1 DEF Runtime
    <3>3. OnlyMoves(j) /\ pc'[j] = z
      BY <3>1, Moved DEF OnlyMoves
    <3>4. rt'[j] = [rt[j] EXCEPT !.held = @ \cup {rt[j].target}, !.todo = x, !.into = y]
      BY <3>1, Moved
    <3> QED
      BY <3>1, <3>2, <3>3, <3>4
  <2>2. \A k \in Jobs : Claims(k)' = Claims(k)
    BY <1>2, <2>1 DEF ChooseRoute, Claims, OnlyMoves
  <2> QED
    BY <1>2, <2>1, <2>2 DEF ChooseRoute, OnlyMoves, ExclusiveInv, Claimed, Apart
<1>3. CASE Release(j)
  <2>1. OnlyMoves(j) /\ pc'[j] # "same" /\ rt'[j].held = {}
    BY <1>3, Moved, Facts DEF Release, OnlyMoves, Runtime, AfterRelease
  <2>2. rt[j].held \subseteq Claims(j) /\ Claims(j)' = {}
    BY <2>1 DEF Claims
  <2> QED
    BY <1>3, <2>1, <2>2, GiveBackExclusive DEF Release
<1>4. CASE Report(j)
  <2>1. OnlyMoves(j) /\ pc'[j] # "same" /\ rt'[j].held = {}
    BY <1>4, Moved DEF Report, OnlyMoves, Idle
  <2>2. Claims(j)' = {} /\ \A k \in Jobs \ {j} : Claims(k)' = Claims(k)
    BY <2>1 DEF Claims, OnlyMoves
  <2> QED
    BY <1>4, <2>1, <2>2 DEF Report, OnlyMoves, ExclusiveInv, Claimed, Apart
<1> QED
  BY <1>1, <1>2, <1>3, <1>4, ReserveExclusive, QuietSteps, QuietExclusive

LEMMA NextExclusive == TypeInv /\ ExclusiveInv /\ [Next]_vars => ExclusiveInv'
<1> SUFFICES ASSUME TypeInv, ExclusiveInv, [Next]_vars PROVE ExclusiveInv'
  OBVIOUS
<1>1. CASE UNCHANGED <<reserved, pc, rt, exhausted>>
  BY <1>1 DEF ExclusiveInv, Claimed, Apart, Claims
<1>2. CASE User
  BY <1>1, <1>2 DEF User, EditInput, CreateStranger, RequestCancel, TogglePause
<1>3. CASE UNCHANGED vars \/ AllEnded
  BY <1>1, <1>3 DEF AllEnded, vars
<1> QED
  BY <1>2, <1>3, StepExclusive DEF Next

\* No two jobs of one process ever hold the same target, unless a name has run
\* out of variants: whatever the jobs, names, policies, failures and cancellations.
THEOREM ReservationsAreExclusive == Spec => []ReservationsExclusive
<1>1. TypeInv /\ ExclusiveInv => ReservationsExclusive
  BY DEF ReservationsExclusive, ExclusiveInv, Apart, Claims
<1> QED
  BY <1>1, InitTypes, NextTypes, InitExclusive, NextExclusive, PTL DEF Spec

=============================================================================
