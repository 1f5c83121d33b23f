------------------------ MODULE OperationHost_proofs ------------------------
(***************************************************************************)
(* The safety of the operation host, for any number of processes and any   *)
(* bounds: its types, the markers that lead to living hosts, the launches  *)
(* that are acknowledged, the dialogs that are shown, the activations that *)
(* are polled and the operations that nobody kills.                        *)
(***************************************************************************)
EXTENDS OperationHost, SequenceTheorems, WellFoundedInduction, TLAPS

\* What the type invariant needs besides itself: who waits, waits for a marker.
Waiters ==
  \A p \in Procs : app[p].at = "wait" => app[p].seen # <<>>

\* MarkersLead, for processes that are yet to run too: they have no marker.
LeadInv ==
  \A i \in 1..Len(markers) :
    LET p == markers[i].proc IN
    app[p].at # "gone" => /\ app[p].port = markers[i].port
                          /\ \A j \in 1..Len(markers) : markers[j].proc = p => i = j

\* A path is held by whom it was handed to, or was lost with him.
Held(c) == c \in lost \/ \E p \in Procs : c \in opened[p] \cup app[p].queue

\* AcknowledgedIsHeld, from the answer on and for the path that a process opens itself.
HeldInv ==
  /\ \A c \in acked : Held(c)
  /\ \A c \in Procs :
       /\ app[c].at \in {"off", "seek", "wait"} => opened[c] = {}
       /\ app[c].at = "run" => c \in opened[c]
       /\ app[c].at = "gone" => c \in opened[c] \/ Held(c)

\* A host is polled from its first moment, and whoever has no window is detached.
PollInv ==
  \A p \in Procs : Running(p) =>
    /\ app[p].port # 0 => Ticks(app[p]) \/ app[p].tick \/ p \in outlived
    /\ app[p].main = "none" => app[p].detached

\* What WorkIsNotKilled says of a step.
Spared ==
  \A p \in Procs :
    Running(p) /\ app'[p].at = "gone" /\ UNCHANGED stops => app'[p].jobs = {}

HostInv == TypeOK /\ Waiters /\ LeadInv /\ HeldInv /\ AttentionIsShown /\ PollInv

-----------------------------------------------------------------------------
(* The markers.                                                            *)

\* Numbers have a first.
LEMMA FirstNumber ==
  ASSUME NEW I \in SUBSET Nat, I # {}
  PROVE  Min(I) \in I
<1>1. PICK x \in I : \A y \in I : <<y, x>> \notin OpToRel(<, Nat)
  BY NatLessThanWellFounded, WFMin
<1>2. \A y \in I : ~(y < x)
  BY <1>1 DEF OpToRel
<1>3. \A y \in I : x =< y
  BY <1>2, SMT
<1> QED
  BY <1>3 DEF Min

\* Where the first element that is e stands.
LEMMA FirstAt ==
  ASSUME NEW S, NEW s \in Seq(S), NEW e, \E i \in 1..Len(s) : s[i] = e
  PROVE  \E k \in 1..Len(s) : s[k] = e /\ RemoveFirst(s, e) = RemoveAt(s, k)
<1> DEFINE I == {i \in 1..Len(s) : s[i] = e}
<1>1. Len(s) \in Nat
  BY LenProperties
<1>2. I # {} /\ I \in SUBSET Nat
  BY <1>1
<1>3. Min(I) \in I
  BY <1>2, FirstNumber
<1>4. RemoveFirst(s, e) = RemoveAt(s, Min(I))
  BY <1>2 DEF RemoveFirst, SelectInSeq
<1> QED
  BY <1>3, <1>4

\* A sequence without its k-th element.
LEMMA Without ==
  ASSUME NEW S, NEW s \in Seq(S), NEW k \in 1..Len(s)
  PROVE  /\ RemoveAt(s, k) \in Seq(S)
         /\ Len(RemoveAt(s, k)) = Len(s) - 1
         /\ \A i \in 1..Len(s)-1 : RemoveAt(s, k)[i] = IF i < k THEN s[i] ELSE s[i+1]
<1>1. Len(s) \in Nat /\ \A i \in 1..Len(s) : s[i] \in S
  BY LenProperties, ElementOfSeq
<1>2. /\ SubSeq(s, 1, k-1) \in Seq(S)
      /\ Len(SubSeq(s, 1, k-1)) = k-1
      /\ \A i \in 1..k-1 : SubSeq(s, 1, k-1)[i] = s[i]
  <2>1. k-1 \in Int /\ 1 \in Int /\ \A i \in 1..k-1 : s[i] \in S
    BY <1>1
  <2>2. /\ SubSeq(s, 1, k-1) \in Seq(S)
        /\ Len(SubSeq(s, 1, k-1)) = IF 1 <= k-1 THEN (k-1)-1+1 ELSE 0
        /\ \A i \in 1..(k-1)-1+1 : SubSeq(s, 1, k-1)[i] = s[1+i-1]
    BY <2>1, SubSeqProperties
  <2> QED
    BY <2>2, <1>1
<1>3. /\ SubSeq(s, k+1, Len(s)) \in Seq(S)
      /\ Len(SubSeq(s, k+1, Len(s))) = Len(s)-k
      /\ \A i \in 1..Len(s)-k : SubSeq(s, k+1, Len(s))[i] = s[k+i]
  <2>1. k+1 \in Int /\ Len(s) \in Int /\ \A i \in k+1..Len(s) : s[i] \in S
    BY <1>1
  <2>2. /\ SubSeq(s, k+1, Len(s)) \in Seq(S)
        /\ Len(SubSeq(s, k+1, Len(s))) = IF k+1 <= Len(s) THEN Len(s)-(k+1)+1 ELSE 0
        /\ \A i \in 1..Len(s)-(k+1)+1 : SubSeq(s, k+1, Len(s))[i] = s[(k+1)+i-1]
    BY <2>1, SubSeqProperties
  <2> QED
    BY <2>2, <1>1
<1> DEFINE u == SubSeq(s, 1, k-1)
           v == SubSeq(s, k+1, Len(s))
<1>4. /\ u \o v \in Seq(S)
      /\ Len(u \o v) = Len(u) + Len(v)
      /\ \A i \in 1..Len(u) + Len(v) : (u \o v)[i] = IF i <= Len(u) THEN u[i] ELSE v[i - Len(u)]
  BY <1>2, <1>3, ConcatProperties
<1>5. RemoveAt(s, k) = u \o v
  BY DEF RemoveAt
<1> HIDE DEF u, v
<1> QED
  <2>1. Len(u) = k-1 /\ Len(v) = Len(s)-k
    BY <1>2, <1>3 DEF u, v
  <2>2. ASSUME NEW i \in 1..Len(s)-1
        PROVE  (u \o v)[i] = IF i < k THEN s[i] ELSE s[i+1]
    <3>1. CASE i < k
      <4>1. (u \o v)[i] = u[i]
        BY <3>1, <2>1, <1>4, <1>1
      <4> QED
        BY <4>1, <3>1, <1>2, <1>1 DEF u
    <3>2. CASE ~(i < k)
      <4>1. i - (k-1) \in 1..Len(s)-k
        BY <3>2, <1>1
      <4>2. (u \o v)[i] = v[i - (k-1)]
        BY <3>2, <2>1, <1>4, <1>1
      <4>3. v[i - (k-1)] = s[k + (i - (k-1))]
        BY <4>1, <1>3 DEF v
      <4> QED
        BY <4>2, <4>3, <3>2, <1>1
    <3> QED
      BY <3>1, <3>2
  <2>3. Len(u) + Len(v) = Len(s)-1
    BY <2>1, <1>1
  <2>4. Len(RemoveAt(s, k)) = Len(s)-1 /\ RemoveAt(s, k) \in Seq(S)
    BY <2>3, <1>4, <1>5
  <2> QED
    BY <2>2, <2>4, <1>5

\* Unlinking a marker leaves each of the others once, and none that was not there.
LEMMA OneLess ==
  ASSUME NEW S, NEW s \in Seq(S), NEW e, NEW r, r = RemoveFirst(s, e)
  PROVE  /\ r \in Seq(S)
         /\ \E f \in [1..Len(r) -> 1..Len(s)] :
              /\ \A i \in 1..Len(r) : r[i] = s[f[i]]
              /\ \A i, j \in 1..Len(r) : f[i] = f[j] => i = j
         /\ (\A i, j \in 1..Len(s) : s[i] = e /\ s[j] = e => i = j) =>
              \A i \in 1..Len(r) : r[i] # e
<1>1. Len(s) \in Nat
  BY LenProperties
<1>2. CASE \E i \in 1..Len(s) : s[i] = e
  <2>1. PICK k \in 1..Len(s) : s[k] = e /\ r = RemoveAt(s, k)
    BY <1>2, FirstAt
  <2>2. /\ r \in Seq(S) /\ Len(r) = Len(s) - 1
        /\ \A i \in 1..Len(s)-1 : r[i] = IF i < k THEN s[i] ELSE s[i+1]
    BY <2>1, Without
  <2> DEFINE f == [i \in 1..Len(r) |-> IF i < k THEN i ELSE i+1]
  <2>3. f \in [1..Len(r) -> 1..Len(s)]
    BY <2>2, <1>1
  <2>4. \A i \in 1..Len(r) : r[i] = s[f[i]] /\ f[i] # k
    BY <2>2, <1>1
  <2>5. \A i, j \in 1..Len(r) : f[i] = f[j] => i = j
    BY <2>2, <1>1
  <2> HIDE DEF f
  <2>6. ASSUME \A i, j \in 1..Len(s) : s[i] = e /\ s[j] = e => i = j, NEW i \in 1..Len(r)
        PROVE  r[i] # e
    BY <2>1, <2>3, <2>4, <2>6
  <2> QED
    BY <2>2, <2>3, <2>4, <2>5, <2>6
<1>3. CASE ~\E i \in 1..Len(s) : s[i] = e
  <2>1. r = s
    BY <1>3 DEF RemoveFirst
  <2> DEFINE f == [i \in 1..Len(s) |-> i]
  <2>2. /\ f \in [1..Len(s) -> 1..Len(s)]
        /\ \A i \in 1..Len(s) : s[i] = s[f[i]]
        /\ \A i, j \in 1..Len(s) : f[i] = f[j] => i = j
    OBVIOUS
  <2> HIDE DEF f
  <2> QED
    BY <2>1, <2>2, <1>3
<1> QED
  BY <1>2, <1>3

\* A marker that stays still leads; the others are of processes that have no other, or none.
LEMMA LeadKept ==
  ASSUME LeadInv, markers \in Seq(Host), NEW f \in [1..Len(markers') -> 1..Len(markers)],
         \A i \in 1..Len(markers') : markers'[i] = markers[f[i]],
         \A i, j \in 1..Len(markers') : f[i] = f[j] => i = j,
         \A q \in Procs :
           \/ app'[q].at = "gone"
           \/ app[q].at # "gone" /\ app'[q].port = app[q].port
           \/ \A i \in 1..Len(markers') : markers'[i].proc # q
  PROVE  LeadInv'
<1> SUFFICES ASSUME NEW i \in 1..Len(markers'), app'[markers'[i].proc].at # "gone"
             PROVE  /\ app'[markers'[i].proc].port = markers'[i].port
                    /\ \A j \in 1..Len(markers') :
                         markers'[j].proc = markers'[i].proc => i = j
  BY DEF LeadInv
<1> DEFINE q == markers'[i].proc
<1>1. markers'[i] = markers[f[i]] /\ f[i] \in 1..Len(markers)
  OBVIOUS
<1>2. markers[f[i]] \in Host
  BY <1>1, ElementOfSeq
<1>3. q \in Procs
  BY <1>1, <1>2 DEF Host
<1>4. app[q].at # "gone" /\ app'[q].port = app[q].port
  BY <1>3
<1>5. /\ app[q].port = markers[f[i]].port
      /\ \A j \in 1..Len(markers) : markers[j].proc = q => f[i] = j
  BY <1>1, <1>4 DEF LeadInv
<1>6. ASSUME NEW j \in 1..Len(markers'), markers'[j].proc = q
      PROVE  i = j
  <2>1. f[j] \in 1..Len(markers) /\ markers[f[j]].proc = q
    BY <1>6
  <2> QED
    BY <2>1, <1>5
<1> QED
  BY <1>1, <1>4, <1>5, <1>6

\* The same for markers that are not touched.
LEMMA LeadUntouched ==
  ASSUME LeadInv, markers \in Seq(Host), markers' = markers,
         \A q \in Procs :
           \/ app'[q].at = "gone"
           \/ app[q].at # "gone" /\ app'[q].port = app[q].port
  PROVE  LeadInv'
<1> DEFINE f == [i \in 1..Len(markers) |-> i]
<1>1. /\ f \in [1..Len(markers') -> 1..Len(markers)]
      /\ \A i \in 1..Len(markers') : markers'[i] = markers[f[i]]
      /\ \A i, j \in 1..Len(markers') : f[i] = f[j] => i = j
  OBVIOUS
<1> HIDE DEF f
<1> QED
  BY <1>1, LeadKept

\* Each marker that is not unlinked is still there, and no other one.
LEMMA OthersStay ==
  ASSUME markers \in Seq(Host), NEW h, markers' = Unlinked(h)
  PROVE  /\ markers' \in Seq(Host)
         /\ \E f \in [1..Len(markers') -> 1..Len(markers)] :
              /\ \A i \in 1..Len(markers') : markers'[i] = markers[f[i]]
              /\ \A i, j \in 1..Len(markers') : f[i] = f[j] => i = j
         /\ (\A i, j \in 1..Len(markers) : markers[i] = h /\ markers[j] = h => i = j) =>
              \A i \in 1..Len(markers') : markers'[i] # h
<1>1. markers' = RemoveFirst(markers, h)
  BY DEF Unlinked
<1> QED
  BY <1>1, OneLess, SMTT(30)

\* The same for a marker that is unlinked by a launch.
LEMMA LeadUnlinked ==
  ASSUME LeadInv, markers \in Seq(Host), NEW h, markers' = Unlinked(h),
         \A q \in Procs :
           \/ app'[q].at = "gone"
           \/ app[q].at # "gone" /\ app'[q].port = app[q].port
  PROVE  LeadInv' /\ markers' \in Seq(Host)
<1>1. /\ markers' \in Seq(Host)
      /\ \E f \in [1..Len(markers') -> 1..Len(markers)] :
           /\ \A i \in 1..Len(markers') : markers'[i] = markers[f[i]]
           /\ \A i, j \in 1..Len(markers') : f[i] = f[j] => i = j
  BY OthersStay
<1>2. PICK f \in [1..Len(markers') -> 1..Len(markers)] :
           /\ \A i \in 1..Len(markers') : markers'[i] = markers[f[i]]
           /\ \A i, j \in 1..Len(markers') : f[i] = f[j] => i = j
  BY <1>1
<1> QED
  BY <1>1, <1>2, LeadKept

\* A host that ends takes its own marker with it, if it is there; another is not there.
LEMMA LeadRetired ==
  ASSUME LeadInv, markers \in Seq(Host), NEW p \in Procs, app[p].at # "gone",
         markers' = Unlinked([proc |-> p, port |-> app[p].port]),
         \A q \in Procs \ {p} : app'[q] = app[q]
  PROVE  LeadInv' /\ markers' \in Seq(Host)
<1> DEFINE h == [proc |-> p, port |-> app[p].port]
<1>1. markers' = Unlinked(h)
  OBVIOUS
<1>2. \A i \in 1..Len(markers) : markers[i].proc = p =>
        /\ markers[i] = h
        /\ \A j \in 1..Len(markers) : markers[j].proc = p => i = j
  <2> SUFFICES ASSUME NEW i \in 1..Len(markers), markers[i].proc = p
               PROVE  /\ markers[i] = h
                      /\ \A j \in 1..Len(markers) : markers[j].proc = p => i = j
    OBVIOUS
  <2>1. markers[i] \in Host
    BY ElementOfSeq
  <2> QED
    BY <2>1 DEF LeadInv, Host
<1>3. h.proc = p
  OBVIOUS
<1> HIDE DEF h
<1>4. \A i, j \in 1..Len(markers) : markers[i] = h /\ markers[j] = h => i = j
  BY <1>2, <1>3
<1>5. /\ markers' \in Seq(Host)
      /\ \E f \in [1..Len(markers') -> 1..Len(markers)] :
           /\ \A i \in 1..Len(markers') : markers'[i] = markers[f[i]]
           /\ \A i, j \in 1..Len(markers') : f[i] = f[j] => i = j
  BY <1>1, OthersStay
<1>6. \A i \in 1..Len(markers') : markers'[i] # h
  BY <1>1, <1>4, OthersStay
<1>7. PICK f \in [1..Len(markers') -> 1..Len(markers)] :
           /\ \A i \in 1..Len(markers') : markers'[i] = markers[f[i]]
           /\ \A i, j \in 1..Len(markers') : f[i] = f[j] => i = j
  BY <1>5
<1>8. \A i \in 1..Len(markers') : markers'[i].proc # p
  <2> SUFFICES ASSUME NEW i \in 1..Len(markers'), markers'[i].proc = p
               PROVE  FALSE
    OBVIOUS
  <2>1. f[i] \in 1..Len(markers) /\ markers[f[i]].proc = p
    BY <1>7
  <2>2. markers[f[i]] = h
    BY <2>1, <1>2
  <2> QED
    BY <2>2, <1>6, <1>7
<1>9. \A q \in Procs :
        \/ app'[q].at = "gone"
        \/ app[q].at # "gone" /\ app'[q].port = app[q].port
        \/ \A i \in 1..Len(markers') : markers'[i].proc # q
  BY <1>8
<1> QED
  BY <1>5, <1>7, <1>9, LeadKept

\* A new host's marker leads to it, and is the only one of its process.
LEMMA LeadPublished ==
  ASSUME LeadInv, markers \in Seq(Host), NEW p \in Procs, app[p].at # "gone", app[p].port = 0,
         NEW n \in Nat \ {0}, markers' = <<[proc |-> p, port |-> n]>> \o markers,
         app'[p].port = n, \A q \in Procs \ {p} : app'[q] = app[q]
  PROVE  LeadInv' /\ markers' \in Seq(Host)
<1> DEFINE h == [proc |-> p, port |-> n]
<1>1. h \in Host
  BY DEF Host
<1> HIDE DEF h
<1>2. <<h>> \in Seq(Host) /\ Len(<<h>>) = 1 /\ <<h>>[1] = h
  BY <1>1
<1>3. Len(markers) \in Nat
  BY LenProperties
<1>4. /\ markers' \in Seq(Host) /\ Len(markers') = 1 + Len(markers)
      /\ \A i \in 1..1 + Len(markers) :
           markers'[i] = IF i <= 1 THEN <<h>>[i] ELSE markers[i - 1]
  <2>1. markers' = <<h>> \o markers
    BY DEF h
  <2> QED
    BY <2>1, <1>2, ConcatProperties
<1>5. markers'[1] = h
  <2>1. 1 \in 1..1 + Len(markers) /\ 1 <= 1
    BY <1>3
  <2>2. markers'[1] = <<h>>[1]
    BY <2>1, <1>4
  <2> QED
    BY <2>2, <1>2
<1>6. \A i \in 1..Len(markers') : i # 1 =>
        i - 1 \in 1..Len(markers) /\ markers'[i] = markers[i - 1]
  BY <1>3, <1>4
<1>7. \A i \in 1..Len(markers) : markers[i] \in Host
  BY ElementOfSeq
<1>8. \A i \in 1..Len(markers) : markers[i].proc # p
  BY <1>7 DEF LeadInv, Host
<1>9. \A i \in 1..Len(markers') : markers'[i].proc = p => i = 1
  BY <1>6, <1>8
<1>10. h.proc = p /\ h.port = n
  BY DEF h
<1> SUFFICES ASSUME NEW i \in 1..Len(markers'), app'[markers'[i].proc].at # "gone"
             PROVE  /\ app'[markers'[i].proc].port = markers'[i].port
                    /\ \A j \in 1..Len(markers') :
                         markers'[j].proc = markers'[i].proc => i = j
  BY <1>4 DEF LeadInv
<1>11. CASE i = 1
  BY <1>11, <1>5, <1>9, <1>10
<1>12. CASE i # 1
  <2>1. i - 1 \in 1..Len(markers) /\ markers'[i] = markers[i - 1]
    BY <1>12, <1>6
  <2>2. markers'[i].proc \in Procs \ {p}
    BY <2>1, <1>7, <1>8 DEF Host
  <2>3. app'[markers'[i].proc] = app[markers'[i].proc]
    BY <2>2
  <2>4. /\ app[markers'[i].proc].port = markers'[i].port
        /\ \A j \in 1..Len(markers) : markers[j].proc = markers'[i].proc => i - 1 = j
    BY <2>1, <2>3 DEF LeadInv
  <2>5. ASSUME NEW j \in 1..Len(markers'), markers'[j].proc = markers'[i].proc
        PROVE  i = j
    <3>1. j # 1
      BY <2>2, <2>5, <1>5, <1>10
    <3>2. j - 1 \in 1..Len(markers) /\ markers[j - 1].proc = markers'[i].proc
      BY <3>1, <2>5, <1>6
    <3>3. i - 1 = j - 1
      BY <3>2, <2>4
    <3> QED
      BY <3>3, <1>4, <1>3
  <2> QED
    BY <2>3, <2>4, <2>5
<1> QED
  BY <1>11, <1>12

-----------------------------------------------------------------------------
(* What a handler makes of the state of a process.                         *)

\* The states that a handler may leave: the host is the one that was there, a new one
\* where there was none, or none.
Made(p, a) ==
  /\ a \in App /\ a.at = "run"
  /\ a.backlog = app[p].backlog /\ a.queue \subseteq app[p].queue
  /\ \/ a.port = 0
     \/ a.port = app[p].port /\ a.ports = app[p].ports
     \/ app[p].port = 0 /\ a.port = a.ports

\* Who left a: its process has that state, or has ended, and its host with it.
Left(p, a, exits) ==
  /\ app' \in [Procs -> App]
  /\ \A q \in Procs \ {p} : app'[q] = app[q]
  /\ app'[p].at = (IF exits THEN "gone" ELSE "run")
  /\ app'[p].main = (IF exits THEN "none" ELSE a.main)
  /\ app'[p].tick = (IF exits THEN FALSE ELSE a.tick)
  /\ app'[p].port = a.port /\ app'[p].ports = a.ports
  /\ app'[p].jobs = a.jobs /\ app'[p].scanning = a.scanning
  /\ app'[p].history = a.history
  /\ app'[p].detached = a.detached /\ app'[p].attention = a.attention
  /\ app'[p].port = 0 => app'[p].backlog = {} /\ app'[p].queue = {}
  /\ app'[p].queue = a.queue \/ a.queue \subseteq lost'

\* Whoever was answered by a host that ends is in the lost, like all that it had received.
Answered ==
  /\ acked \subseteq acked' /\ lost \subseteq lost'
  /\ acked' \subseteq acked \cup lost' /\ lost' \subseteq Procs

LEMMA LeavesStep ==
  ASSUME TypeOK, LeadInv, NEW p \in Procs, Running(p), NEW a, Made(p, a),
         NEW exits \in BOOLEAN, exits => a.port = 0, Leaves(p, a, exits)
  PROVE  /\ Left(p, a, exits) /\ Answered
         /\ markers' \in Seq(Host) /\ LeadInv'
<1> DEFINE h == [proc |-> p, port |-> app[p].port]
           b == IF exits THEN [a EXCEPT !.at = "gone", !.main = "none", !.tick = FALSE] ELSE a
           c == [b EXCEPT !.backlog = {}, !.queue = {}]
<1>1. /\ app \in [Procs -> App] /\ app[p] \in App /\ app[p].at = "run"
      /\ markers \in Seq(Host) /\ lost \subseteq Procs
      /\ app[p].port \in {0, app[p].ports}
      /\ app[p].port = 0 => app[p].backlog = {} /\ app[p].queue = {}
  BY DEF TypeOK, Running
<1>2. a \in App /\ a.at = "run" /\ a.port \in Nat /\ app[p].port \in Nat /\ app[p].ports \in Nat
  BY <1>1 DEF Made, App
<1>3. b \in App
  BY <1>2 DEF App
<1>4. /\ b.at = (IF exits THEN "gone" ELSE "run")
      /\ b.main = (IF exits THEN "none" ELSE a.main)
      /\ b.tick = (IF exits THEN FALSE ELSE a.tick)
      /\ b.port = a.port /\ b.ports = a.ports
      /\ b.jobs = a.jobs /\ b.scanning = a.scanning /\ b.history = a.history
      /\ b.detached = a.detached /\ b.attention = a.attention
      /\ b.backlog = a.backlog /\ b.queue = a.queue
  BY <1>2 DEF App
<1>5. c \in App
  BY <1>3 DEF App
<1>6. /\ c.at = b.at /\ c.main = b.main /\ c.tick = b.tick /\ c.port = b.port /\ c.ports = b.ports
      /\ c.jobs = b.jobs /\ c.scanning = b.scanning /\ c.history = b.history
      /\ c.detached = b.detached /\ c.attention = b.attention
      /\ c.backlog = {} /\ c.queue = {}
  BY <1>3 DEF App
<1>7. \/ /\ a.port = app[p].port /\ app' = [app EXCEPT ![p] = b]
         /\ UNCHANGED <<markers, acked, lost>>
      \/ /\ a.port # app[p].port /\ app[p].port = 0 /\ app' = [app EXCEPT ![p] = b]
         /\ markers' = <<[proc |-> p, port |-> a.port]>> \o markers
         /\ UNCHANGED <<acked, lost>>
      \/ /\ a.port # app[p].port /\ app[p].port # 0 /\ app' = [app EXCEPT ![p] = c]
         /\ markers' = Unpublished(h)
         /\ \E late \in {{}} \cup {{d} : d \in app[p].backlog} :
              /\ acked' = acked \cup {d \in late : Waits(d, h)}
              /\ lost' = lost \cup a.queue \cup late
  BY DEF Leaves
<1> HIDE DEF b, c
<1>8. CASE /\ a.port = app[p].port /\ app' = [app EXCEPT ![p] = b]
           /\ UNCHANGED <<markers, acked, lost>>
  <2>1. app' \in [Procs -> App] /\ app'[p] = b /\ \A q \in Procs \ {p} : app'[q] = app[q]
    BY <1>8, <1>1, <1>3
  <2>2. b.port = 0 => b.backlog = {} /\ b.queue = {}
    BY <1>1, <1>4, <1>8 DEF Made
  <2>3. Left(p, a, exits)
    BY <2>1, <2>2, <1>4 DEF Left
  <2>4. Answered
    BY <1>8, <1>1 DEF Answered
  <2>5. \A q \in Procs :
          \/ app'[q].at = "gone"
          \/ app[q].at # "gone" /\ app'[q].port = app[q].port
    BY <2>1, <1>1, <1>4, <1>8
  <2>6. LeadInv'
    BY <2>5, <1>1, <1>8, LeadUntouched
  <2> QED
    BY <2>3, <2>4, <2>6, <1>1, <1>8
<1>9. CASE /\ a.port # app[p].port /\ app[p].port = 0 /\ app' = [app EXCEPT ![p] = b]
           /\ markers' = <<[proc |-> p, port |-> a.port]>> \o markers
           /\ UNCHANGED <<acked, lost>>
  <2>1. app' \in [Procs -> App] /\ app'[p] = b /\ \A q \in Procs \ {p} : app'[q] = app[q]
    BY <1>9, <1>1, <1>3
  <2>2. a.port \in Nat \ {0} /\ b.port = a.port
    BY <1>9, <1>2, <1>4
  <2>3. Left(p, a, exits)
    BY <2>1, <2>2, <1>4 DEF Left
  <2>4. Answered
    BY <1>9, <1>1 DEF Answered
  <2>5. LeadInv' /\ markers' \in Seq(Host)
    BY <2>1, <2>2, <1>1, <1>9, LeadPublished
  <2> QED
    BY <2>3, <2>4, <2>5
<1>10. CASE /\ a.port # app[p].port /\ app[p].port # 0 /\ app' = [app EXCEPT ![p] = c]
            /\ markers' = Unpublished(h)
            /\ \E late \in {{}} \cup {{d} : d \in app[p].backlog} :
                 /\ acked' = acked \cup {d \in late : Waits(d, h)}
                 /\ lost' = lost \cup a.queue \cup late
  <2>1. app' \in [Procs -> App] /\ app'[p] = c /\ \A q \in Procs \ {p} : app'[q] = app[q]
    BY <1>10, <1>1, <1>5
  <2>2. PICK late \in {{}} \cup {{d} : d \in app[p].backlog} :
          /\ acked' = acked \cup {d \in late : Waits(d, h)}
          /\ lost' = lost \cup a.queue \cup late
    BY <1>10
  <2>3. late \subseteq Procs /\ a.queue \subseteq Procs
    BY <1>1, <1>2 DEF App
  <2>4. Answered
    BY <2>2, <2>3, <1>1 DEF Answered
  <2>5. Left(p, a, exits)
    BY <2>1, <2>2, <1>4, <1>6 DEF Left
  <2>6. LeadInv' /\ markers' \in Seq(Host)
    <3>1. markers' = Unlinked([proc |-> p, port |-> app[p].port])
      BY <1>10 DEF Unpublished
    <3> QED
      BY <3>1, <2>1, <1>1, LeadRetired
  <2> QED
    BY <2>4, <2>5, <2>6
<1> QED
  BY <1>7, <1>8, <1>9, <1>10

\* A handler that drops no path, shows what is asked for and is polled if it has a host
\* keeps every part of the invariant.
LEMMA HandlerKeeps ==
  ASSUME HostInv, NEW p \in Procs, Running(p), NEW a, Made(p, a),
         NEW exits \in BOOLEAN, exits => a.port = 0 /\ a.jobs = {}, Leaves(p, a, exits),
         opened' \in [Procs -> SUBSET Procs],
         \A q \in Procs : opened[q] \subseteq opened'[q],
         \A q \in Procs \ {p} : opened'[q] = opened[q],
         app[p].queue \subseteq a.queue \cup opened'[p],
         started' \in 0..MaxJobs, stops' = stops, timeouts' = timeouts,
         asked' \subseteq Procs, asked' \subseteq asked \cup {p},
         outlived \subseteq outlived', outlived' \subseteq Procs,
         ~exits /\ p \in asked' => a.main = "open" \/ (a.main = "closing" /\ a.attention),
         ~exits /\ a.port # 0 => Ticks(a) \/ a.tick \/ p \in outlived',
         ~exits /\ a.main = "none" => a.detached
  PROVE  HostInv' /\ Spared
<1>1. TypeOK /\ Waiters /\ LeadInv /\ HeldInv /\ AttentionIsShown /\ PollInv
  BY DEF HostInv
<1>2. Left(p, a, exits) /\ Answered /\ markers' \in Seq(Host) /\ LeadInv'
  BY <1>1, LeavesStep
<1>3. /\ app' \in [Procs -> App]
      /\ \A q \in Procs \ {p} : app'[q] = app[q]
      /\ app'[p].at = (IF exits THEN "gone" ELSE "run")
      /\ app'[p].main = (IF exits THEN "none" ELSE a.main)
      /\ app'[p].port = a.port /\ app'[p].ports = a.ports
      /\ app'[p].detached = a.detached /\ app'[p].attention = a.attention
      /\ app'[p].port = 0 => app'[p].backlog = {} /\ app'[p].queue = {}
      /\ app'[p].queue = a.queue \/ a.queue \subseteq lost'
  BY <1>2 DEF Left
<1>4. app[p].at = "run"
  BY DEF Running
<1>5. a.port \in {0, a.ports}
  BY <1>1 DEF Made, TypeOK
<1>6. TypeOK'
  <2>1. acked' \subseteq Procs /\ lost' \subseteq Procs
    BY <1>1, <1>2 DEF TypeOK, Answered
  <2>2. \A q \in Procs :
          /\ app'[q].port \in {0, app'[q].ports}
          /\ app'[q].port = 0 => app'[q].backlog = {} /\ app'[q].queue = {}
          /\ app'[q].at # "run" => app'[q].main = "none" /\ app'[q].port = 0
    <3> SUFFICES ASSUME NEW q \in Procs
                 PROVE  /\ app'[q].port \in {0, app'[q].ports}
                        /\ app'[q].port = 0 => app'[q].backlog = {} /\ app'[q].queue = {}
                        /\ app'[q].at # "run" => app'[q].main = "none" /\ app'[q].port = 0
      OBVIOUS
    <3>1. CASE q = p
      BY <3>1, <1>3, <1>5
    <3>2. CASE q # p
      BY <3>2, <1>1, <1>3 DEF TypeOK
    <3> QED
      BY <3>1, <3>2
  <2> QED
    BY <2>1, <2>2, <1>1, <1>2, <1>3 DEF TypeOK
<1>7. Waiters'
  BY <1>1, <1>3 DEF Waiters
<1>8. HeldInv'
  <2>1. ASSUME NEW c, Held(c)
        PROVE  Held(c)'
    <3>1. c \in lost \/ \E q \in Procs : c \in opened[q] \cup app[q].queue
      BY <2>1 DEF Held
    <3>2. lost \subseteq lost'
      BY <1>2 DEF Answered
    <3>3. CASE \E q \in Procs \ {p} : c \in app[q].queue
      BY <3>3, <1>3 DEF Held
    <3>4. CASE c \in app[p].queue
      BY <3>4, <1>3 DEF Held
    <3> QED
      BY <3>1, <3>2, <3>3, <3>4 DEF Held
  <2>2. \A c \in acked' : Held(c)'
    <3>1. acked' \subseteq acked \cup lost'
      BY <1>2 DEF Answered
    <3>2. \A c \in acked : Held(c)
      BY <1>1 DEF HeldInv
    <3> QED
      BY <3>1, <3>2, <2>1 DEF Held
  <2>3. ASSUME NEW c \in Procs
        PROVE  /\ app'[c].at \in {"off", "seek", "wait"} => opened'[c] = {}
               /\ app'[c].at = "run" => c \in opened'[c]
               /\ app'[c].at = "gone" => c \in opened'[c] \/ Held(c)'
    <3>1. CASE c = p
      <4>1. c \in opened[c]
        BY <3>1, <1>1, <1>4 DEF HeldInv
      <4> QED
        BY <4>1, <3>1, <1>3
    <3>2. CASE c # p
      BY <3>2, <2>1, <1>1, <1>3 DEF HeldInv
    <3> QED
      BY <3>1, <3>2
  <2> QED
    BY <2>2, <2>3 DEF HeldInv
<1>9. AttentionIsShown'
  <2> SUFFICES ASSUME NEW q \in asked', Running(q)'
               PROVE  \/ app'[q].main = "open"
                      \/ app'[q].main = "closing" /\ app'[q].attention
    BY DEF AttentionIsShown
  <2>1. CASE q = p
    BY <2>1, <1>3 DEF Running
  <2>2. CASE q # p
    BY <2>2, <1>1, <1>3 DEF Running, AttentionIsShown
  <2> QED
    BY <2>1, <2>2
<1>10. PollInv'
  <2> SUFFICES ASSUME NEW q \in Procs, Running(q)'
               PROVE  /\ app'[q].port # 0 => Ticks(app[q])' \/ app'[q].tick \/ q \in outlived'
                      /\ app'[q].main = "none" => app'[q].detached
    BY DEF PollInv
  <2>1. CASE q = p
    <3>1. ~exits
      BY <2>1, <1>3 DEF Running
    <3>2. /\ app'[p].tick = a.tick /\ app'[p].jobs = a.jobs /\ app'[p].scanning = a.scanning
          /\ app'[p].history = a.history
      BY <3>1, <1>2 DEF Left
    <3>3. Ticks(app[p])' <=> Ticks(a)
      BY <3>2, <1>3 DEF Ticks
    <3> QED
      BY <2>1, <3>1, <3>2, <3>3, <1>3
  <2>2. CASE q # p
    <3>1. app'[q] = app[q]
      BY <2>2, <1>3
    <3>2. Ticks(app[q])' <=> Ticks(app[q])
      BY <3>1 DEF Ticks
    <3> QED
      BY <3>1, <3>2, <1>1 DEF Running, PollInv
  <2> QED
    BY <2>1, <2>2
<1>11. Spared
  <2>1. app'[p].jobs = a.jobs
    BY <1>2 DEF Left
  <2> QED
    BY <2>1, <1>3 DEF Spared, Running
<1> QED
  BY <1>2, <1>6, <1>7, <1>8, <1>9, <1>10, <1>11 DEF HostInv

-----------------------------------------------------------------------------
(* The parts that handlers are made of.                                    *)

\* What a part leaves alone, besides what a process has received and where it is.
Alike(a, b) ==
  /\ b.jobs = a.jobs /\ b.history = a.history /\ b.scanning = a.scanning
  /\ b.tick = a.tick /\ b.done = a.done /\ b.queue = a.queue

LEMMA RunningIsMade ==
  ASSUME TypeOK, NEW p \in Procs, Running(p)
  PROVE  Made(p, app[p])
BY DEF TypeOK, Running, Made

LEMMA PublishedIsMade ==
  ASSUME TypeOK, NEW p \in Procs, NEW a, Made(p, a), a.port = app[p].port,
         a.ports = app[p].ports, NEW b \in Published(a)
  PROVE  /\ Made(p, b) /\ Alike(a, b)
         /\ b.main = a.main /\ b.detached = a.detached /\ b.attention = a.attention
<1>1. a \in App /\ a.at = "run" /\ a.backlog = app[p].backlog /\ a.queue \subseteq app[p].queue
  BY DEF Made
<1>2. CASE b = a
  BY <1>2 DEF Alike
<1>3. CASE a.port = 0 /\ b = [a EXCEPT !.port = a.ports + 1, !.ports = @ + 1]
  <2>1. a.ports \in Nat /\ a.ports + 1 \in Nat
    BY <1>1 DEF App
  <2>2. b \in App
    BY <1>1, <1>3, <2>1 DEF App
  <2>3. /\ b.at = a.at /\ b.port = a.ports + 1 /\ b.ports = a.ports + 1
        /\ b.backlog = a.backlog /\ b.queue = a.queue /\ b.main = a.main
        /\ b.detached = a.detached /\ b.attention = a.attention
    BY <1>1, <1>3 DEF App
  <2>4. Alike(a, b)
    BY <1>1, <1>3 DEF App, Alike
  <2>5. Made(p, b)
    BY <2>2, <2>3, <1>1, <1>3 DEF Made
  <2> QED
    BY <2>3, <2>4, <2>5
<1> QED
  BY <1>2, <1>3 DEF Published

LEMMA RetiredIsMade ==
  ASSUME NEW p \in Procs, NEW a, Made(p, a)
  PROVE  /\ Made(p, Retired(a)) /\ Alike(a, Retired(a))
         /\ Retired(a).port = 0
         /\ Retired(a).main = a.main /\ Retired(a).detached = a.detached
         /\ Retired(a).attention = a.attention
<1> DEFINE b == Retired(a)
<1>1. /\ a \in App /\ a.at = "run" /\ a.backlog = app[p].backlog /\ a.queue \subseteq app[p].queue
  BY DEF Made
<1>2. b \in App
  BY <1>1 DEF App, Retired
<1>3. /\ b.at = a.at /\ b.port = 0 /\ b.ports = a.ports
      /\ b.backlog = a.backlog /\ b.queue = a.queue /\ b.main = a.main
      /\ b.detached = a.detached /\ b.attention = a.attention
  BY <1>1 DEF App, Retired
<1>4. Alike(a, b)
  BY <1>1 DEF App, Retired, Alike
<1>5. Made(p, b)
  BY <1>1, <1>2, <1>3 DEF Made
<1> QED
  BY <1>3, <1>4, <1>5

LEMMA ReactivatedIsMade ==
  ASSUME NEW p \in Procs, NEW a, Made(p, a)
  PROVE  LET b == Reactivated(a) IN
         /\ Made(p, b) /\ Alike(a, b)
         /\ b.port = a.port /\ b.ports = a.ports
         /\ b.main = (IF a.main = "none" THEN "open" ELSE a.main)
         /\ b.main # "none" /\ ~b.attention /\ ~b.detached
<1> DEFINE b == Reactivated(a)
<1>1. /\ a \in App /\ a.at = "run" /\ a.backlog = app[p].backlog /\ a.queue \subseteq app[p].queue
      /\ \/ a.port = 0
         \/ a.port = app[p].port /\ a.ports = app[p].ports
         \/ app[p].port = 0 /\ a.port = a.ports
  BY DEF Made
<1>2. b \in App
  BY <1>1 DEF App, Reactivated
<1>3. /\ b.at = a.at /\ b.port = a.port /\ b.ports = a.ports
      /\ b.backlog = a.backlog /\ b.queue = a.queue
      /\ b.main = (IF a.main = "none" THEN "open" ELSE a.main)
      /\ b.detached = FALSE /\ b.attention = FALSE
  BY <1>1 DEF App, Reactivated
<1>4. Alike(a, b)
  BY <1>1 DEF App, Reactivated, Alike
<1>5. Made(p, b)
  BY <1>1, <1>2, <1>3 DEF Made
<1> QED
  BY <1>3, <1>4, <1>5

LEMMA AttendedIsMade ==
  ASSUME NEW p \in Procs, NEW a, Made(p, a)
  PROVE  LET b == Attended(a) IN
         /\ Made(p, b) /\ Alike(a, b)
         /\ b.port = a.port /\ b.ports = a.ports
         /\ b.main = "open" \/ (b.main = "closing" /\ b.attention)
<1> DEFINE b == Attended(a)
<1>1. /\ a \in App /\ a.at = "run" /\ a.backlog = app[p].backlog /\ a.queue \subseteq app[p].queue
      /\ \/ a.port = 0
         \/ a.port = app[p].port /\ a.ports = app[p].ports
         \/ app[p].port = 0 /\ a.port = a.ports
  BY DEF Made
<1>2. CASE a.main = "none"
  <2>1. b = Reactivated(a)
    BY <1>2 DEF Attended
  <2>2. /\ Made(p, Reactivated(a)) /\ Alike(a, Reactivated(a))
        /\ Reactivated(a).port = a.port /\ Reactivated(a).ports = a.ports
        /\ Reactivated(a).main = "open"
    BY <1>2, ReactivatedIsMade
  <2> QED
    BY <2>1, <2>2
<1>3. CASE a.main # "none"
  <2>1. a.main \in {"open", "closing"}
    BY <1>1, <1>3 DEF App
  <2>2. PICK v \in BOOLEAN : b = [a EXCEPT !.attention = v] /\ (a.main = "closing" => v)
    BY <1>3 DEF Attended
  <2>3. b \in App
    BY <1>1, <2>2 DEF App
  <2>4. /\ b.at = a.at /\ b.port = a.port /\ b.ports = a.ports
        /\ b.backlog = a.backlog /\ b.queue = a.queue
        /\ b.main = a.main /\ b.attention = v
    BY <1>1, <2>2 DEF App
  <2>5. Alike(a, b)
    BY <1>1, <2>2 DEF App, Alike
  <2>6. Made(p, b)
    BY <1>1, <2>3, <2>4 DEF Made
  <2>7. a.main = "closing" => b.attention
    BY <2>2, <2>4, Zenon
  <2> HIDE DEF b
  <2>8. b.main = "open" \/ (b.main = "closing" /\ b.attention)
    BY <2>1, <2>4, <2>7
  <2> QED
    BY <2>4, <2>5, <2>6, <2>8 DEF b
<1> QED
  BY <1>2, <1>3

LEMMA StaysMade ==
  ASSUME NEW p \in Procs, NEW b, b \in App, b.at = "run",
         b.port = app[p].port, b.ports = app[p].ports,
         b.backlog = app[p].backlog, b.queue = app[p].queue
  PROVE  Made(p, b)
BY DEF Made

\* finish_detached_operation_host_task keeps the invariant: it only ends a process that
\* has nothing left to do.
LEMMA FinishKeeps ==
  ASSUME HostInv, NEW p \in Procs, Running(p), NEW a, Made(p, a), Finish(p, a),
         opened' \in [Procs -> SUBSET Procs],
         \A q \in Procs : opened[q] \subseteq opened'[q],
         \A q \in Procs \ {p} : opened'[q] = opened[q],
         app[p].queue \subseteq a.queue \cup opened'[p],
         UNCHANGED counts,
         asked' \subseteq Procs, asked' \subseteq asked \cup {p},
         outlived \subseteq outlived', outlived' \subseteq Procs,
         p \in asked' => a.main = "open" \/ (a.main = "closing" /\ a.attention),
         a.port # 0 => Ticks(a) \/ a.tick \/ p \in outlived',
         a.main = "none" => a.detached
  PROVE  HostInv' /\ Spared
<1>1. started' \in 0..MaxJobs /\ stops' = stops /\ timeouts' = timeouts
  BY DEF HostInv, TypeOK, counts
<1>2. CASE ReadyToExit(a)
  <2>1. Leaves(p, Retired(a), TRUE)
    BY <1>2 DEF Finish
  <2>2. /\ Made(p, Retired(a)) /\ Retired(a).port = 0
        /\ Retired(a).queue = a.queue /\ Retired(a).jobs = a.jobs
    BY RetiredIsMade DEF Alike
  <2>3. a.jobs = {}
    BY <1>2 DEF ReadyToExit
  <2> QED
    BY <2>1, <2>2, <2>3, <1>1, HandlerKeeps
<1>3. CASE ~ReadyToExit(a)
  <2>1. Leaves(p, a, FALSE)
    BY <1>3 DEF Finish
  <2> QED
    BY <2>1, <1>1, HandlerKeeps
<1> QED
  BY <1>2, <1>3

\* What every handler finds.
LEMMA Found ==
  ASSUME HostInv, NEW p \in Procs, Running(p)
  PROVE  /\ TypeOK /\ app[p] \in App /\ app[p].at = "run"
         /\ opened \in [Procs -> SUBSET Procs] /\ asked \subseteq Procs /\ outlived \subseteq Procs
         /\ p \in asked => app[p].main = "open" \/ (app[p].main = "closing" /\ app[p].attention)
         /\ app[p].port # 0 => Ticks(app[p]) \/ app[p].tick \/ p \in outlived
         /\ app[p].main = "none" => app[p].detached
BY DEF HostInv, TypeOK, Running, AttentionIsShown, PollInv

\* The small steps of a process: no window and no host is touched.
LEMMA SmallStep ==
  ASSUME HostInv, NEW p \in Procs, Running(p), NEW b, b \in App, app' = [app EXCEPT ![p] = b],
         b.at = "run", b.port = app[p].port, b.ports = app[p].ports,
         b.backlog = app[p].backlog, b.queue = app[p].queue,
         b.main = app[p].main, b.detached = app[p].detached, b.attention = app[p].attention,
         Ticks(app[p]) \/ app[p].tick => Ticks(b) \/ b.tick,
         started' \in 0..MaxJobs,
         UNCHANGED <<markers, acked, opened, stops, timeouts, lost, asked, outlived>>
  PROVE  HostInv' /\ Spared
<1>1. Made(p, b)
  BY StaysMade
<1>2. Leaves(p, b, FALSE)
  BY DEF Leaves
<1>3. opened' = opened /\ asked' = asked /\ outlived' = outlived
      /\ stops' = stops /\ timeouts' = timeouts
  OBVIOUS
<1> QED
  BY <1>1, <1>2, <1>3, Found, HandlerKeeps

LEMMA StartJobKeeps ==
  ASSUME HostInv, NEW p \in Procs, NEW k \in Kinds, StartJob(p, k)
  PROVE  HostInv' /\ Spared
<1> DEFINE b == [app[p] EXCEPT !.jobs = @ \cup {k}, !.scanning = @ \/ k = "analysis"]
<1>1. Running(p)
  BY DEF StartJob
<1>2. app[p] \in App /\ app[p].at = "run" /\ app \in [Procs -> App]
  BY <1>1, Found DEF TypeOK
<1>3. b \in App
  BY <1>2 DEF App
<1>4. /\ b.at = "run" /\ b.port = app[p].port /\ b.ports = app[p].ports
      /\ b.backlog = app[p].backlog /\ b.queue = app[p].queue
      /\ b.main = app[p].main /\ b.detached = app[p].detached /\ b.attention = app[p].attention
      /\ b.jobs = app[p].jobs \cup {k} /\ b.history = app[p].history /\ b.tick = app[p].tick
  BY <1>2 DEF App
<1>5. app[p].scanning => b.scanning
  BY <1>2, Zenon DEF App
<1>6. app' = [app EXCEPT ![p] = b]
  BY <1>2 DEF StartJob
<1> HIDE DEF b
<1>7. Ticks(app[p]) \/ app[p].tick => Ticks(b) \/ b.tick
  BY <1>4, <1>5 DEF Ticks
<1>8. /\ started' \in 0..MaxJobs
      /\ UNCHANGED <<markers, acked, opened, stops, timeouts, lost, asked, outlived>>
  BY OperationHostAssumption DEF StartJob, HostInv, TypeOK
<1> QED
  BY <1>1, <1>3, <1>4, <1>6, <1>7, <1>8, SmallStep

LEMMA TransferEndsKeeps ==
  ASSUME HostInv, NEW p \in Procs, TransferEnds(p)
  PROVE  HostInv' /\ Spared
<1> DEFINE b == [app[p] EXCEPT !.done = TRUE]
<1>1. Running(p)
  BY DEF TransferEnds
<1>2. app[p] \in App /\ app[p].at = "run" /\ app \in [Procs -> App]
  BY <1>1, Found DEF TypeOK
<1>3. b \in App
  BY <1>2 DEF App
<1>4. /\ b.at = "run" /\ b.port = app[p].port /\ b.ports = app[p].ports
      /\ b.backlog = app[p].backlog /\ b.queue = app[p].queue
      /\ b.main = app[p].main /\ b.detached = app[p].detached /\ b.attention = app[p].attention
      /\ b.jobs = app[p].jobs /\ b.history = app[p].history /\ b.tick = app[p].tick
      /\ b.scanning = app[p].scanning
  BY <1>2 DEF App
<1>5. app' = [app EXCEPT ![p] = b]
  BY <1>2 DEF TransferEnds
<1> HIDE DEF b
<1>6. Ticks(app[p]) \/ app[p].tick => Ticks(b) \/ b.tick
  BY <1>4 DEF Ticks
<1>7. /\ started' \in 0..MaxJobs
      /\ UNCHANGED <<markers, acked, opened, stops, timeouts, lost, asked, outlived>>
  BY DEF TransferEnds, HostInv, TypeOK, counts
<1> QED
  BY <1>1, <1>3, <1>4, <1>5, <1>6, <1>7, SmallStep

LEMMA HistoryAgesKeeps ==
  ASSUME HostInv, NEW p \in Procs, HistoryAges(p)
  PROVE  HostInv' /\ Spared
<1> DEFINE b == [app[p] EXCEPT !.history = "old"]
<1>1. Running(p)
  BY DEF HistoryAges
<1>2. app[p] \in App /\ app[p].at = "run" /\ app \in [Procs -> App]
  BY <1>1, Found DEF TypeOK
<1>3. b \in App
  BY <1>2 DEF App
<1>4. /\ b.at = "run" /\ b.port = app[p].port /\ b.ports = app[p].ports
      /\ b.backlog = app[p].backlog /\ b.queue = app[p].queue
      /\ b.main = app[p].main /\ b.detached = app[p].detached /\ b.attention = app[p].attention
      /\ b.history = "old"
  BY <1>2 DEF App
<1>5. app' = [app EXCEPT ![p] = b]
  BY <1>2 DEF HistoryAges
<1> HIDE DEF b
<1>6. Ticks(b)
  BY <1>4 DEF Ticks
<1>7. /\ started' \in 0..MaxJobs
      /\ UNCHANGED <<markers, acked, opened, stops, timeouts, lost, asked, outlived>>
  BY DEF HistoryAges, HostInv, TypeOK, counts
<1> QED
  BY <1>1, <1>3, <1>4, <1>5, <1>6, <1>7, SmallStep

LEMMA TickKeeps ==
  ASSUME HostInv, NEW p \in Procs, Tick(p)
  PROVE  HostInv' /\ Spared
<1> DEFINE b == [app[p] EXCEPT !.tick = TRUE]
<1>1. Running(p)
  BY DEF Tick
<1>2. app[p] \in App /\ app[p].at = "run" /\ app \in [Procs -> App]
  BY <1>1, Found DEF TypeOK
<1>3. b \in App
  BY <1>2 DEF App
<1>4. /\ b.at = "run" /\ b.port = app[p].port /\ b.ports = app[p].ports
      /\ b.backlog = app[p].backlog /\ b.queue = app[p].queue
      /\ b.main = app[p].main /\ b.detached = app[p].detached /\ b.attention = app[p].attention
      /\ b.tick = TRUE
  BY <1>2 DEF App
<1>5. app' = [app EXCEPT ![p] = b]
  BY <1>2 DEF Tick
<1> HIDE DEF b
<1>6. b.tick
  BY <1>4
<1>7. /\ started' \in 0..MaxJobs
      /\ UNCHANGED <<markers, acked, opened, stops, timeouts, lost, asked, outlived>>
  BY DEF Tick, HostInv, TypeOK, counts
<1> QED
  BY <1>1, <1>3, <1>4, <1>5, <1>6, <1>7, SmallStep

-----------------------------------------------------------------------------
(* The handlers of the windows.                                            *)

LEMMA WindowCloseKeeps ==
  ASSUME HostInv, NEW p \in Procs, WindowClose(p)
  PROVE  HostInv' /\ Spared
<1>1. Running(p) /\ app[p].main = "open"
  BY DEF WindowClose
<1>2. /\ TypeOK /\ app[p] \in App /\ app[p].at = "run"
      /\ opened \in [Procs -> SUBSET Procs] /\ asked \subseteq Procs /\ outlived \subseteq Procs
  BY <1>1, Found
<1>3. /\ opened' = opened /\ asked' = asked \ {p} /\ outlived' = outlived
      /\ started' \in 0..MaxJobs /\ stops' = stops /\ timeouts' = timeouts
  BY <1>2 DEF WindowClose, TypeOK, counts
<1>4. CASE app[p].jobs # {}
  <2> DEFINE a == [app[p] EXCEPT !.detached = TRUE, !.main = "closing"]
  <2>1. PICK b \in Published(a) : Leaves(p, b, FALSE)
    BY <1>4 DEF WindowClose
  <2>2. a \in App
    BY <1>2 DEF App
  <2>3. /\ a.at = "run" /\ a.port = app[p].port /\ a.ports = app[p].ports
        /\ a.backlog = app[p].backlog /\ a.queue = app[p].queue
        /\ a.main = "closing" /\ a.detached
    BY <1>2 DEF App
  <2> HIDE DEF a
  <2>4. Made(p, a)
    BY <2>2, <2>3, StaysMade
  <2>5. Made(p, b) /\ b.queue = a.queue /\ b.main = a.main /\ b.detached = a.detached
    BY <2>1, <2>3, <2>4, <1>2, PublishedIsMade DEF Alike
  <2>6. Ticks(b)
    BY <2>3, <2>5 DEF Ticks
  <2>7. b.main = "closing" /\ app[p].queue = b.queue
    BY <2>3, <2>5
  <2> QED
    BY <2>1, <2>5, <2>6, <2>7, <1>1, <1>2, <1>3, HandlerKeeps
<1>5. CASE app[p].jobs = {}
  <2> DEFINE a == [app[p] EXCEPT !.detached = FALSE, !.main = "closing"]
  <2>1. Leaves(p, Retired(a), FALSE)
    BY <1>5 DEF WindowClose
  <2>2. a \in App
    BY <1>2 DEF App
  <2>3. /\ a.at = "run" /\ a.port = app[p].port /\ a.ports = app[p].ports
        /\ a.backlog = app[p].backlog /\ a.queue = app[p].queue
        /\ a.main = "closing"
    BY <1>2 DEF App
  <2> HIDE DEF a
  <2>4. Made(p, a)
    BY <2>2, <2>3, StaysMade
  <2>5. /\ Made(p, Retired(a)) /\ Retired(a).queue = app[p].queue
        /\ Retired(a).port = 0 /\ Retired(a).main = "closing"
    BY <2>3, <2>4, RetiredIsMade DEF Alike
  <2> QED
    BY <2>1, <2>5, <1>1, <1>2, <1>3, HandlerKeeps
<1> QED
  BY <1>4, <1>5

LEMMA CloseAnalysisKeeps ==
  ASSUME HostInv, NEW p \in Procs, CloseAnalysis(p)
  PROVE  HostInv' /\ Spared
<1> DEFINE a == [app[p] EXCEPT !.jobs = @ \ {"analysis"}, !.scanning = FALSE]
<1>1. Running(p) /\ Finish(p, a) /\ Outlives(p, a) /\ UNCHANGED <<opened, counts, asked>>
  BY DEF CloseAnalysis
<1>2. /\ app[p] \in App /\ app[p].at = "run"
      /\ opened \in [Procs -> SUBSET Procs] /\ asked \subseteq Procs /\ outlived \subseteq Procs
      /\ p \in asked => app[p].main = "open" \/ (app[p].main = "closing" /\ app[p].attention)
      /\ app[p].main = "none" => app[p].detached
  BY <1>1, Found
<1>3. a \in App
  BY <1>2 DEF App
<1>4. /\ a.at = "run" /\ a.port = app[p].port /\ a.ports = app[p].ports
      /\ a.backlog = app[p].backlog /\ a.queue = app[p].queue
      /\ a.main = app[p].main /\ a.detached = app[p].detached /\ a.attention = app[p].attention
  BY <1>2 DEF App
<1> HIDE DEF a
<1>5. Made(p, a)
  BY <1>3, <1>4, StaysMade
<1>6. /\ outlived \subseteq outlived' /\ outlived' \subseteq Procs
      /\ a.port # 0 => Ticks(a) \/ a.tick \/ p \in outlived'
  BY <1>1, <1>2 DEF Outlives
<1>7. opened' = opened /\ asked' = asked /\ UNCHANGED counts
  BY <1>1
<1> QED
  BY <1>1, <1>2, <1>4, <1>5, <1>6, <1>7, FinishKeeps

LEMMA WindowClosedKeeps ==
  ASSUME HostInv, NEW p \in Procs, WindowClosed(p)
  PROVE  HostInv' /\ Spared
<1> DEFINE a == [app[p] EXCEPT !.main = "none"]
<1>1. /\ Running(p) /\ app[p].main = "closing"
      /\ opened' = opened /\ UNCHANGED counts /\ asked' = asked
  BY DEF WindowClosed
<1>2. /\ TypeOK /\ app[p] \in App /\ app[p].at = "run"
      /\ opened \in [Procs -> SUBSET Procs] /\ asked \subseteq Procs /\ outlived \subseteq Procs
      /\ p \in asked => app[p].attention
  BY <1>1, Found
<1>3. a \in App
  BY <1>2 DEF App
<1>4. /\ a.at = "run" /\ a.port = app[p].port /\ a.ports = app[p].ports
      /\ a.backlog = app[p].backlog /\ a.queue = app[p].queue
      /\ a.main = "none" /\ a.detached = app[p].detached /\ a.attention = app[p].attention
      /\ a.jobs = app[p].jobs
  BY <1>2 DEF App
<1>5. started' \in 0..MaxJobs /\ stops' = stops /\ timeouts' = timeouts
  BY <1>1, <1>2 DEF TypeOK, counts
<1>6. CASE a.attention
  <2>1. Leaves(p, Reactivated(a), FALSE) /\ Outlives(p, Reactivated(a))
    BY <1>6 DEF WindowClosed
  <2> HIDE DEF a
  <2>2. Made(p, a)
    BY <1>3, <1>4, StaysMade
  <2>3. /\ Made(p, Reactivated(a)) /\ Reactivated(a).queue = a.queue
        /\ Reactivated(a).main = "open"
    BY <2>2, <1>4, ReactivatedIsMade DEF Alike
  <2>4. /\ outlived \subseteq outlived' /\ outlived' \subseteq Procs
        /\ Reactivated(a).port # 0 =>
             Ticks(Reactivated(a)) \/ Reactivated(a).tick \/ p \in outlived'
    BY <2>1, <1>2 DEF Outlives
  <2> QED
    BY <2>1, <2>3, <2>4, <1>1, <1>2, <1>4, <1>5, HandlerKeeps
<1>7. CASE ~a.attention /\ (a.detached \/ a.jobs # {})
  <2> DEFINE d == [a EXCEPT !.detached = TRUE]
  <2>1. (\E b \in Published(d) : Finish(p, b)) /\ outlived' = outlived
    BY <1>7 DEF WindowClosed
  <2>2. PICK b \in Published(d) : Finish(p, b)
    BY <2>1
  <2> HIDE DEF a
  <2>3. d \in App
    BY <1>3 DEF App
  <2>4. /\ d.at = "run" /\ d.port = app[p].port /\ d.ports = app[p].ports
        /\ d.backlog = app[p].backlog /\ d.queue = app[p].queue
        /\ d.main = "none" /\ d.detached
    BY <1>3, <1>4 DEF App
  <2> HIDE DEF d
  <2>5. Made(p, d)
    BY <2>3, <2>4, StaysMade
  <2>6. Made(p, b) /\ b.queue = d.queue /\ b.main = d.main /\ b.detached = d.detached
    BY <2>2, <2>4, <2>5, <1>2, PublishedIsMade DEF Alike
  <2>7. Ticks(b) /\ b.detached /\ b.queue = app[p].queue
    BY <2>4, <2>6 DEF Ticks
  <2>8. p \notin asked
    BY <1>2, <1>4, <1>7
  <2> QED
    BY <2>1, <2>2, <2>6, <2>7, <2>8, <1>1, <1>2, FinishKeeps
<1>8. CASE ~a.attention /\ ~(a.detached \/ a.jobs # {})
  <2>1. Leaves(p, Retired(a), TRUE) /\ outlived' = outlived
    BY <1>8 DEF WindowClosed
  <2> HIDE DEF a
  <2>2. Made(p, a)
    BY <1>3, <1>4, StaysMade
  <2>3. /\ Made(p, Retired(a)) /\ Retired(a).queue = a.queue
        /\ Retired(a).port = 0 /\ Retired(a).jobs = {}
    BY <2>2, <1>8, RetiredIsMade DEF Alike
  <2> QED
    BY <2>1, <2>3, <1>1, <1>2, <1>4, <1>5, HandlerKeeps
<1> QED
  BY <1>6, <1>7, <1>8

LEMMA DeleteFinishedKeeps ==
  ASSUME HostInv, NEW p \in Procs, DeleteFinished(p)
  PROVE  HostInv' /\ Spared
<1> DEFINE a == [app[p] EXCEPT !.jobs = @ \ {"delete"}]
<1>1. /\ Running(p) /\ opened' = opened /\ UNCHANGED counts
      /\ \/ Leaves(p, a, FALSE) /\ Outlives(p, a) /\ UNCHANGED asked
         \/ Leaves(p, Attended(a), FALSE) /\ Outlives(p, Attended(a)) /\ asked' = asked \cup {p}
  BY DEF DeleteFinished
<1>2. /\ TypeOK /\ app[p] \in App /\ app[p].at = "run"
      /\ opened \in [Procs -> SUBSET Procs] /\ asked \subseteq Procs /\ outlived \subseteq Procs
      /\ p \in asked => app[p].main = "open" \/ (app[p].main = "closing" /\ app[p].attention)
      /\ app[p].main = "none" => app[p].detached
  BY <1>1, Found
<1>3. a \in App
  BY <1>2 DEF App
<1>4. /\ a.at = "run" /\ a.port = app[p].port /\ a.ports = app[p].ports
      /\ a.backlog = app[p].backlog /\ a.queue = app[p].queue
      /\ a.main = app[p].main /\ a.detached = app[p].detached /\ a.attention = app[p].attention
  BY <1>2 DEF App
<1>5. started' \in 0..MaxJobs /\ stops' = stops /\ timeouts' = timeouts
  BY <1>1, <1>2 DEF TypeOK, counts
<1> HIDE DEF a
<1>6. Made(p, a)
  BY <1>3, <1>4, StaysMade
<1>7. CASE Leaves(p, a, FALSE) /\ Outlives(p, a) /\ UNCHANGED asked
  <2>1. /\ outlived \subseteq outlived' /\ outlived' \subseteq Procs
        /\ a.port # 0 => Ticks(a) \/ a.tick \/ p \in outlived'
    BY <1>2, <1>7 DEF Outlives
  <2> QED
    BY <2>1, <1>1, <1>2, <1>4, <1>5, <1>6, <1>7, HandlerKeeps
<1>8. CASE Leaves(p, Attended(a), FALSE) /\ Outlives(p, Attended(a)) /\ asked' = asked \cup {p}
  <2> DEFINE b == Attended(a)
  <2>1. /\ Made(p, b) /\ b.queue = a.queue
        /\ b.main = "open" \/ (b.main = "closing" /\ b.attention)
    BY <1>6, AttendedIsMade DEF Alike
  <2>2. /\ outlived \subseteq outlived' /\ outlived' \subseteq Procs
        /\ b.port # 0 => Ticks(b) \/ b.tick \/ p \in outlived'
    BY <1>2, <1>8 DEF Outlives
  <2>3. Leaves(p, b, FALSE)
    BY <1>8
  <2> HIDE DEF b
  <2>4. b.main # "none"
    BY <2>1
  <2> QED
    BY <2>1, <2>2, <2>3, <2>4, <1>1, <1>2, <1>4, <1>5, <1>8, HandlerKeeps
<1> QED
  BY <1>1, <1>7, <1>8

-----------------------------------------------------------------------------
(* PollTransfers.                                                          *)

\* Its dialogs are in a window, and who has none is detached.
Shown(a, asks) ==
  /\ asks => a.main = "open" \/ (a.main = "closing" /\ a.attention)
  /\ a.main = "none" => a.detached

LEMMA PolledIsMade ==
  ASSUME HostInv, NEW p \in Procs, Running(p), NEW x \in Polled(app[p])
  PROVE  /\ Made(p, x[1]) /\ x[1].queue = app[p].queue
         /\ x[1].port = app[p].port /\ x[1].ports = app[p].ports
         /\ x[2] \in BOOLEAN /\ Shown(x[1], x[2] \/ p \in asked)
<1> DEFINE o == app[p]
           pruned == [o EXCEPT !.tick = FALSE, !.history = IF @ = "old" THEN "none" ELSE @]
           ended == [pruned EXCEPT !.jobs = @ \ {"transfer"}, !.done = FALSE]
           noted == [ended EXCEPT !.history = "new"]
<1>1. /\ o \in App /\ o.at = "run"
      /\ p \in asked => o.main = "open" \/ (o.main = "closing" /\ o.attention)
      /\ o.main = "none" => o.detached
  BY Found
<1>2. x \in {<<noted, FALSE>>, <<Attended(ended), TRUE>>} \/ x = <<pruned, FALSE>>
  BY DEF Polled
<1>3. pruned \in App
  BY <1>1 DEF App
<1>4. /\ pruned.at = "run" /\ pruned.port = o.port /\ pruned.ports = o.ports
      /\ pruned.backlog = o.backlog /\ pruned.queue = o.queue
      /\ pruned.main = o.main /\ pruned.detached = o.detached /\ pruned.attention = o.attention
  BY <1>1 DEF App
<1> HIDE DEF pruned
<1>5. ended \in App
  BY <1>3 DEF App
<1>6. /\ ended.at = "run" /\ ended.port = o.port /\ ended.ports = o.ports
      /\ ended.backlog = o.backlog /\ ended.queue = o.queue
      /\ ended.main = o.main /\ ended.detached = o.detached /\ ended.attention = o.attention
  BY <1>3, <1>4 DEF App
<1> HIDE DEF ended
<1>7. noted \in App
  BY <1>5 DEF App
<1>8. /\ noted.at = "run" /\ noted.port = o.port /\ noted.ports = o.ports
      /\ noted.backlog = o.backlog /\ noted.queue = o.queue
      /\ noted.main = o.main /\ noted.detached = o.detached /\ noted.attention = o.attention
  BY <1>5, <1>6 DEF App
<1> HIDE DEF noted
<1>9. Made(p, pruned) /\ Made(p, ended) /\ Made(p, noted)
  BY <1>3, <1>4, <1>5, <1>6, <1>7, <1>8, StaysMade
<1>10. CASE x = <<pruned, FALSE>>
  BY <1>1, <1>4, <1>9, <1>10 DEF Shown
<1>11. CASE x = <<noted, FALSE>>
  BY <1>1, <1>8, <1>9, <1>11 DEF Shown
<1>12. CASE x = <<Attended(ended), TRUE>>
  <2> DEFINE b == Attended(ended)
  <2>1. /\ Made(p, b) /\ Alike(ended, b) /\ b.port = ended.port /\ b.ports = ended.ports
        /\ b.main = "open" \/ (b.main = "closing" /\ b.attention)
    BY <1>9, AttendedIsMade
  <2>2. x[1] = b /\ x[2] = TRUE
    BY <1>12
  <2> HIDE DEF b
  <2>3. b.queue = o.queue
    BY <2>1, <1>6 DEF Alike
  <2>4. Shown(b, x[2] \/ p \in asked)
    BY <2>1 DEF Shown
  <2> QED
    BY <2>1, <2>2, <2>3, <2>4, <1>6
<1> QED
  BY <1>2, <1>10, <1>11, <1>12

\* What is drained has been opened; the rest stays.
LEMMA ActivationsIsMade ==
  ASSUME NEW p \in Procs, NEW a, Made(p, a), NEW asks \in BOOLEAN, Shown(a, asks)
  PROVE  LET b == Activations(a) IN
         /\ Made(p, b) /\ Shown(b, asks)
         /\ b.port = a.port /\ b.ports = a.ports
         /\ a.queue \subseteq b.queue \cup Drained(a) /\ Drained(a) \subseteq a.queue
<1> DEFINE b == Activations(a)
<1>1. Drained(a) \subseteq a.queue
  BY DEF Drained
<1>2. CASE Drained(a) = {}
  <2>1. b = a
    BY <1>2 DEF Activations
  <2> HIDE DEF b
  <2> QED
    BY <2>1, <1>1 DEF b
<1>3. CASE Drained(a) # {}
  <2> DEFINE r == Reactivated(a)
  <2>1. /\ Made(p, r) /\ r.port = a.port /\ r.ports = a.ports
        /\ r.main = (IF a.main = "none" THEN "open" ELSE a.main)
    BY ReactivatedIsMade
  <2>2. b = [r EXCEPT !.queue = {}]
    BY <1>3 DEF Activations
  <2>3. Drained(a) = a.queue /\ a.main # "closing" /\ a \in App
    BY <1>3 DEF Drained, Made
  <2> HIDE DEF r, b
  <2>4. /\ r \in App /\ r.at = "run" /\ r.backlog = app[p].backlog
        /\ \/ r.port = 0
           \/ r.port = app[p].port /\ r.ports = app[p].ports
           \/ app[p].port = 0 /\ r.port = r.ports
    BY <2>1 DEF Made
  <2>5. b \in App
    BY <2>2, <2>4 DEF App
  <2>6. /\ b.at = r.at /\ b.port = r.port /\ b.ports = r.ports /\ b.backlog = r.backlog
        /\ b.queue = {} /\ b.main = r.main
    BY <2>2, <2>4 DEF App
  <2>7. Made(p, b)
    BY <2>4, <2>5, <2>6 DEF Made
  <2>8. b.main = "open"
    BY <2>1, <2>3, <2>6 DEF App
  <2>9. Shown(b, asks)
    BY <2>8 DEF Shown
  <2> QED
    BY <2>1, <2>3, <2>6, <2>7, <2>9 DEF b
<1> QED
  BY <1>2, <1>3

LEMMA SettledIsMade ==
  ASSUME NEW p \in Procs, NEW a, Made(p, a), NEW asks \in BOOLEAN, Shown(a, asks)
  PROVE  LET b == Settled(a) IN
         /\ Made(p, b) /\ Shown(b, asks) /\ b.queue = a.queue
         /\ b.jobs = {} /\ b.port # 0 => b.detached
<1> DEFINE b == Settled(a)
<1>1. CASE a.main # "none" /\ a.jobs = {}
  <2>1. b = Retired(a)
    BY <1>1 DEF Settled
  <2>2. /\ Made(p, Retired(a)) /\ Alike(a, Retired(a))
        /\ Retired(a).port = 0
        /\ Retired(a).main = a.main /\ Retired(a).detached = a.detached
        /\ Retired(a).attention = a.attention
    BY RetiredIsMade
  <2>3. Shown(Retired(a), asks)
    BY <2>2 DEF Shown
  <2> HIDE DEF b
  <2> QED
    BY <2>1, <2>2, <2>3 DEF b, Alike
<1>2. CASE ~(a.main # "none" /\ a.jobs = {})
  <2>1. b = a
    BY <1>2 DEF Settled
  <2>2. a.jobs = {} => a.detached
    BY <1>2 DEF Shown
  <2> HIDE DEF b
  <2> QED
    BY <2>1, <2>2 DEF b
<1> QED
  BY <1>1, <1>2

LEMMA PollTransfersKeeps ==
  ASSUME HostInv, NEW p \in Procs, PollTransfers(p)
  PROVE  HostInv' /\ Spared
<1>1. Running(p) /\ UNCHANGED counts
  BY DEF PollTransfers
<1>2. PICK x \in Polled(app[p]), scans \in BOOLEAN :
        LET a == [x[1] EXCEPT !.scanning = @ /\ scans]
            b == Settled(Activations(a)) IN
        /\ Finish(p, b)
        /\ opened' = [opened EXCEPT ![p] = @ \cup Drained(a)]
        /\ asked' = IF x[2] THEN asked \cup {p} ELSE asked
        /\ IF b.jobs = {} THEN UNCHANGED outlived ELSE Outlives(p, b)
  BY DEF PollTransfers
<1> DEFINE a == [x[1] EXCEPT !.scanning = @ /\ scans]
           b == Settled(Activations(a))
           asks == x[2] \/ p \in asked
<1>3. /\ TypeOK /\ app[p] \in App /\ app[p].at = "run"
      /\ opened \in [Procs -> SUBSET Procs] /\ asked \subseteq Procs /\ outlived \subseteq Procs
  BY <1>1, Found
<1>4. /\ Made(p, x[1]) /\ x[1].queue = app[p].queue
      /\ x[1].port = app[p].port /\ x[1].ports = app[p].ports
      /\ x[2] \in BOOLEAN /\ Shown(x[1], asks)
  BY <1>1, PolledIsMade
<1>5. x[1] \in App /\ x[1].at = "run" /\ x[1].backlog = app[p].backlog
  BY <1>4 DEF Made
<1>6. a \in App
  <2>1. (x[1].scanning /\ scans) \in BOOLEAN
    OBVIOUS
  <2> QED
    BY <1>5, <2>1 DEF App
<1>7. /\ a.at = "run" /\ a.port = app[p].port /\ a.ports = app[p].ports
      /\ a.backlog = app[p].backlog /\ a.queue = app[p].queue
      /\ a.main = x[1].main /\ a.detached = x[1].detached /\ a.attention = x[1].attention
  BY <1>4, <1>5 DEF App
<1>8. /\ Finish(p, b)
      /\ opened' = [opened EXCEPT ![p] = @ \cup Drained(a)]
      /\ asked' = IF x[2] THEN asked \cup {p} ELSE asked
      /\ IF b.jobs = {} THEN UNCHANGED outlived ELSE Outlives(p, b)
  BY <1>2
<1> HIDE DEF a
<1>9. Made(p, a) /\ Shown(a, asks) /\ asks \in BOOLEAN
  <2>1. Made(p, a)
    BY <1>6, <1>7, StaysMade
  <2>2. Shown(a, asks)
    BY <1>4, <1>7 DEF Shown
  <2> QED
    BY <2>1, <2>2, <1>4
<1> HIDE DEF asks
<1> DEFINE d == Activations(a)
<1>10. /\ Made(p, d) /\ Shown(d, asks)
       /\ a.queue \subseteq d.queue \cup Drained(a) /\ Drained(a) \subseteq a.queue
  BY <1>9, ActivationsIsMade
<1> HIDE DEF d
<1>11. b = Settled(d)
  BY DEF d
<1> HIDE DEF b
<1>12. /\ Made(p, b) /\ Shown(b, asks) /\ b.queue = d.queue
       /\ b.jobs = {} /\ b.port # 0 => b.detached
  BY <1>9, <1>10, <1>11, SettledIsMade
<1>13. /\ opened' \in [Procs -> SUBSET Procs]
       /\ \A q \in Procs : opened[q] \subseteq opened'[q]
       /\ \A q \in Procs \ {p} : opened'[q] = opened[q]
       /\ opened'[p] = opened[p] \cup Drained(a)
  <2>1. Drained(a) \subseteq Procs
    BY <1>6, <1>10 DEF App
  <2> QED
    BY <2>1, <1>3, <1>8
<1>14. app[p].queue \subseteq b.queue \cup opened'[p]
  BY <1>7, <1>10, <1>12, <1>13
<1>15. /\ asked' \subseteq Procs /\ asked' \subseteq asked \cup {p}
       /\ p \in asked' => asks
  BY <1>3, <1>8 DEF asks
<1>16. /\ outlived \subseteq outlived' /\ outlived' \subseteq Procs
       /\ b.port # 0 => Ticks(b) \/ b.tick \/ p \in outlived'
  <2>1. CASE b.jobs = {}
    <3>1. outlived' = outlived
      BY <2>1, <1>8
    <3>2. b.port # 0 => Ticks(b)
      BY <2>1, <1>12 DEF Ticks
    <3> QED
      BY <3>1, <3>2, <1>3
  <2>2. CASE b.jobs # {}
    <3>1. Outlives(p, b)
      BY <2>2, <1>8
    <3> QED
      BY <3>1, <1>3 DEF Outlives
  <2> QED
    BY <2>1, <2>2
<1>17. /\ p \in asked' => b.main = "open" \/ (b.main = "closing" /\ b.attention)
       /\ b.main = "none" => b.detached
  BY <1>12, <1>15 DEF Shown
<1> QED
  BY <1>1, <1>8, <1>12, <1>13, <1>14, <1>15, <1>16, <1>17, FinishKeeps

-----------------------------------------------------------------------------
(* The launches, the host's thread and the end of a process.               *)

\* A step of one process that has not started yet, or that ends before it has: it has no
\* window and no host.
LEMMA LaunchKeeps ==
  ASSUME HostInv, NEW c \in Procs, app[c].at \in {"off", "seek", "wait"},
         NEW b, b \in App, b.at \in {"seek", "wait", "gone"}, b.port = 0, b.ports = app[c].ports,
         b.main = "none", b.backlog = {}, b.queue = {}, b.at = "wait" => b.seen # <<>>,
         b.at = "gone" => c \in acked,
         app'[c] = b, \A q \in Procs \ {c} : app'[q] = app[q], app' \in [Procs -> App],
         markers' = markers \/ \E h : markers' = Unlinked(h),
         UNCHANGED <<acked, opened, started, stops, lost, asked, outlived>>,
         timeouts' \in 0..MaxTimeouts
  PROVE  HostInv' /\ Spared
<1>1. TypeOK /\ Waiters /\ LeadInv /\ HeldInv /\ AttentionIsShown /\ PollInv
  BY DEF HostInv
<1>2. app[c].port = 0 /\ markers \in Seq(Host)
  BY <1>1 DEF TypeOK
<1>3. \A q \in Procs :
        \/ app'[q].at = "gone"
        \/ app[q].at # "gone" /\ app'[q].port = app[q].port
  BY <1>2
<1>4. LeadInv' /\ markers' \in Seq(Host)
  <2>1. CASE markers' = markers
    BY <2>1, <1>1, <1>2, <1>3, LeadUntouched
  <2>2. CASE \E h : markers' = Unlinked(h)
    <3>1. PICK h : markers' = Unlinked(h)
      BY <2>2
    <3> QED
      BY <3>1, <1>1, <1>2, <1>3, LeadUnlinked
  <2> QED
    BY <2>1, <2>2
<1>5. TypeOK'
  <2>1. \A q \in Procs :
          /\ app'[q].port \in {0, app'[q].ports}
          /\ app'[q].port = 0 => app'[q].backlog = {} /\ app'[q].queue = {}
          /\ app'[q].at # "run" => app'[q].main = "none" /\ app'[q].port = 0
    BY <1>1 DEF TypeOK
  <2> QED
    BY <2>1, <1>1, <1>4 DEF TypeOK
<1>6. Waiters'
  BY <1>1 DEF Waiters
<1>7. HeldInv'
  <2>1. ASSUME NEW d, Held(d)
        PROVE  Held(d)'
    <3>1. app[c].queue = {}
      BY <1>1, <1>2 DEF TypeOK
    <3> QED
      BY <3>1, <2>1 DEF Held
  <2>2. \A d \in acked' : Held(d)'
    BY <2>1, <1>1 DEF HeldInv
  <2>3. ASSUME NEW d \in Procs
        PROVE  /\ app'[d].at \in {"off", "seek", "wait"} => opened'[d] = {}
               /\ app'[d].at = "run" => d \in opened'[d]
               /\ app'[d].at = "gone" => d \in opened'[d] \/ Held(d)'
    <3>1. CASE d = c
      BY <3>1, <2>2, <1>1 DEF HeldInv
    <3>2. CASE d # c
      BY <3>2, <2>1, <1>1 DEF HeldInv
    <3> QED
      BY <3>1, <3>2
  <2> QED
    BY <2>2, <2>3 DEF HeldInv
<1>8. AttentionIsShown'
  <2> SUFFICES ASSUME NEW q \in asked', Running(q)'
               PROVE  \/ app'[q].main = "open"
                      \/ app'[q].main = "closing" /\ app'[q].attention
    BY DEF AttentionIsShown
  <2>1. q \in Procs \ {c}
    BY <1>1 DEF TypeOK, Running
  <2> QED
    BY <2>1, <1>1 DEF AttentionIsShown, Running
<1>9. PollInv'
  <2> SUFFICES ASSUME NEW q \in Procs, Running(q)'
               PROVE  /\ app'[q].port # 0 => Ticks(app[q])' \/ app'[q].tick \/ q \in outlived'
                      /\ app'[q].main = "none" => app'[q].detached
    BY DEF PollInv
  <2>1. q # c /\ app'[q] = app[q]
    BY DEF Running
  <2>2. Ticks(app[q])' <=> Ticks(app[q])
    BY <2>1 DEF Ticks
  <2> QED
    BY <2>1, <2>2, <1>1 DEF PollInv, Running
<1>10. Spared
  BY DEF Spared, Running
<1> QED
  BY <1>4, <1>5, <1>6, <1>7, <1>8, <1>9, <1>10 DEF HostInv

\* What every launch finds.
LEMMA Fresh ==
  ASSUME HostInv, NEW c \in Procs, app[c].at # "run"
  PROVE  /\ app \in [Procs -> App] /\ app[c] \in App /\ markers \in Seq(Host)
         /\ app[c].port = 0 /\ app[c].main = "none"
         /\ app[c].backlog = {} /\ app[c].queue = {}
         /\ timeouts \in 0..MaxTimeouts
         /\ app[c].at = "wait" => app[c].seen # <<>>
BY DEF HostInv, TypeOK, Waiters

\* The next marker, if there is one: activate_marker has failed.
LEMMA NextMarkerKeeps ==
  ASSUME HostInv, NEW c \in Procs, app[c].at \in {"seek", "wait"}, app[c].seen # <<>>,
         app' = Next1(c), NEW h, markers' = Unlinked(h),
         UNCHANGED <<acked, opened, started, stops, lost, asked, outlived>>,
         timeouts' \in 0..MaxTimeouts
  PROVE  HostInv' /\ Spared
<1> DEFINE b == [app[c] EXCEPT !.at = "seek", !.seen = Tail(@)]
<1>1. /\ app \in [Procs -> App] /\ app[c] \in App
      /\ app[c].port = 0 /\ app[c].main = "none"
      /\ app[c].backlog = {} /\ app[c].queue = {}
  BY Fresh
<1>2. Tail(app[c].seen) \in Seq(Host)
  BY <1>1, HeadTailProperties DEF App
<1>3. b \in App
  BY <1>1, <1>2 DEF App
<1>4. /\ b.at = "seek" /\ b.port = 0 /\ b.ports = app[c].ports /\ b.main = "none"
      /\ b.backlog = {} /\ b.queue = {}
  BY <1>1 DEF App
<1>5. app' = [app EXCEPT ![c] = b]
  BY <1>1 DEF Next1
<1> HIDE DEF b
<1>6. app'[c] = b /\ (\A q \in Procs \ {c} : app'[q] = app[q]) /\ app' \in [Procs -> App]
  BY <1>1, <1>3, <1>5
<1> QED
  BY <1>3, <1>4, <1>6, LaunchKeeps

LEMMA LaunchIsKept ==
  ASSUME HostInv, NEW c \in Procs, Launch(c)
  PROVE  HostInv' /\ Spared
<1> DEFINE b == [app[c] EXCEPT !.at = "seek", !.seen = markers]
<1>1. app[c].at = "off"
  BY DEF Launch
<1>2. /\ app \in [Procs -> App] /\ app[c] \in App /\ markers \in Seq(Host)
      /\ app[c].port = 0 /\ app[c].main = "none"
      /\ app[c].backlog = {} /\ app[c].queue = {} /\ timeouts \in 0..MaxTimeouts
  BY <1>1, Fresh
<1>3. b \in App
  BY <1>2 DEF App
<1>4. /\ b.at = "seek" /\ b.port = 0 /\ b.ports = app[c].ports /\ b.main = "none"
      /\ b.backlog = {} /\ b.queue = {}
  BY <1>2 DEF App
<1>5. app' = [app EXCEPT ![c] = b]
  BY <1>2 DEF Launch
<1> HIDE DEF b
<1>6. app'[c] = b /\ (\A q \in Procs \ {c} : app'[q] = app[q]) /\ app' \in [Procs -> App]
  BY <1>2, <1>3, <1>5
<1>7. /\ UNCHANGED <<acked, opened, started, stops, lost, asked, outlived>>
      /\ markers' = markers /\ timeouts' \in 0..MaxTimeouts
  BY <1>2 DEF Launch, counts
<1> QED
  BY <1>1, <1>3, <1>4, <1>6, <1>7, LaunchKeeps

LEMMA ActivatedIsKept ==
  ASSUME HostInv, NEW c \in Procs, Activated(c)
  PROVE  HostInv' /\ Spared
<1> DEFINE b == [app[c] EXCEPT !.at = "gone", !.seen = <<>>]
<1>1. app[c].at = "wait" /\ c \in acked
  BY DEF Activated
<1>2. /\ app \in [Procs -> App] /\ app[c] \in App
      /\ app[c].port = 0 /\ app[c].main = "none"
      /\ app[c].backlog = {} /\ app[c].queue = {} /\ timeouts \in 0..MaxTimeouts
  BY <1>1, Fresh
<1>3. b \in App
  <2>1. <<>> \in Seq(Host)
    BY EmptySeq
  <2> QED
    BY <1>2, <2>1 DEF App
<1>4. /\ b.at = "gone" /\ b.port = 0 /\ b.ports = app[c].ports /\ b.main = "none"
      /\ b.backlog = {} /\ b.queue = {}
  BY <1>2 DEF App
<1>5. app' = [app EXCEPT ![c] = b]
  BY <1>2 DEF Activated
<1> HIDE DEF b
<1>6. app'[c] = b /\ (\A q \in Procs \ {c} : app'[q] = app[q]) /\ app' \in [Procs -> App]
  BY <1>2, <1>3, <1>5
<1>7. /\ UNCHANGED <<acked, opened, started, stops, lost, asked, outlived>>
      /\ markers' = markers /\ timeouts' \in 0..MaxTimeouts
  BY <1>2 DEF Activated, counts
<1> QED
  BY <1>1, <1>3, <1>4, <1>6, <1>7, LaunchKeeps

LEMMA NoAnswerKeeps ==
  ASSUME HostInv, NEW c \in Procs, NoAnswer(c)
  PROVE  HostInv' /\ Spared
<1>1. app[c].at = "wait" /\ app' = Next1(c) /\ markers' = Unlinked(Head(app[c].seen))
  BY DEF NoAnswer
<1>2. app[c].seen # <<>> /\ timeouts \in 0..MaxTimeouts
  BY <1>1, Fresh
<1>3. UNCHANGED <<acked, opened, started, stops, lost, asked, outlived>>
  BY DEF NoAnswer
<1>4. timeouts' \in 0..MaxTimeouts
  BY <1>2, OperationHostAssumption DEF NoAnswer
<1> QED
  BY <1>1, <1>2, <1>3, <1>4, NextMarkerKeeps

\* A step that moves requests and answers, but no window and no host.
LEMMA RequestKeeps ==
  ASSUME HostInv, app' \in [Procs -> App],
         \A q \in Procs :
           /\ app'[q].at = app[q].at \/ (app[q].at = "seek" /\ app'[q].at = "wait" /\ app'[q].seen # <<>>)
           /\ app'[q].seen = app[q].seen
           /\ app'[q].main = app[q].main /\ app'[q].jobs = app[q].jobs
           /\ app'[q].scanning = app[q].scanning /\ app'[q].history = app[q].history
           /\ app'[q].detached = app[q].detached /\ app'[q].attention = app[q].attention
           /\ app'[q].tick = app[q].tick
           /\ app'[q].port = app[q].port /\ app'[q].ports = app[q].ports
           /\ app[q].queue \subseteq app'[q].queue
           /\ app[q].port = 0 => app'[q].backlog = {} /\ app'[q].queue = {},
         acked' \subseteq Procs, \A c \in acked' : c \in acked \/ \E q \in Procs : c \in app'[q].queue,
         UNCHANGED <<markers, opened, counts, lost, asked, outlived>>
  PROVE  HostInv' /\ Spared
<1>1. TypeOK /\ Waiters /\ LeadInv /\ HeldInv /\ AttentionIsShown /\ PollInv
  BY DEF HostInv
<1>2. UNCHANGED <<started, stops, timeouts>>
  BY DEF counts
<1>3. TypeOK'
  <2>1. \A q \in Procs :
          /\ app'[q].port \in {0, app'[q].ports}
          /\ app'[q].port = 0 => app'[q].backlog = {} /\ app'[q].queue = {}
          /\ app'[q].at # "run" => app'[q].main = "none" /\ app'[q].port = 0
    BY <1>1 DEF TypeOK
  <2> QED
    BY <2>1, <1>1, <1>2 DEF TypeOK
<1>4. Waiters'
  BY <1>1 DEF Waiters
<1>5. LeadInv'
  <2>1. markers \in Seq(Host) /\ markers' = markers
    BY <1>1 DEF TypeOK
  <2>2. \A q \in Procs :
          \/ app'[q].at = "gone"
          \/ app[q].at # "gone" /\ app'[q].port = app[q].port
    OBVIOUS
  <2> QED
    BY <2>1, <2>2, <1>1, LeadUntouched
<1>6. HeldInv'
  <2>1. ASSUME NEW d, Held(d)
        PROVE  Held(d)'
    BY <2>1 DEF Held
  <2>2. \A d \in acked' : Held(d)'
    <3>1. \A d \in acked : Held(d)
      BY <1>1 DEF HeldInv
    <3> QED
      BY <3>1, <2>1 DEF Held
  <2>3. ASSUME NEW d \in Procs
        PROVE  /\ app'[d].at \in {"off", "seek", "wait"} => opened'[d] = {}
               /\ app'[d].at = "run" => d \in opened'[d]
               /\ app'[d].at = "gone" => d \in opened'[d] \/ Held(d)'
    BY <2>1, <1>1 DEF HeldInv
  <2> QED
    BY <2>2, <2>3 DEF HeldInv
<1>7. AttentionIsShown'
  <2> SUFFICES ASSUME NEW q \in asked', Running(q)'
               PROVE  \/ app'[q].main = "open"
                      \/ app'[q].main = "closing" /\ app'[q].attention
    BY DEF AttentionIsShown
  <2>1. q \in asked /\ q \in Procs
    BY <1>1 DEF TypeOK
  <2>2. Running(q)
    BY <2>1 DEF Running
  <2>3. app[q].main = "open" \/ (app[q].main = "closing" /\ app[q].attention)
    BY <2>1, <2>2, <1>1 DEF AttentionIsShown
  <2> QED
    BY <2>1, <2>3
<1>8. PollInv'
  <2> SUFFICES ASSUME NEW q \in Procs, Running(q)'
               PROVE  /\ app'[q].port # 0 => Ticks(app[q])' \/ app'[q].tick \/ q \in outlived'
                      /\ app'[q].main = "none" => app'[q].detached
    BY DEF PollInv
  <2>1. Running(q)
    BY DEF Running
  <2>2. Ticks(app[q])' <=> Ticks(app[q])
    BY DEF Ticks
  <2>3. /\ app[q].port # 0 => Ticks(app[q]) \/ app[q].tick \/ q \in outlived
        /\ app[q].main = "none" => app[q].detached
    BY <2>1, <1>1 DEF PollInv
  <2> QED
    BY <2>2, <2>3
<1>9. Spared
  BY DEF Spared, Running
<1> QED
  BY <1>1, <1>3, <1>4, <1>5, <1>6, <1>7, <1>8, <1>9 DEF HostInv, TypeOK

LEMMA ConnectKeeps ==
  ASSUME HostInv, NEW c \in Procs, Connect(c)
  PROVE  HostInv' /\ Spared
<1> DEFINE h == Head(app[c].seen)
<1>1. /\ app[c].at = "seek" /\ app[c].seen # <<>>
      /\ UNCHANGED <<acked, opened, counts, lost, asked, outlived>>
      /\ IF h \in ToSet(markers) /\ Current(h)
         THEN /\ app' = [app EXCEPT ![c].at = "wait", ![h.proc].backlog = @ \cup {c}]
              /\ UNCHANGED markers
         ELSE app' = Next1(c) /\ markers' = Unlinked(h)
  BY DEF Connect
<1>2. /\ app \in [Procs -> App] /\ app[c] \in App /\ markers \in Seq(Host)
      /\ app[c].port = 0 /\ timeouts \in 0..MaxTimeouts
      /\ app[c].backlog = {} /\ app[c].queue = {}
  BY <1>1, Fresh
<1>3. TypeOK
  BY DEF HostInv
<1>4. CASE h \in ToSet(markers) /\ Current(h)
  <2>1. h \in Host
    BY <1>2, <1>4, ElementOfSeq, LenProperties DEF ToSet
  <2>2. h.proc \in Procs /\ app[h.proc].port = h.port /\ h.port # 0 /\ h.proc # c
    BY <2>1, <1>2, <1>4 DEF Host, Current
  <2> DEFINE p == h.proc
             b == [app[c] EXCEPT !.at = "wait"]
             o == [app[p] EXCEPT !.backlog = @ \cup {c}]
  <2>3. /\ app'[c] = b /\ app'[p] = o /\ p \in Procs /\ p # c /\ app[p].port # 0
        /\ \A q \in Procs \ {c, p} : app'[q] = app[q]
        /\ app' = [q \in Procs |-> IF q = c THEN b ELSE IF q = p THEN o ELSE app[q]]
    BY <2>2, <1>1, <1>2, <1>4
  <2> HIDE DEF p
  <2>4. b \in App /\ o \in App /\ app[p] \in App
    BY <2>3, <1>2 DEF App
  <2>5. /\ b.at = "wait" /\ b.seen = app[c].seen /\ b.main = app[c].main /\ b.jobs = app[c].jobs
        /\ b.scanning = app[c].scanning /\ b.history = app[c].history
        /\ b.detached = app[c].detached /\ b.attention = app[c].attention /\ b.tick = app[c].tick
        /\ b.port = app[c].port /\ b.ports = app[c].ports
        /\ b.backlog = app[c].backlog /\ b.queue = app[c].queue
    BY <1>2 DEF App
  <2>6. /\ o.at = app[p].at /\ o.seen = app[p].seen /\ o.main = app[p].main /\ o.jobs = app[p].jobs
        /\ o.scanning = app[p].scanning /\ o.history = app[p].history
        /\ o.detached = app[p].detached /\ o.attention = app[p].attention /\ o.tick = app[p].tick
        /\ o.port = app[p].port /\ o.ports = app[p].ports /\ o.queue = app[p].queue
    BY <2>4 DEF App
  <2> HIDE DEF b, o
  <2>7. app' \in [Procs -> App]
    BY <2>3, <2>4, <1>2
  <2>8. \A q \in Procs :
           /\ app'[q].at = app[q].at \/ (app[q].at = "seek" /\ app'[q].at = "wait" /\ app'[q].seen # <<>>)
           /\ app'[q].seen = app[q].seen
           /\ app'[q].main = app[q].main /\ app'[q].jobs = app[q].jobs
           /\ app'[q].scanning = app[q].scanning /\ app'[q].history = app[q].history
           /\ app'[q].detached = app[q].detached /\ app'[q].attention = app[q].attention
           /\ app'[q].tick = app[q].tick
           /\ app'[q].port = app[q].port /\ app'[q].ports = app[q].ports
           /\ app[q].queue \subseteq app'[q].queue
           /\ app[q].port = 0 => app'[q].backlog = {} /\ app'[q].queue = {}
    <3> TAKE q \in Procs
    <3>1. CASE q = c
      BY <3>1, <2>3, <2>5, <1>1, <1>2
    <3>2. CASE q = p
      BY <3>2, <2>3, <2>6
    <3>3. CASE q # c /\ q # p
      BY <3>3, <2>3, <1>3 DEF TypeOK
    <3> QED
      BY <3>1, <3>2, <3>3
  <2>9. acked' \subseteq Procs /\ acked' = acked
    BY <1>1, <1>3 DEF TypeOK
  <2>10. UNCHANGED <<markers, opened, counts, lost, asked, outlived>>
    BY <1>1, <1>4
  <2> QED
    BY <2>7, <2>8, <2>9, <2>10, RequestKeeps
<1>5. CASE ~(h \in ToSet(markers) /\ Current(h))
  <2>1. app' = Next1(c) /\ markers' = Unlinked(h)
    BY <1>1, <1>5
  <2>2. UNCHANGED <<acked, opened, started, stops, lost, asked, outlived>> /\ timeouts' = timeouts
    BY <1>1 DEF counts
  <2> QED
    BY <2>1, <2>2, <1>1, <1>2, NextMarkerKeeps
<1> QED
  BY <1>4, <1>5

LEMMA HandleActivationKeeps ==
  ASSUME HostInv, NEW p \in Procs, HandleActivation(p)
  PROVE  HostInv' /\ Spared
<1>1. PICK c \in app[p].backlog :
        /\ app' = [app EXCEPT ![p].backlog = @ \ {c}, ![p].queue = @ \cup {c}]
        /\ acked' = IF Waits(c, [proc |-> p, port |-> app[p].port]) THEN acked \cup {c} ELSE acked
        /\ UNCHANGED <<markers, opened, counts, lost, asked, outlived>>
  BY DEF HandleActivation
<1>2. TypeOK /\ app \in [Procs -> App] /\ app[p] \in App
  BY DEF HostInv, TypeOK
<1>3. c \in Procs /\ app[p].port # 0
  BY <1>2 DEF TypeOK, App
<1> DEFINE o == [app[p] EXCEPT !.backlog = @ \ {c}, !.queue = @ \cup {c}]
<1>4. app' = [app EXCEPT ![p] = o]
  BY <1>1, <1>2
<1>5. o \in App
  BY <1>2, <1>3 DEF App
<1>6. /\ o.at = app[p].at /\ o.seen = app[p].seen /\ o.main = app[p].main /\ o.jobs = app[p].jobs
      /\ o.scanning = app[p].scanning /\ o.history = app[p].history
      /\ o.detached = app[p].detached /\ o.attention = app[p].attention /\ o.tick = app[p].tick
      /\ o.port = app[p].port /\ o.ports = app[p].ports /\ o.queue = app[p].queue \cup {c}
  BY <1>2 DEF App
<1> HIDE DEF o
<1>7. app' \in [Procs -> App] /\ app'[p] = o /\ \A q \in Procs \ {p} : app'[q] = app[q]
  BY <1>2, <1>4, <1>5
<1>8. \A q \in Procs :
         /\ app'[q].at = app[q].at \/ (app[q].at = "seek" /\ app'[q].at = "wait" /\ app'[q].seen # <<>>)
         /\ app'[q].seen = app[q].seen
         /\ app'[q].main = app[q].main /\ app'[q].jobs = app[q].jobs
         /\ app'[q].scanning = app[q].scanning /\ app'[q].history = app[q].history
         /\ app'[q].detached = app[q].detached /\ app'[q].attention = app[q].attention
         /\ app'[q].tick = app[q].tick
         /\ app'[q].port = app[q].port /\ app'[q].ports = app[q].ports
         /\ app[q].queue \subseteq app'[q].queue
         /\ app[q].port = 0 => app'[q].backlog = {} /\ app'[q].queue = {}
  <2> TAKE q \in Procs
  <2>1. CASE q = p
    BY <2>1, <1>3, <1>6, <1>7
  <2>2. CASE q # p
    BY <2>2, <1>2, <1>7 DEF TypeOK
  <2> QED
    BY <2>1, <2>2
<1>9. /\ acked' \subseteq Procs
      /\ \A d \in acked' : d \in acked \/ \E q \in Procs : d \in app'[q].queue
  BY <1>1, <1>2, <1>3, <1>6, <1>7 DEF TypeOK
<1> QED
  BY <1>1, <1>7, <1>8, <1>9, RequestKeeps

LEMMA StartKeeps ==
  ASSUME HostInv, NEW c \in Procs, Start(c)
  PROVE  HostInv' /\ Spared
<1> DEFINE b == [app[c] EXCEPT !.at = "run", !.main = "open"]
<1>1. /\ app[c].at = "seek" /\ opened' = [opened EXCEPT ![c] = {c}]
      /\ UNCHANGED <<markers, acked, counts, lost, asked, outlived>>
  BY DEF Start
<1>2. /\ app \in [Procs -> App] /\ app[c] \in App /\ markers \in Seq(Host)
      /\ app[c].port = 0 /\ app[c].main = "none"
      /\ app[c].backlog = {} /\ app[c].queue = {}
  BY <1>1, Fresh
<1>3. TypeOK /\ Waiters /\ LeadInv /\ HeldInv /\ AttentionIsShown /\ PollInv
  BY DEF HostInv
<1>4. b \in App
  BY <1>2 DEF App
<1>5. /\ b.at = "run" /\ b.port = 0 /\ b.ports = app[c].ports /\ b.main = "open"
      /\ b.backlog = {} /\ b.queue = {}
  BY <1>2 DEF App
<1>6. app' = [app EXCEPT ![c] = b]
  BY <1>2 DEF Start
<1> HIDE DEF b
<1>7. app'[c] = b /\ (\A q \in Procs \ {c} : app'[q] = app[q]) /\ app' \in [Procs -> App]
  BY <1>2, <1>4, <1>6
<1>8. UNCHANGED <<started, stops, timeouts>>
  BY <1>1 DEF counts
<1>9. TypeOK'
  <2>1. \A q \in Procs :
          /\ app'[q].port \in {0, app'[q].ports}
          /\ app'[q].port = 0 => app'[q].backlog = {} /\ app'[q].queue = {}
          /\ app'[q].at # "run" => app'[q].main = "none" /\ app'[q].port = 0
    BY <1>3, <1>5, <1>7 DEF TypeOK
  <2>2. opened' \in [Procs -> SUBSET Procs]
    BY <1>1, <1>3 DEF TypeOK
  <2> QED
    BY <2>1, <2>2, <1>1, <1>3, <1>7, <1>8 DEF TypeOK
<1>10. Waiters'
  BY <1>3, <1>5, <1>7 DEF Waiters
<1>11. LeadInv'
  <2>1. \A q \in Procs :
          \/ app'[q].at = "gone"
          \/ app[q].at # "gone" /\ app'[q].port = app[q].port
    BY <1>1, <1>2, <1>5, <1>7
  <2> QED
    BY <2>1, <1>1, <1>2, <1>3, LeadUntouched
<1>12. HeldInv'
  <2>1. opened[c] = {} /\ opened \in [Procs -> SUBSET Procs]
    BY <1>1, <1>3 DEF HeldInv, TypeOK
  <2>2. opened'[c] = {c} /\ \A q \in Procs \ {c} : opened'[q] = opened[q]
    BY <2>1, <1>1
  <2>3. ASSUME NEW d, Held(d)
        PROVE  Held(d)'
    BY <2>1, <2>2, <2>3, <1>1, <1>2, <1>7 DEF Held
  <2>4. \A d \in acked' : Held(d)'
    BY <2>3, <1>1, <1>3 DEF HeldInv
  <2>5. ASSUME NEW d \in Procs
        PROVE  /\ app'[d].at \in {"off", "seek", "wait"} => opened'[d] = {}
               /\ app'[d].at = "run" => d \in opened'[d]
               /\ app'[d].at = "gone" => d \in opened'[d] \/ Held(d)'
    <3>1. CASE d = c
      BY <3>1, <2>2, <1>5, <1>7
    <3>2. CASE d # c
      BY <3>2, <2>2, <2>3, <1>3, <1>7 DEF HeldInv
    <3> QED
      BY <3>1, <3>2
  <2> QED
    BY <2>4, <2>5 DEF HeldInv
<1>13. AttentionIsShown'
  <2> SUFFICES ASSUME NEW q \in asked', Running(q)'
               PROVE  \/ app'[q].main = "open"
                      \/ app'[q].main = "closing" /\ app'[q].attention
    BY DEF AttentionIsShown
  <2>1. q \in asked /\ q \in Procs
    BY <1>1, <1>3 DEF TypeOK
  <2>2. CASE q = c
    BY <2>2, <1>5, <1>7
  <2>3. CASE q # c
    BY <2>1, <2>3, <1>3, <1>7 DEF AttentionIsShown, Running
  <2> QED
    BY <2>2, <2>3
<1>14. PollInv'
  <2> SUFFICES ASSUME NEW q \in Procs, Running(q)'
               PROVE  /\ app'[q].port # 0 => Ticks(app[q])' \/ app'[q].tick \/ q \in outlived'
                      /\ app'[q].main = "none" => app'[q].detached
    BY DEF PollInv
  <2>1. CASE q = c
    BY <2>1, <1>5, <1>7
  <2>2. CASE q # c
    <3>1. app'[q] = app[q]
      BY <2>2, <1>7
    <3>2. Ticks(app[q])' <=> Ticks(app[q])
      BY <3>1 DEF Ticks
    <3> QED
      BY <3>1, <3>2, <1>1, <1>3 DEF PollInv, Running
  <2> QED
    BY <2>1, <2>2
<1>15. Spared
  BY <1>5, <1>7 DEF Spared, Running
<1>16. markers' \in Seq(Host)
  BY <1>1, <1>2
<1> QED
  BY <1>9, <1>10, <1>11, <1>12, <1>13, <1>14, <1>15, <1>16 DEF HostInv

LEMMA CrashKeeps ==
  ASSUME HostInv, NEW p \in Procs, Crash(p)
  PROVE  HostInv' /\ Spared
<1> DEFINE b == [Off EXCEPT !.at = "gone", !.jobs = app[p].jobs, !.ports = app[p].ports]
<1>1. /\ Running(p) /\ stops < MaxStops /\ stops' = stops + 1
      /\ app' = [app EXCEPT ![p] = b]
      /\ lost' = lost \cup app[p].queue /\ asked' = asked \ {p}
      /\ UNCHANGED <<markers, acked, opened, started, timeouts, outlived>>
  BY DEF Crash
<1>2. TypeOK /\ Waiters /\ LeadInv /\ HeldInv /\ AttentionIsShown /\ PollInv
  BY DEF HostInv
<1>3. /\ app \in [Procs -> App] /\ app[p] \in App /\ markers \in Seq(Host)
      /\ stops \in 0..MaxStops
  BY <1>2 DEF TypeOK
<1>4. b \in App
  <2>1. <<>> \in Seq(Host)
    BY EmptySeq
  <2> QED
    BY <2>1, <1>3 DEF App, Off
<1>5. /\ b.at = "gone" /\ b.port = 0 /\ b.main = "none"
      /\ b.backlog = {} /\ b.queue = {}
  BY DEF Off
<1> HIDE DEF b
<1>6. app'[p] = b /\ (\A q \in Procs \ {p} : app'[q] = app[q]) /\ app' \in [Procs -> App]
  BY <1>1, <1>3, <1>4
<1>7. TypeOK'
  <2>1. \A q \in Procs :
          /\ app'[q].port \in {0, app'[q].ports}
          /\ app'[q].port = 0 => app'[q].backlog = {} /\ app'[q].queue = {}
          /\ app'[q].at # "run" => app'[q].main = "none" /\ app'[q].port = 0
    BY <1>2, <1>5, <1>6 DEF TypeOK
  <2>2. app[p].queue \subseteq Procs
    BY <1>3 DEF App
  <2>3. stops' \in 0..MaxStops
    BY <1>1, <1>3, OperationHostAssumption
  <2> QED
    BY <2>1, <2>2, <2>3, <1>1, <1>2, <1>6 DEF TypeOK
<1>8. Waiters'
  BY <1>2, <1>5, <1>6 DEF Waiters
<1>9. LeadInv'
  <2>1. \A q \in Procs :
          \/ app'[q].at = "gone"
          \/ app[q].at # "gone" /\ app'[q].port = app[q].port
    BY <1>5, <1>6
  <2> QED
    BY <2>1, <1>1, <1>2, <1>3, LeadUntouched
<1>10. HeldInv'
  <2>1. ASSUME NEW d, Held(d)
        PROVE  Held(d)'
    <3>1. CASE \E q \in Procs \ {p} : d \in app[q].queue
      BY <3>1, <1>6 DEF Held
    <3>2. CASE ~\E q \in Procs \ {p} : d \in app[q].queue
      BY <3>2, <2>1, <1>1 DEF Held
    <3> QED
      BY <3>1, <3>2
  <2>2. \A d \in acked' : Held(d)'
    BY <2>1, <1>1, <1>2 DEF HeldInv
  <2>3. ASSUME NEW d \in Procs
        PROVE  /\ app'[d].at \in {"off", "seek", "wait"} => opened'[d] = {}
               /\ app'[d].at = "run" => d \in opened'[d]
               /\ app'[d].at = "gone" => d \in opened'[d] \/ Held(d)'
    <3>1. CASE d = p
      BY <3>1, <1>1, <1>2, <1>5, <1>6 DEF HeldInv, Running
    <3>2. CASE d # p
      BY <3>2, <2>1, <1>1, <1>2, <1>6 DEF HeldInv
    <3> QED
      BY <3>1, <3>2
  <2> QED
    BY <2>2, <2>3 DEF HeldInv
<1>11. AttentionIsShown'
  <2> SUFFICES ASSUME NEW q \in asked', Running(q)'
               PROVE  \/ app'[q].main = "open"
                      \/ app'[q].main = "closing" /\ app'[q].attention
    BY DEF AttentionIsShown
  <2>1. q \in asked /\ q \in Procs \ {p}
    BY <1>1, <1>2 DEF TypeOK
  <2> QED
    BY <2>1, <1>2, <1>6 DEF AttentionIsShown, Running
<1>12. PollInv'
  <2> SUFFICES ASSUME NEW q \in Procs, Running(q)'
               PROVE  /\ app'[q].port # 0 => Ticks(app[q])' \/ app'[q].tick \/ q \in outlived'
                      /\ app'[q].main = "none" => app'[q].detached
    BY DEF PollInv
  <2>1. q # p
    BY <1>5, <1>6 DEF Running
  <2>2. app'[q] = app[q]
    BY <2>1, <1>6
  <2>3. Ticks(app[q])' <=> Ticks(app[q])
    BY <2>2 DEF Ticks
  <2> QED
    BY <2>2, <2>3, <1>1, <1>2 DEF PollInv, Running
<1>13. Spared
  BY <1>1, <1>3 DEF Spared
<1>14. markers' \in Seq(Host)
  BY <1>1, <1>3
<1> QED
  BY <1>7, <1>8, <1>9, <1>10, <1>11, <1>12, <1>13, <1>14 DEF HostInv

-----------------------------------------------------------------------------
(* The theorems.                                                           *)

LEMMA HostInit == Init => HostInv
<1> SUFFICES ASSUME Init PROVE HostInv
  OBVIOUS
<1>1. <<>> \in Seq(Host) /\ Len(<<>>) = 0
  BY EmptySeq
<1>2. Off \in App
  BY <1>1 DEF App, Off
<1>3. /\ app \in [Procs -> App] /\ \A p \in Procs : app[p] = Off
      /\ markers = <<>> /\ acked = {} /\ opened = [p \in Procs |-> {}]
      /\ lost = {} /\ asked = {} /\ outlived = {}
      /\ started \in 0..MaxJobs /\ stops \in 0..MaxStops /\ timeouts \in 0..MaxTimeouts
  BY <1>2, OperationHostAssumption DEF Init
<1>4. /\ Off.at = "off" /\ Off.port = 0 /\ Off.ports = 0 /\ Off.main = "none"
      /\ Off.backlog = {} /\ Off.queue = {}
  BY DEF Off
<1>5. TypeOK
  BY <1>1, <1>3, <1>4 DEF TypeOK
<1>6. Waiters
  BY <1>3, <1>4 DEF Waiters
<1>7. LeadInv
  BY <1>1, <1>3 DEF LeadInv
<1>8. HeldInv
  BY <1>3, <1>4 DEF HeldInv
<1>9. AttentionIsShown
  BY <1>3 DEF AttentionIsShown
<1>10. PollInv
  BY <1>3, <1>4 DEF PollInv, Running
<1> QED
  BY <1>5, <1>6, <1>7, <1>8, <1>9, <1>10 DEF HostInv

\* A step in which nothing changes.
LEMMA StutterKeeps ==
  ASSUME HostInv, UNCHANGED vars
  PROVE  HostInv' /\ Spared
<1>1. /\ app' = app /\ markers' = markers /\ acked' = acked /\ opened' = opened
      /\ started' = started /\ stops' = stops /\ timeouts' = timeouts
      /\ lost' = lost /\ asked' = asked /\ outlived' = outlived
  BY DEF vars, counts
<1>2. TypeOK' /\ Waiters' /\ LeadInv'
  BY <1>1 DEF HostInv, TypeOK, Waiters, LeadInv
<1>3. HeldInv' /\ AttentionIsShown'
  BY <1>1 DEF HostInv, HeldInv, Held, AttentionIsShown, Running
<1>4. PollInv'
  BY <1>1 DEF HostInv, PollInv, Ticks, Running
<1>5. Spared
  BY <1>1 DEF Spared, Running
<1> QED
  BY <1>2, <1>3, <1>4, <1>5 DEF HostInv

LEMMA HostStep == HostInv /\ [Next]_vars => HostInv' /\ Spared
<1> SUFFICES ASSUME HostInv, [Next]_vars PROVE HostInv' /\ Spared
  OBVIOUS
<1>1. CASE UNCHANGED vars
  BY <1>1, StutterKeeps
<1>2. CASE Rest
  BY <1>2, StutterKeeps DEF Rest
<1>3. ASSUME NEW p \in Procs,
             \/ Launch(p) \/ LaunchStep(p) \/ HandleActivation(p)
             \/ \E k \in Kinds : StartJob(p, k)
             \/ WindowClose(p) \/ CloseAnalysis(p) \/ System(p) \/ Crash(p)
      PROVE  HostInv' /\ Spared
  <2>1. CASE Launch(p)
    BY <2>1, LaunchIsKept
  <2>2. CASE Connect(p)
    BY <2>2, ConnectKeeps
  <2>3. CASE NoAnswer(p)
    BY <2>3, NoAnswerKeeps
  <2>4. CASE Activated(p)
    BY <2>4, ActivatedIsKept
  <2>5. CASE Start(p)
    BY <2>5, StartKeeps
  <2>6. CASE HandleActivation(p)
    BY <2>6, HandleActivationKeeps
  <2>7. CASE \E k \in Kinds : StartJob(p, k)
    BY <2>7, StartJobKeeps
  <2>8. CASE WindowClose(p)
    BY <2>8, WindowCloseKeeps
  <2>9. CASE CloseAnalysis(p)
    BY <2>9, CloseAnalysisKeeps
  <2>10. CASE WindowClosed(p)
    BY <2>10, WindowClosedKeeps
  <2>11. CASE TransferEnds(p)
    BY <2>11, TransferEndsKeeps
  <2>12. CASE HistoryAges(p)
    BY <2>12, HistoryAgesKeeps
  <2>13. CASE DeleteFinished(p)
    BY <2>13, DeleteFinishedKeeps
  <2>14. CASE Tick(p)
    BY <2>14, TickKeeps
  <2>15. CASE PollTransfers(p)
    BY <2>15, PollTransfersKeeps
  <2>16. CASE Crash(p)
    BY <2>16, CrashKeeps
  <2> QED
    BY <1>3, <2>1, <2>2, <2>3, <2>4, <2>5, <2>6, <2>7, <2>8, <2>9, <2>10, <2>11, <2>12,
       <2>13, <2>14, <2>15, <2>16 DEF LaunchStep, System
<1> QED
  BY <1>1, <1>2, <1>3 DEF Next

\* In every reachable state each process has a host only while it runs, with the number of
\* its last one, and what it has received belongs to that host.
THEOREM TypeCorrect == Spec => []TypeOK
<1>1. HostInv => TypeOK
  BY DEF HostInv
<1>2. HostInv /\ [Next]_vars => HostInv'
  BY HostStep
<1> QED
  BY <1>1, <1>2, HostInit, PTL DEF Spec

\* However many launches meet however many hosts that end, are killed or are slow: the
\* path of a launch that was acknowledged is opened, is still with its host, or has
\* ended with it; no launch ends with its path in nobody's hands.
THEOREM PathsAreHeld == Spec => []AcknowledgedIsHeld
<1>1. HostInv => AcknowledgedIsHeld
  BY DEF HostInv, HeldInv, Held, AcknowledgedIsHeld
<1>2. HostInv /\ [Next]_vars => HostInv'
  BY HostStep
<1> QED
  BY <1>1, <1>2, HostInit, PTL DEF Spec

\* The markers on disk of a process that runs lead to the host that it has: none is left
\* behind by a host that was retired, and none is doubled.
THEOREM MarkersAreTrue == Spec => []MarkersLead
<1>1. HostInv => MarkersLead
  BY DEF HostInv, LeadInv, MarkersLead, Running
<1>2. HostInv /\ [Next]_vars => HostInv'
  BY HostStep
<1> QED
  BY <1>1, <1>2, HostInit, PTL DEF Spec

\* A dialog that an operation needs finds a window, whatever closes meanwhile.
THEOREM DialogsAreShown == Spec => []AttentionIsShown
<1>1. HostInv => AttentionIsShown
  BY DEF HostInv
<1>2. HostInv /\ [Next]_vars => HostInv'
  BY HostStep
<1> QED
  BY <1>1, <1>2, HostInit, PTL DEF Spec

\* The channel of a host that has received something is polled, but for the one host whose
\* last operation ended without a poll while its window was open.
THEOREM HostsArePolled == Spec => []ActivationsArePolled
<1>1. HostInv => ActivationsArePolled
  BY DEF HostInv, PollInv, ActivationsArePolled, TypeOK
<1>2. HostInv /\ [Next]_vars => HostInv'
  BY HostStep
<1> QED
  BY <1>1, <1>2, HostInit, PTL DEF Spec

\* No process ends by itself with an operation under way.
THEOREM NoWorkIsKilled == Spec => WorkIsNotKilled
<1>1. HostInv /\ [Next]_vars => HostInv'
  BY HostStep
<1>2. HostInv /\ [Next]_vars =>
        [\A p \in Procs :
           Running(p) /\ app'[p].at = "gone" /\ UNCHANGED stops => app'[p].jobs = {}]_vars
  BY HostStep DEF Spared
<1> QED
  BY <1>1, <1>2, HostInit, PTL DEF Spec, WorkIsNotKilled
=============================================================================
