----------------------- MODULE DirectoryRefresh_proofs -----------------------
(***************************************************************************)
(* The panes of a window, for any number of folders, of saved sessions and *)
(* any bounds: what a pane shows, what it waits for, and who refreshes it. *)
(*                                                                         *)
(* A handler is a chain of operators on the window.  Each operator has a   *)
(* lemma that says which fields it leaves and what it does to the others,  *)
(* and one that says what it keeps of the invariant.                       *)
(***************************************************************************)
EXTENDS DirectoryRefresh, TLAPS

\* Task t asks for pane p with its request number n.
Asks(t, p, n) ==
  IF t.kind = "load" THEN t.pane = p /\ t.req = n ELSE <<p, n>> \in t.requests

\* The task has a listing; the refresh is the one its folder waits for.
HasRead(t) == t.result \notin {Unread, Failed}
Current(s, t) == t.kind = "refresh" /\ t.ticket = s.ticket[t.dir]

Typed(s) == s \in Window /\ \A d \in Dirs : s.ticket[d] <= s.sequence

\* Numbers are handed out once, and every task has one that was.
Numbered(s) ==
  \A t \in s.tasks :
    /\ \A p \in Panes, n \in Nat : Asks(t, p, n) => n <= s.req[p]
    /\ t.kind = "refresh" => 1 <= t.ticket /\ t.ticket <= s.sequence

Sole(s) ==
  \A t, u \in s.tasks :
    /\ \A p \in Panes, n \in Nat : Asks(t, p, n) /\ Asks(u, p, n) => t = u
    /\ t.kind = "refresh" /\ u.kind = "refresh" /\ t.dir = u.dir /\ t.ticket = u.ticket => t = u

\* What a visible pane waits for is of its folder; it loads while its load is under way.
AwaitsOwn(s, p) ==
  /\ \A t \in s.tasks : Asks(t, p, s.req[p]) => t.dir = Tab(s, p)
  /\ \A t \in s.tasks : t.kind = "load" /\ Asks(t, p, s.req[p]) => s.loading[p]
  /\ s.loading[p] =>
       IF Tab(s, p) = Storage THEN s.storage # "idle"
       ELSE \E t \in s.tasks : t.kind = "load" /\ Asks(t, p, s.req[p])

Awaits(s, except) == \A p \in Visible(s) \ except : AwaitsOwn(s, p)

\* PaneShowsItsFolder; and nothing is kept behind the storage view.
Shows(s) ==
  \A p \in Visible(s) :
    IF Tab(s, p) \in Dirs THEN Held(s, p).of \in {Tab(s, p), None}
    ELSE /\ s.folder[p] = None
         /\ s.cache \in {Empty, Drives} => s.entries[p] \in {Empty, Drives}

\* No listing is of a version that is yet to come.
Past(list, now) == list.of \in Dirs => list.at <= now[list.of]
Dated(s, now) ==
  /\ \A p \in Panes : Past(Held(s, p), now)
  /\ Past(s.cache, now)
  /\ \A t \in s.tasks : HasRead(t) => t.result <= now[t.dir]

\* What a pane waits for is not older than what it has.
Ordered(s) ==
  \A t \in s.tasks, p \in Panes :
    Asks(t, p, s.req[p]) /\ HasRead(t) /\ Held(s, p).of = t.dir => Held(s, p).at <= t.result

\* A listing that is too old is made up for by a refresh to come, or its folder is in
\* `known`.
Outdated(t, now) == HasRead(t) /\ t.result < now[t.dir]
Refreshed(s, p, now, known) ==
  \/ Tab(s, p) \in known \cup s.pending
  \/ \E t \in s.tasks :
       /\ Current(s, t) /\ t.dir = Tab(s, p) /\ Asks(t, p, s.req[p])
       /\ t.result \in {Unread, Failed, now[t.dir]}
FreshPane(s, p, now, known) ==
  /\ \A t \in s.tasks :
       t.kind = "load" /\ Asks(t, p, s.req[p]) /\ Outdated(t, now) =>
         t.dir \in known \cup s.pending
  /\ ~s.loading[p] /\ Held(s, p).of = Tab(s, p) /\ Held(s, p).at < now[Tab(s, p)] =>
       Refreshed(s, p, now, known)
Fresh(s, now, known, except) ==
  /\ \A t \in s.tasks : Current(s, t) /\ Outdated(t, now) => t.dir \in known \cup s.pending
  /\ \A p \in Visible(s) \ except : Tab(s, p) \in Dirs => FreshPane(s, p, now, known)

\* The invariant of a window; panes in `except` are about to load.
PaneInv(s, now, known, except) ==
  /\ Typed(s) /\ Numbered(s) /\ Sole(s) /\ Awaits(s, except) /\ Shows(s)
  /\ Dated(s, now) /\ Ordered(s) /\ Fresh(s, now, known, except)

Known == untold \cup silent \cup dropped

RefreshInv == TypeOK /\ PaneInv(win, disk, Known, {}) /\ RefreshIsWaitedFor

Versions == [Dirs -> 0..MaxEdits]

-----------------------------------------------------------------------------
(* What the types say.                                                     *)

LEMMA ViewTypes ==
  ASSUME NEW s \in Window
  PROVE  /\ Visible(s) \subseteq Panes /\ Primary \in Visible(s)
         /\ \A p \in Panes : Tab(s, p) \in Dirs \cup {Storage}
         /\ \A d : Showing(s, d) \subseteq Panes
         /\ Folders(s) \subseteq Dirs
         /\ Storage \notin Dirs
BY RefreshAssumption DEF Visible, Tab, Showing, Folders, Panes, Places, Window

LEMMA TaskTypes ==
  ASSUME NEW s \in Window, NEW t \in s.tasks
  PROVE  /\ t \in Load \cup Refresh
         /\ t.kind \in {"load", "refresh"}
         /\ t.dir \in Dirs /\ t.result \in Outcome
         /\ t.kind = "load" => t \in Load /\ t.pane \in Panes /\ t.req \in Nat
         /\ t.kind = "refresh" => /\ t \in Refresh /\ t.ticket \in Nat
                                  /\ t.requests \subseteq Panes \X Nat
<1>1. t \in Load \cup Refresh
  BY DEF Window
<1>2. CASE t \in Load
  BY <1>2 DEF Load
<1>3. CASE t \in Refresh
  BY <1>3 DEF Refresh
<1> QED
  BY <1>1, <1>2, <1>3

LEMMA FieldTypes ==
  ASSUME NEW s \in Window
  PROVE  /\ s.tab \in [Panes -> Places] /\ s.split \in BOOLEAN /\ s.req \in [Panes -> Nat]
         /\ s.loading \in [Panes -> BOOLEAN] /\ s.entries \in [Panes -> List]
         /\ s.folder \in [Panes -> List \cup {None}]
         /\ s.text \in [Panes -> BOOLEAN] /\ s.searching \in [Panes -> BOOLEAN]
         /\ s.pending \in SUBSET Dirs /\ s.ticket \in [Dirs -> Nat] /\ s.sequence \in Nat
         /\ s.desired \in SUBSET Dirs /\ s.storage \in {"idle", "active", "pending"}
         /\ s.cache \in List /\ s.tasks \in SUBSET (Load \cup Refresh)
BY DEF Window

LEMMA ListTypes ==
  /\ Empty \in List /\ Found \in List /\ Drives \in List
  /\ \A list \in List : list.at \in Int /\ list.of \in Dirs \cup {Storage, None}
  /\ Empty.of = None /\ Found.of = None /\ Drives.of = Storage /\ None \notin Dirs \cup {Storage}
  /\ \A d \in Dirs, v \in 0..MaxEdits : [of |-> d, at |-> v] \in List
BY RefreshAssumption DEF List, Listing, Empty, Found, Drives, Places

-----------------------------------------------------------------------------
(* Refreshes that are cancelled, or asked for.                             *)

SameView(s, r) == r.tab = s.tab /\ r.split = s.split
SameLists(s, r) == r.entries = s.entries /\ r.folder = s.folder /\ r.cache = s.cache
SameWaits(s, r) == r.req = s.req /\ r.loading = s.loading /\ r.storage = s.storage

\* Nothing of the refresh of d is lost; or it is cancelled, and asked for again if d
\* is one of `kept`.
Left(s, r, d) ==
  /\ r.ticket[d] = s.ticket[d]
  /\ d \in s.pending => d \in r.pending
  /\ \A t \in s.tasks : t.dir = d => t \in r.tasks
Cut(s, r, d, kept) ==
  r.ticket[d] = 0 /\ (d \in kept /\ IsRefreshing(s, d) => d \in r.pending)

\* From s to r nothing but refreshes has changed, and none has started.
Thins(s, r, kept) ==
  /\ r \in Window /\ SameView(s, r) /\ SameLists(s, r) /\ SameWaits(s, r)
  /\ r.sequence = s.sequence /\ r.searching = s.searching
  /\ r.tasks \subseteq s.tasks
  /\ \A t \in s.tasks : t.kind = "load" => t \in r.tasks
  /\ \A d \in Dirs : Left(s, r, d) \/ Cut(s, r, d, kept)

LEMMA SameSight ==
  ASSUME NEW s, NEW r, SameView(s, r)
  PROVE  /\ Visible(r) = Visible(s) /\ Folders(r) = Folders(s)
         /\ \A p : Tab(r, p) = Tab(s, p)
         /\ \A d : Showing(r, d) = Showing(s, d)
BY DEF SameView, Visible, Folders, Tab, Showing

LEMMA SameHeld ==
  ASSUME NEW s, NEW r, SameLists(s, r)
  PROVE  \A p : Held(r, p) = Held(s, p)
BY DEF SameLists, Held

LEMMA DropThins ==
  ASSUME NEW s \in Window, NEW dirs \in SUBSET Dirs
  PROVE  /\ Thins(s, DropRefreshes(s, dirs), Dirs \ dirs)
         /\ \A d \in dirs : DropRefreshes(s, dirs).ticket[d] = 0
         /\ DropRefreshes(s, dirs).pending = s.pending \ dirs
         /\ \A d \in Dirs \ dirs : DropRefreshes(s, dirs).ticket[d] = s.ticket[d]
<1> DEFINE aborted == {t \in s.tasks : t.kind = "refresh" /\ t.dir \in dirs /\ t.ticket = s.ticket[t.dir]}
           left == {t \in s.tasks : t.result # Unread \/ t \notin aborted}
           ticket == [d \in Dirs |-> IF d \in dirs THEN 0 ELSE s.ticket[d]]
           r == DropRefreshes(s, dirs)
<1>1. r = [s EXCEPT !.tasks = left, !.ticket = ticket, !.pending = @ \ dirs]
  <2>1. Without(s, aborted) = [s EXCEPT !.tasks = left]
    BY DEF Without
  <2> QED
    BY <2>1, FieldTypes DEF DropRefreshes, Window
<1>2. /\ left \subseteq s.tasks /\ ticket \in [Dirs -> Nat]
      /\ \A t \in s.tasks : t \notin aborted => t \in left
  BY FieldTypes
<1>3. /\ r \in Window /\ r.tasks = left /\ r.ticket = ticket /\ r.pending = s.pending \ dirs
      /\ SameView(s, r) /\ SameLists(s, r) /\ SameWaits(s, r)
      /\ r.sequence = s.sequence /\ r.searching = s.searching
  <2> HIDE DEF left, ticket, r
  <2> QED
    BY <1>1, <1>2, FieldTypes DEF Window, SameView, SameLists, SameWaits
<1>4. ASSUME NEW d \in Dirs
      PROVE  Left(s, r, d) \/ Cut(s, r, d, Dirs \ dirs)
  <2>1. CASE d \in dirs
    <3>1. r.ticket[d] = 0
      BY <1>3, <2>1
    <3> HIDE DEF r
    <3> QED
      BY <3>1, <2>1 DEF Cut
  <2>2. CASE d \notin dirs
    <3>1. r.ticket[d] = s.ticket[d] /\ (d \in s.pending => d \in r.pending)
      BY <1>3, <2>2
    <3>2. ASSUME NEW t \in s.tasks, t.dir = d PROVE t \in r.tasks
      BY <1>2, <1>3, <2>2, <3>2
    <3> HIDE DEF r
    <3> QED
      BY <3>1, <3>2 DEF Left
  <2> QED
    BY <2>1, <2>2
<1>5. ASSUME NEW t \in s.tasks, t.kind = "load" PROVE t \in r.tasks
  BY <1>2, <1>3, <1>5
<1>6. /\ \A d \in dirs : r.ticket[d] = 0
      /\ \A d \in Dirs \ dirs : r.ticket[d] = s.ticket[d]
  BY <1>3
<1> HIDE DEF r
<1>7. Thins(s, r, Dirs \ dirs) /\ r.pending = s.pending \ dirs
  BY <1>2, <1>3, <1>4, <1>5 DEF Thins
<1> QED
  BY <1>6, <1>7 DEF r

LEMMA QueueThins ==
  ASSUME NEW s \in Window, NEW dirs \in SUBSET Dirs, NEW kept
  PROVE  /\ Thins(s, Queue(s, dirs), kept)
         /\ Queue(s, dirs).pending = s.pending \cup dirs
         /\ Queue(s, dirs).ticket = s.ticket
<1> DEFINE r == Queue(s, dirs)
<1>1. /\ r \in Window /\ r.tasks = s.tasks /\ r.ticket = s.ticket /\ r.pending = s.pending \cup dirs
      /\ SameView(s, r) /\ SameLists(s, r) /\ SameWaits(s, r)
      /\ r.sequence = s.sequence /\ r.searching = s.searching
  BY FieldTypes DEF Queue, Window, SameView, SameLists, SameWaits
<1> HIDE DEF r
<1>2. \A d \in Dirs : Left(s, r, d)
  BY <1>1 DEF Left
<1>3. Thins(s, r, kept)
  BY <1>1, <1>2 DEF Thins
<1> QED
  BY <1>1, <1>3 DEF r

LEMMA ThinsTwice ==
  ASSUME NEW s \in Window, NEW r, NEW u, NEW kept, Thins(s, r, kept), Thins(r, u, kept)
  PROVE  Thins(s, u, kept)
<1>1. ASSUME NEW d \in Dirs
      PROVE  Left(s, u, d) \/ Cut(s, u, d, kept)
  <2>1. CASE Left(s, r, d) /\ Left(r, u, d)
    BY <2>1 DEF Left
  <2>2. CASE Left(s, r, d) /\ Cut(r, u, d, kept)
    BY <2>2 DEF Left, Cut, IsRefreshing
  <2>3. CASE Cut(s, r, d, kept) /\ Left(r, u, d)
    BY <2>3 DEF Left, Cut
  <2>4. CASE Cut(s, r, d, kept) /\ Cut(r, u, d, kept)
    BY <2>4 DEF Cut, IsRefreshing
  <2> QED
    BY <2>1, <2>2, <2>3, <2>4 DEF Thins
<1>2. \A t \in s.tasks : t.kind = "load" => t \in u.tasks
  BY DEF Thins
<1>3. /\ SameView(s, u) /\ SameLists(s, u) /\ SameWaits(s, u) /\ u.tasks \subseteq s.tasks
      /\ u \in Window /\ u.sequence = s.sequence /\ u.searching = s.searching
  BY DEF Thins, SameView, SameLists, SameWaits
<1> QED
  BY <1>1, <1>2, <1>3 DEF Thins

LEMMA ThinsLess ==
  ASSUME NEW s, NEW r, NEW kept, NEW less, less \subseteq kept, Thins(s, r, kept)
  PROVE  Thins(s, r, less)
BY DEF Thins, Cut

LEMMA RetainThins ==
  ASSUME NEW s \in Window
  PROVE  /\ Thins(s, Retain(s), Folders(s))
         /\ \A d \in Folders(s) : d \in s.pending => d \in Retain(s).pending
         /\ Retain(s).pending \subseteq s.pending
<1>1. Folders(s) \subseteq Dirs
  BY ViewTypes
<1> DEFINE dirs == Dirs \ Folders(s)
           r == DropRefreshes(s, dirs)
<1>2. Dirs \ dirs = Folders(s) /\ dirs \in SUBSET Dirs
  BY <1>1
<1> HIDE DEF dirs
<1>3. Thins(s, r, Dirs \ dirs) /\ r.pending = s.pending \ dirs
  BY <1>2, DropThins
<1>4. Retain(s) = r
  BY DEF Retain, dirs
<1> HIDE DEF r
<1> QED
  BY <1>1, <1>2, <1>3, <1>4

LEMMA CancelThins ==
  ASSUME NEW s \in Window, NEW p \in Panes, NEW d \in Dirs
  PROVE  Thins(s, CancelForLoad(s, p, d), {x \in Dirs : Showing(s, x) \ {p} # {}})
<1> DEFINE others == {x \in Dirs : Showing(s, x) \ {p} # {}}
           r == DropRefreshes(s, {d})
           again == IF IsRefreshing(s, d) /\ Showing(s, d) \ {p} # {} THEN {d} ELSE {}
           u == Queue(r, again)
<1>0. {d} \in SUBSET Dirs
  OBVIOUS
<1>a. Thins(s, r, Dirs \ {d})
  BY <1>0, DropThins
<1>1. Thins(s, r, Dirs \ {d}) /\ r \in Window
  BY <1>a DEF Thins
<1>2. Thins(r, u, Dirs) /\ u.pending = r.pending \cup again /\ again \in SUBSET Dirs
  BY <1>1, QueueThins
<1>3. CancelForLoad(s, p, d) = u
  BY DEF CancelForLoad
<1> HIDE DEF r, u
<1>4. Thins(s, u, Dirs \ {d})
  BY <1>1, <1>2, ThinsTwice, ThinsLess
<1>5. ASSUME NEW x \in Dirs PROVE Left(s, u, x) \/ Cut(s, u, x, others)
  BY <1>2, <1>4 DEF Thins, Cut
<1> QED
  BY <1>3, <1>4, <1>5 DEF Thins

LEMMA SearchThins ==
  ASSUME NEW s \in Window, NEW d \in Dirs
  PROVE  LET r == Queue(DropRefreshes(s, {d}), {d}) IN
         /\ Thins(s, r, Dirs)
         /\ d \in r.pending /\ r.pending = s.pending \cup {d}
         /\ r.ticket[d] = 0
         /\ \A x \in Dirs \ {d} : r.ticket[x] = s.ticket[x]
<1> DEFINE r == DropRefreshes(s, {d})
           u == Queue(r, {d})
<1>0. {d} \in SUBSET Dirs
  OBVIOUS
<1>a. Thins(s, r, Dirs \ {d}) /\ r.pending = s.pending \ {d} /\ r.ticket[d] = 0
      /\ \A x \in Dirs \ {d} : r.ticket[x] = s.ticket[x]
  BY <1>0, DropThins
<1>1. Thins(s, r, Dirs \ {d}) /\ r \in Window /\ r.pending = s.pending \ {d} /\ r.ticket[d] = 0
      /\ \A x \in Dirs \ {d} : r.ticket[x] = s.ticket[x]
  BY <1>a DEF Thins
<1>2. Thins(r, u, Dirs) /\ u.pending = r.pending \cup {d} /\ u.ticket = r.ticket
  BY <1>1, QueueThins
<1> HIDE DEF r, u
<1>3. Thins(s, u, Dirs \ {d})
  BY <1>1, <1>2, ThinsTwice, ThinsLess
<1>4. ASSUME NEW x \in Dirs PROVE Left(s, u, x) \/ Cut(s, u, x, Dirs)
  BY <1>2, <1>3 DEF Thins, Cut
<1>5. Thins(s, u, Dirs) /\ d \in u.pending /\ u.ticket[d] = 0 /\ u.pending = s.pending \cup {d}
      /\ \A x \in Dirs \ {d} : u.ticket[x] = s.ticket[x]
  BY <1>1, <1>2, <1>3, <1>4 DEF Thins
<1> QED
  BY <1>5 DEF u, r

\* The invariant of the window survives, if the refreshes of what it shows do.
LEMMA ThinsKeeps ==
  ASSUME NEW s, NEW r, NEW kept, NEW now \in Versions, NEW known, NEW except,
         PaneInv(s, now, known, except), Thins(s, r, kept),
         \A p \in Visible(s) \ except : Tab(s, p) \in Dirs => Tab(s, p) \in kept \cup known
  PROVE  PaneInv(r, now, known, except)
<1>1. s \in Window /\ r \in Window /\ SameView(s, r) /\ SameLists(s, r)
  BY DEF PaneInv, Typed, Thins
<1>2. /\ Visible(r) = Visible(s) /\ Visible(s) \subseteq Panes
      /\ \A p : Tab(r, p) = Tab(s, p) /\ Held(r, p) = Held(s, p)
  BY <1>1, SameSight, SameHeld, ViewTypes
<1>3. /\ r.req = s.req /\ r.loading = s.loading /\ r.storage = s.storage /\ r.cache = s.cache
      /\ r.entries = s.entries /\ r.folder = s.folder /\ r.sequence = s.sequence
      /\ r.tasks \subseteq s.tasks
      /\ \A t \in s.tasks : t.kind = "load" => t \in r.tasks
      /\ \A d \in Dirs : Left(s, r, d) \/ Cut(s, r, d, kept)
  BY DEF Thins, SameLists, SameWaits
<1>4. \A d \in Dirs : r.ticket[d] \in {0, s.ticket[d]}
  BY <1>3 DEF Left, Cut
<1>5. \A t \in r.tasks : t.dir \in Dirs
  BY <1>1, TaskTypes
<1>6. Typed(r)
  BY <1>1, <1>3, <1>4, FieldTypes DEF PaneInv, Typed
<1>7. Numbered(r) /\ Sole(r)
  <2>1. Numbered(s) /\ Sole(s)
    BY DEF PaneInv
  <2> QED
    BY <2>1, <1>3 DEF Numbered, Sole
<1>8. Awaits(r, except)
  <2>1. ASSUME NEW p \in Visible(r) \ except PROVE AwaitsOwn(r, p)
    <3>1. AwaitsOwn(s, p) /\ r.req[p] = s.req[p] /\ r.loading[p] = s.loading[p]
      BY <1>2, <1>3, <2>1 DEF PaneInv, Awaits
    <3> QED
      BY <3>1, <1>2, <1>3 DEF AwaitsOwn
  <2> QED
    BY <2>1 DEF Awaits
<1>9. Shows(r)
  <2>1. Shows(s)
    BY DEF PaneInv
  <2> QED
    BY <2>1, <1>2, <1>3 DEF Shows
<1>10. Dated(r, now) /\ Ordered(r)
  <2>1. Dated(s, now) /\ Ordered(s)
    BY DEF PaneInv
  <2>2. Dated(r, now)
    BY <2>1, <1>2, <1>3 DEF Dated
  <2>3. Ordered(r)
    BY <2>1, <1>2, <1>3 DEF Ordered
  <2> QED
    BY <2>2, <2>3
<1>11. Fresh(r, now, known, except)
  <2>1. Fresh(s, now, known, except) /\ Numbered(s)
    BY DEF PaneInv
  <2>2. ASSUME NEW t \in r.tasks, Current(r, t), Outdated(t, now)
        PROVE  t.dir \in known \cup r.pending
    <3>1. t \in s.tasks /\ t.dir \in Dirs /\ t.kind = "refresh" /\ t.ticket = r.ticket[t.dir]
      BY <2>2, <1>3, <1>5 DEF Current
    <3>2. t.ticket # 0
      BY <3>1, <2>1 DEF Numbered
    <3>3. Left(s, r, t.dir)
      BY <3>1, <3>2, <1>3 DEF Cut
    <3>4. Current(s, t) /\ (t.dir \in s.pending => t.dir \in r.pending)
      BY <3>1, <3>3 DEF Left, Current
    <3> QED
      BY <3>1, <3>4, <2>1, <2>2 DEF Fresh
  <2>3. ASSUME NEW p \in Visible(r) \ except, Tab(r, p) \in Dirs
        PROVE  FreshPane(r, p, now, known)
    <3> DEFINE d == Tab(s, p)
    <3>1. d \in Dirs /\ Tab(r, p) = d /\ d \in kept \cup known /\ p \in Visible(s) \ except
      BY <2>3, <1>2
    <3>2. FreshPane(s, p, now, known) /\ AwaitsOwn(s, p)
      BY <2>1, <3>1 DEF Fresh, PaneInv, Awaits
    <3>3. d \in known \cup s.pending => d \in known \cup r.pending
      BY <3>1, <1>3 DEF Left, Cut, IsRefreshing
    <3>4. ASSUME NEW t \in r.tasks, t.kind = "load", Asks(t, p, r.req[p]), Outdated(t, now)
          PROVE  t.dir \in known \cup r.pending
      <4>1. t \in s.tasks /\ Asks(t, p, s.req[p])
        BY <3>4, <1>3
      <4>2. t.dir = d
        BY <4>1, <3>2 DEF AwaitsOwn
      <4> QED
        BY <4>1, <4>2, <3>2, <3>3, <3>4 DEF FreshPane
    <3>5. ASSUME ~r.loading[p], Held(r, p).of = d, Held(r, p).at < now[d]
          PROVE  Refreshed(r, p, now, known)
      <4>1. Refreshed(s, p, now, known)
        BY <3>2, <3>5, <1>2, <1>3 DEF FreshPane
      <4>2. CASE d \in known \cup s.pending
        BY <4>2, <3>1, <3>3 DEF Refreshed
      <4>3. CASE \E t \in s.tasks : /\ Current(s, t) /\ t.dir = d /\ Asks(t, p, s.req[p])
                                    /\ t.result \in {Unread, Failed, now[t.dir]}
        <5>1. PICK t \in s.tasks : /\ Current(s, t) /\ t.dir = d /\ Asks(t, p, s.req[p])
                                   /\ t.result \in {Unread, Failed, now[t.dir]}
          BY <4>3
        <5>2. s.ticket[d] # 0
          BY <5>1, <2>1 DEF Current, Numbered
        <5>3. CASE Left(s, r, d)
          <6>1. t \in r.tasks /\ Current(r, t)
            BY <5>1, <5>3 DEF Left, Current
          <6> QED
            BY <6>1, <5>1, <3>1, <1>3 DEF Refreshed
        <5>4. CASE Cut(s, r, d, kept)
          BY <5>2, <5>4, <3>1 DEF Cut, IsRefreshing, Refreshed
        <5> QED
          BY <5>3, <5>4, <3>1, <1>3
      <4> QED
        BY <4>1, <4>2, <4>3 DEF Refreshed
    <3> QED
      BY <3>1, <3>4, <3>5 DEF FreshPane
  <2> QED
    BY <2>2, <2>3 DEF Fresh
<1> QED
  BY <1>6, <1>7, <1>8, <1>9, <1>10, <1>11 DEF PaneInv

\* The folder of a visible pane is a visible folder.
LEMMA RefreshesHere ==
  ASSUME NEW s \in Window
  PROVE  \A p \in Visible(s) : Tab(s, p) \in Dirs => Tab(s, p) \in Folders(s)
BY DEF Folders, Showing

-----------------------------------------------------------------------------
(* Refreshes that start.                                                   *)

\* What start_ready_directory_refreshes does once it has retained what is visible.
Bumped(s) ==
  [p \in Panes |-> IF p \in Visible(s) /\ Tab(s, p) \in Ready(s)
                   THEN s.req[p] + 1 ELSE s.req[p]]
NewTask(s, d) ==
  [kind |-> "refresh", dir |-> d, ticket |-> s.sequence + 1, result |-> Unread,
   requests |-> {<<p, Bumped(s)[p]>> : p \in Showing(s, d)}]
NewTasks(s) == {NewTask(s, d) : d \in Ready(s)}
NewTickets(s) == [d \in Dirs |-> IF d \in Ready(s) THEN s.sequence + 1 ELSE s.ticket[d]]

Starting(s, r) ==
  /\ r \in Window /\ SameView(s, r) /\ SameLists(s, r)
  /\ r.loading = s.loading /\ r.storage = s.storage /\ r.searching = s.searching
  /\ r.req = Bumped(s) /\ r.pending = s.pending \ Ready(s) /\ r.ticket = NewTickets(s)
  /\ r.sequence = s.sequence + 1 /\ r.tasks = s.tasks \cup NewTasks(s)

\* Every pane that shows d waits for its refresh, which has read nothing yet.
Newly(s, d) ==
  /\ s.ticket[d] # 0
  /\ \A p \in Showing(s, d) :
       \E t \in s.tasks : /\ Current(s, t) /\ t.dir = d /\ Asks(t, p, s.req[p])
                          /\ t.result = Unread
  /\ \A t \in s.tasks : Current(s, t) /\ t.dir = d => t.result = Unread

LEMMA NewTaskAsks ==
  ASSUME NEW s \in Window, NEW d \in Ready(s)
  PROVE  /\ d \in Dirs /\ NewTask(s, d) \in Refresh
         /\ NewTask(s, d).kind = "refresh" /\ NewTask(s, d).dir = d
         /\ NewTask(s, d).ticket = s.sequence + 1 /\ NewTask(s, d).result = Unread
         /\ \A p \in Panes, n \in Nat :
              Asks(NewTask(s, d), p, n) <=> p \in Showing(s, d) /\ n = s.req[p] + 1
<1> DEFINE requests == {<<p, Bumped(s)[p]>> : p \in Showing(s, d)}
<1>1. d \in Dirs /\ Showing(s, d) \subseteq Panes /\ s.req \in [Panes -> Nat] /\ s.sequence \in Nat
  BY FieldTypes, ViewTypes DEF Ready
<1>2. \A p \in Showing(s, d) : p \in Panes /\ Bumped(s)[p] = s.req[p] + 1
  BY <1>1 DEF Showing, Bumped
<1>3. requests \in SUBSET (Panes \X Nat)
  BY <1>1, <1>2
<1>4. Unread \in Outcome
  BY DEF Outcome
<1>5. /\ NewTask(s, d) \in Refresh /\ NewTask(s, d).kind = "refresh" /\ NewTask(s, d).dir = d
      /\ NewTask(s, d).ticket = s.sequence + 1 /\ NewTask(s, d).result = Unread
      /\ NewTask(s, d).requests = requests
  BY <1>1, <1>3, <1>4 DEF NewTask, Refresh
<1>6. ASSUME NEW p \in Panes, NEW n \in Nat
      PROVE  Asks(NewTask(s, d), p, n) <=> p \in Showing(s, d) /\ n = s.req[p] + 1
  <2>1. <<p, n>> \in requests <=> p \in Showing(s, d) /\ n = s.req[p] + 1
    BY <1>2
  <2> QED
    BY <2>1, <1>5 DEF Asks
<1> QED
  BY <1>1, <1>5, <1>6

LEMMA BumpedIs ==
  ASSUME NEW s \in Window
  PROVE  /\ Bumped(s) \in [Panes -> Nat]
         /\ \A p \in Panes : Bumped(s)[p] = IF p \in Visible(s) /\ Tab(s, p) \in Ready(s)
                                            THEN s.req[p] + 1 ELSE s.req[p]
BY FieldTypes DEF Bumped

\* StartReady starts what is ready of what it has retained.
LEMMA StartReadyIs ==
  ASSUME NEW s \in Window
  PROVE  LET kept == Retain(s) IN
         /\ kept \in Window
         /\ Ready(kept) = {} => StartReady(s) = kept
         /\ Ready(kept) # {} => Starting(kept, StartReady(s))
<1> DEFINE k == Retain(s)
           r == StartReady(s)
<1>1. k \in Window
  BY RetainThins DEF Thins
<1>2. r = IF Ready(k) = {} THEN k
          ELSE [NextTicket(k) EXCEPT
                  !.req = Bumped(k), !.pending = @ \ Ready(k),
                  !.ticket = [d \in Dirs |-> IF d \in Ready(k) THEN k.sequence + 1 ELSE @[d]],
                  !.tasks = @ \cup NewTasks(k)]
  BY DEF StartReady, Bumped, NewTasks, NewTask
<1> HIDE DEF k, r
<1>3. ASSUME Ready(k) # {} PROVE Starting(k, r)
  <2>1. NewTasks(k) \subseteq Refresh
    BY <1>1, NewTaskAsks DEF NewTasks
  <2>2. Bumped(k) \in [Panes -> Nat]
    BY <1>1, BumpedIs
  <2>3. NewTickets(k) \in [Dirs -> Nat]
    BY <1>1, FieldTypes DEF NewTickets
  <2> DEFINE n == NextTicket(k)
  <2>a. k.sequence + 1 \in Nat
    BY <1>1, FieldTypes
  <2>b. n = [k EXCEPT !.sequence = k.sequence + 1]
    BY DEF NextTicket
  <2> HIDE DEF n
  <2>4. n = [k EXCEPT !.sequence = k.sequence + 1] /\ n \in Window /\ n.ticket = k.ticket
    BY <1>1, <2>a, <2>b, FieldTypes DEF Window
  <2>5. r = [n EXCEPT !.req = Bumped(k), !.pending = @ \ Ready(k), !.ticket = NewTickets(k),
                      !.tasks = @ \cup NewTasks(k)]
    BY <1>2, <1>3, <2>4 DEF NewTickets, NextTicket, n, Window
  <2>6. n.tab = k.tab /\ n.split = k.split /\ n.entries = k.entries /\ n.folder = k.folder
        /\ n.cache = k.cache /\ n.loading = k.loading /\ n.storage = k.storage
        /\ n.searching = k.searching /\ n.pending = k.pending /\ n.tasks = k.tasks
        /\ n.sequence = k.sequence + 1
    BY <1>1, <2>4, FieldTypes DEF Window
  <2>7. /\ r.tab = n.tab /\ r.split = n.split /\ r.entries = n.entries /\ r.folder = n.folder
        /\ r.cache = n.cache /\ r.loading = n.loading /\ r.storage = n.storage
        /\ r.searching = n.searching /\ r.pending = n.pending \ Ready(k)
        /\ r.tasks = n.tasks \cup NewTasks(k) /\ r.ticket = NewTickets(k) /\ r.req = Bumped(k)
        /\ r.sequence = n.sequence
    BY <2>4, <2>5 DEF Window
  <2>8. r \in Window
    BY <2>1, <2>2, <2>3, <2>4, <2>5, FieldTypes DEF Window
  <2> QED
    BY <2>6, <2>7, <2>8 DEF Starting, SameView, SameLists
<1> QED
  BY <1>1, <1>2, <1>3 DEF k, r

\* Pending refreshes of visible folders that no load and no search will start.
Unattended(s) == Forgotten(s) \cap Folders(s)

LEMMA StartingKeeps ==
  ASSUME NEW s, NEW r, NEW now \in Versions, NEW known,
         PaneInv(s, now, known, {}), Starting(s, r)
  PROVE  /\ PaneInv(r, now, known, {})
         /\ \A d \in Dirs : r.ticket[d] # s.ticket[d] => Newly(r, d)
         /\ Unattended(r) = {}
<1> DEFINE R == Ready(s)
<1>1. s \in Window /\ r \in Window /\ SameView(s, r) /\ SameLists(s, r)
  BY DEF PaneInv, Typed, Starting
<1>2. /\ Visible(r) = Visible(s) /\ Visible(s) \subseteq Panes /\ Folders(r) = Folders(s)
      /\ \A d : Showing(r, d) = Showing(s, d)
      /\ \A p : Tab(r, p) = Tab(s, p) /\ Held(r, p) = Held(s, p)
  BY <1>1, SameSight, SameHeld, ViewTypes
<1>3. /\ r.loading = s.loading /\ r.storage = s.storage /\ r.cache = s.cache
      /\ r.entries = s.entries /\ r.folder = s.folder /\ r.searching = s.searching
      /\ r.sequence = s.sequence + 1 /\ r.pending = s.pending \ R /\ r.ticket = NewTickets(s)
      /\ r.tasks = s.tasks \cup NewTasks(s) /\ r.req = Bumped(s)
  BY DEF Starting, SameLists
<1>4. /\ s.req \in [Panes -> Nat] /\ s.sequence \in Nat /\ s.ticket \in [Dirs -> Nat]
      /\ s.loading \in [Panes -> BOOLEAN] /\ R \subseteq Dirs
  BY <1>1, FieldTypes DEF Ready
<1>5. \A p \in Panes : r.req[p] = IF p \in Visible(s) /\ Tab(s, p) \in R
                                  THEN s.req[p] + 1 ELSE s.req[p]
  BY <1>1, <1>3, BumpedIs
<1>6. \A d \in Dirs : r.ticket[d] = IF d \in R THEN s.sequence + 1 ELSE s.ticket[d]
  BY <1>3 DEF NewTickets
<1>7. \A u \in NewTasks(s) :
        /\ u.kind = "refresh" /\ u.dir \in R /\ u.ticket = s.sequence + 1 /\ u.result = Unread
        /\ u = NewTask(s, u.dir)
        /\ \A p \in Panes, n \in Nat :
             Asks(u, p, n) <=> p \in Showing(s, u.dir) /\ n = s.req[p] + 1
  BY <1>1, NewTaskAsks DEF NewTasks
<1>8. \A d \in R : NewTask(s, d) \in NewTasks(s) /\ NewTask(s, d).dir = d
  BY <1>1, NewTaskAsks DEF NewTasks
<1>9. \A p \in Panes : \A d : p \in Showing(s, d) <=> p \in Visible(s) /\ Tab(s, p) = d
  BY <1>2 DEF Showing
<1>10. \A t \in s.tasks : t.kind \in {"load", "refresh"} /\ t.dir \in Dirs
                          /\ (t.kind = "refresh" => t.ticket \in Nat)
  BY <1>1, TaskTypes
<1>11. \A p \in Visible(s) : Tab(s, p) \in R => ~s.loading[p]
  BY <1>2, <1>9 DEF Ready, Blocked
<1>12. \A t \in s.tasks : /\ \A p \in Panes, n \in Nat : Asks(t, p, n) => n <= s.req[p]
                          /\ t.kind = "refresh" => 1 <= t.ticket /\ t.ticket <= s.sequence
  BY DEF PaneInv, Numbered
<1>13. \A u \in NewTasks(s) : ~HasRead(u) /\ ~Outdated(u, now)
  BY <1>7 DEF HasRead, Outdated
<1>14. \A p \in Panes : r.req[p] \in Nat /\ s.req[p] \in Nat /\ s.req[p] <= r.req[p]
  BY <1>4, <1>5
\* Who asks for a pane: its new refresh, or else who asked before.
<1>15. ASSUME NEW p \in Panes, NEW t \in r.tasks, Asks(t, p, r.req[p])
       PROVE  \/ t \in NewTasks(s) /\ p \in Showing(s, t.dir) /\ Tab(s, p) \in R
              \/ t \in s.tasks /\ Asks(t, p, s.req[p]) /\ ~(p \in Visible(s) /\ Tab(s, p) \in R)
  <2>1. CASE t \in NewTasks(s)
    BY <2>1, <1>7, <1>9, <1>14, <1>15
  <2>2. CASE t \in s.tasks
    <3>1. r.req[p] <= s.req[p]
      BY <2>2, <1>12, <1>14, <1>15
    <3> QED
      BY <3>1, <2>2, <1>5, <1>14, <1>15
  <2> QED
    BY <2>1, <2>2, <1>3
<1> HIDE DEF R
<1>20. Typed(r)
  <2>1. \A d \in Dirs : s.ticket[d] <= s.sequence
    BY DEF PaneInv, Typed
  <2> QED
    BY <2>1, <1>1, <1>3, <1>4, <1>6 DEF Typed
<1>21. Numbered(r)
  <2>1. ASSUME NEW t \in r.tasks, NEW p \in Panes, NEW n \in Nat, Asks(t, p, n)
        PROVE  n <= r.req[p]
    <3>1. CASE t \in s.tasks
      BY <3>1, <2>1, <1>12, <1>14
    <3>2. CASE t \in NewTasks(s)
      BY <3>2, <2>1, <1>7, <1>9, <1>5
    <3> QED
      BY <3>1, <3>2, <1>3
  <2>2. ASSUME NEW t \in r.tasks, t.kind = "refresh"
        PROVE  1 <= t.ticket /\ t.ticket <= r.sequence
    BY <2>2, <1>3, <1>4, <1>7, <1>10, <1>12
  <2> QED
    BY <2>1, <2>2 DEF Numbered
<1>22. Sole(r)
  <2>0. Sole(s)
    BY DEF PaneInv
  <2>1. ASSUME NEW t \in r.tasks, NEW u \in r.tasks, NEW p \in Panes, NEW n \in Nat,
               Asks(t, p, n), Asks(u, p, n)
        PROVE  t = u
    <3>1. CASE t \in s.tasks /\ u \in s.tasks
      BY <3>1, <2>0, <2>1 DEF Sole
    <3>2. CASE t \in NewTasks(s) /\ u \in NewTasks(s)
      BY <3>2, <2>1, <1>7, <1>9
    <3>3. CASE t \in s.tasks /\ u \in NewTasks(s)
      BY <3>3, <2>1, <1>7, <1>12, <1>14
    <3>4. CASE t \in NewTasks(s) /\ u \in s.tasks
      BY <3>4, <2>1, <1>7, <1>12, <1>14
    <3> QED
      BY <3>1, <3>2, <3>3, <3>4, <1>3
  <2>2. ASSUME NEW t \in r.tasks, NEW u \in r.tasks,
               t.kind = "refresh", u.kind = "refresh", t.dir = u.dir, t.ticket = u.ticket
        PROVE  t = u
    <3>1. CASE t \in s.tasks /\ u \in s.tasks
      BY <3>1, <2>0, <2>2 DEF Sole
    <3>2. CASE t \in NewTasks(s) /\ u \in NewTasks(s)
      BY <3>2, <2>2, <1>7
    <3>3. CASE t \in s.tasks /\ u \in NewTasks(s)
      BY <3>3, <2>2, <1>4, <1>7, <1>10, <1>12
    <3>4. CASE t \in NewTasks(s) /\ u \in s.tasks
      BY <3>4, <2>2, <1>4, <1>7, <1>10, <1>12
    <3> QED
      BY <3>1, <3>2, <3>3, <3>4, <1>3
  <2> QED
    BY <2>1, <2>2 DEF Sole
<1>23. Awaits(r, {})
  <2>1. ASSUME NEW p \in Visible(r) PROVE AwaitsOwn(r, p)
    <3>1. p \in Panes /\ p \in Visible(s) /\ AwaitsOwn(s, p) /\ r.loading[p] = s.loading[p]
      BY <2>1, <1>2, <1>3 DEF PaneInv, Awaits
    <3>2. ASSUME NEW t \in r.tasks, Asks(t, p, r.req[p])
          PROVE  t.dir = Tab(s, p) /\ (t.kind = "load" => s.loading[p])
      BY <3>1, <3>2, <1>7, <1>9, <1>15 DEF AwaitsOwn
    <3>3. ASSUME s.loading[p], Tab(s, p) # Storage
          PROVE  \E t \in r.tasks : t.kind = "load" /\ Asks(t, p, r.req[p])
      <4>1. r.req[p] = s.req[p]
        BY <3>1, <3>3, <1>5, <1>11
      <4> QED
        BY <4>1, <3>1, <3>3, <1>3 DEF AwaitsOwn
    <3>4. s.loading[p] /\ Tab(s, p) = Storage => r.storage # "idle"
      BY <3>1, <1>3 DEF AwaitsOwn
    <3> QED
      BY <3>1, <3>2, <3>3, <3>4, <1>2 DEF AwaitsOwn
  <2> QED
    BY <2>1 DEF Awaits
<1>24. Shows(r)
  <2>1. Shows(s)
    BY DEF PaneInv
  <2> QED
    BY <2>1, <1>2, <1>3 DEF Shows
<1>25. Dated(r, now)
  <2>1. Dated(s, now)
    BY DEF PaneInv
  <2> QED
    BY <2>1, <1>2, <1>3, <1>13 DEF Dated
<1>26. Ordered(r)
  <2>1. Ordered(s)
    BY DEF PaneInv
  <2> QED
    BY <2>1, <1>2, <1>13, <1>15 DEF Ordered
<1>27. Fresh(r, now, known, {})
  <2>1. Fresh(s, now, known, {})
    BY DEF PaneInv
  <2>2. ASSUME NEW t \in r.tasks, Current(r, t), Outdated(t, now)
        PROVE  t.dir \in known \cup r.pending
    <3>1. t \in s.tasks /\ t.kind = "refresh" /\ t.ticket = r.ticket[t.dir] /\ t.dir \in Dirs
      BY <2>2, <1>3, <1>10, <1>13 DEF Current
    <3>2. t.dir \notin R
      BY <3>1, <1>4, <1>6, <1>10, <1>12
    <3>3. Current(s, t)
      BY <3>1, <3>2, <1>6 DEF Current
    <3> QED
      BY <3>1, <3>2, <3>3, <2>1, <2>2, <1>3 DEF Fresh
  <2>3. ASSUME NEW p \in Visible(r), Tab(r, p) \in Dirs
        PROVE  FreshPane(r, p, now, known)
    <3> DEFINE d == Tab(s, p)
    <3>1. d \in Dirs /\ Tab(r, p) = d /\ p \in Visible(s) /\ p \in Panes
          /\ FreshPane(s, p, now, known) /\ r.loading[p] = s.loading[p]
          /\ AwaitsOwn(s, p)
      BY <2>1, <2>3, <1>2, <1>3 DEF Fresh, PaneInv, Awaits
    <3>2. ASSUME NEW t \in r.tasks, t.kind = "load", Asks(t, p, r.req[p]), Outdated(t, now)
          PROVE  t.dir \in known \cup r.pending
      <4>1. t \in s.tasks /\ Asks(t, p, s.req[p]) /\ d \notin R
        BY <3>1, <3>2, <1>13, <1>15
      <4>2. t.dir = d
        BY <4>1, <3>1 DEF AwaitsOwn
      <4> QED
        BY <4>1, <4>2, <3>1, <3>2, <1>3 DEF FreshPane
    <3>3. ASSUME ~s.loading[p], Held(s, p).of = d, Held(s, p).at < now[d]
          PROVE  Refreshed(r, p, now, known)
      <4>1. CASE d \in R
        <5> DEFINE u == NewTask(s, d)
        <5>1. u \in r.tasks /\ u \in NewTasks(s) /\ u.dir = d
          BY <4>1, <1>3, <1>8
        <5>2. Current(r, u) /\ u.result = Unread
          BY <5>1, <1>6, <1>7, <3>1, <4>1 DEF Current
        <5>3. Asks(u, p, r.req[p])
          BY <5>1, <1>5, <1>7, <1>9, <1>14, <3>1, <4>1
        <5> QED
          BY <5>1, <5>2, <5>3, <3>1 DEF Refreshed
      <4>2. CASE d \notin R
        <5>1. Refreshed(s, p, now, known)
          BY <3>1, <3>3 DEF FreshPane
        <5>2. r.req[p] = s.req[p] /\ r.ticket[d] = s.ticket[d]
              /\ (d \in s.pending => d \in r.pending)
          BY <3>1, <4>2, <1>3, <1>5, <1>6
        <5> QED
          BY <5>1, <5>2, <3>1, <1>3 DEF Refreshed, Current
      <4> QED
        BY <4>1, <4>2
    <3> QED
      BY <3>1, <3>2, <3>3, <1>2 DEF FreshPane
  <2> QED
    BY <2>2, <2>3 DEF Fresh
<1>28. ASSUME NEW d \in Dirs, r.ticket[d] # s.ticket[d]
       PROVE  Newly(r, d)
  <2>1. d \in R /\ r.ticket[d] = s.sequence + 1
    BY <1>28, <1>6
  <2>2. ASSUME NEW p \in Showing(r, d)
        PROVE  \E t \in r.tasks : /\ Current(r, t) /\ t.dir = d /\ Asks(t, p, r.req[p])
                                  /\ t.result = Unread
    <3> DEFINE u == NewTask(s, d)
    <3>1. u \in r.tasks /\ u \in NewTasks(s) /\ u.dir = d
      BY <2>1, <1>3, <1>8
    <3>2. p \in Panes /\ p \in Showing(s, d) /\ p \in Visible(s) /\ Tab(s, p) = d
      BY <2>2, <1>2, <1>9 DEF Showing
    <3>3. Asks(u, p, r.req[p])
      BY <3>1, <3>2, <2>1, <1>5, <1>7, <1>14
    <3>4. Current(r, u) /\ u.result = Unread
      BY <3>1, <2>1, <1>7 DEF Current
    <3> QED
      BY <3>1, <3>3, <3>4
  <2>3. ASSUME NEW t \in r.tasks, Current(r, t), t.dir = d
        PROVE  t.result = Unread
    <3>1. t.kind = "refresh" /\ t.ticket = s.sequence + 1
      BY <2>1, <2>3 DEF Current
    <3> QED
      BY <3>1, <1>3, <1>4, <1>7, <1>10, <1>12
  <2> QED
    BY <2>1, <2>2, <2>3, <1>4 DEF Newly
<1>29. Unattended(r) = {}
  <2>1. ASSUME NEW d \in Unattended(r) PROVE FALSE
    <3>1. /\ d \in r.pending /\ r.ticket[d] = 0 /\ ~LoadComing(r) /\ d \in Folders(r)
          /\ \A p \in Showing(r, d) : ~r.searching[p]
      BY <2>1 DEF Unattended, Forgotten
    <3>2. d \in s.pending /\ d \notin R /\ d \in Dirs /\ s.ticket[d] = 0
      BY <3>1, <1>1, <1>3, <1>6, FieldTypes
    <3>3. Showing(s, d) # {} /\ \A p \in Showing(s, d) : ~s.searching[p]
      BY <3>1, <1>2, <1>3 DEF Folders
    <3>4. PICK p \in Showing(s, d) : s.loading[p]
      BY <3>2, <3>3 DEF R, Ready, Blocked
    <3>5. p \in Visible(s) /\ p \in Panes /\ Tab(s, p) = d
      BY <3>4, <1>2 DEF Showing
    <3>6. AwaitsOwn(s, p) /\ d # Storage
      BY <3>2, <3>5, RefreshAssumption DEF PaneInv, Awaits
    <3>7. PICK t \in s.tasks : t.kind = "load" /\ Asks(t, p, s.req[p])
      BY <3>4, <3>5, <3>6 DEF AwaitsOwn
    <3>8. r.req[p] = s.req[p]
      BY <3>2, <3>5, <1>5
    <3>9. t \in r.tasks /\ t.pane = p /\ t.req = r.req[t.pane]
      BY <3>7, <3>8, <1>3 DEF Asks
    <3> QED
      BY <3>1, <3>7, <3>9 DEF LoadComing
  <2> QED
    BY <2>1
<1> QED
  BY <1>20, <1>21, <1>22, <1>23, <1>24, <1>25, <1>26, <1>27, <1>28, <1>29 DEF PaneInv

LEMMA NothingReady ==
  ASSUME NEW s, NEW now \in Versions, NEW known, PaneInv(s, now, known, {}), Ready(s) = {}
  PROVE  Unattended(s) = {}
<1>1. s \in Window
  BY DEF PaneInv, Typed
<1>2. ASSUME NEW d \in Unattended(s) PROVE FALSE
  <2>1. /\ d \in s.pending /\ s.ticket[d] = 0 /\ ~LoadComing(s) /\ d \in Folders(s)
        /\ \A p \in Showing(s, d) : ~s.searching[p]
    BY <1>2 DEF Unattended, Forgotten
  <2>2. d \in Dirs /\ Showing(s, d) # {}
    BY <2>1 DEF Folders
  <2>3. PICK p \in Showing(s, d) : s.loading[p]
    BY <2>1, <2>2 DEF Ready, Blocked
  <2>4. p \in Visible(s) /\ p \in Panes /\ Tab(s, p) = d
    BY <1>1, <2>3, ViewTypes DEF Showing
  <2>5. AwaitsOwn(s, p) /\ d # Storage
    BY <2>2, <2>4, RefreshAssumption DEF PaneInv, Awaits
  <2>6. PICK t \in s.tasks : t.kind = "load" /\ Asks(t, p, s.req[p])
    BY <2>3, <2>4, <2>5 DEF AwaitsOwn
  <2> QED
    BY <2>1, <2>6 DEF Asks, LoadComing
<1> QED
  BY <1>2

\* The end of every handler that may start a refresh: what is left pending is waited for.
LEMMA StartReadyKeeps ==
  ASSUME NEW s, NEW now \in Versions, NEW known, PaneInv(s, now, known, {})
  PROVE  LET r == StartReady(s) IN
         /\ PaneInv(r, now, known, {})
         /\ \A d \in Dirs : r.ticket[d] \in {0, s.ticket[d]} \/ Newly(r, d)
         /\ Unattended(r) = {}
         /\ SameView(s, r) /\ SameLists(s, r)
         /\ r.loading = s.loading /\ r.searching = s.searching
<1> DEFINE k == Retain(s)
           r == StartReady(s)
<1>1. s \in Window
  BY DEF PaneInv, Typed
<1>2. Thins(s, k, Folders(s))
  BY <1>1, RetainThins
<1>3. k \in Window /\ (Ready(k) = {} => r = k) /\ (Ready(k) # {} => Starting(k, r))
  BY <1>1, StartReadyIs
<1> HIDE DEF k, r
<1>4. \A p \in Visible(s) \ {} : Tab(s, p) \in Dirs => Tab(s, p) \in Folders(s)
  BY <1>1, RefreshesHere
<1>5. PaneInv(k, now, known, {})
  BY <1>2, <1>4, ThinsKeeps
<1>6. /\ \A d \in Dirs : k.ticket[d] \in {0, s.ticket[d]}
      /\ SameView(s, k) /\ SameLists(s, k) /\ k.loading = s.loading /\ k.searching = s.searching
  BY <1>2 DEF Thins, SameWaits, Left, Cut
<1>7. CASE Ready(k) = {}
  BY <1>3, <1>5, <1>6, <1>7, NothingReady DEF r
<1>8. CASE Ready(k) # {}
  <2>1. Starting(k, r)
    BY <1>3, <1>8
  <2>2. /\ PaneInv(r, now, known, {}) /\ Unattended(r) = {}
        /\ \A d \in Dirs : r.ticket[d] # k.ticket[d] => Newly(r, d)
    BY <1>5, <2>1, StartingKeeps
  <2>3. SameView(k, r) /\ SameLists(k, r) /\ r.loading = k.loading /\ r.searching = k.searching
    BY <2>1 DEF Starting
  <2>4. SameView(s, r) /\ SameLists(s, r) /\ r.loading = s.loading /\ r.searching = s.searching
    BY <2>3, <1>6 DEF SameView, SameLists
  <2>5. \A d \in Dirs : r.ticket[d] \in {0, s.ticket[d]} \/ Newly(r, d)
    BY <2>2, <1>6
  <2> QED
    BY <2>2, <2>4, <2>5 DEF r
<1> QED
  BY <1>7, <1>8

-----------------------------------------------------------------------------
(* Loads.                                                                  *)

\* Pane p gives up its load.
GivesUp(s, r, p) ==
  /\ r \in Window /\ SameView(s, r) /\ SameLists(s, r) /\ SameWaits(s, r)
  /\ r.sequence = s.sequence /\ r.searching = s.searching
  /\ r.ticket = s.ticket /\ r.pending = s.pending
  /\ r.tasks \subseteq s.tasks
  /\ \A t \in s.tasks : (t.kind = "load" /\ t.pane = p) \/ t \in r.tasks

LEMMA WithoutGivesUp ==
  ASSUME NEW s \in Window, NEW p
  PROVE  GivesUp(s, Without(s, {t \in s.tasks : t.kind = "load" /\ t.pane = p}), p)
<1> DEFINE aborted == {t \in s.tasks : t.kind = "load" /\ t.pane = p}
           left == {t \in s.tasks : t.result # Unread \/ t \notin aborted}
           r == Without(s, aborted)
<1>1. r = [s EXCEPT !.tasks = left]
  BY DEF Without
<1>2. /\ left \subseteq s.tasks
      /\ \A t \in s.tasks : (t.kind = "load" /\ t.pane = p) \/ t \in left
  OBVIOUS
<1> HIDE DEF left, r
<1>3. /\ r \in Window /\ r.tasks = left /\ r.ticket = s.ticket /\ r.pending = s.pending
      /\ SameView(s, r) /\ SameLists(s, r) /\ SameWaits(s, r)
      /\ r.sequence = s.sequence /\ r.searching = s.searching
  BY <1>1, <1>2, FieldTypes DEF Window, SameView, SameLists, SameWaits
<1>4. GivesUp(s, r, p)
  BY <1>2, <1>3 DEF GivesUp
<1> QED
  BY <1>4 DEF r

LEMMA GivesUpKeeps ==
  ASSUME NEW s, NEW r, NEW p \in Panes, NEW now \in Versions, NEW known,
         PaneInv(s, now, known, {p}), GivesUp(s, r, p)
  PROVE  PaneInv(r, now, known, {p})
<1>1. s \in Window /\ r \in Window /\ SameView(s, r) /\ SameLists(s, r)
  BY DEF PaneInv, Typed, GivesUp
<1>2. /\ Visible(r) = Visible(s) /\ Visible(s) \subseteq Panes
      /\ \A q : Tab(r, q) = Tab(s, q) /\ Held(r, q) = Held(s, q)
  BY <1>1, SameSight, SameHeld, ViewTypes
<1>3. /\ r.req = s.req /\ r.loading = s.loading /\ r.storage = s.storage /\ r.cache = s.cache
      /\ r.entries = s.entries /\ r.folder = s.folder /\ r.sequence = s.sequence
      /\ r.tasks \subseteq s.tasks /\ r.ticket = s.ticket /\ r.pending = s.pending
      /\ \A t \in s.tasks : (t.kind = "load" /\ t.pane = p) \/ t \in r.tasks
  BY DEF GivesUp, SameLists, SameWaits
<1>4. \A t \in s.tasks, q \in Panes, n \in Nat :
        (q # p /\ Asks(t, q, n)) \/ Current(s, t) => t \in r.tasks
  BY <1>3 DEF Asks, Current
<1>5. Typed(r) /\ Numbered(r) /\ Sole(r)
  <2>1. Typed(s) /\ Numbered(s) /\ Sole(s)
    BY DEF PaneInv
  <2>2. Typed(r)
    BY <2>1, <1>1, <1>3 DEF Typed
  <2>3. Numbered(r)
    BY <2>1, <1>3 DEF Numbered
  <2>4. Sole(r)
    BY <2>1, <1>3 DEF Sole
  <2> QED
    BY <2>2, <2>3, <2>4
<1>6. ASSUME NEW q \in Visible(r) \ {p}
      PROVE  /\ q \in Panes /\ q # p /\ s.req[q] \in Nat /\ AwaitsOwn(s, q)
             /\ \A t \in s.tasks : Asks(t, q, s.req[q]) => t \in r.tasks
  <2>1. q \in Visible(s) \ {p} /\ q \in Panes /\ s.req[q] \in Nat
    BY <1>1, <1>2, <1>6, FieldTypes
  <2>2. AwaitsOwn(s, q)
    BY <2>1 DEF PaneInv, Awaits
  <2> QED
    BY <2>1, <2>2, <1>4
<1>7. Awaits(r, {p})
  <2>1. ASSUME NEW q \in Visible(r) \ {p} PROVE AwaitsOwn(r, q)
    BY <1>2, <1>3, <1>6, <2>1 DEF AwaitsOwn
  <2> QED
    BY <2>1 DEF Awaits
<1>8. Shows(r)
  <2>1. Shows(s)
    BY DEF PaneInv
  <2> QED
    BY <2>1, <1>2, <1>3 DEF Shows
<1>9. Dated(r, now) /\ Ordered(r)
  <2>1. Dated(s, now) /\ Ordered(s)
    BY DEF PaneInv
  <2>2. Dated(r, now)
    BY <2>1, <1>2, <1>3 DEF Dated
  <2>3. Ordered(r)
    BY <2>1, <1>2, <1>3 DEF Ordered
  <2> QED
    BY <2>2, <2>3
<1>10. Fresh(r, now, known, {p})
  <2>1. Fresh(s, now, known, {p})
    BY DEF PaneInv
  <2>2. \A t \in r.tasks : Current(r, t) => t \in s.tasks /\ Current(s, t)
    BY <1>3 DEF Current
  <2>3. ASSUME NEW q \in Visible(r) \ {p}, Tab(r, q) \in Dirs
        PROVE  FreshPane(r, q, now, known)
    <3>1. FreshPane(s, q, now, known)
      BY <2>1, <2>3, <1>2 DEF Fresh
    <3>2. Refreshed(s, q, now, known) => Refreshed(r, q, now, known)
      BY <1>2, <1>3, <1>6, <2>3 DEF Refreshed, Current
    <3> QED
      BY <3>1, <3>2, <1>2, <1>3 DEF FreshPane
  <2> QED
    BY <2>1, <2>2, <2>3, <1>3 DEF Fresh
<1> QED
  BY <1>5, <1>7, <1>8, <1>9, <1>10 DEF PaneInv

\* A listing may have moved behind a search or back; and what the invariant does not
\* speak of may have changed.
Shuffled(s, r) ==
  /\ r \in Window /\ SameView(s, r) /\ SameWaits(s, r) /\ r.cache = s.cache
  /\ \A q \in Panes : Held(r, q) = Held(s, q)
  /\ \A q \in Visible(s) : Tab(s, q) \notin Dirs =>
       r.entries[q] = s.entries[q] /\ r.folder[q] = s.folder[q]
  /\ r.sequence = s.sequence /\ r.ticket = s.ticket /\ r.pending = s.pending
  /\ r.tasks = s.tasks

LEMMA ShuffledKeeps ==
  ASSUME NEW s, NEW r, NEW now, NEW known, NEW except,
         PaneInv(s, now, known, except), Shuffled(s, r)
  PROVE  PaneInv(r, now, known, except)
<1>1. s \in Window /\ SameView(s, r)
  BY DEF PaneInv, Typed, Shuffled
<1>2. /\ Visible(r) = Visible(s) /\ Visible(s) \subseteq Panes
      /\ \A q : Tab(r, q) = Tab(s, q)
      /\ \A q \in Panes : Held(r, q) = Held(s, q)
  BY <1>1, SameSight, ViewTypes DEF Shuffled
<1>3. /\ r.req = s.req /\ r.loading = s.loading /\ r.storage = s.storage /\ r.cache = s.cache
      /\ r.sequence = s.sequence
      /\ r.tasks = s.tasks /\ r.ticket = s.ticket /\ r.pending = s.pending /\ r \in Window
  BY DEF Shuffled, SameWaits
<1>4. Typed(r) /\ Numbered(r) /\ Sole(r)
  BY <1>3 DEF PaneInv, Typed, Numbered, Sole
<1>5. Awaits(r, except)
  BY <1>2, <1>3 DEF PaneInv, Awaits, AwaitsOwn
<1>6. Shows(r)
  <2>1. Shows(s)
    BY DEF PaneInv
  <2>2. \A q \in Visible(s) : q \in Panes /\ (Tab(s, q) \notin Dirs =>
          r.entries[q] = s.entries[q] /\ r.folder[q] = s.folder[q])
    BY <1>2 DEF Shuffled
  <2> QED
    BY <2>1, <2>2, <1>2, <1>3 DEF Shows
<1>7. Dated(r, now) /\ Ordered(r)
  BY <1>2, <1>3 DEF PaneInv, Dated, Ordered
<1>8. Fresh(r, now, known, except)
  <2>1. Fresh(s, now, known, except)
    BY DEF PaneInv
  <2>2. \A q \in Visible(s) : FreshPane(s, q, now, known) => FreshPane(r, q, now, known)
    BY <1>2, <1>3 DEF FreshPane, Refreshed, Current
  <2> QED
    BY <2>1, <2>2, <1>2, <1>3 DEF Fresh, Current
<1> QED
  BY <1>4, <1>5, <1>6, <1>7, <1>8 DEF PaneInv

\* Only what the invariant does not speak of has changed.
Alike(s, r) ==
  /\ r \in Window /\ SameView(s, r) /\ SameLists(s, r) /\ SameWaits(s, r)
  /\ r.sequence = s.sequence /\ r.ticket = s.ticket /\ r.pending = s.pending
  /\ r.tasks = s.tasks

LEMMA AlikeKeeps ==
  ASSUME NEW s, NEW r, NEW now, NEW known, NEW except,
         PaneInv(s, now, known, except), Alike(s, r)
  PROVE  PaneInv(r, now, known, except)
<1>1. Shuffled(s, r)
  BY SameHeld DEF Shuffled, Alike, SameLists
<1> QED
  BY <1>1, ShuffledKeeps

LEMMA Excepted ==
  ASSUME NEW s, NEW now, NEW known, NEW except, PaneInv(s, now, known, {})
  PROVE  PaneInv(s, now, known, except)
BY DEF PaneInv, Awaits, Fresh

\* Pane p takes a new number; what it waits for now is what `loads` holds.
Asking(s, r, p, loads) ==
  /\ r \in Window /\ SameView(s, r) /\ r.searching = s.searching /\ r.cache = s.cache
  /\ r.req = [s.req EXCEPT ![p] = @ + 1]
  /\ \A q \in Panes \ {p} : /\ r.loading[q] = s.loading[q] /\ r.entries[q] = s.entries[q]
                            /\ r.folder[q] = s.folder[q]
  /\ s.storage # "idle" => r.storage # "idle"
  /\ r.sequence = s.sequence /\ r.ticket = s.ticket /\ r.pending = s.pending
  /\ r.tasks = s.tasks \cup loads

Loading(s, r, p, d) ==
  /\ Asking(s, r, p, {[kind |-> "load", pane |-> p, req |-> s.req[p] + 1, dir |-> d,
                       result |-> Unread]})
  /\ SameLists(s, r) /\ r.loading[p]

LoadingStorage(s, r, p) ==
  /\ Asking(s, r, p, {}) /\ r.storage # "idle"
  /\ r.folder[p] = None /\ r.entries[p] = IF s.cache = Empty THEN s.entries[p] ELSE s.cache

LEMMA LoadFolderIs ==
  ASSUME NEW s \in Window, NEW p \in Panes, NEW d \in Dirs
  PROVE  Loading(s, LoadFolder(s, p, d), p, d)
<1> DEFINE t == [kind |-> "load", pane |-> p, req |-> s.req[p] + 1, dir |-> d, result |-> Unread]
           r == LoadFolder(s, p, d)
           req == [s.req EXCEPT ![p] = @ + 1]
           loading == [s.loading EXCEPT ![p] = TRUE]
           tasks == s.tasks \cup {t}
<1>1. r = [s EXCEPT !.req = req, !.loading = loading, !.tasks = tasks]
  BY FieldTypes DEF LoadFolder, Window
<1>2. t \in Load
  BY FieldTypes DEF Load, Outcome
<1>3. req \in [Panes -> Nat] /\ loading \in [Panes -> BOOLEAN] /\ tasks \in SUBSET (Load \cup Refresh)
      /\ loading[p] /\ \A q \in Panes \ {p} : loading[q] = s.loading[q]
  BY <1>2, FieldTypes
<1> HIDE DEF r, req, loading, tasks
<1>4. /\ r \in Window /\ SameView(s, r) /\ SameLists(s, r) /\ r.searching = s.searching
      /\ r.req = req /\ r.loading = loading /\ r.tasks = tasks /\ r.storage = s.storage
      /\ r.sequence = s.sequence /\ r.ticket = s.ticket /\ r.pending = s.pending
  BY <1>1, <1>3, FieldTypes DEF Window, SameView, SameLists
<1>5. r.cache = s.cache /\ r.entries = s.entries /\ r.folder = s.folder
  BY <1>4 DEF SameLists
<1> QED
  BY <1>3, <1>4, <1>5 DEF Loading, Asking, r, req, tasks

LEMMA LoadStorageIs ==
  ASSUME NEW s \in Window, NEW p \in Panes
  PROVE  LoadingStorage(s, LoadStorage(s, p), p)
<1> DEFINE r == LoadStorage(s, p)
           req == [s.req EXCEPT ![p] = @ + 1]
           loading == [s.loading EXCEPT ![p] = (s.cache = Empty)]
           folder == [s.folder EXCEPT ![p] = None]
           entries == [s.entries EXCEPT ![p] = IF s.cache = Empty THEN @ ELSE s.cache]
           storage == IF s.storage = "idle" THEN "active" ELSE "pending"
           n == [s EXCEPT !.req = req, !.folder = folder, !.loading = loading, !.entries = entries]
<1>1. /\ req \in [Panes -> Nat] /\ loading \in [Panes -> BOOLEAN]
      /\ folder \in [Panes -> List \cup {None}] /\ folder[p] = None
      /\ entries \in [Panes -> List]
      /\ entries[p] = IF s.cache = Empty THEN s.entries[p] ELSE s.cache
      /\ \A q \in Panes \ {p} : /\ loading[q] = s.loading[q] /\ entries[q] = s.entries[q]
                                /\ folder[q] = s.folder[q]
      /\ storage \in {"active", "pending"}
  BY FieldTypes
<1>2. r = RefreshStorage(n)
  BY FieldTypes DEF LoadStorage, Window
<1> HIDE DEF req, loading, folder, entries, r
<1>3. n \in Window /\ n.storage = s.storage
  BY <1>1, FieldTypes DEF Window
<1>4. r = [n EXCEPT !.storage = storage]
  BY <1>2, <1>3 DEF RefreshStorage
<1> HIDE DEF storage
<1>5. /\ r \in Window /\ r.req = req /\ r.folder = folder /\ r.loading = loading
      /\ r.entries = entries /\ r.storage = storage /\ SameView(s, r)
      /\ r.searching = s.searching /\ r.cache = s.cache /\ r.sequence = s.sequence
      /\ r.ticket = s.ticket /\ r.pending = s.pending /\ r.tasks = s.tasks
  BY <1>1, <1>3, <1>4, FieldTypes DEF Window, SameView
<1>6. storage # "idle"
  BY <1>1
<1> HIDE DEF n
<1> QED
  BY <1>1, <1>5, <1>6 DEF LoadingStorage, Asking, req, r

\* Whatever p waited for is void once it has a new number.
LEMMA AskingKeeps ==
  ASSUME NEW s, NEW r, NEW p \in Panes, NEW now \in Versions, NEW known, NEW loads,
         PaneInv(s, now, known, {p}), Asking(s, r, p, loads),
         \A t \in loads : /\ t.kind = "load" /\ t.pane = p /\ t.req = s.req[p] + 1
                          /\ t.dir = Tab(s, p) /\ t.result = Unread,
         \A t, u \in loads : t = u,
         r.loading[p] => IF Tab(s, p) = Storage THEN r.storage # "idle" ELSE loads # {},
         loads # {} \/ Tab(s, p) \in Dirs => r.loading[p],
         Past(Held(r, p), now),
         p \in Visible(s) =>
           IF Tab(s, p) \in Dirs THEN Held(r, p).of \in {Tab(s, p), None}
           ELSE /\ r.folder[p] = None
                /\ r.cache \in {Empty, Drives} => r.entries[p] \in {Empty, Drives}
  PROVE  PaneInv(r, now, known, {})
<1>1. s \in Window /\ r \in Window /\ SameView(s, r)
  BY DEF PaneInv, Typed, Asking
<1>2. /\ Visible(r) = Visible(s) /\ Visible(s) \subseteq Panes
      /\ \A q : Tab(r, q) = Tab(s, q)
  BY <1>1, SameSight, ViewTypes
<1>3. /\ r.cache = s.cache /\ r.req = [s.req EXCEPT ![p] = @ + 1]
      /\ \A q \in Panes \ {p} : /\ r.loading[q] = s.loading[q] /\ r.entries[q] = s.entries[q]
                                /\ r.folder[q] = s.folder[q]
      /\ s.storage # "idle" => r.storage # "idle"
      /\ r.sequence = s.sequence /\ r.ticket = s.ticket /\ r.pending = s.pending
      /\ r.tasks = s.tasks \cup loads
  BY DEF Asking
<1>4. \A q \in Panes \ {p} : Held(r, q) = Held(s, q) /\ r.req[q] = s.req[q]
  BY <1>1, <1>3, FieldTypes DEF Held
<1>5. /\ r.req[p] = s.req[p] + 1 /\ r.req[p] \in Nat /\ s.req[p] \in Nat
      /\ \A q \in Panes : s.req[q] \in Nat /\ r.req[q] \in Nat /\ s.req[q] <= r.req[q]
  BY <1>1, <1>3, FieldTypes
<1>6. \A t \in loads, q \in Panes, n \in Nat :
        /\ Asks(t, q, n) <=> q = p /\ n = s.req[p] + 1
        /\ ~HasRead(t) /\ ~Outdated(t, now) /\ ~Current(r, t) /\ t.kind # "refresh"
  BY DEF Asks, HasRead, Outdated, Current
<1>7. \A t \in s.tasks : /\ \A q \in Panes, n \in Nat : Asks(t, q, n) => n <= s.req[q]
                         /\ t.kind = "refresh" => 1 <= t.ticket /\ t.ticket <= s.sequence
  BY DEF PaneInv, Numbered
<1>8. \A t \in s.tasks : ~Asks(t, p, r.req[p])
  BY <1>5, <1>7
<1>9. Typed(r) /\ Numbered(r)
  <2>1. Typed(r)
    BY <1>1, <1>3 DEF PaneInv, Typed
  <2>2. ASSUME NEW t \in r.tasks, NEW q \in Panes, NEW n \in Nat, Asks(t, q, n)
        PROVE  n <= r.req[q]
    BY <2>2, <1>3, <1>5, <1>6, <1>7
  <2>3. Numbered(r)
    BY <2>2, <1>3, <1>6, <1>7 DEF Numbered
  <2> QED
    BY <2>1, <2>3
<1>10. Sole(r)
  <2>1. Sole(s)
    BY DEF PaneInv
  <2>2. ASSUME NEW t \in r.tasks, NEW u \in r.tasks, NEW q \in Panes, NEW n \in Nat,
               Asks(t, q, n), Asks(u, q, n)
        PROVE  t = u
    <3>1. CASE t \in s.tasks /\ u \in s.tasks
      BY <3>1, <2>1, <2>2 DEF Sole
    <3>2. CASE t \in loads \/ u \in loads
      <4>1. q = p /\ n = r.req[p]
        BY <3>2, <2>2, <1>5, <1>6
      <4> QED
        BY <4>1, <2>2, <1>3, <1>8
    <3> QED
      BY <3>1, <3>2, <1>3
  <2>3. ASSUME NEW t \in r.tasks, NEW u \in r.tasks,
               t.kind = "refresh", u.kind = "refresh", t.dir = u.dir, t.ticket = u.ticket
        PROVE  t = u
    BY <2>1, <2>3, <1>3 DEF Sole
  <2> QED
    BY <2>2, <2>3 DEF Sole
<1>11. Awaits(r, {})
  <2>1. ASSUME NEW q \in Visible(r) PROVE AwaitsOwn(r, q)
    <3>1. CASE q = p
      <4>1. \A t \in r.tasks : Asks(t, p, r.req[p]) => t \in loads
        BY <1>3, <1>8
      <4>2. \A t \in loads : t \in r.tasks /\ Asks(t, p, r.req[p])
        BY <1>3, <1>5, <1>6
      <4>3. /\ \A t \in r.tasks : Asks(t, p, r.req[p]) => t.dir = Tab(r, p)
            /\ \A t \in r.tasks : t.kind = "load" /\ Asks(t, p, r.req[p]) => r.loading[p]
        BY <4>1, <1>2
      <4>4. r.loading[p] =>
              IF Tab(r, p) = Storage THEN r.storage # "idle"
              ELSE \E t \in r.tasks : t.kind = "load" /\ Asks(t, p, r.req[p])
        BY <4>2, <1>2
      <4> QED
        BY <3>1, <4>3, <4>4 DEF AwaitsOwn
    <3>2. CASE q # p
      <4>1. q \in Panes /\ q \in Visible(s) \ {p}
        BY <2>1, <3>2, <1>2
      <4>2. AwaitsOwn(s, q) /\ r.req[q] = s.req[q] /\ r.loading[q] = s.loading[q]
        BY <4>1, <1>3, <1>4 DEF PaneInv, Awaits
      <4>3. \A t \in r.tasks : Asks(t, q, r.req[q]) => t \in s.tasks
        BY <3>2, <4>1, <1>3, <1>5, <1>6
      <4> QED
        BY <4>2, <4>3, <1>2, <1>3 DEF AwaitsOwn
    <3> QED
      BY <3>1, <3>2
  <2> QED
    BY <2>1 DEF Awaits
<1>12. Shows(r)
  <2>1. ASSUME NEW q \in Visible(r)
        PROVE  IF Tab(r, q) \in Dirs THEN Held(r, q).of \in {Tab(r, q), None}
               ELSE /\ r.folder[q] = None
                    /\ r.cache \in {Empty, Drives} => r.entries[q] \in {Empty, Drives}
    <3>1. CASE q = p
      BY <2>1, <3>1, <1>2
    <3>2. CASE q # p
      <4>1. q \in Panes \ {p} /\ q \in Visible(s)
        BY <2>1, <3>2, <1>2
      <4>2. Shows(s)
        BY DEF PaneInv
      <4> QED
        BY <4>1, <4>2, <1>2, <1>3, <1>4 DEF Shows
    <3> QED
      BY <3>1, <3>2
  <2> QED
    BY <2>1 DEF Shows
<1>13. Dated(r, now)
  <2>1. Dated(s, now)
    BY DEF PaneInv
  <2>2. \A q \in Panes : Past(Held(r, q), now)
    BY <2>1, <1>4 DEF Dated
  <2> QED
    BY <2>1, <2>2, <1>3, <1>6 DEF Dated
<1>14. Ordered(r)
  <2>1. ASSUME NEW t \in r.tasks, NEW q \in Panes,
               Asks(t, q, r.req[q]), HasRead(t), Held(r, q).of = t.dir
        PROVE  Held(r, q).at <= t.result
    <3>1. t \in s.tasks
      BY <2>1, <1>3, <1>5, <1>6
    <3>2. q # p
      BY <2>1, <3>1, <1>8
    <3> QED
      BY <2>1, <3>1, <3>2, <1>4 DEF PaneInv, Ordered
  <2> QED
    BY <2>1 DEF Ordered
<1>15. Fresh(r, now, known, {})
  <2>1. Fresh(s, now, known, {p})
    BY DEF PaneInv
  <2>2. ASSUME NEW t \in r.tasks, Current(r, t), Outdated(t, now)
        PROVE  t.dir \in known \cup r.pending
    <3>1. t \in s.tasks
      BY <2>2, <1>3, <1>5, <1>6
    <3> QED
      BY <3>1, <2>1, <2>2, <1>3 DEF Fresh, Current
  <2>3. ASSUME NEW q \in Visible(r), Tab(r, q) \in Dirs
        PROVE  FreshPane(r, q, now, known)
    <3>1. CASE q = p
      <4>1. r.loading[p]
        BY <2>3, <3>1, <1>2
      <4>2. \A t \in r.tasks : Asks(t, p, r.req[p]) => ~Outdated(t, now)
        BY <1>3, <1>5, <1>6, <1>8
      <4> QED
        BY <3>1, <4>1, <4>2 DEF FreshPane
    <3>2. CASE q # p
      <4>1. q \in Panes \ {p} /\ q \in Visible(s) \ {p} /\ Tab(s, q) = Tab(r, q)
            /\ r.req[q] = s.req[q] /\ r.loading[q] = s.loading[q] /\ Held(r, q) = Held(s, q)
        BY <2>3, <3>2, <1>2, <1>3, <1>4
      <4>2. FreshPane(s, q, now, known)
        BY <2>1, <2>3, <4>1 DEF Fresh
      <4>3. \A t \in r.tasks : Asks(t, q, r.req[q]) => t \in s.tasks
        BY <4>1, <1>3, <1>5, <1>6
      <4>4. Refreshed(s, q, now, known) => Refreshed(r, q, now, known)
        BY <4>1, <1>3 DEF Refreshed, Current
      <4> QED
        BY <4>1, <4>2, <4>3, <4>4, <1>3 DEF FreshPane
    <3> QED
      BY <3>1, <3>2
  <2> QED
    BY <2>2, <2>3 DEF Fresh
<1> QED
  BY <1>9, <1>10, <1>11, <1>12, <1>13, <1>14, <1>15 DEF PaneInv

\* Nothing is pending and nothing refreshes.
Idle(s) == s.pending = {} /\ \A d \in Dirs : s.ticket[d] = 0

LEMMA CancelStaysIdle ==
  ASSUME NEW s \in Window, NEW p \in Panes, NEW d \in Dirs, Idle(s)
  PROVE  Idle(CancelForLoad(s, p, d))
<1> DEFINE r == DropRefreshes(s, {d})
<1>1. {d} \in SUBSET Dirs
  OBVIOUS
<1>2. r.pending = s.pending \ {d} /\ Thins(s, r, Dirs \ {d})
      /\ r.ticket[d] = 0 /\ \A x \in Dirs \ {d} : r.ticket[x] = s.ticket[x]
  BY <1>1, DropThins
<1>3. r \in Window
  BY <1>2 DEF Thins
<1> HIDE DEF r
<1>4. CancelForLoad(s, p, d) = Queue(r, {})
  BY DEF CancelForLoad, IsRefreshing, Idle, r
<1>5. Queue(r, {}).pending = r.pending /\ Queue(r, {}).ticket = r.ticket
  BY <1>3, FieldTypes DEF Queue, Window
<1> QED
  BY <1>2, <1>4, <1>5 DEF Idle

\* start_load leaves the window in order, if it was but for what p waited for.
LEMMA StartLoadKeeps ==
  ASSUME NEW s, NEW p \in Panes, NEW now \in Versions, NEW known,
         PaneInv(s, now, known, {p}), Tab(s, p) = Storage => s.folder[p] = None
  PROVE  LET r == StartLoad(s, p) IN
         /\ PaneInv(r, now, known, {}) /\ SameView(s, r)
         /\ \A d \in Dirs : r.ticket[d] \in {0, s.ticket[d]}
         /\ \A q \in Panes : Tab(s, q) \in Dirs \/ q # p => Held(r, q) = Held(s, q)
         /\ Tab(s, p) \in Dirs => LoadComing(r)
         /\ Idle(s) => Idle(r)
<1> DEFINE d == Tab(s, p)
           s1 == Without(s, {t \in s.tasks : t.kind = "load" /\ t.pane = p})
           s2 == Retain(s1)
           s3 == IF d \in Dirs THEN CancelForLoad(s2, p, d) ELSE s2
           s4 == [s3 EXCEPT !.desired = Folders(s2), !.searching[p] = FALSE]
           r == IF d = Storage THEN LoadStorage(s4, p) ELSE LoadFolder(s4, p, d)
<1>1. r = StartLoad(s, p)
  BY DEF StartLoad
<1>2. s \in Window /\ d \in Dirs \cup {Storage} /\ Storage \notin Dirs
  <2>1. s \in Window
    BY DEF PaneInv, Typed
  <2> QED
    BY <2>1, ViewTypes
<1>3. PaneInv(s1, now, known, {p}) /\ GivesUp(s, s1, p) /\ s1 \in Window
  <2>1. GivesUp(s, s1, p)
    BY <1>2, WithoutGivesUp
  <2> HIDE DEF s1
  <2>2. PaneInv(s1, now, known, {p})
    BY <2>1, GivesUpKeeps
  <2> QED
    BY <2>1, <2>2 DEF GivesUp
<1> HIDE DEF s1
<1>4. PaneInv(s2, now, known, {p}) /\ Thins(s1, s2, Folders(s1)) /\ s2 \in Window
      /\ s2.pending \subseteq s1.pending
  <2>1. Thins(s1, s2, Folders(s1)) /\ s2.pending \subseteq s1.pending
    BY <1>3, RetainThins
  <2> HIDE DEF s2
  <2>2. PaneInv(s2, now, known, {p})
    BY <2>1, <1>3, RefreshesHere, ThinsKeeps
  <2> QED
    BY <2>1, <2>2 DEF Thins
<1> HIDE DEF s2
<1>5. PaneInv(s3, now, known, {p}) /\ s3 \in Window
      /\ Thins(s2, s3, {x \in Dirs : Showing(s2, x) \ {p} # {}})
      /\ (Idle(s2) => Idle(s3))
  <2> DEFINE others == {x \in Dirs : Showing(s2, x) \ {p} # {}}
  <2>1. CASE d \in Dirs
    <3>1. s3 = CancelForLoad(s2, p, d)
      BY <2>1
    <3>2. Thins(s2, s3, others) /\ (Idle(s2) => Idle(s3))
      BY <2>1, <3>1, <1>4, CancelThins, CancelStaysIdle
    <3>3. \A q \in Visible(s2) \ {p} : Tab(s2, q) \in Dirs => Tab(s2, q) \in others
      BY DEF Showing
    <3> HIDE DEF s3, others
    <3>4. PaneInv(s3, now, known, {p})
      BY <3>2, <3>3, <1>4, ThinsKeeps
    <3>5. s3 \in Window
      BY <3>4 DEF PaneInv, Typed
    <3> QED
      BY <3>2, <3>4, <3>5 DEF others
  <2>2. CASE d \notin Dirs
    <3>1. s3 = s2
      BY <2>2
    <3> HIDE DEF s3
    <3>2. \A x \in Dirs : Left(s2, s2, x)
      BY DEF Left
    <3>3. Thins(s2, s2, others)
      BY <3>2, <1>4 DEF Thins, SameView, SameLists, SameWaits
    <3> QED
      BY <3>1, <3>3, <1>4
  <2> QED
    BY <2>1, <2>2
<1> HIDE DEF s3
<1>6. /\ Alike(s3, s4) /\ s4 \in Window
  <2> DEFINE searching == [s3.searching EXCEPT ![p] = FALSE]
  <2>1. s4 = [s3 EXCEPT !.desired = Folders(s2), !.searching = searching]
    BY <1>5, FieldTypes DEF Window
  <2>2. searching \in [Panes -> BOOLEAN] /\ Folders(s2) \subseteq Dirs
    BY <1>4, <1>5, FieldTypes, ViewTypes
  <2> HIDE DEF searching, s4
  <2>3. Alike(s3, s4)
    BY <2>1, <2>2, <1>5, FieldTypes DEF Alike, Window, SameView, SameLists, SameWaits
  <2> QED
    BY <2>3 DEF Alike
<1> HIDE DEF s4
<1>7. PaneInv(s4, now, known, {p})
  BY <1>5, <1>6, AlikeKeeps
\* From s to s4.
<1>8. /\ SameView(s, s4) /\ SameLists(s, s4)
      /\ \A x \in Dirs : s4.ticket[x] \in {0, s.ticket[x]}
      /\ Idle(s) => Idle(s4)
  <2>1. SameView(s, s1) /\ SameLists(s, s1) /\ s1.ticket = s.ticket /\ s1.pending = s.pending
    BY <1>3 DEF GivesUp
  <2>2. SameView(s1, s2) /\ SameLists(s1, s2) /\ \A x \in Dirs : s2.ticket[x] \in {0, s1.ticket[x]}
    BY <1>4 DEF Thins, Left, Cut
  <2>3. SameView(s2, s3) /\ SameLists(s2, s3) /\ \A x \in Dirs : s3.ticket[x] \in {0, s2.ticket[x]}
    BY <1>5 DEF Thins, Left, Cut
  <2>4. SameView(s3, s4) /\ SameLists(s3, s4) /\ s4.ticket = s3.ticket /\ s4.pending = s3.pending
    BY <1>6 DEF Alike
  <2>5. SameView(s, s4) /\ SameLists(s, s4)
    BY <2>1, <2>2, <2>3, <2>4 DEF SameView, SameLists
  <2>6. Idle(s) => Idle(s2)
    BY <2>1, <2>2, <1>4 DEF Idle
  <2>7. Idle(s3) => Idle(s4)
    BY <2>4 DEF Idle
  <2> QED
    BY <2>1, <2>2, <2>3, <2>4, <2>5, <2>6, <2>7, <1>5
<1>9. /\ Visible(s4) = Visible(s) /\ Visible(s) \subseteq Panes
      /\ \A q : Tab(s4, q) = Tab(s, q) /\ Held(s4, q) = Held(s, q)
      /\ s4.folder = s.folder /\ s4.cache = s.cache
  BY <1>2, <1>8, SameSight, SameHeld, ViewTypes DEF SameLists
<1>10. Shows(s4) /\ Dated(s4, now)
  BY <1>7 DEF PaneInv
<1>11. CASE d \in Dirs
  <2> DEFINE t == [kind |-> "load", pane |-> p, req |-> s4.req[p] + 1, dir |-> d, result |-> Unread]
  <2>1. r = LoadFolder(s4, p, d)
    BY <1>2, <1>11
  <2>2. Loading(s4, r, p, d)
    BY <2>1, <1>6, <1>11, LoadFolderIs
  <2> HIDE DEF r
  <2>3. Asking(s4, r, p, {t}) /\ SameLists(s4, r) /\ r.loading[p]
    BY <2>2 DEF Loading
  <2>4. \A q : Held(r, q) = Held(s4, q)
    BY <2>3, SameHeld
  <2>5. /\ \A u \in {t} : /\ u.kind = "load" /\ u.pane = p /\ u.req = s4.req[p] + 1
                          /\ u.dir = Tab(s4, p) /\ u.result = Unread
        /\ \A u, v \in {t} : u = v
        /\ {t} # {} /\ Tab(s4, p) # Storage /\ Tab(s4, p) \in Dirs
    BY <1>2, <1>9, <1>11
  <2>6. Past(Held(r, p), now)
    BY <2>4, <1>10 DEF Dated
  <2>7. p \in Visible(s4) => Held(r, p).of \in {Tab(s4, p), None}
    BY <2>4, <2>5, <1>10 DEF Shows
  <2>8. t \in r.tasks /\ t.kind = "load" /\ t.req = r.req[t.pane]
    <3>1. r.tasks = s4.tasks \cup {t} /\ r.req = [s4.req EXCEPT ![p] = @ + 1]
      BY <2>3 DEF Asking
    <3> QED
      BY <3>1, <1>6, FieldTypes
  <2> HIDE DEF t
  <2>9. PaneInv(r, now, known, {})
    BY <2>3, <2>5, <2>6, <2>7, <1>7, AskingKeeps
  <2>10. LoadComing(r)
    BY <2>8 DEF LoadComing
  <2>11. SameView(s4, r) /\ r.ticket = s4.ticket /\ r.pending = s4.pending
    BY <2>3 DEF Asking
  <2>12. SameView(s, r) /\ (Idle(s) => Idle(r))
    BY <2>11, <1>8 DEF SameView, Idle
  <2> QED
    BY <2>4, <2>9, <2>10, <2>11, <2>12, <1>1, <1>8, <1>9 DEF r
<1>12. CASE d = Storage
  <2>1. r = LoadStorage(s4, p)
    BY <1>12
  <2>2. LoadingStorage(s4, r, p)
    BY <2>1, <1>6, LoadStorageIs
  <2> HIDE DEF r
  <2>3. /\ Asking(s4, r, p, {}) /\ r.storage # "idle" /\ r.folder[p] = None
        /\ r.entries[p] = IF s4.cache = Empty THEN s4.entries[p] ELSE s4.cache
        /\ r.cache = s4.cache
    BY <2>2 DEF LoadingStorage, Asking
  <2>4. Tab(s4, p) = Storage /\ Tab(s4, p) \notin Dirs /\ s4.folder[p] = None
    BY <1>2, <1>9, <1>12
  <2>5. Held(s4, p) = s4.entries[p] /\ Held(r, p) = r.entries[p]
    BY <2>3, <2>4 DEF Held
  <2>6. Past(Held(r, p), now)
    BY <2>3, <2>5, <1>10 DEF Dated
  <2>7. p \in Visible(s4) =>
          /\ r.folder[p] = None
          /\ r.cache \in {Empty, Drives} => r.entries[p] \in {Empty, Drives}
    BY <2>3, <2>4, <1>10 DEF Shows
  <2>8. PaneInv(r, now, known, {})
    BY <2>3, <2>4, <2>6, <2>7, <1>7, AskingKeeps
  <2>9. /\ SameView(s4, r) /\ r.ticket = s4.ticket /\ r.pending = s4.pending
        /\ \A q \in Panes \ {p} : r.entries[q] = s4.entries[q] /\ r.folder[q] = s4.folder[q]
    BY <2>3 DEF Asking
  <2>10. SameView(s, r) /\ (Idle(s) => Idle(r))
    BY <2>9, <1>8 DEF SameView, Idle
  <2>11. \A q \in Panes \ {p} : Held(r, q) = Held(s, q)
    BY <2>9, <1>9 DEF Held
  <2> QED
    BY <2>8, <2>9, <2>10, <2>11, <1>1, <1>2, <1>8, <1>12 DEF r
<1> QED
  BY <1>2, <1>11, <1>12

-----------------------------------------------------------------------------
(* Searches, and the storage units.                                        *)

LEMMA HeldTypes ==
  ASSUME NEW s \in Window, NEW p \in Panes
  PROVE  Held(s, p) \in List /\ Held(s, p) # None
BY FieldTypes, RefreshAssumption DEF Held

\* start_recursive_search keeps one refresh for the folder, and no other is touched.
LEMMA StartSearchKeeps ==
  ASSUME NEW s, NEW p \in Panes, NEW now \in Versions, NEW known, PaneInv(s, now, known, {})
  PROVE  LET r == StartSearch(s, p) IN
         /\ PaneInv(r, now, known, {}) /\ SameView(s, r)
         /\ \A d \in Dirs : r.ticket[d] \in {0, s.ticket[d]}
         /\ \A d \in Dirs : Newly(s, d) /\ r.ticket[d] # 0 => Newly(r, d)
         /\ \A q \in Panes : Held(r, q) = Held(s, q)
         /\ p \in Visible(s) => Unattended(r) \subseteq Unattended(s)
<1> DEFINE d == Tab(s, p)
           r == StartSearch(s, p)
           searching(v) == [s.searching EXCEPT ![p] = v]
<1>1. s \in Window /\ d \in Dirs \cup {Storage} /\ Storage \notin Dirs /\ Visible(s) \subseteq Panes
  <2>1. s \in Window
    BY DEF PaneInv, Typed
  <2> QED
    BY <2>1, ViewTypes
<1>2. CASE d = Storage
  <2>1. r = [s EXCEPT !.searching = searching(FALSE)]
    BY <1>1, <1>2, FieldTypes DEF StartSearch, Window
  <2>2. searching(FALSE) \in [Panes -> BOOLEAN]
        /\ \A q \in Panes \ {p} : searching(FALSE)[q] = s.searching[q]
    BY <1>1, FieldTypes
  <2> HIDE DEF r, searching
  <2>3. Alike(s, r) /\ r.searching = searching(FALSE)
    BY <2>1, <2>2, <1>1, FieldTypes DEF Alike, Window, SameView, SameLists, SameWaits
  <2>4. PaneInv(r, now, known, {})
    BY <2>3, AlikeKeeps
  <2>5. SameView(s, r) /\ SameLists(s, r) /\ r.ticket = s.ticket /\ r.pending = s.pending
        /\ r.tasks = s.tasks /\ r.req = s.req
    BY <2>3 DEF Alike, SameWaits
  <2>6. /\ \A x : Showing(r, x) = Showing(s, x)
        /\ Folders(r) = Folders(s) /\ \A q : Held(r, q) = Held(s, q)
    BY <2>5, SameSight, SameHeld
  <2>7. \A x \in Dirs : Newly(s, x) => Newly(r, x)
    BY <2>5, <2>6 DEF Newly, Current
  <2>8. \A x \in Dirs : \A q \in Showing(s, x) : r.searching[q] = s.searching[q]
    BY <2>2, <2>3, <1>1, <1>2 DEF Showing
  <2>9. Unattended(r) \subseteq Unattended(s)
    BY <2>5, <2>6, <2>8 DEF Unattended, Forgotten, LoadComing, Folders
  <2> QED
    BY <2>4, <2>5, <2>6, <2>7, <2>9 DEF r
<1>3. CASE d \in Dirs
  <2> DEFINE k == Queue(DropRefreshes(s, {d}), {d})
  <2>1. /\ Thins(s, k, Dirs) /\ d \in k.pending /\ k.pending = s.pending \cup {d}
        /\ k.ticket[d] = 0 /\ \A x \in Dirs \ {d} : k.ticket[x] = s.ticket[x]
    BY <1>1, <1>3, SearchThins
  <2>a. r = [k EXCEPT !.folder[p] = IF @ = None THEN s.entries[p] ELSE @,
                      !.entries[p] = Found, !.searching[p] = TRUE]
    BY <1>1, <1>3 DEF StartSearch
  <2> HIDE DEF k, r
  <2>2. k \in Window /\ SameView(s, k) /\ SameLists(s, k) /\ k.searching = s.searching
        /\ k.entries = s.entries /\ k.folder = s.folder
    BY <2>1 DEF Thins, SameLists
  <2>3. PaneInv(k, now, known, {})
    BY <2>1, <1>1, ThinsKeeps, ViewTypes
  <2> DEFINE folder == [s.folder EXCEPT ![p] = Held(s, p)]
             entries == [s.entries EXCEPT ![p] = Found]
  <2>4. r = [k EXCEPT !.folder = folder, !.entries = entries, !.searching = searching(TRUE)]
    BY <2>a, <2>2, FieldTypes DEF Window, Held
  <2>5. /\ searching(TRUE) \in [Panes -> BOOLEAN] /\ searching(TRUE)[p]
        /\ \A q \in Panes \ {p} : searching(TRUE)[q] = s.searching[q]
        /\ folder \in [Panes -> List \cup {None}] /\ entries \in [Panes -> List]
        /\ folder[p] = Held(s, p) /\ Held(s, p) # None
        /\ \A q \in Panes \ {p} : folder[q] = s.folder[q] /\ entries[q] = s.entries[q]
    BY <1>1, HeldTypes, FieldTypes, ListTypes
  <2> HIDE DEF searching, folder, entries
  <2>6. /\ r \in Window /\ SameView(k, r) /\ SameWaits(k, r) /\ r.cache = k.cache
        /\ r.folder = folder /\ r.entries = entries /\ r.searching = searching(TRUE)
        /\ r.sequence = k.sequence /\ r.ticket = k.ticket /\ r.pending = k.pending
        /\ r.tasks = k.tasks /\ r.req = k.req
    BY <2>2, <2>4, <2>5, FieldTypes DEF Window, SameView, SameWaits
  <2>7. \A q \in Panes : Held(r, q) = Held(s, q) /\ Held(k, q) = Held(s, q)
    BY <2>2, <2>5, <2>6, SameHeld DEF Held
  <2>8. /\ Visible(k) = Visible(s) /\ \A q : Tab(k, q) = Tab(s, q)
        /\ \A x : Showing(k, x) = Showing(s, x)
    BY <2>2, SameSight
  <2>9. Shuffled(k, r)
    BY <2>2, <2>5, <2>6, <2>7, <2>8, <1>1, <1>3 DEF Shuffled
  <2>10. PaneInv(r, now, known, {})
    BY <2>3, <2>9, ShuffledKeeps
  <2>11. SameView(s, r) /\ \A x \in Dirs : r.ticket[x] \in {0, s.ticket[x]}
    BY <2>1, <2>2, <2>6 DEF SameView
  <2>12. /\ Visible(r) = Visible(s) /\ Folders(r) = Folders(s)
         /\ \A x : Showing(r, x) = Showing(s, x)
    BY <2>11, SameSight
  <2>13. r.req = s.req /\ r.tasks \subseteq s.tasks
         /\ \A t \in s.tasks : t.kind = "load" => t \in r.tasks
    BY <2>1, <2>6 DEF Thins, SameWaits
  <2>14. ASSUME NEW x \in Dirs, Newly(s, x), r.ticket[x] # 0 PROVE Newly(r, x)
    <3>1. Left(s, k, x)
      BY <2>1, <2>6, <2>14 DEF Thins, Cut
    <3>2. r.ticket[x] = s.ticket[x] /\ \A t \in s.tasks : t.dir = x => t \in r.tasks
      BY <3>1, <2>6 DEF Left
    <3> QED
      BY <3>2, <2>12, <2>13, <2>14 DEF Newly, Current
  <2>15. ASSUME p \in Visible(s) PROVE Unattended(r) \subseteq Unattended(s)
    <3>1. ASSUME NEW x \in Unattended(r) PROVE x \in Unattended(s)
      <4>1. /\ x \in r.pending /\ r.ticket[x] = 0 /\ ~LoadComing(r) /\ x \in Folders(s)
            /\ \A q \in Showing(s, x) : ~r.searching[q]
        BY <3>1, <2>12 DEF Unattended, Forgotten
      <4>2. x \in Dirs /\ x # d
        BY <4>1, <2>5, <2>6, <2>15 DEF Folders, Showing
      <4>3. x \in s.pending /\ s.ticket[x] = 0
        BY <4>1, <4>2, <2>1, <2>6
      <4>4. \A q \in Showing(s, x) : ~s.searching[q]
        BY <4>1, <4>2, <2>5, <2>6, <1>1 DEF Showing
      <4>5. ~LoadComing(s)
        BY <4>1, <2>13 DEF LoadComing
      <4> QED
        BY <4>1, <4>2, <4>3, <4>4, <4>5 DEF Unattended, Forgotten
    <3> QED
      BY <3>1
  <2> QED
    BY <2>7, <2>10, <2>11, <2>14, <2>15 DEF r
<1> QED
  BY <1>1, <1>2, <1>3

\* What clear_recursive_search does before refreshes start.
Cleared(s, p) ==
  [s EXCEPT !.searching[p] = FALSE, !.folder[p] = None,
            !.entries[p] = IF s.folder[p] = None THEN @ ELSE s.folder[p]]

LEMMA ClearedKeeps ==
  ASSUME NEW s, NEW p \in Panes, NEW now, NEW known, PaneInv(s, now, known, {})
  PROVE  LET r == Cleared(s, p) IN
         /\ PaneInv(r, now, known, {}) /\ SameView(s, r) /\ r.ticket = s.ticket
         /\ \A q \in Panes : Held(r, q) = Held(s, q)
<1> DEFINE r == Cleared(s, p)
           folder == [s.folder EXCEPT ![p] = None]
           entries == [s.entries EXCEPT ![p] = Held(s, p)]
           searching == [s.searching EXCEPT ![p] = FALSE]
<1>1. s \in Window
  BY DEF PaneInv, Typed
<1>2. r = [s EXCEPT !.searching = searching, !.folder = folder, !.entries = entries]
  BY <1>1, FieldTypes DEF Cleared, Window, Held
<1>3. /\ folder \in [Panes -> List \cup {None}] /\ entries \in [Panes -> List]
      /\ searching \in [Panes -> BOOLEAN] /\ folder[p] = None /\ entries[p] = Held(s, p)
      /\ \A q \in Panes \ {p} : folder[q] = s.folder[q] /\ entries[q] = s.entries[q]
  BY <1>1, FieldTypes, HeldTypes
<1> HIDE DEF r, folder, entries, searching
<1>4. /\ r \in Window /\ SameView(s, r) /\ SameWaits(s, r) /\ r.cache = s.cache
      /\ r.folder = folder /\ r.entries = entries
      /\ r.sequence = s.sequence /\ r.ticket = s.ticket /\ r.pending = s.pending
      /\ r.tasks = s.tasks
  BY <1>1, <1>2, <1>3, FieldTypes DEF Window, SameView, SameWaits
<1>5. \A q \in Panes : Held(r, q) = Held(s, q)
  BY <1>3, <1>4 DEF Held
<1>6. \A q \in Visible(s) : q \in Panes /\ (Tab(s, q) \notin Dirs => s.folder[q] = None)
  BY <1>1, ViewTypes DEF PaneInv, Shows
<1>7. Shuffled(s, r)
  <2>1. \A q \in Visible(s) : Tab(s, q) \notin Dirs =>
          r.entries[q] = s.entries[q] /\ r.folder[q] = s.folder[q]
    BY <1>3, <1>4, <1>6 DEF Held
  <2> QED
    BY <2>1, <1>4, <1>5 DEF Shuffled
<1> QED
  BY <1>4, <1>5, <1>7, ShuffledKeeps DEF r

\* What is known may grow, and loses nothing with what is pending or newly refreshed.
LEMMA KnowsMore ==
  ASSUME NEW s, NEW now, NEW known, NEW more, NEW except,
         PaneInv(s, now, known, except), known \subseteq more
  PROVE  PaneInv(s, now, more, except)
<1>1. Fresh(s, now, known, except)
  BY DEF PaneInv
<1>2. Fresh(s, now, more, except)
  BY <1>1 DEF Fresh, FreshPane, Refreshed
<1> QED
  BY <1>2 DEF PaneInv

LEMMA KnowsLess ==
  ASSUME NEW s, NEW now, NEW known, NEW less,
         PaneInv(s, now, known, {}),
         \A d \in known \ less : d \in Dirs => d \in s.pending \/ Newly(s, d)
  PROVE  PaneInv(s, now, less, {})
<1>1. Fresh(s, now, known, {}) /\ Sole(s) /\ s \in Window
  BY DEF PaneInv, Typed
<1>2. \A t \in s.tasks : t.dir \in Dirs
  BY <1>1, TaskTypes
<1>3. ASSUME NEW t \in s.tasks, Current(s, t), Outdated(t, now)
      PROVE  t.dir \in less \cup s.pending
  <2>1. t.dir \in known \cup s.pending
    BY <1>1, <1>3 DEF Fresh
  <2>2. ~Newly(s, t.dir)
    BY <1>3 DEF Newly, Outdated, HasRead
  <2> QED
    BY <2>1, <2>2, <1>2
<1>4. ASSUME NEW p \in Visible(s), Tab(s, p) \in Dirs
      PROVE  FreshPane(s, p, now, less)
  <2> DEFINE d == Tab(s, p)
  <2>1. FreshPane(s, p, now, known) /\ AwaitsOwn(s, p)
    BY <1>1, <1>4 DEF Fresh, PaneInv, Awaits
  <2>2. CASE d \in known \ less /\ d \notin s.pending
    <3>1. Newly(s, d) /\ p \in Showing(s, d)
      BY <2>2, <1>4 DEF Showing
    <3>2. PICK u \in s.tasks : /\ Current(s, u) /\ u.dir = d /\ Asks(u, p, s.req[p])
                               /\ u.result = Unread
      BY <3>1 DEF Newly
    <3>3. ASSUME NEW t \in s.tasks, t.kind = "load", Asks(t, p, s.req[p]) PROVE FALSE
      <4>1. p \in Panes /\ s.req[p] \in Nat
        BY <1>1, <1>4, ViewTypes, FieldTypes
      <4>2. t = u
        BY <4>1, <3>2, <3>3, <1>1 DEF Sole
      <4> QED
        BY <4>2, <3>2, <3>3 DEF Current
    <3> QED
      BY <3>2, <3>3 DEF FreshPane, Refreshed
  <2>3. CASE d \in less \cup s.pending
    BY <2>1, <2>3 DEF FreshPane, Refreshed, AwaitsOwn
  <2>4. CASE d \notin known \cup s.pending
    BY <2>1, <2>4 DEF FreshPane, Refreshed, AwaitsOwn
  <2> QED
    BY <2>2, <2>3, <2>4
<1>5. Fresh(s, now, less, {})
  BY <1>3, <1>4 DEF Fresh
<1> QED
  BY <1>5 DEF PaneInv

LEMMA RefreshStorageKeeps ==
  ASSUME NEW s, NEW now, NEW known, PaneInv(s, now, known, {})
  PROVE  LET r == RefreshStorage(s) IN
         /\ PaneInv(r, now, known, {}) /\ SameView(s, r) /\ SameLists(s, r)
         /\ r.ticket = s.ticket /\ r.pending = s.pending /\ r.tasks = s.tasks /\ r.req = s.req
         /\ r.searching = s.searching
<1> DEFINE r == RefreshStorage(s)
           storage == IF s.storage = "idle" THEN "active" ELSE "pending"
<1>1. s \in Window
  BY DEF PaneInv, Typed
<1>2. r = [s EXCEPT !.storage = storage] /\ storage \in {"active", "pending"}
  BY <1>1, FieldTypes DEF RefreshStorage, Window
<1> HIDE DEF r, storage
<1>3. /\ r \in Window /\ SameView(s, r) /\ SameLists(s, r) /\ r.req = s.req
      /\ r.loading = s.loading /\ r.searching = s.searching /\ r.storage = storage
      /\ r.sequence = s.sequence /\ r.ticket = s.ticket /\ r.pending = s.pending
      /\ r.tasks = s.tasks
  BY <1>1, <1>2, FieldTypes DEF Window, SameView, SameLists
<1>4. /\ Visible(r) = Visible(s)
      /\ \A q : Tab(r, q) = Tab(s, q) /\ Held(r, q) = Held(s, q)
      /\ r.entries = s.entries /\ r.folder = s.folder /\ r.cache = s.cache
  BY <1>3, SameSight, SameHeld DEF SameLists
<1>5. Typed(r) /\ Numbered(r) /\ Sole(r)
  BY <1>3 DEF PaneInv, Typed, Numbered, Sole
<1>6. Awaits(r, {})
  BY <1>2, <1>3, <1>4 DEF PaneInv, Awaits, AwaitsOwn
<1>7. Shows(r) /\ Dated(r, now) /\ Ordered(r)
  BY <1>3, <1>4 DEF PaneInv, Shows, Dated, Ordered
<1>8. Fresh(r, now, known, {})
  BY <1>3, <1>4 DEF PaneInv, Fresh, FreshPane, Refreshed, Current
<1>9. PaneInv(r, now, known, {})
  BY <1>5, <1>6, <1>7, <1>8 DEF PaneInv
<1> QED
  BY <1>3, <1>9 DEF r

\* The views of the storage stop to load; the units are listed in some of them.
Views(s) == {q \in Visible(s) : Tab(s, q) = Storage}
StopsLoading(s, r, views) ==
  /\ r \in Window /\ SameView(s, r) /\ SameLists(s, r) /\ r.req = s.req
  /\ r.loading = [q \in Panes |-> IF q \in views THEN FALSE ELSE s.loading[q]]
  /\ r.storage # s.storage => r.storage # "idle" \/ views = Views(s)
  /\ r.sequence = s.sequence /\ r.ticket = s.ticket /\ r.pending = s.pending
  /\ r.tasks = s.tasks
ListsUnits(s, r, views, list) ==
  /\ r \in Window /\ SameView(s, r) /\ SameWaits(s, r) /\ r.cache = list
  /\ r.folder = [q \in Panes |-> IF q \in views THEN None ELSE s.folder[q]]
  /\ r.entries = [q \in Panes |-> IF q \in views THEN list ELSE s.entries[q]]
  /\ r.sequence = s.sequence /\ r.ticket = s.ticket /\ r.pending = s.pending
  /\ r.tasks = s.tasks

LEMMA ViewsWait ==
  ASSUME NEW s, NEW now, NEW known, PaneInv(s, now, known, {})
  PROVE  \A q \in Views(s) : /\ q \in Panes /\ Tab(s, q) = Storage /\ Tab(s, q) \notin Dirs
                             /\ \A t \in s.tasks : ~Asks(t, q, s.req[q])
<1>1. s \in Window
  BY DEF PaneInv, Typed
<1>2. ASSUME NEW q \in Views(s)
      PROVE  /\ q \in Panes /\ Tab(s, q) = Storage /\ Tab(s, q) \notin Dirs
             /\ \A t \in s.tasks : ~Asks(t, q, s.req[q])
  <2>1. q \in Panes /\ Tab(s, q) = Storage /\ Tab(s, q) \notin Dirs /\ q \in Visible(s)
    BY <1>1, <1>2, ViewTypes DEF Views
  <2>2. AwaitsOwn(s, q) /\ \A t \in s.tasks : t.dir \in Dirs
    BY <1>1, <2>1, TaskTypes DEF PaneInv, Awaits
  <2> QED
    BY <2>1, <2>2 DEF AwaitsOwn
<1> QED
  BY <1>2

LEMMA StopsLoadingKeeps ==
  ASSUME NEW s, NEW r, NEW views \in SUBSET Views(s), NEW now, NEW known,
         PaneInv(s, now, known, {}), StopsLoading(s, r, views)
  PROVE  PaneInv(r, now, known, {})
<1>1. s \in Window /\ r \in Window /\ SameView(s, r) /\ SameLists(s, r)
  BY DEF PaneInv, Typed, StopsLoading
<1>2. /\ Visible(r) = Visible(s) /\ Visible(s) \subseteq Panes
      /\ \A q : Tab(r, q) = Tab(s, q) /\ Held(r, q) = Held(s, q)
      /\ r.entries = s.entries /\ r.folder = s.folder /\ r.cache = s.cache
  BY <1>1, SameSight, SameHeld, ViewTypes DEF SameLists
<1>3. /\ r.req = s.req /\ r.sequence = s.sequence /\ r.ticket = s.ticket
      /\ r.pending = s.pending /\ r.tasks = s.tasks
      /\ \A q \in Panes : r.loading[q] = IF q \in views THEN FALSE ELSE s.loading[q]
  BY DEF StopsLoading
<1>4. Typed(r) /\ Numbered(r) /\ Sole(r)
  BY <1>1, <1>3 DEF PaneInv, Typed, Numbered, Sole
<1>5. Awaits(r, {})
  <2>1. ASSUME NEW q \in Visible(r) PROVE AwaitsOwn(r, q)
    <3>1. q \in Panes /\ q \in Visible(s) /\ AwaitsOwn(s, q)
      BY <2>1, <1>2 DEF PaneInv, Awaits
    <3>2. CASE q \in views
      BY <3>1, <3>2, <1>2, <1>3, ViewsWait DEF AwaitsOwn
    <3>3. CASE q \notin views
      <4>1. s.loading[q] /\ Tab(s, q) = Storage => r.storage # "idle"
        BY <3>1, <3>3 DEF AwaitsOwn, StopsLoading, Views
      <4> QED
        BY <4>1, <3>1, <3>3, <1>2, <1>3 DEF AwaitsOwn
    <3> QED
      BY <3>2, <3>3
  <2> QED
    BY <2>1 DEF Awaits
<1>6. Shows(r) /\ Dated(r, now) /\ Ordered(r)
  BY <1>2, <1>3 DEF PaneInv, Shows, Dated, Ordered
<1>7. Fresh(r, now, known, {})
  <2>1. \A q \in Visible(s) : Tab(s, q) \in Dirs => r.loading[q] = s.loading[q]
    BY <1>2, <1>3, ViewsWait
  <2> QED
    BY <2>1, <1>2, <1>3 DEF PaneInv, Fresh, FreshPane, Refreshed, Current
<1> QED
  BY <1>4, <1>5, <1>6, <1>7 DEF PaneInv

LEMMA ListsUnitsKeeps ==
  ASSUME NEW s, NEW r, NEW views \in SUBSET Views(s), NEW list, NEW now, NEW known,
         PaneInv(s, now, known, {}), ListsUnits(s, r, views, list), Past(list, now),
         (list = Drives /\ views = Views(s)) \/ list.of \in Dirs
  PROVE  /\ PaneInv(r, now, known, {})
         /\ \A q \in Panes : Tab(s, q) \in Dirs => Held(r, q) = Held(s, q)
<1>1. s \in Window /\ r \in Window /\ SameView(s, r)
  BY DEF PaneInv, Typed, ListsUnits
<1>2. /\ Visible(r) = Visible(s) /\ Visible(s) \subseteq Panes
      /\ \A q : Tab(r, q) = Tab(s, q)
  BY <1>1, SameSight, ViewTypes
<1>3. /\ r.req = s.req /\ r.sequence = s.sequence /\ r.ticket = s.ticket
      /\ r.pending = s.pending /\ r.tasks = s.tasks /\ r.loading = s.loading
      /\ r.storage = s.storage /\ r.cache = list
      /\ \A q \in Panes : /\ r.folder[q] = IF q \in views THEN None ELSE s.folder[q]
                          /\ r.entries[q] = IF q \in views THEN list ELSE s.entries[q]
  BY DEF ListsUnits, SameWaits
<1>4. \A q \in Panes : Held(r, q) = IF q \in views THEN list ELSE Held(s, q)
  BY <1>3 DEF Held
<1>5. Typed(r) /\ Numbered(r) /\ Sole(r)
  BY <1>1, <1>3 DEF PaneInv, Typed, Numbered, Sole
<1>6. Awaits(r, {})
  BY <1>2, <1>3 DEF PaneInv, Awaits, AwaitsOwn
<1>7. Shows(r)
  <2>1. ASSUME NEW q \in Visible(s)
        PROVE  IF Tab(s, q) \in Dirs THEN Held(r, q).of \in {Tab(s, q), None}
               ELSE /\ r.folder[q] = None
                    /\ r.cache \in {Empty, Drives} => r.entries[q] \in {Empty, Drives}
    <3>1. q \in Panes /\ Shows(s)
      BY <2>1, <1>2 DEF PaneInv
    <3>2. CASE q \in views
      BY <3>1, <3>2, <1>3, ViewsWait
    <3>3. CASE q \notin views
      <4>1. CASE Tab(s, q) \in Dirs
        BY <3>1, <3>3, <4>1, <2>1, <1>4 DEF Shows
      <4>2. CASE Tab(s, q) \notin Dirs
        <5>1. q \in Views(s) /\ r.folder[q] = None
          BY <3>1, <3>3, <4>2, <2>1, <1>1, <1>3, ViewTypes DEF Shows, Views
        <5>2. list.of \in Dirs
          BY <5>1, <3>3
        <5>3. r.cache \notin {Empty, Drives}
          BY <5>2, <1>3, ListTypes, RefreshAssumption
        <5> QED
          BY <4>2, <5>1, <5>3
      <4> QED
        BY <4>1, <4>2
    <3> QED
      BY <3>2, <3>3
  <2> QED
    BY <2>1, <1>2 DEF Shows
<1>8. Dated(r, now)
  BY <1>3, <1>4 DEF PaneInv, Dated
<1>9. Ordered(r)
  BY <1>3, <1>4, ViewsWait DEF PaneInv, Ordered
<1>10. \A q \in Panes : Tab(s, q) \in Dirs => Held(r, q) = Held(s, q)
  BY <1>4, ViewsWait
<1>11. Fresh(r, now, known, {})
  BY <1>2, <1>3, <1>10 DEF PaneInv, Fresh, FreshPane, Refreshed, Current
<1> QED
  BY <1>5, <1>6, <1>7, <1>8, <1>9, <1>10, <1>11 DEF PaneInv

-----------------------------------------------------------------------------
(* What is brought by a message.                                           *)

\* A task is over, and the window takes nothing from it.
TaskOver(s, t) == [s EXCEPT !.tasks = @ \ {t}]

LEMMA TaskOverIs ==
  ASSUME NEW s \in Window, NEW t
  PROVE  LET r == TaskOver(s, t) IN
         /\ r \in Window /\ SameView(s, r) /\ SameLists(s, r) /\ SameWaits(s, r)
         /\ r.sequence = s.sequence /\ r.ticket = s.ticket /\ r.pending = s.pending
         /\ r.searching = s.searching /\ r.text = s.text /\ r.tasks = s.tasks \ {t}
BY FieldTypes DEF TaskOver, Window, SameView, SameLists, SameWaits

LEMMA TaskOverKeeps ==
  ASSUME NEW s, NEW t \in s.tasks, NEW now, NEW known, PaneInv(s, now, known, {}),
         t.kind = "load" => t.req # s.req[t.pane], ~Current(s, t)
  PROVE  PaneInv(TaskOver(s, t), now, known, {})
<1> DEFINE r == TaskOver(s, t)
<1>1. s \in Window
  BY DEF PaneInv, Typed
<1>2. /\ r \in Window /\ SameView(s, r) /\ SameLists(s, r) /\ SameWaits(s, r)
      /\ r.sequence = s.sequence /\ r.ticket = s.ticket /\ r.pending = s.pending
      /\ r.tasks = s.tasks \ {t}
  BY <1>1, TaskOverIs
<1> HIDE DEF r
<1>3. /\ Visible(r) = Visible(s)
      /\ \A q : Tab(r, q) = Tab(s, q) /\ Held(r, q) = Held(s, q)
      /\ r.entries = s.entries /\ r.folder = s.folder /\ r.cache = s.cache
      /\ r.req = s.req /\ r.loading = s.loading /\ r.storage = s.storage
  BY <1>2, SameSight, SameHeld DEF SameLists, SameWaits
<1>4. \A q : t.kind = "load" => ~Asks(t, q, s.req[q])
  BY DEF Asks
<1>5. Typed(r) /\ Numbered(r) /\ Sole(r)
  <2>1. Typed(r) /\ Numbered(r)
    BY <1>2, <1>3 DEF PaneInv, Typed, Numbered
  <2>2. Sole(r)
    BY <1>2 DEF PaneInv, Sole
  <2> QED
    BY <2>1, <2>2
<1>6. Awaits(r, {})
  <2>1. ASSUME NEW q \in Visible(s) PROVE AwaitsOwn(r, q)
    <3>1. AwaitsOwn(s, q)
      BY <2>1 DEF PaneInv, Awaits
    <3> QED
      BY <3>1, <1>2, <1>3, <1>4 DEF AwaitsOwn
  <2> QED
    BY <2>1, <1>3 DEF Awaits
<1>7. Shows(r) /\ Dated(r, now) /\ Ordered(r)
  <2>1. Shows(r)
    BY <1>3 DEF PaneInv, Shows
  <2>2. Dated(r, now)
    BY <1>2, <1>3 DEF PaneInv, Dated
  <2>3. Ordered(r)
    BY <1>2, <1>3 DEF PaneInv, Ordered
  <2> QED
    BY <2>1, <2>2, <2>3
<1>8. Fresh(r, now, known, {})
  <2>1. Fresh(s, now, known, {})
    BY DEF PaneInv
  <2>2. ASSUME NEW q \in Visible(s), Tab(s, q) \in Dirs PROVE FreshPane(r, q, now, known)
    <3>1. FreshPane(s, q, now, known)
      BY <2>1, <2>2 DEF Fresh
    <3>2. Refreshed(s, q, now, known) => Refreshed(r, q, now, known)
      BY <1>2, <1>3 DEF Refreshed, Current
    <3> QED
      BY <3>1, <3>2, <1>2, <1>3 DEF FreshPane
  <2> QED
    BY <2>1, <2>2, <1>2, <1>3 DEF Fresh, Current
<1> QED
  BY <1>5, <1>6, <1>7, <1>8 DEF PaneInv, r

\* Message::Loaded of the load that p waits for, before the other views of the storage
\* and before refreshes start.
LoadShown(s, p, list) ==
  [s EXCEPT !.loading[p] = FALSE, !.folder[p] = None, !.entries[p] = list]

\* What a task has read is a listing of its folder, and of the past.
LEMMA ReadTypes ==
  ASSUME NEW s, NEW t \in s.tasks, NEW now, NEW known, PaneInv(s, now, known, {}),
         t.result # Unread
  PROVE  /\ Read(t) \in List /\ Read(t) # None /\ Past(Read(t), now)
         /\ Read(t).of \in {t.dir, None}
         /\ t.result # Failed => /\ HasRead(t) /\ Read(t).of = t.dir /\ Read(t).at = t.result
                                 /\ Read(t) \notin {Empty, Drives}
         /\ Read(t).of = t.dir => t.result # Failed
<1>1. s \in Window /\ Dated(s, now)
  BY DEF PaneInv, Typed
<1>2. t.dir \in Dirs /\ t.result \in Outcome
  BY <1>1, TaskTypes
<1>3. CASE t.result = Failed
  <2>1. Read(t) = Empty /\ Read(t).of = None /\ None \notin Dirs /\ Empty \in List
    BY <1>3, ListTypes DEF Read
  <2> QED
    BY <2>1, <1>2, <1>3, RefreshAssumption DEF Past
<1>4. CASE t.result # Failed
  <2>1. t.result \in 0..MaxEdits /\ HasRead(t)
    BY <1>2, <1>4 DEF Outcome, HasRead
  <2>2. Read(t) = [of |-> t.dir, at |-> t.result]
    BY <1>4 DEF Read
  <2>3. Read(t) \in List
    BY <2>1, <2>2, <1>2, ListTypes
  <2>4. Read(t).of = t.dir /\ Read(t).at = t.result
    BY <2>2
  <2>5. Read(t) \notin {Empty, Drives} /\ Read(t) # None
    BY <2>3, <2>4, <1>2, ListTypes, RefreshAssumption
  <2>6. Past(Read(t), now)
    BY <2>1, <2>4, <1>1 DEF Dated, Past
  <2> HIDE DEF Read
  <2> QED
    BY <2>1, <2>3, <2>4, <2>5, <2>6, <1>4
<1> QED
  BY <1>3, <1>4

LEMMA LoadShownKeeps ==
  ASSUME NEW s, NEW t \in s.tasks, NEW p \in Panes, NEW now \in Versions, NEW known,
         PaneInv(s, now, known, {}),
         t.kind = "load", t.result # Unread, t.pane = p, t.req = s.req[p]
  PROVE  LET r == LoadShown(TaskOver(s, t), p, Read(t)) IN
         /\ PaneInv(r, now, known, {}) /\ SameView(s, r)
         /\ \A q \in Panes : Held(r, q) = IF q = p THEN Read(t) ELSE Held(s, q)
         /\ r.ticket = s.ticket /\ r.text = s.text /\ r.cache = s.cache
<1> DEFINE m == TaskOver(s, t)
           r == LoadShown(m, p, Read(t))
           folder == [m.folder EXCEPT ![p] = None]
           entries == [m.entries EXCEPT ![p] = Read(t)]
           loading == [m.loading EXCEPT ![p] = FALSE]
<1>1. s \in Window
  BY DEF PaneInv, Typed
<1>2. /\ m \in Window /\ SameView(s, m) /\ SameLists(s, m) /\ SameWaits(s, m)
      /\ m.sequence = s.sequence /\ m.ticket = s.ticket /\ m.pending = s.pending
      /\ m.text = s.text /\ m.tasks = s.tasks \ {t}
  BY <1>1, TaskOverIs
<1> HIDE DEF m
<1>3. r = [m EXCEPT !.loading = loading, !.folder = folder, !.entries = entries]
  BY <1>2, FieldTypes DEF LoadShown, Window
<1>4. /\ Read(t) \in List /\ Read(t) # None /\ Past(Read(t), now) /\ Read(t).of \in {t.dir, None}
      /\ t.result # Failed => HasRead(t) /\ Read(t).at = t.result
      /\ Read(t).of = t.dir => t.result # Failed
  BY ReadTypes
<1>5. /\ folder \in [Panes -> List \cup {None}] /\ entries \in [Panes -> List]
      /\ loading \in [Panes -> BOOLEAN]
      /\ folder[p] = None /\ entries[p] = Read(t) /\ ~loading[p]
      /\ \A q \in Panes \ {p} : /\ folder[q] = s.folder[q] /\ entries[q] = s.entries[q]
                                /\ loading[q] = s.loading[q]
  BY <1>2, <1>4, FieldTypes DEF SameLists, SameWaits
<1> HIDE DEF r, folder, entries, loading
<1>6. /\ r \in Window /\ SameView(m, r) /\ r.cache = m.cache /\ r.req = m.req
      /\ r.storage = m.storage /\ r.loading = loading /\ r.folder = folder /\ r.entries = entries
      /\ r.sequence = m.sequence /\ r.ticket = m.ticket /\ r.pending = m.pending
      /\ r.text = m.text /\ r.tasks = m.tasks
  BY <1>2, <1>3, <1>5, FieldTypes DEF Window, SameView
<1>7. /\ r.cache = s.cache /\ r.req = s.req /\ r.storage = s.storage /\ SameView(s, r)
      /\ r.sequence = s.sequence /\ r.ticket = s.ticket /\ r.pending = s.pending
      /\ r.text = s.text /\ r.tasks = s.tasks \ {t}
  BY <1>2, <1>6 DEF SameView, SameLists, SameWaits
<1>8. /\ Visible(r) = Visible(s) /\ Visible(s) \subseteq Panes
      /\ \A q : Tab(r, q) = Tab(s, q)
  BY <1>1, <1>7, SameSight, ViewTypes
<1>9. \A q \in Panes : Held(r, q) = IF q = p THEN Read(t) ELSE Held(s, q)
  BY <1>5, <1>6 DEF Held
\* Nobody else asks for p, and t asks for no other pane.
<1>10. /\ \A u \in r.tasks : ~Asks(u, p, r.req[p])
       /\ \A q : Asks(t, q, s.req[q]) => q = p
       /\ t.dir \in Dirs /\ ~Current(s, t) /\ Asks(t, p, s.req[p])
  <2>1. Asks(t, p, s.req[p]) /\ s.req[p] \in Nat /\ \A q : Asks(t, q, s.req[q]) => q = p
    BY <1>1, FieldTypes DEF Asks
  <2>2. Sole(s)
    BY DEF PaneInv
  <2> QED
    BY <2>1, <2>2, <1>1, <1>7, TaskTypes DEF Sole, Current
<1>11. Typed(r) /\ Numbered(r) /\ Sole(r)
  <2>1. Typed(r) /\ Numbered(r)
    BY <1>6, <1>7 DEF PaneInv, Typed, Numbered
  <2>2. Sole(r)
    BY <1>7 DEF PaneInv, Sole
  <2> QED
    BY <2>1, <2>2
<1>12. Awaits(r, {})
  <2>1. ASSUME NEW q \in Visible(s) PROVE AwaitsOwn(r, q)
    <3>1. AwaitsOwn(s, q) /\ q \in Panes
      BY <2>1, <1>8 DEF PaneInv, Awaits
    <3>2. CASE q = p
      BY <3>2, <1>5, <1>6, <1>10 DEF AwaitsOwn
    <3>3. CASE q # p
      BY <3>1, <3>3, <1>5, <1>6, <1>7, <1>8, <1>10 DEF AwaitsOwn
    <3> QED
      BY <3>2, <3>3
  <2> QED
    BY <2>1, <1>8 DEF Awaits
<1>13. Shows(r)
  <2>1. ASSUME NEW q \in Visible(s)
        PROVE  IF Tab(s, q) \in Dirs THEN Held(r, q).of \in {Tab(s, q), None}
               ELSE /\ r.folder[q] = None
                    /\ r.cache \in {Empty, Drives} => r.entries[q] \in {Empty, Drives}
    <3>1. q \in Panes /\ Shows(s)
      BY <2>1, <1>8 DEF PaneInv
    <3>2. CASE q = p
      <4>1. t.dir = Tab(s, p)
        BY <2>1, <3>2, <1>10 DEF PaneInv, Awaits, AwaitsOwn
      <4> QED
        BY <4>1, <3>1, <3>2, <1>4, <1>9, <1>10
    <3>3. CASE q # p
      BY <2>1, <3>1, <3>3, <1>5, <1>6, <1>7, <1>9 DEF Shows
    <3> QED
      BY <3>2, <3>3
  <2> QED
    BY <2>1, <1>8 DEF Shows
<1>14. Dated(r, now) /\ Ordered(r)
  <2>1. Dated(r, now)
    BY <1>4, <1>7, <1>9 DEF PaneInv, Dated
  <2>2. ASSUME NEW u \in r.tasks, NEW q \in Panes,
               Asks(u, q, r.req[q]), HasRead(u), Held(r, q).of = u.dir
        PROVE  Held(r, q).at <= u.result
    BY <2>2, <1>7, <1>9, <1>10 DEF PaneInv, Ordered
  <2> QED
    BY <2>1, <2>2 DEF Ordered
<1>15. Fresh(r, now, known, {})
  <2>1. Fresh(s, now, known, {})
    BY DEF PaneInv
  <2>2. ASSUME NEW q \in Visible(s), Tab(s, q) \in Dirs PROVE FreshPane(r, q, now, known)
    <3>1. FreshPane(s, q, now, known) /\ q \in Panes
      BY <2>1, <2>2, <1>8 DEF Fresh
    <3>2. CASE q = p
      <4>1. ASSUME Held(r, p).of = Tab(s, p), Held(r, p).at < now[Tab(s, p)]
            PROVE  Tab(s, p) \in known \cup s.pending
        <5>1. t.dir = Tab(s, p)
          BY <2>2, <3>2, <1>10 DEF PaneInv, Awaits, AwaitsOwn
        <5>2. HasRead(t) /\ t.result < now[t.dir]
          BY <4>1, <5>1, <1>4, <1>9
        <5> QED
          BY <3>1, <3>2, <5>1, <5>2, <1>10 DEF FreshPane, Outdated
      <4> QED
        BY <4>1, <3>2, <1>7, <1>8, <1>10 DEF FreshPane, Refreshed
    <3>3. CASE q # p
      <4>1. Refreshed(s, q, now, known) => Refreshed(r, q, now, known)
        BY <1>7, <1>8, <1>10 DEF Refreshed, Current
      <4> QED
        BY <4>1, <3>1, <3>3, <1>5, <1>6, <1>7, <1>8, <1>9 DEF FreshPane
    <3> QED
      BY <3>2, <3>3
  <2> QED
    BY <2>1, <2>2, <1>7, <1>8 DEF Fresh, Current
<1> QED
  BY <1>7, <1>9, <1>11, <1>12, <1>13, <1>14, <1>15 DEF PaneInv, r, m

LEMMA SpreadKeeps ==
  ASSUME NEW s, NEW p, NEW list \in List, NEW now, NEW known,
         PaneInv(s, now, known, {}), Past(list, now), list.of \in Dirs
  PROVE  LET r == SpreadStorage(s, p, list) IN
         /\ PaneInv(r, now, known, {}) /\ SameView(s, r) /\ r.ticket = s.ticket
         /\ \A q \in Panes : Tab(s, q) \in Dirs => Held(r, q) = Held(s, q)
<1> DEFINE others == {q \in Visible(s) \ {p} : Tab(s, q) = Storage}
           loading == [q \in Panes |-> IF q \in others THEN FALSE ELSE s.loading[q]]
           folder == [q \in Panes |-> IF q \in others THEN None ELSE s.folder[q]]
           entries == [q \in Panes |-> IF q \in others THEN list ELSE s.entries[q]]
           m == [s EXCEPT !.loading = loading]
           r == SpreadStorage(s, p, list)
<1>1. s \in Window /\ others \in SUBSET Views(s) /\ Visible(s) \subseteq Panes
  <2>1. s \in Window
    BY DEF PaneInv, Typed
  <2> QED
    BY <2>1, ViewTypes DEF Views
<1>2. /\ loading \in [Panes -> BOOLEAN] /\ folder \in [Panes -> List \cup {None}]
      /\ entries \in [Panes -> List]
  BY <1>1, FieldTypes
<1>3. r = [m EXCEPT !.cache = list, !.folder = folder, !.entries = entries]
  BY <1>1, FieldTypes DEF SpreadStorage, Window
<1> HIDE DEF r, others
<1>4. m \in Window /\ StopsLoading(s, m, others)
      /\ m.folder = s.folder /\ m.entries = s.entries
  <2> HIDE DEF loading
  <2>1. /\ m \in Window /\ SameView(s, m) /\ SameLists(s, m) /\ m.req = s.req
        /\ m.loading = loading /\ m.storage = s.storage /\ m.sequence = s.sequence
        /\ m.ticket = s.ticket /\ m.pending = s.pending /\ m.tasks = s.tasks
    BY <1>1, <1>2, FieldTypes DEF Window, SameView, SameLists
  <2> QED
    BY <2>1 DEF StopsLoading, loading, SameLists
<1>5. PaneInv(m, now, known, {})
  BY <1>1, <1>4, StopsLoadingKeeps
<1> HIDE DEF m, folder, entries
<1>6. /\ r \in Window /\ SameView(m, r) /\ SameWaits(m, r) /\ r.cache = list
      /\ r.folder = folder /\ r.entries = entries
      /\ r.sequence = m.sequence /\ r.ticket = m.ticket /\ r.pending = m.pending
      /\ r.tasks = m.tasks
  BY <1>2, <1>3, <1>4, FieldTypes DEF Window, SameView, SameWaits
<1>7. ListsUnits(m, r, others, list)
  BY <1>4, <1>6 DEF ListsUnits, folder, entries
<1>8. SameView(s, m) /\ SameLists(s, m) /\ m.ticket = s.ticket
  BY <1>4 DEF StopsLoading
<1>9. Views(m) = Views(s) /\ \A q : Tab(m, q) = Tab(s, q) /\ Held(m, q) = Held(s, q)
  BY <1>8, SameSight, SameHeld DEF Views
<1>10. others \in SUBSET Views(m)
  BY <1>1, <1>9
<1>11. /\ PaneInv(r, now, known, {})
       /\ \A q \in Panes : Tab(m, q) \in Dirs => Held(r, q) = Held(m, q)
  BY <1>5, <1>7, <1>10, ListsUnitsKeeps
<1> QED
  BY <1>6, <1>8, <1>9, <1>11 DEF r, SameView

\* Message::Loaded of a load that is still asked for.
LEMMA ApplyLoadKeeps ==
  ASSUME NEW s, NEW t \in s.tasks, NEW now \in Versions, NEW known,
         PaneInv(s, now, known, {}),
         t.kind = "load", t.result # Unread, t.req = s.req[t.pane]
  PROVE  LET r == ApplyLoad(TaskOver(s, t), t) IN
         /\ PaneInv(r, now, known, {}) /\ SameView(s, r)
         /\ \A d \in Dirs : r.ticket[d] \in {0, s.ticket[d]} \/ Newly(r, d)
         /\ \A q \in Panes : Tab(s, q) \in Dirs =>
              Held(r, q) = IF q = t.pane THEN Read(t) ELSE Held(s, q)
         /\ t.pane \in Visible(s) => Unattended(r) = {}
<1> DEFINE p == t.pane
           o == TaskOver(s, t)
           shown == LoadShown(o, p, Read(t))
           spread == IF Tab(o, p) = Storage /\ t.result # Failed
                     THEN SpreadStorage(shown, p, Read(t)) ELSE shown
           ready == StartReady(spread)
           r == IF o.text[p] THEN StartSearch(ready, p) ELSE ready
<1>1. r = ApplyLoad(o, t)
  BY DEF ApplyLoad, LoadShown
<1>2. s \in Window /\ p \in Panes /\ t.dir \in Dirs
  <2>1. s \in Window
    BY DEF PaneInv, Typed
  <2> QED
    BY <2>1, TaskTypes
<1>3. /\ PaneInv(shown, now, known, {}) /\ SameView(s, shown)
      /\ \A q \in Panes : Held(shown, q) = IF q = p THEN Read(t) ELSE Held(s, q)
      /\ shown.ticket = s.ticket
  BY <1>2, LoadShownKeeps
<1>4. \A q : Tab(shown, q) = Tab(s, q)
  BY <1>3, SameSight
<1> HIDE DEF shown, o
<1>5. /\ PaneInv(spread, now, known, {}) /\ SameView(shown, spread) /\ spread.ticket = shown.ticket
      /\ \A q \in Panes : Tab(s, q) \in Dirs => Held(spread, q) = Held(shown, q)
  <2>1. CASE Tab(o, p) = Storage /\ t.result # Failed
    <3>1. Read(t) \in List /\ Past(Read(t), now) /\ Read(t).of \in Dirs
      BY <1>2, <2>1, ReadTypes
    <3>2. spread = SpreadStorage(shown, p, Read(t))
      BY <2>1
    <3> HIDE DEF spread
    <3> QED
      BY <3>1, <3>2, <1>3, <1>4, SpreadKeeps
  <2>2. CASE ~(Tab(o, p) = Storage /\ t.result # Failed)
    BY <2>2, <1>3 DEF SameView
  <2> QED
    BY <2>1, <2>2
<1> HIDE DEF spread
<1>6. /\ PaneInv(ready, now, known, {})
      /\ \A d \in Dirs : ready.ticket[d] \in {0, spread.ticket[d]} \/ Newly(ready, d)
      /\ Unattended(ready) = {}
      /\ SameView(spread, ready) /\ SameLists(spread, ready)
  BY <1>5, StartReadyKeeps
<1> HIDE DEF ready
<1>7. /\ SameView(s, ready) /\ \A q : Held(ready, q) = Held(spread, q)
      /\ \A d \in Dirs : ready.ticket[d] \in {0, s.ticket[d]} \/ Newly(ready, d)
  BY <1>3, <1>5, <1>6, SameHeld DEF SameView
<1>8. Visible(ready) = Visible(s)
  BY <1>7, SameSight
<1>9. \A q \in Panes : Tab(s, q) \in Dirs =>
        Held(ready, q) = IF q = p THEN Read(t) ELSE Held(s, q)
  BY <1>3, <1>5, <1>7
<1>10. CASE ~o.text[p]
  <2>1. r = ready
    BY <1>10
  <2> QED
    BY <2>1, <1>1, <1>6, <1>7, <1>9 DEF o
<1>11. CASE o.text[p]
  <2>1. r = StartSearch(ready, p)
    BY <1>11
  <2> HIDE DEF r
  <2>2. /\ PaneInv(r, now, known, {}) /\ SameView(ready, r)
        /\ \A d \in Dirs : r.ticket[d] \in {0, ready.ticket[d]}
        /\ \A d \in Dirs : Newly(ready, d) /\ r.ticket[d] # 0 => Newly(r, d)
        /\ \A q \in Panes : Held(r, q) = Held(ready, q)
        /\ p \in Visible(ready) => Unattended(r) \subseteq Unattended(ready)
    BY <2>1, <1>2, <1>6, StartSearchKeeps
  <2>3. SameView(s, r)
    BY <2>2, <1>7 DEF SameView
  <2>4. \A d \in Dirs : r.ticket[d] \in {0, s.ticket[d]} \/ Newly(r, d)
    BY <2>2, <1>7
  <2> QED
    BY <2>2, <2>3, <2>4, <1>1, <1>6, <1>8, <1>9 DEF r, o
<1> QED
  BY <1>10, <1>11

\* What NeverOlder says of a step.
NotOlder(s, r) ==
  \A p \in Panes :
    Tab(r, p) \in Dirs /\ Held(s, p).of # None /\ Held(s, p).of = Held(r, p).of =>
      Held(s, p).at <= Held(r, p).at

LEMMA SameIsNotOlder ==
  ASSUME NEW s \in Window, NEW r, \A p \in Panes : Tab(r, p) \in Dirs => Held(r, p) = Held(s, p)
  PROVE  NotOlder(s, r)
BY HeldTypes, ListTypes DEF NotOlder

\* A refresh has ended: its folder waits for none.
Finished(s, t) == [TaskOver(s, t) EXCEPT !.ticket[t.dir] = 0]

LEMMA FinishedIs ==
  ASSUME NEW s, NEW t \in s.tasks, NEW now \in Versions, NEW known,
         PaneInv(s, now, known, {}), Current(s, t)
  PROVE  LET r == Finished(s, t) IN
         /\ PaneInv(r, now, known \cup {t.dir}, {})
         /\ r \in Window /\ SameView(s, r) /\ SameLists(s, r) /\ SameWaits(s, r)
         /\ r.searching = s.searching /\ r.pending = s.pending
         /\ r.tasks = s.tasks \ {t} /\ r.ticket = [s.ticket EXCEPT ![t.dir] = 0]
<1> DEFINE m == TaskOver(s, t)
           ticket == [m.ticket EXCEPT ![t.dir] = 0]
           r == Finished(s, t)
<1>1. s \in Window
  BY DEF PaneInv, Typed
<1>2. /\ m \in Window /\ SameView(s, m) /\ SameLists(s, m) /\ SameWaits(s, m)
      /\ m.sequence = s.sequence /\ m.ticket = s.ticket /\ m.pending = s.pending
      /\ m.searching = s.searching /\ m.tasks = s.tasks \ {t}
  BY <1>1, TaskOverIs
<1> HIDE DEF m
<1>3. r = [m EXCEPT !.ticket = ticket]
  BY <1>2, FieldTypes DEF Finished, Window, m
<1>4. ticket \in [Dirs -> Nat] /\ t.dir \in Dirs /\ t.kind = "refresh"
  BY <1>1, <1>2, FieldTypes, TaskTypes DEF Current
<1> HIDE DEF r
<1>5. /\ r \in Window /\ SameView(m, r) /\ SameLists(m, r) /\ SameWaits(m, r)
      /\ r.sequence = m.sequence /\ r.pending = m.pending /\ r.ticket = ticket
      /\ r.searching = m.searching /\ r.tasks = m.tasks
  BY <1>2, <1>3, <1>4, FieldTypes DEF Window, SameView, SameLists, SameWaits
<1>6. /\ SameView(s, r) /\ SameLists(s, r) /\ SameWaits(s, r)
      /\ r.sequence = s.sequence /\ r.pending = s.pending
      /\ r.ticket = [s.ticket EXCEPT ![t.dir] = 0]
      /\ r.searching = s.searching /\ r.tasks = s.tasks \ {t}
  BY <1>2, <1>5 DEF SameView, SameLists, SameWaits
<1>7. ASSUME NEW d \in Dirs PROVE Left(s, r, d) \/ Cut(s, r, d, Dirs \ {t.dir})
  <2>1. CASE d = t.dir
    BY <2>1, <1>1, <1>6, FieldTypes DEF Cut
  <2>2. CASE d # t.dir
    BY <2>2, <1>1, <1>6, FieldTypes DEF Left
  <2> QED
    BY <2>1, <2>2
<1>8. Thins(s, r, Dirs \ {t.dir})
  BY <1>4, <1>5, <1>6, <1>7 DEF Thins
<1>9. PaneInv(s, now, known \cup {t.dir}, {})
  BY KnowsMore
<1>10. PaneInv(r, now, known \cup {t.dir}, {})
  <2>1. \A p \in Visible(s) \ {} :
          Tab(s, p) \in Dirs => Tab(s, p) \in (Dirs \ {t.dir}) \cup (known \cup {t.dir})
    OBVIOUS
  <2> QED
    BY <2>1, <1>8, <1>9, ThinsKeeps
<1> QED
  BY <1>5, <1>6, <1>10 DEF r

\* apply_watched_directory_load, before refreshes start.
RefreshTaken(s, t) == {p \in Panes : Takes(s, t, p) /\ ~s.searching[p]}
RefreshKept(s, t) ==
  Queue(s, IF {p \in Panes : Takes(s, t, p)} # RefreshTaken(s, t) THEN {t.dir} ELSE {})
RefreshShown(s, t) ==
  [RefreshKept(s, t) EXCEPT
     !.folder = [p \in Panes |-> IF p \in RefreshTaken(s, t) THEN None ELSE @[p]],
     !.entries = [p \in Panes |-> IF p \in RefreshTaken(s, t) THEN Read(t) ELSE @[p]]]

LEMMA ApplyRefreshIs ==
  ASSUME NEW s, NEW t
  PROVE  ApplyRefresh(s, t) =
           IF t.result = Failed THEN StartReady(s) ELSE StartReady(RefreshShown(s, t))
<1>1. {p \in {q \in Panes : Takes(s, t, q)} : ~s.searching[p]} = RefreshTaken(s, t)
  BY DEF RefreshTaken
<1> QED
  BY <1>1 DEF ApplyRefresh, RefreshShown, RefreshKept

LEMMA RefreshShownIs ==
  ASSUME NEW s \in Window, NEW t, t.dir \in Dirs, Read(t) \in List
  PROVE  LET r == RefreshShown(s, t) IN
         /\ r \in Window /\ SameView(s, r) /\ SameWaits(s, r) /\ r.cache = s.cache
         /\ r.sequence = s.sequence /\ r.ticket = s.ticket /\ r.tasks = s.tasks
         /\ s.pending \subseteq r.pending
         /\ \A p \in Panes : Takes(s, t, p) /\ s.searching[p] => t.dir \in r.pending
         /\ \A p \in Panes : /\ r.folder[p] = IF p \in RefreshTaken(s, t) THEN None ELSE s.folder[p]
                             /\ r.entries[p] = IF p \in RefreshTaken(s, t) THEN Read(t)
                                               ELSE s.entries[p]
<1> DEFINE taken == RefreshTaken(s, t)
           again == IF {p \in Panes : Takes(s, t, p)} # taken THEN {t.dir} ELSE {}
           k == Queue(s, again)
           folder == [p \in Panes |-> IF p \in taken THEN None ELSE s.folder[p]]
           entries == [p \in Panes |-> IF p \in taken THEN Read(t) ELSE s.entries[p]]
           r == RefreshShown(s, t)
<1>1. again \in SUBSET Dirs
      /\ \A p \in Panes : Takes(s, t, p) /\ s.searching[p] => t.dir \in again
  BY DEF RefreshTaken
<1>2. k = RefreshKept(s, t)
  BY DEF RefreshKept
<1> HIDE DEF taken, again
<1>3. /\ k \in Window /\ SameView(s, k) /\ SameLists(s, k) /\ SameWaits(s, k)
      /\ k.sequence = s.sequence /\ k.ticket = s.ticket /\ k.tasks = s.tasks
      /\ k.pending = s.pending \cup again
  BY <1>1, FieldTypes DEF Queue, Window, SameView, SameLists, SameWaits
<1>4. k.folder = s.folder /\ k.entries = s.entries /\ k.cache = s.cache
  BY <1>3 DEF SameLists
<1> HIDE DEF k
<1>5. r = [k EXCEPT !.folder = folder, !.entries = entries]
  BY <1>2, <1>3, <1>4, FieldTypes DEF RefreshShown, taken, Window
<1>6. folder \in [Panes -> List \cup {None}] /\ entries \in [Panes -> List]
  BY FieldTypes
<1> HIDE DEF folder, entries, r
<1>7. /\ r \in Window /\ SameView(k, r) /\ SameWaits(k, r) /\ r.cache = k.cache
      /\ r.sequence = k.sequence /\ r.ticket = k.ticket /\ r.tasks = k.tasks
      /\ r.pending = k.pending /\ r.folder = folder /\ r.entries = entries
  BY <1>3, <1>5, <1>6, FieldTypes DEF Window, SameView, SameWaits
<1>8. SameView(s, r) /\ SameWaits(s, r)
  BY <1>3, <1>7 DEF SameView, SameWaits
<1>9. \A p \in Panes : /\ r.folder[p] = IF p \in taken THEN None ELSE s.folder[p]
                       /\ r.entries[p] = IF p \in taken THEN Read(t) ELSE s.entries[p]
  BY <1>7 DEF folder, entries
<1> QED
  BY <1>1, <1>3, <1>4, <1>7, <1>8, <1>9 DEF r, taken

\* The panes that a current refresh is for are fresh with it, or it is asked for again.
LEMMA RefreshShownKeeps ==
  ASSUME NEW s, NEW t \in s.tasks, NEW now \in Versions, NEW known,
         PaneInv(s, now, known, {}), Current(s, t), t.result # Unread, t.result # Failed
  PROVE  LET r == RefreshShown(Finished(s, t), t) IN
         /\ PaneInv(r, now, known, {}) /\ SameView(s, r) /\ NotOlder(s, r)
         /\ r.ticket = [s.ticket EXCEPT ![t.dir] = 0]
<1> DEFINE f == Finished(s, t)
           r == RefreshShown(f, t)
           taken == RefreshTaken(f, t)
           d == t.dir
<1>1. s \in Window /\ d \in Dirs /\ t.kind = "refresh"
  <2>1. s \in Window
    BY DEF PaneInv, Typed
  <2> QED
    BY <2>1, TaskTypes DEF Current
<1>2. /\ PaneInv(f, now, known \cup {d}, {})
      /\ f \in Window /\ SameView(s, f) /\ SameLists(s, f) /\ SameWaits(s, f)
      /\ f.searching = s.searching /\ f.pending = s.pending
      /\ f.tasks = s.tasks \ {t} /\ f.ticket = [s.ticket EXCEPT ![d] = 0]
  BY FinishedIs
<1>3. /\ Read(t) \in List /\ Read(t) # None /\ Past(Read(t), now)
      /\ HasRead(t) /\ Read(t).of = d /\ Read(t).at = t.result
  BY ReadTypes
<1> HIDE DEF f
<1>4. /\ r \in Window /\ SameView(f, r) /\ SameWaits(f, r) /\ r.cache = f.cache
      /\ r.sequence = f.sequence /\ r.ticket = f.ticket /\ r.tasks = f.tasks
      /\ f.pending \subseteq r.pending
      /\ \A p \in Panes : Takes(f, t, p) /\ f.searching[p] => d \in r.pending
      /\ \A p \in Panes : /\ r.folder[p] = IF p \in taken THEN None ELSE f.folder[p]
                          /\ r.entries[p] = IF p \in taken THEN Read(t) ELSE f.entries[p]
  BY <1>1, <1>2, <1>3, RefreshShownIs
<1> HIDE DEF r
<1>5. /\ SameView(s, r) /\ r.req = s.req /\ r.loading = s.loading /\ r.storage = s.storage
      /\ r.cache = s.cache /\ r.ticket = [s.ticket EXCEPT ![d] = 0] /\ r.tasks = s.tasks \ {t}
      /\ s.pending \subseteq r.pending
      /\ \A p \in Panes : /\ r.folder[p] = IF p \in taken THEN None ELSE s.folder[p]
                          /\ r.entries[p] = IF p \in taken THEN Read(t) ELSE s.entries[p]
  BY <1>2, <1>4 DEF SameView, SameLists, SameWaits
<1>6. /\ Visible(r) = Visible(s) /\ Visible(s) \subseteq Panes
      /\ \A q : Tab(r, q) = Tab(s, q)
      /\ \A x : Showing(f, x) = Showing(s, x)
      /\ Visible(r) = Visible(f) /\ \A q : Tab(r, q) = Tab(f, q) /\ Held(f, q) = Held(s, q)
      /\ r.req = f.req /\ r.loading = f.loading /\ r.storage = f.storage
      /\ f.req = s.req
  BY <1>1, <1>2, <1>4, <1>5, SameSight, SameHeld, ViewTypes DEF SameWaits
<1>7. \A p \in Panes : Held(r, p) = IF p \in taken THEN Read(t) ELSE Held(s, p)
  BY <1>5 DEF Held
\* Nobody else asks for a pane that the refresh is for.
<1>8. ASSUME NEW p \in Panes, Takes(f, t, p)
      PROVE  /\ p \in Visible(s) /\ Tab(s, p) = d /\ Asks(t, p, s.req[p])
             /\ \A u \in r.tasks : ~Asks(u, p, r.req[p])
  <2>1. p \in Showing(s, d) /\ <<p, s.req[p]>> \in t.requests
    BY <1>6, <1>8 DEF Takes
  <2>2. p \in Visible(s) /\ Tab(s, p) = d /\ Asks(t, p, s.req[p]) /\ s.req[p] \in Nat
    BY <2>1, <1>1, FieldTypes DEF Showing, Asks
  <2>3. Sole(s)
    BY DEF PaneInv
  <2> QED
    BY <2>2, <2>3, <1>5 DEF Sole
<1>9. \A p \in taken : p \in Panes /\ Takes(f, t, p)
  BY DEF RefreshTaken
<1> HIDE DEF taken
<1>10. Typed(r) /\ Numbered(r) /\ Sole(r)
  <2>1. Typed(f) /\ Numbered(f) /\ Sole(f)
    BY <1>2 DEF PaneInv
  <2>2. Typed(r)
    BY <2>1, <1>4 DEF Typed
  <2>3. Numbered(r) /\ Sole(r)
    BY <2>1, <1>4, <1>6 DEF Numbered, Sole
  <2> QED
    BY <2>2, <2>3
<1>11. Awaits(r, {})
  BY <1>2, <1>4, <1>6 DEF PaneInv, Awaits, AwaitsOwn
<1>12. Shows(r)
  <2>1. ASSUME NEW q \in Visible(s)
        PROVE  IF Tab(s, q) \in Dirs THEN Held(r, q).of \in {Tab(s, q), None}
               ELSE /\ r.folder[q] = None
                    /\ r.cache \in {Empty, Drives} => r.entries[q] \in {Empty, Drives}
    <3>1. q \in Panes /\ Shows(s)
      BY <2>1, <1>6 DEF PaneInv
    <3>2. CASE q \in taken
      BY <3>1, <3>2, <1>1, <1>3, <1>7, <1>8, <1>9
    <3>3. CASE q \notin taken
      BY <2>1, <3>1, <3>3, <1>5, <1>7 DEF Shows
    <3> QED
      BY <3>2, <3>3
  <2> QED
    BY <2>1, <1>6 DEF Shows
<1>13. Dated(r, now)
  BY <1>3, <1>5, <1>7 DEF PaneInv, Dated
<1>14. Ordered(r)
  BY <1>5, <1>7, <1>8, <1>9 DEF PaneInv, Ordered
<1>15. NotOlder(s, r)
  <2>1. ASSUME NEW p \in Panes, Held(s, p).of # None, Held(s, p).of = Held(r, p).of
        PROVE  Held(s, p).at <= Held(r, p).at
    <3>1. CASE p \in taken
      BY <2>1, <3>1, <1>3, <1>7, <1>8, <1>9 DEF PaneInv, Ordered
    <3>2. CASE p \notin taken
      BY <2>1, <3>2, <1>1, <1>7, HeldTypes, ListTypes
    <3> QED
      BY <3>1, <3>2
  <2> QED
    BY <2>1 DEF NotOlder
<1>16. Fresh(r, now, known, {})
  <2>1. Fresh(s, now, known, {}) /\ Fresh(f, now, known \cup {d}, {}) /\ Numbered(s) /\ Sole(s)
    BY <1>2 DEF PaneInv
  <2>2. ASSUME NEW u \in r.tasks, Current(r, u), Outdated(u, now)
        PROVE  u.dir \in known \cup r.pending
    <3>1. u \in s.tasks /\ u.kind = "refresh" /\ u.ticket # 0 /\ u.ticket = r.ticket[u.dir]
          /\ u.dir \in Dirs
      BY <2>1, <2>2, <1>1, <1>5, TaskTypes DEF Current, Numbered
    <3>2. u.dir # d /\ s.ticket[u.dir] = r.ticket[u.dir]
      BY <3>1, <1>1, <1>5, FieldTypes
    <3>3. Current(s, u)
      BY <3>1, <3>2 DEF Current
    <3> QED
      BY <3>1, <3>3, <2>1, <2>2, <1>5 DEF Fresh
  <2>3. ASSUME NEW q \in Visible(s), Tab(s, q) \in Dirs PROVE FreshPane(r, q, now, known)
    <3>1. FreshPane(s, q, now, known) /\ FreshPane(f, q, now, known \cup {d})
          /\ q \in Panes /\ AwaitsOwn(s, q)
      BY <2>1, <2>3, <1>6 DEF Fresh, PaneInv, Awaits
    <3>2. ASSUME NEW u \in r.tasks, u.kind = "load", Asks(u, q, r.req[q]), Outdated(u, now)
          PROVE  u.dir \in known \cup r.pending
      BY <3>1, <3>2, <1>5 DEF FreshPane
    <3>3. ASSUME ~r.loading[q], Held(r, q).of = Tab(s, q), Held(r, q).at < now[Tab(s, q)]
          PROVE  Refreshed(r, q, now, known)
      <4>1. CASE q \in taken
        <5>1. Outdated(t, now) /\ Tab(s, q) = d
          BY <3>3, <4>1, <1>3, <1>7, <1>8, <1>9 DEF Outdated
        <5>2. d \in known \cup s.pending
          BY <5>1, <2>1 DEF Fresh
        <5> QED
          BY <5>1, <5>2, <1>5, <1>6 DEF Refreshed
      <4>2. CASE q \notin taken /\ Takes(f, t, q)
        <5>1. d \in r.pending /\ Tab(s, q) = d
          BY <4>2, <3>1, <1>4, <1>8 DEF RefreshTaken, taken
        <5> QED
          BY <5>1, <1>6 DEF Refreshed
      <4>3. CASE ~Takes(f, t, q)
        <5>1. q \notin taken
          BY <4>3, <1>9
        <5>2. Refreshed(s, q, now, known)
          BY <3>1, <3>3, <5>1, <1>5, <1>7 DEF FreshPane
        <5>3. CASE Tab(s, q) \in known \cup s.pending
          BY <5>3, <1>5, <1>6 DEF Refreshed
        <5>4. CASE \E u \in s.tasks : /\ Current(s, u) /\ u.dir = Tab(s, q) /\ Asks(u, q, s.req[q])
                                      /\ u.result \in {Unread, Failed, now[u.dir]}
          <6>1. PICK u \in s.tasks : /\ Current(s, u) /\ u.dir = Tab(s, q) /\ Asks(u, q, s.req[q])
                                     /\ u.result \in {Unread, Failed, now[u.dir]}
            BY <5>4
          <6>2. u # t
            <7>1. SUFFICES ASSUME u = t PROVE FALSE
              OBVIOUS
            <7>2. q \in Showing(f, d) /\ <<q, f.req[q]>> \in t.requests
              BY <6>1, <7>1, <2>3, <1>1, <1>6 DEF Showing, Asks
            <7> QED
              BY <7>2, <4>3 DEF Takes
          <6>3. u.dir # d
            BY <6>1, <6>2, <2>1 DEF Sole, Current
          <6>4. u \in r.tasks /\ Current(r, u)
            BY <6>1, <6>2, <6>3, <1>1, <1>5, FieldTypes, TaskTypes DEF Current
          <6> QED
            BY <6>1, <6>4, <1>5, <1>6 DEF Refreshed
        <5> QED
          BY <5>2, <5>3, <5>4 DEF Refreshed
      <4> QED
        BY <4>1, <4>2, <4>3
    <3> QED
      BY <3>2, <3>3, <1>6 DEF FreshPane
  <2> QED
    BY <2>2, <2>3, <1>6 DEF Fresh
<1> QED
  BY <1>5, <1>10, <1>11, <1>12, <1>13, <1>14, <1>15, <1>16 DEF PaneInv, r, f

\* A task has listed its folder as it is, or has failed.
LEMMA AnsweredKeeps ==
  ASSUME NEW s, NEW t \in s.tasks, NEW result, NEW now \in Versions, NEW known,
         PaneInv(s, now, known, {}), t.result = Unread, result \in {now[t.dir], Failed}
  PROVE  LET r == [s EXCEPT !.tasks = (@ \ {t}) \cup {[t EXCEPT !.result = result]}] IN
         /\ PaneInv(r, now, known, {}) /\ SameView(s, r) /\ SameLists(s, r)
         /\ Unattended(r) \subseteq Unattended(s)
<1> DEFINE v == [t EXCEPT !.result = result]
           tasks == (s.tasks \ {t}) \cup {v}
           r == [s EXCEPT !.tasks = tasks]
<1>1. s \in Window
  BY DEF PaneInv, Typed
<1>2. t \in Load \cup Refresh /\ t.dir \in Dirs /\ t.kind \in {"load", "refresh"}
      /\ now[t.dir] \in 0..MaxEdits
  BY <1>1, TaskTypes DEF Versions
<1>3. result \in Outcome /\ (result # Failed => result = now[t.dir])
  BY <1>2 DEF Outcome
<1>4. /\ v \in Load \cup Refresh /\ v.kind = t.kind /\ v.dir = t.dir /\ v.result = result
      /\ t.kind = "load" => v.pane = t.pane /\ v.req = t.req
      /\ t.kind = "refresh" => v.ticket = t.ticket /\ v.requests = t.requests
  <2>1. CASE t \in Load
    BY <2>1, <1>3 DEF Load
  <2>2. CASE t \in Refresh
    BY <2>2, <1>3 DEF Refresh
  <2> QED
    BY <2>1, <2>2, <1>2
<1> HIDE DEF v
<1>5. /\ \A p, n : Asks(v, p, n) <=> Asks(t, p, n)
      /\ ~Outdated(v, now) /\ ~HasRead(t)
      /\ HasRead(v) => v.result = now[v.dir]
      /\ v.result \in {Unread, Failed, now[v.dir]}
      /\ \A x : x.ticket = s.ticket => (Current(x, v) <=> Current(s, t))
  <2>1. \A p, n : Asks(v, p, n) <=> Asks(t, p, n)
    BY <1>2, <1>4 DEF Asks
  <2>2. now[t.dir] # Failed /\ now[t.dir] \in Int
    BY <1>2 DEF Failed
  <2>3. ~Outdated(v, now) /\ ~HasRead(t)
    BY <2>2, <1>3, <1>4 DEF Outdated, HasRead
  <2>4. \A x : x.ticket = s.ticket => (Current(x, v) <=> Current(s, t))
    BY <1>4 DEF Current
  <2> QED
    BY <2>1, <2>3, <2>4, <1>3, <1>4 DEF HasRead
<1>6. tasks \in SUBSET (Load \cup Refresh)
  BY <1>1, <1>4, FieldTypes
<1> HIDE DEF tasks, r
<1>7. /\ r \in Window /\ SameView(s, r) /\ SameLists(s, r) /\ SameWaits(s, r)
      /\ r.sequence = s.sequence /\ r.ticket = s.ticket /\ r.pending = s.pending
      /\ r.searching = s.searching /\ r.tasks = tasks
  BY <1>1, <1>6, FieldTypes DEF r, Window, SameView, SameLists, SameWaits
<1>8. /\ Visible(r) = Visible(s) /\ Visible(s) \subseteq Panes /\ Folders(r) = Folders(s)
      /\ \A x : Showing(r, x) = Showing(s, x)
      /\ \A q : Tab(r, q) = Tab(s, q) /\ Held(r, q) = Held(s, q)
      /\ r.entries = s.entries /\ r.folder = s.folder /\ r.cache = s.cache
      /\ r.req = s.req /\ r.loading = s.loading /\ r.storage = s.storage
  BY <1>1, <1>7, SameSight, SameHeld, ViewTypes DEF SameLists, SameWaits
\* Every task is there before and after, with another result at most.
<1>9. /\ v \in r.tasks
      /\ \A u \in r.tasks : u = v \/ (u \in s.tasks /\ u # t)
      /\ \A u \in s.tasks : u = t \/ u \in r.tasks
  BY <1>7 DEF tasks
<1>10. Typed(r) /\ Numbered(r)
  <2>1. Typed(s) /\ Numbered(s)
    BY DEF PaneInv
  <2>2. Typed(r)
    BY <2>1, <1>7 DEF Typed
  <2>3. Numbered(r)
    BY <2>1, <1>4, <1>5, <1>7, <1>8, <1>9 DEF Numbered
  <2> QED
    BY <2>2, <2>3
<1>11. Sole(r)
  <2>1. Sole(s)
    BY DEF PaneInv
  <2>2. ASSUME NEW u \in r.tasks, NEW w \in r.tasks, NEW p \in Panes, NEW n \in Nat,
               Asks(u, p, n), Asks(w, p, n)
        PROVE  u = w
    BY <2>1, <2>2, <1>5, <1>9 DEF Sole
  <2>3. ASSUME NEW u \in r.tasks, NEW w \in r.tasks,
               u.kind = "refresh", w.kind = "refresh", u.dir = w.dir, u.ticket = w.ticket
        PROVE  u = w
    BY <2>1, <2>3, <1>4, <1>9 DEF Sole
  <2> QED
    BY <2>2, <2>3 DEF Sole
<1>12. Awaits(r, {})
  <2>1. ASSUME NEW q \in Visible(s) PROVE AwaitsOwn(r, q)
    <3>1. AwaitsOwn(s, q)
      BY <2>1 DEF PaneInv, Awaits
    <3>2. \A u \in r.tasks : Asks(u, q, r.req[q]) =>
            \E w \in s.tasks : w.dir = u.dir /\ w.kind = u.kind /\ Asks(w, q, s.req[q])
      BY <1>4, <1>5, <1>8, <1>9
    <3>3. \A w \in s.tasks : w.kind = "load" /\ Asks(w, q, s.req[q]) =>
            \E u \in r.tasks : u.kind = "load" /\ Asks(u, q, r.req[q])
      BY <1>4, <1>5, <1>8, <1>9
    <3> QED
      BY <3>1, <3>2, <3>3, <1>8 DEF AwaitsOwn
  <2> QED
    BY <2>1, <1>8 DEF Awaits
<1>13. Shows(r)
  BY <1>8 DEF PaneInv, Shows
<1>14. Dated(r, now) /\ Ordered(r)
  <2>1. Dated(s, now) /\ Ordered(s)
    BY DEF PaneInv
  <2>2. \A u \in r.tasks : HasRead(u) => u.result <= now[u.dir]
    BY <2>1, <1>2, <1>4, <1>5, <1>9 DEF Dated
  <2>3. Dated(r, now)
    BY <2>1, <2>2, <1>8 DEF Dated
  <2>4. ASSUME NEW u \in r.tasks, NEW p \in Panes,
               Asks(u, p, r.req[p]), HasRead(u), Held(r, p).of = u.dir
        PROVE  Held(r, p).at <= u.result
    <3>1. CASE u = v
      BY <3>1, <2>1, <2>4, <1>2, <1>4, <1>5, <1>8 DEF Dated, Past
    <3>2. CASE u # v
      BY <3>2, <2>1, <2>4, <1>8, <1>9 DEF Ordered
    <3> QED
      BY <3>1, <3>2
  <2> QED
    BY <2>3, <2>4 DEF Ordered
<1>15. Fresh(r, now, known, {})
  <2>1. Fresh(s, now, known, {})
    BY DEF PaneInv
  <2>2. \A u \in r.tasks : Current(r, u) /\ Outdated(u, now) => u.dir \in known \cup r.pending
    BY <2>1, <1>5, <1>7, <1>9 DEF Fresh, Current
  <2>3. ASSUME NEW q \in Visible(s), Tab(s, q) \in Dirs PROVE FreshPane(r, q, now, known)
    <3>1. FreshPane(s, q, now, known)
      BY <2>1, <2>3 DEF Fresh
    <3>2. \A u \in r.tasks : Outdated(u, now) => u \in s.tasks
      BY <1>5, <1>9
    <3>3. ASSUME Refreshed(s, q, now, known) PROVE Refreshed(r, q, now, known)
      <4>1. CASE Tab(s, q) \in known \cup s.pending
        BY <4>1, <1>7, <1>8 DEF Refreshed
      <4>2. CASE \E u \in s.tasks : /\ Current(s, u) /\ u.dir = Tab(s, q) /\ Asks(u, q, s.req[q])
                                    /\ u.result \in {Unread, Failed, now[u.dir]}
        <5>1. PICK u \in s.tasks : /\ Current(s, u) /\ u.dir = Tab(s, q) /\ Asks(u, q, s.req[q])
                                   /\ u.result \in {Unread, Failed, now[u.dir]}
          BY <4>2
        <5>2. CASE u = t
          BY <5>1, <5>2, <1>4, <1>5, <1>7, <1>8, <1>9 DEF Refreshed
        <5>3. CASE u # t
          BY <5>1, <5>3, <1>7, <1>8, <1>9 DEF Refreshed, Current
        <5> QED
          BY <5>2, <5>3
      <4> QED
        BY <3>3, <4>1, <4>2 DEF Refreshed
    <3> QED
      BY <3>1, <3>2, <3>3, <1>7, <1>8 DEF FreshPane
  <2> QED
    BY <2>2, <2>3, <1>8 DEF Fresh
<1>16. Unattended(r) \subseteq Unattended(s)
  <2>1. LoadComing(s) => LoadComing(r)
    BY <1>4, <1>8, <1>9 DEF LoadComing
  <2> QED
    BY <2>1, <1>7, <1>8 DEF Unattended, Forgotten
<1> QED
  BY <1>7, <1>10, <1>11, <1>12, <1>13, <1>14, <1>15, <1>16 DEF PaneInv, r, tasks, v

-----------------------------------------------------------------------------
(* Other places, more panes and fewer.                                     *)

\* What is still visible is where it was, but for the panes of `except`, which are empty.
Turned(s, r, except) ==
  /\ r \in Window /\ SameWaits(s, r) /\ r.cache = s.cache
  /\ \A q \in Visible(r) \ except : q \in Visible(s) /\ Tab(r, q) = Tab(s, q)
  /\ \A q \in Panes \ except : r.entries[q] = s.entries[q] /\ r.folder[q] = s.folder[q]
  /\ \A q \in except : r.entries[q] = Empty /\ r.folder[q] = None
  /\ r.sequence = s.sequence /\ r.ticket = s.ticket /\ r.pending = s.pending
  /\ r.tasks = s.tasks

LEMMA TurnedKeeps ==
  ASSUME NEW s, NEW r, NEW except, NEW now, NEW known,
         PaneInv(s, now, known, {}), Turned(s, r, except)
  PROVE  PaneInv(r, now, known, except)
<1>1. s \in Window /\ r \in Window
  BY DEF PaneInv, Typed, Turned
<1>2. /\ r.req = s.req /\ r.loading = s.loading /\ r.storage = s.storage /\ r.cache = s.cache
      /\ r.sequence = s.sequence /\ r.ticket = s.ticket /\ r.pending = s.pending
      /\ r.tasks = s.tasks
      /\ \A q \in Visible(r) \ except : q \in Visible(s) /\ Tab(r, q) = Tab(s, q)
      /\ Visible(r) \subseteq Panes
  BY <1>1, ViewTypes DEF Turned, SameWaits
<1>3. \A q \in Panes : Held(r, q) = IF q \in except THEN Empty ELSE Held(s, q)
  BY DEF Turned, Held
<1>4. Empty.of = None /\ None \notin Dirs
  BY ListTypes
<1>5. Typed(r) /\ Numbered(r) /\ Sole(r)
  BY <1>1, <1>2 DEF PaneInv, Typed, Numbered, Sole
<1>6. Awaits(r, except)
  <2>1. ASSUME NEW q \in Visible(r) \ except PROVE AwaitsOwn(r, q)
    <3>1. AwaitsOwn(s, q)
      BY <2>1, <1>2 DEF PaneInv, Awaits
    <3> QED
      BY <3>1, <2>1, <1>2 DEF AwaitsOwn
  <2> QED
    BY <2>1 DEF Awaits
<1>7. Shows(r)
  <2>1. Shows(s)
    BY DEF PaneInv
  <2>2. ASSUME NEW q \in Visible(r)
        PROVE  IF Tab(r, q) \in Dirs THEN Held(r, q).of \in {Tab(r, q), None}
               ELSE /\ r.folder[q] = None
                    /\ r.cache \in {Empty, Drives} => r.entries[q] \in {Empty, Drives}
    <3>1. CASE q \in except
      BY <2>2, <3>1, <1>2, <1>3, <1>4 DEF Turned
    <3>2. CASE q \notin except
      <4>1. q \in Visible(s) /\ Tab(r, q) = Tab(s, q) /\ q \in Panes /\ Held(r, q) = Held(s, q)
            /\ r.entries[q] = s.entries[q] /\ r.folder[q] = s.folder[q]
        BY <2>2, <3>2, <1>2, <1>3 DEF Turned
      <4> QED
        BY <4>1, <2>1, <1>2 DEF Shows
    <3> QED
      BY <3>1, <3>2
  <2> QED
    BY <2>2 DEF Shows
<1>8. Dated(r, now)
  BY <1>2, <1>3, <1>4 DEF PaneInv, Dated, Past
<1>9. Ordered(r)
  <2>1. \A t \in s.tasks : t.dir \in Dirs
    BY <1>1, TaskTypes
  <2> QED
    BY <2>1, <1>2, <1>3, <1>4 DEF PaneInv, Ordered
<1>10. Fresh(r, now, known, except)
  <2>1. Fresh(s, now, known, {})
    BY DEF PaneInv
  <2>2. ASSUME NEW q \in Visible(r) \ except, Tab(r, q) \in Dirs PROVE FreshPane(r, q, now, known)
    <3>1. q \in Visible(s) /\ Tab(r, q) = Tab(s, q) /\ q \in Panes /\ Held(r, q) = Held(s, q)
      BY <2>2, <1>2, <1>3
    <3>2. FreshPane(s, q, now, known)
      BY <2>1, <2>2, <3>1 DEF Fresh
    <3> QED
      BY <3>1, <3>2, <1>2 DEF FreshPane, Refreshed, Current
  <2> QED
    BY <2>1, <2>2, <1>2 DEF Fresh, Current
<1> QED
  BY <1>5, <1>6, <1>7, <1>8, <1>9, <1>10 DEF PaneInv

LEMMA EmptiedIs ==
  ASSUME NEW s \in Window, NEW p \in Panes
  PROVE  LET r == [s EXCEPT !.entries[p] = Empty, !.folder[p] = None] IN
         /\ r \in Window /\ SameView(s, r) /\ SameWaits(s, r) /\ r.cache = s.cache
         /\ r.sequence = s.sequence /\ r.ticket = s.ticket /\ r.pending = s.pending
         /\ r.tasks = s.tasks
         /\ r.entries = [s.entries EXCEPT ![p] = Empty] /\ r.folder = [s.folder EXCEPT ![p] = None]
<1> DEFINE entries == [s.entries EXCEPT ![p] = Empty]
           folder == [s.folder EXCEPT ![p] = None]
           r == [s EXCEPT !.entries = entries, !.folder = folder]
<1>1. entries \in [Panes -> List] /\ folder \in [Panes -> List \cup {None}]
  BY FieldTypes, ListTypes
<1>2. r = [s EXCEPT !.entries[p] = Empty, !.folder[p] = None]
  BY FieldTypes DEF Window
<1> HIDE DEF entries, folder
<1>3. /\ r \in Window /\ SameView(s, r) /\ SameWaits(s, r) /\ r.cache = s.cache
      /\ r.sequence = s.sequence /\ r.ticket = s.ticket /\ r.pending = s.pending
      /\ r.tasks = s.tasks /\ r.entries = entries /\ r.folder = folder
  BY <1>1, FieldTypes DEF Window, SameView, SameWaits
<1> HIDE DEF r
<1> QED
  BY <1>2, <1>3 DEF entries, folder

LEMMA LoadComingForgets ==
  ASSUME NEW s, LoadComing(s) PROVE Forgotten(s) = {}
BY DEF Forgotten

\* start_navigation_load, from a window whose pane p is about to be somewhere else.
LEMMA NavigationKeeps ==
  ASSUME NEW s, NEW m \in Window, NEW p \in Panes, NEW now \in Versions, NEW known,
         PaneInv(s, now, known, {}),
         SameLists(s, m), SameWaits(s, m), m.sequence = s.sequence, m.ticket = s.ticket,
         m.pending = s.pending, m.tasks = s.tasks,
         \A q \in Visible(m) \ {p} : q \in Visible(s) /\ Tab(m, q) = Tab(s, q)
  PROVE  LET r == StartNavigation(m, p) IN
         /\ PaneInv(r, now, known, {}) /\ NotOlder(s, r)
         /\ \A d \in Dirs : r.ticket[d] \in {0, s.ticket[d]}
         /\ Tab(m, p) \in Dirs => Forgotten(r) = {}
<1> DEFINE e == [m EXCEPT !.entries[p] = Empty, !.folder[p] = None]
           r == StartLoad(e, p)
<1>1. /\ e \in Window /\ SameView(m, e) /\ SameWaits(m, e) /\ e.cache = m.cache
      /\ e.sequence = m.sequence /\ e.ticket = m.ticket /\ e.pending = m.pending
      /\ e.tasks = m.tasks
      /\ e.entries = [m.entries EXCEPT ![p] = Empty] /\ e.folder = [m.folder EXCEPT ![p] = None]
  BY EmptiedIs
<1>2. r = StartNavigation(m, p)
  BY DEF StartNavigation
<1>3. s \in Window /\ m.entries = s.entries /\ m.folder = s.folder /\ m.cache = s.cache
  BY DEF PaneInv, Typed, SameLists
<1> HIDE DEF e
<1>4. Visible(e) = Visible(m) /\ \A q : Tab(e, q) = Tab(m, q)
  BY <1>1, SameSight
<1>5. /\ e.entries[p] = Empty /\ e.folder[p] = None
      /\ \A q \in Panes \ {p} : e.entries[q] = s.entries[q] /\ e.folder[q] = s.folder[q]
  BY <1>1, <1>3, FieldTypes
<1>6. Turned(s, e, {p})
  BY <1>1, <1>3, <1>4, <1>5 DEF Turned, SameWaits
<1>7. PaneInv(e, now, known, {p})
  BY <1>6, TurnedKeeps
<1>8. /\ PaneInv(r, now, known, {}) /\ SameView(e, r)
      /\ \A d \in Dirs : r.ticket[d] \in {0, e.ticket[d]}
      /\ \A q \in Panes : Tab(e, q) \in Dirs \/ q # p => Held(r, q) = Held(e, q)
      /\ Tab(e, p) \in Dirs => LoadComing(r)
  BY <1>5, <1>7, StartLoadKeeps
<1> HIDE DEF r
<1>9. \A q : Tab(r, q) = Tab(e, q)
  BY <1>8, SameSight
<1>10. Held(e, p) = Empty /\ \A q \in Panes \ {p} : Held(e, q) = Held(s, q)
  BY <1>5 DEF Held
<1>11. NotOlder(s, r)
  <2>1. ASSUME NEW q \in Panes, Tab(r, q) \in Dirs,
               Held(s, q).of # None, Held(s, q).of = Held(r, q).of
        PROVE  Held(s, q).at <= Held(r, q).at
    <3>1. CASE q = p
      BY <2>1, <3>1, <1>8, <1>9, <1>10, ListTypes
    <3>2. CASE q # p
      BY <2>1, <3>2, <1>3, <1>8, <1>10, HeldTypes, ListTypes
    <3> QED
      BY <3>1, <3>2
  <2> QED
    BY <2>1 DEF NotOlder
<1> QED
  BY <1>1, <1>2, <1>4, <1>8, <1>11, LoadComingForgets

-----------------------------------------------------------------------------
(* The steps.                                                              *)

\* What is left to show once a handler has been shown to keep the window in order.
LEMMA WindowStep ==
  ASSUME TypeOK', disk' = disk, NEW known,
         PaneInv(win', disk, known, {}),
         \A d \in known \ Known' : d \in Dirs => d \in win'.pending \/ Newly(win', d),
         Unattended(win') \subseteq dropped'
  PROVE  RefreshInv'
<1>1. PaneInv(win', disk', Known', {})
  BY KnowsLess
<1>2. RefreshIsWaitedFor'
  BY DEF RefreshIsWaitedFor, Unattended
<1> QED
  BY <1>1, <1>2 DEF RefreshInv

LEMMA InvFacts ==
  ASSUME RefreshInv
  PROVE  /\ PaneInv(win, disk, Known, {}) /\ win \in Window /\ disk \in Versions
         /\ Unattended(win) \subseteq dropped
BY DEF RefreshInv, PaneInv, Typed, TypeOK, Versions, RefreshIsWaitedFor, Unattended

\* A message of the user.
LEMMA ActKeeps ==
  ASSUME RefreshInv, NEW s, NEW left \in SUBSET Dirs, Act(s, left),
         PaneInv(s, disk, Known, {}),
         \A d \in Dirs : s.ticket[d] \in {0, win.ticket[d]} \/ Newly(s, d),
         Unattended(s) \subseteq left \cup Unattended(win)
  PROVE  RefreshInv'
<1>1. /\ acts < MaxActs /\ acts' = acts + 1 /\ win' = s
      /\ dropped' = (dropped \cup left) \ Started(win, s)
      /\ disk' = disk /\ watched' = watched /\ untold' = untold /\ taking' = taking
      /\ silent' = silent /\ failures' = failures
  BY DEF Act, env
<1>2. TypeOK /\ Unattended(win) \subseteq dropped
  BY InvFacts DEF RefreshInv
<1>3. TypeOK'
  <2>1. win' \in Window /\ \A d \in Dirs : win'.ticket[d] <= win'.sequence
    BY <1>1 DEF PaneInv, Typed
  <2>2. (Feed!TypeOK)'
    BY <1>1, <1>2 DEF TypeOK, Feed!TypeOK
  <2> QED
    BY <2>1, <2>2, <1>1, <1>2, RefreshAssumption DEF TypeOK
<1>4. \A d \in Known \ Known' : d \in Dirs => d \in win'.pending \/ Newly(win', d)
  BY <1>1 DEF Known, Started
<1>5. \A d \in Unattended(s) : d \notin Started(win, s)
  BY DEF Unattended, Forgotten, Started
<1>6. Unattended(win') \subseteq dropped'
  BY <1>1, <1>2, <1>5
<1> QED
  BY <1>1, <1>3, <1>4, <1>6, WindowStep

LEMMA ForgottenTypes ==
  ASSUME NEW s \in Window
  PROVE  Forgotten(s) \in SUBSET Dirs /\ Unattended(s) \subseteq Forgotten(s)
BY FieldTypes DEF Forgotten, Unattended

LEMMA NavigateKeeps ==
  ASSUME RefreshInv, NEW p \in Panes, Navigate(p)
  PROVE  RefreshInv' /\ NotOlder(win, win')
<1>1. PICK place \in Places \ {win.tab[p]} :
        LET s == StartNavigation([win EXCEPT !.tab[p] = place], p) IN
        Act(s, IF place = Storage THEN Forgotten(s) ELSE {})
  BY DEF Navigate
<1> DEFINE m == [win EXCEPT !.tab[p] = place]
           s == StartNavigation(m, p)
           left == IF place = Storage THEN Forgotten(s) ELSE {}
<1>2. p \in Visible(win) /\ win \in Window /\ Act(s, left) /\ win' = s
  BY <1>1, InvFacts DEF Navigate, Act
<1>3. /\ m \in Window /\ SameLists(win, m) /\ SameWaits(win, m) /\ m.sequence = win.sequence
      /\ m.ticket = win.ticket /\ m.pending = win.pending /\ m.tasks = win.tasks
      /\ m.split = win.split /\ m.tab = [win.tab EXCEPT ![p] = place]
  BY <1>2, FieldTypes DEF Window, SameLists, SameWaits
<1> HIDE DEF m
<1>4. /\ Visible(m) = Visible(win)
      /\ \A q \in Visible(m) \ {p} : q \in Visible(win) /\ Tab(m, q) = Tab(win, q)
      /\ Tab(m, p) = place
  BY <1>2, <1>3, FieldTypes, RefreshAssumption DEF Visible, Tab, Panes
<1>5. /\ PaneInv(s, disk, Known, {}) /\ NotOlder(win, s)
      /\ \A d \in Dirs : s.ticket[d] \in {0, win.ticket[d]}
      /\ Tab(m, p) \in Dirs => Forgotten(s) = {}
  BY <1>3, <1>4, InvFacts, NavigationKeeps
<1> HIDE DEF s
<1>6. s \in Window
  BY <1>5 DEF PaneInv, Typed
<1>7. left \in SUBSET Dirs /\ Unattended(s) \subseteq left
  BY <1>1, <1>4, <1>5, <1>6, ForgottenTypes DEF Places
<1> QED
  BY <1>2, <1>5, <1>7, ActKeeps

LEMMA OpenSplitKeeps ==
  ASSUME RefreshInv, OpenSplit
  PROVE  RefreshInv' /\ NotOlder(win, win')
<1> DEFINE m == [win EXCEPT !.split = TRUE, !.tab[Secondary] = Home, !.text[Secondary] = FALSE]
           s == StartNavigation(m, Secondary)
<1>1. ~win.split /\ win \in Window /\ Act(s, {}) /\ win' = s
  BY InvFacts DEF OpenSplit, Act
<1>2. Secondary \in Panes /\ Primary \in Panes /\ Primary # Secondary /\ Home \in Dirs
  BY RefreshAssumption DEF Panes
<1>3. /\ m \in Window /\ SameLists(win, m) /\ SameWaits(win, m) /\ m.sequence = win.sequence
      /\ m.ticket = win.ticket /\ m.pending = win.pending /\ m.tasks = win.tasks
      /\ m.split = TRUE /\ m.tab = [win.tab EXCEPT ![Secondary] = Home]
  <2> DEFINE tab == [win.tab EXCEPT ![Secondary] = Home]
             text == [win.text EXCEPT ![Secondary] = FALSE]
  <2>1. m = [win EXCEPT !.split = TRUE, !.tab = tab, !.text = text]
    BY <1>1, FieldTypes DEF Window
  <2>2. tab \in [Panes -> Places] /\ text \in [Panes -> BOOLEAN]
    BY <1>1, <1>2, FieldTypes DEF Places
  <2> HIDE DEF tab, text, m
  <2>3. /\ m \in Window /\ SameLists(win, m) /\ SameWaits(win, m) /\ m.sequence = win.sequence
        /\ m.ticket = win.ticket /\ m.pending = win.pending /\ m.tasks = win.tasks
        /\ m.split = TRUE /\ m.tab = tab
    BY <1>1, <2>1, <2>2, FieldTypes DEF Window, SameLists, SameWaits
  <2> QED
    BY <2>3 DEF tab
<1> HIDE DEF m
<1>4. /\ \A q \in Visible(m) \ {Secondary} : q \in Visible(win) /\ Tab(m, q) = Tab(win, q)
      /\ Tab(m, Secondary) = Home
  BY <1>1, <1>2, <1>3, FieldTypes DEF Visible, Tab, Panes
<1>5. /\ PaneInv(s, disk, Known, {}) /\ NotOlder(win, s)
      /\ \A d \in Dirs : s.ticket[d] \in {0, win.ticket[d]}
      /\ Forgotten(s) = {}
  BY <1>2, <1>3, <1>4, InvFacts, NavigationKeeps
<1> HIDE DEF s
<1>6. Unattended(s) = {}
  BY <1>5 DEF Unattended
<1> QED
  BY <1>1, <1>5, <1>6, ActKeeps

LEMMA CloseSecondTabKeeps ==
  ASSUME RefreshInv, CloseSecondTab
  PROVE  RefreshInv' /\ NotOlder(win, win')
<1> DEFINE m == [win EXCEPT !.split = FALSE, !.text[Secondary] = win.text[Primary]]
           s == StartNavigation(m, Secondary)
           left == IF win.tab[Primary] = Storage THEN Forgotten(s) ELSE {}
<1>1. win.split /\ win \in Window /\ Act(s, left) /\ win' = s
  BY InvFacts DEF CloseSecondTab, Act
<1>2. Secondary \in Panes /\ Primary \in Panes /\ Primary # Secondary
  BY RefreshAssumption DEF Panes
<1>3. /\ m \in Window /\ SameLists(win, m) /\ SameWaits(win, m) /\ m.sequence = win.sequence
      /\ m.ticket = win.ticket /\ m.pending = win.pending /\ m.tasks = win.tasks
      /\ m.split = FALSE /\ m.tab = win.tab
  <2> DEFINE text == [win.text EXCEPT ![Secondary] = win.text[Primary]]
  <2>1. m = [win EXCEPT !.split = FALSE, !.text = text]
    BY <1>1, FieldTypes DEF Window
  <2>2. text \in [Panes -> BOOLEAN]
    BY <1>1, <1>2, FieldTypes
  <2> HIDE DEF text, m
  <2> QED
    BY <1>1, <2>1, <2>2, FieldTypes DEF Window, SameLists, SameWaits
<1> HIDE DEF m
<1>4. /\ \A q \in Visible(m) \ {Secondary} : q \in Visible(win) /\ Tab(m, q) = Tab(win, q)
      /\ Tab(m, Secondary) = win.tab[Primary] /\ win.tab[Primary] \in Dirs \cup {Storage}
  BY <1>1, <1>2, <1>3, FieldTypes DEF Visible, Tab, Panes, Places
<1>5. /\ PaneInv(s, disk, Known, {}) /\ NotOlder(win, s)
      /\ \A d \in Dirs : s.ticket[d] \in {0, win.ticket[d]}
      /\ Tab(m, Secondary) \in Dirs => Forgotten(s) = {}
  BY <1>2, <1>3, <1>4, InvFacts, NavigationKeeps
<1> HIDE DEF s
<1>6. s \in Window
  BY <1>5 DEF PaneInv, Typed
<1>7. left \in SUBSET Dirs /\ Unattended(s) \subseteq left
  BY <1>4, <1>5, <1>6, ForgottenTypes
<1> QED
  BY <1>1, <1>5, <1>7, ActKeeps

LEMMA ReloadKeeps ==
  ASSUME RefreshInv, NEW p \in Panes, Reload(p)
  PROVE  RefreshInv' /\ NotOlder(win, win')
<1> DEFINE s == StartLoad(win, p)
           u == RefreshStorage(s)
<1>1. p \in Visible(win) /\ win \in Window /\ PaneInv(win, disk, Known, {})
  BY InvFacts DEF Reload
<1>2. win.tab[p] = Tab(win, p) /\ Tab(win, p) \in Dirs \cup {Storage} /\ Storage \notin Dirs
  BY <1>1, ViewTypes DEF Visible, Tab
<1>3. PaneInv(win, disk, Known, {p}) /\ (Tab(win, p) = Storage => win.folder[p] = None)
  BY <1>1, <1>2, Excepted DEF PaneInv, Shows
<1>4. /\ PaneInv(s, disk, Known, {}) /\ SameView(win, s)
      /\ \A d \in Dirs : s.ticket[d] \in {0, win.ticket[d]}
      /\ \A q \in Panes : Tab(win, q) \in Dirs \/ q # p => Held(s, q) = Held(win, q)
      /\ Tab(win, p) \in Dirs => LoadComing(s)
  BY <1>3, InvFacts, StartLoadKeeps
<1> HIDE DEF s
<1>5. s \in Window /\ \A q : Tab(s, q) = Tab(win, q)
  BY <1>4, SameSight DEF PaneInv, Typed
<1>6. NotOlder(win, s)
  BY <1>1, <1>4, <1>5, SameIsNotOlder
<1>7. CASE Tab(win, p) = Storage
  <2>1. Act(s, Forgotten(s)) /\ win' = s
    BY <1>2, <1>7 DEF Reload, Act, s
  <2>2. Forgotten(s) \in SUBSET Dirs /\ Unattended(s) \subseteq Forgotten(s)
    BY <1>5, ForgottenTypes
  <2> QED
    BY <2>1, <2>2, <1>4, <1>6, ActKeeps
<1>8. CASE Tab(win, p) # Storage
  <2>1. Act(u, {}) /\ win' = u
    BY <1>2, <1>8 DEF Reload, Act, s
  <2>2. /\ PaneInv(u, disk, Known, {}) /\ SameView(s, u) /\ SameLists(s, u)
        /\ u.ticket = s.ticket /\ u.tasks = s.tasks /\ u.req = s.req
    BY <1>4, RefreshStorageKeeps
  <2> HIDE DEF u
  <2>3. Unattended(u) = {}
    <3>1. LoadComing(u)
      BY <2>2, <1>2, <1>4, <1>8 DEF LoadComing
    <3> QED
      BY <3>1, LoadComingForgets DEF Unattended
  <2>4. NotOlder(win, u)
    <3>1. \A q \in Panes : Tab(u, q) = Tab(s, q) /\ Held(u, q) = Held(s, q)
      BY <2>2, SameSight, SameHeld
    <3> QED
      BY <3>1, <1>6 DEF NotOlder
  <2> QED
    BY <2>1, <2>2, <2>3, <2>4, <1>4, ActKeeps
<1> QED
  BY <1>7, <1>8

\* The user types in the search box, or empties it.
LEMMA SearchChangedKeeps ==
  ASSUME RefreshInv, NEW p \in Panes, SearchChanged(p)
  PROVE  RefreshInv' /\ NotOlder(win, win')
<1> DEFINE m(typed) == [win EXCEPT !.text[p] = typed]
<1>1. p \in Visible(win) /\ win \in Window /\ PaneInv(win, disk, Known, {})
  BY InvFacts DEF SearchChanged
<1>2. ASSUME NEW typed \in BOOLEAN
      PROVE  /\ PaneInv(m(typed), disk, Known, {}) /\ SameView(win, m(typed))
             /\ SameLists(win, m(typed)) /\ m(typed).ticket = win.ticket
             /\ Unattended(m(typed)) = Unattended(win)
             /\ m(typed).searching = win.searching
  <2> DEFINE text == [win.text EXCEPT ![p] = typed]
             r == [win EXCEPT !.text = text]
  <2>1. r = m(typed)
    BY <1>1, FieldTypes DEF Window
  <2>2. text \in [Panes -> BOOLEAN]
    BY <1>1, FieldTypes
  <2> HIDE DEF text
  <2>3. Alike(win, r) /\ r.searching = win.searching
    BY <1>1, <2>2, FieldTypes DEF Alike, Window, SameView, SameLists, SameWaits
  <2> HIDE DEF r
  <2>4. PaneInv(r, disk, Known, {})
    BY <1>1, <2>3, AlikeKeeps
  <2>5. Unattended(r) = Unattended(win)
    <3>1. SameView(win, r) /\ r.pending = win.pending /\ r.ticket = win.ticket
          /\ r.tasks = win.tasks /\ r.req = win.req
      BY <2>3 DEF Alike, SameWaits
    <3>2. Folders(r) = Folders(win) /\ \A d : Showing(r, d) = Showing(win, d)
      BY <3>1, SameSight
    <3> QED
      BY <2>3, <3>1, <3>2 DEF Unattended, Forgotten, LoadComing
  <2> HIDE DEF m
  <2> QED
    BY <2>1, <2>3, <2>4, <2>5 DEF Alike
<1> HIDE DEF m
\* Whatever comes of m.
<1>3. ASSUME NEW typed \in BOOLEAN, NEW s, Act(s, {}), PaneInv(s, disk, Known, {}),
             SameView(m(typed), s),
             \A d \in Dirs : s.ticket[d] \in {0, m(typed).ticket[d]} \/ Newly(s, d),
             \A q \in Panes : Held(s, q) = Held(m(typed), q),
             Unattended(s) \subseteq Unattended(win)
      PROVE  RefreshInv' /\ NotOlder(win, win')
  <2>1. \A q \in Panes : Held(s, q) = Held(win, q)
    BY <1>2, <1>3, SameHeld
  <2>2. NotOlder(win, s)
    BY <1>1, <2>1, SameIsNotOlder
  <2>3. RefreshInv'
    BY <1>2, <1>3, ActKeeps
  <2> QED
    BY <1>3, <2>2, <2>3 DEF Act
<1>4. CASE Act(StartSearch(m(TRUE), p), {})
  <2> DEFINE s == StartSearch(m(TRUE), p)
  <2>1. p \in Visible(m(TRUE))
    BY <1>1, <1>2, SameSight
  <2>2. /\ PaneInv(s, disk, Known, {}) /\ SameView(m(TRUE), s)
        /\ \A d \in Dirs : s.ticket[d] \in {0, m(TRUE).ticket[d]}
        /\ \A q \in Panes : Held(s, q) = Held(m(TRUE), q)
        /\ Unattended(s) \subseteq Unattended(m(TRUE))
    BY <1>2, <2>1, InvFacts, StartSearchKeeps
  <2> HIDE DEF s
  <2>3. Act(s, {})
    BY <1>4 DEF s
  <2>4. Unattended(s) \subseteq Unattended(win)
    BY <2>2, <1>2
  <2> QED
    BY <2>2, <2>3, <2>4, <1>3
<1>5. CASE Act(ClearSearch(m(FALSE), p), {})
  <2> DEFINE c == Cleared(m(FALSE), p)
             s == StartReady(c)
  <2>1. s = ClearSearch(m(FALSE), p)
    BY DEF ClearSearch, Cleared
  <2>2. /\ PaneInv(c, disk, Known, {}) /\ SameView(m(FALSE), c) /\ c.ticket = m(FALSE).ticket
        /\ \A q \in Panes : Held(c, q) = Held(m(FALSE), q)
    BY <1>2, ClearedKeeps
  <2> HIDE DEF c
  <2>3. /\ PaneInv(s, disk, Known, {})
        /\ \A d \in Dirs : s.ticket[d] \in {0, c.ticket[d]} \/ Newly(s, d)
        /\ Unattended(s) = {}
        /\ SameView(c, s) /\ SameLists(c, s)
    BY <2>2, InvFacts, StartReadyKeeps
  <2>4. Act(s, {})
    BY <1>5, <2>1
  <2> HIDE DEF s
  <2>5. SameView(m(FALSE), s) /\ \A q \in Panes : Held(s, q) = Held(m(FALSE), q)
    <3>1. SameView(m(FALSE), s)
      BY <2>2, <2>3 DEF SameView
    <3>2. \A q \in Panes : Held(s, q) = Held(c, q)
      BY <2>3, SameHeld
    <3> QED
      BY <3>1, <3>2, <2>2
  <2> QED
    BY <2>2, <2>3, <2>4, <2>5, <1>3
<1> QED
  BY <1>4, <1>5 DEF SearchChanged, m

LEMMA CloseSplitKeeps ==
  ASSUME RefreshInv, CloseSplit
  PROVE  RefreshInv' /\ NotOlder(win, win')
<1> DEFINE s == [win EXCEPT !.split = FALSE, !.desired = {win.tab[Primary]} \cap Dirs]
<1>1. win.split /\ win \in Window /\ Act(s, Forgotten(s)) /\ win' = s
  BY InvFacts DEF CloseSplit, Act
<1>2. {win.tab[Primary]} \cap Dirs \subseteq Dirs
  OBVIOUS
<1>3. /\ s \in Window /\ SameLists(win, s) /\ SameWaits(win, s) /\ s.sequence = win.sequence
      /\ s.ticket = win.ticket /\ s.pending = win.pending /\ s.tasks = win.tasks
      /\ s.split = FALSE /\ s.tab = win.tab
  <2> DEFINE desired == {win.tab[Primary]} \cap Dirs
  <2>1. s = [win EXCEPT !.split = FALSE, !.desired = desired] /\ desired \in SUBSET Dirs
    OBVIOUS
  <2> HIDE DEF desired, s
  <2> QED
    BY <1>1, <2>1, FieldTypes DEF Window, SameLists, SameWaits
<1> HIDE DEF s
<1>4. /\ Visible(s) \subseteq Visible(win) /\ Primary \in Visible(s)
      /\ \A q \in Visible(s) : Tab(s, q) = Tab(win, q)
  BY <1>1, <1>3 DEF Visible, Tab, Panes
<1>5. Turned(win, s, {})
  BY <1>3, <1>4 DEF Turned, SameLists
<1>6. PaneInv(s, disk, Known, {})
  BY <1>5, InvFacts, TurnedKeeps
<1>7. Forgotten(s) \in SUBSET Dirs /\ Unattended(s) \subseteq Forgotten(s)
  BY <1>3, ForgottenTypes
<1>8. NotOlder(win, s)
  <2>1. \A q \in Panes : Held(s, q) = Held(win, q)
    BY <1>3, SameHeld
  <2> QED
    BY <2>1, <1>1, SameIsNotOlder
<1> QED
  BY <1>1, <1>3, <1>6, <1>7, <1>8, ActKeeps

\* A step of the window, or of another thread, that is no message of the user.
LEMMA StepTypes ==
  ASSUME TypeOK, win' \in Window, \A d \in Dirs : win'.ticket[d] <= win'.sequence,
         disk' \in Versions, watched' \subseteq Dirs, untold' \subseteq Dirs,
         taking' \in (SUBSET Dirs) \cup {None}, acts' = acts, failures' \in 0..MaxFailures,
         silent' \subseteq Dirs, dropped' \subseteq Dirs
  PROVE  TypeOK'
<1>1. (Feed!TypeOK)'
  BY DEF Feed!TypeOK
<1> QED
  BY <1>1 DEF TypeOK, Versions

\* Folders of which it is known have changed.
LEMMA DiskGrows ==
  ASSUME NEW s, NEW now \in Versions, NEW next \in Versions, NEW known,
         PaneInv(s, now, known, {}),
         \A d \in Dirs : now[d] <= next[d] /\ (d \notin known => next[d] = now[d])
  PROVE  PaneInv(s, next, known, {})
<1>1. s \in Window /\ Dated(s, now) /\ Fresh(s, now, known, {})
  BY DEF PaneInv, Typed
<1>2. \A t \in s.tasks : t.dir \in Dirs /\ t.result \in Outcome
  BY <1>1, TaskTypes
<1>3. \A d \in Dirs : now[d] \in Int /\ next[d] \in Int
  BY RefreshAssumption DEF Versions
<1>4. \A list \in List : Past(list, now) => Past(list, next)
  BY <1>3, ListTypes DEF Past
<1>5. Dated(s, next)
  <2>1. \A p \in Panes : Held(s, p) \in List
    BY <1>1, HeldTypes
  <2>2. s.cache \in List
    BY <1>1, FieldTypes
  <2>3. \A t \in s.tasks : HasRead(t) => t.result <= next[t.dir]
    BY <1>1, <1>2, <1>3, RefreshAssumption DEF Dated, HasRead, Outcome, Unread, Failed
  <2> QED
    BY <2>1, <2>2, <2>3, <1>1, <1>4 DEF Dated
<1>6. Fresh(s, next, known, {})
  <2>1. \A t \in s.tasks : t.dir \notin known => next[t.dir] = now[t.dir]
    BY <1>2
  <2>2. \A t \in s.tasks : Current(s, t) /\ Outdated(t, next) => t.dir \in known \cup s.pending
    BY <2>1, <1>1 DEF Fresh, Outdated
  <2>3. ASSUME NEW p \in Visible(s), Tab(s, p) \in Dirs PROVE FreshPane(s, p, next, known)
    <3>1. FreshPane(s, p, now, known)
      BY <2>3, <1>1 DEF Fresh
    <3>2. \A t \in s.tasks :
            t.kind = "load" /\ Asks(t, p, s.req[p]) /\ Outdated(t, next) =>
              t.dir \in known \cup s.pending
      BY <2>1, <3>1 DEF FreshPane, Outdated
    <3>3. CASE Tab(s, p) \in known
      BY <3>2, <3>3 DEF FreshPane, Refreshed
    <3>4. CASE Tab(s, p) \notin known
      <4>1. next[Tab(s, p)] = now[Tab(s, p)]
        BY <2>3, <3>4
      <4>2. Refreshed(s, p, now, known) => Refreshed(s, p, next, known)
        BY <4>1 DEF Refreshed
      <4> QED
        BY <3>1, <3>2, <4>1, <4>2 DEF FreshPane
    <3> QED
      BY <3>3, <3>4
  <2> QED
    BY <2>2, <2>3 DEF Fresh
<1> QED
  BY <1>5, <1>6 DEF PaneInv

LEMMA EditKeeps ==
  ASSUME RefreshInv, NEW d \in Dirs, Edit(d)
  PROVE  RefreshInv' /\ NotOlder(win, win')
<1>1. TypeOK /\ win \in Window /\ disk \in Versions /\ PaneInv(win, disk, Known, {})
      /\ RefreshIsWaitedFor
  BY InvFacts DEF RefreshInv
<1>2. /\ disk[d] < MaxEdits /\ disk' = [disk EXCEPT ![d] = @ + 1] /\ watched' = watched
      /\ untold' = untold \cup ({d} \cap watched)
      /\ silent' = IF d \in watched THEN silent \ {d} ELSE silent \cup {d}
      /\ win' = win /\ taking' = taking /\ acts' = acts /\ failures' = failures
      /\ dropped' = dropped
  BY DEF Edit, Feed!Change
<1>3. disk' \in Versions /\ \A x \in Dirs : disk[x] <= disk'[x] /\ (x # d => disk'[x] = disk[x])
  BY <1>1, <1>2, RefreshAssumption DEF Versions
<1>4. TypeOK'
  <2>1. /\ watched \subseteq Dirs /\ untold \subseteq Dirs /\ silent \subseteq Dirs
        /\ dropped \subseteq Dirs /\ taking \in (SUBSET Dirs) \cup {None}
        /\ failures \in 0..MaxFailures /\ \A x \in Dirs : win.ticket[x] <= win.sequence
    BY <1>1 DEF TypeOK, Feed!TypeOK
  <2> QED
    BY <2>1, <1>1, <1>2, <1>3, StepTypes
<1>5. Known \subseteq Known' /\ d \in Known'
  BY <1>2 DEF Known
<1>6. PaneInv(win, disk', Known', {})
  <2>1. PaneInv(win, disk, Known', {})
    BY <1>1, <1>5, KnowsMore
  <2> QED
    BY <2>1, <1>1, <1>3, <1>5, DiskGrows
<1>7. RefreshIsWaitedFor'
  BY <1>1, <1>2 DEF RefreshIsWaitedFor
<1> QED
  BY <1>1, <1>2, <1>4, <1>6, <1>7, SameIsNotOlder DEF RefreshInv

\* The watcher's thread takes over the folders to watch.
LEMMA DesiredKeeps ==
  ASSUME RefreshInv, TakeDesired \/ ApplyDesired
  PROVE  RefreshInv' /\ NotOlder(win, win')
<1>1. TypeOK /\ win \in Window /\ disk \in Versions /\ PaneInv(win, disk, Known, {})
      /\ Unattended(win) \subseteq dropped
  BY InvFacts DEF RefreshInv
<1>2. /\ watched \subseteq Dirs /\ untold \subseteq Dirs /\ silent \subseteq Dirs
      /\ dropped \subseteq Dirs /\ taking \in (SUBSET Dirs) \cup {None}
      /\ failures \in 0..MaxFailures /\ \A x \in Dirs : win.ticket[x] <= win.sequence
      /\ win.desired \subseteq Dirs
  BY <1>1, FieldTypes DEF TypeOK, Feed!TypeOK
<1>3. /\ win' = win /\ disk' = disk /\ acts' = acts /\ failures' = failures /\ dropped' = dropped
      /\ watched' \subseteq Dirs /\ untold' \subseteq Dirs /\ silent' \subseteq Dirs
      /\ taking' \in (SUBSET Dirs) \cup {None}
      /\ Known \subseteq Known'
  <2>1. CASE TakeDesired
    BY <2>1, <1>2 DEF TakeDesired, Known
  <2>2. CASE ApplyDesired
    <3>1. /\ taking \in SUBSET Dirs /\ taking' = None /\ watched' = taking
          /\ untold' = untold \cap Feed!Below(taking) /\ silent' = silent \cup (untold \ taking)
          /\ win' = win /\ disk' = disk /\ acts' = acts /\ failures' = failures
          /\ dropped' = dropped
      BY <2>2, <1>2 DEF ApplyDesired, Feed!Watch
    <3>2. Feed!Below(taking) = taking
      BY <3>1 DEF Feed!Below
    <3> QED
      BY <3>1, <3>2, <1>2 DEF Known
  <2> QED
    BY <2>1, <2>2
<1>4. TypeOK'
  BY <1>1, <1>2, <1>3, StepTypes
<1>5. PaneInv(win', disk, Known', {})
  BY <1>1, <1>3, KnowsMore
<1> QED
  BY <1>1, <1>3, <1>4, <1>5, WindowStep, SameIsNotOlder

\* refresh_watched_directories.
LEMMA DirectoriesChangedKeeps ==
  ASSUME RefreshInv, DirectoriesChanged
  PROVE  RefreshInv' /\ NotOlder(win, win')
<1>1. PICK told \in (SUBSET untold) \ {{}} :
        /\ Feed!Read(told)
        /\ win' = StartReady(Queue(win, told))
        /\ dropped' = dropped \ Started(win, win')
        /\ UNCHANGED <<disk, taking, silent, acts, failures>>
  BY DEF DirectoriesChanged
<1> DEFINE m == Queue(win, told)
           s == StartReady(m)
           less == (untold \ told) \cup silent \cup dropped
<1>2. TypeOK /\ win \in Window /\ disk \in Versions /\ PaneInv(win, disk, Known, {})
  BY InvFacts DEF RefreshInv
<1>3. /\ watched \subseteq Dirs /\ untold \subseteq Dirs /\ silent \subseteq Dirs
      /\ dropped \subseteq Dirs /\ taking \in (SUBSET Dirs) \cup {None}
      /\ failures \in 0..MaxFailures
  BY <1>2 DEF TypeOK, Feed!TypeOK
<1>4. /\ win' = s /\ disk' = disk /\ taking' = taking /\ acts' = acts /\ failures' = failures
      /\ silent' = silent /\ dropped' = dropped \ Started(win, s)
      /\ watched' = watched /\ untold' = untold \ told
  BY <1>1 DEF Feed!Read
<1>5. /\ Thins(win, m, Dirs) /\ m.pending = win.pending \cup told /\ m.ticket = win.ticket
      /\ m \in Window
  <2>1. told \in SUBSET Dirs
    BY <1>3
  <2>2. Thins(win, m, Dirs) /\ m.pending = win.pending \cup told /\ m.ticket = win.ticket
    BY <2>1, <1>2, QueueThins
  <2> QED
    BY <2>2 DEF Thins
<1> HIDE DEF m
<1>6. PaneInv(m, disk, less, {})
  <2>1. PaneInv(m, disk, Known, {})
    BY <1>2, <1>5, ThinsKeeps
  <2>2. \A d \in Known \ less : d \in Dirs => d \in m.pending \/ Newly(m, d)
    BY <1>5 DEF Known
  <2> HIDE DEF less
  <2> QED
    BY <2>1, <2>2, KnowsLess
<1>7. /\ PaneInv(s, disk, less, {})
      /\ \A d \in Dirs : s.ticket[d] \in {0, m.ticket[d]} \/ Newly(s, d)
      /\ Unattended(s) = {}
      /\ SameView(m, s) /\ SameLists(m, s)
  BY <1>2, <1>6, StartReadyKeeps
<1> HIDE DEF s
<1>8. TypeOK'
  <2>1. s \in Window /\ \A d \in Dirs : s.ticket[d] <= s.sequence
    BY <1>7 DEF PaneInv, Typed
  <2> QED
    BY <2>1, <1>2, <1>3, <1>4, StepTypes
<1>9. \A d \in less \ Known' : d \in Dirs => d \in win'.pending \/ Newly(win', d)
  BY <1>4, <1>5, <1>7 DEF Known, Started
<1>10. NotOlder(win, s)
  <2>1. SameView(win, m) /\ SameLists(win, m)
    BY <1>5 DEF Thins
  <2>2. \A q \in Panes : Held(s, q) = Held(m, q) /\ Held(m, q) = Held(win, q)
    BY <2>1, <1>7, SameHeld
  <2> QED
    BY <2>2, <1>2, SameIsNotOlder
<1> HIDE DEF less
<1> QED
  BY <1>4, <1>7, <1>8, <1>9, <1>10, WindowStep

\* Nothing that Unattended speaks of has changed.
LEMMA SameUnattended ==
  ASSUME NEW s, NEW r, SameView(s, r), r.pending = s.pending, r.ticket = s.ticket,
         r.searching = s.searching, LoadComing(s) => LoadComing(r)
  PROVE  Unattended(r) \subseteq Unattended(s)
BY SameSight DEF Unattended, Forgotten

LEMMA ListEntriesKeeps ==
  ASSUME RefreshInv, ListEntries
  PROVE  RefreshInv' /\ NotOlder(win, win')
<1>1. PICK t \in win.tasks :
        /\ t.result = Unread
        /\ \/ win' = [win EXCEPT !.tasks = Answered(t, disk[t.dir])] /\ UNCHANGED failures
           \/ /\ failures < MaxFailures /\ failures' = failures + 1
              /\ win' = [win EXCEPT !.tasks = Answered(t, Failed)]
        /\ UNCHANGED <<env, acts, dropped>>
  BY DEF ListEntries
<1>2. TypeOK /\ win \in Window /\ disk \in Versions /\ PaneInv(win, disk, Known, {})
      /\ Unattended(win) \subseteq dropped
  BY InvFacts DEF RefreshInv
<1>3. /\ watched \subseteq Dirs /\ untold \subseteq Dirs /\ silent \subseteq Dirs
      /\ dropped \subseteq Dirs /\ taking \in (SUBSET Dirs) \cup {None}
      /\ failures \in 0..MaxFailures
  BY <1>2 DEF TypeOK, Feed!TypeOK
<1>4. PICK result \in {disk[t.dir], Failed} : win' = [win EXCEPT !.tasks = Answered(t, result)]
  BY <1>1
<1>5. /\ disk' = disk /\ watched' = watched /\ untold' = untold /\ taking' = taking
      /\ silent' = silent /\ acts' = acts /\ dropped' = dropped /\ failures' \in 0..MaxFailures
  BY <1>1, <1>3, RefreshAssumption DEF env
<1>6. win' = [win EXCEPT !.tasks = (@ \ {t}) \cup {[t EXCEPT !.result = result]}]
  BY <1>4 DEF Answered
<1>7. /\ PaneInv(win', disk, Known, {}) /\ SameView(win, win') /\ SameLists(win, win')
      /\ Unattended(win') \subseteq Unattended(win)
  BY <1>1, <1>2, <1>4, <1>6, AnsweredKeeps
<1>8. TypeOK'
  <2>1. win' \in Window /\ \A d \in Dirs : win'.ticket[d] <= win'.sequence
    BY <1>7 DEF PaneInv, Typed
  <2> QED
    BY <2>1, <1>2, <1>3, <1>5, StepTypes
<1>9. NotOlder(win, win')
  BY <1>2, <1>7, SameHeld, SameIsNotOlder
<1>10. Known' = Known /\ Unattended(win') \subseteq dropped'
  BY <1>2, <1>5, <1>7 DEF Known
<1> QED
  BY <1>5, <1>7, <1>8, <1>9, <1>10, WindowStep

\* Message::Loaded.
LEMMA LoadedKeeps ==
  ASSUME RefreshInv, Loaded
  PROVE  RefreshInv' /\ NotOlder(win, win')
<1>1. PICK t \in win.tasks :
        LET s == [win EXCEPT !.tasks = @ \ {t}] IN
        /\ t.kind = "load" /\ t.result # Unread
        /\ win' = IF Expected(s, t) THEN ApplyLoad(s, t) ELSE s
        /\ dropped' = (dropped \cup IF t.pane \in Visible(win) THEN {} ELSE Forgotten(win'))
                      \ Started(win, win')
        /\ UNCHANGED <<env, acts, failures>>
  BY DEF Loaded
<1> DEFINE m == TaskOver(win, t)
<1>2. TypeOK /\ win \in Window /\ disk \in Versions /\ PaneInv(win, disk, Known, {})
      /\ Unattended(win) \subseteq dropped
  BY InvFacts DEF RefreshInv
<1>3. /\ watched \subseteq Dirs /\ untold \subseteq Dirs /\ silent \subseteq Dirs
      /\ dropped \subseteq Dirs /\ taking \in (SUBSET Dirs) \cup {None}
      /\ failures \in 0..MaxFailures
  BY <1>2 DEF TypeOK, Feed!TypeOK
<1>4. /\ disk' = disk /\ watched' = watched /\ untold' = untold /\ taking' = taking
      /\ silent' = silent /\ acts' = acts /\ failures' = failures
  BY <1>1 DEF env
<1>5. /\ m \in Window /\ SameView(win, m) /\ SameLists(win, m) /\ SameWaits(win, m)
      /\ m.ticket = win.ticket /\ m.pending = win.pending /\ m.searching = win.searching
      /\ m.tasks = win.tasks \ {t}
  BY <1>2, TaskOverIs
<1>6. win' = (IF Expected(m, t) THEN ApplyLoad(m, t) ELSE m)
      /\ dropped' = (dropped \cup IF t.pane \in Visible(win) THEN {} ELSE Forgotten(win'))
                    \ Started(win, win')
      /\ t.kind = "load" /\ t.result # Unread
  BY <1>1 DEF TaskOver
<1>7. t.pane \in Panes /\ (Expected(m, t) <=> t.req = win.req[t.pane])
  BY <1>2, <1>5, <1>6, TaskTypes DEF Expected, SameWaits
<1>8. /\ PaneInv(win', disk, Known, {}) /\ SameView(win, win')
      /\ \A d \in Dirs : win'.ticket[d] \in {0, win.ticket[d]} \/ Newly(win', d)
      /\ t.pane \in Visible(win) => Unattended(win') \subseteq Unattended(win)
      /\ NotOlder(win, win')
  <2>1. CASE t.req = win.req[t.pane]
    <3>1. win' = ApplyLoad(m, t)
      BY <2>1, <1>6, <1>7
    <3> HIDE DEF m
    <3>2. /\ PaneInv(win', disk, Known, {}) /\ SameView(win, win')
          /\ \A d \in Dirs : win'.ticket[d] \in {0, win.ticket[d]} \/ Newly(win', d)
          /\ \A q \in Panes : Tab(win, q) \in Dirs =>
               Held(win', q) = IF q = t.pane THEN Read(t) ELSE Held(win, q)
          /\ t.pane \in Visible(win) => Unattended(win') = {}
      <4> DEFINE r == ApplyLoad(TaskOver(win, t), t)
      <4>1. win' = r
        BY <3>1 DEF m
      <4>2. /\ PaneInv(r, disk, Known, {}) /\ SameView(win, r)
            /\ \A d \in Dirs : r.ticket[d] \in {0, win.ticket[d]} \/ Newly(r, d)
            /\ \A q \in Panes : Tab(win, q) \in Dirs =>
                 Held(r, q) = IF q = t.pane THEN Read(t) ELSE Held(win, q)
            /\ t.pane \in Visible(win) => Unattended(r) = {}
        BY <2>1, <1>2, <1>6, ApplyLoadKeeps
      <4> HIDE DEF r
      <4> QED
        BY <4>1, <4>2
    <3>3. NotOlder(win, win')
      <4>1. \A q : Tab(win', q) = Tab(win, q)
        BY <3>2, SameSight
      <4>2. /\ Read(t).of \in {t.dir, None}
            /\ t.result # Failed => HasRead(t) /\ Read(t).at = t.result
            /\ Read(t).of = t.dir => t.result # Failed
        BY <1>2, <1>6, ReadTypes
      <4>3. Asks(t, t.pane, win.req[t.pane]) /\ Ordered(win)
        BY <2>1, <1>2, <1>6 DEF Asks, PaneInv
      <4>4. ASSUME NEW q \in Panes, Tab(win', q) \in Dirs,
                   Held(win, q).of # None, Held(win, q).of = Held(win', q).of
            PROVE  Held(win, q).at <= Held(win', q).at
        <5>1. CASE q = t.pane
          BY <5>1, <4>1, <4>2, <4>3, <4>4, <3>2 DEF Ordered
        <5>2. CASE q # t.pane
          BY <5>2, <4>1, <4>4, <3>2, <1>2, HeldTypes, ListTypes
        <5> QED
          BY <5>1, <5>2
      <4> QED
        BY <4>4 DEF NotOlder
    <3> QED
      BY <3>2, <3>3
  <2>2. CASE t.req # win.req[t.pane]
    <3>1. win' = m
      BY <2>2, <1>6, <1>7
    <3>2. ~Current(win, t)
      BY <1>6 DEF Current
    <3>3. PaneInv(m, disk, Known, {})
      BY <2>2, <3>2, <1>2, TaskOverKeeps
    <3> HIDE DEF m
    <3>4. LoadComing(win) => LoadComing(m)
      BY <2>2, <1>5 DEF LoadComing, SameWaits
    <3>5. Unattended(m) \subseteq Unattended(win)
      BY <3>4, <1>5, SameUnattended
    <3>6. NotOlder(win, m)
      BY <1>2, <1>5, SameHeld, SameIsNotOlder
    <3> QED
      BY <3>1, <3>3, <3>5, <3>6, <1>5
  <2> QED
    BY <2>1, <2>2
<1> HIDE DEF m
<1>9. win' \in Window /\ \A d \in Dirs : win'.ticket[d] <= win'.sequence
  BY <1>8 DEF PaneInv, Typed
<1>10. Forgotten(win') \subseteq Dirs /\ Unattended(win') \subseteq Forgotten(win')
  BY <1>9, ForgottenTypes
<1>11. TypeOK'
  <2>1. dropped' \subseteq Dirs
    BY <1>3, <1>6, <1>10
  <2> QED
    BY <2>1, <1>2, <1>3, <1>4, <1>9, StepTypes
<1>12. \A d \in Known \ Known' : d \in Dirs => d \in win'.pending \/ Newly(win', d)
  BY <1>4, <1>6, <1>8 DEF Known, Started
<1>13. Unattended(win') \subseteq dropped'
  <2>1. \A d \in Unattended(win') : d \notin Started(win, win')
    BY DEF Unattended, Forgotten, Started
  <2> QED
    BY <2>1, <1>2, <1>6, <1>8, <1>10
<1> QED
  BY <1>4, <1>8, <1>11, <1>12, <1>13, WindowStep

\* apply_watched_directory_load.
LEMMA WatchedDirectoryLoadedKeeps ==
  ASSUME RefreshInv, WatchedDirectoryLoaded
  PROVE  RefreshInv' /\ NotOlder(win, win')
<1>1. PICK t \in win.tasks :
        LET s == [win EXCEPT !.tasks = @ \ {t}]
            finished == [s EXCEPT !.ticket[t.dir] = 0] IN
        /\ t.kind = "refresh" /\ t.result # Unread
        /\ IF s.ticket[t.dir] = t.ticket
           THEN /\ win' = ApplyRefresh(finished, t)
                /\ dropped' = (dropped \cup IF t.result = Failed THEN {t.dir} ELSE {})
                              \ Started(finished, win')
           ELSE win' = s /\ UNCHANGED dropped
        /\ UNCHANGED <<env, acts, failures>>
  BY DEF WatchedDirectoryLoaded
<1> DEFINE m == TaskOver(win, t)
           f == Finished(win, t)
<1>2. TypeOK /\ win \in Window /\ disk \in Versions /\ PaneInv(win, disk, Known, {})
      /\ Unattended(win) \subseteq dropped
  BY InvFacts DEF RefreshInv
<1>3. /\ watched \subseteq Dirs /\ untold \subseteq Dirs /\ silent \subseteq Dirs
      /\ dropped \subseteq Dirs /\ taking \in (SUBSET Dirs) \cup {None}
      /\ failures \in 0..MaxFailures
  BY <1>2 DEF TypeOK, Feed!TypeOK
<1>4. /\ disk' = disk /\ watched' = watched /\ untold' = untold /\ taking' = taking
      /\ silent' = silent /\ acts' = acts /\ failures' = failures
  BY <1>1 DEF env
<1>5. t.dir \in Dirs /\ t.kind = "refresh" /\ t.result # Unread
  BY <1>1, <1>2, TaskTypes
<1>6. /\ m \in Window /\ SameView(win, m) /\ SameLists(win, m) /\ SameWaits(win, m)
      /\ m.ticket = win.ticket /\ m.pending = win.pending /\ m.searching = win.searching
      /\ m.tasks = win.tasks \ {t}
  BY <1>2, TaskOverIs
<1>7. IF Current(win, t)
      THEN /\ win' = ApplyRefresh(f, t)
           /\ dropped' = (dropped \cup IF t.result = Failed THEN {t.dir} ELSE {})
                         \ Started(f, win')
      ELSE win' = m /\ dropped' = dropped
  <2>1. m = [win EXCEPT !.tasks = @ \ {t}] /\ f = [m EXCEPT !.ticket[t.dir] = 0]
    BY DEF TaskOver, Finished
  <2>2. m.ticket[t.dir] = t.ticket <=> Current(win, t)
    BY <1>5, <1>6 DEF Current
  <2> HIDE DEF m, f
  <2> QED
    BY <2>1, <2>2, <1>1
<1> HIDE DEF m
\* What the window waits for; `more` is what it gives up.
<1>8. ASSUME NEW more \in SUBSET Dirs,
             PaneInv(win', disk, Known \cup more, {}),
             \A d \in (dropped \cup more) \ dropped' : Newly(win', d),
             dropped' \subseteq dropped \cup more,
             Unattended(win') \subseteq dropped'
      PROVE  RefreshInv'
  <2>1. win' \in Window /\ \A d \in Dirs : win'.ticket[d] <= win'.sequence
    BY <1>8 DEF PaneInv, Typed
  <2>2. TypeOK'
    BY <2>1, <1>2, <1>3, <1>4, <1>8, StepTypes
  <2>3. \A d \in (Known \cup more) \ Known' : Newly(win', d)
    BY <1>4, <1>8 DEF Known
  <2> QED
    BY <2>2, <2>3, <1>4, <1>8, WindowStep
<1>9. CASE ~Current(win, t)
  <2>1. win' = m /\ dropped' = dropped
    BY <1>7, <1>9
  <2>2. PaneInv(m, disk, Known, {})
    BY <1>2, <1>5, <1>9, TaskOverKeeps DEF m
  <2>3. LoadComing(win) => LoadComing(m)
    BY <1>5, <1>6 DEF LoadComing, SameWaits
  <2>4. Unattended(m) \subseteq Unattended(win)
    BY <2>3, <1>6, SameUnattended
  <2>5. NotOlder(win, m)
    BY <1>2, <1>6, SameHeld, SameIsNotOlder
  <2>6. Known \cup {} = Known /\ {} \in SUBSET Dirs
    OBVIOUS
  <2>7. RefreshInv'
    BY <2>1, <2>2, <2>4, <2>6, <1>2, <1>8
  <2> QED
    BY <2>1, <2>5, <2>7
<1>10. CASE Current(win, t)
  <2>1. /\ PaneInv(f, disk, Known \cup {t.dir}, {})
        /\ f \in Window /\ SameView(win, f) /\ SameLists(win, f)
        /\ f.ticket = [win.ticket EXCEPT ![t.dir] = 0]
    BY <1>2, <1>10, FinishedIs
  <2>2. /\ win' = IF t.result = Failed THEN StartReady(f) ELSE StartReady(RefreshShown(f, t))
        /\ dropped' = (dropped \cup IF t.result = Failed THEN {t.dir} ELSE {}) \ Started(f, win')
    BY <1>7, <1>10, ApplyRefreshIs
  <2>3. CASE t.result = Failed
    <3> HIDE DEF f
    <3>1. win' = StartReady(f) /\ dropped' = (dropped \cup {t.dir}) \ Started(f, win')
      BY <2>2, <2>3
    <3>2. /\ PaneInv(win', disk, Known \cup {t.dir}, {})
          /\ \A d \in Dirs : win'.ticket[d] \in {0, f.ticket[d]} \/ Newly(win', d)
          /\ Unattended(win') = {} /\ SameView(f, win') /\ SameLists(f, win')
      BY <2>1, <3>1, <1>2, StartReadyKeeps
    <3>3. \A d \in (dropped \cup {t.dir}) \ dropped' : Newly(win', d)
      BY <3>1, <3>2 DEF Started
    <3>4. RefreshInv'
      <4>1. {t.dir} \in SUBSET Dirs /\ dropped' \subseteq dropped \cup {t.dir}
            /\ Unattended(win') \subseteq dropped'
        BY <3>1, <3>2, <1>5
      <4> QED
        BY <4>1, <3>2, <3>3, <1>8
    <3>5. \A q \in Panes : Held(win', q) = Held(f, q) /\ Held(f, q) = Held(win, q)
      BY <2>1, <3>2, SameHeld
    <3> QED
      BY <3>4, <3>5, <1>2, SameIsNotOlder
  <2>4. CASE t.result # Failed
    <3> DEFINE w == RefreshShown(f, t)
    <3>1. /\ PaneInv(w, disk, Known, {}) /\ SameView(win, w) /\ NotOlder(win, w)
          /\ w.ticket = [win.ticket EXCEPT ![t.dir] = 0]
      BY <2>4, <1>2, <1>5, <1>10, RefreshShownKeeps
    <3> HIDE DEF w, f
    <3>2. win' = StartReady(w) /\ dropped' = dropped \ Started(f, win')
      BY <2>2, <2>4 DEF w
    <3>3. /\ PaneInv(win', disk, Known, {})
          /\ \A d \in Dirs : win'.ticket[d] \in {0, w.ticket[d]} \/ Newly(win', d)
          /\ Unattended(win') = {} /\ SameView(w, win') /\ SameLists(w, win')
      BY <3>1, <3>2, <1>2, StartReadyKeeps
    <3>4. \A d \in (dropped \cup {}) \ dropped' : Newly(win', d)
      BY <2>1, <3>1, <3>2, <3>3 DEF Started
    <3>5. Known \cup {} = Known /\ {} \in SUBSET Dirs
      OBVIOUS
    <3>6. RefreshInv'
      BY <3>2, <3>3, <3>4, <3>5, <1>8
    <3>7. \A q \in Panes : Held(win', q) = Held(w, q) /\ Tab(win', q) = Tab(w, q)
      BY <3>3, SameHeld, SameSight
    <3>8. NotOlder(win, win')
      BY <3>1, <3>7 DEF NotOlder
    <3> QED
      BY <3>6, <3>8
  <2> QED
    BY <2>3, <2>4
<1> QED
  BY <1>9, <1>10

\* Message::SidebarStorageLoaded.
LEMMA SidebarStorageLoadedKeeps ==
  ASSUME RefreshInv, SidebarStorageLoaded
  PROVE  RefreshInv' /\ NotOlder(win, win')
<1> DEFINE s == [win EXCEPT !.storage = IF @ = "pending" THEN "active" ELSE "idle"]
           views == {p \in Visible(s) : Tab(s, p) = Storage}
           ended == [s EXCEPT !.loading = [p \in Panes |-> IF p \in views THEN FALSE ELSE @[p]]]
           listed == [ended EXCEPT
                        !.cache = Drives,
                        !.folder = [p \in Panes |-> IF p \in views THEN None ELSE @[p]],
                        !.entries = [p \in Panes |-> IF p \in views THEN Drives ELSE @[p]]]
<1>1. TypeOK /\ win \in Window /\ disk \in Versions /\ PaneInv(win, disk, Known, {})
      /\ Unattended(win) \subseteq dropped
  BY InvFacts DEF RefreshInv
<1>2. /\ watched \subseteq Dirs /\ untold \subseteq Dirs /\ silent \subseteq Dirs
      /\ dropped \subseteq Dirs /\ taking \in (SUBSET Dirs) \cup {None}
      /\ failures \in 0..MaxFailures
  BY <1>1 DEF TypeOK, Feed!TypeOK
<1>3. views = Views(win)
  BY <1>1, FieldTypes DEF Views, Visible, Tab, Window
<1>4. /\ \/ /\ failures < MaxFailures /\ failures' = failures + 1
            /\ win' = ended
         \/ win' = listed /\ failures' = failures
      /\ disk' = disk /\ watched' = watched /\ untold' = untold /\ taking' = taking
      /\ silent' = silent /\ acts' = acts /\ dropped' = dropped
  BY DEF SidebarStorageLoaded, env
<1>5. StopsLoading(win, ended, views) /\ ended.searching = win.searching
  <2> DEFINE loading == [p \in Panes |-> IF p \in views THEN FALSE ELSE win.loading[p]]
             storage == IF win.storage = "pending" THEN "active" ELSE "idle"
  <2>1. ended = [win EXCEPT !.storage = storage, !.loading = loading]
    BY <1>1, FieldTypes DEF Window
  <2>2. loading \in [Panes -> BOOLEAN] /\ storage \in {"idle", "active", "pending"}
    BY <1>1, FieldTypes
  <2> HIDE DEF ended, storage, views
  <2>3. /\ ended \in Window /\ SameView(win, ended) /\ SameLists(win, ended)
        /\ ended.req = win.req /\ ended.loading = loading
        /\ ended.sequence = win.sequence /\ ended.ticket = win.ticket
        /\ ended.pending = win.pending /\ ended.tasks = win.tasks
        /\ ended.searching = win.searching
    <3> HIDE DEF loading
    <3> QED
      BY <1>1, <2>1, <2>2, FieldTypes DEF Window, SameView, SameLists
  <2> QED
    BY <2>3, <1>3 DEF StopsLoading
<1> HIDE DEF ended, views
<1>6. PaneInv(ended, disk, Known, {}) /\ ended \in Window
  BY <1>1, <1>3, <1>5, StopsLoadingKeeps DEF StopsLoading
<1>7. /\ SameView(win, ended) /\ SameLists(win, ended) /\ ended.req = win.req
      /\ ended.ticket = win.ticket /\ ended.pending = win.pending /\ ended.tasks = win.tasks
      /\ ended.searching = win.searching
  BY <1>5 DEF StopsLoading
<1>8. Views(ended) = views
  BY <1>3, <1>7, SameSight DEF Views
<1>9. ListsUnits(ended, listed, views, Drives) /\ listed.searching = ended.searching
  <2> DEFINE folder == [p \in Panes |-> IF p \in views THEN None ELSE ended.folder[p]]
             entries == [p \in Panes |-> IF p \in views THEN Drives ELSE ended.entries[p]]
  <2>1. listed = [ended EXCEPT !.cache = Drives, !.folder = folder, !.entries = entries]
    BY <1>6, FieldTypes DEF Window
  <2>2. folder \in [Panes -> List \cup {None}] /\ entries \in [Panes -> List] /\ Drives \in List
    BY <1>6, FieldTypes, ListTypes
  <2> HIDE DEF listed
  <2>3. /\ listed \in Window /\ SameView(ended, listed) /\ SameWaits(ended, listed)
        /\ listed.cache = Drives /\ listed.folder = folder /\ listed.entries = entries
        /\ listed.sequence = ended.sequence /\ listed.ticket = ended.ticket
        /\ listed.pending = ended.pending /\ listed.tasks = ended.tasks
        /\ listed.searching = ended.searching
    <3> HIDE DEF folder, entries
    <3> QED
      BY <1>6, <2>1, <2>2, FieldTypes DEF Window, SameView, SameWaits
  <2> QED
    BY <2>3 DEF ListsUnits
<1> HIDE DEF listed
<1>10. /\ PaneInv(listed, disk, Known, {})
       /\ \A q \in Panes : Tab(ended, q) \in Dirs => Held(listed, q) = Held(ended, q)
  <2>1. Past(Drives, disk)
    BY ListTypes, RefreshAssumption DEF Past
  <2> QED
    BY <2>1, <1>6, <1>8, <1>9, ListsUnitsKeeps
<1>11. /\ PaneInv(win', disk, Known, {}) /\ SameView(win, win')
       /\ win'.pending = win.pending /\ win'.ticket = win.ticket /\ win'.tasks = win.tasks
       /\ win'.req = win.req /\ win'.searching = win.searching
       /\ \A q \in Panes : Tab(win, q) \in Dirs => Held(win', q) = Held(win, q)
  <2>1. \A q : Held(ended, q) = Held(win, q) /\ Tab(ended, q) = Tab(win, q)
    BY <1>7, SameHeld, SameSight
  <2>2. CASE win' = ended
    BY <2>1, <2>2, <1>6, <1>7
  <2>3. CASE win' = listed
    <3>1. /\ SameView(ended, listed) /\ listed.req = ended.req /\ listed.tasks = ended.tasks
          /\ listed.pending = ended.pending /\ listed.ticket = ended.ticket
          /\ listed.searching = ended.searching
      BY <1>9 DEF ListsUnits, SameWaits
    <3>2. SameView(win, listed)
      BY <3>1, <1>7 DEF SameView
    <3> QED
      BY <3>1, <3>2, <2>1, <2>3, <1>7, <1>10
  <2> QED
    BY <2>2, <2>3, <1>4
<1>12. TypeOK'
  <2>1. win' \in Window /\ \A d \in Dirs : win'.ticket[d] <= win'.sequence
    BY <1>11 DEF PaneInv, Typed
  <2>2. failures' \in 0..MaxFailures
    BY <1>2, <1>4, RefreshAssumption
  <2> QED
    BY <2>1, <2>2, <1>1, <1>2, <1>4, StepTypes
<1>13. Unattended(win') \subseteq Unattended(win)
  <2>1. LoadComing(win) => LoadComing(win')
    BY <1>11 DEF LoadComing
  <2> QED
    BY <2>1, <1>11, SameUnattended
<1>14. NotOlder(win, win')
  <2>1. \A q : Tab(win', q) = Tab(win, q)
    BY <1>11, SameSight
  <2> QED
    BY <2>1, <1>1, <1>11, SameIsNotOlder
<1>15. Known' = Known
  BY <1>4 DEF Known
<1> QED
  BY <1>1, <1>4, <1>11, <1>12, <1>13, <1>14, <1>15, WindowStep

-----------------------------------------------------------------------------
(* The start of the program.                                               *)

LEMMA LaunchKeeps ==
  ASSUME NEW s, NEW now \in Versions, NEW known, PaneInv(s, now, known, {}), Idle(s)
  PROVE  PaneInv(Launch(s), now, known, {}) /\ Idle(Launch(s))
<1> DEFINE first == StartLoad(s, Primary)
           atStorage(p) == p \in Visible(s) /\ Tab(s, p) = Storage
           units == IF \E p \in Panes : atStorage(p) THEN first ELSE RefreshStorage(first)
           both == s.split /\ ~(atStorage(Primary) /\ atStorage(Secondary))
           second == StartLoad(units, Secondary)
<1>1. Launch(s) = IF both THEN second ELSE units
  BY DEF Launch
<1>2. Primary \in Panes /\ Secondary \in Panes /\ Storage \notin Dirs /\ s \in Window
  BY RefreshAssumption DEF Panes, PaneInv, Typed
<1>3. PaneInv(first, now, known, {}) /\ Idle(first) /\ SameView(s, first)
  <2>1. Tab(s, Primary) = Storage => s.folder[Primary] = None
    BY <1>2, ViewTypes DEF PaneInv, Shows
  <2> QED
    BY <2>1, <1>2, Excepted, StartLoadKeeps
<1> HIDE DEF first
<1>4. PaneInv(units, now, known, {}) /\ Idle(units) /\ SameView(s, units)
  <2>1. /\ PaneInv(RefreshStorage(first), now, known, {})
        /\ SameView(first, RefreshStorage(first))
        /\ RefreshStorage(first).ticket = first.ticket
        /\ RefreshStorage(first).pending = first.pending
    BY <1>3, RefreshStorageKeeps
  <2>2. SameView(s, RefreshStorage(first)) /\ Idle(RefreshStorage(first))
    BY <2>1, <1>3 DEF SameView, Idle
  <2> QED
    BY <2>1, <2>2, <1>3
<1> HIDE DEF units
<1>5. ASSUME s.split PROVE PaneInv(second, now, known, {}) /\ Idle(second)
  <2>1. Secondary \in Visible(units) /\ Shows(units)
    BY <1>2, <1>4, <1>5 DEF SameView, Visible, PaneInv
  <2>2. Tab(units, Secondary) = Storage => units.folder[Secondary] = None
    BY <2>1, <1>2 DEF Shows
  <2> QED
    BY <2>2, <1>2, <1>4, Excepted, StartLoadKeeps
<1> HIDE DEF second, atStorage
<1> QED
  BY <1>1, <1>4, <1>5

LEMMA RestoredIs ==
  ASSUME NEW session \in Sessions, NEW now \in Versions
  PROVE  PaneInv(Restored(session), now, {}, {}) /\ Idle(Restored(session))
<1> DEFINE s == Restored(session)
<1>1. session \in [tab: [Panes -> Places], split: BOOLEAN, cache: {Empty, Drives}]
  BY RefreshAssumption
<1>2. s \in Window
  BY <1>1, ListTypes DEF Restored, Window
<1>3. /\ s.tasks = {} /\ s.pending = {} /\ s.sequence = 0 /\ s.cache \in {Empty, Drives}
      /\ \A d \in Dirs : s.ticket[d] = 0
      /\ \A p \in Panes : /\ s.loading[p] = FALSE /\ s.folder[p] = None
                          /\ s.entries[p] = Empty
  BY <1>1 DEF Restored
<1> HIDE DEF s
<1>4. \A p \in Panes : Held(s, p) = Empty
  BY <1>3 DEF Held
<1>5. Visible(s) \subseteq Panes /\ \A p \in Panes : Tab(s, p) \in Dirs \cup {Storage}
  BY <1>2, ViewTypes
<1>6. Empty.of = None /\ Drives.of = Storage /\ None \notin Dirs /\ Storage \notin Dirs
  BY ListTypes, RefreshAssumption
<1>7. Typed(s) /\ Numbered(s) /\ Sole(s) /\ Ordered(s)
  BY <1>2, <1>3 DEF Typed, Numbered, Sole, Ordered
<1>8. Awaits(s, {})
  BY <1>3, <1>5 DEF Awaits, AwaitsOwn
<1>9. Shows(s) /\ Dated(s, now)
  BY <1>3, <1>4, <1>5, <1>6 DEF Shows, Dated, Past
<1>10. Fresh(s, now, {}, {})
  BY <1>3, <1>4, <1>5, <1>6 DEF Fresh, FreshPane
<1> QED
  BY <1>3, <1>7, <1>8, <1>9, <1>10 DEF PaneInv, Idle, s

LEMMA StartsInOrder ==
  ASSUME Init PROVE RefreshInv
<1>1. PICK session \in Sessions : win = Launch(Restored(session))
  BY DEF Init
<1>2. /\ disk = [d \in Dirs |-> 0] /\ watched = {} /\ untold = {} /\ taking = None
      /\ acts = 0 /\ failures = 0 /\ silent = {} /\ dropped = {}
  BY DEF Init
<1>3. disk \in Versions
  BY <1>2, RefreshAssumption DEF Versions
<1>4. PaneInv(win, disk, {}, {}) /\ Idle(win)
  BY <1>1, <1>3, RestoredIs, LaunchKeeps
<1>5. TypeOK
  <2>1. win \in Window /\ \A d \in Dirs : win.ticket[d] <= win.sequence
    BY <1>4 DEF PaneInv, Typed
  <2>2. Feed!TypeOK
    BY <1>2 DEF Feed!TypeOK
  <2> QED
    BY <2>1, <2>2, <1>2, <1>3, RefreshAssumption DEF TypeOK, Versions
<1>6. Known = {}
  BY <1>2 DEF Known
<1>7. RefreshIsWaitedFor
  BY <1>4 DEF RefreshIsWaitedFor, Forgotten, Idle
<1> QED
  BY <1>4, <1>5, <1>6, <1>7 DEF RefreshInv

LEMMA StepsKeepOrder ==
  ASSUME RefreshInv, [Next]_vars
  PROVE  RefreshInv' /\ NotOlder(win, win')
<1>1. ASSUME NEW p \in Panes, Navigate(p) \/ Reload(p) \/ SearchChanged(p)
      PROVE  RefreshInv' /\ NotOlder(win, win')
  BY <1>1, NavigateKeeps, ReloadKeeps, SearchChangedKeeps
<1>2. CASE OpenSplit \/ CloseSplit \/ CloseSecondTab
  BY <1>2, OpenSplitKeeps, CloseSplitKeeps, CloseSecondTabKeeps
<1>3. ASSUME NEW d \in Dirs, Edit(d)
      PROVE  RefreshInv' /\ NotOlder(win, win')
  BY <1>3, EditKeeps
<1>4. CASE Watcher
  BY <1>4, DesiredKeeps, DirectoriesChangedKeeps DEF Watcher
<1>5. CASE ListEntries
  BY <1>5, ListEntriesKeeps
<1>6. CASE Messages
  BY <1>6, LoadedKeeps, WatchedDirectoryLoadedKeeps, SidebarStorageLoadedKeeps DEF Messages
<1>7. CASE UNCHANGED vars
  <2>1. /\ win' = win /\ disk' = disk /\ watched' = watched /\ untold' = untold
        /\ taking' = taking /\ silent' = silent /\ acts' = acts /\ failures' = failures
        /\ dropped' = dropped
    BY <1>7 DEF vars, env
  <2>2. TypeOK' /\ RefreshIsWaitedFor'
    <3>1. (Feed!TypeOK)'
      BY <2>1 DEF RefreshInv, TypeOK, Feed!TypeOK
    <3> QED
      BY <2>1, <3>1 DEF RefreshInv, TypeOK, RefreshIsWaitedFor
  <2>3. Known' = Known
    BY <2>1 DEF Known
  <2>4. win \in Window
    BY InvFacts
  <2> QED
    BY <2>1, <2>2, <2>3, <2>4, SameIsNotOlder DEF RefreshInv
<1> QED
  BY <1>1, <1>2, <1>3, <1>4, <1>5, <1>6, <1>7 DEF Next, User, Rest

-----------------------------------------------------------------------------
(* What follows for the program.                                           *)

\* The invariant holds of every state: type correctness, what a pane waits for and
\* shows, and who refreshes it.
THEOREM InOrder == Spec => []RefreshInv
<1>1. Init => RefreshInv
  BY StartsInOrder
<1>2. RefreshInv /\ [Next]_vars => RefreshInv'
  BY StepsKeepOrder
<1> QED
  BY <1>1, <1>2, PTL DEF Spec

\* The window, its tasks and the watcher's state have their types, and no refresh has a
\* ticket that was not handed out.
THEOREM TypeCorrect == Spec => []TypeOK
<1>1. RefreshInv => TypeOK
  BY DEF RefreshInv
<1> QED
  BY <1>1, InOrder, PTL

\* A visible pane never lists another folder than its own, whatever is cancelled, late or
\* refreshed for the other pane; and a storage view shows storage units only, as long as
\* no load of a folder was taken for them.
THEOREM PanesShowTheirFolder == Spec => []PaneShowsItsFolder
<1>1. RefreshInv => PaneShowsItsFolder
  BY DEF RefreshInv, PaneInv, Shows, PaneShowsItsFolder
<1> QED
  BY <1>1, InOrder, PTL

\* A pane that shows an old version of its folder will be refreshed: the change is with
\* the watcher, its refresh is pending, or under way and read late enough; or nobody
\* will be told of the change, or its refresh failed or was left behind.
THEOREM StalePanesAreServed == Spec => []StalePaneIsServed
<1>1. RefreshInv => StalePaneIsServed
  <2> SUFFICES ASSUME RefreshInv, NEW p \in Visible(win),
                      Tab(win, p) \in Dirs, ~win.loading[p], Held(win, p).of = Tab(win, p),
                      Held(win, p).at < disk[Tab(win, p)]
               PROVE  \/ Tab(win, p) \in untold \cup win.pending \cup silent \cup dropped
                      \/ \E t \in win.tasks :
                           /\ t.kind = "refresh" /\ t.dir = Tab(win, p)
                           /\ t.ticket = win.ticket[Tab(win, p)]
                           /\ <<p, win.req[p]>> \in t.requests
                           /\ t.result \in {Unread, Failed, disk[Tab(win, p)]}
    BY DEF StalePaneIsServed
  <2>1. Refreshed(win, p, disk, Known)
    BY DEF RefreshInv, PaneInv, Fresh, FreshPane
  <2> QED
    BY <2>1 DEF Refreshed, Known, Current, Asks
<1> QED
  BY <1>1, InOrder, PTL

\* A refresh that could start is never left pending: a load that comes back or a search
\* of the folder will start it.
THEOREM RefreshesAreWaitedFor == Spec => []RefreshIsWaitedFor
<1>1. RefreshInv => RefreshIsWaitedFor
  BY DEF RefreshInv
<1> QED
  BY <1>1, InOrder, PTL

\* A pane that loads is never without the listing that ends it: its own request is still
\* under way, or the storage units are.
THEOREM LoadsAreServed == Spec => []LoadingIsServed
<1>1. RefreshInv => LoadingIsServed
  <2> SUFFICES ASSUME RefreshInv, NEW p \in Visible(win), win.loading[p]
               PROVE  IF Tab(win, p) = Storage THEN win.storage # "idle"
                      ELSE \E t \in win.tasks : t.kind = "load" /\ t.pane = p /\ Expected(win, t)
    BY DEF LoadingIsServed
  <2>1. AwaitsOwn(win, p)
    BY DEF RefreshInv, PaneInv, Awaits
  <2> QED
    BY <2>1 DEF AwaitsOwn, Asks, Expected
<1> QED
  BY <1>1, InOrder, PTL

\* No step of the window replaces a newer listing of a folder by an older one, in a pane
\* that is at a folder afterwards: not when loads and refreshes come back in any order.
THEOREM ListingsGrowNewer == Spec => NeverOlder
<1>1. RefreshInv /\ [Next]_vars =>
        \A p \in Panes :
          LET was == Held(win, p) IN
          Tab(win', p) \in Dirs /\ was.of # None /\ was.of = Held(win', p).of =>
            was.at <= Held(win', p).at
  BY StepsKeepOrder DEF NotOlder
<1> QED
  BY <1>1, InOrder, PTL DEF Spec, NeverOlder
=============================================================================
