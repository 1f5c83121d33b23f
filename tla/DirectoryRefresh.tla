-------------------------- MODULE DirectoryRefresh --------------------------
(***************************************************************************)
(* The panes of a window and what they show: src/iced_ui/navigation.rs,    *)
(* directory_refresh.rs, search_state.rs and the messages of update.rs     *)
(* that end a load.  A pane lists a folder when it comes to it, and again  *)
(* when the watcher tells of a change there; the listings run on other     *)
(* threads, are cancelled by request numbers, tickets and aborts, and come *)
(* back in any order.                                                      *)
(*                                                                         *)
(* `win` is the window's own state, changed by one message at a time; each *)
(* handler is an operator on it.  The watcher is a ChangeFeed whose        *)
(* entries are whole directories.  A listing is the version of a directory *)
(* at one moment.  Every pane has one tab; the network root, the trash and *)
(* folders that cannot be watched are left out.                            *)
(***************************************************************************)
EXTENDS Integers, FiniteSets

CONSTANTS
  Dirs,        \* folders
  Primary, Secondary, \* PaneId
  Storage,     \* the storage view, This PC: the path None
  Home,        \* the folder of a new tab
  Sessions,    \* the sessions a window may restore
  MaxActs,     \* bound: what the user does
  MaxEdits,    \* bound: changes of each folder
  MaxFailures, \* bound: listings that fail
  None         \* no listing, no set of directories

Panes == {Primary, Secondary}
Places == Dirs \cup {Storage}

\* A listing; Empty and Found are a cleared list and the results of a search.
Listing == [of: Places, at: 0..MaxEdits]
Empty == [of |-> None, at |-> 0]
Found == [of |-> None, at |-> 1]
Drives == [of |-> Storage, at |-> 0]
List == Listing \cup {Empty, Found}

\* What a task has read: nothing yet, an error, a version of its directory.
Unread == -1
Failed == -2
Outcome == 0..MaxEdits \cup {Unread, Failed}

ASSUME RefreshAssumption ==
  /\ Primary # Secondary /\ Home \in Dirs
  /\ Storage \notin Dirs /\ None \notin Dirs \cup {Storage} \cup List
  /\ Sessions \subseteq [tab: [Panes -> Places], split: BOOLEAN, cache: {Empty, Drives}]
  /\ MaxActs \in Nat /\ MaxEdits \in Nat /\ MaxFailures \in Nat

VARIABLES
  win,      \* the window: BExplorerIced, its two panes and its tasks
  disk,     \* the version of each folder
  watched,  \* the folders the watcher watches
  untold,   \* folders whose change the watcher has not told yet
  taking,   \* the folders the watcher's thread is about to watch
  acts,     \* what the user has done
  failures, \* how many listings have failed
  silent,   \* ghost: folders whose last change the watcher will not tell
  dropped   \* ghost: folders whose refresh failed or was left behind

env == <<disk, watched, untold, taking, silent>>
vars == <<win, env, acts, failures, dropped>>

Feed == INSTANCE ChangeFeed WITH
  Entries <- Dirs, DirOf <- [d \in Dirs |-> d], stale <- untold, front <- untold

Load == [kind: {"load"}, pane: Panes, req: Nat, dir: Dirs, result: Outcome]
Refresh == [kind: {"refresh"}, dir: Dirs, ticket: Nat, requests: SUBSET (Panes \X Nat),
            result: Outcome]
Window == [
  tab: [Panes -> Places], split: BOOLEAN,   \* the path of each pane's tab; split
  req: [Panes -> Nat],                      \* request_id
  loading: [Panes -> BOOLEAN],
  entries: [Panes -> List],
  folder: [Panes -> List \cup {None}],      \* folder_entries
  text: [Panes -> BOOLEAN],                 \* search_text is not empty
  searching: [Panes -> BOOLEAN],            \* recursive_search_active
  pending: SUBSET Dirs,                     \* DirectoryRefreshes
  ticket: [Dirs -> Nat], sequence: Nat,     \* active: 0 is no refresh
  desired: SUBSET Dirs,                     \* desired_directories of the watcher
  storage: {"idle", "active", "pending"},   \* storage_refresh_active and _pending
  cache: List,                              \* sidebar_storage_entries
  tasks: SUBSET (Load \cup Refresh)]

TypeOK ==
  /\ win \in Window
  /\ \A d \in Dirs : win.ticket[d] <= win.sequence
  /\ disk \in [Dirs -> 0..MaxEdits]
  /\ Feed!TypeOK
  /\ taking \in (SUBSET Dirs) \cup {None}
  /\ acts \in 0..MaxActs /\ failures \in 0..MaxFailures
  /\ silent \subseteq Dirs /\ dropped \subseteq Dirs

-----------------------------------------------------------------------------
(* What the window shows.                                                  *)

Visible(s) == IF s.split THEN Panes ELSE {Primary}
\* tab_for_pane: without a split both panes have the active tab.
Tab(s, p) == IF s.split THEN s.tab[p] ELSE s.tab[Primary]
Showing(s, d) == {p \in Visible(s) : Tab(s, p) = d}
Folders(s) == {d \in Dirs : Showing(s, d) # {}}

-----------------------------------------------------------------------------
(* Tasks and refreshes.                                                    *)

\* Dropping a DirectoryLoadToken aborts its task; a result that is already on its
\* way still arrives.
Without(s, aborted) == [s EXCEPT !.tasks = {t \in @ : t.result # Unread \/ t \notin aborted}]

DropRefreshes(s, dirs) ==
  [Without(s, {t \in s.tasks : t.kind = "refresh" /\ t.dir \in dirs /\ t.ticket = s.ticket[t.dir]})
     EXCEPT !.ticket = [d \in Dirs |-> IF d \in dirs THEN 0 ELSE @[d]],
            !.pending = @ \ dirs]

Retain(s) == DropRefreshes(s, Dirs \ Folders(s))
IsRefreshing(s, d) == d \in s.pending \/ s.ticket[d] # 0
Queue(s, dirs) == [s EXCEPT !.pending = @ \cup dirs]

\* Mutant of Blocked: a pane that loads is refreshed too.
BlockedBySearch(s, d) == \E p \in Showing(s, d) : s.searching[p]

Blocked(s, d) == \E p \in Showing(s, d) : s.loading[p] \/ s.searching[p]

Ready(s) ==
  {d \in s.pending : s.ticket[d] = 0 /\ ~Blocked(s, d) /\ Showing(s, d) # {}}

\* Mutant of NextTicket: a ticket that the counter does not keep.
TicketLost(s) == s

NextTicket(s) == [s EXCEPT !.sequence = @ + 1]

\* start_ready_directory_refreshes.  Directories that start together have one ticket
\* here: tickets are compared within a directory.
StartReady(window) ==
  LET s == Retain(window)
      started == Ready(s)
      bumped == [p \in Panes |-> IF p \in Visible(s) /\ Tab(s, p) \in started
                                 THEN s.req[p] + 1 ELSE s.req[p]]
      task(d) == [kind |-> "refresh", dir |-> d, ticket |-> s.sequence + 1, result |-> Unread,
                  requests |-> {<<p, bumped[p]>> : p \in Showing(s, d)}] IN
  IF started = {} THEN s
  ELSE [NextTicket(s) EXCEPT
          !.req = bumped, !.pending = @ \ started,
          !.ticket = [d \in Dirs |-> IF d \in started THEN s.sequence + 1 ELSE @[d]],
          !.tasks = @ \cup {task(d) : d \in started}]

-----------------------------------------------------------------------------
(* Loads.                                                                  *)

\* refresh_sidebar_storage.
RefreshStorage(s) ==
  [s EXCEPT !.storage = IF @ = "idle" THEN "active" ELSE "pending"]

\* Mutant of CancelForLoad: the other pane's refresh is not queued again.
CancelWithoutQueue(s, p, d) == DropRefreshes(s, {d})

\* A load of d by p replaces the refresh of d, unless another pane shows d as well.
CancelForLoad(s, p, d) ==
  Queue(DropRefreshes(s, {d}),
        IF IsRefreshing(s, d) /\ Showing(s, d) \ {p} # {} THEN {d} ELSE {})

LoadStorage(s, p) ==
  RefreshStorage([s EXCEPT !.req[p] = @ + 1, !.folder[p] = None,
                           !.loading[p] = s.cache = Empty,
                           !.entries[p] = IF s.cache = Empty THEN @ ELSE s.cache])

LoadFolder(s, p, d) ==
  [s EXCEPT !.req[p] = @ + 1, !.loading[p] = TRUE,
            !.tasks = @ \cup {[kind |-> "load", pane |-> p, req |-> s.req[p] + 1, dir |-> d,
                               result |-> Unread]}]

\* start_load; the watcher is told of the visible folders on the way.
StartLoad(window, p) ==
  LET d == Tab(window, p)
      s == Retain(Without(window, {t \in window.tasks : t.kind = "load" /\ t.pane = p}))
      cancelled == IF d \in Dirs THEN CancelForLoad(s, p, d) ELSE s
      synced == [cancelled EXCEPT !.desired = Folders(s), !.searching[p] = FALSE] IN
  IF d = Storage THEN LoadStorage(synced, p) ELSE LoadFolder(synced, p, d)

\* start_navigation_load.
StartNavigation(s, p) == StartLoad([s EXCEPT !.entries[p] = Empty, !.folder[p] = None], p)

-----------------------------------------------------------------------------
(* Searches.                                                               *)

\* start_recursive_search: one refresh is kept for the return to the folder.
StartSearch(s, p) ==
  LET d == Tab(s, p) IN
  IF d = Storage THEN [s EXCEPT !.searching[p] = FALSE]
  ELSE [Queue(DropRefreshes(s, {d}), {d}) EXCEPT
          !.folder[p] = IF @ = None THEN s.entries[p] ELSE @,
          !.entries[p] = Found, !.searching[p] = TRUE]

\* Mutant of ClearSearch: the refresh kept for the folder is not started.
ClearSearchOnly(s, p) ==
  [s EXCEPT !.searching[p] = FALSE, !.folder[p] = None,
            !.entries[p] = IF s.folder[p] = None THEN @ ELSE s.folder[p]]

\* clear_recursive_search and what refresh_search does after it.
ClearSearch(s, p) ==
  StartReady([s EXCEPT !.searching[p] = FALSE, !.folder[p] = None,
                       !.entries[p] = IF s.folder[p] = None THEN @ ELSE s.folder[p]])

-----------------------------------------------------------------------------
(* The user.                                                               *)

\* Pending refreshes that no task of the window and no search will start.
LoadComing(s) == \E t \in s.tasks : t.kind = "load" /\ t.req = s.req[t.pane]
Forgotten(s) ==
  {d \in s.pending : /\ s.ticket[d] = 0 /\ ~LoadComing(s)
                     /\ ~\E p \in Showing(s, d) : s.searching[p]}

\* The window handles a message of the user; what it starts anew is no longer dropped.
Started(old, new) == {d \in Dirs : new.ticket[d] \notin {0, old.ticket[d]}}
Act(s, left) ==
  /\ acts < MaxActs /\ acts' = acts + 1
  /\ win' = s
  /\ dropped' = (dropped \cup left) \ Started(win, s)
  /\ UNCHANGED <<env, failures>>

Navigate(p) ==
  /\ p \in Visible(win)
  /\ \E place \in Places \ {win.tab[p]} :
       LET s == StartNavigation([win EXCEPT !.tab[p] = place], p) IN
       Act(s, IF place = Storage THEN Forgotten(s) ELSE {})

\* Message::Refresh.
Reload(p) ==
  /\ p \in Visible(win)
  /\ LET s == StartLoad(win, p) IN
     IF win.tab[p] = Storage THEN Act(s, Forgotten(s)) ELSE Act(RefreshStorage(s), {})

\* Message::SearchChanged.
SearchChanged(p) ==
  /\ p \in Visible(win)
  /\ \/ Act(StartSearch([win EXCEPT !.text[p] = TRUE], p), {})
     \/ win.text[p] /\ Act(ClearSearch([win EXCEPT !.text[p] = FALSE], p), {})

\* Message::ToggleSplit.
OpenSplit ==
  /\ ~win.split
  /\ Act(StartNavigation([win EXCEPT !.split = TRUE, !.tab[Secondary] = Home,
                                     !.text[Secondary] = FALSE], Secondary), {})

CloseSplit ==
  /\ win.split
  /\ LET s == [win EXCEPT !.split = FALSE, !.desired = {win.tab[Primary]} \cap Dirs] IN
     Act(s, Forgotten(s))

\* Message::CloseTab of the only tab of the second pane.
CloseSecondTab ==
  /\ win.split
  /\ LET s == StartNavigation([win EXCEPT !.split = FALSE, !.text[Secondary] = win.text[Primary]],
                              Secondary) IN
     Act(s, IF win.tab[Primary] = Storage THEN Forgotten(s) ELSE {})

User == (\E p \in Panes : Navigate(p) \/ Reload(p) \/ SearchChanged(p))
        \/ OpenSplit \/ CloseSplit \/ CloseSecondTab

-----------------------------------------------------------------------------
(* Folders change, and the watcher tells of it.                            *)

Edit(d) ==
  /\ disk[d] < MaxEdits
  /\ disk' = [disk EXCEPT ![d] = @ + 1]
  /\ Feed!Change({d}) /\ untold' = untold \cup ({d} \cap watched)
  /\ silent' = IF d \in watched THEN silent \ {d} ELSE silent \cup {d}
  /\ UNCHANGED <<win, taking, acts, failures, dropped>>

\* The watcher's thread reads the desired directories and then applies them.
TakeDesired ==
  /\ taking = None /\ win.desired # watched
  /\ taking' = win.desired
  /\ UNCHANGED <<win, disk, watched, untold, silent, acts, failures, dropped>>

ApplyDesired ==
  /\ taking # None /\ taking' = None
  /\ Feed!Watch(taking)
  /\ silent' = silent \cup (untold \ taking)
  /\ UNCHANGED <<win, disk, acts, failures, dropped>>

\* refresh_watched_directories.
DirectoriesChanged ==
  \E told \in (SUBSET untold) \ {{}} :
    /\ Feed!Read(told)
    /\ win' = StartReady(Queue(win, told))
    /\ dropped' = dropped \ Started(win, win')
    /\ UNCHANGED <<disk, taking, silent, acts, failures>>

Watcher == TakeDesired \/ ApplyDesired \/ DirectoriesChanged

-----------------------------------------------------------------------------
(* Listings, and the messages that bring them.                             *)

Answered(t, result) == (win.tasks \ {t}) \cup {[t EXCEPT !.result = result]}

\* list_entries_cancellable.
ListEntries ==
  \E t \in win.tasks :
    /\ t.result = Unread
    /\ \/ win' = [win EXCEPT !.tasks = Answered(t, disk[t.dir])] /\ UNCHANGED failures
       \/ /\ failures < MaxFailures /\ failures' = failures + 1
          /\ win' = [win EXCEPT !.tasks = Answered(t, Failed)]
    /\ UNCHANGED <<env, acts, dropped>>

Read(t) == IF t.result = Failed THEN Empty ELSE [of |-> t.dir, at |-> t.result]

\* Mutant of Expected: any result is taken.
ExpectedAny(s, t) == TRUE

Expected(s, t) == s.req[t.pane] = t.req

\* A pane whose tab is the storage view has loaded: the result is for all such views.
SpreadStorage(s, p, list) ==
  LET others == {q \in Visible(s) \ {p} : Tab(s, q) = Storage} IN
  [s EXCEPT !.cache = list,
            !.loading = [q \in Panes |-> IF q \in others THEN FALSE ELSE @[q]],
            !.folder = [q \in Panes |-> IF q \in others THEN None ELSE @[q]],
            !.entries = [q \in Panes |-> IF q \in others THEN list ELSE @[q]]]

\* Message::Loaded.
ApplyLoad(s, t) ==
  LET p == t.pane
      shown == [s EXCEPT !.loading[p] = FALSE, !.folder[p] = None, !.entries[p] = Read(t)]
      spread == IF Tab(s, p) = Storage /\ t.result # Failed
                THEN SpreadStorage(shown, p, Read(t)) ELSE shown
      ready == StartReady(spread) IN
  IF s.text[p] THEN StartSearch(ready, p) ELSE ready

Loaded ==
  \E t \in win.tasks :
    LET s == [win EXCEPT !.tasks = @ \ {t}] IN
    /\ t.kind = "load" /\ t.result # Unread
    /\ win' = IF Expected(s, t) THEN ApplyLoad(s, t) ELSE s
    /\ dropped' = (dropped \cup IF t.pane \in Visible(win) THEN {} ELSE Forgotten(win'))
                  \ Started(win, win')
    /\ UNCHANGED <<env, acts, failures>>

\* Mutant of Takes: the panes that asked, wherever they are now.
TakesAnyway(s, t, p) == \E request \in t.requests : request[1] = p

\* The panes that a refresh of their folder is still for.
Takes(s, t, p) ==
  p \in Showing(s, t.dir) /\ <<p, s.req[p]>> \in t.requests

\* apply_watched_directory_load after its ticket.
ApplyRefresh(s, t) ==
  LET for == {p \in Panes : Takes(s, t, p)}
      shown == {p \in for : ~s.searching[p]}
      kept == Queue(s, IF for # shown THEN {t.dir} ELSE {}) IN
  IF t.result = Failed THEN StartReady(s)
  ELSE StartReady(
         [kept EXCEPT !.folder = [p \in Panes |-> IF p \in shown THEN None ELSE @[p]],
                      !.entries = [p \in Panes |-> IF p \in shown THEN Read(t) ELSE @[p]]])

WatchedDirectoryLoaded ==
  \E t \in win.tasks :
    LET s == [win EXCEPT !.tasks = @ \ {t}]
        finished == [s EXCEPT !.ticket[t.dir] = 0] IN
    /\ t.kind = "refresh" /\ t.result # Unread
    /\ IF s.ticket[t.dir] = t.ticket
       THEN /\ win' = ApplyRefresh(finished, t)
            /\ dropped' = (dropped \cup IF t.result = Failed THEN {t.dir} ELSE {})
                          \ Started(finished, win')
       ELSE win' = s /\ UNCHANGED dropped
    /\ UNCHANGED <<env, acts, failures>>

\* Message::SidebarStorageLoaded, with its drives or with an error.
SidebarStorageLoaded ==
  LET s == [win EXCEPT !.storage = IF @ = "pending" THEN "active" ELSE "idle"]
      views == {p \in Visible(s) : Tab(s, p) = Storage}
      ended == [s EXCEPT !.loading = [p \in Panes |-> IF p \in views THEN FALSE ELSE @[p]]] IN
  /\ win.storage # "idle"
  /\ \/ /\ failures < MaxFailures /\ failures' = failures + 1
        /\ win' = ended
     \/ /\ win' = [ended EXCEPT
                     !.cache = Drives,
                     !.folder = [p \in Panes |-> IF p \in views THEN None ELSE @[p]],
                     !.entries = [p \in Panes |-> IF p \in views THEN Drives ELSE @[p]]]
        /\ UNCHANGED failures
  /\ UNCHANGED <<env, acts, dropped>>

Messages == Loaded \/ WatchedDirectoryLoaded \/ SidebarStorageLoaded

-----------------------------------------------------------------------------
\* The session as it was saved, and the storage units as they were cached.
Restored(session) == [
  tab |-> session.tab, split |-> session.split, cache |-> session.cache,
  req |-> [p \in Panes |-> 0], loading |-> [p \in Panes |-> FALSE],
  entries |-> [p \in Panes |-> Empty], folder |-> [p \in Panes |-> None],
  text |-> [p \in Panes |-> FALSE], searching |-> [p \in Panes |-> FALSE],
  pending |-> {}, ticket |-> [d \in Dirs |-> 0], sequence |-> 0, desired |-> {},
  storage |-> "idle", tasks |-> {}]

\* A second pane that starts at the storage view too is served by the first one's load.
Launch(s) ==
  LET first == StartLoad(s, Primary)
      atStorage(p) == p \in Visible(s) /\ Tab(s, p) = Storage
      units == IF \E p \in Panes : atStorage(p) THEN first ELSE RefreshStorage(first) IN
  IF s.split /\ ~(atStorage(Primary) /\ atStorage(Secondary))
  THEN StartLoad(units, Secondary) ELSE units

Init ==
  /\ \E session \in Sessions : win = Launch(Restored(session))
  /\ disk = [d \in Dirs |-> 0]
  /\ watched = {} /\ untold = {} /\ taking = None
  /\ acts = 0 /\ failures = 0
  /\ silent = {} /\ dropped = {}

\* Nothing is under way: the user may do nothing more, and no folder changes.
Rest ==
  /\ win.tasks = {} /\ win.storage = "idle" /\ untold = {} /\ watched = win.desired
  /\ UNCHANGED vars

Next ==
  \/ User
  \/ \E d \in Dirs : Edit(d)
  \/ Watcher \/ ListEntries \/ Messages
  \/ Rest

Spec == Init /\ [][Next]_vars

-----------------------------------------------------------------------------
(* Properties.                                                             *)

\* What p knows of its folder, behind the results of a search too.
Held(s, p) == IF s.folder[p] = None THEN s.entries[p] ELSE s.folder[p]

\* A visible pane never lists another folder than the one it is at, nor a folder at
\* the storage view: not while it loads, when a listing for an earlier place arrives
\* late, or when a refresh that it asked for is meanwhile only for the other pane.  The
\* known exception is a load of the second pane that outlives the split and is taken
\* for the storage units (SpreadStorage).
PaneShowsItsFolder ==
  \A p \in Visible(win) :
    IF Tab(win, p) \in Dirs THEN Held(win, p).of \in {Tab(win, p), None}
    ELSE win.cache \in {Empty, Drives} => win.entries[p] \in {Empty, Drives}

\* An older listing of a folder never replaces a newer one in a pane that is at a folder.
\* The storage view is the known exception: it may have what SpreadStorage gave it.
NeverOlder ==
  [][\A p \in Panes :
       LET was == Held(win, p) IN
       Tab(win', p) \in Dirs /\ was.of # None /\ was.of = Held(win', p).of =>
         was.at <= Held(win', p).at]_vars

\* A pane that shows an old version of its folder will be refreshed: the change is with
\* the watcher, its refresh is pending, or under way and read late enough.  The known
\* exceptions are changes while the folder was not watched and dropped refreshes.
StalePaneIsServed ==
  \A p \in Visible(win) :
    LET d == Tab(win, p) IN
    d \in Dirs /\ ~win.loading[p] /\ Held(win, p).of = d /\ Held(win, p).at < disk[d] =>
      \/ d \in untold \cup win.pending \cup silent \cup dropped
      \/ \E t \in win.tasks :
           /\ t.kind = "refresh" /\ t.dir = d /\ t.ticket = win.ticket[d]
           /\ <<p, win.req[p]>> \in t.requests
           /\ t.result \in {Unread, Failed, disk[d]}

\* A refresh that could start is never left pending: a load that comes back or a
\* search of the folder will start it.  A pane that leaves for the storage view and a
\* split that closes are the known exceptions.
RefreshIsWaitedFor ==
  Forgotten(win) \cap Folders(win) \subseteq dropped

\* A pane that loads is never without the listing that ends it: whatever is cancelled,
\* refreshed or shown elsewhere meanwhile, its own request is still under way.
LoadingIsServed ==
  \A p \in Visible(win) :
    win.loading[p] =>
      IF Tab(win, p) = Storage THEN win.storage # "idle"
      ELSE \E t \in win.tasks : t.kind = "load" /\ t.pane = p /\ Expected(win, t)

=============================================================================
