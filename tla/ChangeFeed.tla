----------------------------- MODULE ChangeFeed -----------------------------
(***************************************************************************)
(* What the directory watcher (src/fs/watcher.rs) promises to the window:  *)
(* the channel that directory_watcher returns.  The system tells of        *)
(* changes in the watched directories; an entry that has changed stays     *)
(* among the untold ones until the window reads a change that tells of it, *)
(* or its directory is no longer watched.  The window may be told of more  *)
(* than has changed, never of less.                                        *)
(***************************************************************************)
CONSTANTS Entries, \* what may change
          Dirs,    \* the directories they are in
          DirOf    \* the directory of each, in [Entries -> Dirs]

VARIABLES
  watched, \* the directories whose changes are reported
  stale,   \* entries changed since the window last heard of them
  untold,  \* entries some pending report will tell of
  front    \* entries the next report to be read tells of

feed == <<watched, stale, untold, front>>

TypeOK ==
  /\ watched \subseteq Dirs
  /\ stale \subseteq Entries /\ untold \subseteq Entries /\ front \subseteq Entries

Init == watched = {} /\ stale = {} /\ untold = {} /\ front = {}

Below(dirs) == {e \in Entries : DirOf[e] \in dirs}

\* Entries change; those of watched directories will be told, and maybe others.
Change(changed) ==
  /\ stale' = stale \cup (changed \cap Below(watched))
  /\ untold \cup stale' \subseteq untold'
  /\ UNCHANGED watched

\* The window reads a report; another one may already carry the same entries.
Read(told) ==
  /\ stale' = stale \ told
  /\ untold' \subseteq untold /\ untold \ told \subseteq untold'
  /\ UNCHANGED watched

\* Other directories are watched: nothing is told of those that are left.
Watch(next) ==
  /\ watched' = next
  /\ stale' = stale \cap Below(next)
  /\ untold \cap Below(next) \subseteq untold' /\ untold' \subseteq Below(next)

Next ==
  /\ front' \subseteq Entries /\ untold' \subseteq Entries
  /\ \/ \E changed \in SUBSET Entries : Change(changed)
     \/ Read(front)
     \/ \E next \in SUBSET Dirs : Watch(next)

Spec == Init /\ [][Next]_feed

\* What has changed will be told of.
StaleIsUntold == stale \subseteq untold
=============================================================================
