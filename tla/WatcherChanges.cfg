\* Two directories are shown and one is left again; the entry of the other changes for ever,
\* alone or together with that of the first.
\* Channels of one signal and one change.
CONSTANTS
  work = work
  home = home
  a = a
  c = c
  drive = drive
  p1 = p1
  p2 = p2
  None = None
  Dirs = {work, home}
  Files = {a, c}
  DirOf <- OneEach
  Unwatchable = {}
  Roots = {}
  Under <- Nobody
  Pausers = {}
  RootOf <- Nobody
  SignalCap = 1
  OutputCap = 1
  MaxPaths = 1
  Changes = {{c}, {a, c}}
  Views <- LeaveWork
SPECIFICATION Spec
PROPERTIES IsChangeFeed
INVARIANTS TypeOK ChangesAreKept BlockedWorkerIsWoken
