\* Two ejections of one drive while the window shows other directories.
CONSTANTS
  work = work
  home = home
  a = a
  c = c
  drive = drive
  p1 = p1
  p2 = p2
  None = None
  Dirs = {work, home}
  Files = {}
  DirOf <- Nobody
  Unwatchable = {home}
  Roots = {drive}
  Under <- WorkBelow
  Pausers = {p1, p2}
  RootOf <- EjectTwice
  SignalCap = 1
  OutputCap = 1
  MaxPaths = 1
  Changes = {}
  Views <- AnyTwice
SPECIFICATION FairSpec
INVARIANTS PauseReleasesHandles
PROPERTIES WatchesFollow
