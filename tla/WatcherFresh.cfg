\* Files that change for ever in a directory that is shown, in events of no entry, of one
\* and of too many, one of which is in a directory that is not shown.
CONSTANTS
  work = work
  home = home
  a = a
  c = c
  drive = drive
  p1 = p1
  p2 = p2
  None = None
  Dirs = {work, home}
  Files = {a, c}
  DirOf <- OneEach
  Unwatchable = {}
  Roots = {}
  Under <- Nobody
  Pausers = {}
  RootOf <- Nobody
  SignalCap = 1
  OutputCap = 1
  MaxPaths = 1
  Changes = {{}, {a}, {a, c}}
  Views <- ShowWork
SPECIFICATION FairSpec
PROPERTIES ChangesArrive
