\* Two paths, two threads; a move or a copy that can be undone, or neither.
CONSTANTS
  docs = docs
  home = home
  x = x
  y = y
  Own = Own
  None = None
  Paths = {docs, home}
  Kids = {x, y}
  Workers = {1, 2}
  Starts <- AllStarts
  MaxForeign = 2
  MaxFailures = 1
  MaxJobs = 2
SPECIFICATION Spec
INVARIANTS TypeOK NothingLost UndoIsExact
