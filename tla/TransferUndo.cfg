\* Two transfers at once, reported, denied or not, with two undos and a move to the trash.
CONSTANTS
  MaxParallel = 2
  MaxJobs = 2
  MaxIndex = 2
  MaxUndos = 2
  MaxTrashes = 1
  MaxProgress = 1
  Occupied = {}
  Kinds <- AnyKind
  Denials = {TRUE, FALSE}
  None = None
SPECIFICATION Spec
INVARIANTS TypeOK ProgressMatches UndoHeldOnce
PROPERTIES UndoRestores
