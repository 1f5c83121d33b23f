\* A move with edits, pauses and strangers, next to a paste into the same folder.
CONSTANTS
  j1 = j1
  j2 = j2
  x = x
  y = y
  Jobs = {j1, j2}
  Portable = {}
  Procs = {"bexplorer"}
  ProcOf <- OneProcess
  Inputs <- InputsWithOwn
  Sources <- OwnFolder
  NameOf <- SameName
  Bases = {"report"}
  MaxIndex = 2
  Root = "."
  Kids = {"a"}
  Shapes <- FolderAndOwn
  Kinds <- MoveAndCopy
  Policies <- BothAndReplace
  Cancellable = {j1}
  Pausable = {j1}
  MaxEdits = 2
  MaxStrangers = 1
  Nobody = Nobody
  None = None
SPECIFICATION FairSpec
PROPERTIES UserContentKept CancelEnds
