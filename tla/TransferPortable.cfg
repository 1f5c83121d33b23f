\* j1 exports from a device, j2 replaces the same name while j1 cleans up.
CONSTANTS
  j1 = j1
  j2 = j2
  x = x
  y = y
  Jobs = {j1, j2}
  Portable = {j1}
  Procs = {"bexplorer"}
  ProcOf <- OneProcess
  Inputs = {x, y}
  Sources <- OneEach
  NameOf <- SameName
  Bases = {"report"}
  MaxIndex = 3
  Root = "."
  Kids = {"a"}
  Shapes <- FolderAndFile
  Kinds <- CopyAndMove
  Policies <- OnlyReplace
  Cancellable = {j1}
  Pausable = {}
  MaxEdits = 0
  MaxStrangers = 0
  Nobody = Nobody
  None = None
SPECIFICATION Spec
PROPERTY NothingLost
