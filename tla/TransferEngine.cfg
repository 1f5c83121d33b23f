\* Two jobs of one process race for one name under every kind and policy.
CONSTANTS
  j1 = j1
  j2 = j2
  x = x
  y = y
  Jobs = {j1, j2}
  Portable = {}
  Procs = {"bexplorer"}
  ProcOf <- OneProcess
  Inputs = {x, y}
  Sources <- OneEach
  NameOf <- SameName
  Bases = {"report"}
  MaxIndex = 3
  Root = "."
  Kids = {"a"}
  Shapes <- FolderAndFile
  Kinds <- AnyKind
  Policies <- AnyPolicy
  Cancellable = {j1}
  Pausable = {}
  MaxEdits = 0
  MaxStrangers = 0
  Nobody = Nobody
  None = None
SPECIFICATION Spec
INVARIANTS TypeOK ReservationsExclusive
PROPERTIES NothingLost CompletedRootsComplete
