\* A process that saves twice, has two calls fail, and stops and starts again twice.
CONSTANTS
  process = process
  ui = ui
  writerThread = writerThread
  Storage = Storage
  Network = Network
  Session = Session
  None = None
  Procs = {process}
  Threads = {ui, writerThread}
  ProcOf <- ThreadOwners
  Window <- Windows
  Writer <- Writers
  Files = {Storage, Network, Session}
  MaxSaves = 2
  MaxStops = 2
  MaxFailures = 2
SPECIFICATION FairSpec
INVARIANTS FilesAreWhole TempsAreOwned NewestIsSaved
PROPERTIES ScheduledIsTaken
