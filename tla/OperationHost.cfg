\* Two launches; two operations, a process that is killed, an answer that comes too late.
CONSTANTS
  c1 = c1
  c2 = c2
  Procs = {c1, c2}
  MaxJobs = 2
  MaxStops = 1
  MaxTimeouts = 1
SPECIFICATION FairSpec
INVARIANTS TypeOK AcknowledgedIsHeld MarkersLead AttentionIsShown ActivationsArePolled
PROPERTIES WorkIsNotKilled DetachedEnds
