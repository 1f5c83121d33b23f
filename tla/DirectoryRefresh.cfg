\* Two folders, two panes: a split beside the storage view on either side, and no split.
CONSTANTS
  docs = docs
  home = home
  Dirs = {docs, home}
  Home = home
  Primary = Primary
  Secondary = Secondary
  Storage = Storage
  None = None
  Sessions <- AllSessions
  MaxActs = 2
  MaxEdits = 1
  MaxFailures = 1
SPECIFICATION Spec
INVARIANTS TypeOK PaneShowsItsFolder StalePaneIsServed RefreshIsWaitedFor LoadingIsServed
PROPERTIES NeverOlder
