CONSTANTS
  Threads = {t1, t2}
  NoThread = NoThread
  Methods = {1, 2, 3}
  CodeAt <- MCCodeAt
  PageSize = 320
  Functions = {952}
  FreePages = {5, 6}
  DirectSize = 16
  SkipSize = 8
  BridgeSize = 156
  BackupSize = 52
  Override = 24
  Slack = 0
  Thumb = FALSE
SPECIFICATION Spec
CHECK_DEADLOCK FALSE
INVARIANTS
  RegionsDisjoint
  EntriesAreWhole
  FaultsAreInRange
  HandlerComesBack
