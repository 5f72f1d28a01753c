CONSTANTS
  Threads = {t1, t2}
  Regs = {core}
  Values = {v1, v2}
  NoArgs = NoArgs
SPECIFICATION FairSpec
CHECK_DEADLOCK FALSE
PROPERTIES
  LockIsReleased
