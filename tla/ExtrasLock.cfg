CONSTANTS
  Threads = {t1, t2, t3}
  Regs = {core}
  Values = {v1, v2}
  NoArgs = NoArgs
SPECIFICATION FairSpec
CHECK_DEADLOCK FALSE
INVARIANTS
  MutualExclusion
  ArgsIntact
PROPERTIES
  HandsOver
  WaitersProgress
