SPECIFICATION Spec
CONSTANTS
  l1 = l1
  l2 = l2
  d1 = d1
  d2 = d2
  m1 = m1
  NoDex = NoDex
  Null = Null
  Loaders = {l1, l2}
  DexFiles = {d1, d2}
  Elements <- MCElements
  Methods = {m1}
  DexOf <- MCDexOf
  Handlers <- MCHandlers
  Begins = {1, 2}
  MAX_GLOBALS = 2
  MAX_STARTS = 2
INVARIANTS
  RegisteredAreLive
  FilesMatch
  OnlyAClosedDexDangles
CHECK_DEADLOCK FALSE
