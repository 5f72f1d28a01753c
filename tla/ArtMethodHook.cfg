CONSTANTS
  Callers = {c1, c2}
  Versions = {23, 24, 26, 29, 30, 31}
  Classes = {k1, k2}
  NoClass = NoClass
  Impls = {n1, n2}
SPECIFICATION Spec
SYMMETRY MCSymmetry
INVARIANTS
  BackupIsOriginal
  HookStays
  CodeStaysAlive
  SyncedCallsAreFresh
