CONSTANTS
  Threads = {t1, t2}
  NoThread = NoThread
  InitialPolicy = FALSE
  Users = {u1, u2}
  Environments <- Devices
SPECIFICATION StartSpec
SYMMETRY StartSymmetry
INVARIANTS
  InitializedOnce
  DebuggableAgrees
  SuspendedWhilePatching
  NoCollectionIsSuspended
  InlineStaysOff
  MembersAreFound
CHECK_DEADLOCK FALSE
