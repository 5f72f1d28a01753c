CONSTANTS
  N = 3
  Results = {v1, v2}
  Null = Null
  Throwables = {e1}
  NoThrowable = NoThrowable
  MaxOps = 2
SPECIFICATION Spec
CHECK_DEADLOCK FALSE
INVARIANTS
  TypeOK
  FreshFrame
PROPERTIES
  Transactional
