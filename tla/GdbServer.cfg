SPECIFICATION Spec
CONSTANTS
  IN_SIZE = 13
  OUT_SIZE = 5
  READ_MAX = 7
  THREAD_NUMBER = 3
  BREAKPOINT_NUMBER = 1
  ThreadCounts = {2}
  LaterCounts = {5}
  MAX_STARTS = 2
  Kinds = {"p", "mLong", "Q", "D", "Z", "z", "vKill", "vContc", "vConts", "vContsZero", "qfThreadInfo"}
  MAX_REQUESTS = 2
  WINDOW = 2
  MAX_INTERRUPTS = 1
INVARIANTS
  TypeOK
  NoRequestIsLost
  CurrIsOccupied
  ListEndsInTable
PROPERTIES
  AnswersInOrder
  RequestsAreAnswered
