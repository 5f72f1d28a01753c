SPECIFICATION SoInfoSpec
CONSTANTS
  libart = libart
  linker64 = linker64
  head = head
  somain = somain
  getCodeItem = getCodeItem
  so1 = so1
  Own = own
  Other = other
  Broadcast = broadcast
  None = None
  Paths = {libart, linker64}
  Symbols = {head, somain, getCodeItem}
  PathOf <- MCPathOf
  Copies = {"dump", "checkvpn"}
  Wanted <- MCWanted
  Home <- MCHome
  Image <- MCImage
  SPACE = 5
  PAGE = 10
  Walkers <- MCWalkers
  Sos = {so1}
  GetHead = head
  GetSomain = somain
  Interfaces = {1}
INVARIANTS
  ResolvedAreRight
  ListIsWhole
  LocalIsOwn
CHECK_DEADLOCK FALSE
