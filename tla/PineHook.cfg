CONSTANTS
  Threads = {t1, t2, t3}
  Methods = {m1}
  StaticMethods = {m1}
  Callbacks = {c1, c2}
  Records = {r1, r2}
  NoRecord = NoRecord
  NoMethod = NoMethod
  NoCallback = NoCallback
SPECIFICATION Spec
SYMMETRY Symmetry
INVARIANTS
  InstalledOnce
  RegistrationsAreLive
  BridgeFindsRecord
  CallSeesRegistered
  UnhookedOnlyIfAbandoned
