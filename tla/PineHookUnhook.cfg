CONSTANTS
  Threads = {t1, t2}
  Methods = {m1}
  StaticMethods = {m1}
  Callbacks = {c1}
  Records = {r1}
  NoRecord = NoRecord
  NoMethod = NoMethod
  NoCallback = NoCallback
SPECIFICATION Spec
SYMMETRY Symmetry
INVARIANT UnhookIsHarmless
