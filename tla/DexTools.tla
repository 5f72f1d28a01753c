----------------------------- MODULE DexTools -------------------------------
(***************************************************************************)
(* libdump and libjvmRuntime in one process of an app, which may die or be *)
(* killed and start again: the dumped files stay, all else is gone.        *)
(***************************************************************************)
EXTENDS DumpDex, JvmRuntime

CONSTANT MAX_STARTS     \* bound: starts of the process

ASSUME StartsAssumption == MAX_STARTS \in Nat

VARIABLE starts

vars == <<runtimeVars, dumpVars, jvmVars, starts>>

Init ==
  /\ ProcessInit /\ DumpInit /\ JvmInit
  /\ layout \in BOOLEAN
  /\ files = [b \in Begins |-> <<>>] /\ torn = {}
  /\ starts = 1

\* The process, dead or killed by the system at any time, starts anew.
Restart ==
  /\ starts < MAX_STARTS /\ starts' = starts + 1
  /\ loader' = [l \in Loaders |-> "none"] /\ refs' = [l \in Loaders |-> 0]
  /\ begin' = [d \in DexFiles |-> 0] /\ decoded' = {}
  /\ closedCookie' = {} /\ freedOpen' = {}
  /\ pc' = "idle" /\ died' = "alive" /\ context' = NoContext
  /\ visited' = <<>> /\ loaded' = {} /\ hooks' = 0
  /\ contextSet' = FALSE /\ getCodeItem' = FALSE /\ at' = NoElement /\ cookie' = <<>>
  /\ registered' = [b \in Begins |-> Nothing]
  /\ jat' = 0 /\ arrays' = <<>>
  /\ UNCHANGED <<layout, files, torn>>

Next ==
  \/ App /\ UNCHANGED <<dumpVars, jvmVars, starts>>
  \/ DumpLib /\ UNCHANGED <<jvmVars, starts>>
  \/ JvmLib /\ UNCHANGED <<dumpVars, starts>>
  \/ Restart

Spec == Init /\ [][Next]_vars
-----------------------------------------------------------------------------
\* A dump reads freed memory only after somebody has closed a DexFile: the
\* collector, which runs beside the walk, cannot take what the walk or the
\* registered files refer to, nor are nulls of a cookie followed.  (What else
\* the process can die of is named by the other values of died.)
OnlyAClosedDexDangles == died = "dangling" => freedOpen # {}
=============================================================================
