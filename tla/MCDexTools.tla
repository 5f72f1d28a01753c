---------------------------- MODULE MCDexTools ------------------------------
\* Two class loaders: one whose second element has no DexFile and
\* whose cookie has a null, and one that may be collected.
EXTENDS DexTools

CONSTANTS l1, l2, d1, d2, m1

MCElements == (l1 :> <<<<d1, Null>>, NoDex>>) @@ (l2 :> <<<<d2>>>>)
MCDexOf == m1 :> d2
MCHandlers == m1 :> <<[pairs |-> 1, catchAll |-> TRUE]>>
=============================================================================
