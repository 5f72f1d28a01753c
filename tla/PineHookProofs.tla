--------------------------- MODULE PineHookProofs ---------------------------
(***************************************************************************)
(* Proofs about PineHook: its type invariant and its safety invariants for *)
(* every number of threads, methods, callbacks and records.                *)
(*                                                                         *)
(* The inductive invariant adds to the checked properties what the code    *)
(* relies on silently: the locals of a thread still agree with the shared  *)
(* table (Locals), a record is put once and belongs to one method          *)
(* (Ownership), a live trampoline has a complete record (Bridges), and the *)
(* callbacks that a call may and must see follow its record (Decisions).   *)
(***************************************************************************)
EXTENDS PineHook, TLAPS

\* Where a thread relies on the record it looked up.
WithRecord == Installing \union InChain
                \union {"add", "check", "empty", "snapshot", "backupOnly", "resolve", "resolved"}

Intercepted == PreCheck \union InChain

Locals == \A t \in Threads :
  /\ pc[t] # "idle" => met[t] \in Methods
  /\ pc[t] \in Hooking => cb[t] \in Callbacks
  /\ pc[t] \in WithRecord => rec[t] \in Records /\ rec[t] = table[met[t]]
  /\ pc[t] \notin Intercepted => must[t] = {}

Ownership ==
  /\ \A m \in Methods : table[m] # NoRecord => owner[table[m]] = m
  /\ \A r \in Records : owner[r] # NoMethod => table[owner[r]] = r
  /\ \A h \in handles : owner[h.rec] # NoMethod

Bridges ==
  /\ \A m \in Methods : entry[m] = "bridge" => table[m] # NoRecord /\ params[table[m]]
  /\ \A t \in Threads : pc[t] = "install" => params[rec[t]]
  /\ \A t \in Threads : pc[t] \in Intercepted => entry[met[t]] = "bridge"

Decisions == \A t \in Threads :
  /\ pc[t] \in PreCheck => /\ must[t] \subseteq callbacks[table[met[t]]]
                           /\ callbacks[table[met[t]]] \subseteq may[t]
  /\ pc[t] \in InChain => must[t] \subseteq snap[t] /\ snap[t] \subseteq may[t]

IInv ==
  /\ TypeOK
  /\ Locals
  /\ Ownership
  /\ InstalledOnce
  /\ Bridges
  /\ Decisions
  /\ UnhookedOnlyIfAbandoned

-----------------------------------------------------------------------------

\* Every step keeps the types.  Locals gives the record that a thread indexes
\* with, Bridges the record that Enter finds behind the trampoline.
LEMMA TypeOKStep == IInv /\ [Next]_vars => TypeOK'
<1> SUFFICES ASSUME IInv, [Next]_vars PROVE TypeOK'
  OBVIOUS
<1> USE RecordAssumption, MethodAssumption DEF IInv, At, Goto, Return, recordVars,
        historyVars, TypeOK, Handle, Locals, Bridges, WithRecord, Intercepted, Labels,
        Hooking, Installing, Preparing, PreCheck, InChain, Original
<1>1. ASSUME NEW t \in Threads, NEW m \in Methods, NEW c \in Callbacks, StartHook(t, m, c)
     PROVE TypeOK'
  BY <1>1 DEF StartHook
<1>2. ASSUME NEW t \in Threads, GetOrCreateRecord(t) PROVE TypeOK'
  BY <1>2 DEF GetOrCreateRecord, NewMethod, HandleHook
<1>3. ASSUME NEW t \in Threads, PrepareNewMethod(t) PROVE TypeOK'
  BY <1>3 DEF PrepareNewMethod
<1>4. ASSUME NEW t \in Threads, PrepareFails(t) PROVE TypeOK'
  BY <1>4 DEF PrepareFails
<1>5. ASSUME NEW t \in Threads, Hook0Succeeds(t) PROVE TypeOK'
  BY <1>5 DEF Hook0Succeeds
<1>6. ASSUME NEW t \in Threads, Hook0Fails(t) PROVE TypeOK'
  BY <1>6 DEF Hook0Fails
<1>7. ASSUME NEW t \in Threads, PublishBackup(t) PROVE TypeOK'
  BY <1>7 DEF PublishBackup
<1>8. ASSUME NEW t \in Threads, PublishFails(t) PROVE TypeOK'
  BY <1>8 DEF PublishFails
<1>9. ASSUME NEW t \in Threads, AddCallback(t) PROVE TypeOK'
  BY <1>9 DEF AddCallback, Handle, Undecided
<1>10. ASSUME NEW t \in Threads, NEW h \in handles, Unhook(t, h) PROVE TypeOK'
  BY <1>10 DEF Unhook, RemoveCallback, Handle, Undecided
<1>11. ASSUME NEW t \in Threads, NEW m \in Methods, Call(t, m) PROVE TypeOK'
  BY <1>11 DEF Call
<1>12. ASSUME NEW t \in Threads, Enter(t) PROVE TypeOK'
  BY <1>12 DEF Enter
<1>13. ASSUME NEW t \in Threads, GetHookRecord(t) PROVE TypeOK'
  BY <1>13 DEF GetHookRecord
<1>14. ASSUME NEW t \in Threads, ReadDisableHooks(t) PROVE TypeOK'
  BY <1>14 DEF ReadDisableHooks
<1>15. ASSUME NEW t \in Threads, EmptyCallbacks(t) PROVE TypeOK'
  BY <1>15 DEF EmptyCallbacks
<1>16. ASSUME NEW t \in Threads, GetCallbacks(t) PROVE TypeOK'
  BY <1>16 DEF GetCallbacks
<1>17. ASSUME NEW t \in Threads, BeforeCallbacks(t) PROVE TypeOK'
  BY <1>17 DEF BeforeCallbacks
<1>18. ASSUME NEW t \in Threads, AfterCallbacks(t) PROVE TypeOK'
  BY <1>18 DEF AfterCallbacks
<1>19. ASSUME NEW t \in Threads, CallBackup(t) PROVE TypeOK'
  <2>1. CASE crashed' = TRUE /\ UNCHANGED <<must, may, pc, met, rec, cb, snap>>
    BY <2>1, <1>19 DEF CallBackup
  <2>2. CASE UNCHANGED crashed /\ Return(t)
    BY <2>2, <1>19 DEF CallBackup
  <2>3. CASE Goto(t, "after") /\ UNCHANGED <<must, may, crashed, met, rec, cb, snap>>
    BY <2>3, <1>19 DEF CallBackup
  <2> QED
    BY <2>1, <2>2, <2>3, <1>19 DEF CallBackup
<1>20. ASSUME NEW t \in Threads, NEW m \in Methods, InvokeOriginal(t, m) PROVE TypeOK'
  BY <1>20 DEF InvokeOriginal
<1>21. ASSUME NEW t \in Threads, LookupRecord(t) PROVE TypeOK'
  BY <1>21 DEF LookupRecord
<1>22. ASSUME NEW t \in Threads, ResolvePending(t) PROVE TypeOK'
  BY <1>22 DEF ResolvePending
<1>23. ASSUME NEW b \in BOOLEAN, SetDisableHooks(b) PROVE TypeOK'
  BY <1>23 DEF SetDisableHooks
<1>24. CASE UNCHANGED vars
  BY <1>24 DEF vars
<1> QED
  BY <1>1, <1>2, <1>3, <1>4, <1>5, <1>6, <1>7, <1>8, <1>9, <1>10, <1>11, <1>12, <1>13,
     <1>14, <1>15, <1>16, <1>17, <1>18, <1>19, <1>20, <1>21, <1>22, <1>23, <1>24 DEF
     Next, HookStep, CallStep, Dead

\* Every step keeps the locals in agreement with the table: an entry of the
\* table never changes once it is there.
LEMMA LocalsStep == IInv /\ [Next]_vars => Locals'
<1> SUFFICES ASSUME IInv, [Next]_vars PROVE Locals'
  OBVIOUS
<1> USE RecordAssumption, MethodAssumption DEF IInv, At, Goto, Return, recordVars,
        historyVars, TypeOK, Locals, Bridges, WithRecord, Intercepted, Labels, Hooking,
        Installing, Preparing, PreCheck, InChain, Original
<1>1. ASSUME NEW t \in Threads, NEW m \in Methods, NEW c \in Callbacks, StartHook(t, m, c)
     PROVE Locals'
  BY <1>1 DEF StartHook
<1>2. ASSUME NEW t \in Threads, GetOrCreateRecord(t) PROVE Locals'
  BY <1>2 DEF GetOrCreateRecord, NewMethod, HandleHook
<1>3. ASSUME NEW t \in Threads, PrepareNewMethod(t) PROVE Locals'
  BY <1>3 DEF PrepareNewMethod
<1>4. ASSUME NEW t \in Threads, PrepareFails(t) PROVE Locals'
  BY <1>4 DEF PrepareFails
<1>5. ASSUME NEW t \in Threads, Hook0Succeeds(t) PROVE Locals'
  BY <1>5 DEF Hook0Succeeds
<1>6. ASSUME NEW t \in Threads, Hook0Fails(t) PROVE Locals'
  BY <1>6 DEF Hook0Fails
<1>7. ASSUME NEW t \in Threads, PublishBackup(t) PROVE Locals'
  BY <1>7 DEF PublishBackup
<1>8. ASSUME NEW t \in Threads, PublishFails(t) PROVE Locals'
  BY <1>8 DEF PublishFails
<1>9. ASSUME NEW t \in Threads, AddCallback(t) PROVE Locals'
  BY <1>9 DEF AddCallback, Handle, Undecided
<1>10. ASSUME NEW t \in Threads, NEW h \in handles, Unhook(t, h) PROVE Locals'
  BY <1>10 DEF Unhook, RemoveCallback, Handle, Undecided
<1>11. ASSUME NEW t \in Threads, NEW m \in Methods, Call(t, m) PROVE Locals'
  BY <1>11 DEF Call
<1>12. ASSUME NEW t \in Threads, Enter(t) PROVE Locals'
  BY <1>12 DEF Enter
<1>13. ASSUME NEW t \in Threads, GetHookRecord(t) PROVE Locals'
  BY <1>13 DEF GetHookRecord
<1>14. ASSUME NEW t \in Threads, ReadDisableHooks(t) PROVE Locals'
  BY <1>14 DEF ReadDisableHooks
<1>15. ASSUME NEW t \in Threads, EmptyCallbacks(t) PROVE Locals'
  \* Without callbacks there is none that the call must see.
  <2>1. callbacks[rec[t]] = {} => must[t] = {}
    BY <1>15 DEF EmptyCallbacks, Decisions
  <2> QED
    BY <2>1, <1>15 DEF EmptyCallbacks
<1>16. ASSUME NEW t \in Threads, GetCallbacks(t) PROVE Locals'
  BY <1>16 DEF GetCallbacks
<1>17. ASSUME NEW t \in Threads, BeforeCallbacks(t) PROVE Locals'
  BY <1>17 DEF BeforeCallbacks
<1>18. ASSUME NEW t \in Threads, AfterCallbacks(t) PROVE Locals'
  BY <1>18 DEF AfterCallbacks
<1>19. ASSUME NEW t \in Threads, CallBackup(t) PROVE Locals'
  BY <1>19 DEF CallBackup
<1>20. ASSUME NEW t \in Threads, NEW m \in Methods, InvokeOriginal(t, m) PROVE Locals'
  BY <1>20 DEF InvokeOriginal
<1>21. ASSUME NEW t \in Threads, LookupRecord(t) PROVE Locals'
  BY <1>21 DEF LookupRecord
<1>22. ASSUME NEW t \in Threads, ResolvePending(t) PROVE Locals'
  BY <1>22 DEF ResolvePending
<1>23. ASSUME NEW b \in BOOLEAN, SetDisableHooks(b) PROVE Locals'
  BY <1>23 DEF SetDisableHooks
<1>24. CASE UNCHANGED vars
  BY <1>24 DEF vars
<1> QED
  BY <1>1, <1>2, <1>3, <1>4, <1>5, <1>6, <1>7, <1>8, <1>9, <1>10, <1>11, <1>12, <1>13,
     <1>14, <1>15, <1>16, <1>17, <1>18, <1>19, <1>20, <1>21, <1>22, <1>23, <1>24 DEF
     Next, HookStep, CallStep, Dead

\* Every step keeps table and owner inverse to each other: GetOrCreateRecord
\* takes a fresh record, and only for a method without one.
LEMMA OwnershipStep == IInv /\ [Next]_vars => Ownership'
<1> SUFFICES ASSUME IInv, [Next]_vars PROVE Ownership'
  OBVIOUS
<1> USE RecordAssumption, MethodAssumption DEF IInv, At, Goto, Return, recordVars,
        historyVars, TypeOK, Handle, Ownership, Locals, WithRecord, Intercepted, Labels,
        Hooking, Installing, Preparing, PreCheck, InChain, Original
<1>1. ASSUME NEW t \in Threads, NEW m \in Methods, NEW c \in Callbacks, StartHook(t, m, c)
     PROVE Ownership'
  BY <1>1 DEF StartHook
<1>2. ASSUME NEW t \in Threads, GetOrCreateRecord(t) PROVE Ownership'
  BY <1>2 DEF GetOrCreateRecord, NewMethod, HandleHook
<1>3. ASSUME NEW t \in Threads, PrepareNewMethod(t) PROVE Ownership'
  BY <1>3 DEF PrepareNewMethod
<1>4. ASSUME NEW t \in Threads, PrepareFails(t) PROVE Ownership'
  BY <1>4 DEF PrepareFails
<1>5. ASSUME NEW t \in Threads, Hook0Succeeds(t) PROVE Ownership'
  BY <1>5 DEF Hook0Succeeds
<1>6. ASSUME NEW t \in Threads, Hook0Fails(t) PROVE Ownership'
  BY <1>6 DEF Hook0Fails
<1>7. ASSUME NEW t \in Threads, PublishBackup(t) PROVE Ownership'
  BY <1>7 DEF PublishBackup
<1>8. ASSUME NEW t \in Threads, PublishFails(t) PROVE Ownership'
  BY <1>8 DEF PublishFails
<1>9. ASSUME NEW t \in Threads, AddCallback(t) PROVE Ownership'
  BY <1>9 DEF AddCallback, Handle, Undecided
<1>10. ASSUME NEW t \in Threads, NEW h \in handles, Unhook(t, h) PROVE Ownership'
  BY <1>10 DEF Unhook, RemoveCallback, Handle, Undecided
<1>11. ASSUME NEW t \in Threads, NEW m \in Methods, Call(t, m) PROVE Ownership'
  BY <1>11 DEF Call
<1>12. ASSUME NEW t \in Threads, Enter(t) PROVE Ownership'
  BY <1>12 DEF Enter
<1>13. ASSUME NEW t \in Threads, GetHookRecord(t) PROVE Ownership'
  BY <1>13 DEF GetHookRecord
<1>14. ASSUME NEW t \in Threads, ReadDisableHooks(t) PROVE Ownership'
  BY <1>14 DEF ReadDisableHooks
<1>15. ASSUME NEW t \in Threads, EmptyCallbacks(t) PROVE Ownership'
  BY <1>15 DEF EmptyCallbacks
<1>16. ASSUME NEW t \in Threads, GetCallbacks(t) PROVE Ownership'
  BY <1>16 DEF GetCallbacks
<1>17. ASSUME NEW t \in Threads, BeforeCallbacks(t) PROVE Ownership'
  BY <1>17 DEF BeforeCallbacks
<1>18. ASSUME NEW t \in Threads, AfterCallbacks(t) PROVE Ownership'
  BY <1>18 DEF AfterCallbacks
<1>19. ASSUME NEW t \in Threads, CallBackup(t) PROVE Ownership'
  BY <1>19 DEF CallBackup
<1>20. ASSUME NEW t \in Threads, NEW m \in Methods, InvokeOriginal(t, m)
     PROVE Ownership'
  BY <1>20 DEF InvokeOriginal
<1>21. ASSUME NEW t \in Threads, LookupRecord(t) PROVE Ownership'
  BY <1>21 DEF LookupRecord
<1>22. ASSUME NEW t \in Threads, ResolvePending(t) PROVE Ownership'
  BY <1>22 DEF ResolvePending
<1>23. ASSUME NEW b \in BOOLEAN, SetDisableHooks(b) PROVE Ownership'
  BY <1>23 DEF SetDisableHooks
<1>24. CASE UNCHANGED vars
  BY <1>24 DEF vars
<1> QED
  BY <1>1, <1>2, <1>3, <1>4, <1>5, <1>6, <1>7, <1>8, <1>9, <1>10, <1>11, <1>12, <1>13,
     <1>14, <1>15, <1>16, <1>17, <1>18, <1>19, <1>20, <1>21, <1>22, <1>23, <1>24 DEF
     Next, HookStep, CallStep, Dead

\* A thread begins to install only when it has put the record of its method,
\* so no other thread installs that method and no trampoline is there.
LEMMA InstalledOnceStep == IInv /\ [Next]_vars => InstalledOnce'
<1> SUFFICES ASSUME IInv, [Next]_vars PROVE InstalledOnce'
  OBVIOUS
<1> USE RecordAssumption, MethodAssumption DEF IInv, At, Goto, Return, recordVars,
        historyVars, TypeOK, InstalledOnce, Bridges, Locals, WithRecord, Intercepted,
        Labels, Hooking, Installing, Preparing, PreCheck, InChain, Original
<1>1. ASSUME NEW t \in Threads, NEW m \in Methods, NEW c \in Callbacks, StartHook(t, m, c)
     PROVE InstalledOnce'
  BY <1>1 DEF StartHook
<1>2. ASSUME NEW t \in Threads, GetOrCreateRecord(t) PROVE InstalledOnce'
  BY <1>2 DEF GetOrCreateRecord, NewMethod, HandleHook
<1>3. ASSUME NEW t \in Threads, PrepareNewMethod(t) PROVE InstalledOnce'
  BY <1>3 DEF PrepareNewMethod
<1>4. ASSUME NEW t \in Threads, PrepareFails(t) PROVE InstalledOnce'
  BY <1>4 DEF PrepareFails
<1>5. ASSUME NEW t \in Threads, Hook0Succeeds(t) PROVE InstalledOnce'
  BY <1>5 DEF Hook0Succeeds
<1>6. ASSUME NEW t \in Threads, Hook0Fails(t) PROVE InstalledOnce'
  BY <1>6 DEF Hook0Fails
<1>7. ASSUME NEW t \in Threads, PublishBackup(t) PROVE InstalledOnce'
  BY <1>7 DEF PublishBackup
<1>8. ASSUME NEW t \in Threads, PublishFails(t) PROVE InstalledOnce'
  BY <1>8 DEF PublishFails
<1>9. ASSUME NEW t \in Threads, AddCallback(t) PROVE InstalledOnce'
  BY <1>9 DEF AddCallback, Handle, Undecided
<1>10. ASSUME NEW t \in Threads, NEW h \in handles, Unhook(t, h) PROVE InstalledOnce'
  BY <1>10 DEF Unhook, RemoveCallback, Handle, Undecided
<1>11. ASSUME NEW t \in Threads, NEW m \in Methods, Call(t, m) PROVE InstalledOnce'
  BY <1>11 DEF Call
<1>12. ASSUME NEW t \in Threads, Enter(t) PROVE InstalledOnce'
  BY <1>12 DEF Enter
<1>13. ASSUME NEW t \in Threads, GetHookRecord(t) PROVE InstalledOnce'
  BY <1>13 DEF GetHookRecord
<1>14. ASSUME NEW t \in Threads, ReadDisableHooks(t) PROVE InstalledOnce'
  BY <1>14 DEF ReadDisableHooks
<1>15. ASSUME NEW t \in Threads, EmptyCallbacks(t) PROVE InstalledOnce'
  BY <1>15 DEF EmptyCallbacks
<1>16. ASSUME NEW t \in Threads, GetCallbacks(t) PROVE InstalledOnce'
  BY <1>16 DEF GetCallbacks
<1>17. ASSUME NEW t \in Threads, BeforeCallbacks(t) PROVE InstalledOnce'
  BY <1>17 DEF BeforeCallbacks
<1>18. ASSUME NEW t \in Threads, AfterCallbacks(t) PROVE InstalledOnce'
  BY <1>18 DEF AfterCallbacks
<1>19. ASSUME NEW t \in Threads, CallBackup(t) PROVE InstalledOnce'
  BY <1>19 DEF CallBackup
<1>20. ASSUME NEW t \in Threads, NEW m \in Methods, InvokeOriginal(t, m)
     PROVE InstalledOnce'
  BY <1>20 DEF InvokeOriginal
<1>21. ASSUME NEW t \in Threads, LookupRecord(t) PROVE InstalledOnce'
  BY <1>21 DEF LookupRecord
<1>22. ASSUME NEW t \in Threads, ResolvePending(t) PROVE InstalledOnce'
  BY <1>22 DEF ResolvePending
<1>23. ASSUME NEW b \in BOOLEAN, SetDisableHooks(b) PROVE InstalledOnce'
  BY <1>23 DEF SetDisableHooks
<1>24. CASE UNCHANGED vars
  BY <1>24 DEF vars
<1> QED
  BY <1>1, <1>2, <1>3, <1>4, <1>5, <1>6, <1>7, <1>8, <1>9, <1>10, <1>11, <1>12, <1>13,
     <1>14, <1>15, <1>16, <1>17, <1>18, <1>19, <1>20, <1>21, <1>22, <1>23, <1>24 DEF
     Next, HookStep, CallStep, Dead

\* A trampoline goes live only after its record was put and its parameter
\* types stored, and neither is ever taken back.
LEMMA BridgesStep == IInv /\ [Next]_vars => Bridges'
<1> SUFFICES ASSUME IInv, [Next]_vars PROVE Bridges'
  OBVIOUS
<1> USE RecordAssumption, MethodAssumption DEF IInv, At, Goto, Return, recordVars,
        historyVars, TypeOK, Bridges, Locals, WithRecord, Intercepted, Labels, Hooking,
        Installing, Preparing, PreCheck, InChain, Original
<1>1. ASSUME NEW t \in Threads, NEW m \in Methods, NEW c \in Callbacks, StartHook(t, m, c)
     PROVE Bridges'
  BY <1>1 DEF StartHook
<1>2. ASSUME NEW t \in Threads, GetOrCreateRecord(t) PROVE Bridges'
  BY <1>2 DEF GetOrCreateRecord, NewMethod, HandleHook
<1>3. ASSUME NEW t \in Threads, PrepareNewMethod(t) PROVE Bridges'
  BY <1>3 DEF PrepareNewMethod
<1>4. ASSUME NEW t \in Threads, PrepareFails(t) PROVE Bridges'
  BY <1>4 DEF PrepareFails
<1>5. ASSUME NEW t \in Threads, Hook0Succeeds(t) PROVE Bridges'
  BY <1>5 DEF Hook0Succeeds
<1>6. ASSUME NEW t \in Threads, Hook0Fails(t) PROVE Bridges'
  BY <1>6 DEF Hook0Fails
<1>7. ASSUME NEW t \in Threads, PublishBackup(t) PROVE Bridges'
  BY <1>7 DEF PublishBackup
<1>8. ASSUME NEW t \in Threads, PublishFails(t) PROVE Bridges'
  BY <1>8 DEF PublishFails
<1>9. ASSUME NEW t \in Threads, AddCallback(t) PROVE Bridges'
  BY <1>9 DEF AddCallback, Handle, Undecided
<1>10. ASSUME NEW t \in Threads, NEW h \in handles, Unhook(t, h) PROVE Bridges'
  BY <1>10 DEF Unhook, RemoveCallback, Handle, Undecided
<1>11. ASSUME NEW t \in Threads, NEW m \in Methods, Call(t, m) PROVE Bridges'
  BY <1>11 DEF Call
<1>12. ASSUME NEW t \in Threads, Enter(t) PROVE Bridges'
  BY <1>12 DEF Enter
<1>13. ASSUME NEW t \in Threads, GetHookRecord(t) PROVE Bridges'
  BY <1>13 DEF GetHookRecord
<1>14. ASSUME NEW t \in Threads, ReadDisableHooks(t) PROVE Bridges'
  BY <1>14 DEF ReadDisableHooks
<1>15. ASSUME NEW t \in Threads, EmptyCallbacks(t) PROVE Bridges'
  BY <1>15 DEF EmptyCallbacks
<1>16. ASSUME NEW t \in Threads, GetCallbacks(t) PROVE Bridges'
  BY <1>16 DEF GetCallbacks
<1>17. ASSUME NEW t \in Threads, BeforeCallbacks(t) PROVE Bridges'
  BY <1>17 DEF BeforeCallbacks
<1>18. ASSUME NEW t \in Threads, AfterCallbacks(t) PROVE Bridges'
  BY <1>18 DEF AfterCallbacks
<1>19. ASSUME NEW t \in Threads, CallBackup(t) PROVE Bridges'
  BY <1>19 DEF CallBackup
<1>20. ASSUME NEW t \in Threads, NEW m \in Methods, InvokeOriginal(t, m) PROVE Bridges'
  BY <1>20 DEF InvokeOriginal
<1>21. ASSUME NEW t \in Threads, LookupRecord(t) PROVE Bridges'
  BY <1>21 DEF LookupRecord
<1>22. ASSUME NEW t \in Threads, ResolvePending(t) PROVE Bridges'
  BY <1>22 DEF ResolvePending
<1>23. ASSUME NEW b \in BOOLEAN, SetDisableHooks(b) PROVE Bridges'
  BY <1>23 DEF SetDisableHooks
<1>24. CASE UNCHANGED vars
  BY <1>24 DEF vars
<1> QED
  BY <1>1, <1>2, <1>3, <1>4, <1>5, <1>6, <1>7, <1>8, <1>9, <1>10, <1>11, <1>12, <1>13,
     <1>14, <1>15, <1>16, <1>17, <1>18, <1>19, <1>20, <1>21, <1>22, <1>23, <1>24 DEF
     Next, HookStep, CallStep, Dead

\* Between the entry of a call and its snapshot the callbacks of its record
\* change only by AddCallback and Unhook, which the histories follow; the
\* records of other methods are other objects (Ownership).
LEMMA DecisionsStep == IInv /\ [Next]_vars => Decisions'
<1> SUFFICES ASSUME IInv, [Next]_vars PROVE Decisions'
  OBVIOUS
<1> USE RecordAssumption, MethodAssumption DEF IInv, At, Goto, Return, recordVars,
        historyVars, TypeOK, Handle, Decisions, Bridges, Ownership, Locals, WithRecord,
        Intercepted, Labels, Hooking, Installing, Preparing, PreCheck, InChain, Original
<1>1. ASSUME NEW t \in Threads, NEW m \in Methods, NEW c \in Callbacks, StartHook(t, m, c)
     PROVE Decisions'
  BY <1>1 DEF StartHook
<1>2. ASSUME NEW t \in Threads, GetOrCreateRecord(t) PROVE Decisions'
  BY <1>2 DEF GetOrCreateRecord, NewMethod, HandleHook
<1>3. ASSUME NEW t \in Threads, PrepareNewMethod(t) PROVE Decisions'
  BY <1>3 DEF PrepareNewMethod
<1>4. ASSUME NEW t \in Threads, PrepareFails(t) PROVE Decisions'
  BY <1>4 DEF PrepareFails
<1>5. ASSUME NEW t \in Threads, Hook0Succeeds(t) PROVE Decisions'
  BY <1>5 DEF Hook0Succeeds
<1>6. ASSUME NEW t \in Threads, Hook0Fails(t) PROVE Decisions'
  BY <1>6 DEF Hook0Fails
<1>7. ASSUME NEW t \in Threads, PublishBackup(t) PROVE Decisions'
  BY <1>7 DEF PublishBackup
<1>8. ASSUME NEW t \in Threads, PublishFails(t) PROVE Decisions'
  BY <1>8 DEF PublishFails
<1>9. ASSUME NEW t \in Threads, AddCallback(t) PROVE Decisions'
  BY <1>9 DEF AddCallback, Handle, Undecided
<1>10. ASSUME NEW t \in Threads, NEW h \in handles, Unhook(t, h) PROVE Decisions'
  BY <1>10 DEF Unhook, RemoveCallback, Handle, Undecided
<1>11. ASSUME NEW t \in Threads, NEW m \in Methods, Call(t, m) PROVE Decisions'
  BY <1>11 DEF Call
<1>12. ASSUME NEW t \in Threads, Enter(t) PROVE Decisions'
  BY <1>12 DEF Enter
<1>13. ASSUME NEW t \in Threads, GetHookRecord(t) PROVE Decisions'
  BY <1>13 DEF GetHookRecord
<1>14. ASSUME NEW t \in Threads, ReadDisableHooks(t) PROVE Decisions'
  BY <1>14 DEF ReadDisableHooks
<1>15. ASSUME NEW t \in Threads, EmptyCallbacks(t) PROVE Decisions'
  BY <1>15 DEF EmptyCallbacks
<1>16. ASSUME NEW t \in Threads, GetCallbacks(t) PROVE Decisions'
  BY <1>16 DEF GetCallbacks
<1>17. ASSUME NEW t \in Threads, BeforeCallbacks(t) PROVE Decisions'
  BY <1>17 DEF BeforeCallbacks
<1>18. ASSUME NEW t \in Threads, AfterCallbacks(t) PROVE Decisions'
  BY <1>18 DEF AfterCallbacks
<1>19. ASSUME NEW t \in Threads, CallBackup(t) PROVE Decisions'
  BY <1>19 DEF CallBackup
<1>20. ASSUME NEW t \in Threads, NEW m \in Methods, InvokeOriginal(t, m)
     PROVE Decisions'
  BY <1>20 DEF InvokeOriginal
<1>21. ASSUME NEW t \in Threads, LookupRecord(t) PROVE Decisions'
  BY <1>21 DEF LookupRecord
<1>22. ASSUME NEW t \in Threads, ResolvePending(t) PROVE Decisions'
  BY <1>22 DEF ResolvePending
<1>23. ASSUME NEW b \in BOOLEAN, SetDisableHooks(b) PROVE Decisions'
  BY <1>23 DEF SetDisableHooks
<1>24. CASE UNCHANGED vars
  BY <1>24 DEF vars
<1> QED
  BY <1>1, <1>2, <1>3, <1>4, <1>5, <1>6, <1>7, <1>8, <1>9, <1>10, <1>11, <1>12, <1>13,
     <1>14, <1>15, <1>16, <1>17, <1>18, <1>19, <1>20, <1>21, <1>22, <1>23, <1>24 DEF
     Next, HookStep, CallStep, Dead

\* A method leaves its preparation with a trampoline or by an exception.
LEMMA UnhookedOnlyIfAbandonedStep == IInv /\ [Next]_vars => UnhookedOnlyIfAbandoned'
<1> SUFFICES ASSUME IInv, [Next]_vars PROVE UnhookedOnlyIfAbandoned'
  OBVIOUS
<1> USE RecordAssumption, MethodAssumption DEF IInv, At, Goto, Return, recordVars,
        historyVars, TypeOK, UnhookedOnlyIfAbandoned, Locals, WithRecord, Intercepted,
        Labels, Hooking, Installing, Preparing, PreCheck, InChain, Original
<1>1. ASSUME NEW t \in Threads, NEW m \in Methods, NEW c \in Callbacks, StartHook(t, m, c)
     PROVE UnhookedOnlyIfAbandoned'
  BY <1>1 DEF StartHook
<1>2. ASSUME NEW t \in Threads, GetOrCreateRecord(t) PROVE UnhookedOnlyIfAbandoned'
  BY <1>2 DEF GetOrCreateRecord, NewMethod, HandleHook
<1>3. ASSUME NEW t \in Threads, PrepareNewMethod(t) PROVE UnhookedOnlyIfAbandoned'
  BY <1>3 DEF PrepareNewMethod
<1>4. ASSUME NEW t \in Threads, PrepareFails(t) PROVE UnhookedOnlyIfAbandoned'
  BY <1>4 DEF PrepareFails
<1>5. ASSUME NEW t \in Threads, Hook0Succeeds(t) PROVE UnhookedOnlyIfAbandoned'
  BY <1>5 DEF Hook0Succeeds
<1>6. ASSUME NEW t \in Threads, Hook0Fails(t) PROVE UnhookedOnlyIfAbandoned'
  BY <1>6 DEF Hook0Fails
<1>7. ASSUME NEW t \in Threads, PublishBackup(t) PROVE UnhookedOnlyIfAbandoned'
  BY <1>7 DEF PublishBackup
<1>8. ASSUME NEW t \in Threads, PublishFails(t) PROVE UnhookedOnlyIfAbandoned'
  BY <1>8 DEF PublishFails
<1>9. ASSUME NEW t \in Threads, AddCallback(t) PROVE UnhookedOnlyIfAbandoned'
  BY <1>9 DEF AddCallback, Handle, Undecided
<1>10. ASSUME NEW t \in Threads, NEW h \in handles, Unhook(t, h)
     PROVE UnhookedOnlyIfAbandoned'
  BY <1>10 DEF Unhook, RemoveCallback, Handle, Undecided
<1>11. ASSUME NEW t \in Threads, NEW m \in Methods, Call(t, m)
     PROVE UnhookedOnlyIfAbandoned'
  BY <1>11 DEF Call
<1>12. ASSUME NEW t \in Threads, Enter(t) PROVE UnhookedOnlyIfAbandoned'
  BY <1>12 DEF Enter
<1>13. ASSUME NEW t \in Threads, GetHookRecord(t) PROVE UnhookedOnlyIfAbandoned'
  BY <1>13 DEF GetHookRecord
<1>14. ASSUME NEW t \in Threads, ReadDisableHooks(t) PROVE UnhookedOnlyIfAbandoned'
  BY <1>14 DEF ReadDisableHooks
<1>15. ASSUME NEW t \in Threads, EmptyCallbacks(t) PROVE UnhookedOnlyIfAbandoned'
  BY <1>15 DEF EmptyCallbacks
<1>16. ASSUME NEW t \in Threads, GetCallbacks(t) PROVE UnhookedOnlyIfAbandoned'
  BY <1>16 DEF GetCallbacks
<1>17. ASSUME NEW t \in Threads, BeforeCallbacks(t) PROVE UnhookedOnlyIfAbandoned'
  BY <1>17 DEF BeforeCallbacks
<1>18. ASSUME NEW t \in Threads, AfterCallbacks(t) PROVE UnhookedOnlyIfAbandoned'
  BY <1>18 DEF AfterCallbacks
<1>19. ASSUME NEW t \in Threads, CallBackup(t) PROVE UnhookedOnlyIfAbandoned'
  BY <1>19 DEF CallBackup
<1>20. ASSUME NEW t \in Threads, NEW m \in Methods, InvokeOriginal(t, m)
     PROVE UnhookedOnlyIfAbandoned'
  BY <1>20 DEF InvokeOriginal
<1>21. ASSUME NEW t \in Threads, LookupRecord(t) PROVE UnhookedOnlyIfAbandoned'
  BY <1>21 DEF LookupRecord
<1>22. ASSUME NEW t \in Threads, ResolvePending(t) PROVE UnhookedOnlyIfAbandoned'
  BY <1>22 DEF ResolvePending
<1>23. ASSUME NEW b \in BOOLEAN, SetDisableHooks(b) PROVE UnhookedOnlyIfAbandoned'
  BY <1>23 DEF SetDisableHooks
<1>24. CASE UNCHANGED vars
  BY <1>24 DEF vars
<1> QED
  BY <1>1, <1>2, <1>3, <1>4, <1>5, <1>6, <1>7, <1>8, <1>9, <1>10, <1>11, <1>12, <1>13,
     <1>14, <1>15, <1>16, <1>17, <1>18, <1>19, <1>20, <1>21, <1>22, <1>23, <1>24 DEF
     Next, HookStep, CallStep, Dead

-----------------------------------------------------------------------------
\* The invariant holds in the initial states.
LEMMA InitIInv == Init => IInv
<1> SUFFICES ASSUME Init PROVE IInv
  OBVIOUS
<1> USE DEF Init
<1>1. \A t \in Threads : pc[t] \notin Hooking \union Intercepted \union WithRecord
  BY DEF Hooking, Intercepted, WithRecord, Installing, Preparing, PreCheck, InChain
<1>2. TypeOK
  BY DEF TypeOK, Handle, Labels
<1>3. Locals
  BY <1>1 DEF Locals
<1>4. Ownership
  BY DEF Ownership
<1>5. InstalledOnce
  BY <1>1 DEF InstalledOnce, Hooking
<1>6. Bridges
  BY <1>1 DEF Bridges, Hooking, Installing, Preparing
<1>7. Decisions
  BY <1>1 DEF Decisions, Intercepted
<1>8. UnhookedOnlyIfAbandoned
  BY DEF UnhookedOnlyIfAbandoned
<1> QED
  BY <1>2, <1>3, <1>4, <1>5, <1>6, <1>7, <1>8 DEF IInv

\* The invariant is inductive.
THEOREM Invariance == Spec => []IInv
<1>1. Init => IInv
  BY InitIInv
<1>2. IInv /\ [Next]_vars => IInv'
  <2> SUFFICES ASSUME IInv /\ [Next]_vars PROVE IInv'
    OBVIOUS
  <2> QED
    BY TypeOKStep, LocalsStep, OwnershipStep, InstalledOnceStep, BridgesStep,
       DecisionsStep, UnhookedOnlyIfAbandonedStep DEF IInv
<1> QED
  BY <1>1, <1>2, PTL DEF Spec

\* Every reachable state is well typed.
THEOREM TypeCorrect == Spec => []TypeOK
<1>1. IInv => TypeOK
  BY DEF IInv
<1> QED
  BY <1>1, Invariance, PTL

\* No method is ever installed twice, or by two threads.
THEOREM HooksAreInstalledOnce == Spec => []InstalledOnce
<1>1. IInv => InstalledOnce
  BY DEF IInv
<1> QED
  BY <1>1, Invariance, PTL

\* No Unhook and no thread in Pine.hook holds a record that the bridge of the
\* method does not dispatch on.
THEOREM NoRegistrationIsLost == Spec => []RegistrationsAreLive
<1>1. IInv => RegistrationsAreLive
  BY DEF IInv, RegistrationsAreLive, TypeOK, Handle, Locals, Ownership, WithRecord,
         Installing, Preparing
<1> QED
  BY <1>1, Invariance, PTL

\* A call behind the trampoline finds a record that is complete for decoding.
THEOREM BridgeIsComplete == Spec => []BridgeFindsRecord
<1>1. IInv => BridgeFindsRecord
  BY DEF IInv, BridgeFindsRecord, TypeOK, Locals, Bridges, Intercepted, Labels, PreCheck, InChain
<1> QED
  BY <1>1, Invariance, PTL

\* An intercepted call runs what was registered for it.
THEOREM CallsSeeRegistrations == Spec => []CallSeesRegistered
<1>1. IInv => CallSeesRegistered
  BY DEF IInv, CallSeesRegistered, Locals, Decisions, Intercepted, PreCheck, InChain
<1> QED
  BY <1>1, Invariance, PTL

\* Only an exception of its installation leaves a registered method unhooked.
THEOREM OnlyAbandonedUnhooked == Spec => []UnhookedOnlyIfAbandoned
<1>1. IInv => UnhookedOnlyIfAbandoned
  BY DEF IInv
<1> QED
  BY <1>1, Invariance, PTL
=============================================================================
