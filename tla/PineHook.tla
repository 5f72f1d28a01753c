------------------------------ MODULE PineHook ------------------------------
(***************************************************************************)
(* Registration and dispatch of hooks: Pine.hook, hookNewMethod, Unhook,   *)
(* handleCall, callBackupMethod and invokeOriginalMethod of Pine.java, run *)
(* by several threads on several methods.                                  *)
(*                                                                         *)
(* A step is what the code does between two points where another thread    *)
(* may run: a synchronized block, a read or a write of a shared field, the *)
(* suspend-all section of hook0, or a stretch of user code.  The order of  *)
(* the callbacks of one call is the subject of module CallChain, the hand- *)
(* over of the arguments of module ExtrasLock.                             *)
(***************************************************************************)
EXTENDS FiniteSets

CONSTANTS
  Threads,        \* threads of the process
  Methods,        \* hookable methods: the null, abstract and <clinit> checks passed
  StaticMethods,  \* those of them that are static
  Callbacks,      \* MethodHook objects
  Records,        \* HookRecord objects (its size bounds the allocations)
  NoRecord, NoMethod, NoCallback

ASSUME RecordAssumption   == NoRecord \notin Records
ASSUME MethodAssumption   == NoMethod \notin Methods /\ StaticMethods \subseteq Methods
ASSUME CallbackAssumption == NoCallback \notin Callbacks

VARIABLES
  table,       \* sHookRecords: the HookRecord of a method
  owner,       \* HookRecord.target, NoMethod for an object not yet allocated
  params,      \* HookRecord.paramTypes and paramNumber are set
  backup,      \* HookRecord.backup is not null
  callbacks,   \* HookRecord.callbacks
  entry,       \* where the entry point of the method leads
  handles,     \* Unhook objects handed out
  disableHooks,\* PineConfig.disableHooks
  crashed,     \* the process died in native code
  pc, met, rec, cb, snap,   \* per thread: program counter and locals
  must, may,   \* per thread, history: callbacks registered during the whole
               \* of the call, and at some moment of it
  abandoned    \* history: methods whose installation threw an exception

recordVars == <<table, owner, params, backup, callbacks>>
historyVars == <<must, may, abandoned>>
vars == <<table, owner, params, backup, callbacks, entry, handles, disableHooks,
          crashed, pc, met, rec, cb, snap, must, may, abandoned>>

\* The program counter, named for what the thread does next.
Preparing  == {"prepare", "install"}
Installing == Preparing \union {"publish"}
Hooking    == Installing \union {"record", "add"}
PreCheck   == {"bridge", "check", "empty", "snapshot"}
InChain    == {"chain", "chainBackup", "after"}
Original   == {"lookup", "resolve", "resolved"}
Labels     == Hooking \union PreCheck \union InChain \union Original
                \union {"idle", "enter", "backupOnly"}

Handle == [rec : Records, cb : Callbacks]

Init ==
  /\ table = [m \in Methods |-> NoRecord]
  /\ owner = [r \in Records |-> NoMethod]
  /\ params = [r \in Records |-> FALSE]
  /\ backup = [r \in Records |-> FALSE]
  /\ callbacks = [r \in Records |-> {}]
  /\ entry = [m \in Methods |-> "original"]
  /\ handles = {}
  /\ disableHooks = FALSE
  /\ crashed = FALSE
  /\ pc = [t \in Threads |-> "idle"]
  /\ met = [t \in Threads |-> NoMethod]
  /\ rec = [t \in Threads |-> NoRecord]
  /\ cb = [t \in Threads |-> NoCallback]
  /\ snap = [t \in Threads |-> {}]
  /\ must = [t \in Threads |-> {}]
  /\ may = [t \in Threads |-> {}]
  /\ abandoned = {}

\* Thread t of a live process is about to do one of ls.
At(t, ls) == ~crashed /\ pc[t] \in ls

Goto(t, l) == pc' = [pc EXCEPT ![t] = l]

\* The operation of t returns or throws to its caller: its locals are gone.
Return(t) ==
  /\ Goto(t, "idle")
  /\ met' = [met EXCEPT ![t] = NoMethod]
  /\ rec' = [rec EXCEPT ![t] = NoRecord]
  /\ cb' = [cb EXCEPT ![t] = NoCallback]
  /\ snap' = [snap EXCEPT ![t] = {}]
  /\ must' = [must EXCEPT ![t] = {}]
  /\ may' = [may EXCEPT ![t] = {}]

\* Threads inside a call of m that have not taken their snapshot yet.
Undecided(m) == {u \in Threads : pc[u] \in PreCheck /\ met[u] = m}

-----------------------------------------------------------------------------
(* Pine.hook *)

StartHook(t, m, c) ==
  /\ At(t, {"idle"})
  /\ Goto(t, "record")
  /\ met' = [met EXCEPT ![t] = m]
  /\ cb' = [cb EXCEPT ![t] = c]
  /\ UNCHANGED <<recordVars, historyVars, entry, handles, disableHooks, crashed, rec, snap>>

\* Fault: the put does not ask whether the method has a record.
NewMethodUnasked(m) == TRUE

NewMethod(m) == table[m] = NoRecord

\* Fault: hookNewMethod runs for a method that has a record, too.
HandleHookAlwaysNew(newMethod) == "prepare"

\* Fault: hookNewMethod does not run for a new method.
HandleHookNeverNew(newMethod) == "add"

\* The default HookHandler: only a new method is installed.
HandleHook(newMethod) == IF newMethod THEN "prepare" ELSE "add"

\* synchronized (sHookLock): find the record of the method or put a new one.
GetOrCreateRecord(t) ==
  /\ At(t, {"record"})
  /\ \/ /\ ~NewMethod(met[t])
        /\ rec' = [rec EXCEPT ![t] = table[met[t]]]
        /\ UNCHANGED <<table, owner>>
     \/ /\ NewMethod(met[t])
        /\ \E r \in Records :
             /\ owner[r] = NoMethod
             /\ owner' = [owner EXCEPT ![r] = met[t]]
             /\ table' = [table EXCEPT ![met[t]] = r]
             /\ rec' = [rec EXCEPT ![t] = r]
  /\ Goto(t, HandleHook(NewMethod(met[t])))
  /\ UNCHANGED <<historyVars, params, backup, callbacks, entry, handles, disableHooks,
                 crashed, met, cb, snap>>

\* Fault: the parameter types are stored after hook0, as the backup is.
PrepareWithoutParams(t) ==
  /\ At(t, {"prepare"})
  /\ Goto(t, "install")
  /\ UNCHANGED <<recordVars, historyVars, entry, handles, disableHooks, crashed,
                 met, rec, cb, snap>>

\* hookNewMethod up to the call of hook0.
PrepareNewMethod(t) ==
  /\ At(t, {"prepare"})
  /\ params' = [params EXCEPT ![rec[t]] = TRUE]
  /\ Goto(t, "install")
  /\ UNCHANGED <<historyVars, table, owner, backup, callbacks, entry, handles,
                 disableHooks, crashed, met, rec, cb, snap>>

\* resolve threw before the parameter types were stored, or no bridge was
\* found after: the exception leaves Pine.hook, the record stays in the table.
PrepareFails(t) ==
  /\ At(t, {"prepare"})
  /\ \E stored \in BOOLEAN : params' = [params EXCEPT ![rec[t]] = @ \/ stored]
  /\ Return(t)
  /\ abandoned' = abandoned \union {met[t]}
  /\ UNCHANGED <<table, owner, backup, callbacks, entry, handles, disableHooks, crashed>>

\* hook0 redirects the method while every other thread is suspended.
Hook0Succeeds(t) ==
  /\ At(t, {"install"})
  /\ entry' = [entry EXCEPT ![met[t]] = "bridge"]
  /\ Goto(t, "publish")
  /\ UNCHANGED <<recordVars, historyVars, handles, disableHooks, crashed, met, rec, cb, snap>>

Hook0Fails(t) ==
  /\ At(t, {"install"})
  /\ Return(t)
  /\ abandoned' = abandoned \union {met[t]}
  /\ UNCHANGED <<recordVars, entry, handles, disableHooks, crashed>>

\* The trampoline is live and the backup reaches the record only now.
PublishBackup(t) ==
  /\ At(t, {"publish"})
  /\ backup' = [backup EXCEPT ![rec[t]] = TRUE]
  /\ Goto(t, "add")
  /\ UNCHANGED <<historyVars, table, owner, params, callbacks, entry, handles,
                 disableHooks, crashed, met, rec, cb, snap>>

\* No reflected backup could be created: the exception leaves Pine.hook, and
\* the trampoline stays.
PublishFails(t) ==
  /\ At(t, {"publish"})
  /\ Return(t)
  /\ abandoned' = abandoned \union {met[t]}
  /\ UNCHANGED <<recordVars, entry, handles, disableHooks, crashed>>

\* addCallback, then hook returns the Unhook.
AddCallback(t) ==
  /\ At(t, {"add"})
  /\ callbacks' = [callbacks EXCEPT ![rec[t]] = @ \union {cb[t]}]
  /\ handles' = handles \union {[rec |-> rec[t], cb |-> cb[t]]}
  /\ Goto(t, "idle")
  /\ met' = [met EXCEPT ![t] = NoMethod]
  /\ rec' = [rec EXCEPT ![t] = NoRecord]
  /\ cb' = [cb EXCEPT ![t] = NoCallback]
  /\ may' = [u \in Threads |-> IF u \in Undecided(met[t])
                               THEN may[u] \union {cb[t]} ELSE may[u]]
  /\ UNCHANGED <<table, owner, params, backup, entry, disableHooks, crashed, snap, must, abandoned>>

\* Fault: clear() for remove(callback).
RemoveCallbackAll(s, c) == {}

RemoveCallback(s, c) == s \ {c}

\* Unhook.unhook, any number of times and on any thread.
Unhook(t, h) ==
  /\ At(t, {"idle"})
  /\ callbacks' = [callbacks EXCEPT ![h.rec] = RemoveCallback(@, h.cb)]
  /\ must' = [u \in Threads |-> IF u \in Undecided(owner[h.rec])
                                THEN must[u] \ {h.cb} ELSE must[u]]
  /\ UNCHANGED <<table, owner, params, backup, entry, handles, disableHooks, crashed,
                 pc, met, rec, cb, snap, may, abandoned>>

SetDisableHooks(b) ==
  /\ ~crashed
  /\ disableHooks' = b
  /\ UNCHANGED <<recordVars, historyVars, entry, handles, crashed, pc, met, rec, cb, snap>>

-----------------------------------------------------------------------------
(* A call of a method, and its way through the bridge and handleCall *)

Call(t, m) ==
  /\ At(t, {"idle"})
  /\ Goto(t, "enter")
  /\ met' = [met EXCEPT ![t] = m]
  /\ UNCHANGED <<recordVars, historyVars, entry, handles, disableHooks, crashed, rec, cb, snap>>

\* The jump through the entry point.  Off the trampoline the original runs.
Enter(t) ==
  /\ At(t, {"enter"})
  /\ \/ /\ entry[met[t]] = "original"
        /\ Return(t)
     \/ /\ entry[met[t]] = "bridge"
        /\ Goto(t, "bridge")
        /\ must' = [must EXCEPT ![t] = callbacks[table[met[t]]]]
        /\ may' = [may EXCEPT ![t] = callbacks[table[met[t]]]]
        /\ UNCHANGED <<met, rec, cb, snap>>
  /\ UNCHANGED <<recordVars, entry, handles, disableHooks, crashed, abandoned>>

\* The bridge looks its HookRecord up and reads the arguments with its paramTypes.
GetHookRecord(t) ==
  /\ At(t, {"bridge"})
  /\ rec' = [rec EXCEPT ![t] = table[met[t]]]
  /\ Goto(t, "check")
  /\ UNCHANGED <<recordVars, historyVars, entry, handles, disableHooks, crashed, met, cb, snap>>

\* disableHooks || ...: only the backup is called, whatever is registered.
ReadDisableHooks(t) ==
  /\ At(t, {"check"})
  /\ \/ /\ disableHooks
        /\ Goto(t, "backupOnly")
        /\ must' = [must EXCEPT ![t] = {}]
     \/ /\ ~disableHooks
        /\ Goto(t, "empty")
        /\ must' = must
  /\ UNCHANGED <<recordVars, entry, handles, disableHooks, crashed, met, rec, cb, snap, may, abandoned>>

\* ... emptyCallbacks(), in a synchronized block.
EmptyCallbacks(t) ==
  /\ At(t, {"empty"})
  /\ Goto(t, IF callbacks[rec[t]] = {} THEN "backupOnly" ELSE "snapshot")
  /\ UNCHANGED <<recordVars, historyVars, entry, handles, disableHooks, crashed, met, rec, cb, snap>>

\* getCallbacks, in a synchronized block of its own.
GetCallbacks(t) ==
  /\ At(t, {"snapshot"})
  /\ snap' = [snap EXCEPT ![t] = callbacks[rec[t]]]
  /\ Goto(t, "chain")
  /\ UNCHANGED <<recordVars, historyVars, entry, handles, disableHooks, crashed, met, rec, cb>>

\* The do-while runs callbacks[0] first: it throws when there is none.
BeforeCallbacks(t) ==
  /\ At(t, {"chain"})
  /\ \/ /\ snap[t] = {}
        /\ Return(t)
     \/ /\ snap[t] # {}
        /\ \E l \in {"chainBackup", "after"} : Goto(t, l)
        /\ UNCHANGED <<must, may, met, rec, cb, snap>>
  /\ UNCHANGED <<recordVars, entry, handles, disableHooks, crashed, abandoned>>

AfterCallbacks(t) ==
  /\ At(t, {"after"})
  /\ Return(t)
  /\ UNCHANGED <<recordVars, entry, handles, disableHooks, crashed, abandoned>>

\* callBackupMethod: syncMethodInfo takes the ArtMethod of a null backup, which
\* kills the process.  An invocation that reflection rejects leaves the chain.
CallBackup(t) ==
  /\ At(t, {"backupOnly", "chainBackup", "resolved"})
  /\ \/ /\ ~backup[rec[t]]
        /\ crashed' = TRUE
        /\ UNCHANGED <<must, may, pc, met, rec, cb, snap>>
     \/ /\ backup[rec[t]]
        /\ crashed' = crashed
        /\ Return(t)
     \/ /\ backup[rec[t]] /\ pc[t] = "chainBackup"
        /\ Goto(t, "after")
        /\ UNCHANGED <<must, may, crashed, met, rec, cb, snap>>
  /\ UNCHANGED <<recordVars, entry, handles, disableHooks, abandoned>>

-----------------------------------------------------------------------------
(* Pine.invokeOriginalMethod *)

InvokeOriginal(t, m) ==
  /\ At(t, {"idle"})
  /\ Goto(t, "lookup")
  /\ met' = [met EXCEPT ![t] = m]
  /\ UNCHANGED <<recordVars, historyVars, entry, handles, disableHooks, crashed, rec, cb, snap>>

\* No record: the method is invoked directly and may be intercepted.
LookupRecord(t) ==
  /\ At(t, {"lookup"})
  /\ rec' = [rec EXCEPT ![t] = table[met[t]]]
  /\ \/ table[met[t]] = NoRecord /\ Goto(t, "enter")
     \/ table[met[t]] # NoRecord /\ backup[table[met[t]]] /\ Goto(t, "backupOnly")
     \/ table[met[t]] # NoRecord /\ ~backup[table[met[t]]] /\ Goto(t, "resolve")
  /\ UNCHANGED <<recordVars, historyVars, entry, handles, disableHooks, crashed, met, cb, snap>>

\* resolve() returns for a static method and throws for any other one.
ResolvePending(t) ==
  /\ At(t, {"resolve"})
  /\ \/ /\ met[t] \in StaticMethods
        /\ Goto(t, "resolved")
        /\ UNCHANGED <<must, may, met, rec, cb, snap>>
     \/ /\ met[t] \notin StaticMethods
        /\ Return(t)
  /\ UNCHANGED <<recordVars, entry, handles, disableHooks, crashed, abandoned>>

-----------------------------------------------------------------------------
HookStep(t) ==
  \/ \E m \in Methods, c \in Callbacks : StartHook(t, m, c)
  \/ GetOrCreateRecord(t)
  \/ PrepareNewMethod(t)
  \/ PrepareFails(t)
  \/ Hook0Succeeds(t)
  \/ Hook0Fails(t)
  \/ PublishBackup(t)
  \/ PublishFails(t)
  \/ AddCallback(t)
  \/ \E h \in handles : Unhook(t, h)

CallStep(t) ==
  \/ \E m \in Methods : Call(t, m)
  \/ Enter(t)
  \/ GetHookRecord(t)
  \/ ReadDisableHooks(t)
  \/ EmptyCallbacks(t)
  \/ GetCallbacks(t)
  \/ BeforeCallbacks(t)
  \/ AfterCallbacks(t)
  \/ CallBackup(t)
  \/ \E m \in Methods : InvokeOriginal(t, m)
  \/ LookupRecord(t)
  \/ ResolvePending(t)

\* A dead process takes no step but stuttering.
Dead == crashed /\ UNCHANGED vars

Next ==
  \/ \E t \in Threads : HookStep(t) \/ CallStep(t)
  \/ \E b \in BOOLEAN : SetDisableHooks(b)
  \/ Dead

Spec == Init /\ [][Next]_vars

-----------------------------------------------------------------------------
(* Properties *)

\* Every variable has its type.
TypeOK ==
  /\ table \in [Methods -> Records \union {NoRecord}]
  /\ owner \in [Records -> Methods \union {NoMethod}]
  /\ params \in [Records -> BOOLEAN]
  /\ backup \in [Records -> BOOLEAN]
  /\ callbacks \in [Records -> SUBSET Callbacks]
  /\ entry \in [Methods -> {"original", "bridge"}]
  /\ handles \subseteq Handle
  /\ disableHooks \in BOOLEAN
  /\ crashed \in BOOLEAN
  /\ pc \in [Threads -> Labels]
  /\ met \in [Threads -> Methods \union {NoMethod}]
  /\ rec \in [Threads -> Records \union {NoRecord}]
  /\ cb \in [Threads -> Callbacks \union {NoCallback}]
  /\ snap \in [Threads -> SUBSET Callbacks]
  /\ must \in [Threads -> SUBSET Callbacks]
  /\ may \in [Threads -> SUBSET Callbacks]
  /\ abandoned \subseteq Methods

\* A method is installed by one thread at a time and once: were its trampoline
\* installed again, the backup would be taken from the bridge entry and calling
\* the original would re-enter the bridge for ever.
InstalledOnce ==
  \A t \in Threads : pc[t] \in Installing =>
    /\ pc[t] \in Preparing => entry[met[t]] = "original"
    /\ \A u \in Threads : pc[u] \in Installing /\ met[u] = met[t] => u = t

\* The record an Unhook edits, and the one a thread inside Pine.hook is about to
\* edit, is the one the bridge dispatches on: no registration is lost in a
\* record that a racing hook of the same method replaced.
RegistrationsAreLive ==
  /\ \A h \in handles : owner[h.rec] \in Methods /\ table[owner[h.rec]] = h.rec
  /\ \A t \in Threads : pc[t] \in Installing \union {"add"} => table[met[t]] = rec[t]

\* A call that came in through the trampoline finds its record, so
\* getHookRecord does not throw its AssertionError, and finds the parameter
\* types that the bridge decodes the arguments with.
BridgeFindsRecord ==
  \A t \in Threads : pc[t] \in PreCheck \union InChain =>
    table[met[t]] # NoRecord /\ params[table[met[t]]]

\* What an intercepted call runs is what was registered: every callback that was
\* there from its entry to its decision and none that never was, unless
\* disableHooks was set when it decided.
CallSeesRegistered ==
  \A t \in Threads :
    /\ pc[t] \in InChain => must[t] \subseteq snap[t] /\ snap[t] \subseteq may[t]
    /\ pc[t] = "backupOnly" => must[t] = {}

\* A method that has a record but no trampoline is being installed or was given
\* up by an exception: nothing else leaves a registered hook without effect.
UnhookedOnlyIfAbandoned ==
  \A m \in Methods : table[m] # NoRecord /\ entry[m] = "original" =>
    m \in abandoned \/ \E t \in Threads : pc[t] \in Preparing /\ met[t] = m

(* Statements of the documentation that the code does not keep *)

\* hook: "Call unhook.unhook() to unregister the hook": doing so does not make a
\* call of the method on another thread fail.
UnhookIsHarmless == \A t \in Threads : pc[t] = "chain" => snap[t] # {}

\* handleCall: "call original method if not requested otherwise": there is an
\* original to call.
OriginalCanBeCalled == \A t \in Threads : pc[t] = "chainBackup" => backup[rec[t]]

=============================================================================
