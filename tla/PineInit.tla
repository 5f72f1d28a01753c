------------------------------ MODULE PineInit ------------------------------
(***************************************************************************)
(* Initialization of the library and the settings that can be given before *)
(* or after it: ensureInitialized, initialize, setDebuggable and           *)
(* disableHiddenApiPolicy of Pine.java with init0 of pine.cpp.             *)
(*                                                                         *)
(* The settings live twice: in static fields of PineConfig, which the user *)
(* and initialize read and write without synchronization, and in native    *)
(* code, where init0 copies them.                                          *)
(***************************************************************************)
EXTENDS FiniteSets

CONSTANTS
  Threads,
  NoThread,
  InitialPolicy    \* PineConfig.disableHiddenApiPolicy as the user configured it

ASSUME InitAssumption ==
  NoThread \notin Threads /\ InitialPolicy \in BOOLEAN

VARIABLES
  initialized,    \* Pine.initialized, volatile
  owner,          \* holder of the monitor of Pine.class
  debuggable,     \* PineConfig.debuggable
  policy,         \* PineConfig.disableHiddenApiPolicy
  nativeDebuggable, \* PineConfig::debuggable
  policyDisabled, \* native code bypasses the hidden api policy
  promised,       \* history: disableHiddenApiPolicy(true) has returned
  crossed,        \* history: the latest write of the field debuggable found another
                  \* setDebuggable on its way to native code
  pc, op,         \* per thread: program counter, entered operation with its argument
  read            \* per thread: the settings that initialize read for init0

vars == <<initialized, owner, debuggable, policy, nativeDebuggable, policyDisabled,
          promised, crossed, pc, op, read>>

\* The operations with their argument; "none" stands for a thread in none.
Ops == {[name |-> "ensure", arg |-> FALSE]}
         \union [name : {"setDebuggable", "disablePolicy"}, arg : BOOLEAN]
NoOp == [name |-> "none", arg |-> FALSE]
Initializing == {"configure", "initialize", "init0", "publish"}
InMonitor == {"recheck"} \union Initializing
Labels == InMonitor \union {"idle", "check", "lock", "setField", "setNative",
                            "policyNative", "policyField"}
Settings == [debuggable : BOOLEAN, policy : BOOLEAN]
Unread == [debuggable |-> FALSE, policy |-> FALSE]

Init ==
  /\ initialized = FALSE
  /\ owner = NoThread
  /\ debuggable = FALSE
  /\ policy = InitialPolicy
  /\ nativeDebuggable = FALSE
  /\ policyDisabled = FALSE
  /\ promised = FALSE /\ crossed = FALSE
  /\ pc = [t \in Threads |-> "idle"]
  /\ op = [t \in Threads |-> NoOp]
  /\ read = [t \in Threads |-> Unread]

Goto(t, l) == pc' = [pc EXCEPT ![t] = l]

config == <<debuggable, crossed, policy>>
native == <<nativeDebuggable, policyDisabled>>
locals == <<op, read>>

\* The operation ends: its locals are gone.
Leave(t) ==
  /\ Goto(t, "idle")
  /\ op' = [op EXCEPT ![t] = NoOp]
  /\ read' = [read EXCEPT ![t] = Unread]

\* The operation returns normally: for disableHiddenApiPolicy(true) a promise.
Returns(t) ==
  /\ Leave(t)
  /\ promised' = (promised \/ op[t] = [name |-> "disablePolicy", arg |-> TRUE])

Continue(t, l) == Goto(t, l) /\ UNCHANGED <<promised, locals>>

WriteField(t) ==
  /\ debuggable' = op[t].arg
  /\ crossed' = \E u \in Threads \ {t} : pc[u] = "setNative"

Start(t, o) ==
  /\ pc[t] = "idle"
  /\ op' = [op EXCEPT ![t] = o]
  /\ Goto(t, "check")
  /\ UNCHANGED <<initialized, owner, config, native, promised, read>>

\* The unsynchronized read of initialized with which each operation begins.
CheckInitialized(t) ==
  /\ pc[t] = "check"
  /\ \/ /\ op[t].name = "ensure"
        /\ IF initialized THEN Returns(t) ELSE Continue(t, "lock")
     \/ /\ op[t].name = "setDebuggable"
        /\ Continue(t, IF initialized THEN "setField" ELSE "lock")
     \/ /\ op[t].name = "disablePolicy"
        /\ Continue(t, IF initialized THEN "policyNative" ELSE "policyField")
  /\ UNCHANGED <<initialized, owner, config, native>>

\* disableHiddenApiPolicy before initialization: set the field, then
\* ensureInitialized with its own check.
SetPolicyField(t) ==
  /\ pc[t] = "policyField"
  /\ policy' = op[t].arg
  /\ IF initialized THEN Returns(t) ELSE Continue(t, "lock")
  /\ UNCHANGED <<initialized, owner, debuggable, crossed, native>>

\* disableHiddenApiPolicy0: hooks are placed for the domains asked for, none is removed.
SetPolicyNative(t) ==
  /\ pc[t] = "policyNative"
  /\ policyDisabled' = (policyDisabled \/ op[t].arg)
  /\ Returns(t)
  /\ UNCHANGED <<initialized, owner, config, nativeDebuggable>>

EnterMonitor(t) ==
  /\ pc[t] = "lock" /\ owner = NoThread
  /\ owner' = t
  /\ Goto(t, "recheck")
  /\ UNCHANGED <<initialized, config, native, promised, locals>>

\* Fault: no second check under the monitor.
RecheckNothing(t) ==
  /\ pc[t] = "recheck"
  /\ Goto(t, IF op[t].name = "setDebuggable" THEN "configure" ELSE "initialize")
  /\ UNCHANGED <<initialized, owner, config, native, promised, locals>>

Recheck(t) ==
  /\ pc[t] = "recheck"
  /\ \/ /\ ~initialized
        /\ Continue(t, IF op[t].name = "setDebuggable" THEN "configure" ELSE "initialize")
        /\ UNCHANGED owner
     \/ /\ initialized
        /\ owner' = NoThread
        /\ IF op[t].name = "setDebuggable" THEN Continue(t, "setField") ELSE Returns(t)
  /\ UNCHANGED <<initialized, config, native>>

\* setDebuggable inside the monitor, before it initializes.
Configure(t) ==
  /\ pc[t] = "configure"
  /\ WriteField(t)
  /\ Goto(t, "initialize")
  /\ UNCHANGED <<initialized, owner, policy, native, promised, locals>>

\* initialize reads the fields that it passes to init0.
ReadConfig(t) ==
  /\ pc[t] = "initialize"
  /\ read' = [read EXCEPT ![t] = [debuggable |-> debuggable, policy |-> policy]]
  /\ Goto(t, "init0")
  /\ UNCHANGED <<initialized, owner, config, native, promised, op>>

Init0(t) ==
  /\ pc[t] = "init0"
  /\ nativeDebuggable' = read[t].debuggable
  /\ policyDisabled' = (policyDisabled \/ read[t].policy)
  /\ Goto(t, "publish")
  /\ UNCHANGED <<initialized, owner, config, promised, locals>>

\* An exception leaves initialize before init0 or after it: the monitor is
\* released, initialized stays false and the operation throws.
InitializeThrows(t) ==
  /\ pc[t] \in {"initialize", "publish"}
  /\ owner' = NoThread
  /\ Leave(t)
  /\ UNCHANGED <<initialized, config, native, promised>>

PublishInitialized(t) ==
  /\ pc[t] = "publish"
  /\ initialized' = TRUE
  /\ owner' = NoThread
  /\ Returns(t)
  /\ UNCHANGED <<config, native>>

\* setDebuggable of an initialized library: the field, then native code.
SetDebuggableField(t) ==
  /\ pc[t] = "setField"
  /\ WriteField(t)
  /\ Goto(t, "setNative")
  /\ UNCHANGED <<initialized, owner, policy, native, promised, locals>>

\* Fault: setDebuggable0 is not called.
SetDebuggableNowhere(t) ==
  /\ pc[t] = "setNative"
  /\ Returns(t)
  /\ UNCHANGED <<initialized, owner, config, native>>

SetDebuggableNative(t) ==
  /\ pc[t] = "setNative"
  /\ nativeDebuggable' = op[t].arg
  /\ Returns(t)
  /\ UNCHANGED <<initialized, owner, config, policyDisabled>>

Step(t) ==
  \/ CheckInitialized(t) \/ SetPolicyField(t) \/ SetPolicyNative(t)
  \/ EnterMonitor(t) \/ Recheck(t) \/ Configure(t) \/ ReadConfig(t) \/ Init0(t)
  \/ InitializeThrows(t) \/ PublishInitialized(t)
  \/ SetDebuggableField(t) \/ SetDebuggableNative(t)

Next == \E t \in Threads :
  Step(t) \/ \E o \in Ops : Start(t, o)

Spec == Init /\ [][Next]_vars

-----------------------------------------------------------------------------
(* Properties *)

\* Every variable has its type; a thread in no operation holds no monitor.
TypeOK ==
  /\ initialized \in BOOLEAN
  /\ owner \in Threads \union {NoThread}
  /\ debuggable \in BOOLEAN
  /\ policy \in BOOLEAN
  /\ nativeDebuggable \in BOOLEAN
  /\ policyDisabled \in BOOLEAN
  /\ promised \in BOOLEAN
  /\ crossed \in BOOLEAN
  /\ pc \in [Threads -> Labels]
  /\ op \in [Threads -> Ops \union {NoOp}]
  /\ read \in [Threads -> Settings]
  /\ \A t \in Threads : pc[t] = "idle" => op[t] = NoOp /\ owner # t

\* The library is initialized by one thread at a time and never again once it
\* is: init0 would overwrite settings made since, and measure ArtMethods anew.
InitializedOnce ==
  \A t \in Threads : pc[t] \in Initializing =>
    ~initialized /\ \A u \in Threads : pc[u] \in InMonitor => u = t

\* PineConfig.debuggable, "Whether the current process is debuggable", and its
\* native copy agree in an initialized library when no setDebuggable is between its
\* two writes, however many threads set and initialize.  setDebuggable takes no lock
\* there: two of them can write the field in one order and native code in the other,
\* and only that leaves the copies different, until one that runs alone.
DebuggableAgrees ==
  initialized /\ ~crossed /\ (\A t \in Threads : pc[t] # "setNative")
    => nativeDebuggable = debuggable

(* Statements of the documentation that the code does not keep *)

\* disableHiddenApiPolicy: "Disable the hidden api restriction policy in the
\* current process": when it has returned, the policy is disabled.
PolicyIsDisabled == promised => policyDisabled

\* setDebuggable: "Set whether the current process is debuggable, like
\* PineConfig.debuggable": at rest the two never differ.
DebuggableAlwaysAgrees ==
  initialized /\ (\A t \in Threads : pc[t] = "idle") => nativeDebuggable = debuggable
=============================================================================
