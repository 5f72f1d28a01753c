----------------------------- MODULE ExtrasLock -----------------------------
(***************************************************************************)
(* The arm64 bridge jump trampoline and the Extras object it shares.       *)
(*                                                                         *)
(* Every call of one hooked method saves its argument registers in the one *)
(* Extras of the trampoline.  A spin lock in the first word of the Extras, *)
(* taken in assembly and released in cloneExtras, keeps two calls apart.   *)
(* Between the two lies Java code, where the runtime may stop the thread;  *)
(* a thread that spins in the trampoline cannot be stopped.                *)
(* A call with another ArtMethod in x0 jumps to the original code at once  *)
(* and touches nothing of this.                                            *)
(***************************************************************************)
CONSTANTS
  Threads,
  Regs,        \* the argument registers the trampoline saves
  Values,      \* what they can hold
  NoArgs

Args == [Regs -> Values]

ASSUME ExtrasAssumption == NoArgs \notin Args

VARIABLES
  lock_flag,   \* 1: unlocked, 0: locked
  extras,      \* the saved registers
  monitor,     \* per thread: the exclusive monitor is open on lock_flag
  event,       \* per thread: the event register that wfe consumes
  suspend,     \* suspend-all: none, requested, held
  pc,
  regs,        \* per thread: the arguments of the call
  todo,        \* per thread: registers still to be saved or copied
  clone        \* per thread: the malloc'ed copy of the extras

vars == <<lock_flag, extras, monitor, event, suspend, pc, regs, todo, clone>>

Spinning == {"acquire", "store", "wait"}
Holding  == {"save", "bridge", "copy", "release"}
Cloned   == {"release", "signal", "return", "dispatch"}
\* Where the runtime can hold a thread: at a suspend check or in native code.
Suspendable == {"idle", "bridge", "copy", "release", "signal", "return", "dispatch"}
Labels == Spinning \union Holding \union Cloned \union {"idle"}

Init ==
  /\ lock_flag = 1
  /\ extras \in Args
  /\ monitor = [t \in Threads |-> FALSE]
  /\ event = [t \in Threads |-> FALSE]
  /\ suspend = "none"
  /\ pc = [t \in Threads |-> "idle"]
  /\ regs = [t \in Threads |-> NoArgs]
  /\ todo = [t \in Threads |-> {}]
  /\ clone = [t \in Threads |-> NoArgs]

At(t, l) == pc[t] = l
Goto(t, l) == pc' = [pc EXCEPT ![t] = l]

\* Fault: the lock word is read and written by plain, not exclusive, accesses.
StoreFlagPlain(v) ==
  /\ lock_flag' = v
  /\ monitor' = monitor

\* A store to the lock word closes every open monitor on it.
StoreFlag(v) ==
  /\ lock_flag' = v
  /\ monitor' = [t \in Threads |-> FALSE]

Call(t, a) ==
  /\ At(t, "idle") /\ suspend # "held"
  /\ Goto(t, "acquire")
  /\ regs' = [regs EXCEPT ![t] = a]
  /\ UNCHANGED <<lock_flag, extras, monitor, event, suspend, todo, clone>>

\* ldaxr w16, [x17]; cbz w16, lock_failed
LoadExclusive(t) ==
  /\ At(t, "acquire")
  /\ monitor' = [monitor EXCEPT ![t] = TRUE]
  /\ Goto(t, IF lock_flag = 0 THEN "wait" ELSE "store")
  /\ UNCHANGED <<lock_flag, extras, event, suspend, regs, todo, clone>>

\* stlxr w16, wzr, [x17]; cbnz w16, lock_failed
StoreExclusive(t) ==
  /\ At(t, "store")
  /\ \/ /\ monitor[t]
        /\ StoreFlag(0)
        /\ Goto(t, "save")
        /\ todo' = [todo EXCEPT ![t] = Regs]
     \/ /\ ~monitor[t]
        /\ Goto(t, "wait")
        /\ UNCHANGED <<lock_flag, monitor, todo>>
  /\ UNCHANGED <<extras, event, suspend, regs, clone>>

\* wfe returns at once when the event register is set, and clears it.
WaitForEvent(t) ==
  /\ At(t, "wait") /\ event[t]
  /\ event' = [event EXCEPT ![t] = FALSE]
  /\ Goto(t, "acquire")
  /\ UNCHANGED <<lock_flag, extras, monitor, suspend, regs, todo, clone>>

SaveRegister(t) ==
  /\ At(t, "save")
  /\ \E r \in todo[t] :
       /\ extras' = [extras EXCEPT ![r] = regs[t][r]]
       /\ todo' = [todo EXCEPT ![t] = @ \ {r}]
  /\ UNCHANGED <<lock_flag, monitor, event, suspend, pc, regs, clone>>

BranchToBridge(t) ==
  /\ At(t, "save") /\ todo[t] = {}
  /\ Goto(t, "bridge")
  /\ UNCHANGED <<lock_flag, extras, monitor, event, suspend, regs, todo, clone>>

\* Fault: the lock is released before the extras are cloned.
EnterBridgeUnlocked(t) ==
  /\ At(t, "bridge") /\ suspend = "none"
  /\ StoreFlag(1)
  /\ Goto(t, "copy")
  /\ todo' = [todo EXCEPT ![t] = Regs]
  /\ \E garbage \in Args : clone' = [clone EXCEPT ![t] = garbage]
  /\ UNCHANGED <<extras, event, suspend, regs>>

\* The bridge method polls for suspension at its entry, then calls cloneExtras,
\* which allocates the clone with malloc.
EnterBridge(t) ==
  /\ At(t, "bridge") /\ suspend = "none"
  /\ Goto(t, "copy")
  /\ todo' = [todo EXCEPT ![t] = Regs]
  /\ \E garbage \in Args : clone' = [clone EXCEPT ![t] = garbage]
  /\ UNCHANGED <<lock_flag, extras, monitor, event, suspend, regs>>

\* memcpy of the extras, register by register.
CopyRegister(t) ==
  /\ At(t, "copy")
  /\ \E r \in todo[t] :
       /\ clone' = [clone EXCEPT ![t][r] = extras[r]]
       /\ todo' = [todo EXCEPT ![t] = @ \ {r}]
  /\ UNCHANGED <<lock_flag, extras, monitor, event, suspend, pc, regs>>

EndCopy(t) ==
  /\ At(t, "copy") /\ todo[t] = {}
  /\ Goto(t, "release")
  /\ UNCHANGED <<lock_flag, extras, monitor, event, suspend, regs, todo, clone>>

\* ReleaseLock: CHECK, dmb, lock_flag = 1.
Release(t) ==
  /\ At(t, "release")
  /\ StoreFlag(1)
  /\ Goto(t, "signal")
  /\ UNCHANGED <<extras, event, suspend, regs, todo, clone>>

\* Fault: no sev.
SendNoEvent(t) ==
  /\ At(t, "signal")
  /\ Goto(t, "return")
  /\ UNCHANGED <<lock_flag, extras, monitor, event, suspend, regs, todo, clone>>

\* ReleaseLock: dsb, sev.
SendEvent(t) ==
  /\ At(t, "signal")
  /\ event' = [u \in Threads |-> TRUE]
  /\ Goto(t, "return")
  /\ UNCHANGED <<lock_flag, extras, monitor, suspend, regs, todo, clone>>

\* Back in Java, the handler decodes the clone.
ReturnToJava(t) ==
  /\ At(t, "return") /\ suspend = "none"
  /\ Goto(t, "dispatch")
  /\ UNCHANGED <<lock_flag, extras, monitor, event, suspend, regs, todo, clone>>

\* getArgsArm64 takes the arguments out of the clone and deletes it.
Finish(t) ==
  /\ At(t, "dispatch") /\ suspend # "held"
  /\ Goto(t, "idle")
  /\ regs' = [regs EXCEPT ![t] = NoArgs]
  /\ clone' = [clone EXCEPT ![t] = NoArgs]
  /\ UNCHANGED <<lock_flag, extras, monitor, event, suspend, todo>>

-----------------------------------------------------------------------------
(* The runtime, for hook0 or a collection: suspend_all returns when no thread *)
(* runs managed code.                                                         *)

RequestSuspend ==
  /\ suspend = "none"
  /\ suspend' = "requested"
  /\ UNCHANGED <<lock_flag, extras, monitor, event, pc, regs, todo, clone>>

AllSuspended ==
  /\ suspend = "requested"
  /\ \A t \in Threads : pc[t] \in Suspendable
  /\ suspend' = "held"
  /\ UNCHANGED <<lock_flag, extras, monitor, event, pc, regs, todo, clone>>

ResumeAll ==
  /\ suspend = "held"
  /\ suspend' = "none"
  /\ UNCHANGED <<lock_flag, extras, monitor, event, pc, regs, todo, clone>>

-----------------------------------------------------------------------------
\* A step of a call that has begun.
Step(t) ==
  \/ LoadExclusive(t) \/ StoreExclusive(t) \/ WaitForEvent(t)
  \/ SaveRegister(t) \/ BranchToBridge(t)
  \/ EnterBridge(t) \/ CopyRegister(t) \/ EndCopy(t)
  \/ Release(t) \/ SendEvent(t)
  \/ ReturnToJava(t) \/ Finish(t)

Runtime == RequestSuspend \/ AllSuspended \/ ResumeAll

Next ==
  \/ \E t \in Threads : Step(t) \/ \E a \in Args : Call(t, a)
  \/ Runtime

Spec == Init /\ [][Next]_vars

\* A thread in a call keeps running; the runtime completes and ends a suspension.
Fairness ==
  /\ \A t \in Threads : WF_vars(Step(t))
  /\ WF_vars(AllSuspended) /\ WF_vars(ResumeAll)

FairSpec == Spec /\ Fairness

-----------------------------------------------------------------------------
(* Properties *)

\* Every variable has its type; outside a call a thread owns no arguments and no
\* clone, so none leaks.
TypeOK ==
  /\ lock_flag \in {0, 1}
  /\ extras \in Args
  /\ monitor \in [Threads -> BOOLEAN]
  /\ event \in [Threads -> BOOLEAN]
  /\ suspend \in {"none", "requested", "held"}
  /\ pc \in [Threads -> Labels]
  /\ regs \in [Threads -> Args \union {NoArgs}]
  /\ todo \in [Threads -> SUBSET Regs]
  /\ clone \in [Threads -> Args \union {NoArgs}]
  /\ \A t \in Threads : pc[t] = "idle" => regs[t] = NoArgs /\ clone[t] = NoArgs

\* From the successful stlxr to the release at most one thread is inside, and
\* the flag says so: the CHECK in ReleaseLock never aborts.
MutualExclusion ==
  \A t \in Threads : pc[t] \in Holding =>
    /\ lock_flag = 0
    /\ \A u \in Threads : pc[u] \in Holding => u = t

\* The handler of a call decodes the registers of that call, in every register,
\* though all calls of the method save them in the same place.
ArgsIntact == \A t \in Threads : pc[t] \in Cloned => clone[t] = regs[t]

\* What a handler has received: nothing before its clone is complete.
Received == [t \in Threads |-> IF pc[t] \in Cloned THEN clone[t] ELSE NoArgs]

\* The bridge implements the atomic hand-over.
Atomic == INSTANCE HandOver WITH passed <- regs, received <- Received

HandsOver == Atomic!Spec

\* "Wait other thread to release the lock": while a call waits in the trampoline
\* some call gets through.  Not when a suspension catches the holder.
LockIsReleased ==
  (\E t \in Threads : pc[t] \in Spinning) ~> (\E t \in Threads : pc[t] = "dispatch")

\* As long as nothing suspends the process no event is lost and the holder does
\* release the lock.
WaitersProgress == [](suspend = "none") => LockIsReleased
=============================================================================
