-------------------------- MODULE ExtrasLockProofs --------------------------
(***************************************************************************)
(* Proofs about ExtrasLock for every number of threads and registers: the  *)
(* lock excludes, the arguments of a call survive the shared Extras, and   *)
(* the bridge implements the atomic hand-over of module HandOver, with or  *)
(* without suspend-all.                                                    *)
(***************************************************************************)
EXTENDS ExtrasLock, TLAPS

\* A store-exclusive that will succeed follows a load that saw the lock free:
\* every store to the lock word since would have closed the monitor.
Reserved == \A t \in Threads : pc[t] = "store" /\ monitor[t] => lock_flag = 1

\* How far the registers of a call have come: into the Extras while it saves,
\* on into its clone while it copies.
Progress == \A t \in Threads :
  /\ pc[t] # "idle" => regs[t] \in Args
  /\ pc[t] \in {"copy"} \union Cloned => clone[t] \in Args
  /\ pc[t] = "save" => \A r \in Regs \ todo[t] : extras[r] = regs[t][r]
  /\ pc[t] \in {"bridge", "copy"} => \A r \in Regs : extras[r] = regs[t][r]
  /\ pc[t] = "copy" => \A r \in Regs \ todo[t] : clone[t][r] = extras[r]

IInv == TypeOK /\ MutualExclusion /\ Reserved /\ Progress /\ ArgsIntact

-----------------------------------------------------------------------------
\* A copy without registers left to copy is the arguments of the call.
LEMMA CompleteCopy ==
  ASSUME IInv, NEW t \in Threads, pc[t] = "copy", todo[t] = {}
  PROVE  clone[t] = regs[t]
<1>1. clone[t] \in [Regs -> Values] /\ regs[t] \in [Regs -> Values]
  BY DEF IInv, Progress, Args
<1>2. \A r \in Regs : clone[t][r] = regs[t][r]
  BY DEF IInv, Progress
<1> QED
  BY <1>1, <1>2

\* Every step keeps the types.
LEMMA TypeOKStep == IInv /\ [Next]_vars => TypeOK'
<1> SUFFICES ASSUME IInv, [Next]_vars PROVE TypeOK'
  OBVIOUS
<1> USE ExtrasAssumption DEF At, Goto, IInv, TypeOK, Progress, Args, Labels, Spinning,
        Holding, Cloned
<1>1. ASSUME NEW t \in Threads, NEW a \in Args, Call(t, a) PROVE TypeOK'
  BY <1>1 DEF Call
<1>2. ASSUME NEW t \in Threads, LoadExclusive(t) PROVE TypeOK'
  BY <1>2 DEF LoadExclusive
<1>3. ASSUME NEW t \in Threads, StoreExclusive(t) PROVE TypeOK'
  <2>1. CASE StoreFlag(0) /\ Goto(t, "save") /\ todo' = [todo EXCEPT ![t] = Regs]
    BY <2>1, <1>3 DEF StoreExclusive, StoreFlag
  <2>2. CASE Goto(t, "wait") /\ UNCHANGED <<lock_flag, monitor, todo>>
    BY <2>2, <1>3 DEF StoreExclusive
  <2> QED
    BY <2>1, <2>2, <1>3 DEF StoreExclusive
<1>4. ASSUME NEW t \in Threads, WaitForEvent(t) PROVE TypeOK'
  BY <1>4 DEF WaitForEvent
<1>5. ASSUME NEW t \in Threads, SaveRegister(t) PROVE TypeOK'
  BY <1>5 DEF SaveRegister
<1>6. ASSUME NEW t \in Threads, BranchToBridge(t) PROVE TypeOK'
  BY <1>6 DEF BranchToBridge
<1>7. ASSUME NEW t \in Threads, EnterBridge(t) PROVE TypeOK'
  BY <1>7 DEF EnterBridge
<1>8. ASSUME NEW t \in Threads, CopyRegister(t) PROVE TypeOK'
  BY <1>8 DEF CopyRegister
<1>9. ASSUME NEW t \in Threads, EndCopy(t) PROVE TypeOK'
  BY <1>9 DEF EndCopy
<1>10. ASSUME NEW t \in Threads, Release(t) PROVE TypeOK'
  BY <1>10 DEF Release, StoreFlag
<1>11. ASSUME NEW t \in Threads, SendEvent(t) PROVE TypeOK'
  BY <1>11 DEF SendEvent
<1>12. ASSUME NEW t \in Threads, ReturnToJava(t) PROVE TypeOK'
  BY <1>12 DEF ReturnToJava
<1>13. ASSUME NEW t \in Threads, Finish(t) PROVE TypeOK'
  BY <1>13 DEF Finish
<1>14. CASE RequestSuspend
  BY <1>14 DEF RequestSuspend
<1>15. CASE AllSuspended
  BY <1>15 DEF AllSuspended
<1>16. CASE ResumeAll
  BY <1>16 DEF ResumeAll
<1>17. CASE UNCHANGED vars
  BY <1>17 DEF vars
<1> QED
  BY <1>1, <1>2, <1>3, <1>4, <1>5, <1>6, <1>7, <1>8, <1>9, <1>10, <1>11, <1>12, <1>13,
     <1>14, <1>15, <1>16, <1>17 DEF Next, Step, Runtime

\* Only a store-exclusive whose monitor is open enters, and Reserved says that the
\* lock was free then: nobody was inside.
LEMMA MutualExclusionStep == IInv /\ [Next]_vars => MutualExclusion'
<1> SUFFICES ASSUME IInv, [Next]_vars PROVE MutualExclusion'
  OBVIOUS
<1> USE ExtrasAssumption DEF At, Goto, IInv, TypeOK, MutualExclusion, Reserved, Labels,
        Spinning, Holding, Cloned
<1>1. ASSUME NEW t \in Threads, NEW a \in Args, Call(t, a) PROVE MutualExclusion'
  BY <1>1 DEF Call
<1>2. ASSUME NEW t \in Threads, LoadExclusive(t) PROVE MutualExclusion'
  BY <1>2 DEF LoadExclusive
<1>3. ASSUME NEW t \in Threads, StoreExclusive(t) PROVE MutualExclusion'
  BY <1>3 DEF StoreExclusive, StoreFlag
<1>4. ASSUME NEW t \in Threads, WaitForEvent(t) PROVE MutualExclusion'
  BY <1>4 DEF WaitForEvent
<1>5. ASSUME NEW t \in Threads, SaveRegister(t) PROVE MutualExclusion'
  BY <1>5 DEF SaveRegister
<1>6. ASSUME NEW t \in Threads, BranchToBridge(t) PROVE MutualExclusion'
  BY <1>6 DEF BranchToBridge
<1>7. ASSUME NEW t \in Threads, EnterBridge(t) PROVE MutualExclusion'
  BY <1>7 DEF EnterBridge
<1>8. ASSUME NEW t \in Threads, CopyRegister(t) PROVE MutualExclusion'
  BY <1>8 DEF CopyRegister
<1>9. ASSUME NEW t \in Threads, EndCopy(t) PROVE MutualExclusion'
  BY <1>9 DEF EndCopy
<1>10. ASSUME NEW t \in Threads, Release(t) PROVE MutualExclusion'
  BY <1>10 DEF Release, StoreFlag
<1>11. ASSUME NEW t \in Threads, SendEvent(t) PROVE MutualExclusion'
  BY <1>11 DEF SendEvent
<1>12. ASSUME NEW t \in Threads, ReturnToJava(t) PROVE MutualExclusion'
  BY <1>12 DEF ReturnToJava
<1>13. ASSUME NEW t \in Threads, Finish(t) PROVE MutualExclusion'
  BY <1>13 DEF Finish
<1>14. CASE RequestSuspend
  BY <1>14 DEF RequestSuspend
<1>15. CASE AllSuspended
  BY <1>15 DEF AllSuspended
<1>16. CASE ResumeAll
  BY <1>16 DEF ResumeAll
<1>17. CASE UNCHANGED vars
  BY <1>17 DEF vars
<1> QED
  BY <1>1, <1>2, <1>3, <1>4, <1>5, <1>6, <1>7, <1>8, <1>9, <1>10, <1>11, <1>12, <1>13,
     <1>14, <1>15, <1>16, <1>17 DEF Next, Step, Runtime

\* Every store to the lock word closes every monitor.
LEMMA ReservedStep == IInv /\ [Next]_vars => Reserved'
<1> SUFFICES ASSUME IInv, [Next]_vars PROVE Reserved'
  OBVIOUS
<1> USE ExtrasAssumption DEF At, Goto, IInv, TypeOK, Reserved, MutualExclusion, Labels,
        Spinning, Holding, Cloned
<1>1. ASSUME NEW t \in Threads, NEW a \in Args, Call(t, a) PROVE Reserved'
  BY <1>1 DEF Call
<1>2. ASSUME NEW t \in Threads, LoadExclusive(t) PROVE Reserved'
  BY <1>2 DEF LoadExclusive
<1>3. ASSUME NEW t \in Threads, StoreExclusive(t) PROVE Reserved'
  BY <1>3 DEF StoreExclusive, StoreFlag
<1>4. ASSUME NEW t \in Threads, WaitForEvent(t) PROVE Reserved'
  BY <1>4 DEF WaitForEvent
<1>5. ASSUME NEW t \in Threads, SaveRegister(t) PROVE Reserved'
  BY <1>5 DEF SaveRegister
<1>6. ASSUME NEW t \in Threads, BranchToBridge(t) PROVE Reserved'
  BY <1>6 DEF BranchToBridge
<1>7. ASSUME NEW t \in Threads, EnterBridge(t) PROVE Reserved'
  BY <1>7 DEF EnterBridge
<1>8. ASSUME NEW t \in Threads, CopyRegister(t) PROVE Reserved'
  BY <1>8 DEF CopyRegister
<1>9. ASSUME NEW t \in Threads, EndCopy(t) PROVE Reserved'
  BY <1>9 DEF EndCopy
<1>10. ASSUME NEW t \in Threads, Release(t) PROVE Reserved'
  BY <1>10 DEF Release, StoreFlag
<1>11. ASSUME NEW t \in Threads, SendEvent(t) PROVE Reserved'
  BY <1>11 DEF SendEvent
<1>12. ASSUME NEW t \in Threads, ReturnToJava(t) PROVE Reserved'
  BY <1>12 DEF ReturnToJava
<1>13. ASSUME NEW t \in Threads, Finish(t) PROVE Reserved'
  BY <1>13 DEF Finish
<1>14. CASE RequestSuspend
  BY <1>14 DEF RequestSuspend
<1>15. CASE AllSuspended
  BY <1>15 DEF AllSuspended
<1>16. CASE ResumeAll
  BY <1>16 DEF ResumeAll
<1>17. CASE UNCHANGED vars
  BY <1>17 DEF vars
<1> QED
  BY <1>1, <1>2, <1>3, <1>4, <1>5, <1>6, <1>7, <1>8, <1>9, <1>10, <1>11, <1>12, <1>13,
     <1>14, <1>15, <1>16, <1>17 DEF Next, Step, Runtime

\* The Extras of a call change under no other call: MutualExclusion.
LEMMA ProgressStep == IInv /\ [Next]_vars => Progress'
<1> SUFFICES ASSUME IInv, [Next]_vars PROVE Progress'
  OBVIOUS
<1> USE ExtrasAssumption DEF At, Goto, IInv, TypeOK, MutualExclusion, Progress, Args,
        Labels, Spinning, Holding, Cloned
<1>1. ASSUME NEW t \in Threads, NEW a \in Args, Call(t, a) PROVE Progress'
  BY <1>1 DEF Call
<1>2. ASSUME NEW t \in Threads, LoadExclusive(t) PROVE Progress'
  BY <1>2 DEF LoadExclusive
<1>3. ASSUME NEW t \in Threads, StoreExclusive(t) PROVE Progress'
  BY <1>3 DEF StoreExclusive, StoreFlag
<1>4. ASSUME NEW t \in Threads, WaitForEvent(t) PROVE Progress'
  BY <1>4 DEF WaitForEvent
<1>5. ASSUME NEW t \in Threads, SaveRegister(t) PROVE Progress'
  BY <1>5 DEF SaveRegister
<1>6. ASSUME NEW t \in Threads, BranchToBridge(t) PROVE Progress'
  BY <1>6 DEF BranchToBridge
<1>7. ASSUME NEW t \in Threads, EnterBridge(t) PROVE Progress'
  BY <1>7 DEF EnterBridge
<1>8. ASSUME NEW t \in Threads, CopyRegister(t) PROVE Progress'
  BY <1>8 DEF CopyRegister
<1>9. ASSUME NEW t \in Threads, EndCopy(t) PROVE Progress'
  BY <1>9 DEF EndCopy
<1>10. ASSUME NEW t \in Threads, Release(t) PROVE Progress'
  BY <1>10 DEF Release, StoreFlag
<1>11. ASSUME NEW t \in Threads, SendEvent(t) PROVE Progress'
  BY <1>11 DEF SendEvent
<1>12. ASSUME NEW t \in Threads, ReturnToJava(t) PROVE Progress'
  BY <1>12 DEF ReturnToJava
<1>13. ASSUME NEW t \in Threads, Finish(t) PROVE Progress'
  BY <1>13 DEF Finish
<1>14. CASE RequestSuspend
  BY <1>14 DEF RequestSuspend
<1>15. CASE AllSuspended
  BY <1>15 DEF AllSuspended
<1>16. CASE ResumeAll
  BY <1>16 DEF ResumeAll
<1>17. CASE UNCHANGED vars
  BY <1>17 DEF vars
<1> QED
  BY <1>1, <1>2, <1>3, <1>4, <1>5, <1>6, <1>7, <1>8, <1>9, <1>10, <1>11, <1>12, <1>13,
     <1>14, <1>15, <1>16, <1>17 DEF Next, Step, Runtime

\* A clone that is complete is never written again.
LEMMA ArgsIntactStep == IInv /\ [Next]_vars => ArgsIntact'
<1> SUFFICES ASSUME IInv, [Next]_vars PROVE ArgsIntact'
  OBVIOUS
<1> USE ExtrasAssumption DEF At, Goto, IInv, TypeOK, Progress, ArgsIntact, Labels,
        Spinning, Holding, Cloned
<1>1. ASSUME NEW t \in Threads, NEW a \in Args, Call(t, a) PROVE ArgsIntact'
  BY <1>1 DEF Call
<1>2. ASSUME NEW t \in Threads, LoadExclusive(t) PROVE ArgsIntact'
  BY <1>2 DEF LoadExclusive
<1>3. ASSUME NEW t \in Threads, StoreExclusive(t) PROVE ArgsIntact'
  BY <1>3 DEF StoreExclusive, StoreFlag
<1>4. ASSUME NEW t \in Threads, WaitForEvent(t) PROVE ArgsIntact'
  BY <1>4 DEF WaitForEvent
<1>5. ASSUME NEW t \in Threads, SaveRegister(t) PROVE ArgsIntact'
  BY <1>5 DEF SaveRegister
<1>6. ASSUME NEW t \in Threads, BranchToBridge(t) PROVE ArgsIntact'
  BY <1>6 DEF BranchToBridge
<1>7. ASSUME NEW t \in Threads, EnterBridge(t) PROVE ArgsIntact'
  BY <1>7 DEF EnterBridge
<1>8. ASSUME NEW t \in Threads, CopyRegister(t) PROVE ArgsIntact'
  BY <1>8 DEF CopyRegister
<1>9. ASSUME NEW t \in Threads, EndCopy(t) PROVE ArgsIntact'
  BY <1>9, CompleteCopy DEF EndCopy
<1>10. ASSUME NEW t \in Threads, Release(t) PROVE ArgsIntact'
  BY <1>10 DEF Release, StoreFlag
<1>11. ASSUME NEW t \in Threads, SendEvent(t) PROVE ArgsIntact'
  BY <1>11 DEF SendEvent
<1>12. ASSUME NEW t \in Threads, ReturnToJava(t) PROVE ArgsIntact'
  BY <1>12 DEF ReturnToJava
<1>13. ASSUME NEW t \in Threads, Finish(t) PROVE ArgsIntact'
  BY <1>13 DEF Finish
<1>14. CASE RequestSuspend
  BY <1>14 DEF RequestSuspend
<1>15. CASE AllSuspended
  BY <1>15 DEF AllSuspended
<1>16. CASE ResumeAll
  BY <1>16 DEF ResumeAll
<1>17. CASE UNCHANGED vars
  BY <1>17 DEF vars
<1> QED
  BY <1>1, <1>2, <1>3, <1>4, <1>5, <1>6, <1>7, <1>8, <1>9, <1>10, <1>11, <1>12, <1>13,
     <1>14, <1>15, <1>16, <1>17 DEF Next, Step, Runtime

-----------------------------------------------------------------------------
\* The invariant holds in the initial states.
LEMMA InitIInv == Init => IInv
<1> SUFFICES ASSUME Init PROVE IInv
  OBVIOUS
<1>1. TypeOK
  BY DEF Init, TypeOK, Labels
<1>2. \A t \in Threads : pc[t] = "idle"
  BY DEF Init
<1>3. MutualExclusion /\ Reserved /\ ArgsIntact
  BY <1>2 DEF MutualExclusion, Reserved, ArgsIntact, Holding, Cloned
<1>4. Progress
  BY <1>2 DEF Progress, Cloned
<1> QED
  BY <1>1, <1>3, <1>4 DEF IInv

\* The invariant is inductive.
LEMMA NextIInv == IInv /\ [Next]_vars => IInv'
<1> SUFFICES ASSUME IInv /\ [Next]_vars PROVE IInv'
  OBVIOUS
<1> QED
  BY TypeOKStep, MutualExclusionStep, ReservedStep, ProgressStep, ArgsIntactStep DEF IInv

\* Every reachable state satisfies the invariant.
THEOREM Invariance == Spec => []IInv
  BY InitIInv, NextIInv, PTL DEF Spec

\* The lock excludes: the CHECK of ReleaseLock never aborts.
THEOREM LockExcludes == Spec => []MutualExclusion
<1>1. IInv => MutualExclusion
  BY DEF IInv
<1> QED
  BY <1>1, Invariance, PTL

\* A handler decodes the registers of its own call.
THEOREM ArgumentsSurvive == Spec => []ArgsIntact
<1>1. IInv => ArgsIntact
  BY DEF IInv
<1> QED
  BY <1>1, Invariance, PTL

-----------------------------------------------------------------------------

\* Call begins a hand-over, the end of the copy completes it, Finish ends it; any
\* other step leaves what was passed and received as it is.
LEMMA HandOverStep == IInv /\ [Next]_vars => [Atomic!Next]_<<regs, Received>>
<1> SUFFICES ASSUME IInv, [Next]_vars PROVE [Atomic!Next]_<<regs, Received>>
  OBVIOUS
<1> USE ExtrasAssumption DEF At, Goto, IInv, TypeOK, Progress, ArgsIntact, Received,
        Labels, Spinning, Holding, Cloned, Atomic!Next, Atomic!Begin, Atomic!Receive,
        Atomic!End
<1>1. ASSUME NEW t \in Threads, NEW a \in Args, Call(t, a)
     PROVE [Atomic!Next]_<<regs, Received>>
  BY <1>1 DEF Call
<1>2. ASSUME NEW t \in Threads, LoadExclusive(t) PROVE [Atomic!Next]_<<regs, Received>>
  BY <1>2 DEF LoadExclusive
<1>3. ASSUME NEW t \in Threads, StoreExclusive(t) PROVE [Atomic!Next]_<<regs, Received>>
  BY <1>3 DEF StoreExclusive, StoreFlag
<1>4. ASSUME NEW t \in Threads, WaitForEvent(t) PROVE [Atomic!Next]_<<regs, Received>>
  BY <1>4 DEF WaitForEvent
<1>5. ASSUME NEW t \in Threads, SaveRegister(t) PROVE [Atomic!Next]_<<regs, Received>>
  BY <1>5 DEF SaveRegister
<1>6. ASSUME NEW t \in Threads, BranchToBridge(t) PROVE [Atomic!Next]_<<regs, Received>>
  BY <1>6 DEF BranchToBridge
<1>7. ASSUME NEW t \in Threads, EnterBridge(t) PROVE [Atomic!Next]_<<regs, Received>>
  BY <1>7 DEF EnterBridge
<1>8. ASSUME NEW t \in Threads, CopyRegister(t) PROVE [Atomic!Next]_<<regs, Received>>
  BY <1>8 DEF CopyRegister
<1>9. ASSUME NEW t \in Threads, EndCopy(t) PROVE [Atomic!Next]_<<regs, Received>>
  <2>1. clone[t] = regs[t]
    BY <1>9, CompleteCopy DEF EndCopy
  <2>2. regs[t] # NoArgs /\ Received[t] = NoArgs
    BY <1>9 DEF EndCopy
  <2>3. Received' = [Received EXCEPT ![t] = regs[t]]
    BY <2>1, <1>9 DEF EndCopy
  <2> QED
    BY <2>2, <2>3, <1>9 DEF EndCopy
<1>10. ASSUME NEW t \in Threads, Release(t) PROVE [Atomic!Next]_<<regs, Received>>
  BY <1>10 DEF Release, StoreFlag
<1>11. ASSUME NEW t \in Threads, SendEvent(t) PROVE [Atomic!Next]_<<regs, Received>>
  BY <1>11 DEF SendEvent
<1>12. ASSUME NEW t \in Threads, ReturnToJava(t) PROVE [Atomic!Next]_<<regs, Received>>
  BY <1>12 DEF ReturnToJava
<1>13. ASSUME NEW t \in Threads, Finish(t) PROVE [Atomic!Next]_<<regs, Received>>
  BY <1>13 DEF Finish
<1>14. CASE RequestSuspend
  BY <1>14 DEF RequestSuspend
<1>15. CASE AllSuspended
  BY <1>15 DEF AllSuspended
<1>16. CASE ResumeAll
  BY <1>16 DEF ResumeAll
<1>17. CASE UNCHANGED vars
  BY <1>17 DEF vars
<1> QED
  BY <1>1, <1>2, <1>3, <1>4, <1>5, <1>6, <1>7, <1>8, <1>9, <1>10, <1>11, <1>12, <1>13,
     <1>14, <1>15, <1>16, <1>17 DEF Next, Step, Runtime

\* The bridge implements the atomic hand-over.
THEOREM BridgeHandsOver == Spec => HandsOver
<1>1. Init => Atomic!Init
  BY DEF Init, Atomic!Init, Received, Cloned
<1>2. IInv /\ [Next]_vars => [Atomic!Next]_<<regs, Received>>
  BY HandOverStep
<1> QED
  BY <1>1, <1>2, Invariance, PTL DEF Spec, HandsOver, Atomic!Spec
=============================================================================
