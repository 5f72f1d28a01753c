--------------------------- MODULE PineInitProofs ---------------------------
(***************************************************************************)
(* Proofs about PineInit for every number of threads: the library is       *)
(* initialized once, and nothing but two crossing calls of setDebuggable   *)
(* makes the two copies of the setting differ.  And about PineStart for    *)
(* every device.                                                           *)
(***************************************************************************)
EXTENDS PineStart, WellFoundedInduction, TLAPS

\* The monitor is held exactly inside the synchronized blocks, the library is
\* being initialized only before it is, and the code past the blocks runs after.
Monitor == \A t \in Threads :
  /\ pc[t] \in InMonitor <=> owner = t
  /\ pc[t] \in Initializing => ~initialized
  /\ pc[t] \in {"setField", "setNative", "policyNative"} => initialized
  /\ pc[t] \in {"configure", "setField", "setNative"} => op[t].name = "setDebuggable"

IInv == TypeOK /\ Monitor

\* After a write that crossed no other one, the field is on its way to native code
\* with the one thread that wrote it, or has arrived there.
Copied ==
  /\ \A t \in Threads : pc[t] = "init0" => read[t].debuggable = debuggable
  /\ \A t \in Threads : pc[t] = "publish" => nativeDebuggable = debuggable
  /\ ~crossed => \A t \in Threads : pc[t] = "setNative" =>
       /\ op[t].arg = debuggable
       /\ \A u \in Threads : pc[u] = "setNative" => u = t
  /\ initialized /\ ~crossed /\ (\A t \in Threads : pc[t] # "setNative") =>
       nativeDebuggable = debuggable

-----------------------------------------------------------------------------
\* The argument of an operation is Boolean.
LEMMA ArgIsBoolean ==
  ASSUME TypeOK, NEW t \in Threads
  PROVE  op[t].arg \in BOOLEAN
<1>1. op[t] \in Ops \/ op[t] = NoOp
  BY DEF TypeOK
<1>2. CASE op[t] = NoOp
  BY <1>2 DEF NoOp
<1>3. CASE op[t] = [name |-> "ensure", arg |-> FALSE]
  BY <1>3
<1>4. CASE op[t] \in [name : {"setDebuggable", "disablePolicy"}, arg : BOOLEAN]
  BY <1>4
<1> QED
  BY <1>1, <1>2, <1>3, <1>4 DEF Ops

\* Every step keeps the types.
LEMMA TypeOKStep == IInv /\ [Next]_vars => TypeOK'
<1> SUFFICES ASSUME IInv, [Next]_vars PROVE TypeOK'
  OBVIOUS
<1> USE InitAssumption DEF IInv, TypeOK, Monitor, Goto, Leave, Returns, Continue,
        config, native, locals, Ops, NoOp, Unread, Settings, Labels, InMonitor,
        Initializing, WriteField
<1>1. ASSUME NEW t \in Threads, NEW o \in Ops, Start(t, o) PROVE TypeOK'
  BY <1>1 DEF Start, Ops
<1>2. ASSUME NEW t \in Threads, CheckInitialized(t) PROVE TypeOK'
  <2>1. CASE Returns(t)
    BY <2>1, <1>2 DEF CheckInitialized
  <2>2. CASE \E l \in Labels \ {"idle"} : Continue(t, l)
    BY <2>2, <1>2 DEF CheckInitialized
  <2> QED
    BY <2>1, <2>2, <1>2 DEF CheckInitialized
<1>3. ASSUME NEW t \in Threads, SetPolicyField(t) PROVE TypeOK'
  <2>1. CASE Returns(t)
    BY <2>1, <1>3, ArgIsBoolean DEF SetPolicyField
  <2>2. CASE Continue(t, "lock")
    BY <2>2, <1>3, ArgIsBoolean DEF SetPolicyField
  <2> QED
    BY <2>1, <2>2, <1>3 DEF SetPolicyField
<1>4. ASSUME NEW t \in Threads, SetPolicyNative(t) PROVE TypeOK'
  BY <1>4 DEF SetPolicyNative
<1>5. ASSUME NEW t \in Threads, EnterMonitor(t) PROVE TypeOK'
  BY <1>5 DEF EnterMonitor
<1>6. ASSUME NEW t \in Threads, Recheck(t) PROVE TypeOK'
  <2>1. CASE Returns(t)
    BY <2>1, <1>6 DEF Recheck
  <2>2. CASE \E l \in Labels \ {"idle"} : Continue(t, l)
    BY <2>2, <1>6 DEF Recheck
  <2> QED
    BY <2>1, <2>2, <1>6 DEF Recheck
<1>7. ASSUME NEW t \in Threads, Configure(t) PROVE TypeOK'
  BY <1>7 DEF Configure
<1>8. ASSUME NEW t \in Threads, ReadConfig(t) PROVE TypeOK'
  BY <1>8 DEF ReadConfig
<1>9. ASSUME NEW t \in Threads, Init0(t) PROVE TypeOK'
  BY <1>9 DEF Init0
<1>10. ASSUME NEW t \in Threads, InitializeThrows(t) PROVE TypeOK'
  BY <1>10 DEF InitializeThrows
<1>11. ASSUME NEW t \in Threads, PublishInitialized(t) PROVE TypeOK'
  BY <1>11 DEF PublishInitialized
<1>12. ASSUME NEW t \in Threads, SetDebuggableField(t) PROVE TypeOK'
  BY <1>12 DEF SetDebuggableField
<1>13. ASSUME NEW t \in Threads, SetDebuggableNative(t) PROVE TypeOK'
  BY <1>13, ArgIsBoolean DEF SetDebuggableNative
<1>14. CASE UNCHANGED vars
  BY <1>14 DEF vars
<1> QED
  BY <1>1, <1>2, <1>3, <1>4, <1>5, <1>6, <1>7, <1>8, <1>9, <1>10, <1>11, <1>12, <1>13,
     <1>14 DEF Next, Step

\* Every operation enters and leaves the monitor as its synchronized block does.
LEMMA MonitorStep == IInv /\ [Next]_vars => Monitor'
<1> SUFFICES ASSUME IInv, [Next]_vars PROVE Monitor'
  OBVIOUS
<1> USE InitAssumption DEF IInv, TypeOK, Monitor, Goto, Leave, Returns, Continue,
        config, native, locals, Ops, NoOp, Unread, Settings, Labels, InMonitor,
        Initializing, WriteField
<1>1. ASSUME NEW t \in Threads, NEW o \in Ops, Start(t, o) PROVE Monitor'
  BY <1>1 DEF Start, Ops
<1>2. ASSUME NEW t \in Threads, CheckInitialized(t) PROVE Monitor'
  BY <1>2 DEF CheckInitialized
<1>3. ASSUME NEW t \in Threads, SetPolicyField(t) PROVE Monitor'
  BY <1>3 DEF SetPolicyField
<1>4. ASSUME NEW t \in Threads, SetPolicyNative(t) PROVE Monitor'
  BY <1>4 DEF SetPolicyNative
<1>5. ASSUME NEW t \in Threads, EnterMonitor(t) PROVE Monitor'
  BY <1>5 DEF EnterMonitor
<1>6. ASSUME NEW t \in Threads, Recheck(t) PROVE Monitor'
  BY <1>6 DEF Recheck
<1>7. ASSUME NEW t \in Threads, Configure(t) PROVE Monitor'
  BY <1>7 DEF Configure
<1>8. ASSUME NEW t \in Threads, ReadConfig(t) PROVE Monitor'
  BY <1>8 DEF ReadConfig
<1>9. ASSUME NEW t \in Threads, Init0(t) PROVE Monitor'
  BY <1>9 DEF Init0
<1>10. ASSUME NEW t \in Threads, InitializeThrows(t) PROVE Monitor'
  BY <1>10 DEF InitializeThrows
<1>11. ASSUME NEW t \in Threads, PublishInitialized(t) PROVE Monitor'
  BY <1>11 DEF PublishInitialized
<1>12. ASSUME NEW t \in Threads, SetDebuggableField(t) PROVE Monitor'
  BY <1>12 DEF SetDebuggableField
<1>13. ASSUME NEW t \in Threads, SetDebuggableNative(t) PROVE Monitor'
  BY <1>13 DEF SetDebuggableNative
<1>14. CASE UNCHANGED vars
  BY <1>14 DEF vars
<1> QED
  BY <1>1, <1>2, <1>3, <1>4, <1>5, <1>6, <1>7, <1>8, <1>9, <1>10, <1>11, <1>12, <1>13,
     <1>14 DEF Next, Step

\* A thread that initializes is alone with the field; one that sets it may be crossed.
LEMMA CopiedStep == IInv /\ Copied /\ [Next]_vars => Copied'
<1> SUFFICES ASSUME IInv /\ Copied, [Next]_vars PROVE Copied'
  OBVIOUS
<1> USE InitAssumption DEF Copied, IInv, TypeOK, Monitor, Goto, Leave,
        Returns, Continue, config, native, locals, Ops, NoOp, Unread, Settings, Labels,
        InMonitor, Initializing, WriteField
<1>1. ASSUME NEW t \in Threads, NEW o \in Ops, Start(t, o) PROVE Copied'
  BY <1>1 DEF Start, Ops
<1>2. ASSUME NEW t \in Threads, CheckInitialized(t) PROVE Copied'
  BY <1>2 DEF CheckInitialized
<1>3. ASSUME NEW t \in Threads, SetPolicyField(t) PROVE Copied'
  BY <1>3 DEF SetPolicyField
<1>4. ASSUME NEW t \in Threads, SetPolicyNative(t) PROVE Copied'
  BY <1>4 DEF SetPolicyNative
<1>5. ASSUME NEW t \in Threads, EnterMonitor(t) PROVE Copied'
  BY <1>5 DEF EnterMonitor
<1>6. ASSUME NEW t \in Threads, Recheck(t) PROVE Copied'
  BY <1>6 DEF Recheck
<1>7. ASSUME NEW t \in Threads, Configure(t) PROVE Copied'
  BY <1>7 DEF Configure
<1>8. ASSUME NEW t \in Threads, ReadConfig(t) PROVE Copied'
  BY <1>8 DEF ReadConfig
<1>9. ASSUME NEW t \in Threads, Init0(t) PROVE Copied'
  BY <1>9 DEF Init0
<1>10. ASSUME NEW t \in Threads, InitializeThrows(t) PROVE Copied'
  BY <1>10 DEF InitializeThrows
<1>11. ASSUME NEW t \in Threads, PublishInitialized(t) PROVE Copied'
  BY <1>11 DEF PublishInitialized
<1>12. ASSUME NEW t \in Threads, SetDebuggableField(t) PROVE Copied'
  BY <1>12 DEF SetDebuggableField
<1>13. ASSUME NEW t \in Threads, SetDebuggableNative(t) PROVE Copied'
  BY <1>13 DEF SetDebuggableNative
<1>14. CASE UNCHANGED vars
  BY <1>14 DEF vars
<1> QED
  BY <1>1, <1>2, <1>3, <1>4, <1>5, <1>6, <1>7, <1>8, <1>9, <1>10, <1>11, <1>12, <1>13,
     <1>14 DEF Next, Step

-----------------------------------------------------------------------------
\* The invariant is inductive.
THEOREM Invariance == Spec => []IInv
<1>1. Init => IInv
  <2> SUFFICES ASSUME Init PROVE IInv
    OBVIOUS
  <2> USE InitAssumption DEF Init
  <2>1. Unread \in Settings
    BY DEF Unread, Settings
  <2>2. TypeOK
    BY <2>1 DEF TypeOK, Labels
  <2>3. NoOp.name # "setDebuggable"
    BY DEF NoOp
  <2>4. Monitor
    BY <2>3 DEF Monitor, InMonitor, Initializing
  <2> QED
    BY <2>2, <2>4 DEF IInv
<1>2. IInv /\ [Next]_vars => IInv'
  <2> SUFFICES ASSUME IInv /\ [Next]_vars PROVE IInv'
    OBVIOUS
  <2> QED
    BY TypeOKStep, MonitorStep DEF IInv
<1> QED
  BY <1>1, <1>2, PTL DEF Spec

\* The library is initialized by one thread at a time and never again.
THEOREM InitializesOnce == Spec => []InitializedOnce
<1>1. IInv => InitializedOnce
  BY InitAssumption DEF IInv, TypeOK, Monitor, InitializedOnce, InMonitor, Initializing
<1> QED
  BY <1>1, Invariance, PTL

\* For any number of threads that set and initialize, the two copies of the setting
\* agree when no setDebuggable is between its writes, unless the latest write of the
\* field crossed another call.
THEOREM CopiesAgree == Spec => []DebuggableAgrees
<1>1. Init => Copied
  BY DEF Init, Copied
<1>2. IInv /\ Copied /\ [Next]_vars => Copied'
  BY CopiedStep
<1>3. Copied => DebuggableAgrees
  BY DEF Copied, DebuggableAgrees
<1> QED
  BY <1>1, <1>2, <1>3, Invariance, PTL DEF Spec

-----------------------------------------------------------------------------
(* PineStart *)

\* Every step of the searching initialization is a step of PineInit, or none.
LEMMA StartStep == [StartNext]_startVars => [Next]_vars
<1> SUFFICES ASSUME [StartNext]_startVars PROVE [Next]_vars
  OBVIOUS
<1>1. ASSUME NEW t \in Threads, InitStep(t) PROVE [Next]_vars
  <2>1. SearchRuntime(t) \/ PatchPolicy(t) => Step(t)
    BY DEF SearchRuntime, PatchPolicy, Step
  <2> QED
    BY <1>1, <2>1 DEF InitStep, Next
<1>2. ASSUME NEW u \in Users, UserStep(u) PROVE [Next]_vars
  BY <1>2 DEF UserStep, Begin, StartSection, SuspendAll, SuspendVM, ResumeVM, CheckInline,
        ReplaceUpdate, SetInline, DisableProfileSaver, KeepInit
<1>3. Runtime => [Next]_vars
  BY DEF Runtime, Collect, CreateJit, BeginUpdate, EndUpdate, KeepInit
<1> QED
  BY <1>1, <1>2, <1>3 DEF StartNext, startVars

\* The library with its native search implements PineInit: what is proved of the
\* latter holds of the former.
THEOREM StartImplementsInit == StartSpec => Spec
<1>1. StartInit => Init
  BY DEF StartInit
<1> QED
  BY <1>1, StartStep, PTL DEF StartSpec, Spec

\* The library is initialized once on every device.
THEOREM StartInitializesOnce == StartSpec => []InitializedOnce
BY StartImplementsInit, InitializesOnce, PTL

\* What the native statics hold once they are set, and what a user that got past
\* its checks relies on.
Statics ==
  /\ found.suspend = found.resume
  /\ found.suspend # "none" =>
       /\ found.suspend = SuspendApi.suspend
       /\ found.gc = SuspendApi.gc
  /\ found.compiler => /\ Version <= kQ /\ Has("compiler")
                       /\ found.update = (Version = kQ /\ Has("update"))
  /\ at \in [Users -> {"idle", "hook", "inline", "saver", "suspend", "patch", "replace", "zero"}]

\* The one user inside the critical section or the suspended runtime.
Suspension ==
  /\ suspended \in Users \union {NoThread}
  /\ suspended # NoThread => at[suspended] = "patch" /\ found.suspend # "none"
  /\ \A u \in Users : at[u] = "suspend" => found.suspend = "all"
  /\ found.gc => \A u \in Users : at[u] = "suspend" =>
       /\ gc = "section" /\ suspended = NoThread
       /\ \A v \in Users : at[v] = "suspend" => v = u
  /\ suspended # NoThread /\ found.gc => gc # "running"

\* Once its function is replaced ART updates the options only if it was at it.
Inlining ==
  /\ device \in Environments
  /\ jit \in [on : BOOLEAN, options : [{"inline", "other"} -> {"none", "normal", "odd", "zero"}],
              update : {"none", "art", "fake"}]
  /\ Version # kQ => jit.update # "art" /\ ~updating
  /\ updating => jit.update # "none"
  /\ ~jit.on => jit.update = "none"
  /\ \A u \in Users : at[u] \in {"replace", "zero"} => jit.on /\ found.compiler
  /\ disabled => jit.on /\ found.compiler
  /\ disabled /\ found.update => jit.update # "art"
  /\ found.update => \A u \in Users : at[u] = "zero" => jit.update # "art"
  /\ jit.update # "art" /\ updating => overtaken
  /\ InlineStaysOff

StartInv == Statics /\ Suspension /\ Inlining

LEMMA ApiIsOfDevice == device' = device => SuspendApi' = SuspendApi
BY DEF SuspendApi, Has, Version

\* A step of a user or of the runtime leaves the statics alone.
LEMMA StaticsStep == Statics /\ [StartNext]_startVars => Statics'
<1> SUFFICES ASSUME Statics, [StartNext]_startVars PROVE Statics'
  OBVIOUS
<1> USE DEF Statics
<1>1. CASE UNCHANGED <<device, found, at>>
  BY <1>1, ApiIsOfDevice DEF Version, Has
<1>2. ASSUME NEW t \in Threads, SearchRuntime(t) PROVE Statics'
  <2>1. device' = device /\ at' = at
    BY <1>2 DEF SearchRuntime
  <2>2. found'.suspend = SuspendApi.suspend /\ found'.resume = SuspendApi.resume
        /\ found'.gc = SuspendApi.gc
    BY <1>2 DEF SearchRuntime
  <2>3. /\ found'.compiler = (Version <= kQ /\ Has("compiler"))
        /\ found'.update = (Version = kQ /\ Has("update"))
    BY <1>2 DEF SearchRuntime, JitStatics
  <2>4. SuspendApi.suspend = SuspendApi.resume
    BY DEF SuspendApi
  <2> QED
    BY <2>1, <2>2, <2>3, <2>4, ApiIsOfDevice DEF Version, Has
<1>3. ASSUME NEW u \in Users, UserStep(u) PROVE Statics'
  <2>1. UNCHANGED <<device, found>>
    BY <1>3 DEF UserStep, Begin, StartSection, SuspendAll, SuspendVM, ResumeVM, CheckInline,
          ReplaceUpdate, SetInline, DisableProfileSaver, KeepInit
  <2>2. \E l \in {"idle", "hook", "inline", "saver", "suspend", "patch", "replace", "zero"} :
          Goes(u, l)
    BY <1>3 DEF UserStep, Begin, StartSection, SuspendAll, SuspendVM, ResumeVM, CheckInline,
          ReplaceUpdate, SetInline, DisableProfileSaver
  <2>3. at' \in [Users -> {"idle", "hook", "inline", "saver", "suspend", "patch", "replace",
                            "zero"}]
    BY <2>2 DEF Goes
  <2> QED
    BY <2>1, <2>3, ApiIsOfDevice DEF Version, Has
<1>4. Runtime => UNCHANGED <<device, found, at>>
  BY DEF Runtime, Collect, CreateJit, BeginUpdate, EndUpdate, KeepInit
<1>5. ASSUME NEW t \in Threads, InitStep(t) PROVE Statics'
  <2>1. CASE SearchRuntime(t)
    BY <2>1, <1>2
  <2>2. CASE PatchPolicy(t)
    BY <2>2, <1>1 DEF PatchPolicy
  <2>3. CASE UNCHANGED <<searched, running, compiler, at>>
    BY <2>3, <1>1 DEF searched
  <2> QED
    BY <1>5, <2>1, <2>2, <2>3 DEF InitStep
<1> QED
  BY <1>1, <1>3, <1>4, <1>5 DEF StartNext, startVars, searched

\* No step leaves the runtime suspended or a collection inside it.
LEMMA SuspensionStep ==
  Statics /\ Suspension /\ [StartNext]_startVars => Suspension'
<1> SUFFICES ASSUME Statics, Suspension, [StartNext]_startVars PROVE Suspension'
  OBVIOUS
<1> USE StartAssumption DEF Statics, Suspension
<1>1. CASE UNCHANGED <<found, running, at>>
  BY <1>1 DEF running
<1>2. ASSUME NEW t \in Threads, InitStep(t) PROVE Suspension'
  <2>1. CASE SearchRuntime(t)
    <3>1. found'.suspend = SuspendApi.suspend /\ found'.gc = SuspendApi.gc
      BY <2>1 DEF SearchRuntime
    <3>2. UNCHANGED <<running, at>> /\ suspended = NoThread
      BY <1>2, <2>1 DEF SearchRuntime, InitStep
    <3> QED
      BY <3>1, <3>2 DEF running
  <2>2. CASE UNCHANGED <<searched, running, compiler, at>>
    BY <2>2, <1>1 DEF searched
  <2>3. CASE PatchPolicy(t)
    BY <2>3, <1>1 DEF PatchPolicy
  <2> QED
    BY <1>2, <2>1, <2>2, <2>3 DEF InitStep
<1>3. ASSUME NEW u \in Users, UserStep(u) PROVE Suspension'
  <2> USE DEF LetRun, Goes, KeepInit
  <2>1. CASE Begin(u)
    BY <2>1 DEF Begin, running
  <2>2. CASE StartSection(u)
    BY <2>2 DEF StartSection
  <2>3. CASE SuspendAll(u)
    BY <2>3 DEF SuspendAll
  <2>4. CASE SuspendVM(u)
    <3>1. found'.gc => found.suspend = "all" \/ found.suspend = "none" \/ found.suspend = "vm"
      BY <2>4 DEF SuspendVM, SuspendApi
    <3>2. found.suspend = "vm" => ~found.gc
      BY DEF SuspendApi
    <3> QED
      BY <2>4, <3>1, <3>2 DEF SuspendVM
  <2>5. CASE ResumeVM(u)
    BY <2>5 DEF ResumeVM
  <2>6. CASE CheckInline(u) \/ ReplaceUpdate(u) \/ SetInline(u) \/ DisableProfileSaver(u)
    BY <2>6 DEF CheckInline, ReplaceUpdate, SetInline, DisableProfileSaver, running
  <2> QED
    BY <1>3, <2>1, <2>2, <2>3, <2>4, <2>5, <2>6 DEF UserStep
<1>4. CASE Runtime
  BY <1>4 DEF Runtime, Collect, CreateJit, BeginUpdate, EndUpdate, KeepInit, running
<1> QED
  BY <1>1, <1>2, <1>3, <1>4 DEF StartNext, startVars, searched

\* A replaced update changes nothing: only one that ART had begun before does.
LEMMA InliningStep ==
  Statics /\ Inlining /\ [StartNext]_startVars => Inlining'
<1> SUFFICES ASSUME Statics, Inlining, [StartNext]_startVars PROVE Inlining'
  OBVIOUS
<1>0. /\ device.names \in {"inline", "other"}
      /\ device.options \in [{"inline", "other"} -> {"none", "normal", "odd", "zero"}]
  BY StartAssumption DEF Inlining
<1> USE DEF Statics, Inlining, InlineStaysOff, Version, Has, kQ
<1>1. CASE UNCHANGED <<device, found, compiler, at>>
  BY <1>1 DEF compiler
<1>2. ASSUME NEW t \in Threads, InitStep(t) PROVE Inlining'
  <2>1. CASE SearchRuntime(t)
    <3>1. /\ found'.compiler = (Version <= kQ /\ Has("compiler"))
          /\ found'.update = (Version = kQ /\ Has("update"))
      BY <2>1 DEF SearchRuntime, JitStatics
    <3>2. UNCHANGED <<device, compiler, at>>
      BY <2>1 DEF SearchRuntime
    <3> QED
      BY <3>1, <3>2 DEF compiler
  <2>2. CASE UNCHANGED <<searched, running, compiler, at>>
    BY <2>2, <1>1 DEF searched
  <2>3. CASE PatchPolicy(t)
    BY <2>3, <1>1 DEF PatchPolicy
  <2> QED
    BY <1>2, <2>1, <2>2, <2>3 DEF InitStep
<1>3. ASSUME NEW u \in Users, UserStep(u) PROVE Inlining'
  <2> USE DEF Goes, KeepInit, compiler
  <2>1. CASE Begin(u) \/ StartSection(u) \/ SuspendAll(u) \/ SuspendVM(u) \/ ResumeVM(u)
             \/ DisableProfileSaver(u)
    BY <2>1 DEF Begin, StartSection, SuspendAll, SuspendVM, ResumeVM, DisableProfileSaver
  <2>2. CASE CheckInline(u)
    BY <2>2 DEF CheckInline
  <2>3. CASE ReplaceUpdate(u)
    BY <2>3 DEF ReplaceUpdate
  <2>4. CASE SetInline(u)
    BY <2>4 DEF SetInline
  <2> QED
    BY <1>3, <2>1, <2>2, <2>3, <2>4 DEF UserStep
<1>4. CASE Runtime
  <2> USE DEF KeepInit, compiler
  <2>1. CASE Collect
    BY <2>1 DEF Collect
  <2>2. CASE CreateJit
    <3>1. ~jit.on /\ ~disabled /\ disabled' = disabled
      BY <2>2 DEF CreateJit
    <3>2. jit' = [on |-> TRUE, options |-> device.options,
                  update |-> IF Version = kQ /\ device.updates THEN "art" ELSE "none"]
      BY <2>2 DEF CreateJit
    <3>3. jit'.on /\ jit'.update \in {"art", "none"} /\ (jit'.update = "art" => Version = kQ)
      BY <3>2
    <3>4. jit' \in [on : BOOLEAN,
                    options : [{"inline", "other"} -> {"none", "normal", "odd", "zero"}],
                    update : {"none", "art", "fake"}]
      BY <1>0, <3>2
    <3>5. ~updating /\ UNCHANGED <<device, found, updating, overtaken, at>>
      BY <2>2 DEF CreateJit
    <3> QED
      BY <3>1, <3>3, <3>4, <3>5
  <2>3. CASE BeginUpdate
    BY <2>3 DEF BeginUpdate
  <2>4. CASE EndUpdate
    BY <1>0, <2>4 DEF EndUpdate
  <2> QED
    BY <1>4, <2>1, <2>2, <2>3, <2>4 DEF Runtime
<1> QED
  BY <1>1, <1>2, <1>3, <1>4 DEF StartNext, startVars, searched

\* The invariant of the search and of the users of what it found.
THEOREM StartInvariance == StartSpec => []StartInv
<1>1. StartInit => StartInv
  <2> SUFFICES ASSUME StartInit PROVE StartInv
    OBVIOUS
  <2> USE StartAssumption DEF StartInit, NothingFound, NoJit
  <2>1. Statics
    BY DEF Statics
  <2>2. Suspension
    BY DEF Suspension
  <2>3. Inlining
    BY DEF Inlining, InlineStaysOff
  <2> QED
    BY <2>1, <2>2, <2>3 DEF StartInv
<1>2. StartInv /\ [StartNext]_startVars => StartInv'
  <2> SUFFICES ASSUME StartInv, [StartNext]_startVars PROVE StartInv'
    OBVIOUS
  <2> QED
    BY StaticsStep, SuspensionStep, InliningStep DEF StartInv
<1> QED
  BY <1>1, <1>2, PTL DEF StartSpec

\* On every device, for any number of users, the runtime is suspended only around
\* the redirection of a method.
THEOREM RuntimeIsResumed == StartSpec => []SuspendedWhilePatching
<1>1. StartInv => SuspendedWhilePatching
  BY DEF StartInv, Suspension, SuspendedWhilePatching
<1> QED
  BY <1>1, StartInvariance, PTL

\* No collection is caught inside a suspended runtime that has the critical section.
THEOREM CollectorStaysOut == StartSpec => []NoCollectionIsSuspended
<1>1. StartInv => NoCollectionIsSuspended
  BY DEF StartInv, Suspension, NoCollectionIsSuspended
<1> QED
  BY <1>1, StartInvariance, PTL

\* What disableJitInline switched off stays off.
THEOREM InliningStaysOff == StartSpec => []InlineStaysOff
<1>1. StartInv => InlineStaysOff
  BY DEF StartInv, Inlining
<1> QED
  BY <1>1, StartInvariance, PTL

-----------------------------------------------------------------------------
LEMMA NatRel == OpToRel(<, Nat) = {ss \in Nat \X Nat : ss[1] < ss[2]}
BY DEF OpToRel

\* Every set of natural numbers that is not empty has a least one.
LEMMA NatMin ==
  ASSUME NEW T, T \subseteq Nat, T # {}
  PROVE  \E n \in T : \A m \in T : n <= m
<1> DEFINE R == OpToRel(<, Nat)
<1>1. IsWellFoundedOn(R, Nat)
  BY NatLessThanWellFounded
<1>2. R = {ss \in Nat \X Nat : ss[1] < ss[2]}
  BY NatRel
<1> HIDE DEF R
<1>3. PICK x \in T : \A y \in T : ~(<<y, x>> \in R)
  BY <1>1, WFMin
<1>4. ASSUME NEW m \in T, m < x PROVE FALSE
  <2>1. <<m, x>> \in Nat \X Nat /\ <<m, x>>[1] = m /\ <<m, x>>[2] = x
    OBVIOUS
  <2>2. <<m, x>> \in R
    BY <1>2, <1>4, <2>1
  <2> QED BY <1>3, <2>2
<1> QED BY <1>4

\* Induction over the natural numbers, the hypothesis being a set.
LEMMA Induction ==
  ASSUME NEW S, 0 \in S, \A n \in Nat : n \in S => n + 1 \in S
  PROVE  Nat \subseteq S
<1> SUFFICES ASSUME Nat \ S # {} PROVE FALSE
  OBVIOUS
<1> DEFINE R == Nat \ S
<1>1. R \subseteq Nat /\ R # {}
  OBVIOUS
<1>2. PICK n \in R : \A m \in R : n <= m
  BY <1>1, NatMin
<1>3. n \in Nat /\ n # 0 /\ n - 1 \in Nat /\ ~(n <= n - 1)
  OBVIOUS
<1>4. n - 1 \in S
  BY <1>2, <1>3
<1>5. (n - 1) + 1 = n
  BY <1>3
<1> QED BY <1>3, <1>4, <1>5

\* A function that follows the loop turn by turn ends with what the loop has seen.
LEMMA SeenIs ==
  ASSUME NEW G,
         Turns \in Nat,
         G = [k \in 0..Turns |-> G[k]],
         G[0] = [flags |-> found.flags, jni |-> found.jni],
         \A k \in 1..Turns : G[k] = Turn(G[k - 1], k)
  PROVE  Seen = G[Turns]
<1> DEFINE first == [flags |-> found.flags, jni |-> found.jni]
           Follows(h) == h = [k \in 0..Turns |-> IF k = 0 THEN first ELSE Turn(h[k - 1], k)]
           h == CHOOSE h : Follows(h)
<1>1. Follows(G)
  <2>1. ASSUME NEW k \in 0..Turns PROVE G[k] = IF k = 0 THEN first ELSE Turn(G[k - 1], k)
    <3>1. CASE k = 0
      BY <3>1
    <3>2. CASE k # 0
      <4>1. k \in 1..Turns
        BY <3>2
      <4> QED BY <3>2, <4>1
    <3> QED BY <3>1, <3>2
  <2> HIDE DEF first
  <2> QED BY <2>1
<1>2. Follows(h)
  <2> HIDE DEF Follows
  <2> QED BY <1>1
<1>3. Seen = h[Turns]
  BY DEF Seen
<1>4. ASSUME NEW k \in 0..Turns PROVE h[k] = IF k = 0 THEN first ELSE Turn(h[k - 1], k)
  <2> HIDE DEF h, first
  <2> QED BY <1>2, <1>4
<1> HIDE DEF h, first, Follows
<1> DEFINE S == {n \in Nat : n <= Turns => h[n] = G[n]}
<1>5. 0 \in S
  BY <1>4 DEF first
<1>6. ASSUME NEW n \in Nat, n \in S PROVE n + 1 \in S
  <2> SUFFICES ASSUME n + 1 <= Turns PROVE h[n + 1] = G[n + 1]
    OBVIOUS
  <2>1. n <= Turns /\ n + 1 \in 1..Turns /\ n + 1 \in 0..Turns /\ n + 1 # 0
        /\ (n + 1) - 1 = n
    OBVIOUS
  <2>2. h[n] = G[n]
    BY <1>6, <2>1
  <2>3. h[n + 1] = Turn(h[n], n + 1)
    BY <1>4, <2>1
  <2>4. G[n + 1] = Turn(G[n], n + 1)
    BY <2>1
  <2> QED BY <2>2, <2>3, <2>4
<1>7. Nat \subseteq S
  <2> HIDE DEF S
  <2> QED BY <1>5, <1>6, Induction
<1>8. h[Turns] = G[Turns]
  BY <1>7
<1> QED BY <1>3, <1>8

\* What a device on which nothing misleads the search has.
LEMMA Unmisled ==
  ASSUME device \in Environments, Unambiguous
  PROVE  /\ Turns \in Nat /\ device.size \in Nat /\ device.size <= 2 * Turns
         /\ device.layout \in [flags : Nat, jni : Nat, code : Nat]
         /\ device.layout.flags \in Offsets /\ device.layout.jni \in Offsets
         /\ device.layout.flags # device.layout.jni
         /\ device.layout.code = IF Version >= kO
                                 THEN AlignUp(device.layout.jni + PointerSize, PointerSize)
                                 ELSE device.layout.jni + PointerSize
<1>1. device.size \in Nat
  BY LayoutAssumption
<1>2. Turns \in Nat /\ device.size <= 2 * Turns
  BY <1>1 DEF Turns
<1>3. /\ device.layout \in [flags : Nat, jni : Nat, code : Nat]
      /\ device.layout.code = IF Version >= kO
                              THEN AlignUp(device.layout.jni + PointerSize, PointerSize)
                              ELSE device.layout.jni + PointerSize
  BY LayoutAssumption DEF Version, PointerSize
<1>4. /\ device.layout.flags \in Offsets /\ device.layout.jni \in Offsets
      /\ device.layout.flags # device.layout.jni
  BY DEF Unambiguous, Rulers
<1> QED BY <1>1, <1>2, <1>3, <1>4

\* Up to the last offset it looks at, the loop sees the flags, if they are the
\* expected ones, and the native function where they are.
LEMMA LooksRight ==
  ASSUME device \in Environments, Unambiguous, NEW o \in Offsets,
         \/ device.words[device.layout.flags] # {}
         \/ o <= device.layout.flags \/ o <= device.layout.jni
  PROVE  /\ o \in ReadsAs({}) <=> o = device.layout.flags /\ device.words[device.layout.flags] = {}
         /\ o \in Rulers \ ReadsAs({}) <=> o = device.layout.jni
<1> DEFINE f == device.layout.flags
           j == device.layout.jni
           extra == device.words[f]
           stop == IF extra # {} THEN device.size ELSE IF f < j THEN j ELSE f
<1>1. /\ f \in Nat /\ j \in Nat /\ f # j /\ o \in Nat /\ o <= device.size
      /\ device.size \in Nat
  BY Unmisled DEF Offsets
<1>2. o <= stop
  BY <1>1
<1>3. /\ f \in Offsets \intersect DOMAIN device.words
      /\ j \in Rulers \ {f}
      /\ o \in DOMAIN device.words /\ device.words[o] \subseteq extra => o = f
      /\ o \in Rulers => o = j
  BY <1>2 DEF Unambiguous
<1>4. o \in ReadsAs({}) <=> o \in DOMAIN device.words /\ device.words[o] = {}
  BY DEF ReadsAs
<1>5. o \in ReadsAs({}) <=> o = f /\ extra = {}
  BY <1>3, <1>4
<1>6. o \in Rulers <=> o = j
  BY <1>3
<1> QED BY <1>1, <1>5, <1>6

\* Where nothing misleads it, the loop has seen what is there when it ends: from
\* nothing, and from a search that had found the members before.
LEMMA LoopSees ==
  ASSUME device \in Environments, Unambiguous,
         \/ found.flags = Unset /\ found.jni = Unset
         \/ found.flags = device.layout.flags /\ found.jni = device.layout.jni
  PROVE  /\ Seen.jni = device.layout.jni
         /\ Seen.flags = IF \/ found.flags = device.layout.flags
                            \/ device.words[device.layout.flags] = {}
                         THEN device.layout.flags ELSE Unset
<1> DEFINE f == device.layout.flags
           j == device.layout.jni
           extra == device.words[f]
<1>1. /\ f \in Nat /\ j \in Nat /\ f # j /\ f % 2 = 0 /\ j % 2 = 0
      /\ f <= device.size - 1 /\ j <= device.size - 1
      /\ Turns \in Nat /\ device.size \in Nat /\ device.size <= 2 * Turns
      /\ f # Unset /\ j # Unset
  BY Unmisled DEF Offsets, Unset
<1>2. ASSUME NEW k \in 1..Turns
      PROVE  2 * (k - 1) \in Offsets
  BY <1>1, <1>2 DEF Offsets, Turns
<1>3. CASE found.flags = Unset /\ found.jni = Unset
  <2> DEFINE G == [k \in 0..Turns |->
                     [flags |-> IF extra = {} /\ f < 2 * k THEN f ELSE Unset,
                      jni |-> IF j < 2 * k THEN j ELSE Unset]]
  <2>1. G[0] = [flags |-> found.flags, jni |-> found.jni]
    BY <1>1, <1>3
  <2>2. ASSUME NEW k \in 1..Turns PROVE G[k] = Turn(G[k - 1], k)
    <3> DEFINE o == 2 * (k - 1)
    <3>1. k - 1 \in 0..Turns /\ k \in 0..Turns /\ o \in Offsets /\ o \in Nat /\ 2 * k = o + 2
      BY <1>1, <1>2
    <3>2. G[k - 1] = [flags |-> IF extra = {} /\ f < o THEN f ELSE Unset,
                      jni |-> IF j < o THEN j ELSE Unset]
      BY <3>1
    <3>3. G[k] = [flags |-> IF extra = {} /\ f < o + 2 THEN f ELSE Unset,
                  jni |-> IF j < o + 2 THEN j ELSE Unset]
      BY <3>1
    <3>4. Done(G[k - 1]) <=> extra = {} /\ f < o /\ j < o
      BY <1>1, <3>2 DEF Done
    <3>5. f < o + 2 <=> f < o \/ f = o
      BY <1>1, <3>1
    <3>6. j < o + 2 <=> j < o \/ j = o
      BY <1>1, <3>1
    <3> HIDE DEF G, o
    <3>7. CASE Done(G[k - 1])
      <4>1. k > 1
        BY <1>1, <3>4, <3>7 DEF o
      <4>2. G[k] = G[k - 1]
        BY <3>2, <3>3, <3>4, <3>5, <3>6, <3>7
      <4> QED BY <3>7, <4>1, <4>2 DEF Turn
    <3>8. CASE ~Done(G[k - 1])
      <4>1. extra # {} \/ o <= f \/ o <= j
        BY <1>1, <3>1, <3>4, <3>8
      <4>2. /\ o \in ReadsAs({}) <=> o = f /\ extra = {}
            /\ o \in Rulers \ ReadsAs({}) <=> o = j
        BY <3>1, <4>1, LooksRight
      <4>3. Turn(G[k - 1], k) = Look(G[k - 1], o)
        BY <3>8 DEF Turn, o
      <4>4. Look(G[k - 1], o) = [flags |-> IF o = f /\ extra = {} THEN o ELSE G[k - 1].flags,
                                 jni |-> IF o = j THEN o ELSE G[k - 1].jni]
        BY <4>2 DEF Look
      <4>5. G[k].flags = IF o = f /\ extra = {} THEN o ELSE G[k - 1].flags
        BY <3>2, <3>3, <3>5
      <4>6. G[k].jni = IF o = j THEN o ELSE G[k - 1].jni
        BY <3>2, <3>3, <3>6
      <4> QED BY <3>3, <4>3, <4>4, <4>5, <4>6
    <3> QED BY <3>7, <3>8
  <2>3. G = [k \in 0..Turns |-> G[k]]
    OBVIOUS
  <2>4. G[Turns].jni = j /\ G[Turns].flags = IF extra = {} THEN f ELSE Unset
    BY <1>1
  <2>5. Seen = G[Turns]
    <3> HIDE DEF G
    <3> QED BY <1>1, <2>1, <2>2, <2>3, SeenIs
  <2> QED BY <1>1, <1>3, <2>4, <2>5
<1>4. CASE found.flags = f /\ found.jni = j
  <2> DEFINE G == [k \in 0..Turns |-> [flags |-> f, jni |-> j]]
  <2>1. G[0] = [flags |-> found.flags, jni |-> found.jni]
    BY <1>1, <1>4
  <2>2. ASSUME NEW k \in 1..Turns PROVE G[k] = Turn(G[k - 1], k)
    <3>1. G[k] = [flags |-> f, jni |-> j] /\ G[k - 1] = [flags |-> f, jni |-> j]
      BY <1>1
    <3>2. Done(G[k - 1])
      BY <1>1, <3>1 DEF Done
    <3> HIDE DEF G
    <3>3. CASE k > 1
      BY <3>1, <3>2, <3>3 DEF Turn
    <3>4. CASE ~(k > 1)
      <4>1. k = 1 /\ 2 * (k - 1) = 0 /\ 0 \in Offsets
        BY <1>1, <1>2, <3>4
      <4>2. /\ 0 \in ReadsAs({}) => 0 = f
            /\ 0 \in Rulers \ ReadsAs({}) => 0 = j
        BY <1>1, <4>1, LooksRight
      <4>3. Look(G[k - 1], 0) = [flags |-> f, jni |-> j]
        BY <3>1, <4>2 DEF Look
      <4> QED BY <3>1, <3>4, <4>1, <4>3 DEF Turn
    <3> QED BY <3>3, <3>4
  <2>3. G = [k \in 0..Turns |-> G[k]]
    OBVIOUS
  <2>4. G[Turns] = [flags |-> f, jni |-> j]
    BY <1>1
  <2>5. Seen = G[Turns]
    <3> HIDE DEF G
    <3> QED BY <1>1, <2>1, <2>2, <2>3, SeenIs
  <2> QED BY <1>4, <2>4, <2>5
<1> QED BY <1>3, <1>4

\* The only match is the first one.
LEMMA FirstOfOne ==
  ASSUME NEW n \in Nat
  PROVE  First({n}) = n
BY DEF First

\* A search that has come to the members has found them all where nothing misleads it.
Located ==
  /\ device \in Environments
  /\ Unambiguous =>
       \/ found.flags = Unset /\ found.jni = Unset
       \/ /\ found.flags = device.layout.flags
          /\ found.jni = device.layout.jni
          /\ found.code = device.layout.code

\* The search computes the layout from nothing and from an earlier search.
LEMMA MembersAreTheLayout ==
  ASSUME Located, Unambiguous
  PROVE  /\ Members.flags = device.layout.flags
         /\ Members.jni = device.layout.jni
         /\ Members.code = device.layout.code
<1> DEFINE f == device.layout.flags
           extra == device.words[f]
<1>1. device \in Environments
  BY DEF Located
<1>2. /\ Seen.jni = device.layout.jni
      /\ Seen.flags = IF found.flags = f \/ extra = {} THEN f ELSE Unset
  BY <1>1, LoopSees DEF Located
<1>3. /\ f \in Nat /\ device.layout.jni \in Nat /\ f # Unset /\ device.layout.jni # Unset
      /\ device.layout.code = IF Version >= kO
                              THEN AlignUp(device.layout.jni + PointerSize, PointerSize)
                              ELSE device.layout.jni + PointerSize
  BY <1>1, Unmisled DEF Unset
<1>4. FlagsOffset = f
  <2>1. CASE Seen.flags # Unset
    BY <1>2, <2>1 DEF FlagsOffset
  <2>2. CASE Seen.flags = Unset
    <3>1. extra # {}
      BY <1>2, <1>3, <2>2
    <3>2. \A o \in ReadsAs(extra) : o = f
      <4> SUFFICES ASSUME NEW o \in ReadsAs(extra) PROVE o = f
        OBVIOUS
      <4>1. o \in Offsets /\ o \in DOMAIN device.words /\ device.words[o] = extra
        BY DEF ReadsAs
      <4>2. o <= device.size
        BY <1>1, <4>1, Unmisled DEF Offsets
      <4> QED BY <3>1, <4>1, <4>2 DEF Unambiguous
    <3>3. f \in ReadsAs(extra)
      BY DEF Unambiguous, ReadsAs
    <3>4. ReadsAs(extra) = {f}
      BY <3>2, <3>3
    <3>5. extra \in Tried
      BY DEF Unambiguous
    <3>6. CASE extra = {"dontBother"}
      <4>1. First(ReadsAs({"dontBother"})) = f /\ ReadsAs({"dontBother"}) # {}
        BY <1>3, <3>4, <3>6, FirstOfOne
      <4> QED BY <2>2, <4>1 DEF FlagsOffset
    <3>7. CASE extra = {"dontBother", "preCompiled"} /\ Version >= kR
      <4>1. ReadsAs({"dontBother"}) = {}
        <5> SUFFICES ASSUME NEW o \in ReadsAs({"dontBother"}) PROVE FALSE
          OBVIOUS
        <5>1. o \in Offsets /\ o \in DOMAIN device.words /\ device.words[o] = {"dontBother"}
          BY DEF ReadsAs
        <5>2. o <= device.size
          BY <1>1, <5>1, Unmisled DEF Offsets
        <5>3. o = f
          BY <3>1, <3>7, <5>1, <5>2 DEF Unambiguous
        <5>4. "preCompiled" \in device.words[o]
          BY <3>7, <5>3
        <5> QED BY <5>1, <5>4
      <4>2. First(ReadsAs(extra)) = f /\ ReadsAs(extra) # {}
        BY <1>3, <3>4, FirstOfOne
      <4> QED BY <2>2, <3>7, <4>1, <4>2 DEF FlagsOffset
    <3> QED BY <3>1, <3>5, <3>6, <3>7 DEF Tried
  <2> QED BY <2>1, <2>2
<1>5. Members.jni = device.layout.jni
  BY <1>2, <1>3 DEF Members
<1>6. Members.code = device.layout.code
  <2>1. Members.code = CASE Seen.jni = Unset -> DefaultCode
                         [] Seen.jni # Unset /\ Version >= kO ->
                              AlignUp(Members.jni + PointerSize, PointerSize)
                         [] OTHER -> Members.jni + PointerSize
    BY DEF Members
  <2> QED
    BY <1>2, <1>3, <1>5, <2>1
<1>7. Members.flags = f
  BY <1>4 DEF Members
<1> QED
  BY <1>5, <1>6, <1>7

\* Only the search writes what was found.
LEMMA LocatedStep == Located /\ [StartNext]_startVars => Located'
<1> SUFFICES ASSUME Located, [StartNext]_startVars PROVE Located'
  OBVIOUS
<1>0. device' = device => (Unambiguous' <=> Unambiguous)
  BY DEF Unambiguous, Tried, Rulers, Offsets, Version
<1>1. CASE UNCHANGED <<device, found>>
  BY <1>0, <1>1 DEF Located
<1>2. ASSUME NEW t \in Threads, SearchRuntime(t) PROVE Located'
  <2>1. /\ device' = device
        /\ found'.flags = Members.flags
        /\ found'.jni = Members.jni
        /\ found'.code = Members.code
    BY <1>2 DEF SearchRuntime
  <2>2. CASE Unambiguous
    <3>1. /\ found'.flags = device'.layout.flags
          /\ found'.jni = device'.layout.jni
          /\ found'.code = device'.layout.code
      BY <2>1, <2>2, MembersAreTheLayout
    <3> QED BY <2>1, <3>1 DEF Located
  <2>3. CASE ~Unambiguous
    BY <1>0, <2>1, <2>3 DEF Located
  <2> QED
    BY <2>2, <2>3
<1>3. ASSUME NEW t \in Threads, InitStep(t) PROVE Located'
  BY <1>1, <1>2, <1>3 DEF InitStep, PatchPolicy, searched
<1>4. ASSUME NEW u \in Users, UserStep(u) PROVE UNCHANGED <<device, found>>
  BY <1>4 DEF UserStep, Begin, StartSection, SuspendAll, SuspendVM, ResumeVM, CheckInline,
        ReplaceUpdate, SetInline, DisableProfileSaver, KeepInit
<1>5. Runtime => UNCHANGED <<device, found>>
  BY DEF Runtime, Collect, CreateJit, BeginUpdate, EndUpdate, KeepInit
<1> QED
  BY <1>1, <1>3, <1>4, <1>5 DEF StartNext, startVars, searched

\* On every device on which no other word or pointer misleads the search, for any
\* size and layout, the offsets are those of the runtime, whatever an init0 that
\* failed has left behind.
THEOREM MembersAreWhereTheyAre == StartSpec => []MembersAreFound
<1>1. StartInit => Located
  BY DEF StartInit, Located, NothingFound
<1>2. Located => MembersAreFound
  <2> SUFFICES ASSUME Located, found.flags # Unset, Unambiguous
               PROVE  [flags |-> found.flags, jni |-> found.jni, code |-> found.code]
                        = device.layout
    BY DEF MembersAreFound
  <2>1. device.layout \in [flags : Nat, jni : Nat, code : Nat]
    BY Unmisled DEF Located
  <2> QED
    BY <2>1 DEF Located
<1> QED
  BY <1>1, <1>2, LocatedStep, PTL DEF StartSpec
=============================================================================
