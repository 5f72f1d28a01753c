---------------------------- MODULE ArtMethodHook ----------------------------
(***************************************************************************)
(* One ArtMethod from before it is hooked to calls of its backup:          *)
(* Pine.hookNewMethod and hook0 in the order of their steps (class         *)
(* initialization, compilation, installation, BackupFrom, AfterHook), and  *)
(* callBackupMethod with syncMethodInfo, against a runtime that goes on    *)
(* initializing, compiling and collecting.                                 *)
(*                                                                         *)
(* A method is installed by one thread (PineHook); how its trampoline gets *)
(* there is the subject of Trampolines.  A set of flags holds one name for *)
(* each bit: kSkipAccessChecks is "fast", and the bit of kCriticalNative   *)
(* is "critical", whatever it means for the method.                        *)
(***************************************************************************)
EXTENDS Integers

CONSTANTS
  Callers,
  Versions,          \* android versions, from 23 (M)
  Classes, NoClass,  \* where the declaring class may lie in memory
  Impls              \* functions registered for a native method

ASSUME VersionAssumption == Versions \subseteq Nat
ASSUME ClassAssumption == NoClass \notin Classes
ASSUME ImplAssumption == Impls \intersect {"none", "profile", "item", "iface"} = {}

VARIABLES
  setup,       \* the device, the method, and whether hook may initialize its class
  cls,         \* status of the declaring class: uninit, init, visible
  target, backup,    \* the two ArtMethods
  patched,     \* what kind of code the inline trampoline was written into
  jitInfo,     \* which ArtMethod the JIT's record of the compiled code names
  pc, inline, origin,    \* hookNewMethod and hook0, with isInlineHook and call_origin
  lostBy,      \* what has taken an installed method from its hook
  call,        \* per caller: where it is in callBackupMethod
  seenClass, seenImpl,   \* per caller: locals of syncMethodInfo
  decompile,   \* flags read and entry chosen by a decompile that is under way
  overlap      \* a change of the target fell into a call, and calls since overlap

hooking == <<patched, pc, inline, origin>>
calls == <<call, seenClass, seenImpl>>
vars == <<setup, cls, target, backup, patched, jitInfo, pc, inline, origin, lostBy,
          call, seenClass, seenImpl, overlap, decompile>>

kN == 24  kO == 26  kP == 28  kQ == 29  kR == 30  kS == 31

Kinds == {"java", "native", "proxy"}
Flags == {"public", "private", "static", "native", "ctor", "fast", "critical",
          "precompiled", "dontCompile", "fastInvoke"}
Entries == {"none", "stub", "bridge", "generic", "nterp", "oat", "jit", "proxy", "hook", "backup"}
Data == {"none", "profile", "item", "iface"} \union Impls
ArtMethods == [flags : SUBSET Flags, entry : Entries, interp : {"none", "toInterp", "toCompiled"},
               data : Data, class : Classes \union {NoClass}]
Setups == [version : Versions, kind : Kinds, static : BOOLEAN, canInit : BOOLEAN,
           suspends : BOOLEAN, visibility : BOOLEAN, linker : BOOLEAN]
Labels == {"start", "visible", "compile", "hook0", "install", "backup", "after",
           "hooked", "failed"}

Version == setup.version
Java == setup.kind = "java"
Native == setup.kind = "native"

NoDecompile == [flags |-> {}, bridge |-> "none", disableJit |-> FALSE]
Blank == [flags |-> {}, entry |-> "none", interp |-> "none", data |-> "none", class |-> NoClass]

\* kAccPreCompiled is the bit of kCriticalNative on R.
PreCompiled == IF Version = kR THEN "critical" ELSE "precompiled"

\* Entries a method has once its class is there: ART's choice.
OwnEntries ==
  CASE Java -> {"bridge", "oat"} \union (IF Version >= kS THEN {"nterp"} ELSE {})
    [] Native -> {"generic", "oat"}
    [] OTHER -> {"proxy"}

InitialFlags ==
  {{"public"} \union (IF setup.static THEN {"static"} ELSE {})
              \union (IF Native THEN {"native"} ELSE {}) \union extra :
     extra \in
       CASE Java -> {{}} \union (IF setup.static THEN {} ELSE {{"ctor"}})
                         \union (IF Version >= kR THEN {{PreCompiled, "dontCompile"}} ELSE {})
         [] Native -> {{}, {"fast"}} \union (IF setup.static /\ Version >= kO THEN {{"critical"}} ELSE {})
         [] OTHER -> {{}}}

Init ==
  /\ setup \in Setups
  /\ setup.kind = "proxy" => ~setup.static
  /\ (Version >= kR => setup.visibility) /\ (setup.visibility => Version >= kQ)
  /\ setup.linker => setup.visibility
  /\ ~setup.static => setup.canInit
  /\ cls \in IF ~setup.static THEN {"visible"}
             ELSE {"uninit", "visible"} \union (IF setup.visibility THEN {"init"} ELSE {})
  /\ \E flags \in InitialFlags, class \in Classes,
        entry \in IF cls = "visible" THEN OwnEntries ELSE {"stub"},
        data \in CASE Java -> {IF Version >= kS THEN "item" ELSE "none"}
                   [] Native -> Impls
                   [] OTHER -> {"iface"} :
       target = [flags |-> flags, entry |-> entry, data |-> data, class |-> class,
                 interp |-> IF Version >= kN THEN "none"
                            ELSE IF entry = "bridge" THEN "toInterp" ELSE "toCompiled"]
  /\ backup = Blank
  /\ patched = "none" /\ jitInfo = "none"
  /\ pc = "start" /\ inline = FALSE /\ origin = "none"
  /\ lostBy = "no"
  /\ call = [c \in Callers |-> "idle"]
  /\ seenClass = [c \in Callers |-> NoClass] /\ seenImpl = [c \in Callers |-> "none"]
  /\ overlap = FALSE
  /\ decompile = NoDecompile

\* The process is suspended by hook0, if the runtime can be.
Suspended == setup.suspends /\ pc \in {"install", "backup", "after"}
Installed == pc \in {"backup", "after", "hooked"}
LostIf(cause) == lostBy' = IF Installed THEN cause ELSE lostBy

-----------------------------------------------------------------------------
(* The runtime, as the comments in the code describe it *)

\* The declaring class becomes initialized, and visibly so where there is no
\* such difference.  FixupStaticTrampolines then resets the entry points.
Initialize(to) ==
  /\ cls' = IF setup.visibility THEN to ELSE "visible"
  /\ IF cls' = "visible" /\ setup.static
       THEN /\ \E e \in OwnEntries : target' = [target EXCEPT !.entry = e]
            /\ LostIf("fixup")
       ELSE UNCHANGED <<target, lostBy>>

InitClass ==
  /\ ~Suspended
  /\ \/ cls = "uninit" /\ Initialize("init")
     \/ cls = "init" /\ Initialize("visible")
  /\ UNCHANGED <<setup, backup, hooking, jitInfo, calls, overlap, decompile>>

\* The JIT compiler has compiled the target; until S it keeps a ProfilingInfo in data_.
Compiled ==
  /\ target' = [target EXCEPT !.entry = "jit", !.data = IF Version < kS THEN "profile" ELSE @]
  /\ jitInfo' = "target"

JitCompile ==
  /\ ~Suspended /\ Java /\ Version >= kN /\ cls = "visible"
  /\ "dontCompile" \notin target.flags
  /\ Compiled
  /\ UNCHANGED <<setup, cls, backup, hooking, lostBy, calls, overlap, decompile>>

\* Compiled code is collected when the ArtMethod in its record does not enter it.
JitCollect ==
  /\ ~Suspended
  /\ \/ jitInfo = "target" /\ target.entry # "jit"
     \/ jitInfo = "backup" /\ backup.entry # "jit"
  /\ jitInfo' = "freed"
  /\ UNCHANGED <<setup, cls, target, backup, hooking, lostBy, calls, overlap, decompile>>

Calling == \E c \in Callers : call[c] # "idle"

\* The collector moves the class and corrects the methods it knows: not the backup.
MoveClass ==
  /\ ~Suspended
  /\ \E class \in Classes \ {target.class} : target' = [target EXCEPT !.class = class]
  /\ overlap' = (overlap \/ Calling)
  /\ UNCHANGED <<setup, cls, backup, hooking, jitInfo, lostBy, calls, decompile>>

RegisterNatives ==
  /\ ~Suspended /\ Native
  /\ \E impl \in Impls \ {target.data} : target' = [target EXCEPT !.data = impl]
  /\ overlap' = (overlap \/ Calling)
  /\ UNCHANGED <<setup, cls, backup, hooking, jitInfo, lostBy, calls, decompile>>

\* Android 10 and 11: the interpreter remembers that it may invoke the method directly.
CacheFastInvoke ==
  /\ ~Suspended /\ Java /\ Version \in {kQ, kR}
  /\ target.entry = "bridge" /\ "native" \notin target.flags
  /\ target' = [target EXCEPT !.flags = @ \union {"fastInvoke"}]
  /\ UNCHANGED <<setup, cls, backup, hooking, jitInfo, lostBy, calls, overlap, decompile>>

-----------------------------------------------------------------------------
(* ArtMethod *)

InterpreterBridge(m) == IF "native" \in m.flags THEN "generic" ELSE "bridge"
IsCompiled(m) == m.entry # InterpreterBridge(m) /\ m.entry # "nterp"

\* The flags that keep a method from being compiled.
NonCompilable(flags) ==
  IF Version < kN THEN flags
  ELSE (IF Version >= kR THEN flags \ {PreCompiled} ELSE flags) \union {"dontCompile"}

\* Pine.decompile on another thread.  decompile0 is native code, which SuspendVM
\* does not stop: it reads the flags here and may write at any later time.
BeginDecompile ==
  /\ ~Suspended /\ setup.kind # "proxy" /\ decompile = NoDecompile
  /\ \E disableJit \in BOOLEAN :
       decompile' = [bridge |-> InterpreterBridge(target), disableJit |-> disableJit,
                     flags |-> IF disableJit THEN NonCompilable(target.flags) ELSE {}]
  /\ UNCHANGED <<setup, cls, target, backup, hooking, jitInfo, lostBy, calls, overlap>>

EndDecompile ==
  /\ decompile # NoDecompile
  /\ target' = [target EXCEPT
       !.flags = IF decompile.disableJit THEN decompile.flags ELSE @,
       !.entry = decompile.bridge,
       !.interp = IF Version < kN THEN "toInterp" ELSE @]
  /\ decompile' = NoDecompile
  /\ LostIf("decompile")
  /\ UNCHANGED <<setup, cls, backup, hooking, jitInfo, calls, overlap>>

-----------------------------------------------------------------------------
(* hookNewMethod *)

Goto(l) == pc' = l /\ UNCHANGED <<patched, inline, origin>>

\* resolve: an invocation with wrong arguments initializes the class, or throws.
Resolve ==
  /\ pc = "start"
  /\ IF setup.static /\ setup.canInit
       THEN \/ /\ IF cls = "uninit" THEN Initialize("init") ELSE UNCHANGED <<cls, target, lostBy>>
               /\ Goto("visible")
            \/ cls = "uninit" /\ Goto("failed") /\ UNCHANGED <<cls, target, lostBy>>
       ELSE Goto("compile") /\ UNCHANGED <<cls, target, lostBy>>
  /\ UNCHANGED <<setup, backup, jitInfo, calls, overlap, decompile>>

\* Fault: classes are left as they are.
MakeNothingVisible ==
  /\ pc = "visible" /\ Goto("compile")
  /\ UNCHANGED <<setup, cls, target, backup, jitInfo, lostBy, calls, overlap, decompile>>

\* makeClassesVisiblyInitialized, which does nothing without a class linker.
MakeVisible ==
  /\ pc = "visible"
  /\ IF Version >= kQ /\ setup.linker /\ cls = "init"
       THEN Initialize("visible") ELSE UNCHANGED <<cls, target, lostBy>>
  /\ Goto("compile")
  /\ UNCHANGED <<setup, backup, jitInfo, calls, overlap, decompile>>

\* A replacement hook by mode, for want of compiled code, or for a method of a
\* kind that has none; an inline hook of code that is there or that compile0 makes.
TryCompile ==
  /\ pc = "compile"
  /\ pc' = "hook0"
  /\ \/ inline' = FALSE /\ UNCHANGED <<target, jitInfo>>
     \/ Java /\ IsCompiled(target) /\ inline' = TRUE /\ UNCHANGED <<target, jitInfo>>
     \/ /\ Java /\ ~IsCompiled(target)
        /\ kN <= Version /\ Version < kR /\ "dontCompile" \notin target.flags
        /\ Compiled /\ inline' = TRUE
  /\ UNCHANGED <<setup, cls, backup, patched, origin, lostBy, calls, overlap, decompile>>

-----------------------------------------------------------------------------
(* hook0 *)

\* CannotSafeInlineHook, the memory for the backup, and SuspendVM.
BeginHook0 ==
  /\ pc = "hook0"
  /\ \/ \E safe \in BOOLEAN : inline' = (inline /\ safe) /\ pc' = "install"
     \/ pc' = "failed" /\ UNCHANGED inline
  /\ UNCHANGED <<setup, cls, target, backup, patched, origin, jitInfo, lostBy, calls, overlap, decompile>>

\* The installers as Trampolines describes them.
Install ==
  /\ pc = "install"
  /\ \/ /\ pc' = "backup"
        /\ IF inline
             THEN origin' = "backup" /\ patched' = target.entry /\ UNCHANGED target
             ELSE /\ origin' = target.entry
                  /\ target' = [target EXCEPT !.entry = "hook"]
                  /\ UNCHANGED patched
     \/ pc' = "failed" /\ UNCHANGED <<target, patched, origin>>
  /\ UNCHANGED <<setup, cls, backup, inline, jitInfo, lostBy, calls, overlap, decompile>>

\* A backup is invoked like a direct method, and never compiled.
BackupFlags ==
  LET flags == NonCompilable(target.flags)
  IN (IF "static" \in flags THEN flags ELSE (flags \ {"public"}) \union {"private"}) \ {"ctor"}

\* What ArtMethod::CopyFrom leaves of data_, and memcpy where there is no CopyFrom.
Copies == {target.data} \union
          (IF Version >= kO /\ ~(Java /\ Version >= kS) THEN {"none"} ELSE {})

\* Until S data_ refers to the ProfilingInfo, which may hold the code.
Cleared(data) == IF Version < kS THEN "none" ELSE data

\* Fault: the JIT is thought to begin with O.
ClearsEntryFromO == Version >= kO /\ Java /\ ~inline

\* The method is left to the interpreter if the JIT's records cannot be moved.
ClearsEntry == Version >= kN /\ Java /\ ~inline

\* BackupFrom: with the JIT's records moved to the backup, with the references to
\* them cleared, or with the entry that calls the original.
BackupFrom ==
  /\ pc = "backup"
  /\ \E copy \in Copies, moves \in BOOLEAN :
       LET base == [target EXCEPT !.flags = BackupFlags, !.data = copy]
           kept == [base EXCEPT
                      !.entry = origin,
                      !.data = IF ~Java /\ Version >= kO THEN target.data ELSE @]
       IN IF moves
            THEN /\ Version >= kO /\ setup.kind # "proxy"
                 /\ backup' = IF target.data = "profile" THEN [kept EXCEPT !.data = "profile"] ELSE kept
                 /\ target' = IF target.data = "profile" THEN [target EXCEPT !.data = "none"] ELSE target
                 /\ jitInfo' = IF jitInfo = "target" THEN "backup" ELSE jitInfo
            ELSE /\ backup' = IF ClearsEntry
                                THEN [base EXCEPT !.entry = "bridge", !.data = Cleared(@)]
                                ELSE kept
                 /\ UNCHANGED <<target, jitInfo>>
  /\ pc' = "after" /\ origin' = "none" /\ UNCHANGED <<patched, inline>>
  /\ UNCHANGED <<setup, cls, lostBy, calls, overlap, decompile>>

\* Flags of the target: it is not compiled, and in a debuggable process its
\* entry is not ignored; not fast, and not critical, if it is or seems native.
HookedFlags(debuggable) ==
  LET flags == NonCompilable(target.flags)
                 \union (IF Version >= kO /\ ~inline /\ debuggable /\ Java THEN {"native"} ELSE {})
      fresh == IF Version >= kQ THEN flags \ {"fastInvoke"} ELSE flags
  IN IF "native" \notin fresh THEN fresh
     ELSE fresh \ (IF Version >= kP THEN {"fast", "critical"} ELSE {"fast"})

\* AfterHook and ResumeVM.  The backup is published.
AfterHook ==
  /\ pc = "after"
  /\ \E debuggable \in BOOLEAN :
       target' = [target EXCEPT !.flags = HookedFlags(debuggable),
                                !.interp = IF Version < kN THEN "toCompiled" ELSE @]
  /\ Goto("hooked")
  /\ UNCHANGED <<setup, cls, backup, jitInfo, lostBy, calls, overlap, decompile>>

-----------------------------------------------------------------------------
(* callBackupMethod *)

\* syncMethodInfo reads the declaring class of the target.
ReadClass(c) ==
  /\ pc = "hooked" /\ call[c] = "idle"
  /\ seenClass' = [seenClass EXCEPT ![c] = target.class]
  /\ call' = [call EXCEPT ![c] = "class"]
  /\ UNCHANGED <<setup, cls, target, backup, hooking, jitInfo, lostBy, seenImpl, overlap, decompile>>

\* If m is native, the function that is registered now is read.
ReadImpl(c, m) ==
  IF "native" \in m.flags
    THEN /\ seenImpl' = [seenImpl EXCEPT ![c] = target.data]
         /\ call' = [call EXCEPT ![c] = "native"]
    ELSE /\ call' = [call EXCEPT ![c] = "invoke"]
         /\ UNCHANGED seenImpl

\* Fault: a moved class is noticed only.
WriteClassNowhere(c) ==
  /\ call[c] = "class"
  /\ seenClass' = [seenClass EXCEPT ![c] = NoClass]
  /\ ReadImpl(c, backup)
  /\ UNCHANGED <<setup, cls, target, backup, hooking, jitInfo, lostBy, overlap, decompile>>

\* Fault: the target is asked whether it is native.
WriteClassByTarget(c) ==
  /\ call[c] = "class"
  /\ backup' = [backup EXCEPT !.class = seenClass[c]]
  /\ seenClass' = [seenClass EXCEPT ![c] = NoClass]
  /\ ReadImpl(c, target)
  /\ UNCHANGED <<setup, cls, target, hooking, jitInfo, lostBy, overlap, decompile>>

\* It writes the class to the backup, and asks this whether the method is native.
WriteClass(c) ==
  /\ call[c] = "class"
  /\ backup' = [backup EXCEPT !.class = seenClass[c]]
  /\ seenClass' = [seenClass EXCEPT ![c] = NoClass]
  /\ ReadImpl(c, backup)
  /\ UNCHANGED <<setup, cls, target, hooking, jitInfo, lostBy, overlap, decompile>>

WriteImpl(c) ==
  /\ call[c] = "native"
  /\ backup' = [backup EXCEPT !.data = seenImpl[c]]
  /\ seenImpl' = [seenImpl EXCEPT ![c] = "none"]
  /\ call' = [call EXCEPT ![c] = "invoke"]
  /\ UNCHANGED <<setup, cls, target, hooking, jitInfo, lostBy, seenClass, overlap, decompile>>

\* backup.invoke, from which the call returns.
Invoke(c) ==
  /\ call[c] = "invoke"
  /\ call' = [call EXCEPT ![c] = "idle"]
  /\ overlap' = (overlap /\ \E d \in Callers \ {c} : call[d] # "idle")
  /\ UNCHANGED <<setup, cls, target, backup, hooking, jitInfo, lostBy, seenClass, seenImpl, decompile>>

Runtime == InitClass \/ JitCompile \/ JitCollect \/ MoveClass \/ RegisterNatives \/ CacheFastInvoke
Hook == Resolve \/ MakeVisible \/ TryCompile \/ BeginHook0 \/ Install \/ BackupFrom \/ AfterHook

Next ==
  \/ Runtime
  \/ Hook
  \/ BeginDecompile \/ EndDecompile
  \/ \E c \in Callers : ReadClass(c) \/ WriteClass(c) \/ WriteImpl(c) \/ Invoke(c)

Spec == Init /\ [][Next]_vars

-----------------------------------------------------------------------------
(* Properties *)

\* Every variable has its type; the entry of a proxy method is fixed until it is
\* hooked, and the fields of a hook are set when its steps say so.
TypeOK ==
  /\ setup \in Setups
  /\ cls \in {"uninit", "init", "visible"}
  /\ target \in ArtMethods /\ backup \in ArtMethods
  /\ patched \in Entries /\ origin \in Entries
  /\ jitInfo \in {"none", "target", "backup", "freed"}
  /\ pc \in Labels /\ inline \in BOOLEAN
  /\ lostBy \in {"no", "fixup", "decompile"}
  /\ call \in [Callers -> {"idle", "class", "native", "invoke"}]
  /\ seenClass \in [Callers -> Classes \union {NoClass}]
  /\ seenImpl \in [Callers -> Data]
  /\ overlap \in BOOLEAN
  /\ decompile \in [flags : SUBSET Flags, bridge : Entries, disableJit : BOOLEAN]
  /\ setup.kind = "proxy" => target.entry \in {"proxy", "hook"}
  /\ Calling => pc = "hooked"

\* Whatever AfterHook does to the target, and the runtime afterwards, the backup
\* stays the original method: invoked directly, native only if the method is,
\* entering the original code and never the hook, with the data_ its kind needs,
\* and sharing no ProfilingInfo that would lead the interpreter to freed code.
BackupIsOriginal ==
  pc \in {"after", "hooked"} =>
    /\ "native" \in backup.flags <=> Native
    /\ "static" \in backup.flags <=> setup.static
    /\ ~setup.static => "private" \in backup.flags /\ "public" \notin backup.flags
    /\ backup.entry \notin {"none", "hook"}
    /\ inline <=> backup.entry = "backup"
    /\ Native => backup.data \in Impls
    /\ setup.kind = "proxy" => backup.data = "iface"
    /\ Java /\ Version >= kS => backup.data = "item"
    /\ setup.suspends /\ backup.entry = "bridge" =>
         ~(backup.data = "profile" /\ target.data = "profile")

\* The class cannot become visibly initialized any more when hook0 runs.
ClassSettled == setup.static => setup.canInit /\ (setup.linker \/ ~setup.visibility)

\* Compiled code, the interpreter and its fast path all come to the trampoline,
\* and the trampoline is not entered as a fast native method, which stops the
\* collector.
Reaches ==
  /\ target.entry = IF inline THEN patched ELSE "hook"
  /\ target.interp # "toInterp"
  /\ "fastInvoke" \notin target.flags
  /\ "native" \in target.flags => "fast" \notin target.flags

PatchedCode == inline => patched \in {"oat", "jit"}

\* An installed method stays hooked through compilation, collection and class
\* initialization; only decompile takes it back, and the fixup of a static method
\* whose class hook was told not to initialize, or could not.
HookStays ==
  pc = "hooked" /\ setup.suspends /\ PatchedCode =>
    \/ Reaches
    \/ lostBy = "decompile"
    \/ lostBy = "fixup" /\ ~ClassSettled

\* The backup, and the trampoline that goes on in patched code, never lead into
\* code that the JIT has collected: except for an inline hook whose records were
\* moved to a backup that does not enter the code (from O), and after decompile.
CodeStaysAlive ==
  pc = "hooked" /\ setup.suspends /\ jitInfo = "freed" =>
    /\ backup.entry # "jit"
    /\ inline /\ patched = "jit" => Version >= kO \/ lostBy # "no"

\* A call of the backup uses the class and the registered function of the moment,
\* though the runtime corrects neither in the backup: except for calls that a
\* change falls into and those that overlap with such a call.
SyncedCallsAreFresh ==
  ~overlap => \A c \in Callers : call[c] = "invoke" =>
    backup.class = target.class /\ (Native => backup.data = target.data)

\* An inline trampoline is written only into compiled code of the method.
PatchIsOwn == Installed => PatchedCode
=============================================================================
