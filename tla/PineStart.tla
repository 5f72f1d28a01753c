----------------------------- MODULE PineStart -----------------------------
(***************************************************************************)
(* What init0 finds in the runtime it is loaded into, and what the library *)
(* later does with it: suspend the process around a hook, keep the JIT     *)
(* from inlining, stop the profile saver.                                  *)
(*                                                                         *)
(* Each member of Environments is a device and the calls its application   *)
(* makes: its version, the symbols its libraries do not export, what the   *)
(* words of its ArtMethod read as, which compiler option is at the offset  *)
(* the library expects inline_max_code_units at.  The steps of PineInit    *)
(* stay as they are: init0 of pine.cpp becomes the search as well.         *)
(***************************************************************************)
EXTENDS PineInit, Integers

CONSTANTS Users, Environments

\* The library is built for 8.1 and later; its code for versions before N is
\* left out.
ASSUME StartAssumption ==
  /\ Users # {} /\ NoThread \notin Users
  /\ \A e \in Environments :
       /\ e.version >= 24
       /\ e.names \in {"inline", "other"}
       /\ e.options \in [{"inline", "other"} -> {"normal", "odd"}]

VARIABLES
  device,      \* the member of Environments this process runs on
  found,       \* the native statics that init0 sets
  patched,     \* functions of libart that jump to the library
  ended,       \* the process is aborted
  suspended,   \* the user for which the runtime is suspended
  gc,          \* "idle", "running", or "section": kept out by a critical section
  jit,         \* ART's JIT compiler: [on, options, update], see NoJit
  updating,    \* ART is inside the jit_update_options_ it has read
  overtaken,   \* history: such an update began before DisableInline replaced it
  disabled,    \* history: disableJitInline has returned true
  at           \* per user: what it does

searched == <<device, found, patched, ended>>
running == <<suspended, gc>>
compiler == <<jit, updating, overtaken, disabled>>
startVars == <<vars, searched, running, compiler, at>>

kN == 24  kO == 26  kOMr1 == 27  kP == 28  kQ == 29  kR == 30  kS == 31  kT == 33

Unset == -1

\* The options are inline_max_code_units and another one that the library may take
\* for it; update is the function that jit_update_options_ points to.
NoJit == [on |-> FALSE, options |-> [o \in {"inline", "other"} |-> "none"], update |-> "none"]
NothingFound ==
  [suspend |-> "none", resume |-> "none", gc |-> FALSE, linker |-> FALSE, cache |-> FALSE,
   compiler |-> FALSE, update |-> FALSE, bridge |-> "none", dontBother |-> "none",
   flags |-> Unset, jni |-> Unset, code |-> Unset]

Version == device.version
Has(symbol) == symbol \notin device.missing
PointerSize == IF device.wide THEN 8 ELSE 4

StartInit ==
  /\ Init
  /\ device \in Environments
  /\ found = NothingFound /\ patched = {} /\ ended = FALSE
  /\ suspended = NoThread /\ gc = "idle"
  /\ jit = NoJit /\ updating = FALSE /\ overtaken = FALSE /\ disabled = FALSE
  /\ at = [u \in Users |-> "idle"]

-----------------------------------------------------------------------------
(* Android::Init *)

\* Fault: a function without its counterpart is kept.
SuspendApiUnpaired ==
  LET half(one) == IF Has(one) THEN "all" ELSE "none" IN
  [suspend |-> half("suspendAll"), resume |-> half("resumeAll"),
   gc |-> Has("startGc") /\ Has("endGc")]

\* The functions that suspend and resume the runtime, both or none, and from R
\* the ones of the critical section that keeps the collector out.
SuspendApi ==
  LET kind == CASE Version >= kR /\ Has("suspendAll") /\ Has("resumeAll") -> "all"
                [] Version < kR /\ Has("suspendVm") /\ Has("resumeVm") -> "vm"
                [] OTHER -> "none"
  IN [suspend |-> kind, resume |-> kind,
      gc |-> kind = "all" /\ Has("startGc") /\ Has("endGc")]

\* NativeHookNoBackup overwrites the functions that are there; when mprotect
\* refuses it is logged and nothing comes of it.
Patch(functions) ==
  patched' = patched \union IF device.unprotects THEN {f \in functions : Has(f)} ELSE {}

\* DisableHiddenApiPolicy for the domain of the application.
PolicyFunctions ==
  CASE Version >= kQ -> {"denyField", "denyMethod"}
    [] Version = kP -> {"actionField", "actionMethod"}
    [] OTHER -> {}

\* InitMembersFromRuntime goes on only where it knows the Runtime.
KnowsRuntime == Version >= kQ /\ Has("runtime")

\* OffsetOfJavaVm has no offset past T, unless the library has the small table
\* of references.
Aborts == KnowsRuntime /\ Version > kT /\ ~Has("smallIrt")

FindsJavaVM == KnowsRuntime /\ device.javaVm

\* jit_code_cache_: from the Runtime, on O and P from a ProfileSaver that runs.
FindsCodeCache ==
  /\ Has("moveObsolete")
  /\ \/ FindsJavaVM
     \/ Version \in kO..kP /\ Has("profileSaver") /\ device.saver

\* The compiler of the process; on Q also the function that updates its options.
JitStatics == [compiler |-> Version <= kQ /\ Has("compiler"),
               update |-> Version = kQ /\ Has("update")]

\* art_quick_to_interpreter_bridge, under the name YunOS gave it, or the entry of
\* an abstract method.
Bridge == CASE Has("interpreterBridge") -> "art"
            [] Has("aocBridge") -> "aoc"
            [] OTHER -> "ofAbstractMethod"

-----------------------------------------------------------------------------
(* ArtMethod::InitMembers *)

\* m1 is read at every even offset below its size, the distance of m1 and m2.
Offsets == {o \in 0..(device.size - 1) : o % 2 = 0}
Turns == (device.size + 1) \div 2

\* Where a word equals the expected flags with exactly these added, where a pointer
\* equals Ruler_m1.
ReadsAs(extra) == {o \in Offsets \intersect DOMAIN device.words : device.words[o] = extra}
Rulers == Offsets \intersect device.rulers

\* The flags added to the expected ones, as they are tried one after the other.
Tried == {{}, {"dontBother"}}
           \union IF Version >= kR THEN {{"dontBother", "preCompiled"}} ELSE {}

DefaultFlags == 4
DefaultJni == CASE Version >= kS -> 16
                [] Version \in kP..kR -> IF device.wide THEN 24 ELSE 20
                [] Version \in kO..kOMr1 -> IF device.wide THEN 32 ELSE 24
                [] OTHER -> IF device.wide THEN 40 ELSE 28
DefaultCode == CASE Version >= kS -> 24
                 [] Version \in kP..kR -> IF device.wide THEN 32 ELSE 24
                 [] Version \in kO..kOMr1 -> IF device.wide THEN 40 ELSE 28
                 [] OTHER -> IF device.wide THEN 48 ELSE 32

AlignUp(n, size) == size * ((n + size - 1) \div size)

\* ART keeps the entry point right behind the native function, aligned as of O.
ASSUME LayoutAssumption ==
  \A e \in Environments :
    LET size == IF e.wide THEN 8 ELSE 4
        next == e.layout.jni + size
    IN /\ e.size \in Nat
       /\ e.layout \in [flags : Nat, jni : Nat, code : Nat]
       /\ e.layout.code = IF e.version >= kO THEN AlignUp(next, size) ELSE next

\* Fault: the loop does not stop when it has seen both.
NeverDone(seen) == FALSE

Done(seen) == seen.flags # Unset /\ seen.jni # Unset

Look(seen, offset) ==
  [flags |-> IF offset \in ReadsAs({}) THEN offset ELSE seen.flags,
   jni |-> IF offset \in Rulers \ ReadsAs({}) THEN offset ELSE seen.jni]

\* The loop over m1: a later match replaces an earlier one until both members have
\* one.  It begins with what an init0 that failed later on has left, and asks
\* whether it is done after it has looked.
Turn(before, k) == IF k > 1 /\ Done(before) THEN before ELSE Look(before, 2 * (k - 1))

Seen ==
  LET turn[k \in 0..Turns] ==
        IF k = 0 THEN [flags |-> found.flags, jni |-> found.jni] ELSE Turn(turn[k - 1], k)
  IN turn[Turns]

\* FindOffset: the first match, or the next flags to try, or the default.
First(offsets) == CHOOSE o \in offsets : \A other \in offsets : o <= other

FlagsOffset ==
  CASE Seen.flags # Unset -> Seen.flags
    [] Seen.flags = Unset /\ ReadsAs({"dontBother"}) # {} -> First(ReadsAs({"dontBother"}))
    [] /\ Seen.flags = Unset /\ ReadsAs({"dontBother"}) = {}
       /\ Version >= kR /\ ReadsAs({"dontBother", "preCompiled"}) # {} ->
         First(ReadsAs({"dontBother", "preCompiled"}))
    [] OTHER -> DefaultFlags

\* The members of m1 by their values: the access flags, Ruler_m1 as the native
\* function, and after it the entry point.
Members ==
  LET jni == IF Seen.jni # Unset THEN Seen.jni ELSE DefaultJni
      next == jni + PointerSize
  IN [flags |-> FlagsOffset,
      jni |-> jni,
      code |-> CASE Seen.jni = Unset -> DefaultCode
                 [] Seen.jni # Unset /\ Version >= kO -> AlignUp(next, PointerSize)
                 [] OTHER -> next]

\* kAccCompileDontBother: the bit of 8.1 also where 8.0 turns out to be 8.1.
DontBother ==
  IF \/ Version >= kOMr1
     \/ Version = kO /\ Has("throwError") /\ device.isMr1
  THEN "OMr1" ELSE "N"

\* Init0 of PineInit together with what it does to the runtime.  GetJavaVM and
\* the classes of the library are there.
SearchRuntime(t) ==
  /\ Init0(t)
  /\ ended' = Aborts
  /\ found' = [suspend |-> SuspendApi.suspend, resume |-> SuspendApi.resume, gc |-> SuspendApi.gc,
               linker |-> FindsJavaVM /\ Has("makeVisible"), cache |-> FindsCodeCache,
               compiler |-> JitStatics.compiler, update |-> JitStatics.update,
               bridge |-> Bridge, dontBother |-> DontBother,
               flags |-> Members.flags, jni |-> Members.jni, code |-> Members.code]
  /\ Patch(IF read[t].policy THEN PolicyFunctions ELSE {})
  /\ UNCHANGED <<device, running, compiler, at>>

\* disableHiddenApiPolicy0 of an initialized library.
PatchPolicy(t) ==
  /\ SetPolicyNative(t)
  /\ Patch(IF op[t].arg THEN PolicyFunctions ELSE {})
  /\ UNCHANGED <<device, found, ended, running, compiler, at>>

\* A thread that initializes or changes settings; the runtime must let it run.
InitStep(t) ==
  /\ suspended = NoThread
  /\ \/ SearchRuntime(t) \/ PatchPolicy(t)
     \/ /\ pc[t] \notin {"init0", "policyNative"}
        /\ Step(t) \/ \E o \in Ops \intersect device.calls : Start(t, o)
        /\ UNCHANGED <<searched, running, compiler, at>>

-----------------------------------------------------------------------------
(* hook0: ScopedSuspendVM *)

Goes(u, l) == at' = [at EXCEPT ![u] = l]
LetRun(u) == suspended \in {NoThread, u}
KeepInit == UNCHANGED <<vars, device, found, ended>>

\* The operations check that the library is initialized.
Begin(u) ==
  /\ at[u] = "idle" /\ LetRun(u) /\ initialized
  /\ \E l \in {"hook", "inline", "saver"} : Goes(u, l)
  /\ KeepInit /\ UNCHANGED <<patched, running, compiler>>

\* Fault: the section is entered while the collector runs.
StartSectionAnyway(u) ==
  /\ at[u] = "hook" /\ LetRun(u)
  /\ found.suspend = "all"
  /\ gc' = IF found.gc /\ gc = "idle" THEN "section" ELSE gc
  /\ Goes(u, "suspend")
  /\ KeepInit /\ UNCHANGED <<patched, suspended, compiler>>

\* ScopedGCCriticalSection: the collector ends its work and starts none.
StartSection(u) ==
  /\ at[u] = "hook" /\ LetRun(u)
  /\ found.suspend = "all"
  /\ \/ ~found.gc /\ UNCHANGED gc
     \/ found.gc /\ gc = "idle" /\ gc' = "section"
  /\ Goes(u, "suspend")
  /\ KeepInit /\ UNCHANGED <<patched, suspended, compiler>>

\* suspend_all returns when every other thread is suspended; the section ends then.
SuspendAll(u) ==
  /\ at[u] = "suspend" /\ LetRun(u)
  /\ suspended' = u
  /\ gc' = IF gc = "section" THEN "idle" ELSE gc
  /\ Goes(u, "patch")
  /\ KeepInit /\ UNCHANGED <<patched, compiler>>

\* Dbg::SuspendVM, or no way to suspend.
SuspendVM(u) ==
  /\ at[u] = "hook" /\ LetRun(u)
  /\ found.suspend # "all"
  /\ suspended' = IF found.suspend = "vm" THEN u ELSE suspended
  /\ Goes(u, "patch")
  /\ KeepInit /\ UNCHANGED <<patched, gc, compiler>>

ResumeVM(u) ==
  /\ at[u] = "patch" /\ LetRun(u)
  /\ suspended' = IF found.resume = "none" THEN suspended ELSE NoThread
  /\ Goes(u, "idle")
  /\ KeepInit /\ UNCHANGED <<patched, gc, compiler>>

-----------------------------------------------------------------------------
(* disableJitInline, disableProfileSaver *)

\* DisableInline looks at the compiler of the process and at the value where it
\* expects inline_max_code_units, and returns false if the one is not there or the
\* other exceeds 1024.  "FIXME Offset for inline_max_code_units_ seems to be
\* incorrect": what it looks at may be another option, and pass.
CheckInline(u) ==
  /\ at[u] = "inline" /\ LetRun(u)
  /\ Goes(u, IF found.compiler /\ jit.on /\ jit.options[device.names] # "odd"
             THEN "replace" ELSE "idle")
  /\ KeepInit /\ UNCHANGED <<patched, running, compiler>>

\* Fault: ART's function stays.
ReplaceNothing(u) ==
  /\ at[u] = "replace" /\ LetRun(u)
  /\ Goes(u, "zero")
  /\ KeepInit /\ UNCHANGED <<patched, running, compiler>>

\* On Q ART may set the options again: its function is replaced first, where the
\* pointer is found and points to one.
ReplaceUpdate(u) ==
  /\ at[u] = "replace" /\ LetRun(u)
  /\ jit' = IF found.update /\ jit.update # "none" THEN [jit EXCEPT !.update = "fake"] ELSE jit
  /\ overtaken' = (overtaken \/ updating)
  /\ Goes(u, "zero")
  /\ KeepInit /\ UNCHANGED <<patched, running, updating, disabled>>

\* The option at the offset is set to zero, whichever it is, and true returned.
SetInline(u) ==
  /\ at[u] = "zero" /\ LetRun(u)
  /\ jit' = [jit EXCEPT !.options[device.names] = "zero"]
  /\ disabled' = TRUE
  /\ Goes(u, "idle")
  /\ KeepInit /\ UNCHANGED <<patched, running, updating, overtaken>>

\* DisableProfileSaver returns true when ProcessProfilingInfo was found, whether
\* it could be overwritten or not.
DisableProfileSaver(u) ==
  /\ at[u] = "saver" /\ LetRun(u)
  /\ Patch({"processProfilingInfo"})
  /\ Goes(u, "idle")
  /\ KeepInit /\ UNCHANGED <<running, compiler>>

UserStep(u) ==
  \/ Begin(u) \/ StartSection(u) \/ SuspendAll(u) \/ SuspendVM(u) \/ ResumeVM(u)
  \/ CheckInline(u) \/ ReplaceUpdate(u) \/ SetInline(u) \/ DisableProfileSaver(u)

-----------------------------------------------------------------------------
(* The runtime *)

Collect ==
  /\ suspended = NoThread
  /\ \/ gc = "idle" /\ gc' = "running"
     \/ gc = "running" /\ gc' = "idle"
  /\ KeepInit /\ UNCHANGED <<patched, suspended, compiler, at>>

\* ART creates its compiler; a vendor's may have other options, or no function that
\* updates them.
CreateJit ==
  /\ suspended = NoThread
  /\ ~jit.on
  /\ jit' = [on |-> TRUE, options |-> device.options,
             update |-> IF Version = kQ /\ device.updates THEN "art" ELSE "none"]
  /\ KeepInit /\ UNCHANGED <<patched, running, updating, overtaken, disabled, at>>

\* ART calls the function that jit_update_options_ holds; the library's does nothing.
BeginUpdate ==
  /\ suspended = NoThread
  /\ jit.update = "art" /\ ~updating
  /\ updating' = TRUE
  /\ KeepInit /\ UNCHANGED <<patched, running, jit, overtaken, disabled, at>>

EndUpdate ==
  /\ suspended = NoThread
  /\ updating
  /\ updating' = FALSE
  /\ jit' = [jit EXCEPT !.options = device.options]
  /\ KeepInit /\ UNCHANGED <<patched, running, overtaken, disabled, at>>

Runtime == Collect \/ CreateJit \/ BeginUpdate \/ EndUpdate

StartNext ==
  /\ ~ended
  /\ \/ \E t \in Threads : InitStep(t)
     \/ \E u \in Users : UserStep(u)
     \/ Runtime

StartSpec == StartInit /\ [][StartNext]_startVars

-----------------------------------------------------------------------------
(* Properties *)

\* The runtime is suspended only while the user that suspended it redirects a
\* method, whichever half of the API a library lacks: nothing stays suspended.
SuspendedWhilePatching ==
  suspended # NoThread => at[suspended] = "patch"

\* "Avoid a deadlock between GC and debugger where GC gets suspended during GC":
\* with the critical section no collection is under way in a suspended runtime.
NoCollectionIsSuspended ==
  suspended # NoThread /\ found.gc => gc # "running"

\* Where the offset names inline_max_code_units, nothing is inlined after
\* disableJitInline returned true, unless ART's update of the options has no symbol
\* or ART was inside it just then.
InlineStaysOff ==
  disabled /\ device.names = "inline" /\ ~overtaken /\ (Version = kQ => Has("update"))
    => jit.options["inline"] = "zero"

\* The words of m1 that the search looks at before it stops do not mislead it: up to
\* the later of the two members, or everywhere when the flags are not the expected
\* ones, no other word reads as the flags, nor as flags that are tried before them,
\* and no other pointer is the native function.
Unambiguous ==
  LET f == device.layout.flags
      j == device.layout.jni
      extra == device.words[f]
      stop == IF extra # {} THEN device.size ELSE IF f < j THEN j ELSE f
  IN /\ f \in Offsets \intersect DOMAIN device.words /\ extra \in Tried
     /\ j \in Rulers \ {f}
     /\ \A o \in Offsets : o <= stop =>
          /\ o \in DOMAIN device.words /\ device.words[o] \subseteq extra => o = f
          /\ o \in Rulers => o = j

\* Where nothing misleads it, the search finds the members of ArtMethod where the
\* runtime keeps them, whatever stands behind them and also when an earlier init0 has
\* failed after its search.
MembersAreFound ==
  found.flags # Unset /\ Unambiguous =>
    [flags |-> found.flags, jni |-> found.jni, code |-> found.code] = device.layout

(* A statement of the documentation that the code does not keep *)

\* disableJitInline: "@return true if successfully disabled jit inlining".  The same
\* comment says "DOES NOT WORK FOR NOW": it does not where the offset names another
\* option, where ART's update cannot be replaced, and where it is under way.
InliningIsDisabled == disabled => jit.options["inline"] = "zero"
=============================================================================
