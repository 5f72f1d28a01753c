------------------------ MODULE ArtMethodHookProofs ------------------------
(***************************************************************************)
(* Proofs about ArtMethodHook, for any number of callers, any set of       *)
(* versions, and any places of classes and functions.                      *)
(***************************************************************************)
EXTENDS ArtMethodHook, TLAPS

USE DEF kN, kO, kP, kQ, kR, kS

\* The class of an instance method is of no concern; one that is settled is
\* visibly initialized when the method is compiled or hooked.
ClassInv ==
  /\ ~setup.static => cls = "visible"
  /\ cls = "init" => setup.visibility
  /\ setup.linker => setup.visibility
  /\ setup.visibility => Version >= kQ
  /\ pc = "visible" => setup.static /\ setup.canInit /\ cls # "uninit"
  /\ ClassSettled /\ pc \notin {"start", "visible", "failed"} => cls = "visible"

NativeFlag(flags) == "native" \in flags <=> Native
StaticFlag(flags) == "static" \in flags <=> setup.static

\* What the flags of the target say, and those that a decompile is about to write.
FlagsInv ==
  /\ StaticFlag(target.flags)
  /\ pc # "hooked" => NativeFlag(target.flags)
  /\ pc = "hooked" /\ Version >= kN => "dontCompile" \in target.flags
  /\ "fastInvoke" \in target.flags => Version \in {kQ, kR}
  /\ decompile # NoDecompile =>
       setup.kind # "proxy" /\ decompile.bridge \in {"bridge", "generic"}
  /\ decompile.disableJit =>
       /\ StaticFlag(decompile.flags)
       /\ pc # "hooked" => NativeFlag(decompile.flags)
       /\ Version >= kN => "dontCompile" \in decompile.flags
       /\ "fastInvoke" \in decompile.flags => Version \in {kQ, kR}

Original(entry) == entry \notin {"none", "hook", "backup"}

\* Entries and data_ of the target, and the entry its installer returned.
EntryInv ==
  /\ target.entry \notin {"none", "backup"}
  /\ ~Installed => Original(target.entry)
  /\ pc = "backup" => IF inline THEN origin = "backup" ELSE Original(origin)
  /\ Native => target.data \in Impls
  /\ setup.kind = "proxy" => target.data = "iface"
  /\ Java /\ Version >= kS => target.data = "item"
  /\ target.data = "profile" \/ target.entry = "jit" => Java /\ Version >= kN
  /\ target.data = "profile" => Version < kS
  /\ pc = "backup" /\ origin = "jit" => Java /\ Version >= kN
  /\ Version >= kN => target.interp = "none"

\* Where compiled code is still entered, the JIT's record names the ArtMethod
\* that enters it.
JitInv ==
  /\ pc \notin {"after", "hooked"} /\ target.entry = "jit" => jitInfo = "target"
  /\ setup.suspends =>
       /\ pc = "backup" /\ origin = "jit" => jitInfo = "target"
       /\ pc \in {"after", "hooked"} /\ backup.entry = "jit" => jitInfo = "backup"
       /\ Installed /\ inline /\ patched = "jit" /\ Version < kO =>
            lostBy # "no" \/ (target.entry = "jit" /\ jitInfo = "target")

Lost == lostBy = "decompile" \/ (lostBy = "fixup" /\ ~ClassSettled)

\* From the installation on, the target enters what was installed, or is lost.
HookInv ==
  setup.suspends /\ Installed /\ PatchedCode =>
    \/ Lost
    \/ /\ target.entry = IF inline THEN patched ELSE "hook"
       /\ pc = "hooked" =>
            /\ target.interp # "toInterp" /\ "fastInvoke" \notin target.flags
            /\ "native" \in target.flags => "fast" \notin target.flags

\* How far each call is with syncMethodInfo.
SyncInv ==
  \A c \in Callers :
    /\ call[c] = "native" => "native" \in backup.flags /\ seenImpl[c] \in Impls
    /\ ~overlap =>
         /\ call[c] = "class" => seenClass[c] = target.class
         /\ call[c] = "native" => backup.class = target.class /\ seenImpl[c] = target.data
         /\ call[c] = "invoke" =>
              backup.class = target.class /\ (Native => backup.data = target.data)

IInv ==
  /\ TypeOK /\ ClassInv /\ FlagsInv /\ EntryInv
  /\ BackupIsOriginal /\ JitInv /\ HookInv /\ SyncInv

-----------------------------------------------------------------------------
(* What the operators on flags keep *)

LEMMA NonCompilableFlags ==
  ASSUME Version \in Nat, NEW flags \in SUBSET Flags
  PROVE  /\ NonCompilable(flags) \in SUBSET Flags
         /\ \A f \in {"static", "native", "fastInvoke", "public", "private"} :
              f \in NonCompilable(flags) <=> f \in flags
         /\ Version >= kN => "dontCompile" \in NonCompilable(flags)
<1>1. CASE Version < kN
  BY <1>1 DEF NonCompilable
<1>2. CASE ~(Version < kN)
  <2>1. PreCompiled \in {"critical", "precompiled"}
    BY DEF PreCompiled
  <2>2. PICK left \in SUBSET {"critical", "precompiled"} :
          NonCompilable(flags) = (flags \ left) \union {"dontCompile"}
    <3>1. CASE Version >= kR
      BY <1>2, <2>1, <3>1 DEF NonCompilable
    <3>2. CASE ~(Version >= kR)
      <4>1. NonCompilable(flags) = (flags \ {}) \union {"dontCompile"}
        BY <1>2, <3>2 DEF NonCompilable
      <4>2. QED
        BY <4>1
    <3>3. QED
      BY <3>1, <3>2
  <2>3. "dontCompile" \in Flags
    BY DEF Flags
  <2>4. QED
    BY <2>2, <2>3
<1>3. QED
  BY <1>1, <1>2

LEMMA VersionIsNat == TypeOK => Version \in Nat
  BY VersionAssumption DEF TypeOK, Setups, Version

LEMMA HookedFlagsKeep ==
  ASSUME Version \in Nat, target.flags \in SUBSET Flags, NEW debuggable \in BOOLEAN
  PROVE  /\ HookedFlags(debuggable) \in SUBSET Flags
         /\ StaticFlag(target.flags) => StaticFlag(HookedFlags(debuggable))
         /\ Version >= kN => "dontCompile" \in HookedFlags(debuggable)
         /\ "fastInvoke" \in HookedFlags(debuggable) => "fastInvoke" \in target.flags
         /\ Version >= kQ => "fastInvoke" \notin HookedFlags(debuggable)
         /\ "native" \in HookedFlags(debuggable) => "fast" \notin HookedFlags(debuggable)
<1> DEFINE flags == NonCompilable(target.flags)
                      \union (IF Version >= kO /\ ~inline /\ debuggable /\ Java THEN {"native"} ELSE {})
           fresh == IF Version >= kQ THEN flags \ {"fastInvoke"} ELSE flags
<1>1. HookedFlags(debuggable) = IF "native" \notin fresh THEN fresh
        ELSE fresh \ (IF Version >= kP THEN {"fast", "critical"} ELSE {"fast"})
  BY DEF HookedFlags
<1>2. /\ NonCompilable(target.flags) \in SUBSET Flags
      /\ "static" \in NonCompilable(target.flags) <=> "static" \in target.flags
      /\ "fastInvoke" \in NonCompilable(target.flags) <=> "fastInvoke" \in target.flags
      /\ Version >= kN => "dontCompile" \in NonCompilable(target.flags)
  BY NonCompilableFlags
<1> HIDE DEF kN, kO, kP, kQ
<1>3. /\ flags \in SUBSET Flags
      /\ "static" \in flags <=> "static" \in target.flags
      /\ "fastInvoke" \in flags <=> "fastInvoke" \in target.flags
      /\ Version >= kN => "dontCompile" \in flags
  BY <1>2 DEF Flags
<1> HIDE DEF flags
<1>4. /\ fresh \in SUBSET Flags
      /\ "static" \in fresh <=> "static" \in target.flags
      /\ "fastInvoke" \in fresh => "fastInvoke" \in target.flags
      /\ Version >= kQ => "fastInvoke" \notin fresh
      /\ Version >= kN => "dontCompile" \in fresh
  BY <1>3
<1> HIDE DEF fresh
<1>5. QED
  BY <1>1, <1>4 DEF StaticFlag

LEMMA BackupFlagsKeep ==
  ASSUME Version \in Nat, target.flags \in SUBSET Flags, StaticFlag(target.flags)
  PROVE  /\ BackupFlags \in SUBSET Flags
         /\ StaticFlag(BackupFlags)
         /\ "native" \in BackupFlags <=> "native" \in target.flags
         /\ ~setup.static => "private" \in BackupFlags /\ "public" \notin BackupFlags
  BY NonCompilableFlags DEF BackupFlags, StaticFlag, Flags

\* The two outcomes of BackupFrom, field by field.
LEMMA BackupFromFields ==
  ASSUME IInv, BackupFrom
  PROVE  /\ target' \in ArtMethods /\ backup' \in ArtMethods
         /\ backup'.flags = BackupFlags /\ backup'.class = target.class
         /\ target'.flags = target.flags /\ target'.entry = target.entry
         /\ target'.interp = target.interp /\ target'.class = target.class
         /\ target'.data = target.data \/ (target.data = "profile" /\ target'.data = "none")
         /\ ~Java => backup'.data = target.data /\ backup'.entry = origin
         /\ Java /\ Version >= kS => backup'.data = target.data
         /\ backup'.data = "profile" /\ target'.data = "profile" =>
              backup'.entry = origin /\ (Version < kN \/ inline)
         /\ \/ /\ Version >= kO /\ backup'.entry = origin
               /\ jitInfo' = IF jitInfo = "target" THEN "backup" ELSE jitInfo
            \/ /\ jitInfo' = jitInfo /\ target' = target
               /\ \/ backup'.entry = "bridge" /\ ClearsEntry
                  \/ backup'.entry = origin /\ ~ClearsEntry
         /\ pc' = "after"
<1>1. PICK copy \in Copies, moves \in BOOLEAN :
       LET base == [target EXCEPT !.flags = BackupFlags, !.data = copy]
           kept == [base EXCEPT
                      !.entry = origin,
                      !.data = IF ~Java /\ Version >= kO THEN target.data ELSE @]
       IN IF moves
            THEN /\ Version >= kO /\ setup.kind # "proxy"
                 /\ backup' = IF target.data = "profile" THEN [kept EXCEPT !.data = "profile"] ELSE kept
                 /\ target' = IF target.data = "profile" THEN [target EXCEPT !.data = "none"] ELSE target
                 /\ jitInfo' = IF jitInfo = "target" THEN "backup" ELSE jitInfo
            ELSE /\ backup' = IF ClearsEntry
                                THEN [base EXCEPT !.entry = "bridge", !.data = Cleared(@)]
                                ELSE kept
                 /\ UNCHANGED <<target, jitInfo>>
  BY DEF BackupFrom
<1> DEFINE base == [target EXCEPT !.flags = BackupFlags, !.data = copy]
           kept == [base EXCEPT !.entry = origin,
                      !.data = IF ~Java /\ Version >= kO THEN target.data ELSE @]
<1>2. /\ Version \in Nat /\ target \in ArtMethods /\ origin \in Entries
      /\ BackupFlags \in SUBSET Flags
  BY VersionIsNat, BackupFlagsKeep DEF IInv, TypeOK, FlagsInv, ArtMethods
<1>3. copy \in Data /\ (copy # target.data => copy = "none" /\ Version >= kO /\ ~(Java /\ Version >= kS))
  BY <1>2 DEF Copies, ArtMethods, Data
<1>4. /\ base \in ArtMethods
      /\ base.flags = BackupFlags /\ base.class = target.class /\ base.data = copy
  BY <1>2, <1>3 DEF ArtMethods
<1>5. /\ kept \in ArtMethods
      /\ kept.flags = BackupFlags /\ kept.class = target.class /\ kept.entry = origin
      /\ kept.data = IF ~Java /\ Version >= kO THEN target.data ELSE copy
  BY <1>2, <1>4 DEF ArtMethods
<1>6. target.data = "profile" => Java /\ Version < kS
  BY DEF IInv, EntryInv
<1>7. pc' = "after"
  BY DEF BackupFrom, Goto
<1> HIDE DEF base, kept
<1>8. CASE moves
  <2>1. /\ Version >= kO
        /\ backup' = IF target.data = "profile" THEN [kept EXCEPT !.data = "profile"] ELSE kept
        /\ target' = IF target.data = "profile" THEN [target EXCEPT !.data = "none"] ELSE target
        /\ jitInfo' = IF jitInfo = "target" THEN "backup" ELSE jitInfo
    BY <1>1, <1>8 DEF base, kept
  <2>2. CASE target.data = "profile"
    <3>1. backup' = [kept EXCEPT !.data = "profile"] /\ target' = [target EXCEPT !.data = "none"]
      BY <2>1, <2>2
    <3>2. /\ backup' \in ArtMethods /\ backup'.flags = BackupFlags
          /\ backup'.class = target.class /\ backup'.entry = origin
      BY <1>5, <3>1 DEF ArtMethods, Data
    <3>3. /\ target' \in ArtMethods
          /\ target'.flags = target.flags /\ target'.entry = target.entry
          /\ target'.interp = target.interp /\ target'.class = target.class
          /\ target'.data = "none"
      BY <1>2, <3>1 DEF ArtMethods, Data
    <3>4. QED
      BY <1>2, <1>6, <1>7, <2>1, <2>2, <3>2, <3>3
  <2>3. CASE target.data # "profile"
    BY <1>2, <1>3, <1>5, <1>7, <2>1, <2>3
  <2>4. QED
    BY <2>2, <2>3
<1>9. CASE ~moves
  <2>1. /\ backup' = IF ClearsEntry THEN [base EXCEPT !.entry = "bridge", !.data = Cleared(@)] ELSE kept
        /\ UNCHANGED <<target, jitInfo>>
    BY <1>1, <1>9 DEF base, kept
  <2>2. CASE ClearsEntry
    <3>1. backup' = [base EXCEPT !.entry = "bridge", !.data = Cleared(@)]
      BY <2>1, <2>2
    <3>2. Cleared(copy) \in Data /\ (Version >= kS => Cleared(copy) = copy)
          /\ (Version < kS => Cleared(copy) = "none")
      BY <1>2, <1>3 DEF Cleared, Data
    <3>3. /\ backup' \in ArtMethods /\ backup'.flags = BackupFlags
          /\ backup'.class = target.class /\ backup'.entry = "bridge"
          /\ backup'.data = Cleared(copy)
      BY <1>4, <3>1, <3>2 DEF ArtMethods, Entries
    <3>4. QED
      BY <1>2, <1>3, <1>6, <1>7, <2>1, <2>2, <3>2, <3>3 DEF ClearsEntry
  <2>3. CASE ~ClearsEntry
    <3>1. backup' = kept
      BY <2>1, <2>3
    <3>2. backup'.data = "profile" /\ target'.data = "profile" =>
            backup'.entry = origin /\ (Version < kN \/ inline)
      BY <1>2, <1>5, <1>6, <2>1, <2>3, <3>1 DEF ClearsEntry
    <3>3. QED
      BY <1>2, <1>3, <1>5, <1>7, <2>1, <2>3, <3>1, <3>2
  <2>4. QED
    BY <2>2, <2>3
<1>10. QED
  BY <1>8, <1>9

-----------------------------------------------------------------------------
(* Each part is kept by every step *)

\* Every step keeps the types.
LEMMA TypeOKStep == IInv /\ [Next]_vars => TypeOK'
<1> SUFFICES ASSUME IInv, [Next]_vars PROVE TypeOK'
  OBVIOUS
<1>0. Version \in Nat
  BY VersionIsNat DEF IInv
<1> USE DEF IInv, TypeOK, ArtMethods, Entries, Data, Flags, Labels, Calling, hooking, calls, Suspended
<1>1. CASE InitClass
  <2>1. OwnEntries \subseteq Entries /\ (setup.kind = "proxy" => OwnEntries = {"proxy"})
    BY <1>0 DEF OwnEntries, Java, Native
  <2>2. target' \in ArtMethods /\ (setup.kind = "proxy" => target'.entry \in {"proxy", "hook"})
    BY <1>1, <2>1 DEF InitClass, Initialize
  <2>3. QED
    BY <1>1, <2>2 DEF InitClass, Initialize, LostIf
<1>2. CASE JitCompile
  <2>1. target' \in ArtMethods
    BY <1>2 DEF JitCompile, Compiled
  <2>2. jitInfo' = "target" /\ setup.kind = "java"
    BY <1>2 DEF JitCompile, Compiled, Java
  <2>3. QED
    BY <1>2, <2>1, <2>2 DEF JitCompile
<1>3. CASE JitCollect
  BY <1>0, <1>3 DEF JitCollect
<1>4. CASE MoveClass
  BY <1>0, <1>4 DEF MoveClass
<1>5. CASE RegisterNatives
  BY <1>0, <1>5 DEF RegisterNatives
<1>6. CASE CacheFastInvoke
  BY <1>0, <1>6 DEF CacheFastInvoke
<1>7. CASE Resolve
  <2>1. OwnEntries \subseteq Entries /\ (setup.kind = "proxy" => OwnEntries = {"proxy"})
    BY <1>0 DEF OwnEntries, Java, Native
  <2>2. target' \in ArtMethods /\ (setup.kind = "proxy" => target'.entry \in {"proxy", "hook"})
    BY <1>7, <2>1 DEF Resolve, Initialize
  <2>3. QED
    BY <1>7, <2>2 DEF Resolve, Initialize, LostIf, Goto
<1>8. CASE MakeVisible
  <2>1. OwnEntries \subseteq Entries /\ (setup.kind = "proxy" => OwnEntries = {"proxy"})
    BY <1>0 DEF OwnEntries, Java, Native
  <2>2. target' \in ArtMethods /\ (setup.kind = "proxy" => target'.entry \in {"proxy", "hook"})
    BY <1>8, <2>1 DEF MakeVisible, Initialize
  <2>3. QED
    BY <1>8, <2>2 DEF MakeVisible, Initialize, LostIf, Goto
<1>9. CASE TryCompile
  <2>1. /\ pc = "compile" /\ pc' = "hook0" /\ inline' \in BOOLEAN
        /\ UNCHANGED <<target, jitInfo>> \/ (Compiled /\ Java)
        /\ UNCHANGED <<setup, cls, backup, patched, origin, lostBy, calls, overlap, decompile>>
    BY <1>9 DEF TryCompile
  <2>2. CASE UNCHANGED <<target, jitInfo>>
    BY <2>1, <2>2
  <2>3. CASE Compiled /\ Java
    <3>1. target' \in ArtMethods /\ jitInfo' = "target" /\ setup.kind = "java"
      BY <2>3 DEF Compiled, Java
    <3>2. QED
      BY <2>1, <3>1
  <2>4. QED
    BY <2>1, <2>2, <2>3
<1>10. CASE BeginHook0
  BY <1>0, <1>10 DEF BeginHook0
<1>11. CASE Install
  BY <1>0, <1>11 DEF Install
<1>12. CASE BackupFrom
  <2>1. /\ target' \in ArtMethods /\ backup' \in ArtMethods
        /\ target'.entry = target.entry /\ jitInfo' \in {jitInfo, "backup"}
    BY <1>0, <1>12, BackupFromFields
  <2>2. QED
    BY <1>0, <1>12, <2>1 DEF BackupFrom, Goto
<1>13. CASE AfterHook
  <2>1. PICK debuggable \in BOOLEAN :
          target' = [target EXCEPT !.flags = HookedFlags(debuggable),
                                   !.interp = IF Version < kN THEN "toCompiled" ELSE target.interp]
    BY <1>13 DEF AfterHook
  <2>2. HookedFlags(debuggable) \in SUBSET Flags
    BY <1>0, HookedFlagsKeep
  <2>3. target' \in ArtMethods /\ target'.entry = target.entry
    BY <2>1, <2>2
  <2>4. QED
    BY <1>13, <2>3 DEF AfterHook, Goto
<1>14. CASE BeginDecompile
  BY <1>0, <1>14, NonCompilableFlags DEF BeginDecompile, InterpreterBridge
<1>15. CASE EndDecompile
  <2>1. target' \in ArtMethods
    BY <1>15 DEF EndDecompile
  <2>2. QED
    BY <1>15, <2>1 DEF EndDecompile, LostIf, FlagsInv, NoDecompile
<1>16. ASSUME NEW c \in Callers, ReadClass(c) PROVE TypeOK'
  BY <1>0, <1>16 DEF ReadClass
<1>17. ASSUME NEW c \in Callers, WriteClass(c) PROVE TypeOK'
  BY <1>0, <1>17 DEF WriteClass, ReadImpl
<1>18. ASSUME NEW c \in Callers, WriteImpl(c) PROVE TypeOK'
  BY <1>0, <1>18 DEF WriteImpl
<1>19. ASSUME NEW c \in Callers, Invoke(c) PROVE TypeOK'
  BY <1>0, <1>19 DEF Invoke
<1>20. CASE UNCHANGED vars
  BY <1>20 DEF vars
<1>21. QED
  BY <1>1, <1>2, <1>3, <1>4, <1>5, <1>6, <1>7, <1>8, <1>9, <1>10, <1>11, <1>12, <1>13, <1>14, <1>15, <1>16, <1>17, <1>18, <1>19, <1>20 DEF Next, Runtime, Hook

\* A class is never uninitialized again.
LEMMA ClassStep == IInv /\ [Next]_vars => ClassInv'
<1> SUFFICES ASSUME IInv, [Next]_vars PROVE ClassInv'
  OBVIOUS
<1>0. Version \in Nat
  BY VersionIsNat DEF IInv
<1> USE DEF IInv, TypeOK, ClassInv, ClassSettled, Version, hooking, Setups, Labels, Suspended
<1>1. CASE InitClass
  BY <1>0, <1>1 DEF InitClass, Initialize, LostIf
<1>2. CASE JitCompile
  BY <1>0, <1>2 DEF JitCompile, Compiled
<1>3. CASE JitCollect
  BY <1>0, <1>3 DEF JitCollect
<1>4. CASE MoveClass
  BY <1>0, <1>4 DEF MoveClass
<1>5. CASE RegisterNatives
  BY <1>0, <1>5 DEF RegisterNatives
<1>6. CASE CacheFastInvoke
  BY <1>0, <1>6 DEF CacheFastInvoke
<1>7. CASE Resolve
  BY <1>0, <1>7 DEF Resolve, Initialize, LostIf, Goto
<1>8. CASE MakeVisible
  BY <1>0, <1>8 DEF MakeVisible, Initialize, LostIf, Goto
<1>9. CASE TryCompile
  BY <1>0, <1>9 DEF TryCompile, Compiled, IsCompiled
<1>10. CASE BeginHook0
  BY <1>0, <1>10 DEF BeginHook0
<1>11. CASE Install
  BY <1>0, <1>11 DEF Install
<1>12. CASE BackupFrom
  BY <1>0, <1>12 DEF BackupFrom, Goto
<1>13. CASE AfterHook
  BY <1>0, <1>13 DEF AfterHook, Goto
<1>14. CASE BeginDecompile
  BY <1>0, <1>14 DEF BeginDecompile, InterpreterBridge
<1>15. CASE EndDecompile
  BY <1>0, <1>15 DEF EndDecompile, LostIf
<1>16. ASSUME NEW c \in Callers, ReadClass(c) PROVE ClassInv'
  BY <1>0, <1>16 DEF ReadClass
<1>17. ASSUME NEW c \in Callers, WriteClass(c) PROVE ClassInv'
  BY <1>0, <1>17 DEF WriteClass, ReadImpl
<1>18. ASSUME NEW c \in Callers, WriteImpl(c) PROVE ClassInv'
  BY <1>0, <1>18 DEF WriteImpl
<1>19. ASSUME NEW c \in Callers, Invoke(c) PROVE ClassInv'
  BY <1>0, <1>19 DEF Invoke
<1>20. CASE UNCHANGED vars
  BY <1>20 DEF vars
<1>21. QED
  BY <1>1, <1>2, <1>3, <1>4, <1>5, <1>6, <1>7, <1>8, <1>9, <1>10, <1>11, <1>12, <1>13, <1>14, <1>15, <1>16, <1>17, <1>18, <1>19, <1>20 DEF Next, Runtime, Hook

\* What is known of the flags is about nothing else.
LEMMA FlagsUntouched ==
  ASSUME FlagsInv, setup' = setup, decompile' = decompile, target'.flags = target.flags,
         pc' = "hooked" <=> pc = "hooked"
  PROVE  FlagsInv'
<1>1. Version' = Version /\ (Native' <=> Native)
  BY DEF Version, Native
<1> QED
  BY <1>1 DEF FlagsInv, NativeFlag, StaticFlag, NoDecompile

\* Every step keeps what is known of the flags: AfterHook and the end of a
\* decompile write flags that were computed from those of the method.
LEMMA FlagsStep == IInv /\ [Next]_vars => FlagsInv'
<1> SUFFICES ASSUME IInv, [Next]_vars PROVE FlagsInv'
  OBVIOUS
<1>0. Version \in Nat
  BY VersionIsNat DEF IInv
<1>00. FlagsInv /\ target \in ArtMethods
  BY DEF IInv, TypeOK
<1> USE <1>00 DEF ArtMethods
<1>1. CASE InitClass
  BY <1>1, FlagsUntouched DEF InitClass, Initialize, hooking
<1>2. CASE JitCompile
  BY <1>2, FlagsUntouched DEF JitCompile, Compiled, hooking
<1>3. CASE JitCollect
  BY <1>3, FlagsUntouched DEF JitCollect, hooking
<1>4. CASE MoveClass
  BY <1>4, FlagsUntouched DEF MoveClass, hooking
<1>5. CASE RegisterNatives
  BY <1>5, FlagsUntouched DEF RegisterNatives, hooking
<1>6. CASE CacheFastInvoke
  BY <1>0, <1>6 DEF CacheFastInvoke,
       IInv, TypeOK, FlagsInv, EntryInv, NativeFlag, StaticFlag, hooking, Setups, Suspended, Native, Java, Version, Flags
<1>7. CASE Resolve
  BY <1>7, FlagsUntouched DEF Resolve, Initialize, Goto
<1>8. CASE MakeVisible
  BY <1>8, FlagsUntouched DEF MakeVisible, Initialize, Goto
<1>9. CASE TryCompile
  BY <1>9, FlagsUntouched DEF TryCompile, Compiled
<1>10. CASE BeginHook0
  BY <1>10, FlagsUntouched DEF BeginHook0
<1>11. CASE Install
  BY <1>11, FlagsUntouched DEF Install
<1>12. CASE BackupFrom
  BY <1>12, FlagsUntouched DEF BackupFrom, Goto
<1>13. CASE AfterHook
  BY <1>0, <1>13, HookedFlagsKeep DEF AfterHook, Goto,
       IInv, TypeOK, FlagsInv, EntryInv, NativeFlag, StaticFlag, hooking, Setups, Suspended, Native, Java, Version, Flags
<1>14. CASE BeginDecompile
  BY <1>0, <1>14, NonCompilableFlags DEF BeginDecompile, InterpreterBridge, NoDecompile,
       IInv, TypeOK, FlagsInv, EntryInv, NativeFlag, StaticFlag, hooking, Setups, Suspended, Native, Java, Version, Flags
<1>15. CASE EndDecompile
  BY <1>0, <1>15 DEF EndDecompile, LostIf, NoDecompile,
       IInv, TypeOK, FlagsInv, EntryInv, NativeFlag, StaticFlag, hooking, Setups, Suspended, Native, Java, Version, Flags
<1>16. ASSUME NEW c \in Callers, ReadClass(c) PROVE FlagsInv'
  BY <1>16, FlagsUntouched DEF ReadClass, hooking
<1>17. ASSUME NEW c \in Callers, WriteClass(c) PROVE FlagsInv'
  BY <1>17, FlagsUntouched DEF WriteClass, hooking
<1>18. ASSUME NEW c \in Callers, WriteImpl(c) PROVE FlagsInv'
  BY <1>18, FlagsUntouched DEF WriteImpl, hooking
<1>19. ASSUME NEW c \in Callers, Invoke(c) PROVE FlagsInv'
  BY <1>19, FlagsUntouched DEF Invoke, hooking
<1>20. CASE UNCHANGED vars
  BY <1>20, FlagsUntouched DEF vars
<1>21. QED
  BY <1>1, <1>2, <1>3, <1>4, <1>5, <1>6, <1>7, <1>8, <1>9, <1>10, <1>11, <1>12, <1>13, <1>14, <1>15, <1>16, <1>17, <1>18, <1>19, <1>20 DEF Next, Runtime, Hook

\* Every step keeps what is known of entries and data_, whose kinds only the
\* JIT, the installer, decompile and the fixup change.
LEMMA EntryStep == IInv /\ [Next]_vars => EntryInv'
<1> SUFFICES ASSUME IInv, [Next]_vars PROVE EntryInv'
  OBVIOUS
<1>0. Version \in Nat
  BY VersionIsNat DEF IInv
<1> USE DEF IInv, TypeOK, ArtMethods, FlagsInv, EntryInv, ClassInv, Original, Installed, hooking, Setups, Kinds, Native, Java, Version, OwnEntries
<1>1. CASE InitClass
  BY <1>0, <1>1 DEF InitClass, Initialize, LostIf
<1>2. CASE JitCompile
  BY <1>0, <1>2, ImplAssumption DEF JitCompile, Compiled
<1>3. CASE JitCollect
  BY <1>0, <1>3 DEF JitCollect
<1>4. CASE MoveClass
  BY <1>0, <1>4 DEF MoveClass
<1>5. CASE RegisterNatives
  BY <1>0, <1>5, ImplAssumption DEF RegisterNatives
<1>6. CASE CacheFastInvoke
  BY <1>0, <1>6 DEF CacheFastInvoke
<1>7. CASE Resolve
  BY <1>0, <1>7 DEF Resolve, Initialize, LostIf, Goto
<1>8. CASE MakeVisible
  BY <1>0, <1>8 DEF MakeVisible, Initialize, LostIf, Goto
<1>9. CASE TryCompile
  <2>1. CASE UNCHANGED <<target, jitInfo>>
    BY <1>0, <1>9, <2>1 DEF TryCompile
  <2>2. CASE Compiled /\ Java /\ kN <= Version /\ Version < kR
    BY <1>0, <1>9, <2>2 DEF TryCompile, Compiled
  <2>3. QED
    BY <1>0, <1>9, <2>1, <2>2 DEF TryCompile
<1>10. CASE BeginHook0
  BY <1>0, <1>10 DEF BeginHook0
<1>11. CASE Install
  BY <1>0, <1>11 DEF Install
<1>12. CASE BackupFrom
  BY <1>0, <1>12 DEF BackupFrom, Goto
<1>13. CASE AfterHook
  BY <1>0, <1>13 DEF AfterHook, Goto
<1>14. CASE BeginDecompile
  BY <1>0, <1>14 DEF BeginDecompile, InterpreterBridge
<1>15. CASE EndDecompile
  BY <1>0, <1>15 DEF EndDecompile, LostIf
<1>16. ASSUME NEW c \in Callers, ReadClass(c) PROVE EntryInv'
  BY <1>0, <1>16 DEF ReadClass
<1>17. ASSUME NEW c \in Callers, WriteClass(c) PROVE EntryInv'
  BY <1>0, <1>17 DEF WriteClass, ReadImpl
<1>18. ASSUME NEW c \in Callers, WriteImpl(c) PROVE EntryInv'
  BY <1>0, <1>18 DEF WriteImpl
<1>19. ASSUME NEW c \in Callers, Invoke(c) PROVE EntryInv'
  BY <1>0, <1>19 DEF Invoke
<1>20. CASE UNCHANGED vars
  BY <1>20 DEF vars
<1>21. QED
  BY <1>1, <1>2, <1>3, <1>4, <1>5, <1>6, <1>7, <1>8, <1>9, <1>10, <1>11, <1>12, <1>13, <1>14, <1>15, <1>16, <1>17, <1>18, <1>19, <1>20 DEF Next, Runtime, Hook

\* Every step keeps the backup the original: BackupFrom makes it so, and the
\* calls write nothing to it but a class and a registered function.
LEMMA BackupStep == IInv /\ [Next]_vars => BackupIsOriginal'
<1> SUFFICES ASSUME IInv, [Next]_vars PROVE BackupIsOriginal'
  OBVIOUS
<1>0. Version \in Nat
  BY VersionIsNat DEF IInv
<1> USE DEF IInv, TypeOK, ArtMethods, BackupIsOriginal, FlagsInv, EntryInv, SyncInv, Original, Calling, Suspended, hooking, calls, Setups, Kinds, Native, Java, Version
<1>1. CASE InitClass
  BY <1>0, <1>1 DEF InitClass, Initialize, LostIf
<1>2. CASE JitCompile
  BY <1>0, <1>2 DEF JitCompile, Compiled
<1>3. CASE JitCollect
  BY <1>0, <1>3 DEF JitCollect
<1>4. CASE MoveClass
  BY <1>0, <1>4 DEF MoveClass
<1>5. CASE RegisterNatives
  BY <1>0, <1>5, ImplAssumption DEF RegisterNatives
<1>6. CASE CacheFastInvoke
  BY <1>0, <1>6 DEF CacheFastInvoke
<1>7. CASE Resolve
  BY <1>0, <1>7 DEF Resolve, Initialize, LostIf, Goto
<1>8. CASE MakeVisible
  BY <1>0, <1>8 DEF MakeVisible, Initialize, LostIf, Goto
<1>9. CASE TryCompile
  BY <1>0, <1>9 DEF TryCompile, Compiled, IsCompiled
<1>10. CASE BeginHook0
  BY <1>0, <1>10 DEF BeginHook0
<1>11. CASE Install
  BY <1>0, <1>11 DEF Install
<1>12. CASE BackupFrom
  <2>1. /\ backup'.flags = BackupFlags
        /\ ~Java => backup'.data = target.data /\ backup'.entry = origin
        /\ Java /\ Version >= kS => backup'.data = target.data
        /\ backup'.data = "profile" /\ target'.data = "profile" =>
              backup'.entry = origin /\ (Version < kN \/ inline)
        /\ backup'.entry = origin \/ (backup'.entry = "bridge" /\ ClearsEntry)
    BY <1>0, <1>12, BackupFromFields
  <2>2. target.flags \in SUBSET Flags /\ StaticFlag(target.flags) /\ NativeFlag(target.flags)
    BY <1>12 DEF BackupFrom
  <2>3. StaticFlag(BackupFlags) /\ NativeFlag(BackupFlags)
        /\ (~setup.static => "private" \in BackupFlags /\ "public" \notin BackupFlags)
    BY <1>0, <2>2, BackupFlagsKeep DEF NativeFlag
  <2>4. QED
    BY <1>0, <1>12, <2>1, <2>3 DEF BackupFrom, Goto, StaticFlag, NativeFlag, ClearsEntry
<1>13. CASE AfterHook
  BY <1>0, <1>13 DEF AfterHook, Goto
<1>14. CASE BeginDecompile
  BY <1>0, <1>14 DEF BeginDecompile, InterpreterBridge
<1>15. CASE EndDecompile
  BY <1>0, <1>15 DEF EndDecompile, LostIf
<1>16. ASSUME NEW c \in Callers, ReadClass(c) PROVE BackupIsOriginal'
  BY <1>0, <1>16 DEF ReadClass
<1>17. ASSUME NEW c \in Callers, WriteClass(c) PROVE BackupIsOriginal'
  BY <1>0, <1>17 DEF WriteClass, ReadImpl
<1>18. ASSUME NEW c \in Callers, WriteImpl(c) PROVE BackupIsOriginal'
  BY <1>0, <1>18 DEF WriteImpl
<1>19. ASSUME NEW c \in Callers, Invoke(c) PROVE BackupIsOriginal'
  BY <1>0, <1>19 DEF Invoke
<1>20. CASE UNCHANGED vars
  BY <1>20 DEF vars
<1>21. QED
  BY <1>1, <1>2, <1>3, <1>4, <1>5, <1>6, <1>7, <1>8, <1>9, <1>10, <1>11, <1>12, <1>13, <1>14, <1>15, <1>16, <1>17, <1>18, <1>19, <1>20 DEF Next, Runtime, Hook

\* Every step keeps the JIT's record in agreement with what enters the code;
\* BackupFrom hands both over, or neither.
LEMMA JitStep == IInv /\ [Next]_vars => JitInv'
<1> SUFFICES ASSUME IInv, [Next]_vars PROVE JitInv'
  OBVIOUS
<1>0. Version \in Nat
  BY VersionIsNat DEF IInv
<1> USE DEF IInv, TypeOK, ArtMethods, BackupIsOriginal, FlagsInv, EntryInv, JitInv, SyncInv, Installed, Original, Calling, Suspended, hooking, calls, Setups, Kinds, Native, Java, Version
<1>1. CASE InitClass
  BY <1>0, <1>1 DEF InitClass, Initialize, LostIf, OwnEntries
<1>2. CASE JitCompile
  BY <1>0, <1>2 DEF JitCompile, Compiled
<1>3. CASE JitCollect
  BY <1>0, <1>3 DEF JitCollect
<1>4. CASE MoveClass
  BY <1>0, <1>4 DEF MoveClass
<1>5. CASE RegisterNatives
  BY <1>0, <1>5 DEF RegisterNatives
<1>6. CASE CacheFastInvoke
  BY <1>0, <1>6 DEF CacheFastInvoke
<1>7. CASE Resolve
  BY <1>0, <1>7 DEF Resolve, Initialize, LostIf, Goto, OwnEntries
<1>8. CASE MakeVisible
  BY <1>0, <1>8 DEF MakeVisible, Initialize, LostIf, Goto, OwnEntries
<1>9. CASE TryCompile
  BY <1>0, <1>9 DEF TryCompile, Compiled, IsCompiled
<1>10. CASE BeginHook0
  BY <1>0, <1>10 DEF BeginHook0
<1>11. CASE Install
  BY <1>0, <1>11 DEF Install
<1>12. CASE BackupFrom
  <2>1. /\ target'.entry = target.entry
        /\ \/ /\ Version >= kO /\ backup'.entry = origin
              /\ jitInfo' = IF jitInfo = "target" THEN "backup" ELSE jitInfo
           \/ /\ jitInfo' = jitInfo /\ target' = target
              /\ \/ backup'.entry = "bridge" /\ ClearsEntry
                 \/ backup'.entry = origin /\ ~ClearsEntry
    BY <1>0, <1>12, BackupFromFields
  <2>2. QED
    BY <1>0, <1>12, <2>1 DEF BackupFrom, Goto, ClearsEntry
<1>13. CASE AfterHook
  BY <1>0, <1>13 DEF AfterHook, Goto
<1>14. CASE BeginDecompile
  BY <1>0, <1>14 DEF BeginDecompile, InterpreterBridge
<1>15. CASE EndDecompile
  BY <1>0, <1>15 DEF EndDecompile, LostIf
<1>16. ASSUME NEW c \in Callers, ReadClass(c) PROVE JitInv'
  BY <1>0, <1>16 DEF ReadClass
<1>17. ASSUME NEW c \in Callers, WriteClass(c) PROVE JitInv'
  BY <1>0, <1>17 DEF WriteClass, ReadImpl
<1>18. ASSUME NEW c \in Callers, WriteImpl(c) PROVE JitInv'
  BY <1>0, <1>18 DEF WriteImpl
<1>19. ASSUME NEW c \in Callers, Invoke(c) PROVE JitInv'
  BY <1>0, <1>19 DEF Invoke
<1>20. CASE UNCHANGED vars
  BY <1>20 DEF vars
<1>21. QED
  BY <1>1, <1>2, <1>3, <1>4, <1>5, <1>6, <1>7, <1>8, <1>9, <1>10, <1>11, <1>12, <1>13, <1>14, <1>15, <1>16, <1>17, <1>18, <1>19, <1>20 DEF Next, Runtime, Hook

\* Every step but a decompile and a late fixup leaves the target to its hook.
LEMMA HookStep == IInv /\ [Next]_vars => HookInv'
<1> SUFFICES ASSUME IInv, [Next]_vars PROVE HookInv'
  OBVIOUS
<1>0. Version \in Nat
  BY VersionIsNat DEF IInv
<1> USE DEF IInv, TypeOK, ArtMethods, ClassInv, ClassSettled, FlagsInv, EntryInv, HookInv, Lost, PatchedCode, Installed, Suspended, hooking, calls, Setups, Kinds, Native, Java, Version
<1>1. CASE InitClass
  BY <1>0, <1>1 DEF InitClass, Initialize, LostIf
<1>2. CASE JitCompile
  BY <1>0, <1>2 DEF JitCompile, Compiled
<1>3. CASE JitCollect
  BY <1>0, <1>3 DEF JitCollect
<1>4. CASE MoveClass
  BY <1>0, <1>4 DEF MoveClass
<1>5. CASE RegisterNatives
  BY <1>0, <1>5 DEF RegisterNatives
<1>6. CASE CacheFastInvoke
  BY <1>0, <1>6 DEF CacheFastInvoke
<1>7. CASE Resolve
  BY <1>0, <1>7 DEF Resolve, Initialize, LostIf, Goto
<1>8. CASE MakeVisible
  BY <1>0, <1>8 DEF MakeVisible, Initialize, LostIf, Goto
<1>9. CASE TryCompile
  BY <1>0, <1>9 DEF TryCompile, Compiled, IsCompiled
<1>10. CASE BeginHook0
  BY <1>0, <1>10 DEF BeginHook0
<1>11. CASE Install
  BY <1>0, <1>11 DEF Install
<1>12. CASE BackupFrom
  BY <1>0, <1>12 DEF BackupFrom, Goto
<1>13. CASE AfterHook
  BY <1>0, <1>13, HookedFlagsKeep DEF AfterHook, Goto
<1>14. CASE BeginDecompile
  BY <1>0, <1>14 DEF BeginDecompile, InterpreterBridge
<1>15. CASE EndDecompile
  BY <1>0, <1>15 DEF EndDecompile, LostIf
<1>16. ASSUME NEW c \in Callers, ReadClass(c) PROVE HookInv'
  BY <1>0, <1>16 DEF ReadClass
<1>17. ASSUME NEW c \in Callers, WriteClass(c) PROVE HookInv'
  BY <1>0, <1>17 DEF WriteClass, ReadImpl
<1>18. ASSUME NEW c \in Callers, WriteImpl(c) PROVE HookInv'
  BY <1>0, <1>18 DEF WriteImpl
<1>19. ASSUME NEW c \in Callers, Invoke(c) PROVE HookInv'
  BY <1>0, <1>19 DEF Invoke
<1>20. CASE UNCHANGED vars
  BY <1>20 DEF vars
<1>21. QED
  BY <1>1, <1>2, <1>3, <1>4, <1>5, <1>6, <1>7, <1>8, <1>9, <1>10, <1>11, <1>12, <1>13, <1>14, <1>15, <1>16, <1>17, <1>18, <1>19, <1>20 DEF Next, Runtime, Hook

\* Every step keeps what a call has read equal to what the target holds, or
\* sets overlap.
LEMMA SyncStep == IInv /\ [Next]_vars => SyncInv'
<1> SUFFICES ASSUME IInv, [Next]_vars PROVE SyncInv'
  OBVIOUS
<1>0. Version \in Nat
  BY VersionIsNat DEF IInv
<1> USE DEF IInv, TypeOK, ArtMethods, BackupIsOriginal, EntryInv, SyncInv, Calling, Suspended, hooking, calls, Native, Java, Version
<1>1. CASE InitClass
  BY <1>0, <1>1 DEF InitClass, Initialize, LostIf
<1>2. CASE JitCompile
  BY <1>0, <1>2 DEF JitCompile, Compiled
<1>3. CASE JitCollect
  BY <1>0, <1>3 DEF JitCollect
<1>4. CASE MoveClass
  BY <1>0, <1>4 DEF MoveClass
<1>5. CASE RegisterNatives
  BY <1>0, <1>5 DEF RegisterNatives
<1>6. CASE CacheFastInvoke
  BY <1>0, <1>6 DEF CacheFastInvoke
<1>7. CASE Resolve
  BY <1>0, <1>7 DEF Resolve, Initialize, LostIf, Goto
<1>8. CASE MakeVisible
  BY <1>0, <1>8 DEF MakeVisible, Initialize, LostIf, Goto
<1>9. CASE TryCompile
  BY <1>0, <1>9 DEF TryCompile, Compiled, IsCompiled
<1>10. CASE BeginHook0
  BY <1>0, <1>10 DEF BeginHook0
<1>11. CASE Install
  BY <1>0, <1>11 DEF Install
<1>12. CASE BackupFrom
  BY <1>0, <1>12 DEF BackupFrom, Goto
<1>13. CASE AfterHook
  BY <1>0, <1>13 DEF AfterHook, Goto
<1>14. CASE BeginDecompile
  BY <1>0, <1>14 DEF BeginDecompile, InterpreterBridge
<1>15. CASE EndDecompile
  BY <1>0, <1>15 DEF EndDecompile, LostIf
<1>16. ASSUME NEW c \in Callers, ReadClass(c) PROVE SyncInv'
  BY <1>0, <1>16 DEF ReadClass
<1>17. ASSUME NEW c \in Callers, WriteClass(c) PROVE SyncInv'
  BY <1>0, <1>17 DEF WriteClass, ReadImpl
<1>18. ASSUME NEW c \in Callers, WriteImpl(c) PROVE SyncInv'
  BY <1>0, <1>18 DEF WriteImpl
<1>19. ASSUME NEW c \in Callers, Invoke(c) PROVE SyncInv'
  BY <1>0, <1>19 DEF Invoke
<1>20. CASE UNCHANGED vars
  BY <1>20 DEF vars
<1>21. QED
  BY <1>1, <1>2, <1>3, <1>4, <1>5, <1>6, <1>7, <1>8, <1>9, <1>10, <1>11, <1>12, <1>13, <1>14, <1>15, <1>16, <1>17, <1>18, <1>19, <1>20 DEF Next, Runtime, Hook

-----------------------------------------------------------------------------
(* The theorems *)

\* A method that has not been hooked, with the entry and the flags it may have.
LEMMA InitInv == Init => IInv
<1> SUFFICES ASSUME Init PROVE IInv
  OBVIOUS
<1>1. /\ setup \in Setups
      /\ setup.kind = "proxy" => ~setup.static
      /\ setup.visibility => Version >= kQ
      /\ setup.linker => setup.visibility
      /\ ~setup.static => setup.canInit
      /\ cls \in {"uninit", "init", "visible"}
      /\ ~setup.static => cls = "visible"
      /\ cls = "init" => setup.visibility
  BY DEF Init
<1>2. /\ backup = Blank /\ patched = "none" /\ jitInfo = "none" /\ pc = "start"
      /\ inline = FALSE /\ origin = "none" /\ lostBy = "no" /\ overlap = FALSE
      /\ call = [c \in Callers |-> "idle"]
      /\ seenClass = [c \in Callers |-> NoClass] /\ seenImpl = [c \in Callers |-> "none"]
      /\ decompile = NoDecompile
  BY DEF Init
<1>3. PICK flags \in InitialFlags, class \in Classes,
           entry \in IF cls = "visible" THEN OwnEntries ELSE {"stub"},
           data \in CASE Java -> {IF Version >= kS THEN "item" ELSE "none"}
                      [] Native -> Impls
                      [] OTHER -> {"iface"} :
        target = [flags |-> flags, entry |-> entry, data |-> data, class |-> class,
                  interp |-> IF Version >= kN THEN "none"
                             ELSE IF entry = "bridge" THEN "toInterp" ELSE "toCompiled"]
  BY DEF Init
<1>4. Version \in Nat /\ setup.kind \in Kinds
  BY <1>1, VersionAssumption DEF Setups, Version
<1>5. entry \in {"stub", "bridge", "oat", "nterp", "generic", "proxy"}
  <2>1. OwnEntries \subseteq {"bridge", "oat", "nterp", "generic", "proxy"}
    <3>1. CASE Java
      BY <3>1 DEF OwnEntries
    <3>2. CASE Native
      BY <3>2 DEF OwnEntries, Java, Native
    <3>3. CASE ~Java /\ ~Native
      BY <3>3 DEF OwnEntries
    <3> QED
      BY <3>1, <3>2, <3>3
  <2> QED
    BY <2>1
<1>6. setup.kind = "proxy" => entry = "proxy"
  BY <1>1 DEF OwnEntries, Java, Native
<1>7. /\ Native => data \in Impls
      /\ setup.kind = "proxy" => data = "iface"
      /\ Java => data = IF Version >= kS THEN "item" ELSE "none"
  BY DEF Java, Native
<1>8. /\ flags \in SUBSET Flags
      /\ StaticFlag(flags) /\ NativeFlag(flags)
      /\ "fastInvoke" \notin flags
  <2>1. PICK extra \in CASE Java -> {{}} \union (IF setup.static THEN {} ELSE {{"ctor"}})
                                    \union (IF Version >= kR THEN {{PreCompiled, "dontCompile"}} ELSE {})
                         [] Native -> {{}, {"fast"}} \union
                                      (IF setup.static /\ Version >= kO THEN {{"critical"}} ELSE {})
                         [] OTHER -> {{}} :
          flags = {"public"} \union (IF setup.static THEN {"static"} ELSE {})
                             \union (IF Native THEN {"native"} ELSE {}) \union extra
    BY DEF InitialFlags
  <2>2. extra \subseteq {"ctor", "critical", "precompiled", "dontCompile", "fast"}
    <3>0. PreCompiled \in {"critical", "precompiled"}
      BY DEF PreCompiled
    <3>1. CASE Java
      BY <2>1, <3>0, <3>1
    <3>2. CASE Native
      BY <2>1, <3>2 DEF Java, Native
    <3>3. CASE ~Java /\ ~Native
      BY <2>1, <3>3
    <3> QED
      BY <3>1, <3>2, <3>3
  <2> QED
    BY <2>1, <2>2 DEF Flags, StaticFlag, NativeFlag
<1>9. data \in Data
  BY <1>4, <1>7 DEF Data, Java, Native, Kinds
<1>10. target \in ArtMethods
  BY <1>3, <1>5, <1>8, <1>9 DEF ArtMethods, Entries
<1>11. Blank \in ArtMethods
  BY DEF Blank, ArtMethods, Entries, Data
<1>12. /\ target.flags = flags /\ target.entry = entry /\ target.data = data
       /\ Version >= kN => target.interp = "none"
  BY <1>3
<1>13. TypeOK
  BY <1>1, <1>2, <1>6, <1>10, <1>11, <1>12 DEF TypeOK, NoDecompile, Entries, Labels, Data, Calling
<1>14. ClassInv
  BY <1>1, <1>2 DEF ClassInv
<1>15. FlagsInv
  BY <1>2, <1>8, <1>12 DEF FlagsInv, NoDecompile
<1>16. EntryInv
  BY <1>2, <1>4, <1>5, <1>7, <1>12, ImplAssumption
     DEF EntryInv, Original, Installed, Java, Native, Kinds
<1>17. BackupIsOriginal /\ JitInv /\ HookInv /\ SyncInv
  BY <1>2, <1>5, <1>12 DEF BackupIsOriginal, JitInv, HookInv, SyncInv, Installed
<1> QED
  BY <1>13, <1>14, <1>15, <1>16, <1>17 DEF IInv

\* The inductive invariant holds always.
THEOREM Invariance == Spec => []IInv
<1>1. IInv /\ [Next]_vars => IInv'
  BY TypeOKStep, ClassStep, FlagsStep, EntryStep, BackupStep, JitStep, HookStep, SyncStep DEF IInv
<1> QED
  BY <1>1, InitInv, PTL DEF Spec

\* The variables have their types, and a proxy method enters the proxy handler
\* or its hook.
THEOREM TypeCorrect == Spec => []TypeOK
<1>1. IInv => TypeOK
  BY DEF IInv
<1> QED
  BY <1>1, Invariance, PTL

\* BackupFrom: the backup stays the original method, whatever is done to the target.
THEOREM BackupStaysOriginal == Spec => []BackupIsOriginal
<1>1. IInv => BackupIsOriginal
  BY DEF IInv
<1> QED
  BY <1>1, Invariance, PTL

\* hookNewMethod: an installed method stays hooked, but for decompile and the
\* initialization of a class that was not settled.
THEOREM HookedStays == Spec => []HookStays
<1>1. IInv => HookStays
  BY DEF IInv, HookInv, HookStays, Reaches, Lost, Installed
<1> QED
  BY <1>1, Invariance, PTL

\* BackupFrom hands the JIT's record to the method that enters the code.
THEOREM CodeIsAlive == Spec => []CodeStaysAlive
<1>1. IInv => CodeStaysAlive
  <2>1. TypeOK => Version \in Nat
    BY VersionIsNat
  <2> QED
    BY <2>1 DEF IInv, JitInv, CodeStaysAlive, Installed
<1> QED
  BY <1>1, Invariance, PTL

\* syncMethodInfo: a call that no change falls into invokes a backup that is up
\* to date.
THEOREM SyncedFresh == Spec => []SyncedCallsAreFresh
<1>1. IInv => SyncedCallsAreFresh
  BY DEF IInv, SyncInv, SyncedCallsAreFresh
<1> QED
  BY <1>1, Invariance, PTL
=============================================================================
