----------------------------- MODULE Trampolines -----------------------------
(***************************************************************************)
(* The native half of an installation: the allocator that trampolines are  *)
(* cut from (Memory::AllocUnprotected), the two ways to install one        *)
(* (InstallReplacementTrampoline, InstallInlineTrampoline) and the patch   *)
(* of the target's code under ScopedMemoryAccessProtection.                *)
(*                                                                         *)
(* Addresses are numbers, 0 is null.  A method is installed once (module   *)
(* PineHook), so it has at most one bridge trampoline and one backup.      *)
(* Installations run one at a time while the runtime suspends the process, *)
(* and side by side when it offers no way to (`suspends').  Functions of   *)
(* libart are overwritten beside them (NativeHookNoBackup): the threads    *)
(* that do it suspend nobody, and run native code that nobody suspends.    *)
(***************************************************************************)
EXTENDS Integers

CONSTANTS
  Threads, NoThread,
  Methods,
  CodeAt,       \* where the compiled code of each method begins
  Functions,    \* where the functions begin that NativeHookNoBackup overwrites
  PageSize,
  FreePages,    \* numbers of the pages that mmap may return
  DirectSize,   \* kDirectJumpTrampolineSize
  SkipSize,     \* kSkipBytes
  BridgeSize,   \* kBridgeJumpTrampolineSize
  BackupSize,   \* kBackupTrampolineSize
  Override,     \* bytes of a backup trampoline that the copied code may take
  Slack,        \* how far the backup is rounded up to whole instructions, at most
  Thumb         \* pointers to code carry the thumb bit

ASSUME ThreadAssumption == NoThread \notin Threads /\ Threads \intersect Functions = {}
ASSUME SizeAssumption ==
  /\ PageSize \in Nat /\ BridgeSize \in Nat \ {0} /\ BackupSize \in Nat \ {0}
  /\ DirectSize \in Nat \ {0} /\ SkipSize \in Nat /\ Slack \in Nat /\ Override \in Nat
  /\ BridgeSize <= PageSize /\ BackupSize <= PageSize
  /\ DirectSize + SkipSize + Slack <= Override
ASSUME PlaceAssumption ==
  /\ FreePages \subseteq Nat \ {0} /\ Functions \subseteq Nat
  /\ CodeAt \in [Methods -> Nat]
  /\ Thumb \in BOOLEAN

VARIABLES
  suspends,     \* the runtime can suspend all threads
  suspended,    \* the thread for which it does, NoThread when others run
  address, offset,   \* Memory: the current page and the part of it in use
  regions,      \* what AllocUnprotected has handed out
  attempted,    \* methods that an installation was begun for
  failed,       \* methods whose installation returned null
  bridge, origin,    \* of each method: its bridge trampoline, the entry it goes on to
  backup, rest,      \* of each method: its backup, the code this goes on to
  entry,        \* ArtMethod: entry_point_from_compiled_code_
  code,         \* the first bytes of its code: original, torn, or a jump
  jump,         \* where this jump goes
  over,         \* how many bytes of the code have been overwritten
  writable,     \* pages of code that mprotect has made writable
  handler,      \* who handles SIGSEGV in the process: "app" or "library"
  saved,        \* per scope: the handler it found, "closed" if it is not open
  crossed,      \* history: the scope that found the application's handler was closed
                \* while another was open
  native,       \* per function: how far its overwriting is
  crashed,      \* no, or why the process died
  pc, job       \* per thread: program counter, method and manner of installation

memory == <<address, offset, regions>>
trampolines == <<bridge, origin, backup, rest>>
target == <<entry, code, jump, over>>
faults == <<handler, saved, crossed>>
vars == <<suspends, suspended, address, offset, regions, attempted, failed, bridge, origin,
          backup, rest, entry, code, jump, over, writable, handler, saved, crossed, native,
          crashed, pc, job>>

Labels == {"idle", "unprotect", "backup", "bridge", "write", "publish", "patch"}
Jobs == [method : Methods, inline : BOOLEAN, skip : BOOLEAN]
NoJob == [method |-> 0, inline |-> FALSE, skip |-> FALSE]

\* Each thread has at most one scope, its thread-local `current'; the thread that
\* overwrites a function is one of its own.
Scopes == Threads \union Functions

PageOf(a) == a \div PageSize

\* A pointer to thumb code has its lowest bit set, and null with it.
ToPC(a) == IF Thumb /\ a % 2 = 0 THEN a + 1 ELSE a

\* The entry a method has before it is hooked.
CodeEntry(m) == ToPC(CodeAt[m])

Init ==
  /\ suspends \in BOOLEAN
  /\ suspended = NoThread
  /\ address = 0 /\ offset = 0 /\ regions = {}
  /\ attempted = {} /\ failed = {}
  /\ bridge = [m \in Methods |-> 0] /\ origin = [m \in Methods |-> 0]
  /\ backup = [m \in Methods |-> 0] /\ rest = [m \in Methods |-> 0]
  /\ entry = [m \in Methods |-> CodeEntry(m)]
  /\ code = [m \in Methods |-> "original"] /\ jump = [m \in Methods |-> 0]
  /\ over = [m \in Methods |-> 0]
  /\ writable = {}
  /\ handler = "app" /\ saved = [s \in Scopes |-> "closed"] /\ crossed = FALSE
  /\ native = [f \in Functions |-> "idle"]
  /\ crashed = "no"
  /\ pc = [t \in Threads |-> "idle"] /\ job = [t \in Threads |-> NoJob]

At(t, l) == crashed = "no" /\ pc[t] = l
Goto(t, l) == pc' = [pc EXCEPT ![t] = l]
M(t) == job[t].method

-----------------------------------------------------------------------------
(* Memory::AllocUnprotected, under its mutex *)

\* Fault: only the beginning has to lie in the page.
FitsLoosely(size) == address # 0 /\ offset < PageSize

Fits(size) == address # 0 /\ offset + size <= PageSize

\* What an allocation may return: a piece of the current page or a new one.
Places(size) ==
  IF Fits(size) THEN {address + offset}
  ELSE {n * PageSize : n \in {k \in FreePages : \A r \in regions : PageOf(r.at) # k}}

\* p is allocated for user; the rest of a page that is too small is given up.
Alloc(size, p, user) ==
  /\ address' = IF Fits(size) THEN address ELSE p
  /\ offset' = IF Fits(size) THEN offset + size ELSE size
  /\ regions' = regions \union {[at |-> p, size |-> size, user |-> user]}

\* mmap failed: null.
AllocFails(size) == ~Fits(size) /\ UNCHANGED memory

-----------------------------------------------------------------------------
(* hook0 from SuspendVM to ResumeVM *)

Start(t, m, inline, skip) ==
  /\ At(t, "idle") /\ m \notin attempted /\ suspended = NoThread
  /\ skip => inline
  /\ suspended' = IF suspends THEN t ELSE NoThread
  /\ attempted' = attempted \union {m}
  /\ job' = [job EXCEPT ![t] = [method |-> m, inline |-> inline, skip |-> skip]]
  /\ Goto(t, IF inline THEN "unprotect" ELSE "bridge")
  /\ UNCHANGED <<suspends, memory, failed, trampolines, target, writable, faults, native, crashed>>

\* ResumeVM, and the locals of the installation are gone.
Finish(t) ==
  /\ Goto(t, "idle")
  /\ job' = [job EXCEPT ![t] = NoJob]
  /\ suspended' = IF suspended = t THEN NoThread ELSE suspended

\* The installation returns null.
Fail(t) == Finish(t) /\ failed' = failed \union {M(t)}

Continue(t, l) == Goto(t, l) /\ UNCHANGED <<suspended, job, failed>>

\* Memory::Unprotect of the page that the code begins in.
Unprotect(t) ==
  /\ At(t, "unprotect")
  /\ \/ /\ writable' = writable \union {PageOf(CodeAt[M(t)])}
        /\ Continue(t, "backup")
     \/ Fail(t) /\ UNCHANGED writable
  /\ UNCHANGED <<suspends, memory, attempted, trampolines, target, faults, native, crashed>>

\* How many bytes of the code the nops and the direct jump take.
Patched(j) == IF j.skip THEN SkipSize + DirectSize ELSE DirectSize

\* Fault: the nops are not counted.
BackupSizeShort(j) == DirectSize

\* How many bytes of the code the backup copies, at least.
BackupBytes(j) == Patched(j)

\* Backup: allocate, copy whole instructions, go on behind them.
Backup(t) ==
  /\ At(t, "backup")
  /\ \/ \E p \in Places(BackupSize), s \in 0 .. Slack :
          /\ Alloc(BackupSize, p, <<M(t), "backup">>)
          /\ backup' = [backup EXCEPT ![M(t)] = ToPC(p)]
          /\ rest' = [rest EXCEPT ![M(t)] = CodeAt[M(t)] + BackupBytes(job[t]) + s]
          /\ Continue(t, "bridge")
     \/ /\ AllocFails(BackupSize)
        /\ Fail(t)
        /\ UNCHANGED <<backup, rest>>
  /\ UNCHANGED <<suspends, attempted, bridge, origin, target, writable, faults, native, crashed>>

\* CreateBridgeJumpTrampoline up to its allocation.  The installer looks at the
\* pointer that the architecture has made of null.
AllocBridge(t) ==
  /\ At(t, "bridge")
  /\ \/ \E p \in Places(BridgeSize) :
          /\ Alloc(BridgeSize, p, <<M(t), "bridge">>)
          /\ bridge' = [bridge EXCEPT ![M(t)] = ToPC(p)]
          /\ Continue(t, "write")
     \/ /\ AllocFails(BridgeSize)
        /\ bridge' = [bridge EXCEPT ![M(t)] = ToPC(0)]
        /\ IF ToPC(0) = 0 THEN Fail(t) ELSE Continue(t, "publish")
  /\ UNCHANGED <<suspends, attempted, origin, backup, rest, target, writable, faults, native,
                 crashed>>

\* The contents of the trampoline, and FlushCache.
WriteBridge(t) ==
  /\ At(t, "write")
  /\ origin' = [origin EXCEPT ![M(t)] = IF job[t].inline THEN backup[M(t)] ELSE entry[M(t)]]
  /\ Continue(t, "publish")
  /\ UNCHANGED <<suspends, memory, attempted, bridge, backup, rest, target, writable, faults,
                 native, crashed>>

\* SetEntryPointFromCompiledCode.
ReplaceEntry(t) ==
  /\ At(t, "publish") /\ ~job[t].inline
  /\ entry' = [entry EXCEPT ![M(t)] = bridge[M(t)]]
  /\ Finish(t)
  /\ UNCHANGED <<suspends, memory, attempted, failed, trampolines, code, jump, over,
                 writable, faults, native, crashed>>

-----------------------------------------------------------------------------
(* ScopedMemoryAccessProtection: one handler for the process, saved by whoever *)
(* replaces it                                                                 *)

IsOpen(s) == saved[s] # "closed"

OpenScope(s) ==
  /\ saved' = [saved EXCEPT ![s] = handler]
  /\ handler' = "library"
  /\ UNCHANGED crossed

\* Fault: the handler found is not put back.
CloseScopeOnly(s) ==
  /\ saved' = [saved EXCEPT ![s] = "closed"]
  /\ crossed' = (crossed \/ (saved[s] = "app" /\ \E x \in Scopes \ {s} : IsOpen(x)))
  /\ UNCHANGED handler

CloseScope(s) ==
  /\ handler' = saved[s]
  /\ saved' = [saved EXCEPT ![s] = "closed"]
  /\ crossed' = (crossed \/ (saved[s] = "app" /\ \E x \in Scopes \ {s} : IsOpen(x)))

\* Fault: the end of the protected range does not count.
InRangeExclusive(start, a) == start <= a /\ a < start + DirectSize

\* The range of a scope, which does not know of nops.
InRange(start, a) == start <= a /\ a <= start + DirectSize

\* A patch runs into a page that is still protected.  The process's handler of the
\* moment gets the signal.  HandleSignal finds the scope of the thread, makes the page
\* writable if it is in its range and passes every other fault on to the handler that
\* the scope found; in the end the process dies, as it does when the application's
\* handler gets it.
Fault(start, page) ==
  \/ handler = "app" /\ crashed' = "handler" /\ UNCHANGED writable
  \/ /\ handler = "library" /\ InRange(start, page * PageSize)
     /\ \/ writable' = writable \union {page} /\ crashed' = crashed
        \/ crashed' = "mprotect" /\ UNCHANGED writable
  \/ /\ handler = "library" /\ ~InRange(start, page * PageSize)
     /\ crashed' = "range" /\ UNCHANGED writable

\* The scope is opened and the first bytes of the patch are written, in the page just
\* made writable.
BeginPatch(t) ==
  /\ At(t, "publish") /\ job[t].inline
  /\ OpenScope(t)
  /\ code' = [code EXCEPT ![M(t)] = "torn"]
  /\ Continue(t, "patch")
  /\ UNCHANGED <<suspends, memory, attempted, trampolines, entry, jump, over, writable, native,
                 crashed>>

LastPage(t) == PageOf(CodeAt[M(t)] + Patched(job[t]) - 1)

EndPatch(t) ==
  /\ At(t, "patch") /\ LastPage(t) \in writable
  /\ CloseScope(t)
  /\ code' = [code EXCEPT ![M(t)] = "jump"]
  /\ jump' = [jump EXCEPT ![M(t)] = bridge[M(t)]]
  /\ over' = [over EXCEPT ![M(t)] = Patched(job[t])]
  /\ Finish(t)
  /\ UNCHANGED <<suspends, memory, attempted, failed, trampolines, entry, writable, native,
                 crashed>>

PatchFaults(t) ==
  /\ At(t, "patch") /\ LastPage(t) \notin writable
  /\ Fault(CodeAt[M(t)], LastPage(t))
  /\ UNCHANGED <<suspends, suspended, memory, attempted, failed, trampolines, target, faults,
                 native, pc, job>>

-----------------------------------------------------------------------------
(* NativeHookNoBackup *)

others == <<suspends, suspended, memory, attempted, failed, trampolines, target, pc, job>>

Overwriting(f, from, to) ==
  crashed = "no" /\ native[f] = from /\ native' = [native EXCEPT ![f] = to]

LastPageOf(f) == PageOf(f + DirectSize - 1)

NativeUnprotect(f) ==
  /\ suspended = NoThread
  /\ \/ Overwriting(f, "idle", "open") /\ writable' = writable \union {PageOf(f)}
     \/ Overwriting(f, "idle", "done") /\ UNCHANGED writable
  /\ UNCHANGED <<others, faults, crashed>>

NativeBegin(f) ==
  /\ Overwriting(f, "open", "patch")
  /\ OpenScope(f)
  /\ UNCHANGED <<others, writable, crashed>>

NativeFaults(f) ==
  /\ Overwriting(f, "patch", "patch") /\ LastPageOf(f) \notin writable
  /\ Fault(f, LastPageOf(f))
  /\ UNCHANGED <<others, faults>>

NativeEnd(f) ==
  /\ Overwriting(f, "patch", "done") /\ LastPageOf(f) \in writable
  /\ CloseScope(f)
  /\ UNCHANGED <<others, writable, crashed>>

NativeStep(f) == NativeUnprotect(f) \/ NativeBegin(f) \/ NativeFaults(f) \/ NativeEnd(f)

Next ==
  \/ \E t \in Threads :
       \/ \E m \in Methods, inline, skip \in BOOLEAN : Start(t, m, inline, skip)
       \/ Unprotect(t) \/ Backup(t) \/ AllocBridge(t) \/ WriteBridge(t)
       \/ ReplaceEntry(t) \/ BeginPatch(t) \/ EndPatch(t) \/ PatchFaults(t)
  \/ \E f \in Functions : NativeStep(f)

Spec == Init /\ [][Next]_vars

-----------------------------------------------------------------------------
(* Properties *)

FaultTypes ==
  /\ handler \in {"app", "library"} /\ crossed \in BOOLEAN
  /\ saved \in [Scopes -> {"closed", "app", "library"}]
  /\ native \in [Functions -> {"idle", "open", "patch", "done"}]

InstallTypes ==
  /\ suspends \in BOOLEAN
  /\ suspended \in Threads \union {NoThread}
  /\ address \in Nat /\ offset \in Nat
  /\ regions \subseteq [at : Nat, size : Nat, user : Methods \X {"bridge", "backup"}]
  /\ attempted \subseteq Methods /\ failed \subseteq attempted
  /\ bridge \in [Methods -> Nat] /\ origin \in [Methods -> Nat]
  /\ backup \in [Methods -> Nat] /\ rest \in [Methods -> Nat]
  /\ entry \in [Methods -> Nat]
  /\ code \in [Methods -> {"original", "torn", "jump"}]
  /\ jump \in [Methods -> Nat] /\ over \in [Methods -> Nat]
  /\ writable \subseteq Nat
  /\ crashed \in {"no", "mprotect", "range", "handler"}
  /\ pc \in [Threads -> Labels]
  /\ job \in [Threads -> Jobs \union {NoJob}]
  /\ \A t \in Threads : pc[t] = "idle" => job[t] = NoJob /\ suspended # t

\* Every variable has its type; a thread that installs nothing suspends nobody.
TypeOK == InstallTypes /\ FaultTypes

\* No two trampolines share a byte, and none leaves the page it was cut from,
\* though pages are given up half used and several threads allocate.
RegionsDisjoint ==
  \A r \in regions :
    /\ PageOf(r.at) = PageOf(r.at + r.size - 1)
    /\ \A s \in regions : r # s => r.at + r.size <= s.at \/ s.at + s.size <= r.at

HasRegion(m, kind, p) == \E r \in regions : r.user = <<m, kind>> /\ ToPC(r.at) = p

Untouched(m) == entry[m] = CodeEntry(m) /\ code[m] = "original"

Replaced(m) ==
  /\ entry[m] = bridge[m] /\ HasRegion(m, "bridge", bridge[m])
  /\ origin[m] = CodeEntry(m) /\ code[m] = "original"

Redirected(m) ==
  /\ entry[m] = CodeEntry(m) /\ code[m] = "jump"
  /\ jump[m] = bridge[m] /\ HasRegion(m, "bridge", bridge[m])
  /\ origin[m] = backup[m] /\ HasRegion(m, "backup", backup[m])
  /\ rest[m] >= CodeAt[m] + over[m]

\* Whenever other threads run, a call of a method runs its own code or goes to a
\* trampoline that is there, is written, and from which the original code can
\* still be reached, past every byte that was overwritten.  An installation that
\* returned null has left the method as it was.
EntriesAreWhole ==
  /\ suspended = NoThread /\ crashed = "no" => \A m \in Methods :
       \/ Untouched(m) \/ Replaced(m) \/ Redirected(m)
       \/ ~suspends /\ code[m] = "torn"
  /\ \A m \in failed : Untouched(m)

\* An installer that got no memory for the bridge returns null, and never makes
\* a method enter anything but its own code or a trampoline.
NoWildEntry ==
  \A m \in Methods : entry[m] = CodeEntry(m) \/ HasRegion(m, "bridge", entry[m])

\* A patch of aligned code runs into no page that its scope would not open, and finds
\* its handler installed, however many scopes are open, as long as none was closed
\* under a later one: the process dies of a patch only if mprotect fails, or if scopes
\* have crossed.
FaultsAreInRange == crashed # "range" /\ (crashed = "handler" => crossed)

\* When no scope is open, SIGSEGV goes where it went before the first one, unless
\* scopes have crossed; then HandleSignal may stay, with no scope to look at.
HandlerComesBack ==
  ~crossed /\ (\A s \in Scopes : ~IsOpen(s)) => handler = "app"
=============================================================================
