# Rxmodule: specifications and proofs

Rxmodule is a set of Android modules that are loaded into an app's process. The largest,
`PineCore`, hooks Java methods of the ART runtime: it redirects a method's machine code to a
trampoline, hands the arguments to Java, runs callbacks and calls the original. Around it stand a
gdb remote stub (`gdbinject`), a dex dumper (`dumpdex`), a reader of the linker's library list
(`soinfo`), a JVMTI experiment (`DavlikJvmRuntimeEnv`) and small app shells.

This directory holds TLA+ modules translated from that code, TLC configurations that check them on
small instances, and TLAPS proofs that hold for every instance. `PROJECT.json` maps each definition
to the source lines it stands for.

## 1. Inventory

### PineCore

| part | state | operations | what is hard |
|---|---|---|---|
| **Hook registration and dispatch** (`Pine.java` 245-530, 636-700) | `sHookRecords` (method -> `HookRecord`: callbacks, backup, parameter types), entry point of each method, `PineConfig.disableHooks` | `hook`, `hookNewMethod`, `Unhook.unhook`, `handleCall`, `callBackupMethod`, `invokeOriginalMethod` | four separate locks and unlocked fields; the trampoline goes live in the middle of `hookNewMethod`; any step can throw and leave the rest undone |
| **Callback chain, `CallFrame`** (`Pine.java` 636-950, `MethodReplacement`) | `beforeIdx`, `afterIdx`, result, throwable, `returnEarly` | the two loops of `handleCall`, `setResult`, `setThrowable`, `resetResult`, ... | callbacks are arbitrary code; one may throw after it has set an outcome, which must be undone exactly; three ways into the second loop |
| **Bridge trampoline and Extras** (`arm64.S`, `extras.h`, `Arm64Entry.java`) | `lock_flag`, the saved registers, one object per trampoline | the exclusive-monitor spin lock, saving, `cloneExtras`, `ReleaseLock` | the lock is taken in assembly and released from Java; the runtime may stop the holder in between; wfe/sev |
| **Initialization and settings** (`Pine.java` 60-140, 605-635, `init0`) | `initialized`, fields of `PineConfig` and their copies in native code | `ensureInitialized`, `initialize`, `setDebuggable`, `disableHiddenApiPolicy` | double-checked locking around settings that are themselves not locked |
| **ArtMethod backup** (`art_method.cpp`, `pine.cpp` 140-282, 403-427, `Pine.java` 306-397, 429-442, 543-559) | access flags, entry points, `data_` and declaring class of a method and its backup | `hookNewMethod`, `Compile`, `Decompile`, `BackupFrom`, `AfterHook`, `syncMethodInfo` | a runtime that resets, compiles, collects and moves what has just been written; every Android version puts something else into the same bits and fields; a suspension that silently does nothing, or does not stop native code |
| **Trampoline memory and installation** (`memory.cpp`, `trampoline_installer.cpp`, `scoped_memory_access_protection.cpp`) | the current page and the offset in it, code of the targets | `AllocUnprotected`, the installers, `Backup` | page limit, failure in the middle of an installation, `SIGSEGV` handler that is process-wide with per-thread data |
| **Argument decoding** (`Arm64Entry`, `Arm32Entry`, `X86Entry`, `pine.cpp` 284-398) | indices of registers and stack | `getArgs*`, `handleBridge` | where the calling convention puts each parameter once the registers run out; three indices on arm32 that overlap |
| **The runtime as found** (`android.cpp`, `android.h`, `jit.cpp`, `art_method.cpp` 20-222) | native statics: functions, offsets of members, which symbols are missing | `Init`, `InitMembers`, `SuspendVM`, `DisableInline`, `DisableProfileSaver` | any symbol may be absent, values are found by comparing words, ART changes the same options and collects meanwhile |
| **ELF image reader** (`elf_img.cpp`) | mappings | lookups | which of several mappings of a file is the library |
| Thread state, local references | none of their own | wrappers | - |

How they interact. `hook` puts the record, then calls `hook0` (native), which suspends the process,
takes the backup of the ArtMethod, installs a trampoline and resumes. A call of the method jumps to
the trampoline, which saves the registers in the Extras and jumps to a bridge method of
`Arm64Entry`; that looks the record up, clones the Extras, decodes the arguments and calls
`handleCall`; `handleCall` takes a snapshot of the record's callbacks, runs the chain and calls the
backup.

Correctness. No registration is lost; a call runs the callbacks that were registered during all of
it and none that never was; the trampoline is installed once; every call decodes its own registers
however many run; a callback that throws leaves no trace; the library is initialized once.

### The other modules

| part | state | operations | what is hard |
|---|---|---|---|
| **gdb stub, packets** (`packets.c`) | input and output buffers, the socket, `async_io_enabled` | `read_packet`, `write_packet`, `input_interrupt` | packets that arrive in pieces; an interrupt character between packets; a signal handler that reads the same socket |
| **gdb stub, server** (`gdbinject.c`, `entry.cpp`) | thread table, breakpoints, `tmpbuf` | one handler per packet, the loop of `vCont;c` | it is a thread of the process it serves: no `ptrace` call can succeed, and the status it decides on is read uninitialized; it may be started twice |
| **gdb signal and register tables** (`signals.c`, `arch.h`) | none | conversions, `getRegister` | three blocks of real-time numbers; a map that asks for more registers than there are |
| **gdb text** (`utils.c`, parts of `packets.c` and `gdbinject.c`) | none | digits, escapes, checksums | bytes that look like the frame; two digits joined with a bitwise or |
| **Dex dumper** (`dumpdex.cpp`, `art_method.cpp`, `LoadEntry.java`) | `dex_fd_maps`, the files on disk | walk over loaders, elements and cookies; repair of code items | one failing file ends the rest of its cookie; what was noted is used much later, beside the collector; a code item has no length field |
| **Runtime access** of `dumpdex` and `DavlikJvmRuntimeEnv` (`RuntimePart.cpp`, `jvmti.cpp`, `native-lib.cpp`, `JvmRuntime.java`) | global references, loaded libraries | `getClassLoaders`, `LoadJvmTI`, `dumpDexByCookie` | every visit keeps a reference to each loader for good; missing symbols are called |
| **Linker list, symbol resolver** (`solist.cpp`, `elf_symbol_resolver.cpp` in three copies) | `linker_solist`, the offset of `next`, a vector of mappings | search for the offset, walk, symbol lookup | one unprotected vector for all walks; a wrong offset makes the walk endless; a mapping that is never removed |
| **VPN detection demo** (`checkvpn.cpp`) | the netlink socket, a list of `ifaddrs` | `net_us`, `text` | attributes in any order that share two fields |
| App shells (`app`, `textapp`, `textmodule`, `fridademo`) | none | user interface | - |

How they interact. The gdb stub is a thread beside the app it serves, which may stop the stub with
itself. `libdump` and `libjvmRuntime` may be in one process, each with a copy of `RuntimePart.cpp` and
of the resolver; they share the runtime's loaders, its table of global references and the address
space with everything else that resolves symbols, `PineCore` and `libcheckvpn` included.

Correctness. Every request of a debugger is answered once, in order; the current thread is in the
table. A dumped file is the dex file, with every repaired code item whole and in its place; nothing that
was noted is used after it has been freed. A resolved address is that of the function, whatever other
libraries have left mapped. A walk nobody disturbs gets the whole list. An address is the interface's
own, not its peer's.

`PROJECT.json` lists every one of these under `components` with its status, and under `hazards`
what in them a test would hardly reach, at its line.

## 2. Modules

| module | models |
|---|---|
| `PineHook` | registration and dispatch of hooks by several threads |
| `MCPineHook` | the symmetry sets for its runs |
| `PineHookProofs` | its theorems |
| `ExtrasLock` | the arm64 bridge trampoline, the lock in the Extras, suspend-all |
| `HandOver` | what the bridge promises: one indivisible hand-over per call |
| `ExtrasLockProofs` | its theorems, among them that `ExtrasLock` implements `HandOver` |
| `CallChain` | one intercepted call: the loops of `handleCall` and the `CallFrame` |
| `CallOutcome` | what the chain promises: transactions |
| `PineInit` | initialization and settings |
| `PineStart` | what `init0` finds in the runtime of a device, and the suspension, inlining and profile-saver switches that use it; extends `PineInit` |
| `MCPineStart` | the devices and the symmetry set of its run |
| `PineInitProofs` | the theorems of both, among them that `PineStart` implements `PineInit` |
| `Trampolines` | the allocator of trampolines and the two ways to install one, down to the patch of the code |
| `MCTrampolines` | where the code of the methods lies in its runs |
| `Backups` | what an inline hook on arm32 copies of the code and which instructions may not be copied |
| `TrampolinesProofs` | the theorems of `Trampolines` and of `Backups` |
| `ArtMethodHook` | one ArtMethod and its backup, from before the hook to calls of the backup, with the runtime around |
| `MCArtMethodHook` | the symmetry set for its runs |
| `ArtMethodHookProofs` | its theorems |
| `BridgeArgs` | the calling conventions and the decoders of `handleBridge`, for arm64, arm32 and x86 |
| `CallProofs` | the theorems of `CallChain` and of `BridgeArgs` (those for arm64), among them that `CallChain` implements `CallOutcome` |
| `GdbPackets` | the transport of the gdb stub: buffers, framing, the signal handler |
| `GdbSignals` | its tables of signal numbers |
| `GdbText` | the text of its packets: digits, escapes, checksums, registers |
| `GdbServer` | the stub: a handler for each packet, the tables, `vCont`; extends `GdbPackets` and `GdbSignals` |
| `GdbService` | what the stub promises: answers in order |
| `GdbServerProofs` | the theorems of the stub, among them that `GdbServer` implements `GdbService` |
| `RuntimePart` | class loaders and dex files of the runtime, and how the two dex libraries get at them |
| `DumpDex`, `JvmRuntime` | `libdump` and `libjvmRuntime`, each extends `RuntimePart` |
| `DexTools` | both in one process that may be killed and started again |
| `MCDexTools` | the loaders of its run |
| `ElfSymbols` | the three copies of `resolve_elf_internal_symbol`, and `ElfImg`, in one address space |
| `SoList` | the walk over the linker's list; extends `ElfSymbols` |
| `IfAddrs` | the netlink answers and the entries made of them |
| `SoInfo` | `libcheckvpn` in a process with other libraries: `SoList` and `IfAddrs` |
| `MCSoInfo` | the files and symbols of its run |
| `ToolsProofs` | the theorems of `DexTools`, of `SoInfo` and of `GdbText` |

### PineHook

A step is what the code does between two points where another thread can run: a synchronized block,
one access of a shared field, the suspend-all section of `hook0`, or a stretch of user code. `pc[t]`
names what thread `t` does next; `met`, `rec`, `cb`, `snap` are its locals.

- `StartHook` .. `AddCallback` are `Pine.hook` in order: find or put the record under `sHookLock`,
  decide by `newMethod` (`HandleHook`, the default `HookHandler`), store the parameter types, call
  `hook0`, store the backup, add the callback. `PrepareFails`, `Hook0Fails` and `PublishFails` are
  the exceptions: before `hook0`, in it, and after the trampoline went live.
- `Call` .. `AfterCallbacks` are a call: the jump through the entry point, the lookup of the bridge,
  `disableHooks || emptyCallbacks()` in two steps, `getCallbacks()` under a lock of its own, and
  `callbacks[0]`, which throws on an empty array. The order of the callbacks is `CallChain`'s.
- `CallBackup` on a record without backup ends the process: `syncMethodInfo` takes the ArtMethod of
  a null reference.
- `InvokeOriginal` .. `ResolvePending` are `invokeOriginalMethod` with its three branches.

Abstractions. `hookListener` and the handler stay at their defaults (nobody in the repository sets
them). A field that `hookNewMethod` writes before `hook0` is visible to every call that comes in
through the trampoline, because `hook0` stops all threads in between; the later write of `backup` is
published by no such point, and the model lets it be seen as soon as it happens, the best case. The
set of callbacks stands for the list: `HookRecord` keeps a set.
History variables: `must[t]` and `may[t]` are the callbacks registered all through, and at some
moment of, the undecided part of a call; `abandoned` the methods whose installation threw.

Things the model makes visible that are not stated as properties: `isHooked` (the record is in the
table) stays true for a method whose installation failed; and a record without backup is treated as
"pending" by `invokeOriginalMethod`, though nothing in the repository ever resolves one, so a
static method's original is called through a null backup.

### ExtrasLock and HandOver

One hooked method: its calls share one Extras. `acquire`/`store` are `ldaxr`/`stlxr` with the
exclusive monitor of each core (`monitor`), `wait` is `wfe` with the event register (`event`), `save`
the stores of the argument registers one by one, `bridge` the entry of the Java bridge method with
its suspend check, `copy` the `memcpy` of `cloneExtras`, `release` and `signal` are `ReleaseLock`.
The clone is `malloc`ed, so its registers hold anything before they are copied.

`RequestSuspend`, `AllSuspended`, `ResumeAll` are the runtime's suspend-all, for `hook0` of another
method or a collection. A thread can be held at a suspend check or in native code (`Suspendable`),
but not in the trampoline, which is code without suspend checks. That is what `LockIsReleased` finds:
the holder stops at the suspend check of the bridge, waiting threads spin, and `suspend_all` waits
for them.

Abstractions. A spurious failure of `stlxr` behaves as the failure after another's store, and the
event stream of the hardware, which would wake a `wfe` without `sev`, is not relied on. If the runtime treats
`cloneExtras` as a fast native, a thread in it is not suspendable, which removes behaviours and no
deadlock: the check at the bridge's entry stays. The 32-bit trampolines have the same lock
(`thumb2.S`, `arm32.S`), x86 has none; they are not modelled.

`HandOver` is the abstract bridge. The mapping reads `passed <- regs` and
`received <- Received`, the clone from the moment it is complete.

### CallChain and CallOutcome

`CallChain` starts where `PineHook`'s snapshot ends. `replacements` says which callbacks are
`MethodReplacement`s (their `beforeCall` sets what `replaceCall` returns or throws, their `afterCall`
does nothing). `UseFrame` is one setter used by a callback, any of `setResult`,
`setResultIfNoException`, `setThrowable`, `resetResult`, with null among the arguments; a turn ends by
returning or throwing. `OriginalRejected` is the exception that leaves `handleCall` because only
`InvocationTargetException` is caught.

`CallOutcome` says what this is for: a callback settles an outcome or not, one that throws leaves
what it found, and the turns after are those of the callbacks that had one before, backwards.

### PineInit

`owner` is the monitor of `Pine.class`. The settings are there twice, in `PineConfig` and in native
code. `ReadConfig`, `Init0`, `PublishInitialized` are `initialize` cut where the fields are read,
where native code copies them and where `initialized` is set; `InitializeThrows` is an exception in
its Java part. What `init0` looks up is left to `PineStart`. Any thread may call `setDebuggable`, which
sets field and copy without a common lock: two threads can set the field in one order and native code in
the other. `crossed` records that the field was written while another thread stood between the two, and
`DebuggableAgrees` is about settings that have not crossed; without the exception it is
`DebuggableAlwaysAgrees`, which the code does not keep (section 3). The module has no run of its own: its properties are checked in `PineStart`, where each
of its steps is one, and hold there by `StartImplementsInit`.

### PineStart

A member of `Environments` is a device: its version, the symbols that its libraries lack, whether
`mprotect` lets code be changed, where ART keeps the members of an ArtMethod (`layout`) and what every word of
it reads as: at which offsets it equals the expected access flags with which bits added (`words`), at
which it is the pointer to the native function (`rulers`). `SearchRuntime` is `Init0` of
`PineInit` together with everything `Android::Init`, `Jit::Init`, `ArtMethod::InitMembers` and the
policy switch do; `found` are the statics that it sets. An `init0` that is repeated after a failure
keeps what the first has found: the loop begins with the members that the earlier one has set.

The search is the loop of `InitMembers` word by word (`Turn`, `Look`, `Done`): a later match replaces an
earlier one until both members have one, and it asks whether it is done after it has looked. Then come the
two searches for the flags with added bits (`FlagsOffset`, `First`), the defaults, and the entry point by rule.
`Unambiguous` says of a device that no word the search looks at before it stops misleads it; words behind may
look like anything. `MembersAreFound` says that then the members found are those of `layout`.

`Users` are threads that hook (`StartSection`, `SuspendAll` or `SuspendVM`, `ResumeVM`), switch
inlining off (`CheckInline`, `ReplaceUpdate`, `SetInline`) and stop the profile saver. `Collect`,
`CreateJit`, `BeginUpdate` and `EndUpdate` are ART. A suspended runtime lets only the suspending thread
run. `overtaken` records that ART was inside its own update when the library replaced the function:
that update still writes the options, so that `InlineStaysOff` excepts it.

The comment of `disableJitInline` says "DOES NOT WORK FOR NOW" (`Pine.java:562`), and "FIXME Offset for
inline_max_code_units_ seems to be incorrect" stands at the offset it uses (`jit.cpp:53`). Both are modelled: a
device has `names`, the option that is at this offset, which may be another one, with a value that
`DisableInline` takes for a normal one. Then the other option is set to zero, true is returned and
inlining goes on. `InlineStaysOff` is about devices whose offset is right; `InliningIsDisabled` is what the
comment promises of the returned value, and the code does not keep it (section 3). A vendor's runtime may also
have no function behind `jit_update_options_` (`updates`), which `ReplaceUpdate` then leaves alone.

The library is built for SDK 27 and up, so versions before N are left out (`StartAssumption`).
`NativeHookNoBackup` is one step here: whether the function jumps to the library or not. What it writes,
and under which handler, is in `Trampolines`.

### Trampolines

`address`, `offset` and `regions` are the allocator: the current page, the part of it in use, and
everything it has handed out. `Start` .. `Finish` or `Fail` are `hook0` between `SuspendVM` and
`ResumeVM`; `suspends` says whether the runtime offers a way to suspend the process. Where it does,
one installation runs at a time and no call can see the middle of it (`suspended`); where it does not,
installations of different methods run side by side.
`ReplaceEntry` ends a replacement installation. An inline one is `Unprotect`, `Backup`, `AllocBridge`,
`WriteBridge` and the patch, `BeginPatch` to `EndPatch`, cut where a write can run into a page that is
still protected. `NativeUnprotect` .. `NativeEnd` are `NativeHookNoBackup` of a function of libart, which
suspends nobody and which no suspension of Java threads stops.

`ScopedMemoryAccessProtection` replaces the `SIGSEGV` handler of the process (`handler`) and each scope puts
back what it has found (`saved`); the range that `HandleSignal` looks at is the one of the thread. `Fault` is a
write into a protected page under the handler of the moment: the application's ends the process, the
library's opens the page if it is in the thread's range. With two scopes open, an installation beside another
on a device that cannot suspend or beside `NativeHookNoBackup` on any, the one that was opened first may be
closed first: it puts the application's handler back under the other's patch, and the other later puts
the library's handler back for good. `crossed` records this. `FaultsAreInRange` says that otherwise no patch
ends the process unless `mprotect` fails, and `HandlerComesBack` that otherwise the application gets its
handler back; TLC refutes both without the exception.

Abstractions. Sizes are constants. `Slack` is what the backup adds to end on a whole instruction;
what the copied instructions are, and which of them cannot be copied (`CannotBackup`, which turns an
inline installation into a replacement before `Start`), is in `Backups`. A backup
that ends exactly where the code does has no rest to go on to; nothing is lost in letting it have one.
The retries of the handler (two) never run out, since a patch crosses at most one page boundary. Each
function is overwritten by one thread, once. On
x86 there is only replacement and no handler: a subset of the behaviours. `Thumb` is arm32, where a
code pointer is made odd: `ToPC` of null is 1, so the installer's test for null lets it pass.
`FillWithNop`, which only exported functions call, opens the same scope and is not modelled.

### Backups

Before an inline hook `hook0` asks two questions of the code, on arm32 by `CannotBackup`, and the
installation then walks over the same code a second time, by `GetBackupCodeSize`. Both walks are
`Offsets`: an instruction has four bytes when its first halfword says so (`IsThumb32`), otherwise two.
`words` is whatever lies behind the beginning of the code, as a function of the address; the walks read on from
there for as long as they go. The masks of the `INST_CASE`s are written as ranges of bits.

The 32-bit masks do not do what their comments say (`thumb2.cpp:48-56`). They are written for a word with the first
halfword of an instruction on top, and `CannotBackup` reads the word from memory, where it is at the
bottom: `IsThumb32PCRelatedInst(first, second) == Thumb32Cases(second, first)`. So no `b.w`, `adr.w`,
`tbb` or `tbh` is recognized, and they are copied like any other instruction
(`MasksMissTheirInstructions`). The module has no state, so this is a theorem and not a failing run.

### ArtMethodHook

`setup` is what does not change: the Android version, whether the method is Java, native or a
proxy's, static or not, whether `hook` may initialize the class (`canInit`), and what the device offers: a way to suspend the process (`suspends`), the state
"visibly initialized" (`visibility`) and the symbol that brings it about (`linker`). `Versions` has one
version for each side of every version test in the code: 23 (M, no JIT), 24 (N, records of the JIT
cannot be moved), 26 (O, `data_` survives `CopyFrom` only for what the code restores), 29 (Q, visible
initialization on some devices), 30 (R, the bit of "precompiled" is that of "critical native"), 31 (S,
`data_` holds the code item, nterp).

- `Resolve`, `MakeVisible`, `TryCompile` are `hookNewMethod` up to `hook0`; the mode, which
  `setHookMode` may change at any time, is a choice in `TryCompile`. `BeginHook0`, `Install`,
  `BackupFrom`, `AfterHook` are `hook0`. `BackupFrom` chooses by `moves` whether the JIT's records can
  be moved, and by `Copies` what `ArtMethod::CopyFrom`, or `memcpy`, leaves of `data_`.
- `ReadClass`, `WriteClass`, `WriteImpl`, `Invoke` are `callBackupMethod`: `syncMethodInfo` runs
  against the collector, `RegisterNatives` and other callers of the same backup.
- `BeginDecompile` and `EndDecompile` are `Pine.decompile` on another thread. They are two steps since
  `decompile0` runs in native code, which a suspension does not stop.
- `InitClass`, `JitCompile`, `JitCollect`, `MoveClass`, `RegisterNatives`, `CacheFastInvoke` are the
  runtime, which the repository only talks to. They do what the comments at the mapped lines say of it:
  `FixupStaticTrampolines` resets an entry, the collector frees compiled code that the ArtMethod in its
  record does not enter, and it corrects the class of the methods it knows, which the backup is not.

History variables: `lostBy` says whether `decompile` or the fixup has written the entry of an installed
method, `overlap` whether a change of the target has fallen into a call that has not ended, or one that
overlapped with such a call. Two callers write one backup, so a late write of the first makes the second stale
too; without such a change, `SyncedCallsAreFresh` promises both the truth. Locals of `syncMethodInfo`
are reset where they are dead.

Each property excepts only what the code cannot keep, and every exception is needed: TLC finds a
counterexample when it is dropped. `HookStays` and `CodeStaysAlive` need a process that can be
suspended; `HookStays` excepts `decompile`, and a class whose initialization the caller has forbidden
or whose visible initialization the device cannot bring about (`ClassSettled`); `CodeStaysAlive` excepts the inline
hook from O on, where `MoveJitInfo` hands the record of the patched code to a backup that does not
enter it. `PatchIsOwn` states what an inline hook presupposes; the code does not keep it (section 3).

Abstractions. Flags are a set of names for bits, entries are the kinds of code they lead to. Before N a
second entry (`interp`) is for the interpreter. Android L and below are left out, where ArtMethods are
Java objects that the collector treats as such. A compilation that is in flight when the method is
hooked, and would write the entry afterwards, is not modelled: the runtime re-checks the flag at points
the repository does not show. `InitMembers` is in `PineStart`.

### BridgeArgs

A run of the module is one call: `PassArgument` chooses a type and puts the argument where the
convention says (`Place`), `Call` ends the list, `ReadStack64` and `ReadWords` are the native readers,
and the `Decode` actions take one parameter each, as the loop of `handleBridge` does. A value is the
list of places that its words come from, so a decoder is right when it names the places of the caller.
The conventions are external: arm64 from N on and on M, where the bridge has as many parameters as the
method, arm32 before M (`soft`), from M (`hard`) and from S on (no long across registers and stack),
and x86. Every slot of the stack belongs to an argument whether it is passed there or not, which is
what the decoders rely on.

`ArgsAreThePassed` has two exceptions. On M an instance method has one argument more than its bridge
has registers for (`LostOnM`: the decoder reads 0), and a boolean that lies on the stack of arm64 is
compared with 0 together with the slot behind it (`BooleanWithNext`). `ArgsArePassed` is the statement
without them.

Abstractions. References, ints and everything smaller are words, as for the decoder. A register count
of four stands for seven and eight: the theorems hold for any.

### GdbPackets, GdbSignals, GdbServer, GdbService

A byte is a record of what it is and of the request it belongs to; the text of a packet is one byte.
`ReadPacket`, `ReadDataOnce` and `WriteFlush` are the loop of `get_request`: TCP hands over any part of
what was sent, a packet is acknowledged as soon as its start is seen, and one that is not yet whole is
processed all the same, which ends the process (`ProcessMisframed`). `InputInterrupt` and
`ReadInterrupt` are the handler of `SIGIO`, which runs in any thread that does not block the signal,
decides by `async_io_enabled` and then reads one byte of the same socket.

`ProcessPlain` stands for the packets whose answer does not depend on state; the others have an
action each. `EnableAsyncIo` .. `ResumeReply` are `vCont;c`, cut where the handler can run. The stub is
a thread of the process it serves, so `ptrace` and `waitpid` fail, and everything that is decided
on the status afterwards is decided on what was on the stack (`WaitReturns` chooses it). `SIGSTOP` to
another thread of the process stops the stub as well (`frozen`).

Other facts that the model rests on: the build is the one with assertions, for the parsing of most packets
sits inside an `assert`; `request_interrupt` and `vKill` signal a process group, which an app does not
lead; on arm64 the stub has no breakpoint instruction and answers `Z0` as unsupported (`ZOther`); an
answer that does not fit the buffer, such as a read of as much memory as `PacketSize` allows, ends the
process (`mLong`). A second start finds the port taken, or waits for a debugger of its own, which
is not given one.

The thread table is the one of the source, bounds that it lacks included. `InitTid` is one turn of
`init_tids`, which writes an entry per thread of the process and looks at no limit: the entry behind the table
lies over `curr`, and where pointers have four bytes over `len` too, the next ones over the breakpoints.
`curr` is then `Wild` until `Prepare` assigns it; whoever reads through it meanwhile, in a second start beside
a debugger's requests, ends the process (`CurrTraps`, `JudgeWild`). A later start writes over the table of
a running server entry by entry and counts on top of `len`. `SetCurrThread` compares with every entry: a step of thread
0 (`vContsZero`) selects the first free one, whose exit `check_exit` counts though no entry is vacated.

`GdbService` is the promise: answers in order, at most one each, with a text of their kind.
`RequestsAreAnswered` is the liveness half. `TypeOK`, `CurrIsOccupied` and `ListEndsInTable` are about
the table that all this leaves behind: `curr` points behind the table only inside a start, it names a free entry only
after a step of thread 0 or a later start, and `fThreadInfo`, which reads on until it has seen
`len` threads, ends in the table as long as there was one start that fitted.

### GdbText

What `GdbServer` takes as one byte, spelled out: `mem2hex` and `hex2mem`, the escapes of
`write_binary_packet` and their reading by `unescape`, which works in place (`Turn` is one turn of its loop), the frame that
`write_packet_bytes` writes and what `process_packet` asserts of a frame. Two digits are joined by a
bitwise or; with a digit that is none, -1, the result is never a checksum, which is why `Accepted`
can be arithmetic. The stub and the debugger frame their packets alike, so reading what
the stub writes stands for either direction.
`Registers` is the answer to `g`: `regs_map` names the words of `regs_struct` and how many bytes of each are sent. The
numbers of words and the indices of `sys/reg.h` come from the system's headers.

### RuntimePart, DumpDex, JvmRuntime, DexTools

`RuntimePart` is the runtime, which the repository only talks to (loaders appear, are collected,
`DexFile`s are closed, a packer decodes code in place), and what both libraries have a copy of:
`GetClassLoaders` adds a global reference to every loader and nobody deletes it; functions that were
looked up are called whether they were found or not. `died` names what the process has died of.

`DumpDex` is `libdump`. `StartDumpdex` .. `EndDumpdex` walk over loaders, elements and cookies, one
element and one file at a time, beside the runtime. `WriteDex` overwrites a file that may be there,
may be cut short, and notes address and dex file in `registered`. `DumpMethod` is `dumpMethod`: it finds
the file through `registered` and writes the code item over the one in it, as far as `CodeItemEnd`
finds it to reach. Memory and files are sequences of units, each of which knows whether it was
decoded. A write that is cut short, of a file or of a repair, makes the file `torn`; a repair that lies behind
the end of a torn file leaves a hole of `Zeros` before it. `FilesMatch` promises nothing of torn files. `JvmRuntime` is the walk of `libjvmRuntime` over one context's loader, whose files nothing
ever reads. `DexTools` starts the process anew at any time: the files stay, `registered` does not.

A path of more than 99 characters overflows its array (`dumpdex.cpp:84`, "overflow"), and below R the reference to the
method is taken for its ArtMethod ("no method"): both end the process, at best.

Abstractions. Whether a symbol is found is a choice here; `ElfSymbols` says what is found. A write is
one step, so the packer does not decode a method in the middle of one. `data_size_` of a dex file is
right.

### ElfSymbols, SoList, IfAddrs, SoInfo

`maps` is `/proc/self/maps`. Each copy of the resolver reads it anew at every call and appends to a
vector that is never cleared (`modules`), takes the first entry of a name with the right permissions,
maps the file and, in the copy of `libcheckvpn`, leaves the mapping there. `GetSymbolAddress` is
`ElfImg`, which reads the tables in the other order and unmaps. It does not look at what `lseek` and
`mmap` return: `OpenUnmapped` is the death of the process when they fail.

`SoList` is `text()`: `Clear` .. `CopyVector` are `linker_get_solist`, on the loading thread and on one
thread per call of `net_us`, without the linker's lock and with one vector for all. Two threads in the
vector at once are a data race: any interleaving, or a crash (`Corrupts`). A walk that comes to a
freed soinfo may end, go astray or crash. `FindNextOffset` finds the offset when the executable comes
second in the list and is lost in the vdso's entry otherwise. `PrintNames` reads the names through the layout of
`solist.h`, where a linker with another layout has no pointer, so that it may end the process on any list.

`IfAddrs` is `net_us` up to the start of the thread: `ReadAnswer` is one `RTM_NEWADDR` with its
attributes in any order. The socket of a call, and the list when it ended well, are never released.
The native methods of this demo are bound to a class that is not in the repository.

## 3. Runs

| run | instance | shows |
|---|---|---|
| `PineHook` | 3 threads, 1 method, 2 callbacks, 2 records | `InstalledOnce`, `RegistrationsAreLive`, `BridgeFindsRecord`, `CallSeesRegistered`, `UnhookedOnlyIfAbandoned` |
| `ExtrasLock` | 3 threads, 1 register, 2 values, with suspension | `MutualExclusion`, `ArgsIntact`, `HandsOver`, `WaitersProgress` |
| `CallChain` | 3 callbacks, every subset of them replacements, 2 results, 1 exception, 2 setters a turn | `TypeOK`, `FreshFrame`, `Transactional` |
| `PineStart` | 11 devices, 2 threads that initialize and set, 2 users | `InitializedOnce`, `DebuggableAgrees`, `SuspendedWhilePatching`, `NoCollectionIsSuspended`, `InlineStaysOff`, `MembersAreFound` |
| `Trampolines` | 2 threads, 3 methods on one page of code, 1 function at the end of a page, 2 free pages of 320 bytes, arm64 sizes | `RegionsDisjoint`, `EntriesAreWhole`, `FaultsAreInRange`, `HandlerComesBack` |
| `ArtMethodHook` | 6 versions, every kind of method and device, 2 callers, 2 places of the class, 2 native functions | `BackupIsOriginal`, `HookStays`, `CodeStaysAlive`, `SyncedCallsAreFresh` |
| `BridgeArgs` | 6 conventions, static or not, every list of at most 5 parameters of 5 types, 4 registers of each kind | `ArgsTypeOK`, `ArgsAreThePassed` |
| `GdbServer` | 11 kinds of requests, 2 in flight, 1 interrupt, 2 starts with 2 and 5 threads, tables of 3 threads and 1 breakpoint | `TypeOK`, `NoRequestIsLost`, `CurrIsOccupied`, `ListEndsInTable`, `AnswersInOrder`, `RequestsAreAnswered` |
| `DexTools` | 2 loaders, one with a null in a cookie and an element without a file, 1 method with a catch-all handler, 2 addresses, 2 starts | `RegisteredAreLive`, `FilesMatch`, `OnlyAClosedDexDangles` |
| `SoInfo` | 3 clients of 2 files, 3 functions, 3 walks, 1 library that is opened and closed | `ResolvedAreRight`, `ListIsWhole`, `LocalIsOwn` |
| `PineHookUnhook` | 2 threads | `UnhookIsHarmless` fails |
| `ExtrasLockSuspend` | 2 threads | `LockIsReleased` fails |

The two failing runs state what a comment of the repository says; each counterexample is recorded under
`findings` with the quoted line.

More that the code does not keep was met. Some of it is a formula in a module, which can be given to
TLC in place of the properties of its run:

- `OriginalCanBeCalled` (`PineHook`): the original can be called in every call. The trampoline is live
  before the backup is published.
- `PolicyIsDisabled` (`PineInit`): the policy is disabled when `disableHiddenApiPolicy` has returned. A
  call that comes between the reading of the settings and `initialized` writes only the field.
- `DebuggableAlwaysAgrees` (`PineInit`): the two copies of `debuggable` agree. Two threads that set it
  can cross between the field and native code.
- `InliningIsDisabled` (`PineStart`): inlining is off when `disableJitInline` has returned true ("`@return {@code
  true} if successfully disabled jit inlining`", in the comment that also says "DOES NOT WORK FOR NOW"). Not when the
  offset is that of another option, when ART's update has no symbol, or when ART is inside it.
- `NoWildEntry` (`Trampolines`, with `Thumb = TRUE`): a failed allocation of the bridge is 1 after
  `ToPC`, passes the test for null and becomes the entry.
- `PatchIsOwn` (`ArtMethodHook`): the patched code is the method's own.
- `ArgsArePassed` (`BridgeArgs`): the two exceptions above.

The rest shows in the models without a formula of its own. `input_interrupt` asserts that the byte it
reads is an interrupt, and aborts when it comes late and finds a packet (`ReadInterrupt`).
`disableProfileSaver` returns true, and the policy switch returns normally, after a failed `mprotect`
(`Patch`). On 32-bit devices from S on the default offset of the entry
is 24 while the search, given the native entry at 16, would say 20, and a second `init0` after the
defaults computes the entry's offset by the rule instead (`Members`). On 34 and later without the small
table of references `OffsetOfJavaVm` ends the process (`Aborts`).

Bounds. Methods share nothing in `PineHook` but the table, and every property speaks of one method at
a time, so one method suffices; two records let a lost registration happen (a second record for the
method); three threads let a third act between two that race. In `ExtrasLock` three threads give a
holder, a spinner with an open monitor and one that sleeps; one register is enough for the lock, and
a copy torn between registers is what `ArgumentsSurvive` proves for any set of them. In `CallChain`
three callbacks have a first, a middle and a last, and two setters a turn let a callback overwrite
its own outcome. In `PineStart` two threads race to initialize and to change settings, and two
users are one that has suspended the process and one that has not; initializations that throw are
repeated without a bound. One device has the calls of `setDebuggable` besides the others; on the
rest the threads initialize and disable the policy. Two devices have words that look like a member, one of them before the
search stops; on one the offset of the inlining option names another, on one ART's update cannot be replaced
and on one there is none. The devices have one version for each side of every version test, and each
symbol whose absence the code handles is absent in one of them. In `Trampolines` a page of 320 bytes holds
two bridges, or one and some backups, so pages are given up half used and memory runs out in the
middle of installations; the three places of code are the beginning, the middle and the last bytes of
a page, of which only the last makes a patch cross into the next page; the function lies where its jump
crosses too, so that with two installers three scopes can be open. In `ArtMethodHook` two callers
are enough for one to disturb the other, and two places and two functions for old and new; a method is
hooked once, and methods share nothing there. In `BridgeArgs` five parameters exhaust four registers of
each kind and leave one on the stack, with any hole that a double leaves on arm32. In `GdbServer` two
requests in flight (`WINDOW`, `MAX_REQUESTS`) are one whose end is still missing and one behind it; with
two threads at the first start one entry of three stays free, and five at the second overwrite `curr` and
a breakpoint (a first start that overruns differs only in that nobody reads meanwhile; the theorems
cover it); while one start fills the table no other begins; `IN_SIZE` holds two
requests but no interrupt besides, `OUT_SIZE` is exceeded by the one long answer; the handler of a signal is pending once,
as signals are. `Kinds` has one member of each class of requests, `AllKinds` all of them. In `DexTools` an
address is used again by another dex file, by a loader after it was collected and by a process after a
restart; `MAX_GLOBALS` of 2 makes the table of references overflow at the second visit of both
loaders. In `SoInfo` three walks are one at the load and two that overlap, and `SPACE` leaves room for
a mapping before and after those of the linker. `MaxOps` bounds the setters of a turn and `Records` the
records ever allocated.

Deadlock. `CHECK_DEADLOCK FALSE` stands where the system really stops: a call that has ended
(`CallChain`), the suspension deadlock (`ExtrasLock`), when every method is installed or the process has
died (`Trampolines`), and a process that has been aborted, has died for the last time or has crashed
(`PineStart`, `DexTools`, `SoInfo`).

Fairness. `ExtrasLock`: a thread inside a call keeps running (weak fairness of each thread's step,
which the scheduler gives), and the runtime completes and ends a suspension it has begun. Beginning a
call or a suspension is not fair. `WaitersProgress` has the hypothesis that nothing is suspended;
`LockIsReleased` is the same without it and fails. It speaks of some call getting through, not of
each: the lock is not fair, and a waiter may lose every race.
`GdbServer`: the scheduler runs the stub's thread (weak fairness of `Server`); nobody makes the debugger
send, the button be pressed or the handler run. `RequestsAreAnswered` excepts the end of the process and the
loop of `vCont;c`, which the undefined status may never let the stub leave.

Each property of a passing run has a mutant in `PROJECT.json`: a definition changed as a plausible bug
would change it (marked `Fault:` in the modules, or named for what goes wrong), which TLC finds violating the property.

## 4. Proofs

The proofs are for every value of the constants under the named assumptions of each module, which
only say that the null values are not members of their sets (`RecordAssumption`, `MethodAssumption`,
`CallbackAssumption`, `ExtrasAssumption`, `ThrowableAssumption`), that there is at least one callback
(`NAssumption`) and that the sets of `PineInit` are what they are called (`InitAssumption`). Those of `Trampolines` are that sizes are numbers, a
trampoline fits a page and the copied code fits the space in its trampoline (`SizeAssumption`), that `mmap`
does not return page 0 (`PlaceAssumption`), and that threads and functions are told apart (`ThreadAssumption`). Those of `ArtMethodHook` are that versions are numbers
(`VersionAssumption`) and that null and the other contents of `data_` are no places of classes and no
functions (`ClassAssumption`, `ImplAssumption`). Those of `PineStart` are that there is a user and that
versions are N or later (`StartAssumption`), and that ART keeps the entry point right behind the native
function, aligned as of O (`LayoutAssumption`); of `BridgeArgs` that there are some registers, the
floating-point ones in pairs (`AbiAssumption`), and of `GdbServer` that the tables have an entry and
bounds are numbers (`TableAssumption`, `SizesAssumption`, `KindsAssumption`). Those of `DexTools` are that
opening a file makes dex files that nothing else makes (`FilesAssumption`), that a loader's elements and
cookies are sequences of such files (`RuntimeAssumption`), and that a handler handles something
(`HandlersAssumption`: in a dex file a handler's size of 0 means a catch-all, so that one without pairs or
catch-all cannot be written down); `StartsAssumption` bounds the
restarts. Those of `SoInfo` are that the linker maps files at distinct places and that the two symbol tables
of a file agree where both define a symbol (`ImageAssumption`), that the soinfos of the linker, the vdso and the
executable are none of the opened ones (`SosAssumption`), that somebody walks (`WalkersAssumption`), and
that an interface's address is not its peer's (`AddressAssumption`).
TLC evaluates all of them in the runs.

**PineHookProofs.** All invariants of the passing run, and `TypeOK`. None is inductive alone.
`InstalledOnce` needs that the record a thread is installing is the one in the table (`Locals`) and
that a record belongs to one method for good (`Ownership`): then a second thread finds a record and
never installs. `BridgeFindsRecord` needs `Bridges`: a live trampoline has a record with parameter
types, because `hook0` comes after they are stored. `CallSeesRegistered` needs `Decisions`: until a
call takes its snapshot, `must` is within the record's callbacks and those within `may`. `IInv` is
their conjunction, proved with a lemma for each part and a step for each action.

**ExtrasLockProofs.** `MutualExclusion` follows from `Reserved`: a monitor that is still open at the
`stlxr` means that the flag is still free, as every store since would have closed it. `ArgsIntact`
needs `Progress`, which follows the registers into the Extras and on into the clone.
`BridgeHandsOver` is the refinement: `Call` begins a hand-over, the last register copied completes
it, `Finish` ends it, all else stutters. All hold with suspension: what suspension breaks is
progress only.

**CallProofs.** Two modules that share nothing but the call. Of `CallChain`: `Consistent`: a frame that is not marked is blank, and holds a result or an
exception, not both; with it `FreshFrame`, and `Indices` (the first loop never passes a replacement)
for `ReplacementReplaces`: a chain with a replacement never gets to the original, which is proved and
not run. `ChainIsTransactional` is the refinement: each end of a turn is a step of
`CallOutcome`, each setter a stutter, since the outcome counts only when the turn ends.

Of `BridgeArgs`, for arm64 and any numbers of registers and parameters. `ArgsInv` says that while
decoding each index is the number of parameters of its kind so far, up to the size of its array, and
that the entry of `stack` for a parameter is its slot; the caller's placement is a function of the
same counts (`PlaceAtType`), so that decoder and caller agree. The lemmas about `Count` are what that needs
of cardinalities. On arm32 and x86 `ArgsAreThePassed` is model-checked only: the caller takes the first
register that is free, the decoder keeps indices, and their agreement is a fact about all lists of
floats and doubles.

**PineInitProofs.** `Monitor`: the monitor is held exactly inside the synchronized blocks.
`Copied` says which of the two copies each thread has yet to write, from which `CopiesAgree` follows for any number
of threads that set and initialize. `StartImplementsInit` is the refinement that makes
both theorems hold of `PineStart`: each of its steps is one of `PineInit`, or leaves the variables of
`PineInit` alone. `StartInv` is the invariant of what `PineStart` adds: `Statics` says that the
functions found are those of the device, so that whoever can suspend can resume; `Suspension` that the
runtime is suspended only for a user at its patch, and that a section of the collector belongs to the
one user between entering it and suspending; `Inlining` how far a user is with the pointer to ART's
update. The device is any of `Environments`, constrained by its version and its layout only.
`MembersAreWhereTheyAre` is about the loop of the search, for any layout of `LayoutAssumption` and any other words:
`LoopSees` is the induction over its turns (what has been seen after k of them), with `Unmisled` and
`LooksRight` for one turn; `MembersAreTheLayout` adds the later searches and the rule for the entry point. `Located` is
its invariant: an `init0` finds the statics unset or as an earlier one has set them, so a repeated search
computes the same.

**TrampolinesProofs.** `Allocated` is about the allocator: each region lies in the page it begins in,
those of the current page end at or before `address + offset`, and regions of other pages are apart
because a new page is one that has none; `RegionsAreDisjoint` follows for every page size and any
number of threads. `Owners`: a busy thread owns the method it installs. `Entries`: how far each busy
thread is with its method (`Local`), and what every other method is. `EntriesStayWhole` and
`EntriesAreNeverWild` assume `~Thumb`, which they need in one place only, where the failed allocation
of the bridge is seen. `FaultsStayInRange` needs no run's values of `CodeAt`: it is for code aligned by any
number that also divides the page and the sizes written, as instructions are. `Opened` says that the page
a method or a function begins in can be written from `Unprotect` to the end of its patch; that the second page of
a patch that crosses begins within the range of the handler is the arithmetic of `SecondPageInRange` and
`SecondPageOfFunction`. `Handlers` is the invariant of the scopes: until some have crossed, exactly one open scope has
found the application's handler, and the library's is installed while it is open; from it
`FaultsStayInRange` and `HandlerIsGivenBack` follow for any number of scopes.

Of `Backups`, for any code. `OffsetsAre` says where instructions can begin, `BackupReaches` that a walk ends.
`BackupIsWhole`: what is copied is what is overwritten or two bytes more, ends where an instruction
ends, and is never beyond code that does. `BackupFits` ties it to `Trampolines`: it is
one of the choices of the action `Backup`, and the copy fits the trampoline. `NothingRelatedIsCopied`: with the
checks of `hook0` the two walks agree, so that no instruction that is copied, the last one included, is one
`CannotBackup` looks for. `MasksMissTheirInstructions` says which it does not look for.

**ArtMethodHookProofs.** All invariants of the run and `TypeOK`, with a lemma for each part of `IInv` and a
step for each action. `ClassInv`: a settled class is visibly initialized before the installation, so
the fixup cannot come later; with it, and `FlagsInv` (what AfterHook and a decompile that is under way
write: "do not compile", no fast invocation), `HookInv` says that nothing but the two exceptions takes
the entry from the hook. `EntryInv` ties `data_` and the entries to the kind of the method, from which
`BackupIsOriginal` is preserved through `BackupFrom`. `JitInv` follows the JIT's record from the target
to the backup or to its release: whoever enters compiled code is named in its record, which gives
`CodeStaysAlive`. `SyncInv` says how far each call is with what it has read.

**GdbServerProofs.** `ThreadsInv` and `LaunchInv` are the invariant of the table: `curr` is NULL, names an entry,
or is written over by a start under way; it is NULL only before the first start and in the loop of
`vCont;c`, after `CheckExit`; while the first start fills the table, its entries are taken up to the one
written last. `ListEnds` follows the count through each action: `InitTid` adds an entry with each count,
`CheckExit` takes from the count and at most one entry. `Occupation` says which entry `curr` may name
without a thread, for `CurrAlwaysOccupied`; it needs `Buffers`, for a step of thread 0 has been asked before it is
processed. `Buffers` is the invariant of the stream: what is buffered and on the way,
taken together, is framed (`Framing`: each byte is followed by the one that belongs behind it) and holds
the requests that have not been processed, each once and in order (`Numbering`). Four operations cut
this sequence, and each has a lemma about sequences: dropping a prefix (`skip_to_packet_start`,
`inbuf_erase_head`), appending (the debugger), taking from one part to the other (`read_data_once`) and
removing an interrupt (the handler). `HeadPacket` is why the erased part is exactly a packet. From it
follow `NoRequestIsLost` and, with `Answering` (what `out` holds between a handler and the flush), the
refinement of `GdbService` and the types. `SignalsSurvive` is a fact about the two tables.

**ToolsProofs.** Two compositions and the text of the gdb stub, which share nothing with each other.
Of `SoInfo`: `SymbolsResolveRight` needs `MapsOK`, that the executable mapping of a library stays where the
linker has put it and that what the resolvers leave behind can be told from it by its permissions, and
`ModulesOK`, that a module which a copy remembers is where it says, both unless somebody else has mapped
the file like a library (`foreign`). `WalksAreWhole` needs `ListOK` (the linker is at the head of its list and
no soinfo is in it twice) and `WalkInv`: a walk that nobody has disturbed has gathered the list up to where it is. `EntriesAreLocal`
is about one fold over the attributes of an answer: `Partly` says what the entry holds after the first
k of them, in whatever order they come.

Of `DexTools`: `ToolsInv` is what keeps addresses alive. A loader that a visit has found is held by its
references, so its files stay mapped and only `DexFile.close` can make a registered address dangle
(`RegisteredStayMapped`, `OnlyClosingDangles`). `DumpsMatch` adds `FilesInv`: two dex files that are mapped
are not mapped at one place (`BeginsOnce`), so the dex file registered under an address is the one that
is there when a method of it is repaired, and the repair writes the right units at the right place.
That a repair is a whole code item rests on `codeitem_end`, which is where most of the lemmas are: the
layout of a dex file is a fold over its methods, the handlers are a recursive function. Facts about
them are by induction over the number of elements; `Induction` is proved from the least number of a
set (`NatMin`), which needs no operator for a parameter.

Of `GdbText`, for any bytes. `HexReadsBack` and `EscapesReadBack` say that digits and escapes can be read
back, and that neither contains the bytes that begin and end a packet; the second is by
induction over the turns of `unescape`, of which the first k have read k of the escaped bytes (`UnescapeTurns`). Without
such a byte `PacketIsAccepted` says that `process_packet` finds the end, accepts the checksum and has the
data, whatever follows in the buffer. `RegistersReadBack` says that a debugger that knows the sizes
finds each register, and `MapsOverlook` what the maps do not give it: the last five entries for arm64
(`arch.h:214-218`) are behind the 34 words of `regs_struct`, and size 4 leaves the upper half of every
register of arm64 out.

Only model-checked: `WaitersProgress` and `RequestsAreAnswered`, as liveness under fairness is
beyond the prover; `ArgsAreThePassed` on arm32 and x86; and the failing statements. Every other invariant and
action property of a run is stated by a theorem.

## 5. Not modelled

`PROJECT.json` gives the status of every component. What is left out, and why:

- `jvmti.h` (two copies) and `gdb_signals.h` are vendored headers; the descriptions of registers that
  `arch.h` holds for the debugger, and its map for 32-bit x86, for which there is no `getRegister`;
  the layouts in `RuntimePart.h` are taken as those of the runtime, which the repository does not hold.
- The instructions that `arm64.cpp` does not copy: one list of masks over instructions of one size, where
  nothing of what `Backups` says of the walks can go wrong. `FillWithNop`, which
  only exported C functions call, and the bytes that `NativeHookNoBackup` writes.
- What the application's own `SIGSEGV` handler does, and that it may be replaced by the application
  while a scope is open.
- The lock of arm32 (that of arm64 but for one `wfe`), and x86, which has none.
- The flag of `setJitCompilationAllowed`, `thread.cpp` and the holders of local references: wrappers
  around functions of the runtime.
- A compilation that is in flight when a method is hooked, and Android L and below
  (`ArtMethodHook`); what a critical native on R expects of its arguments, of which the backup loses the flag
  (`art_method.cpp:234`).
- Which of its three places `RelativeOpen` takes a file from, and the parsing of ELF headers: what they
  yield are constants of `ElfSymbols`.
- The serving of a second debugger by a second server, which shares all its buffers with the first:
  every byte is a race, and nothing can be promised of it.
- `hookvpn.cpp`, which nothing calls, and the app shells, which are user interface.

What could come next: the decoder of arm32 proved as that of arm64 is; an abstract interception that
`PineHook` implements; the semantics of what a backup copies, against a small instruction set.
