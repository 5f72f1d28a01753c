------------------------------ MODULE DumpDex -------------------------------
(***************************************************************************)
(* libdump: LoadEntry.java, dumpdex.cpp and art_method.cpp.  dumpdex walks *)
(* over the class loaders and writes the dex files behind their cookies,   *)
(* one file per address; dumpMethod writes the code item of a method,      *)
(* which may have been decoded since, into the file of its dex file.       *)
(* Memory and files are sequences of units: a header, then the code items. *)
(***************************************************************************)
EXTENDS RuntimePart

CONSTANTS Handlers    \* the catch handlers of each method's code item, by try

\* A handler handles something: a size of 0 is that of one that catches all.
ASSUME HandlersAssumption ==
  /\ IsFiniteSet(Methods)
  /\ \A m \in Methods :
       /\ Handlers[m] \in Seq([pairs : Nat, catchAll : BOOLEAN])
       /\ \A h \in Range(Handlers[m]) : h.pairs > 0 \/ h.catchAll

VARIABLES contextSet,   \* LoadEntry.context has been assigned
          getCodeItem,  \* whether JNI_OnLoad has found ArtMethod::GetCodeItem
          at,           \* the element that the walk is at, <<loader, index>>
          cookie,       \* what is left of the cookie of the element
          files,        \* what each file on disk holds, by the address in its name
          registered,   \* dex_fd_maps
          torn          \* files that the last write has not written whole

dumpVars == <<contextSet, getCodeItem, at, cookie, files, registered, torn>>

NoElement == <<>>
Nothing == "nothing"

\* dex_fd_maps is in memory, the files are not.
DumpInit ==
  /\ contextSet = FALSE /\ getCodeItem = FALSE /\ at = NoElement /\ cookie = <<>>
  /\ registered = [b \in Begins |-> Nothing]

-----------------------------------------------------------------------------
(* The code item and its end (external: what the encoding of a dex file is).  *)
HandlerTokens(h) == <<IF h.catchAll THEN 0 - h.pairs ELSE h.pairs>>
                    \o [k \in 1..(2 * h.pairs) |-> 0]
                    \o (IF h.catchAll THEN <<0>> ELSE <<>>)
Tokens(m) == <<Len(Handlers[m])>> \o FlattenSeq([k \in DOMAIN Handlers[m] |-> HandlerTokens(Handlers[m][k])])

\* Fault: what handles any exception is left out.
AfterPairs(size) == 1 + 2 * (IF size <= 0 THEN 0 - size ELSE size)

\* codeitem_end: how many numbers a handler takes, its size being signed.
AfterHandler(size) == AfterPairs(size) + (IF size <= 0 THEN 1 ELSE 0)

CodeItemEnd(tokens) ==
  LET end[k \in 0..tokens[1]] == IF k = 0 THEN 1 ELSE end[k - 1] + AfterHandler(tokens[end[k - 1] + 1])
  IN  end[tokens[1]]

\* dumpMethod: the unit of registers, tries and instructions, and the handlers
\* when there are tries.
CodeItemLen(m) == IF Handlers[m] # <<>> THEN 1 + CodeItemEnd(Tokens(m)) ELSE 1
CodeItemUnits(m) == 1 + (IF Handlers[m] # <<>> THEN Len(Tokens(m)) ELSE 0)

\* The dex file in memory: what is where, and whether it is decoded.
MethodsOf(d) == {m \in Methods : DexOf[m] = d}
MethodSeq(d) == SetToSeq(MethodsOf(d))
CodeItem(m) == [k \in 1..CodeItemUnits(m) |-> <<m, k>>]
Layout(d) == <<<<d, 0>>>> \o FlattenSeq([k \in DOMAIN MethodSeq(d) |-> CodeItem(MethodSeq(d)[k])])
Memory(d) == [k \in DOMAIN Layout(d) |-> <<Layout(d)[k], Layout(d)[k][1] \in decoded>>]
OffsetOf(m) == (CHOOSE o \in DOMAIN Layout(DexOf[m]) : Layout(DexOf[m])[o] = <<m, 1>>) - 1

\* write at an offset, over what is there; behind the end of a file that has
\* not been written whole it leaves a hole.
Zeros == <<<<>>, FALSE>>

WriteAt(file, offset, units) ==
  [k \in 1..(IF Len(file) > offset + Len(units) THEN Len(file) ELSE offset + Len(units)) |->
    IF k \in (offset + 1)..(offset + Len(units)) THEN units[k - offset]
    ELSE IF k <= Len(file) THEN file[k] ELSE Zeros]

-----------------------------------------------------------------------------
(* LoadEntry.dumpdex                                                          *)
InDump(step) == Alive /\ pc = step /\ "dump" \in loaded

JNI_OnLoad ==
  /\ SystemLoad("dump")
  /\ getCodeItem' \in BOOLEAN
  /\ UNCHANGED <<contextSet, at, cookie, files, registered, torn>>

\* The context of entry() is assigned to the parameter, so that somebody else
\* must have set the field.
SetContext ==
  /\ Alive /\ pc = "idle" /\ ~contextSet
  /\ contextSet' = TRUE
  /\ UNCHANGED <<getCodeItem, at, cookie, files, registered, torn, runtimeVars>>

GetBaseDexClassLoaders == GetClassLoaders("dump")

\* dumpdex throws, and does nothing, when there is no context.
StartDumpdex ==
  /\ InDump("idle") /\ contextSet
  /\ GetBaseDexClassLoaders
  /\ at' = NoElement
  /\ UNCHANGED <<contextSet, getCodeItem, cookie, files, registered, torn, loaded, hooks, context, envVars>>

\* The next element of the loader, or the first of the next one.
HasNextElement == at # NoElement /\ at[2] < Len(Elements[at[1]])

NextElement ==
  \/ /\ HasNextElement
     /\ at' = <<at[1], at[2] + 1>> /\ UNCHANGED visited
  \/ /\ ~HasNextElement /\ visited # <<>>
     /\ at' = <<Head(visited), 1>> /\ visited' = Tail(visited)

\* An element without a DexFile is skipped; a DexFile that has been closed has
\* no cookie, and the length of null is what CheckJNI and the runtime abort for.
ConvertJavaArrayToDexFiles(e) ==
  CASE Elements[e[1]][e[2]] = NoDex -> cookie' = <<>> /\ Goes("dump")
    [] e \in closedCookie -> cookie' = <<>> /\ Dies("closed")
    [] OTHER -> cookie' = Elements[e[1]][e[2]] /\ Goes("dump")

DumpElement ==
  /\ InDump("dump") /\ cookie = <<>>
  /\ NextElement /\ ConvertJavaArrayToDexFiles(at')
  /\ UNCHANGED <<contextSet, getCodeItem, files, registered, torn, refs, loaded, hooks, context, envVars>>

EndDumpdex ==
  /\ InDump("dump") /\ cookie = <<>> /\ ~HasNextElement /\ visited = <<>>
  /\ at' = NoElement /\ Goes("idle")
  /\ UNCHANGED <<contextSet, getCodeItem, cookie, files, registered, torn, mainVars, context, envVars>>

\* dumpDexByCookie for one dex file.  When its file cannot be opened the rest
\* of the cookie is left out; one that is not written whole is registered too,
\* and a name that is registered keeps the dex file that it had.
WriteDex(d) ==
  LET b == begin[d] IN
  /\ registered' = [registered EXCEPT ![b] = IF @ = Nothing THEN d ELSE @]
  /\ \/ /\ files' = [files EXCEPT ![b] = WriteAt(@, 0, Memory(d))]
        /\ torn' = torn \ {b}
     \/ /\ files' = [files EXCEPT ![b] = WriteAt(@, 0, <<Head(Memory(d))>>)]
        /\ torn' = torn \union {b}
  /\ cookie' = Tail(cookie)

Leaves(rest) == cookie' = rest /\ UNCHANGED <<files, registered, torn>>

DumpOne(d) ==
  \/ /\ begin[d] = 0
     /\ Leaves(<<>>) /\ Dies("dangling")
  \/ /\ begin[d] # 0                                  \* a path longer than its array
     /\ Leaves(<<>>) /\ Dies("overflow")
  \/ /\ begin[d] # 0
     /\ Leaves(<<>>) \/ WriteDex(d)
     /\ Goes("dump")

\* Fault: nulls are not skipped.
DumpEntry(d) == IF d = Null THEN Leaves(<<>>) /\ Dies("dangling") ELSE DumpOne(d)

\* A null is skipped.  A dex file that has been freed since the cookie was
\* read is read all the same: the process dies at best.
DumpEntryUnlessNull(d) == IF d = Null THEN Leaves(Tail(cookie)) /\ Goes("dump") ELSE DumpOne(d)

DumpDexByCookie ==
  /\ InDump("dump") /\ cookie # <<>>
  /\ DumpEntryUnlessNull(Head(cookie))
  /\ UNCHANGED <<contextSet, getCodeItem, at, mainVars, context, envVars>>

-----------------------------------------------------------------------------
(* dumpMethod                                                                 *)

\* Entries whose dex file is gone: their address and size are read from freed
\* memory, and the method may seem to lie in them.
Stale == {b \in Begins : registered[b] # Nothing /\ begin[registered[b]] # b}

\* GetDexFileByArtMethod finds the file by the range that it was registered
\* with; the code item has the offset that it has in memory.
Containing(m) == {b \in Begins : registered[b] = DexOf[m] /\ begin[DexOf[m]] = b}

\* The code item as far as dumpMethod has found it to reach.
FoundCodeItem(m) ==
  SubSeq(Memory(DexOf[m]), OffsetOf(m) + 1, OffsetOf(m) + CodeItemLen(m))

FixCodeItem(m) ==
  \/ UNCHANGED <<files, torn>>                         \* open or write fails
  \/ /\ Containing(m) # {} /\ UNCHANGED torn
     /\ files' = [b \in Begins |-> IF b \in Containing(m)
                    THEN WriteAt(files[b], OffsetOf(m), FoundCodeItem(m)) ELSE files[b]]
  \/ \E b \in Stale \union Containing(m) :            \* or is cut short
       torn' = torn \union {b} /\ UNCHANGED files

\* Without GetCodeItem a null is called, and freed memory may be gone.  Before API 30
\* GetCodeItem gets the reference to the Method for an ArtMethod.
DumpMethod(m) ==
  /\ InDump("idle") /\ begin[DexOf[m]] # 0
  /\ \/ ~getCodeItem /\ Dies("no symbol") /\ UNCHANGED <<files, torn>>
     \/ getCodeItem /\ Dies("no method") /\ UNCHANGED <<files, torn>>
     \/ getCodeItem /\ Stale # {} /\ Dies("dangling") /\ UNCHANGED <<files, torn>>
     \/ getCodeItem /\ FixCodeItem(m) /\ Goes("idle")
  /\ UNCHANGED <<contextSet, getCodeItem, at, cookie, registered, mainVars, context, envVars>>

\* dumpMethod() without arguments looks for a method that is not there.
DumpMethodOfLoadEntry == VisitInVain("dump") /\ UNCHANGED dumpVars
AutodumpDex == LoadJvmTI("dump") /\ UNCHANGED dumpVars

DumpLib ==
  \/ DumpMethodOfLoadEntry \/ AutodumpDex
  \/ JNI_OnLoad \/ SetContext \/ StartDumpdex \/ DumpElement \/ EndDumpdex \/ DumpDexByCookie
  \/ \E m \in Methods : DumpMethod(m)
-----------------------------------------------------------------------------
\* What dumpMethod repairs through dex_fd_maps is still there: a dex file whose
\* address has been noted is not freed and its address not reused, because the
\* visitor's references, which nobody deletes, keep its loader.  Only a close
\* of the DexFile frees it (dumpdex.cpp:98, RuntimePart.cpp:82).
RegisteredAreLive ==
  \A b \in Begins :
    registered[b] # Nothing => begin[registered[b]] = b \/ registered[b] \in freedOpen

\* A file that has been written whole begins with its dex file, every code item
\* at its place and either all as it was dumped or all as it was repaired, even
\* when the file was there before (dumpdex.cpp:91, 140-143).
FilesMatch ==
  \A b \in Begins \ torn :
    LET d == registered[b]
    IN  d # Nothing /\ d \notin freedOpen =>
          /\ Len(files[b]) >= Len(Layout(d))
          /\ \A k \in DOMAIN Layout(d) : files[b][k][1] = Layout(d)[k]
          /\ \A m \in MethodsOf(d) :
               \E x \in BOOLEAN : \A k \in DOMAIN CodeItem(m) : files[b][OffsetOf(m) + k][2] = x
=============================================================================
