---------------------------- MODULE JvmRuntime ------------------------------
(***************************************************************************)
(* libjvmRuntime: JvmRuntime.java and native-lib.cpp.  dumpdex writes the  *)
(* dex files of a context's class loader, which the context keeps alive.   *)
(* What it writes, to files that are named by hash codes, is not kept:     *)
(* nothing ever reads it.                                                  *)
(***************************************************************************)
EXTENDS RuntimePart

VARIABLES jat,      \* the element that the walk is at
          arrays    \* the cookie, then what is left of the arrays of its files

jvmVars == <<jat, arrays>>

JvmInit == jat = 0 /\ arrays = <<>>

InJvm(step) == Alive /\ pc = step /\ "jvm" \in loaded
LoadSo == SystemLoad("jvm") /\ UNCHANGED jvmVars

FindClass == VisitInVain("jvm") /\ UNCHANGED jvmVars
NativeLoadJvmTI == LoadJvmTI("jvm") /\ UNCHANGED jvmVars

DumpContext(l) ==
  /\ InJvm("idle") /\ loader[l] = "live"
  /\ context' = l /\ Goes("jvm")
  /\ UNCHANGED <<jvmVars, mainVars, envVars>>

\* Any exception but an IOException ends the dump.
Stops == jat' = 0 /\ arrays' = <<>> /\ context' = NoContext
DumpEnds == Stops /\ Goes("idle")

\* Neither an element without a DexFile nor a cookie that is null is expected.
DumpContextElement ==
  /\ InJvm("jvm") /\ arrays = <<>> /\ jat < Len(Elements[context])
  /\ IF Elements[context][jat + 1] = NoDex \/ <<context, jat + 1>> \in closedCookie
     THEN DumpEnds
     ELSE arrays' = Elements[context][jat + 1] /\ Goes("copy") /\ UNCHANGED <<jat, context>>
  /\ UNCHANGED <<mainVars, envVars>>

\* native dumpDexByCookie: a copy of each dex file, data_size_ bytes long, and
\* null for a null; what has been freed is read all the same.
CopyDexFiles ==
  /\ InJvm("copy")
  /\ IF \E d \in Range(arrays) : d # Null /\ begin[d] = 0
     THEN Stops /\ Dies("dangling")
     ELSE jat' = jat + 1 /\ Goes("jvm") /\ UNCHANGED <<arrays, context>>
  /\ UNCHANGED <<mainVars, envVars>>

\* A file that cannot be written is left out.
WriteArray ==
  /\ InJvm("jvm") /\ arrays # <<>>
  /\ IF Head(arrays) = Null THEN DumpEnds
     ELSE arrays' = Tail(arrays) /\ Goes("jvm") /\ UNCHANGED <<jat, context>>
  /\ UNCHANGED <<mainVars, envVars>>

EndDumpContext ==
  /\ InJvm("jvm") /\ arrays = <<>> /\ jat = Len(Elements[context])
  /\ DumpEnds /\ UNCHANGED <<mainVars, envVars>>

JvmLib ==
  \/ LoadSo \/ FindClass \/ NativeLoadJvmTI \/ (\E l \in Loaders : DumpContext(l)) \/ DumpContextElement \/ CopyDexFiles
  \/ WriteArray \/ EndDumpContext
=============================================================================
