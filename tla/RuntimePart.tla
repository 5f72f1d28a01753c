---------------------------- MODULE RuntimePart -----------------------------
(***************************************************************************)
(* The runtime's class loaders and the dex files behind them, and how      *)
(* RuntimePart.cpp and jvmti.cpp, of which libdump and libjvmRuntime have  *)
(* a copy each, get at them.  One thread, the main thread of the app, runs *)
(* the libraries; the app and its collector go on beside it.               *)
(***************************************************************************)
EXTENDS Integers, Sequences, FiniteSets, SequencesExt

CONSTANTS Loaders,      \* class loaders that the app may create
          DexFiles,     \* DexFile objects of the runtime
          Elements,     \* Elements[l]: dexElements, each NoDex or the files of a cookie
          Methods,      \* methods whose code an app decodes when it runs them
          DexOf,        \* the dex file of each method
          Begins,       \* addresses at which dex files are mapped
          NoDex, Null,  \* an element without a DexFile, a null in a cookie
          MAX_GLOBALS   \* size of the table of global references

ASSUME RuntimeAssumption ==
  /\ MAX_GLOBALS \in Nat
  /\ DexOf \in [Methods -> DexFiles] /\ Null \notin DexFiles
  /\ Begins \subseteq Nat \ {0} /\ IsFiniteSet(Loaders)
  /\ \A l \in Loaders :
       /\ Elements[l] \in Seq(Range(Elements[l])) \ {<<>>}
       /\ \A e \in Range(Elements[l]) : e = NoDex \/ e \in Seq(DexFiles \union {Null})

CookieFiles(l, i) == {d \in Range(Elements[l][i]) : d # Null}
FilesOf(l) == UNION {CookieFiles(l, i) : i \in {j \in DOMAIN Elements[l] : Elements[l][j] # NoDex}}

\* Every opening of a file makes dex files of its own.
ASSUME FilesAssumption == \A k, l \in Loaders : k # l => FilesOf(k) \intersect FilesOf(l) = {}

VARIABLES loader,       \* "none", "live" or "collected"
          refs,         \* global references to each that a visitor has added
          begin,        \* where each dex file is mapped, 0 if it is not
          decoded,      \* methods whose code is decoded in memory
          closedCookie, \* elements whose DexFile has been closed
          freedOpen,    \* dex files freed by a close while their loader lived
          layout,       \* whether the version is one of get_heap_to_jvm_offset
          pc,           \* what the main thread does: "idle" or what it is in
          died,         \* what the process has died of, "alive" while it lives
          context,      \* the loader of the context that is being dumped, or NoContext
          visited,      \* the class loaders of the last visit
          loaded,       \* libraries in the process
          hooks         \* global references to Activity that LoadJvmTI has made

envVars == <<loader, begin, decoded, closedCookie, freedOpen, layout>>
mainVars == <<refs, visited, loaded, hooks>>
NoContext == "none"
runtimeVars == <<envVars, mainVars, pc, died, context>>

ProcessInit ==
  /\ loader = [l \in Loaders |-> "none"] /\ refs = [l \in Loaders |-> 0]
  /\ begin = [d \in DexFiles |-> 0] /\ decoded = {}
  /\ closedCookie = {} /\ freedOpen = {}
  /\ pc = "idle" /\ died = "alive" /\ context = NoContext
  /\ visited = <<>> /\ loaded = {} /\ hooks = 0

Alive == died = "alive"
-----------------------------------------------------------------------------
(* The app                                                                    *)
NewLoader(l) ==
  /\ Alive /\ loader[l] = "none"
  /\ loader' = [loader EXCEPT ![l] = "live"]
  /\ \E f \in [FilesOf(l) -> Begins \ Range(begin)] :
       /\ IsInjective(f)
       /\ begin' = [d \in DexFiles |-> IF d \in FilesOf(l) THEN f[d] ELSE begin[d]]
  /\ UNCHANGED <<decoded, closedCookie, freedOpen, layout, mainVars, pc, died, context>>

\* The app drops a loader and the collector unloads it, with its dex files.
Collect(l) ==
  /\ Alive /\ loader[l] = "live" /\ refs[l] = 0 /\ l # context
  /\ loader' = [loader EXCEPT ![l] = "collected"]
  /\ begin' = [d \in DexFiles |-> IF d \in FilesOf(l) THEN 0 ELSE begin[d]]
  /\ decoded' = {m \in decoded : DexOf[m] \notin FilesOf(l)}
  /\ UNCHANGED <<closedCookie, freedOpen, layout, mainVars, pc, died, context>>

\* DexFile.close frees the dex files from which no class has been loaded.
CloseDexFile(l, i) ==
  /\ Alive /\ loader[l] = "live"
  /\ Elements[l][i] # NoDex /\ <<l, i>> \notin closedCookie
  /\ closedCookie' = closedCookie \union {<<l, i>>}
  /\ \E freed \in SUBSET CookieFiles(l, i) :
       /\ freedOpen' = freedOpen \union freed
       /\ begin' = [d \in DexFiles |-> IF d \in freed THEN 0 ELSE begin[d]]
       /\ decoded' = {m \in decoded : DexOf[m] \notin freed}
  /\ UNCHANGED <<loader, layout, mainVars, pc, died, context>>

\* A packer decodes the code of a method in place, and packs it again.
Decode(m) ==
  /\ Alive /\ begin[DexOf[m]] # 0
  /\ decoded' = IF m \in decoded THEN decoded \ {m} ELSE decoded \union {m}
  /\ UNCHANGED <<loader, begin, closedCookie, freedOpen, layout, mainVars, pc, died, context>>

App ==
  \/ \E l \in Loaders : NewLoader(l) \/ Collect(l) \/ \E i \in DOMAIN Elements[l] : CloseDexFile(l, i)
  \/ \E m \in Methods : Decode(m)

-----------------------------------------------------------------------------
(* The main thread                                                            *)
Dies(cause) == died' = cause /\ pc' = "idle"
Lives == UNCHANGED died
Goes(next) == pc' = next /\ Lives

\* System.load runs the initializers of static variables and JNI_OnLoad.
SystemLoad(c) ==
  /\ Alive /\ pc = "idle" /\ c \notin loaded
  /\ loaded' = loaded \union {c}
  /\ UNCHANGED <<refs, visited, hooks, pc, died, context, envVars>>

\* The version of the runtime is known to get_heap_to_jvm_offset; without a
\* return value nothing good can be found through the offset.
HeapToJvmOffsetKnown == layout

\* Fault: the visitor keeps what it is given without a reference.
AddNoRefs == refs

\* VisitClassLoaders with the visitor, which adds a global reference to each
\* loader that nobody ever deletes.
LiveLoaders == {l \in Loaders : loader[l] = "live"}
AddRefs == [l \in Loaders |-> IF loader[l] = "live" THEN refs[l] + 1 ELSE refs[l]]
Full(r, h) == FoldFunction(+, h, r) > MAX_GLOBALS

\* getClassLoaders and getBaseDexClassLoaders: both functions are looked up,
\* and called whether they were found or not.  A full table aborts.
GetClassLoaders(next) ==
  \/ /\ Dies("no symbol") /\ UNCHANGED <<refs, visited>>
  \/ /\ ~HeapToJvmOffsetKnown
     /\ Dies("layout") /\ UNCHANGED <<refs, visited>>
  \/ /\ HeapToJvmOffsetKnown /\ Full(AddRefs, hooks)
     /\ Dies("references") /\ UNCHANGED <<refs, visited>>
  \/ /\ HeapToJvmOffsetKnown /\ ~Full(AddRefs, hooks)
     /\ refs' = AddRefs
     /\ visited' = IF next = "idle" THEN <<>> ELSE SetToSeq(LiveLoaders)
     /\ Goes(next)

\* What walks over the loaders and keeps none of them leaves the references behind.
VisitInVain(c) ==
  /\ Alive /\ pc = "idle" /\ c \in loaded
  /\ GetClassLoaders("idle")
  /\ UNCHANGED <<loaded, hooks, context, envVars>>

\* LoadJvmTI.  The two functions that make the runtime debuggable are skipped
\* when they are not found; without the plugin CreateJvmtiEnv returns a null
\* that is used.
CreateJvmtiEnv(env) == IF env THEN Goes("idle") ELSE Dies("no plugin")

LoadJvmTI(c) ==
  /\ Alive /\ pc = "idle" /\ c \in loaded
  /\ \/ Full(refs, hooks + 1) /\ Dies("references") /\ UNCHANGED hooks
     \/ /\ ~Full(refs, hooks + 1)
        /\ hooks' = hooks + 1
        /\ Dies("no symbol") \/ \E env \in BOOLEAN : CreateJvmtiEnv(env)
  /\ UNCHANGED <<refs, visited, loaded, context, envVars>>
=============================================================================
