------------------------------- MODULE SoList -------------------------------
(***************************************************************************)
(* libcheckvpn's walk over the linker's list of libraries (solist.cpp):    *)
(* text() on the thread that loads the library, and on a thread of its own *)
(* for each call of net_us.  The list is walked without the linker's lock, *)
(* and gathered in a global vector without any.                            *)
(***************************************************************************)
EXTENDS ElfSymbols, SequencesExt

CONSTANTS Walkers,    \* threads that run text(), in the order of their start
          Sos,        \* libraries that others open and close
          GetHead, GetSomain    \* solist_get_head and solist_get_somain

ASSUME WalkersAssumption ==
  /\ {GetHead, GetSomain} \subseteq Symbols /\ "checkvpn" \in Copies
  /\ Walkers \in Seq(Range(Walkers)) \ {<<>>}

\* soinfos of the linker itself, of the vdso and of the executable.
Linker == "linker"
Vdso == "vdso"
Main == "main"

VARIABLES solist,     \* the linker's list
          opened,     \* libraries that have been opened
          shared,     \* linker_solist
          walk,       \* what each thread does
          cur,        \* the soinfo that it is at
          result,     \* the vector that it got
          alone,      \* neither another walk nor a close has fallen into the walk
          whole,      \* the list when the walk read the end of it
          crashed     \* whether the process has died

soVars == <<solist, opened, shared, walk, cur, result, alone, whole, crashed>>

Threads == Range(Walkers)
NoSo == "null"

ASSUME SosAssumption == {Linker, Vdso, Main, NoSo} \intersect Sos = {}

Steps == {"none", "text", "head", "somain", "next", "copy", "print", "done"}

SoInit ==
  /\ solist \in {<<Linker, Main>>, <<Linker, Vdso, Main>>}
  /\ opened = {} /\ shared = <<>>
  /\ walk = [t \in Threads |-> "none"] /\ cur = [t \in Threads |-> NoSo]
  /\ result = [t \in Threads |-> <<>>] /\ whole = [t \in Threads |-> <<>>]
  /\ alone = [t \in Threads |-> FALSE]
  /\ crashed = FALSE

Walking(t) == walk[t] \notin {"none", "done"}
Crash == crashed' = TRUE
WalkGoes(t, step) == walk' = [walk EXCEPT ![t] = step]
-----------------------------------------------------------------------------
(* The linker                                                                 *)
Dlopen(so) ==
  /\ ~crashed /\ so \notin opened
  /\ opened' = opened \union {so}
  /\ solist' = Append(solist, so)
  /\ UNCHANGED <<shared, walk, cur, result, alone, whole, crashed>>

\* The soinfo goes back to the linker's allocator.
Dlclose(so) ==
  /\ ~crashed
  /\ \E k \in DOMAIN solist : solist[k] = so /\ solist' = RemoveAt(solist, k)
  /\ alone' = [t \in Threads |-> alone[t] /\ ~Walking(t)]
  /\ UNCHANGED <<opened, shared, walk, cur, result, whole, crashed>>

-----------------------------------------------------------------------------
(* text and linker_get_solist                                                 *)
StartText(t) ==
  /\ ~crashed /\ walk[t] = "none"
  /\ WalkGoes(t, "text")
  /\ alone' = [u \in Threads |->
                IF u = t THEN \A v \in Threads : ~Walking(v) ELSE alone[u] /\ ~Walking(u)]
  /\ UNCHANGED <<solist, opened, shared, cur, result, whole, crashed>>

\* Fault: the vector keeps what the last walk found.
NotEmptied == shared

\* The vector is emptied before it is filled; two threads in it at once may
\* also corrupt it.
Emptied == <<>>

Corrupts(t) == Crash /\ ~alone[t] /\ UNCHANGED <<shared, walk, cur, whole>>

Clear(t) ==
  /\ ~crashed /\ walk[t] = "text"
  /\ \/ shared' = Emptied /\ WalkGoes(t, "head") /\ UNCHANGED <<cur, whole, crashed>>
     \/ Corrupts(t)
  /\ UNCHANGED <<solist, opened, result, alone>>

\* A function that has been found is kept; one that has not been is looked
\* for again, and called all the same.
Lookup(t, step, s, next) ==
  /\ ~crashed /\ walk[t] = step
  /\ \/ got["checkvpn"][s] = 0 /\ Resolve("checkvpn", s)
     \/ got["checkvpn"][s] # 0 /\ UNCHANGED elfVars
  /\ IF got'["checkvpn"][s] = RightAddress(s)
     THEN WalkGoes(t, next) /\ UNCHANGED crashed
     ELSE Crash /\ UNCHANGED walk
  /\ UNCHANGED <<solist, opened, shared, cur, result, alone, whole>>

\* The offset of next is where the head holds the address of the executable's
\* soinfo.  Where it does not, the first word is taken for it: the address of
\* the program headers, on and on from there until it is no address.
FindNextOffset(t) ==
  /\ ~crashed /\ walk[t] = "next" /\ cur[t] = NoSo
  /\ \/ /\ solist[2] = Main
        /\ shared' = Append(shared, Linker)
        /\ cur' = [cur EXCEPT ![t] = Linker]
        /\ UNCHANGED <<walk, whole, crashed>>
     \/ solist[2] # Main /\ Crash /\ UNCHANGED <<shared, walk, cur, whole>>
     \/ Corrupts(t)
  /\ UNCHANGED <<solist, opened, result, alone>>

\* The one after so in the list.  What a freed soinfo holds there may end the
\* walk or lead astray.
After(so) ==
  LET later == {k \in 2..Len(solist) : solist[k - 1] = so}
  IN  IF later = {} THEN NoSo ELSE solist[Min(later)]

ReadNext(t) ==
  /\ ~crashed /\ walk[t] = "next" /\ cur[t] # NoSo
  /\ \/ /\ After(cur[t]) # NoSo
        /\ shared' = Append(shared, After(cur[t]))
        /\ cur' = [cur EXCEPT ![t] = After(cur[t])]
        /\ UNCHANGED <<walk, whole, crashed>>
     \/ /\ After(cur[t]) = NoSo
        /\ WalkGoes(t, "copy")
        /\ cur' = [cur EXCEPT ![t] = NoSo]
        /\ whole' = [whole EXCEPT ![t] = solist]
        /\ UNCHANGED <<shared, crashed>>
     \/ cur[t] \notin Range(solist) /\ Crash /\ UNCHANGED <<shared, walk, cur, whole>>
     \/ Corrupts(t)
  /\ UNCHANGED <<solist, opened, result, alone>>

\* The vector is returned by value.
CopyVector(t) ==
  /\ ~crashed /\ walk[t] = "copy"
  /\ \/ /\ WalkGoes(t, "print")
        /\ result' = [result EXCEPT ![t] = shared]
        /\ UNCHANGED <<shared, cur, whole, crashed>>
     \/ Corrupts(t) /\ UNCHANGED result
  /\ UNCHANGED <<solist, opened, alone>>

\* text reads the name of every soinfo of its vector where a fixed layout has it.  One
\* that is freed, or that a linker with another layout has made (where the name is no
\* pointer but a string), has no address there.
PrintNames(t) ==
  /\ ~crashed /\ walk[t] = "print"
  /\ \/ WalkGoes(t, "done") /\ UNCHANGED crashed
     \/ result[t] # <<>> /\ Crash /\ UNCHANGED walk
  /\ UNCHANGED <<solist, opened, shared, cur, result, alone, whole>>

TextStep(t) ==
  \/ Lookup(t, "head", GetHead, "somain") \/ Lookup(t, "somain", GetSomain, "next")
  \/ /\ Clear(t) \/ FindNextOffset(t) \/ ReadNext(t) \/ CopyVector(t) \/ PrintNames(t)
     /\ UNCHANGED elfVars

OtherLibraries == \E so \in Sos : Dlopen(so) \/ Dlclose(so)
-----------------------------------------------------------------------------
\* A walk that no other walk and no dlclose has fallen into gets the list as it
\* was when it came to its end: every library once and in order, with those
\* that were opened meanwhile, and nothing of an earlier walk.
ListIsWhole ==
  \A t \in Threads : walk[t] \in {"print", "done"} /\ alone[t] => result[t] = whole[t]
=============================================================================
