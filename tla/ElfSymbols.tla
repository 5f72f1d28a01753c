----------------------------- MODULE ElfSymbols -----------------------------
(***************************************************************************)
(* How the libraries of the repository find functions of libart.so and of  *)
(* the linker that are not exported: resolve_elf_internal_symbol, of which *)
(* libdump, libjvmRuntime and libcheckvpn have a copy each, and ElfImg of  *)
(* PineCore.  All of them look at the address space that they share.       *)
(***************************************************************************)
EXTENDS Integers, Sequences, FiniteSets, FiniteSetsExt

CONSTANTS Paths,      \* files that are mapped as libraries
          Symbols,    \* functions that are looked for
          PathOf,     \* the file of each
          Copies,     \* libraries with a copy of resolve_elf_internal_symbol
          Wanted,     \* the functions that each client looks for
          Home,       \* where the linker has mapped each file
          Image,      \* symtab and dynsym of each file, and its first vaddr
          SPACE,      \* bound: places in the address space
          PAGE        \* bytes in a place

Clients == Copies \union {"pine"}

\* st_value 0 is an undefined entry, NoEntry a name that is not in the table.
NoEntry == -1

\* Both tables of a file define a function alike.  The first section with
\* contents lies in the first segment, so that ElfImg, which measures the one,
\* and elf_ctx_init, which measures the other, agree.
ASSUME ImageAssumption ==
  /\ SPACE \in Nat /\ PAGE \in Nat /\ Home \in [Paths -> 1..SPACE]
  /\ PathOf \in [Symbols -> Paths] /\ "pine" \notin Copies
  /\ "" \notin Paths                             \* what is free has no file
  /\ \A p, q \in Paths : Home[p] = Home[q] => p = q
  /\ \A p \in Paths :
       /\ Image[p].vaddr \in Nat
       /\ \A s \in Symbols :
            /\ {Image[p].symtab[s], Image[p].dynsym[s]} \subseteq (Nat \union {NoEntry})
            /\ Image[p].symtab[s] > 0 /\ Image[p].dynsym[s] > 0 => Image[p].symtab[s] = Image[p].dynsym[s]

VARIABLES maps,       \* /proc/self/maps: the file and the permissions at each place
          modules,    \* the first entry of each file in the static vector of each copy
          got,        \* the address that each client holds, 0 for NULL
          foreign     \* files that somebody else has mapped like a library

elfVars == <<maps, modules, got, foreign>>

Free == [path |-> "", perms |-> "---p"]
Region(path, perms) == [path |-> path, perms |-> perms]
FreePlaces == {a \in 1..SPACE : maps[a] = Free}

ElfInit ==
  /\ maps = [a \in 1..SPACE |-> IF a \in {Home[p] : p \in Paths}
                                 THEN Region(CHOOSE p \in Paths : Home[p] = a, "r-xp") ELSE Free]
  /\ modules = [c \in Clients |-> [p \in Paths |-> 0]]
  /\ got = [c \in Clients |-> [s \in Symbols |-> 0]]
  /\ foreign = {}

\* Somebody else maps the file privately to read it.
ForeignMap(p) ==
  /\ p \notin foreign
  /\ \E a \in FreePlaces : maps' = [maps EXCEPT ![a] = Region(p, "r--p")]
  /\ foreign' = foreign \union {p}
  /\ UNCHANGED <<modules, got>>

-----------------------------------------------------------------------------
\* Regions that may hold the header of a library, by their permissions.
Listed(m, p) == {a \in 1..SPACE : m[a].path = p /\ m[a].perms \in {"r--p", "r-xp"}}
FirstListed(m, p) == IF Listed(m, p) = {} THEN 0 ELSE Min(Listed(m, p))

\* Every call appends all regions to the vector, which is never cleared, and
\* GetProcessModule takes the first of a name: what was there stays.
AfterReading(c) == [p \in Paths |-> IF modules[c][p] # 0 THEN modules[c][p] ELSE FirstListed(maps, p)]

\* .symtab before .dynsym, and a value of 0 counts as not found.
TableValue(p, s) ==
  IF Image[p].symtab[s] > 0 THEN Image[p].symtab[s]
  ELSE IF Image[p].dynsym[s] > 0 THEN Image[p].dynsym[s] ELSE 0

\* elf_ctx_init of the file mapped at b.
LoadBias(p, b) == b * PAGE - Image[p].vaddr

\* Fault: the file is mapped to be read only.
MappedReadOnly == "r--p"

\* The mapping that the file is read through.
MappedPerms == "rw-p"

Resolved(p, s, load, b) ==
  IF TableValue(p, s) = 0 THEN 0
  ELSE TableValue(p, s) + load * PAGE - (b * PAGE - LoadBias(p, b))

\* stat, open and mmap may fail; only the copy of libcheckvpn keeps the mapping.
Resolve(c, s) ==
  LET p == PathOf[s]
      load == AfterReading(c)[p]
  IN  /\ s \in Wanted[c]
      /\ modules' = [modules EXCEPT ![c] = AfterReading(c)]
      /\ \/ /\ got' = [got EXCEPT ![c][s] = 0]
            /\ UNCHANGED maps
         \/ \E b \in FreePlaces :
              /\ load # 0
              /\ got' = [got EXCEPT ![c][s] = Resolved(p, s, load, b)]
              /\ maps' = IF c = "checkvpn" THEN [maps EXCEPT ![b] = Region(p, MappedPerms)]
                         ELSE maps
      /\ UNCHANGED foreign

-----------------------------------------------------------------------------
(* ElfImg of PineCore                                                         *)

\* The first entry of .dynsym decides, then the functions of .symtab.
SymbolOffset(p, s) ==
  IF Image[p].dynsym[s] # NoEntry THEN Image[p].dynsym[s]
  ELSE IF Image[p].symtab[s] # NoEntry THEN Image[p].symtab[s] ELSE 0

\* The file is mapped shared, and the base is the first line of the file with
\* one of the permissions, read anew for each image while that mapping is there.
Open(p, b) == [maps EXCEPT ![b] = Region(p, "r--s")]
GetModuleBase(p, b) == FirstListed(Open(p, b), p)

\* Without a file, an offset or a base the address is null; the mapping goes
\* with the image.
GetSymbolAddress(s) ==
  LET p == PathOf[s]
  IN  /\ s \in Wanted["pine"]
      /\ \/ got' = [got EXCEPT !["pine"][s] = 0]
         \/ \E b \in FreePlaces :
              got' = [got EXCEPT !["pine"][s] =
                        IF SymbolOffset(p, s) > 0 /\ GetModuleBase(p, b) # 0
                        THEN GetModuleBase(p, b) * PAGE + SymbolOffset(p, s) - Image[p].vaddr ELSE 0]
      /\ UNCHANGED <<maps, modules, foreign>>

-----------------------------------------------------------------------------
\* Where the linker has put what the tables of the file define.
RightAddress(s) ==
  LET p == PathOf[s] IN Home[p] * PAGE + TableValue(p, s) - Image[p].vaddr

\* An address that a client holds is that of the function, in whatever order
\* the libraries come and whatever they leave mapped: what libcheckvpn leaks can
\* be written to and does not count as a library.  Only a mapping that somebody
\* else makes like the linker's can be mistaken for it (GetProcessModule and
\* GetModuleBase).
ResolvedAreRight ==
  \A c \in Clients, s \in Symbols :
    got[c][s] # 0 /\ PathOf[s] \notin foreign => got[c][s] = RightAddress(s)
=============================================================================
