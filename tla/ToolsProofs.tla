----------------------------- MODULE ToolsProofs ----------------------------
(***************************************************************************)
(* Proofs about the two tool programs, for any number of libraries,        *)
(* threads, addresses, loaders, dex files and methods, and about the text  *)
(* of the gdb stub's packets, for any bytes.                               *)
(* SoInfo: symbols resolve into the library that was asked for, a walk     *)
(* that the list does not change under sees all of it, and no address of   *)
(* an interface is lost.  DexTools: what has been registered stays mapped  *)
(* unless a DexFile is closed, only then is freed memory read, and a file  *)
(* that has been written whole holds its dex file, repaired or not.        *)
(* GdbText: what is turned into digits, escaped or framed reads back.      *)
(* What the programs compute with loops and recursive functions is shown   *)
(* by taking the least number for which it would be wrong.                 *)
(***************************************************************************)
EXTENDS DexTools, SoInfo, GdbText, FiniteSetTheorems, WellFoundedInduction, SequenceTheorems, TLAPS

-----------------------------------------------------------------------------
(* Natural numbers                                                            *)

LEMMA NatRel == OpToRel(<, Nat) = {ss \in Nat \X Nat : ss[1] < ss[2]}
BY DEF OpToRel

\* Every set of natural numbers that is not empty has a least one.
LEMMA NatMin ==
  ASSUME NEW T, T \subseteq Nat, T # {}
  PROVE  \E n \in T : \A m \in T : n <= m
<1> DEFINE R == OpToRel(<, Nat)
<1>1. IsWellFoundedOn(R, Nat)
  BY NatLessThanWellFounded
<1>2. R = {ss \in Nat \X Nat : ss[1] < ss[2]}
  BY NatRel
<1> HIDE DEF R
<1>3. PICK x \in T : \A y \in T : ~(<<y, x>> \in R)
  BY <1>1, WFMin
<1>4. ASSUME NEW m \in T, m < x PROVE FALSE
  <2>1. <<m, x>> \in Nat \X Nat /\ <<m, x>>[1] = m /\ <<m, x>>[2] = x
    OBVIOUS
  <2>2. <<m, x>> \in R
    BY <1>2, <1>4, <2>1
  <2> QED BY <1>3, <2>2
<1> QED BY <1>4

\* Induction over the natural numbers, the hypothesis being a set.
LEMMA Induction ==
  ASSUME NEW S, 0 \in S, \A n \in Nat : n \in S => n + 1 \in S
  PROVE  Nat \subseteq S
<1> SUFFICES ASSUME Nat \ S # {} PROVE FALSE
  OBVIOUS
<1> DEFINE R == Nat \ S
<1>1. R \subseteq Nat /\ R # {}
  OBVIOUS
<1>2. PICK n \in R : \A m \in R : n <= m
  BY <1>1, NatMin
<1>3. n \in Nat /\ n # 0 /\ n - 1 \in Nat /\ ~(n <= n - 1)
  OBVIOUS
<1>4. n - 1 \in S
  BY <1>2, <1>3
<1>5. (n - 1) + 1 = n
  BY <1>3
<1> QED BY <1>3, <1>4, <1>5

-----------------------------------------------------------------------------
(* Sequences                                                                 *)

\* The parts of a concatenation.
LEMMA ConcatIs ==
  ASSUME NEW T, NEW a \in Seq(T), NEW b \in Seq(T)
  PROVE  /\ a \o b \in Seq(T) /\ Len(a) \in Nat /\ Len(b) \in Nat /\ Len(a \o b) = Len(a) + Len(b)
         /\ \A p \in 1..Len(a) : (a \o b)[p] = a[p]
         /\ \A k \in 1..Len(b) : (a \o b)[Len(a) + k] = b[k]
<1>1. a \o b \in Seq(T) /\ Len(a) \in Nat /\ Len(b) \in Nat /\ Len(a \o b) = Len(a) + Len(b)
  OBVIOUS
<1>2. \A p \in 1..Len(a) : (a \o b)[p] = a[p]
  OBVIOUS
<1>3. ASSUME NEW k \in 1..Len(b) PROVE (a \o b)[Len(a) + k] = b[k]
  <2>1. PICK p \in Nat : p = Len(a) + k /\ p > Len(a) /\ p <= Len(a) + Len(b) /\ p - Len(a) = k
    BY <1>1
  <2>2. (a \o b)[p] = b[p - Len(a)]
    BY <1>1, <2>1
  <2> QED BY <2>1, <2>2
<1> QED BY <1>1, <1>2, <1>3

\* Sequences that begin alike.
LEMMA SameStart ==
  ASSUME NEW T, NEW a \in Seq(T), NEW b \in Seq(T), NEW k \in Nat, k <= Len(a), k <= Len(b),
         \A j \in 1..k : a[j] = b[j]
  PROVE  SubSeq(a, 1, k) = SubSeq(b, 1, k)
OBVIOUS

-----------------------------------------------------------------------------
(* Symbols                                                                    *)
\* The executable mapping of each library stays where the linker has put it; what
\* the resolvers leave can be written to, and only foreign files are mapped like
\* libraries once more.
MapsOK ==
  /\ DOMAIN maps = 1..SPACE
  /\ foreign \subseteq Paths
  /\ \A a \in 1..SPACE :
       \/ maps[a] = Free
       \/ \E p \in Paths : a = Home[p] /\ maps[a] = Region(p, "r-xp")
       \/ \E p \in Paths : maps[a] = Region(p, MappedPerms)
       \/ \E p \in foreign : maps[a] = Region(p, "r--p")
  /\ \A p \in Paths : maps[Home[p]] = Region(p, "r-xp")

\* Every copy that knows a module knows where it is.
ModulesOK ==
  /\ modules \in [Clients -> [Paths -> 0..SPACE]]
  /\ \A c \in Clients, p \in Paths \ foreign : modules[c][p] \in {0, Home[p]}

GotOK == got \in [Clients -> [Symbols -> Int]]

ElfInv == MapsOK /\ ModulesOK /\ GotOK /\ ResolvedAreRight

LEMMA MinOfOne == ASSUME NEW n \in Int PROVE Min({n}) = n
BY DEF Min

\* The only region of a file that looks like its library is the library.
LEMMA ListedIsHome ==
  ASSUME MapsOK, NEW p \in Paths, p \notin foreign
  PROVE  Listed(maps, p) = {Home[p]} /\ FirstListed(maps, p) = Home[p]
<1>1. Home[p] \in 1..SPACE
  BY ImageAssumption
<1>2. ASSUME NEW a \in Listed(maps, p) PROVE a = Home[p]
  <2>1. a \in 1..SPACE /\ maps[a].path = p /\ maps[a].perms \in {"r--p", "r-xp"}
    BY DEF Listed
  <2>2. maps[a] # Free
    <3>1. "" \notin Paths /\ Free.path = ""
      BY ImageAssumption DEF Free
    <3> QED BY <2>1, <3>1
  <2>3. ASSUME NEW q \in Paths, maps[a] = Region(q, MappedPerms) PROVE FALSE
    BY <2>1, <2>3 DEF Region, MappedPerms
  <2>4. ASSUME NEW q \in foreign, maps[a] = Region(q, "r--p") PROVE FALSE
    BY <2>1, <2>4 DEF Region
  <2>5. PICK q \in Paths : a = Home[q] /\ maps[a] = Region(q, "r-xp")
    BY <2>1, <2>2, <2>3, <2>4 DEF MapsOK
  <2> QED BY <2>1, <2>5 DEF Region
<1>3. Home[p] \in Listed(maps, p)
  <2>1. maps[Home[p]] = Region(p, "r-xp")
    BY Zenon DEF MapsOK
  <2>2. maps[Home[p]].path = p /\ maps[Home[p]].perms = "r-xp"
    BY <2>1 DEF Region
  <2> QED BY <1>1, <2>2 DEF Listed
<1>4. Listed(maps, p) = {Home[p]}
  BY <1>2, <1>3
<1> QED BY <1>1, <1>4, MinOfOne DEF FirstListed

LEMMA OpenedIsHome ==
  ASSUME MapsOK, NEW p \in Paths, p \notin foreign, NEW b \in FreePlaces
  PROVE  GetModuleBase(p, b) = Home[p]
<1>1. maps[b] = Free /\ b \in 1..SPACE /\ b # Home[p]
  <2>1. maps[Home[p]] # Free
    <3>1. maps[Home[p]] = Region(p, "r-xp")
      BY DEF MapsOK
    <3>2. Region(p, "r-xp").perms = "r-xp" /\ Free.perms = "---p"
      BY DEF Region, Free
    <3> QED BY <3>1, <3>2
  <2> QED BY <2>1 DEF FreePlaces
<1>2. \A a \in 1..SPACE : a # b => Open(p, b)[a] = maps[a]
  BY <1>1 DEF Open, MapsOK
<1>3. Open(p, b)[b] = Region(p, "r--s")
  BY <1>1 DEF Open, MapsOK
<1>4. Listed(Open(p, b), p) = Listed(maps, p)
  <2>1. b \notin Listed(Open(p, b), p)
    BY <1>3 DEF Listed, Region
  <2>2. b \notin Listed(maps, p)
    BY ListedIsHome, <1>1
  <2> QED BY <1>2, <2>1, <2>2 DEF Listed
<1>5. Home[p] \in 1..SPACE
  BY ImageAssumption
<1> QED BY <1>4, <1>5, ListedIsHome, MinOfOne DEF GetModuleBase, FirstListed

LEMMA FirstListedType ==
  ASSUME NEW m, NEW p
  PROVE  FirstListed(m, p) \in 0..SPACE
<1>1. SPACE \in Nat /\ Listed(m, p) \subseteq 1..SPACE
  BY ImageAssumption DEF Listed
<1>2. CASE Listed(m, p) = {}
  BY <1>1, <1>2 DEF FirstListed
<1>3. CASE Listed(m, p) # {}
  <2>1. Listed(m, p) \subseteq Nat
    BY <1>1
  <2>2. \E n \in Listed(m, p) : \A k \in Listed(m, p) : n <= k
    BY <1>3, <2>1, NatMin
  <2>3. Min(Listed(m, p)) \in Listed(m, p)
    BY <2>2 DEF Min
  <2> QED BY <1>1, <1>3, <2>3 DEF FirstListed
<1> QED BY <1>2, <1>3

\* What either search takes from the tables is the value of the function.
LEMMA TablesAgree ==
  ASSUME NEW s \in Symbols
  PROVE  /\ TableValue(PathOf[s], s) \in Nat
         /\ SymbolOffset(PathOf[s], s) > 0 => SymbolOffset(PathOf[s], s) = TableValue(PathOf[s], s)
         /\ SymbolOffset(PathOf[s], s) \in Int
<1> DEFINE p == PathOf[s]
           x == Image[p].symtab[s]
           y == Image[p].dynsym[s]
<1>1. p \in Paths
  BY ImageAssumption
<1>2. /\ x \in Nat \union {NoEntry} /\ y \in Nat \union {NoEntry}
      /\ x > 0 /\ y > 0 => x = y
  BY <1>1, ImageAssumption
<1>3. /\ TableValue(p, s) = IF x > 0 THEN x ELSE IF y > 0 THEN y ELSE 0
      /\ SymbolOffset(p, s) = IF y # NoEntry THEN y ELSE IF x # NoEntry THEN x ELSE 0
  BY DEF TableValue, SymbolOffset
<1> HIDE DEF p, x, y
<1>4. /\ TableValue(p, s) \in Nat
      /\ SymbolOffset(p, s) > 0 => SymbolOffset(p, s) = TableValue(p, s)
      /\ SymbolOffset(p, s) \in Int
  BY <1>2, <1>3 DEF NoEntry
<1> QED BY <1>4 DEF p

LEMMA ResolvedIsRight ==
  ASSUME NEW s \in Symbols, NEW b \in 1..SPACE,
         Resolved(PathOf[s], s, Home[PathOf[s]], b) # 0
  PROVE  Resolved(PathOf[s], s, Home[PathOf[s]], b) = RightAddress(s)
<1> DEFINE p == PathOf[s]
<1>0. p \in Paths /\ SPACE \in Nat
  BY ImageAssumption
<1>10. Home[p] \in 1..SPACE
  BY <1>0, ImageAssumption
<1>11. PAGE \in Nat /\ Image[p].vaddr \in Nat
  BY <1>0, ImageAssumption
<1>12. b \in Nat /\ Home[p] \in Nat
  BY <1>0, <1>10
<1>1. p \in Paths /\ Home[p] \in Nat /\ PAGE \in Nat /\ Image[p].vaddr \in Nat /\ b \in Nat
  BY <1>0, <1>11, <1>12
<1>2. TableValue(p, s) \in Nat
  BY TablesAgree
<1>3. PICK h \in Nat, k \in Nat : h = Home[p] * PAGE /\ k = b * PAGE
  BY <1>1
<1>4. Resolved(p, s, Home[p], b) = TableValue(p, s) + h - (k - (k - Image[p].vaddr))
  BY <1>3 DEF Resolved, LoadBias
<1>5. RightAddress(s) = h + TableValue(p, s) - Image[p].vaddr
  BY <1>3 DEF RightAddress
<1> QED BY <1>1, <1>2, <1>3, <1>4, <1>5

LEMMA ElfInitially == ElfInit => ElfInv
<1> SUFFICES ASSUME ElfInit PROVE ElfInv
  OBVIOUS
<1>1. \A a \in 1..SPACE : \/ maps[a] = Free
                         \/ \E p \in Paths : a = Home[p] /\ maps[a] = Region(p, "r-xp")
  <2> SUFFICES ASSUME NEW a \in 1..SPACE, maps[a] # Free
               PROVE  \E p \in Paths : a = Home[p] /\ maps[a] = Region(p, "r-xp")
    OBVIOUS
  <2>1. a \in {Home[p] : p \in Paths} /\ maps[a] = Region(CHOOSE p \in Paths : Home[p] = a, "r-xp")
    BY DEF ElfInit
  <2>2. \E p \in Paths : Home[p] = a
    BY <2>1
  <2> DEFINE p == CHOOSE q \in Paths : Home[q] = a
  <2>3. p \in Paths /\ Home[p] = a
    BY <2>2
  <2> QED BY <2>1, <2>3
<1>2. ASSUME NEW p \in Paths PROVE maps[Home[p]] = Region(p, "r-xp")
  <2>1. Home[p] \in 1..SPACE
    BY ImageAssumption
  <2> DEFINE q == CHOOSE r \in Paths : Home[r] = Home[p]
  <2>2. q \in Paths /\ Home[q] = Home[p]
    OBVIOUS
  <2>3. q = p
    BY <2>2, ImageAssumption
  <2>4. maps[Home[p]] = Region(q, "r-xp")
    BY <2>1 DEF ElfInit
  <2> QED BY <2>3, <2>4
<1>3. MapsOK
  BY <1>1, <1>2 DEF MapsOK, ElfInit
<1>4. SPACE \in Nat
  BY ImageAssumption
<1>5. ModulesOK /\ GotOK
  BY <1>4 DEF ModulesOK, GotOK, ElfInit
<1>6. ResolvedAreRight
  BY DEF ResolvedAreRight, ElfInit
<1> QED BY <1>3, <1>5, <1>6 DEF ElfInv

\* A foreign mapping takes a free place; what is known of the other files stays.
LEMMA ForeignStep ==
  ASSUME ElfInv, NEW p \in Paths, ForeignMap(p)
  PROVE  ElfInv'
<1>1. PICK b \in FreePlaces : maps' = [maps EXCEPT ![b] = Region(p, "r--p")]
  BY DEF ForeignMap
<1>2. /\ foreign' = foreign \union {p} /\ modules' = modules /\ got' = got
  BY DEF ForeignMap
<1>3. b \in 1..SPACE /\ maps[b] = Free
  BY DEF FreePlaces
<1>4. \A a \in 1..SPACE : maps'[a] = IF a = b THEN Region(p, "r--p") ELSE maps[a]
  BY <1>1 DEF ElfInv, MapsOK
<1>5. \A q \in Paths : Home[q] # b /\ Home[q] \in 1..SPACE
  <2>1. \A q \in Paths : maps[Home[q]] # Free
    <3> SUFFICES ASSUME NEW q \in Paths PROVE maps[Home[q]] # Free
      OBVIOUS
    <3>1. maps[Home[q]] = Region(q, "r-xp")
      BY DEF ElfInv, MapsOK
    <3>2. Region(q, "r-xp").perms = "r-xp" /\ Free.perms = "---p"
      BY DEF Region, Free
    <3> QED BY <3>1, <3>2
  <2> QED BY <1>3, <2>1, ImageAssumption
<1>6. MapsOK'
  <2>1. DOMAIN maps' = 1..SPACE
    BY <1>1 DEF ElfInv, MapsOK
  <2>2. \A q \in Paths : maps'[Home[q]] = Region(q, "r-xp")
    BY <1>4, <1>5 DEF ElfInv, MapsOK
  <2>3. \A a \in 1..SPACE :
          \/ maps'[a] = Free
          \/ \E q \in Paths : a = Home[q] /\ maps'[a] = Region(q, "r-xp")
          \/ \E q \in Paths : maps'[a] = Region(q, MappedPerms)
          \/ \E q \in foreign' : maps'[a] = Region(q, "r--p")
    BY <1>2, <1>4 DEF ElfInv, MapsOK
  <2>4. foreign' \subseteq Paths
    BY <1>2 DEF ElfInv, MapsOK
  <2> QED BY <2>1, <2>2, <2>3, <2>4 DEF MapsOK, Free, Region, MappedPerms
<1>7. ModulesOK' /\ GotOK'
  BY <1>2 DEF ElfInv, ModulesOK, GotOK
<1>8. ResolvedAreRight'
  BY <1>2 DEF ElfInv, ResolvedAreRight, RightAddress, TableValue
<1> QED BY <1>6, <1>7, <1>8 DEF ElfInv

\* A resolver finds the library where it is, and what it leaves behind is not taken
\* for one.
LEMMA ResolveStep ==
  ASSUME ElfInv, NEW c \in Copies, NEW s \in Symbols, Resolve(c, s)
  PROVE  ElfInv'
<1> DEFINE p == PathOf[s]
           load == AfterReading(c)[p]
<1>1. c \in Clients /\ p \in Paths /\ foreign' = foreign
      /\ modules' = [modules EXCEPT ![c] = AfterReading(c)]
  BY ImageAssumption DEF Clients, Resolve
<1>2. AfterReading(c) \in [Paths -> 0..SPACE]
      /\ \A q \in Paths \ foreign : AfterReading(c)[q] \in {0, Home[q]}
  BY <1>1, FirstListedType, ListedIsHome DEF AfterReading, ElfInv, ModulesOK
<1>3. ModulesOK'
  BY <1>1, <1>2 DEF ElfInv, ModulesOK
<1>4. CASE got' = [got EXCEPT ![c][s] = 0] /\ UNCHANGED maps
  <2>1. MapsOK' 
    BY <1>1, <1>4 DEF ElfInv, MapsOK
  <2>2. GotOK'
    BY <1>1, <1>4 DEF ElfInv, GotOK
  <2>3. ResolvedAreRight'
    BY <1>1, <1>4 DEF ElfInv, GotOK, ResolvedAreRight, RightAddress, TableValue
  <2> QED BY <1>3, <2>1, <2>2, <2>3 DEF ElfInv
<1>5. ASSUME NEW b \in FreePlaces, load # 0,
             got' = [got EXCEPT ![c][s] = Resolved(p, s, load, b)],
             maps' = IF c = "checkvpn" THEN [maps EXCEPT ![b] = Region(p, MappedPerms)] ELSE maps
      PROVE  ElfInv'
  <2>1. b \in 1..SPACE /\ maps[b] = Free
    BY DEF FreePlaces
  <2>2. \A q \in Paths : Home[q] # b /\ Home[q] \in 1..SPACE
    <3>1. \A q \in Paths : maps[Home[q]] # Free
      <4> SUFFICES ASSUME NEW q \in Paths PROVE maps[Home[q]] # Free
        OBVIOUS
      <4>1. maps[Home[q]] = Region(q, "r-xp")
        BY DEF ElfInv, MapsOK
      <4>2. Region(q, "r-xp").perms = "r-xp" /\ Free.perms = "---p"
        BY DEF Region, Free
      <4> QED BY <4>1, <4>2
    <3> QED BY <2>1, <3>1, ImageAssumption
  <2>3. \A a \in 1..SPACE : maps'[a] = maps[a] \/ maps'[a] = Region(p, MappedPerms)
    BY <1>5, <2>1 DEF ElfInv, MapsOK
  <2>4. MapsOK'
    <3>1. DOMAIN maps' = 1..SPACE
      BY <1>5 DEF ElfInv, MapsOK
    <3>2. \A q \in Paths : maps'[Home[q]] = Region(q, "r-xp")
      BY <1>5, <2>1, <2>2 DEF ElfInv, MapsOK
    <3>3. \A a \in 1..SPACE :
            \/ maps'[a] = Free
            \/ \E q \in Paths : a = Home[q] /\ maps'[a] = Region(q, "r-xp")
            \/ \E q \in Paths : maps'[a] = Region(q, MappedPerms)
            \/ \E q \in foreign' : maps'[a] = Region(q, "r--p")
      BY <1>1, <2>3 DEF ElfInv, MapsOK
    <3> QED BY <1>1, <3>1, <3>2, <3>3 DEF ElfInv, MapsOK, Free, Region, MappedPerms
  <2>5. Resolved(p, s, load, b) \in Int
    <3>2. TableValue(p, s) \in Nat
      BY TablesAgree
    <3>3. PAGE \in Nat /\ Image[p].vaddr \in Nat /\ SPACE \in Nat
      BY <1>1, ImageAssumption
    <3>4. load \in 0..SPACE
      BY <1>1, <1>2
    <3> HIDE DEF load
    <3>1. TableValue(p, s) \in Nat /\ load \in Nat /\ PAGE \in Nat /\ Image[p].vaddr \in Nat /\ b \in Nat
      BY <2>1, <3>2, <3>3, <3>4
    <3> HIDE DEF p, load
    <3> QED BY <3>1 DEF Resolved, LoadBias
  <2>6. GotOK'
    BY <1>1, <1>5, <2>5 DEF ElfInv, GotOK
  <2>7. p \notin foreign => load = Home[p]
    BY <1>1, <1>2, <1>5
  <2>8. p \notin foreign /\ Resolved(p, s, load, b) # 0 => Resolved(p, s, load, b) = RightAddress(s)
    BY <2>1, <2>7, ResolvedIsRight
  <2>9. ResolvedAreRight'
    <3> SUFFICES ASSUME NEW d \in Clients, NEW z \in Symbols, got'[d][z] # 0, PathOf[z] \notin foreign
                 PROVE  got'[d][z] = RightAddress(z)
      BY <1>1 DEF ResolvedAreRight, RightAddress, TableValue
    <3>1. CASE d = c /\ z = s
      <4>1. got'[d][z] = Resolved(p, s, load, b)
        BY <1>1, <1>5, <3>1 DEF ElfInv, GotOK
      <4> QED BY <2>8, <3>1, <4>1
    <3>2. CASE d # c \/ z # s
      BY <1>1, <1>5, <3>2 DEF ElfInv, GotOK, ResolvedAreRight
    <3> QED BY <3>1, <3>2
  <2> QED BY <1>3, <2>4, <2>6, <2>9 DEF ElfInv
<1> QED BY <1>4, <1>5 DEF Resolve

\* ElfImg measures with its own mapping in place.
LEMMA PineStep ==
  ASSUME ElfInv, NEW s \in Symbols, GetSymbolAddress(s)
  PROVE  ElfInv'
<1> DEFINE p == PathOf[s]
<1>1. p \in Paths /\ "pine" \in Clients /\ UNCHANGED <<maps, modules, foreign>>
  BY ImageAssumption DEF Clients, GetSymbolAddress
<1>2. MapsOK' /\ ModulesOK'
  BY <1>1 DEF ElfInv, MapsOK, ModulesOK
<1>3. PICK v : got' = [got EXCEPT !["pine"][s] = v]
               /\ v \in Int /\ (v # 0 /\ p \notin foreign => v = RightAddress(s))
  <2>1. CASE got' = [got EXCEPT !["pine"][s] = 0]
    <3>1. 0 \in Int /\ (0 # 0 /\ p \notin foreign => 0 = RightAddress(s))
      OBVIOUS
    <3> QED BY <2>1, <3>1, Zenon
  <2>2. ASSUME NEW b \in FreePlaces,
               got' = [got EXCEPT !["pine"][s] =
                        IF SymbolOffset(p, s) > 0 /\ GetModuleBase(p, b) # 0
                        THEN GetModuleBase(p, b) * PAGE + SymbolOffset(p, s) - Image[p].vaddr ELSE 0]
        PROVE  \E v : got' = [got EXCEPT !["pine"][s] = v]
               /\ v \in Int /\ (v # 0 /\ p \notin foreign => v = RightAddress(s))
    <3>1. CASE SymbolOffset(p, s) > 0 /\ GetModuleBase(p, b) # 0
      <4>1. GetModuleBase(p, b) \in Nat
        <5>1. GetModuleBase(p, b) \in 0..SPACE /\ SPACE \in Nat
          BY FirstListedType, ImageAssumption DEF GetModuleBase
        <5> QED BY <5>1
      <4>2. SymbolOffset(p, s) = TableValue(p, s) /\ TableValue(p, s) \in Nat
        BY <3>1, TablesAgree
      <4>3. PAGE \in Nat /\ Image[p].vaddr \in Nat
        BY <1>1, ImageAssumption
      <4> DEFINE v == GetModuleBase(p, b) * PAGE + SymbolOffset(p, s) - Image[p].vaddr
      <4>4. v \in Int
        BY <4>1, <4>2, <4>3
      <4>5. p \notin foreign => v = RightAddress(s)
        BY <1>1, <4>2, OpenedIsHome DEF ElfInv, RightAddress
      <4> QED BY <2>2, <3>1, <4>4, <4>5
    <3>2. CASE ~(SymbolOffset(p, s) > 0 /\ GetModuleBase(p, b) # 0)
      <4>1. 0 \in Int /\ (0 # 0 /\ p \notin foreign => 0 = RightAddress(s))
        OBVIOUS
      <4>2. got' = [got EXCEPT !["pine"][s] = 0]
        BY <2>2, <3>2
      <4> QED BY <4>1, <4>2, Zenon
    <3> QED BY <3>1, <3>2
  <2> QED BY <2>1, <2>2 DEF GetSymbolAddress
<1>4. GotOK'
  BY <1>1, <1>3 DEF ElfInv, GotOK
<1>5. ResolvedAreRight'
  <2> SUFFICES ASSUME NEW d \in Clients, NEW z \in Symbols, got'[d][z] # 0, PathOf[z] \notin foreign
               PROVE  got'[d][z] = RightAddress(z)
    BY <1>1 DEF ResolvedAreRight, RightAddress, TableValue
  <2>1. CASE d = "pine" /\ z = s
    BY <1>1, <1>3, <2>1 DEF ElfInv, GotOK
  <2>2. CASE d # "pine" \/ z # s
    BY <1>1, <1>3, <2>2 DEF ElfInv, GotOK, ResolvedAreRight
  <2> QED BY <2>1, <2>2
<1> QED BY <1>2, <1>4, <1>5 DEF ElfInv

-----------------------------------------------------------------------------
(* Addresses                                                                  *)
Attributes == [type : {"ADDRESS", "LOCAL", "BROADCAST"}, address : {Own, Other, Broadcast}]

\* What the attributes up to the k-th have made of an entry.
Seen(order, k, type) == \E j \in 1..k : order[j].type = type

Partly(e, order, k, peer) ==
  /\ {"addr", "ifu", "broadcast"} \subseteq DOMAIN e
  /\ Seen(order, k, "LOCAL") => e.addr = Own
  /\ ~Seen(order, k, "LOCAL") /\ Seen(order, k, "ADDRESS") => e.addr = peer
  /\ ~Seen(order, k, "LOCAL") /\ ~Seen(order, k, "ADDRESS") => e.addr = None
  /\ Seen(order, k, "LOCAL") /\ Seen(order, k, "ADDRESS") /\ ~Seen(order, k, "BROADCAST") =>
       e.ifu = peer

LEMMA AttributeSet ==
  ASSUME NEW i, NEW e, {"addr", "ifu", "broadcast"} \subseteq DOMAIN e, NEW r \in Attributes
  PROVE  /\ {"addr", "ifu", "broadcast"} \subseteq DOMAIN SetAttribute(i, e, r)
         /\ SetAttribute(i, e, r).addr =
              IF r.type = "LOCAL" \/ (r.type = "ADDRESS" /\ e.addr = None) THEN r.address ELSE e.addr
         /\ r.type = "LOCAL" /\ e.addr # None => SetAttribute(i, e, r).ifu = e.addr
         /\ r.type = "ADDRESS" /\ e.addr # None => SetAttribute(i, e, r).ifu = r.address
         /\ r.type # "BROADCAST" /\ e.addr = None => SetAttribute(i, e, r).ifu = e.ifu
<1>1. CASE r.type = "ADDRESS"
  BY <1>1 DEF SetAttribute, SetAddress
<1>2. CASE r.type = "LOCAL"
  BY <1>2 DEF SetAttribute, SetLocalAddress
<1>3. CASE r.type = "BROADCAST"
  BY <1>3 DEF SetAttribute, SetBroadcastAddress
<1> QED BY <1>1, <1>2, <1>3 DEF Attributes

\* An answer as inet_fill_ifaddr and inet6_fill_ifaddr make it.
OneOfEach(answer, peer) ==
  /\ answer \subseteq Attributes
  /\ \A r \in answer : /\ r.type = "LOCAL" => r.address = Own
                       /\ r.type = "ADDRESS" => r.address = peer
  /\ \A r, q \in answer : r.type = q.type => r = q
  /\ peer \in {Own, Other}

LEMMA AnswersHaveOneOfEach ==
  ASSUME NEW answer \in Answers
  PROVE  /\ \E peer : OneOfEach(answer, peer) /\ (Has(answer, "ADDRESS") => ValueOf(answer, "ADDRESS") = peer)
         /\ Has(answer, "ADDRESS")
         /\ ~Has(answer, "LOCAL") => ValueOf(answer, "ADDRESS") = Own
<1> USE DEF OneOfEach, Attribute, Attributes, Has
<1>1. ASSUME NEW a \in {Own, Other}, answer \in {{Attribute("ADDRESS", a), Attribute("LOCAL", Own)},
                 {Attribute("ADDRESS", a), Attribute("LOCAL", Own), Attribute("BROADCAST", Broadcast)}}
      PROVE OneOfEach(answer, a) /\ Has(answer, "ADDRESS") /\ Has(answer, "LOCAL")
            /\ ValueOf(answer, "ADDRESS") = a
  <2>1. OneOfEach(answer, a)
    BY <1>1
  <2>4. \E r \in answer : r.type = "LOCAL"
    <3>1. Attribute("LOCAL", Own) \in answer
      BY <1>1
    <3> QED BY <3>1
  <2>2. \E r \in answer : r.type = "ADDRESS"
    <3>1. Attribute("ADDRESS", a) \in answer
      BY <1>1
    <3> QED BY <3>1
  <2>3. ValueOf(answer, "ADDRESS") = a
    BY <2>1, <2>2 DEF ValueOf
  <2> QED BY <2>1, <2>2, <2>3, <2>4
<1>2. ASSUME answer = {Attribute("ADDRESS", Own)}
      PROVE OneOfEach(answer, Own) /\ Has(answer, "ADDRESS") /\ ValueOf(answer, "ADDRESS") = Own
  <2>1. OneOfEach(answer, Own)
    BY <1>2
  <2>2. \E r \in answer : r.type = "ADDRESS"
    BY <1>2
  <2>3. ValueOf(answer, "ADDRESS") = Own
    BY <2>1, <2>2 DEF ValueOf
  <2> QED BY <2>1, <2>2, <2>3
<1> QED BY <1>1, <1>2 DEF Answers

LEMMA PartlyStep ==
  ASSUME NEW i, NEW e, NEW order, NEW k \in Nat, NEW peer, NEW answer, OneOfEach(answer, peer),
         Partly(e, order, k, peer), order[k + 1] \in answer,
         ~Seen(order, k, order[k + 1].type)
  PROVE  Partly(SetAttribute(i, e, order[k + 1]), order, k + 1, peer)
<1> DEFINE r == order[k + 1]
           x == SetAttribute(i, e, r)
<1>1. r \in Attributes /\ (r.type = "LOCAL" => r.address = Own)
      /\ (r.type = "ADDRESS" => r.address = peer) /\ peer # None /\ Own # None
  BY AddressAssumption DEF OneOfEach
<1>2. \A type : Seen(order, k + 1, type) <=> Seen(order, k, type) \/ r.type = type
  <2>1. 1..(k + 1) = 1..k \union {k + 1}
    OBVIOUS
  <2> QED BY <2>1 DEF Seen
<1>10. Seen(order, k, "LOCAL") => e.addr = Own
  BY DEF Partly
<1>11. Seen(order, k, "ADDRESS") \/ Seen(order, k, "LOCAL") => e.addr # None
  BY <1>1 DEF Partly
<1>3. ~Seen(order, k, r.type) /\ Partly(e, order, k, peer)
  OBVIOUS
<1>4. /\ {"addr", "ifu", "broadcast"} \subseteq DOMAIN x
      /\ x.addr = IF r.type = "LOCAL" \/ (r.type = "ADDRESS" /\ e.addr = None)
                     THEN r.address ELSE e.addr
      /\ r.type = "LOCAL" /\ e.addr # None => x.ifu = e.addr
      /\ r.type = "ADDRESS" /\ e.addr # None => x.ifu = r.address
  BY <1>1, <1>3, AttributeSet DEF Partly
<1> HIDE DEF r, x
<1>5. r.type \in {"ADDRESS", "LOCAL", "BROADCAST"}
  BY <1>1 DEF Attributes
<1>12. /\ Seen(order, k + 1, "LOCAL") <=> Seen(order, k, "LOCAL") \/ r.type = "LOCAL"
       /\ Seen(order, k + 1, "ADDRESS") <=> Seen(order, k, "ADDRESS") \/ r.type = "ADDRESS"
       /\ Seen(order, k + 1, "BROADCAST") <=> Seen(order, k, "BROADCAST") \/ r.type = "BROADCAST"
  BY <1>2
<1>13. Seen(order, k + 1, "LOCAL") => x.addr = Own
  BY <1>1, <1>3, <1>4, <1>5, <1>10, <1>11, <1>12
<1>14. ~Seen(order, k + 1, "LOCAL") /\ Seen(order, k + 1, "ADDRESS") => x.addr = peer
  BY <1>1, <1>3, <1>4, <1>5, <1>12 DEF Partly
<1>15. ~Seen(order, k + 1, "LOCAL") /\ ~Seen(order, k + 1, "ADDRESS") => x.addr = None
  BY <1>1, <1>3, <1>4, <1>5, <1>12 DEF Partly
<1>16. Seen(order, k + 1, "LOCAL") /\ Seen(order, k + 1, "ADDRESS")
         /\ ~Seen(order, k + 1, "BROADCAST") => x.ifu = peer
  BY <1>1, <1>3, <1>4, <1>5, <1>11, <1>12 DEF Partly
<1>9. Partly(x, order, k + 1, peer)
  BY <1>4, <1>13, <1>14, <1>15, <1>16 DEF Partly
<1> QED BY <1>9 DEF x, r

LEMMA OrderIsAll ==
  ASSUME NEW answer \in Answers, NEW order \in SetToSeqs(answer)
  PROVE  /\ order \in Seq(answer) /\ Len(order) \in 1..3
         /\ \A j, l \in 1..Len(order) : j # l => order[j] # order[l]
         /\ \A r \in answer : \E j \in 1..Len(order) : order[j] = r
<1>1. \E a, b, c : answer = {a} \/ (a # b /\ answer = {a, b}) 
        \/ (a # b /\ a # c /\ b # c /\ answer = {a, b, c})
  <2>1. \A a, b, t, u : t # u => Attribute(t, a) # Attribute(u, b)
    BY DEF Attribute
  <2> QED BY <2>1 DEF Answers
<1>2. PICK a, b, c : answer = {a} \/ (a # b /\ answer = {a, b}) 
        \/ (a # b /\ a # c /\ b # c /\ answer = {a, b, c})
  BY <1>1
<1>3. order \in [1..Cardinality(answer) -> answer]
      /\ \A j, l \in 1..Cardinality(answer) : j # l => order[j] # order[l]
  BY DEF SetToSeqs
<1>4. ASSUME answer = {a}
      PROVE Cardinality(answer) = 1
  BY <1>4, FS_Singleton
<1>5. ASSUME a # b, answer = {a, b}
      PROVE Cardinality(answer) = 2
  <2>1. IsFiniteSet({a}) /\ Cardinality({a}) = 1
    BY FS_Singleton
  <2>2. answer = {a} \union {b} /\ b \notin {a}
    BY <1>5
  <2> QED BY <2>1, <2>2, FS_AddElement
<1>6. ASSUME a # b, a # c, b # c, answer = {a, b, c}
      PROVE Cardinality(answer) = 3
  <2>1. IsFiniteSet({a}) /\ Cardinality({a}) = 1
    BY FS_Singleton
  <2>2. {a, b} = {a} \union {b} /\ b \notin {a}
    BY <1>6
  <2>3. IsFiniteSet({a} \union {b}) /\ Cardinality({a} \union {b}) = 1 + 1
    BY <2>1, <2>2, FS_AddElement
  <2>5. IsFiniteSet({a, b}) /\ Cardinality({a, b}) = 2
    BY <2>2, <2>3
  <2>4. answer = {a, b} \union {c} /\ c \notin {a, b}
    BY <1>6
  <2> QED BY <2>5, <2>4, FS_AddElement
<1>7. Cardinality(answer) \in 1..3
  BY <1>2, <1>4, <1>5, <1>6
<1>8. Len(order) = Cardinality(answer) /\ order \in Seq(answer)
  BY <1>3, <1>7
<1>9. \A r \in answer : \E j \in 1..Cardinality(answer) : order[j] = r
  <2>1. CASE answer = {a}
    BY <2>1, <1>3, <1>4
  <2>2. CASE a # b /\ answer = {a, b}
    <3>1. order[1] \in {a, b} /\ order[2] \in {a, b} /\ order[1] # order[2]
      BY <2>2, <1>3, <1>5
    <3> QED BY <2>2, <3>1, <1>5
  <2>3. CASE a # b /\ a # c /\ b # c /\ answer = {a, b, c}
    <3>1. order[1] \in {a, b, c} /\ order[2] \in {a, b, c} /\ order[3] \in {a, b, c}
          /\ order[1] # order[2] /\ order[1] # order[3] /\ order[2] # order[3]
      BY <2>3, <1>3, <1>6
    <3> QED BY <2>3, <3>1, <1>6
  <2> QED BY <1>2, <2>1, <2>2, <2>3
<1> QED BY <1>3, <1>7, <1>8, <1>9

LEMMA EntryIsWhole ==
  ASSUME NEW answer \in Answers, NEW order \in SetToSeqs(answer), NEW i, NEW peer,
         OneOfEach(answer, peer)
  PROVE  Partly(NewEntry(i, order), order, Len(order), peer)
<1> DEFINE start == [Blank EXCEPT !.broadcast = known[i] # None /\ known[i]]
           made == CHOOSE g : g = [k \in 0..Len(order) |->
                     IF k = 0 THEN start ELSE SetAttribute(i, g[k - 1], order[k])]
           one == SetAttribute(i, start, order[1])
           two == SetAttribute(i, one, order[2])
           three == SetAttribute(i, two, order[3])
           table == [k \in 0..Len(order) |-> IF k = 0 THEN start ELSE IF k = 1 THEN one
                                             ELSE IF k = 2 THEN two ELSE three]
<1>1. NewEntry(i, order) = made[Len(order)]
  BY DEF NewEntry
<1>0. /\ order \in Seq(answer) /\ Len(order) \in 1..3
      /\ \A j, l \in 1..Len(order) : j # l => order[j] # order[l]
  BY OrderIsAll
<1> HIDE DEF start
<1>2. table = [k \in 0..Len(order) |->
                     IF k = 0 THEN start ELSE SetAttribute(i, table[k - 1], order[k])]
  BY <1>0
<1>3. made = [k \in 0..Len(order) |->
                     IF k = 0 THEN start ELSE SetAttribute(i, made[k - 1], order[k])]
  BY <1>2
<1> HIDE DEF made, table
<1>4. Partly(made[0], order, 0, peer)
  <2>1. made[0] = start
    BY <1>0, <1>3
  <2>2. {"addr", "ifu", "broadcast"} \subseteq DOMAIN start /\ start.addr = None
    BY DEF start, Blank
  <2> QED BY <2>1, <2>2 DEF Partly, Seen
<1>5. ASSUME NEW k \in 0..2, k < Len(order), Partly(made[k], order, k, peer)
      PROVE  Partly(made[k + 1], order, k + 1, peer)
  <2>1. made[k + 1] = SetAttribute(i, made[k], order[k + 1])
    BY <1>0, <1>3, <1>5
  <2>2. order[k + 1] \in answer
    BY <1>0, <1>5
  <2>3. ~Seen(order, k, order[k + 1].type)
    BY <1>0, <1>5, <2>2 DEF Seen, OneOfEach
  <2>4. k \in Nat
    OBVIOUS
  <2>5. Partly(SetAttribute(i, made[k], order[k + 1]), order, k + 1, peer)
    BY <1>5, <2>2, <2>3, <2>4, PartlyStep
  <2> QED BY <2>1, <2>5
<1>6. CASE Len(order) = 1
  BY <1>1, <1>4, <1>5, <1>6
<1>7. CASE Len(order) = 2
  <2>1. Partly(made[1], order, 1, peer)
    BY <1>4, <1>5, <1>7
  <2> QED BY <1>1, <2>1, <1>5, <1>7
<1>8. CASE Len(order) = 3
  <2>1. Partly(made[1], order, 1, peer)
    BY <1>4, <1>5, <1>8
  <2>2. Partly(made[2], order, 2, peer)
    BY <2>1, <1>5, <1>8
  <2> QED BY <1>1, <2>2, <1>5, <1>8
<1> QED BY <1>0, <1>6, <1>7, <1>8

LEMMA AnswerMakesEntry ==
  ASSUME ReadAnswer
  PROVE  LocalIsOwn'
<1>0. PICK i \in Interfaces, answer \in Answers : \E order \in SetToSeqs(answer) :
        entry' = NewEntry(i, order) /\ of' = answer
  BY DEF ReadAnswer
<1>1. PICK order \in SetToSeqs(answer) : entry' = NewEntry(i, order) /\ of' = answer
  BY <1>0
<1>2. PICK peer : OneOfEach(answer, peer) /\ ValueOf(answer, "ADDRESS") = peer
  BY AnswersHaveOneOfEach
<1>3. Partly(entry', order, Len(order), peer)
  BY <1>1, <1>2, EntryIsWhole
<1>4. \A type : Seen(order, Len(order), type) <=> Has(answer, type)
  BY OrderIsAll DEF Seen, Has
<1>5. ~Has(answer, "LOCAL") => peer = Own
  BY <1>2, AnswersHaveOneOfEach
<1>6. entry'.addr = Own
  BY <1>3, <1>4, <1>5, AnswersHaveOneOfEach DEF Partly
<1>7. HasPeer(answer) /\ ~Has(answer, "BROADCAST") => entry'.ifu = Other
  <2>1. HasPeer(answer) => Has(answer, "LOCAL")
    BY <1>2, <1>5, AddressAssumption DEF HasPeer
  <2> QED BY <1>2, <1>3, <1>4, <2>1, AnswersHaveOneOfEach DEF Partly, HasPeer
<1>8. LocalIsOwn' = (of' # {} => entry'.addr = Own /\ (HasPeer(of') /\ ~Has(of', "BROADCAST") => entry'.ifu = Other))
  BY DEF LocalIsOwn, HasPeer, Has, ValueOf
<1> QED BY <1>1, <1>6, <1>7, <1>8

-----------------------------------------------------------------------------
(* The list                                                                   *)

SoNames == {Linker, Vdso, Main} \union Sos

Distinct(s) == \A j, k \in 1..Len(s) : s[j] = s[k] => j = k

\* The linker is at the head of its list, and no library is in it twice: dlopen adds
\* one that has not been opened, at the end.
ListOK ==
  /\ solist \in Seq(SoNames) /\ solist # <<>> /\ solist[1] = Linker
  /\ Distinct(solist)
  /\ opened \subseteq Sos
  /\ \A k \in 1..Len(solist) : solist[k] \in Sos => solist[k] \in opened

LEMMA ListInitially == SoInit => ListOK
<1> SUFFICES ASSUME SoInit PROVE ListOK
  OBVIOUS
<1>1. opened = {} /\ Linker \notin Sos /\ Vdso \notin Sos /\ Main \notin Sos
  BY SosAssumption DEF SoInit
<1>2. Linker # Vdso /\ Linker # Main /\ Vdso # Main
  BY DEF Linker, Vdso, Main
<1>3. CASE solist = <<Linker, Main>>
  <2>1. solist \in Seq(SoNames) /\ Len(solist) = 2 /\ solist[1] = Linker /\ solist[2] = Main
    BY <1>3 DEF SoNames
  <2>2. \A k \in 1..Len(solist) : k = 1 \/ k = 2
    BY <2>1
  <2> QED BY <1>1, <1>2, <2>1, <2>2 DEF ListOK, Distinct
<1>4. CASE solist = <<Linker, Vdso, Main>>
  <2>1. /\ solist \in Seq(SoNames) /\ Len(solist) = 3
        /\ solist[1] = Linker /\ solist[2] = Vdso /\ solist[3] = Main
    BY <1>4 DEF SoNames
  <2>2. \A k \in 1..Len(solist) : k = 1 \/ k = 2 \/ k = 3
    BY <2>1
  <2> QED BY <1>1, <1>2, <2>1, <2>2 DEF ListOK, Distinct
<1> QED BY <1>3, <1>4 DEF SoInit

LEMMA OpenStep ==
  ASSUME ListOK, NEW so \in Sos, Dlopen(so)
  PROVE  /\ ListOK'
         /\ Len(solist') = Len(solist) + 1 /\ \A k \in 1..Len(solist) : solist'[k] = solist[k]
<1>1. solist' = Append(solist, so) /\ opened' = opened \union {so} /\ so \notin opened
  BY DEF Dlopen
<1>2. solist \in Seq(SoNames) /\ so \in SoNames /\ Len(solist) \in Nat /\ Len(solist) # 0
  BY DEF ListOK, SoNames
<1>3. /\ solist' \in Seq(SoNames) /\ Len(solist') = Len(solist) + 1
      /\ \A k \in 1..Len(solist) : solist'[k] = solist[k]
      /\ solist'[Len(solist) + 1] = so
  BY <1>1, <1>2
<1>4. \A k \in 1..Len(solist') : k \in 1..Len(solist) \/ k = Len(solist) + 1
  BY <1>2, <1>3
<1>5. \A k \in 1..Len(solist) : solist[k] # so
  BY <1>1 DEF ListOK
<1>6. Distinct(solist)'
  BY <1>3, <1>4, <1>5 DEF ListOK, Distinct
<1>7. solist' # <<>> /\ solist'[1] = Linker
  <2>1. 1 \in 1..Len(solist) /\ Len(solist') # 0
    BY <1>2, <1>3
  <2> QED BY <1>3, <2>1 DEF ListOK
<1>8. \A k \in 1..Len(solist') : solist'[k] \in Sos => solist'[k] \in opened'
  BY <1>1, <1>3, <1>4 DEF ListOK
<1>9. opened' \subseteq Sos
  BY <1>1 DEF ListOK
<1> QED BY <1>3, <1>6, <1>7, <1>8, <1>9 DEF ListOK

LEMMA CloseStep ==
  ASSUME ListOK, NEW so \in Sos, Dlclose(so)
  PROVE  ListOK'
<1>1. PICK j \in DOMAIN solist : solist[j] = so /\ solist' = RemoveAt(solist, j)
  BY DEF Dlclose
<1>2. opened' = opened
  BY DEF Dlclose
<1>3. PICK n \in Nat : n = Len(solist) /\ n # 0
  BY DEF ListOK
<1>4. solist \in Seq(SoNames) /\ j \in 1..n /\ j # 1
  BY <1>1, <1>3, SosAssumption DEF ListOK
<1>5. solist' = SubSeq(solist, 1, j - 1) \o SubSeq(solist, j + 1, n)
  BY <1>1, <1>3 DEF RemoveAt
<1>6. /\ SubSeq(solist, 1, j - 1) \in Seq(SoNames) /\ Len(SubSeq(solist, 1, j - 1)) = j - 1
      /\ \A k \in 1..(j - 1) : SubSeq(solist, 1, j - 1)[k] = solist[k]
  BY <1>3, <1>4
<1>7. /\ SubSeq(solist, j + 1, n) \in Seq(SoNames) /\ Len(SubSeq(solist, j + 1, n)) = n - j
      /\ \A k \in 1..(n - j) : SubSeq(solist, j + 1, n)[k] = solist[k + j]
  BY <1>3, <1>4
<1>8. /\ solist' \in Seq(SoNames) /\ Len(solist') = n - 1
      /\ \A k \in 1..(n - 1) : solist'[k] = IF k < j THEN solist[k] ELSE solist[k + 1]
  <2> DEFINE a == SubSeq(solist, 1, j - 1)
             b == SubSeq(solist, j + 1, n)
  <2>1. /\ a \in Seq(SoNames) /\ b \in Seq(SoNames) /\ Len(a) = j - 1 /\ Len(b) = n - j
        /\ \A k \in 1..(j - 1) : a[k] = solist[k]
        /\ \A k \in 1..(n - j) : b[k] = solist[k + j]
    BY <1>6, <1>7
  <2>2. solist' = a \o b
    BY <1>5
  <2> HIDE DEF a, b
  <2>3. solist' \in Seq(SoNames) /\ Len(solist') = n - 1
    <3>1. a \o b \in Seq(SoNames) /\ Len(a \o b) = Len(a) + Len(b)
      BY <2>1
    <3>2. (j - 1) + (n - j) = n - 1
      BY <1>4
    <3> QED BY <2>1, <2>2, <3>1, <3>2
  <2>4. ASSUME NEW k \in 1..(n - 1) PROVE solist'[k] = IF k < j THEN solist[k] ELSE solist[k + 1]
    <3>1. CASE k < j
      <4>1. k \in 1..Len(a) /\ k \in 1..(j - 1)
        BY <2>1, <1>4, <3>1
      <4> QED BY <2>1, <2>2, <3>1, <4>1
    <3>2. CASE ~(k < j)
      <4>1. k - (j - 1) \in 1..(n - j) /\ k - (j - 1) \in Nat
        BY <1>4, <3>2
      <4>2. (a \o b)[k] = b[k - (j - 1)]
        <5>1. PICK i \in 1..Len(b) : i = k - (j - 1) /\ k = Len(a) + i
          BY <1>4, <2>1, <4>1
        <5>2. (a \o b)[Len(a) + i] = b[i]
          BY <2>1, ConcatIs
        <5> QED BY <5>1, <5>2
      <4>3. b[k - (j - 1)] = solist[(k - (j - 1)) + j]
        <5>1. PICK i \in 1..(n - j) : i = k - (j - 1)
          BY <4>1
        <5> QED BY <2>1, <5>1
      <4>4. (k - (j - 1)) + j = k + 1
        BY <1>4
      <4> QED BY <2>1, <2>2, <3>2, <4>2, <4>3, <4>4
    <3> QED BY <3>1, <3>2
  <2> QED BY <2>3, <2>4
<1>9. \A k \in 1..(n - 1) : k \in 1..n /\ k + 1 \in 1..n
  BY <1>3
<1>10. Distinct(solist)'
  <2> SUFFICES ASSUME NEW k \in 1..(n - 1), NEW l \in 1..(n - 1), solist'[k] = solist'[l]
               PROVE  k = l
    BY <1>8 DEF Distinct
  <2>1. \A x, y \in 1..n : solist[x] = solist[y] => x = y
    BY <1>3 DEF ListOK, Distinct
  <2>2. PICK x \in 1..n, y \in 1..n :
          /\ x = (IF k < j THEN k ELSE k + 1) /\ y = (IF l < j THEN l ELSE l + 1)
    BY <1>9
  <2>3. solist[x] = solist[y]
    BY <1>8, <2>2
  <2> QED BY <2>1, <2>2, <2>3, <1>4
<1>11. solist' # <<>> /\ solist'[1] = Linker
  <2>1. 1 \in 1..(n - 1) /\ 1 < j
    BY <1>3, <1>4
  <2>2. solist'[1] = solist[1]
    BY <1>8, <2>1
  <2> QED BY <1>8, <2>1, <2>2 DEF ListOK
<1>12. \A k \in 1..Len(solist') : solist'[k] \in Sos => solist'[k] \in opened'
  BY <1>2, <1>3, <1>8, <1>9 DEF ListOK
<1> QED BY <1>2, <1>8, <1>10, <1>11, <1>12 DEF ListOK

-----------------------------------------------------------------------------
(* The walks                                                                  *)

WalkTypes ==
  /\ walk \in [Threads -> Steps]
  /\ alone \in [Threads -> BOOLEAN]
  /\ DOMAIN cur = Threads /\ DOMAIN result = Threads /\ DOMAIN whole = Threads

\* A walk is alone only if no other one is under way.
AloneOK ==
  \A t, u \in Threads : t # u /\ Walking(t) /\ Walking(u) => ~alone[t]

Before == {"none", "text", "head", "somain"}

\* A walk that is alone has gathered the list up to the soinfo that it is at.
GatheredBy(t) ==
  /\ walk[t] \in Before => cur[t] = NoSo
  /\ alone[t] /\ walk[t] \in {"head", "somain"} => shared = <<>>
  /\ alone[t] /\ walk[t] = "next" =>
       \/ cur[t] = NoSo /\ shared = <<>>
       \/ \E k \in 1..Len(solist) : cur[t] = solist[k] /\ shared = SubSeq(solist, 1, k)
  /\ alone[t] /\ walk[t] = "copy" => shared = whole[t]
  /\ alone[t] /\ walk[t] \in {"print", "done"} => result[t] = whole[t]

WalkInv == WalkTypes /\ AloneOK /\ (\A t \in Threads : GatheredBy(t))

\* What is behind the k-th soinfo of the list.
LEMMA AfterIs ==
  ASSUME ListOK, NEW k \in 1..Len(solist)
  PROVE  /\ k = Len(solist) => After(solist[k]) = NoSo
         /\ k # Len(solist) => /\ After(solist[k]) = solist[k + 1] /\ k + 1 \in 1..Len(solist)
                              /\ After(solist[k]) # NoSo
<1> DEFINE later == {j \in 2..Len(solist) : solist[j - 1] = solist[k]}
<1>1. PICK n \in Nat : n = Len(solist) /\ n # 0
  BY DEF ListOK
<1>2. \A j \in 2..n : j - 1 \in 1..n /\ (solist[j - 1] = solist[k] <=> j = k + 1)
  BY <1>1 DEF ListOK, Distinct
<1>3. ASSUME k = n PROVE later = {}
  BY <1>1, <1>2, <1>3
<1>4. ASSUME k # n PROVE later = {k + 1} /\ k + 1 \in 1..n
  BY <1>1, <1>2, <1>4
<1>5. ASSUME k # n PROVE After(solist[k]) = solist[k + 1]
  <2>1. Min({k + 1}) = k + 1
    BY DEF Min
  <2> QED BY <1>4, <1>5, <2>1 DEF After
<1>6. ASSUME k # n PROVE solist[k + 1] # NoSo
  <2>1. solist[k + 1] \in SoNames
    BY <1>1, <1>4, <1>6 DEF ListOK
  <2>2. NoSo \notin SoNames
    BY SosAssumption DEF SoNames, NoSo, Linker, Vdso, Main
  <2> QED BY <2>1, <2>2
<1>7. k = n => After(solist[k]) = NoSo
  BY <1>3 DEF After
<1> QED BY <1>1, <1>4, <1>5, <1>6, <1>7

\* What another thread does leaves a walk that is alone as it is.
LEMMA OthersKeep ==
  ASSUME WalkInv, NEW t \in Threads, NEW u \in Threads, u # t,
         walk'[u] = walk[u], alone'[u] \in BOOLEAN, alone'[u] => alone[u],
         cur'[u] = cur[u], result'[u] = result[u], whole'[u] = whole[u],
         Walking(u) /\ alone'[u] => shared' = shared /\ solist' = solist
  PROVE  GatheredBy(u)'
<1>1. GatheredBy(u)
  BY DEF WalkInv
<1>2. walk[u] \in {"head", "somain", "next", "copy"} => Walking(u)
  BY DEF Walking
<1> QED BY <1>1, <1>2 DEF GatheredBy

LEMMA WalkInitially == SoInit => WalkInv
BY DEF SoInit, WalkInv, WalkTypes, AloneOK, GatheredBy, Walking, Steps, Before

LEMMA StartStep ==
  ASSUME WalkInv, NEW t \in Threads, StartText(t)
  PROVE  WalkInv'
<1>1. /\ walk[t] = "none" /\ walk' = [walk EXCEPT ![t] = "text"]
      /\ alone' = [u \in Threads |->
                IF u = t THEN \A v \in Threads : ~Walking(v) ELSE alone[u] /\ ~Walking(u)]
      /\ UNCHANGED <<solist, shared, cur, result, whole>>
  BY DEF StartText, WalkGoes
<1>2. WalkTypes'
  BY <1>1 DEF WalkInv, WalkTypes, Steps
<1>3. AloneOK'
  <2> SUFFICES ASSUME NEW x \in Threads, NEW y \in Threads, x # y, Walking(x)', Walking(y)'
               PROVE  ~alone'[x]
    BY DEF AloneOK
  <2>1. CASE x = t
    <3>1. Walking(y)
      BY <1>1, <2>1 DEF Walking, WalkInv, WalkTypes
    <3> QED BY <1>1, <2>1, <3>1
  <2>2. CASE x # t
    <3>1. Walking(x)
      BY <1>1, <2>2 DEF Walking, WalkInv, WalkTypes
    <3> QED BY <1>1, <2>2, <3>1
  <2> QED BY <2>1, <2>2
<1>4. ASSUME NEW u \in Threads \ {t} PROVE GatheredBy(u)'
  BY <1>1, <1>4, OthersKeep DEF WalkInv, WalkTypes
<1>5. GatheredBy(t)'
  <2>1. walk'[t] = "text" /\ cur'[t] = NoSo
    BY <1>1 DEF WalkInv, WalkTypes, GatheredBy, Before
  <2> QED BY <2>1 DEF GatheredBy
<1> QED BY <1>2, <1>3, <1>4, <1>5 DEF WalkInv

LEMMA LibrariesStep ==
  ASSUME ListOK, WalkInv, NEW so \in Sos, Dlopen(so) \/ Dlclose(so)
  PROVE  ListOK' /\ WalkInv'
<1>1. ListOK'
  BY OpenStep, CloseStep
<1>2. UNCHANGED <<shared, walk, cur, result, whole>>
  BY DEF Dlopen, Dlclose
<1>3. CASE Dlopen(so)
  <2>1. alone' = alone
    BY <1>3 DEF Dlopen
  <2>2. ASSUME NEW t \in Threads PROVE GatheredBy(t)'
    <3>1. ASSUME NEW k \in 1..Len(solist)
          PROVE  k \in 1..Len(solist') /\ solist'[k] = solist[k] /\ SubSeq(solist', 1, k) = SubSeq(solist, 1, k)
      <4>1. Len(solist') = Len(solist) + 1 /\ (\A j \in 1..Len(solist) : solist'[j] = solist[j])
            /\ Len(solist) \in Nat /\ solist \in Seq(SoNames) /\ solist' \in Seq(SoNames)
        BY <1>1, <1>3, OpenStep DEF ListOK
      <4>2. k \in 1..Len(solist') /\ solist'[k] = solist[k]
        BY <4>1
      <4>3. \A j \in 1..k : solist'[j] = solist[j]
        BY <4>1
      <4>4. k \in Nat /\ k <= Len(solist) /\ k <= Len(solist')
        BY <4>1
      <4>5. SubSeq(solist', 1, k) = SubSeq(solist, 1, k)
        BY <4>1, <4>3, <4>4, SameStart
      <4> QED BY <4>2, <4>5
    <3> QED BY <1>2, <2>1, <3>1 DEF WalkInv, GatheredBy
  <2> QED BY <1>1, <1>2, <2>1, <2>2 DEF WalkInv, WalkTypes, AloneOK, Walking
<1>4. CASE Dlclose(so)
  <2>1. alone' = [t \in Threads |-> alone[t] /\ ~Walking(t)]
    BY <1>4 DEF Dlclose
  <2>2. ASSUME NEW t \in Threads PROVE GatheredBy(t)'
    BY <1>2, <2>1 DEF WalkInv, WalkTypes, GatheredBy, Walking
  <2>3. WalkTypes'
    BY <1>2, <2>1 DEF WalkInv, WalkTypes
  <2> QED BY <1>1, <1>2, <2>1, <2>2, <2>3 DEF WalkInv, AloneOK, Walking
<1> QED BY <1>3, <1>4

\* A step of the walk of t.
LEMMA TextKeeps ==
  ASSUME ListOK, WalkInv, NEW t \in Threads, TextStep(t)
  PROVE  ListOK' /\ WalkInv'
<1>1. /\ UNCHANGED <<solist, opened, alone>> /\ Walking(t)
      /\ \A u \in Threads \ {t} : Walking(u) => ~alone[u]
  BY DEF TextStep, Lookup, Clear, FindNextOffset, ReadNext, CopyVector, PrintNames, WalkInv, AloneOK, Walking
<1>2. /\ WalkTypes' 
      /\ \A u \in Threads \ {t} : /\ walk'[u] = walk[u] /\ cur'[u] = cur[u]
                                  /\ result'[u] = result[u] /\ whole'[u] = whole[u]
  BY <1>1 DEF TextStep, Lookup, Clear, FindNextOffset, ReadNext, CopyVector, PrintNames, WalkGoes, Corrupts,
       WalkInv, WalkTypes, Steps
<1>3. ListOK'
  BY <1>1 DEF ListOK, Distinct
<1>4. AloneOK'
  BY <1>1, <1>2 DEF AloneOK, WalkInv, Walking
<1>5. ASSUME NEW u \in Threads \ {t} PROVE GatheredBy(u)'
  BY <1>1, <1>2, <1>5, OthersKeep DEF WalkInv, WalkTypes
<1>6. GatheredBy(t)'
  <2>1. GatheredBy(t) /\ walk[t] \in Steps
    BY DEF WalkInv, WalkTypes
  <2>2. ASSUME NEW step, NEW s, NEW next, Lookup(t, step, s, next), step \in {"head", "somain"},
               next \in {"somain", "next"}
        PROVE  GatheredBy(t)'
    <3>1. /\ walk[t] = step /\ walk'[t] \in {step, next}
          /\ UNCHANGED <<shared, cur, result, whole, solist, alone>>
      BY <2>2 DEF Lookup, WalkGoes, WalkInv, WalkTypes
    <3> QED BY <2>1, <2>2, <3>1 DEF GatheredBy, Before
  <2>3. ASSUME Clear(t) PROVE GatheredBy(t)'
    <3>1. CASE Corrupts(t)
      BY <1>1, <2>1, <2>3, <3>1 DEF Corrupts, GatheredBy, Clear
    <3>2. CASE shared' = Emptied /\ WalkGoes(t, "head") /\ UNCHANGED <<cur, whole, crashed>>
      <4>1. walk'[t] = "head" /\ shared' = <<>> /\ cur'[t] = NoSo
        BY <2>1, <2>3, <3>2 DEF Clear, WalkGoes, Emptied, WalkInv, WalkTypes, GatheredBy, Before
      <4> QED BY <4>1 DEF GatheredBy
    <3> QED BY <2>3, <3>1, <3>2 DEF Clear
  <2>4. ASSUME FindNextOffset(t) PROVE GatheredBy(t)'
    <3>1. CASE UNCHANGED <<shared, walk, cur, whole>>
      BY <1>1, <2>1, <2>4, <3>1 DEF GatheredBy, FindNextOffset
    <3>2. CASE shared' = Append(shared, Linker) /\ cur' = [cur EXCEPT ![t] = Linker]
               /\ UNCHANGED <<walk, whole, crashed>>
      <4>1. walk[t] = "next" /\ cur[t] = NoSo /\ UNCHANGED <<solist, alone, result>>
        BY <2>4 DEF FindNextOffset
      <4>2. 1 \in 1..Len(solist) /\ solist[1] = Linker /\ solist \in Seq(SoNames)
        BY DEF ListOK
      <4>3. cur'[t] = Linker
        BY <3>2 DEF WalkInv, WalkTypes
      <4>4. alone[t] => shared = <<>>
        <5>1. \A k \in 1..Len(solist) : solist[k] # NoSo
          BY SosAssumption DEF ListOK, SoNames, NoSo, Linker, Vdso, Main
        <5> QED BY <2>1, <4>1, <5>1 DEF GatheredBy
      <4>5. Append(<<>>, Linker) = SubSeq(solist, 1, 1)
        <5>1. Append(<<>>, Linker) = <<Linker>>
          OBVIOUS
        <5>2. SubSeq(solist, 1, 1) \in Seq(SoNames) /\ Len(SubSeq(solist, 1, 1)) = 1
              /\ SubSeq(solist, 1, 1)[1] = solist[1]
          BY <4>2
        <5>3. <<Linker>> \in Seq(SoNames) /\ Len(<<Linker>>) = 1 /\ <<Linker>>[1] = Linker
          BY DEF SoNames
        <5>4. \A x, y \in Seq(SoNames) : Len(x) = 1 /\ Len(y) = 1 /\ x[1] = y[1] => x = y
          OBVIOUS
        <5> QED BY <4>2, <5>1, <5>2, <5>3, <5>4
      <4>6. alone[t] => shared' = SubSeq(solist, 1, 1)
        BY <3>2, <4>4, <4>5
      <4> QED BY <3>2, <4>1, <4>2, <4>3, <4>6 DEF GatheredBy, Before
    <3> QED BY <2>4, <3>1, <3>2 DEF FindNextOffset, Corrupts
  <2>5. ASSUME ReadNext(t) PROVE GatheredBy(t)'
    <3>0. walk[t] = "next" /\ cur[t] # NoSo /\ UNCHANGED <<solist, alone, result>>
      BY <2>5 DEF ReadNext
    <3>1. CASE UNCHANGED <<shared, walk, cur, whole>>
      BY <2>1, <3>0, <3>1 DEF GatheredBy
    <3>2. CASE After(cur[t]) # NoSo /\ shared' = Append(shared, After(cur[t]))
               /\ cur' = [cur EXCEPT ![t] = After(cur[t])] /\ UNCHANGED <<walk, whole, crashed>>
      <4>1. CASE alone[t]
        <5>1. PICK k \in 1..Len(solist) : cur[t] = solist[k] /\ shared = SubSeq(solist, 1, k)
          BY <2>1, <3>0, <4>1 DEF GatheredBy
        <5>2. After(solist[k]) = solist[k + 1] /\ k + 1 \in 1..Len(solist)
          BY <3>2, <5>1, AfterIs
        <5>3. Append(SubSeq(solist, 1, k), solist[k + 1]) = SubSeq(solist, 1, k + 1)
          BY <5>2 DEF ListOK
        <5>4. cur'[t] = solist[k + 1] /\ shared' = SubSeq(solist, 1, k + 1)
          BY <3>2, <5>1, <5>2, <5>3 DEF WalkInv, WalkTypes
        <5> QED BY <3>0, <3>2, <5>2, <5>4 DEF GatheredBy, Before
      <4>2. CASE ~alone[t]
        BY <3>0, <3>2, <4>2 DEF GatheredBy, Before
      <4> QED BY <4>1, <4>2
    <3>3. CASE After(cur[t]) = NoSo /\ WalkGoes(t, "copy") /\ cur' = [cur EXCEPT ![t] = NoSo]
               /\ whole' = [whole EXCEPT ![t] = solist] /\ UNCHANGED <<shared, crashed>>
      <4>1. walk'[t] = "copy" /\ whole'[t] = solist
        BY <3>3 DEF WalkGoes, WalkInv, WalkTypes
      <4>2. alone[t] => shared = solist
        <5> SUFFICES ASSUME alone[t] PROVE shared = solist
          OBVIOUS
        <5>1. PICK k \in 1..Len(solist) : cur[t] = solist[k] /\ shared = SubSeq(solist, 1, k)
          BY <2>1, <3>0 DEF GatheredBy
        <5>2. k = Len(solist)
          BY <3>3, <5>1, AfterIs
        <5>3. SubSeq(solist, 1, Len(solist)) = solist
          BY DEF ListOK
        <5> QED BY <5>1, <5>2, <5>3
      <4> QED BY <3>0, <3>3, <4>1, <4>2 DEF GatheredBy, Before
    <3> QED BY <2>5, <3>1, <3>2, <3>3 DEF ReadNext, Corrupts
  <2>6. ASSUME CopyVector(t) PROVE GatheredBy(t)'
    <3>1. CASE WalkGoes(t, "print") /\ result' = [result EXCEPT ![t] = shared]
               /\ UNCHANGED <<shared, cur, whole, crashed>>
      <4>1. walk[t] = "copy" /\ walk'[t] = "print" /\ result'[t] = shared
        BY <2>6, <3>1 DEF CopyVector, WalkGoes, WalkInv, WalkTypes
      <4> QED BY <1>1, <2>1, <3>1, <4>1 DEF GatheredBy, Before
    <3>2. CASE Corrupts(t) /\ UNCHANGED result
      BY <1>1, <2>1, <3>2 DEF Corrupts, GatheredBy
    <3> QED BY <2>6, <3>1, <3>2 DEF CopyVector
  <2>7. ASSUME PrintNames(t) PROVE GatheredBy(t)'
    <3>1. walk[t] = "print" /\ walk'[t] \in {"print", "done"}
          /\ UNCHANGED <<shared, cur, result, whole, solist, alone>>
      BY <2>7 DEF PrintNames, WalkGoes, WalkInv, WalkTypes
    <3> QED BY <2>1, <3>1 DEF GatheredBy, Before
  <2> QED BY <2>2, <2>3, <2>4, <2>5, <2>6, <2>7 DEF TextStep
<1> QED BY <1>2, <1>3, <1>4, <1>5, <1>6 DEF WalkInv

-----------------------------------------------------------------------------
(* The process                                                                *)

\* net_us reads answers only after a walk has ended and while a thread is left.
NetOK ==
  /\ net \in {"idle", "reading"}
  /\ net = "reading" => Loaded /\ Unstarted # {}

SoInfoInv == ElfInv /\ ListOK /\ WalkInv /\ LocalIsOwn /\ NetOK

LEMMA WalkersAre ==
  /\ Len(Walkers) \in Nat /\ DOMAIN Walkers = 1..Len(Walkers)
  /\ \A k \in DOMAIN Walkers : Walkers[k] \in Threads
  /\ Walkers[1] \in Threads
<1>1. Walkers \in Seq(Range(Walkers)) /\ Walkers # <<>>
  BY WalkersAssumption
<1>2. Len(Walkers) \in Nat /\ DOMAIN Walkers = 1..Len(Walkers) /\ Len(Walkers) # 0
  BY <1>1
<1>3. \A k \in DOMAIN Walkers : Walkers[k] \in Threads
  BY DEF Threads, Range
<1>4. 1 \in DOMAIN Walkers
  BY <1>2
<1> QED BY <1>2, <1>3, <1>4

\* The thread that net_us starts has not been started before.
LEMMA NextWalkerWaits ==
  ASSUME Unstarted # {}
  PROVE  NextWalker \in Threads /\ walk[NextWalker] = "none"
<1>1. Unstarted \subseteq Nat
  BY WalkersAre DEF Unstarted
<1>2. PICK k \in Unstarted : \A j \in Unstarted : k <= j
  BY <1>1, NatMin
<1>3. Min(Unstarted) \in Unstarted
  BY <1>2 DEF Min
<1> QED BY <1>3, WalkersAre DEF NextWalker, Unstarted

LEMMA SoInfoInitially == SoInfoInit => SoInfoInv
<1> SUFFICES ASSUME SoInfoInit PROVE SoInfoInv
  OBVIOUS
<1>1. ElfInv /\ ListOK /\ WalkInv
  BY ElfInitially, ListInitially, WalkInitially DEF SoInfoInit
<1>2. LocalIsOwn /\ NetOK
  BY DEF SoInfoInit, NetInit, LocalIsOwn, NetOK
<1> QED BY <1>1, <1>2 DEF SoInfoInv

\* No walk goes back to its beginning, and what is done is done.
LEMMA TextGoesOn ==
  ASSUME WalkInv, NEW t \in Threads, TextStep(t)
  PROVE  \A u \in Threads : walk[u] \in {"none", "done"} => walk'[u] = walk[u]
<1>1. walk[t] \notin {"none", "done"} /\ (walk' = walk \/ \E step \in Steps \ {"none"} : walk' = [walk EXCEPT ![t] = step])
  BY DEF TextStep, Lookup, Clear, FindNextOffset, ReadNext, CopyVector, PrintNames, WalkGoes, Corrupts, Steps
<1> QED BY <1>1 DEF WalkInv, WalkTypes

LEMMA TextFinds ==
  ASSUME ElfInv, NEW t \in Threads, TextStep(t)
  PROVE  ElfInv'
<1>1. CASE UNCHANGED elfVars
  BY <1>1 DEF elfVars, ElfInv, MapsOK, ModulesOK, GotOK, ResolvedAreRight
<1>2. ASSUME NEW s \in Symbols, Resolve("checkvpn", s) PROVE ElfInv'
  BY <1>2, WalkersAssumption, ResolveStep
<1>3. ASSUME NEW s \in Symbols, NEW step, NEW next, Lookup(t, step, s, next)
      PROVE  UNCHANGED elfVars \/ Resolve("checkvpn", s)
  BY <1>3 DEF Lookup
<1>4. GetHead \in Symbols /\ GetSomain \in Symbols
  BY WalkersAssumption
<1> QED BY <1>1, <1>2, <1>3, <1>4 DEF TextStep

\* What leaves the answers and the threads alone leaves their part alone.
LEMMA NetKeeps ==
  ASSUME LocalIsOwn, NetOK, UNCHANGED netVars,
         \A t \in Threads : walk[t] \in {"none", "done"} => walk'[t] = walk[t]
  PROVE  LocalIsOwn' /\ NetOK'
<1>1. LocalIsOwn'
  BY DEF LocalIsOwn, netVars, HasPeer, Has, ValueOf
<1>2. Unstarted \subseteq Unstarted'
  BY WalkersAre DEF Unstarted
<1>3. Loaded => Loaded'
  BY WalkersAre DEF Loaded
<1> QED BY <1>1, <1>2, <1>3 DEF NetOK, netVars

LEMMA SoInfoKeeps == SoInfoInv /\ [SoInfoNext]_soInfoVars => SoInfoInv'
<1> SUFFICES ASSUME SoInfoInv, [SoInfoNext]_soInfoVars PROVE SoInfoInv'
  OBVIOUS
<1> USE DEF SoInfoInv
<1>1. ASSUME UNCHANGED elfVars PROVE ElfInv'
  BY <1>1 DEF elfVars, ElfInv, MapsOK, ModulesOK, GotOK, ResolvedAreRight
<1> DEFINE walkVars == <<solist, opened, shared, walk, cur, result, alone, whole>>
<1>2. ASSUME UNCHANGED walkVars PROVE ListOK' /\ WalkInv' /\ walk' = walk
  <2>1. ListOK'
    BY <1>2 DEF ListOK, Distinct
  <2>2. WalkInv'
    BY <1>2 DEF WalkInv, WalkTypes, AloneOK, GatheredBy, Walking
  <2> QED BY <1>2, <2>1, <2>2
<1>3. CASE JNI_OnLoadCheckvpn
  <2>1. StartText(Walkers[1]) /\ Walkers[1] \in Threads /\ UNCHANGED <<elfVars, netVars>>
    BY <1>3, WalkersAre DEF JNI_OnLoadCheckvpn
  <2>2. WalkInv' /\ UNCHANGED <<solist, opened>>
    BY <2>1, StartStep DEF StartText
  <2>3. ListOK'
    BY <2>2 DEF ListOK, Distinct
  <2>4. LocalIsOwn'
    BY <2>1 DEF netVars, LocalIsOwn, HasPeer, Has, ValueOf
  <2>5. NetOK'
    BY <2>1 DEF NetOK, netVars, Loaded, StartText
  <2> QED BY <1>1, <2>1, <2>2, <2>3, <2>4, <2>5
<1>4. CASE NetUs
  <2>1. UNCHANGED <<walkVars, elfVars>>
    BY <1>4 DEF NetUs, soVars
  <2>2. CASE Unstarted # {} /\ SendRequest
    <3>1. LocalIsOwn'
      BY <2>2 DEF SendRequest, LocalIsOwn, HasPeer, Has, ValueOf
    <3>2. NetOK'
      BY <1>4, <2>1, <2>2, <1>2 DEF NetUs, SendRequest, NetOK, Unstarted, Loaded
    <3> QED BY <1>1, <1>2, <2>1, <3>1, <3>2
  <2>3. CASE ReadAnswer
    <3>1. LocalIsOwn'
      BY <2>3, AnswerMakesEntry
    <3>2. NetOK'
      BY <2>1, <2>3, <1>2 DEF ReadAnswer, NetOK, Unstarted, Loaded
    <3> QED BY <1>1, <1>2, <2>1, <3>1, <3>2
  <2> QED BY <1>4, <2>2, <2>3 DEF NetUs
<1>5. CASE EndNetUs
  <2>1. net = "reading" /\ EndResponses /\ StartText(NextWalker) /\ UNCHANGED elfVars
    BY <1>5 DEF EndNetUs, EndResponses
  <2>2. NextWalker \in Threads
    BY <2>1, NextWalkerWaits DEF NetOK
  <2>3. WalkInv' /\ UNCHANGED <<solist, opened>>
    BY <2>1, <2>2, StartStep DEF StartText
  <2>4. ListOK'
    BY <2>3 DEF ListOK, Distinct
  <2>5. LocalIsOwn' /\ NetOK'
    BY <2>1 DEF EndResponses, LocalIsOwn, NetOK
  <2> QED BY <1>1, <2>1, <2>3, <2>4, <2>5
<1>6. CASE Linked
  <2>1. PICK so \in Sos : Dlopen(so) \/ Dlclose(so)
    BY <1>6 DEF Linked, OtherLibraries
  <2>2. ListOK' /\ WalkInv' /\ walk' = walk
    BY <2>1, LibrariesStep DEF Dlopen, Dlclose
  <2> QED BY <1>1, <1>6, <2>2, NetKeeps DEF Linked
<1>7. CASE OtherClients
  <2>1. UNCHANGED <<walkVars, netVars>>
    BY <1>7 DEF OtherClients, soVars
  <2>2. ElfInv'
    BY <1>7, ResolveStep, PineStep, ForeignStep DEF OtherClients
  <2> QED BY <1>2, <2>1, <2>2, NetKeeps
<1>8. ASSUME NEW t \in Threads, Text(t) PROVE SoInfoInv'
  <2>1. TextStep(t) /\ UNCHANGED netVars
    BY <1>8 DEF Text
  <2>2. ListOK' /\ WalkInv' /\ ElfInv'
    BY <2>1, TextKeeps, TextFinds
  <2> QED BY <2>1, <2>2, TextGoesOn, NetKeeps
<1>9. CASE UNCHANGED soInfoVars
  BY <1>1, <1>2, <1>9, NetKeeps DEF soInfoVars, soVars
<1>10. CASE OpenUnmapped
  <2>1. UNCHANGED <<elfVars, netVars, walkVars>>
    BY <1>10 DEF OpenUnmapped
  <2> QED BY <1>1, <1>2, <2>1, NetKeeps
<1> QED BY <1>3, <1>4, <1>5, <1>6, <1>7, <1>8, <1>9, <1>10 DEF SoInfoNext

\* The facts of SoInfoInv hold throughout.
THEOREM SoInfoInvariance == SoInfoSpec => []SoInfoInv
BY SoInfoInitially, SoInfoKeeps, PTL DEF SoInfoSpec

\* No client ever holds a wrong address of a function of a library that only
\* the linker has mapped like one (GetProcessModule, GetModuleBase).
THEOREM SymbolsResolveRight == SoInfoSpec => []ResolvedAreRight
<1>1. SoInfoInv => ResolvedAreRight
  BY DEF SoInfoInv, ElfInv
<1> QED BY <1>1, SoInfoInvariance, PTL

\* A walk into which nothing falls gets the whole list (linker_get_solist).
THEOREM WalksAreWhole == SoInfoSpec => []ListIsWhole
<1>1. SoInfoInv => ListIsWhole
  BY DEF SoInfoInv, WalkInv, GatheredBy, ListIsWhole
<1> QED BY <1>1, SoInfoInvariance, PTL

\* Whatever the order of its attributes, an entry is made right
\* (__getifaddrs_callback).
THEOREM EntriesAreLocal == SoInfoSpec => []LocalIsOwn
<1>1. SoInfoInv => LocalIsOwn
  BY DEF SoInfoInv
<1> QED BY <1>1, SoInfoInvariance, PTL

-----------------------------------------------------------------------------
(* The dump tools                                                             *)

HeldLoaders == {l \in Loaders : refs[l] > 0}
HeldFiles == UNION {FilesOf(l) : l \in HeldLoaders}

\* What the visitor has a reference to is live, and a dex file of a live loader is
\* mapped unless a close has freed it.
LoadersOK ==
  /\ loader \in [Loaders -> {"none", "live", "collected"}]
  /\ refs \in [Loaders -> Nat]
  /\ \A l \in HeldLoaders : loader[l] = "live"
  /\ begin \in [DexFiles -> Begins \union {0}]
  /\ \A l \in Loaders : loader[l] = "live" =>
       \A d \in FilesOf(l) : begin[d] = 0 => d \in freedOpen

\* libdump looks only at what it holds.
DumpOK ==
  /\ visited \in Seq(HeldLoaders)
  /\ at = NoElement \/ \E l \in HeldLoaders : \E i \in DOMAIN Elements[l] : at = <<l, i>>
  /\ cookie \in Seq(HeldFiles \union {Null})
  /\ registered \in [Begins -> HeldFiles \union {Nothing}]

\* libjvmRuntime looks at the loader of a context, which is live.
ContextOK ==
  /\ context \in Loaders /\ loader[context] = "live"
  /\ jat \in 0..Len(Elements[context])
  /\ arrays \in Seq(FilesOf(context) \union {Null})

JvmOK ==
  /\ pc \in {"jvm", "copy"} => ContextOK
  /\ pc = "copy" => jat < Len(Elements[context])
  /\ pc \notin {"jvm", "copy"} => jat = 0 /\ arrays = <<>>

ToolsInv == LoadersOK /\ DumpOK /\ JvmOK /\ RegisteredAreLive /\ OnlyAClosedDexDangles

LEMMA ElementsAre ==
  ASSUME NEW l \in Loaders
  PROVE  /\ Len(Elements[l]) \in Nat \ {0} /\ DOMAIN Elements[l] = 1..Len(Elements[l])
         /\ \A i \in DOMAIN Elements[l] : Elements[l][i] # NoDex =>
              Elements[l][i] \in Seq(FilesOf(l) \union {Null})
<1>1. Elements[l] \in Seq(Range(Elements[l])) /\ Elements[l] # <<>>
  BY RuntimeAssumption
<1>2. Len(Elements[l]) \in Nat \ {0} /\ DOMAIN Elements[l] = 1..Len(Elements[l])
  BY <1>1
<1>3. ASSUME NEW i \in DOMAIN Elements[l], Elements[l][i] # NoDex
      PROVE  Elements[l][i] \in Seq(FilesOf(l) \union {Null})
  <2> DEFINE c == Elements[l][i]
  <2>1. Elements[l][i] \in Range(Elements[l])
    BY DEF Range
  <2>2. Elements[l][i] \in Seq(DexFiles \union {Null})
    BY <1>3, <2>1, RuntimeAssumption
  <2>3. CookieFiles(l, i) \subseteq FilesOf(l)
    BY <1>3 DEF FilesOf
  <2>4. \A k \in DOMAIN c : c[k] \in Range(c)
    BY DEF Range
  <2>5. \A k \in DOMAIN c : c[k] \in FilesOf(l) \union {Null}
    BY <2>3, <2>4 DEF CookieFiles
  <2>6. c \in Seq(DexFiles \union {Null})
    BY <2>2
  <2> HIDE DEF c
  <2>7. Len(c) \in Nat /\ c = [k \in 1..Len(c) |-> c[k]] /\ DOMAIN c = 1..Len(c)
    BY <2>6
  <2>8. c \in Seq(FilesOf(l) \union {Null})
    BY <2>5, <2>6, <2>7
  <2> QED BY <2>8 DEF c
<1> QED BY <1>2, <1>3

LEMMA FilesAreDexFiles ==
  ASSUME NEW l \in Loaders
  PROVE  FilesOf(l) \subseteq DexFiles
<1> SUFFICES ASSUME NEW i \in DOMAIN Elements[l], Elements[l][i] # NoDex, NEW d \in CookieFiles(l, i)
             PROVE  d \in DexFiles
  BY DEF FilesOf
<1>1. Elements[l][i] \in Range(Elements[l])
  BY DEF Range
<1>2. Elements[l][i] \in Seq(DexFiles \union {Null})
  BY <1>1, RuntimeAssumption
<1>3. d \in Range(Elements[l][i]) /\ d # Null
  BY DEF CookieFiles
<1>4. PICK k \in DOMAIN Elements[l][i] : d = Elements[l][i][k]
  BY <1>3 DEF Range
<1>5. \A T : \A c \in Seq(T) : \A j \in DOMAIN c : c[j] \in T
  OBVIOUS
<1> QED BY <1>2, <1>3, <1>4, <1>5

\* The loaders of a visit, in some order.
LEMMA SetToSeqIs ==
  ASSUME NEW S, IsFiniteSet(S)
  PROVE  SetToSeq(S) \in Seq(S)
<1>1. Cardinality(S) \in Nat /\ ExistsBijection(1..Cardinality(S), S)
  BY FS_CardinalityType
<1>2. PICK f \in Bijection(1..Cardinality(S), S) : TRUE
  BY <1>1 DEF ExistsBijection
<1>3. f \in [1..Cardinality(S) -> S] /\ IsInjective(f)
  BY <1>2 DEF Bijection, Injection, Surjection, IsInjective
<1>4. SetToSeq(S) \in [1..Cardinality(S) -> S]
  BY <1>3 DEF SetToSeq
<1> QED BY <1>1, <1>4

LEMMA SeqGrows ==
  ASSUME NEW S, NEW T, S \subseteq T, NEW c \in Seq(S)
  PROVE  c \in Seq(T)
OBVIOUS

LEMMA ToolsInitially == Init => ToolsInv
<1> SUFFICES ASSUME Init PROVE ToolsInv
  OBVIOUS
<1> USE DEF Init, ProcessInit, DumpInit, JvmInit
<1>1. LoadersOK
  BY DEF LoadersOK, HeldLoaders
<1>2. DumpOK
  BY DEF DumpOK
<1>3. JvmOK /\ RegisteredAreLive /\ OnlyAClosedDexDangles
  BY DEF JvmOK, RegisteredAreLive, OnlyAClosedDexDangles
<1> QED BY <1>1, <1>2, <1>3 DEF ToolsInv

-----------------------------------------------------------------------------
(* The app                                                                    *)

\* A step of the app that takes nothing from a loader which is held or dumped,
\* but by closing a DexFile.
LEMMA AppKeeps ==
  ASSUME ToolsInv, LoadersOK', UNCHANGED <<mainVars, pc, died, context, dumpVars, jvmVars>>,
         freedOpen \subseteq freedOpen',
         pc \in {"jvm", "copy"} => loader'[context] = "live",
         \A d \in HeldFiles : begin'[d] = begin[d] \/ d \in freedOpen'
  PROVE  ToolsInv'
<1>1. HeldLoaders' = HeldLoaders /\ HeldFiles' = HeldFiles
  BY DEF HeldLoaders, HeldFiles, mainVars
<1>2. DumpOK'
  BY <1>1 DEF ToolsInv, DumpOK, dumpVars, mainVars
<1>3. JvmOK'
  BY DEF ToolsInv, JvmOK, ContextOK, jvmVars
<1>4. RegisteredAreLive'
  BY DEF ToolsInv, RegisteredAreLive, DumpOK, dumpVars
<1>5. OnlyAClosedDexDangles'
  BY DEF ToolsInv, OnlyAClosedDexDangles
<1> QED BY <1>2, <1>3, <1>4, <1>5 DEF ToolsInv

\* A dex file that is held is none of another loader.
LEMMA HeldIsElsewhere ==
  ASSUME NEW l \in Loaders \ HeldLoaders, NEW d \in HeldFiles
  PROVE  d \notin FilesOf(l)
BY FilesAssumption DEF HeldFiles, HeldLoaders

LEMMA AppStep ==
  ASSUME ToolsInv, App, UNCHANGED <<dumpVars, jvmVars>>
  PROVE  ToolsInv'
<1> USE DEF ToolsInv
<1>0. \A l \in Loaders : FilesOf(l) \subseteq DexFiles
  BY FilesAreDexFiles
<1>1. ASSUME NEW l \in Loaders, NewLoader(l) PROVE ToolsInv'
  <2>1. /\ loader[l] = "none" /\ loader' = [loader EXCEPT ![l] = "live"]
        /\ UNCHANGED <<decoded, closedCookie, freedOpen, layout, mainVars, pc, died, context>>
    BY <1>1 DEF NewLoader
  <2>2. PICK f \in [FilesOf(l) -> Begins \ Range(begin)] :
          begin' = [d \in DexFiles |-> IF d \in FilesOf(l) THEN f[d] ELSE begin[d]]
    BY <1>1 DEF NewLoader
  <2>3. l \notin HeldLoaders
    BY <2>1 DEF LoadersOK
  <2>4. LoadersOK'
    <3>1. HeldLoaders' = HeldLoaders
      BY <2>1 DEF HeldLoaders, mainVars
    <3>2. begin' \in [DexFiles -> Begins \union {0}]
      BY <2>2 DEF LoadersOK
    <3>3. ASSUME NEW k \in Loaders, loader'[k] = "live", NEW d \in FilesOf(k), begin'[d] = 0
          PROVE  d \in freedOpen'
      <4>1. CASE k = l
        BY <1>0, <2>2, <3>3, <4>1, RuntimeAssumption
      <4>2. CASE k # l
        <5>1. d \notin FilesOf(l) /\ d \in DexFiles
          BY <1>0, <4>2, FilesAssumption
        <5>2. begin[d] = 0 /\ loader[k] = "live"
          BY <2>1, <2>2, <3>3, <4>2, <5>1 DEF LoadersOK
        <5> QED BY <2>1, <5>2 DEF LoadersOK
      <4> QED BY <4>1, <4>2
    <3> QED BY <2>1, <2>3, <3>1, <3>2, <3>3 DEF LoadersOK, mainVars, HeldLoaders
  <2>5. \A d \in HeldFiles : begin'[d] = begin[d]
    BY <1>0, <2>2, <2>3, HeldIsElsewhere DEF HeldFiles, HeldLoaders
  <2>6. pc \in {"jvm", "copy"} => loader'[context] = "live"
    BY <2>1 DEF JvmOK, ContextOK, LoadersOK
  <2> QED BY <2>1, <2>4, <2>5, <2>6, AppKeeps
<1>2. ASSUME NEW l \in Loaders, Collect(l) PROVE ToolsInv'
  <2>1. /\ refs[l] = 0 /\ l # context /\ loader' = [loader EXCEPT ![l] = "collected"]
        /\ begin' = [d \in DexFiles |-> IF d \in FilesOf(l) THEN 0 ELSE begin[d]]
        /\ UNCHANGED <<closedCookie, freedOpen, layout, mainVars, pc, died, context>>
    BY <1>2 DEF Collect
  <2>2. l \notin HeldLoaders
    BY <2>1 DEF HeldLoaders
  <2>3. LoadersOK'
    <3>1. HeldLoaders' = HeldLoaders
      BY <2>1 DEF HeldLoaders, mainVars
    <3>2. begin' \in [DexFiles -> Begins \union {0}]
      BY <2>1 DEF LoadersOK
    <3>3. ASSUME NEW k \in Loaders, loader'[k] = "live", NEW d \in FilesOf(k), begin'[d] = 0
          PROVE  d \in freedOpen'
      <4>1. k # l /\ loader[k] = "live"
        BY <2>1, <3>3 DEF LoadersOK
      <4>2. d \notin FilesOf(l) /\ d \in DexFiles
        BY <1>0, <4>1, FilesAssumption
      <4> QED BY <2>1, <3>3, <4>1, <4>2 DEF LoadersOK
    <3> QED BY <2>1, <2>2, <3>1, <3>2, <3>3 DEF LoadersOK, mainVars, HeldLoaders
  <2>4. \A d \in HeldFiles : begin'[d] = begin[d]
    BY <1>0, <2>1, <2>2, HeldIsElsewhere DEF HeldFiles, HeldLoaders
  <2>5. pc \in {"jvm", "copy"} => loader'[context] = "live"
    BY <2>1 DEF JvmOK, ContextOK, LoadersOK
  <2> QED BY <2>1, <2>3, <2>4, <2>5, AppKeeps
<1>3. ASSUME NEW l \in Loaders, NEW i \in DOMAIN Elements[l], CloseDexFile(l, i) PROVE ToolsInv'
  <2>1. UNCHANGED <<loader, layout, mainVars, pc, died, context>> /\ Elements[l][i] # NoDex
    BY <1>3 DEF CloseDexFile
  <2>2. PICK freed \in SUBSET CookieFiles(l, i) :
          /\ freedOpen' = freedOpen \union freed
          /\ begin' = [d \in DexFiles |-> IF d \in freed THEN 0 ELSE begin[d]]
    BY <1>3 DEF CloseDexFile
  <2>4. HeldLoaders' = HeldLoaders
    BY <2>1 DEF HeldLoaders, mainVars
  <2>5. \A d \in DexFiles : begin'[d] = begin[d] \/ d \in freedOpen'
    BY <2>2
  <2>6. LoadersOK'
    <3>1. begin' \in [DexFiles -> Begins \union {0}]
      BY <2>2 DEF LoadersOK
    <3>2. ASSUME NEW k \in Loaders, loader'[k] = "live", NEW d \in FilesOf(k), begin'[d] = 0
          PROVE  d \in freedOpen'
      BY <1>0, <2>1, <2>2, <2>5, <3>2 DEF LoadersOK
    <3> QED BY <2>1, <2>4, <3>1, <3>2 DEF LoadersOK, mainVars
  <2>7. \A d \in HeldFiles : begin'[d] = begin[d] \/ d \in freedOpen'
    BY <1>0, <2>5 DEF HeldFiles, HeldLoaders
  <2>8. pc \in {"jvm", "copy"} => loader'[context] = "live"
    BY <2>1 DEF JvmOK, ContextOK
  <2> QED BY <2>1, <2>2, <2>6, <2>7, <2>8, AppKeeps
<1>4. ASSUME NEW m \in Methods, Decode(m) PROVE ToolsInv'
  <2>1. UNCHANGED <<loader, begin, freedOpen, mainVars, pc, died, context>>
    BY <1>4 DEF Decode
  <2>2. LoadersOK'
    BY <2>1 DEF LoadersOK, HeldLoaders, mainVars
  <2>3. pc \in {"jvm", "copy"} => loader'[context] = "live"
    BY <2>1 DEF JvmOK, ContextOK
  <2> QED BY <2>1, <2>2, <2>3, AppKeeps
<1> QED BY <1>1, <1>2, <1>3, <1>4 DEF App

-----------------------------------------------------------------------------
(* The main thread                                                            *)

HarmlessDeath == died' = "dangling" => died = "dangling" \/ freedOpen # {}

\* A visitor holds all that is live besides what it held.
LEMMA VisitHolds ==
  ASSUME ToolsInv, NEW next, GetClassLoaders(next), UNCHANGED envVars
  PROVE  /\ LoadersOK' /\ HeldLoaders \subseteq HeldLoaders' /\ HeldFiles \subseteq HeldFiles'
         /\ visited' \in Seq(HeldLoaders')
         /\ pc' \in {"idle", next} /\ HarmlessDeath
<1>1. \/ UNCHANGED <<refs, visited>>
      \/ refs' = AddRefs /\ visited' \in {<<>>, SetToSeq(LiveLoaders)}
  BY DEF GetClassLoaders
<1>2. HeldLoaders \subseteq HeldLoaders' /\ refs' \in [Loaders -> Nat]
      /\ \A l \in HeldLoaders' : loader[l] = "live"
  BY <1>1 DEF ToolsInv, LoadersOK, HeldLoaders, AddRefs
<1>3. LoadersOK'
  BY <1>2 DEF ToolsInv, LoadersOK, envVars
<1>4. HeldFiles \subseteq HeldFiles'
  BY <1>2 DEF HeldFiles
<1>5. visited' \in Seq(HeldLoaders')
  <2>1. CASE UNCHANGED <<refs, visited>>
    BY <1>2, <2>1, SeqGrows DEF ToolsInv, DumpOK
  <2>2. CASE refs' = AddRefs /\ visited' \in {<<>>, SetToSeq(LiveLoaders)}
    <3>1. IsFiniteSet(LiveLoaders)
      BY RuntimeAssumption, FS_Subset DEF LiveLoaders
    <3>2. LiveLoaders \subseteq HeldLoaders'
      BY <2>2 DEF LiveLoaders, AddRefs, HeldLoaders, ToolsInv, LoadersOK
    <3>3. SetToSeq(LiveLoaders) \in Seq(LiveLoaders)
      BY <3>1, SetToSeqIs
    <3>4. \A S, T : S \subseteq T => \A c \in Seq(S) : c \in Seq(T)
      BY SeqGrows
    <3>5. SetToSeq(LiveLoaders) \in Seq(HeldLoaders')
      BY <3>2, <3>3, <3>4, Zenon
    <3>6. <<>> \in Seq(HeldLoaders')
      OBVIOUS
    <3> QED BY <2>2, <3>5, <3>6, Zenon
  <2> QED BY <1>1, <2>1, <2>2
<1>6. pc' \in {"idle", next} /\ HarmlessDeath
  BY DEF GetClassLoaders, Dies, Goes, Lives, HarmlessDeath
<1> QED BY <1>2, <1>3, <1>4, <1>5, <1>6

\* What the main thread does outside of a dump of a context.
LEMMA MainKeeps ==
  ASSUME ToolsInv, UNCHANGED <<envVars, jvmVars>>, pc' \notin {"jvm", "copy"},
         pc \notin {"jvm", "copy"},
         LoadersOK', DumpOK', RegisteredAreLive', HarmlessDeath
  PROVE  ToolsInv'
<1>1. JvmOK'
  BY DEF ToolsInv, JvmOK, jvmVars
<1>2. OnlyAClosedDexDangles'
  BY DEF ToolsInv, OnlyAClosedDexDangles, HarmlessDeath, envVars
<1> QED BY <1>1, <1>2 DEF ToolsInv

\* What leaves the walk and the registered files alone.
LEMMA QuietKeeps ==
  ASSUME ToolsInv, UNCHANGED <<envVars, jvmVars, at, cookie, registered>>, pc = "idle", pc' = "idle",
         LoadersOK', HeldLoaders \subseteq HeldLoaders', HeldFiles \subseteq HeldFiles',
         visited' \in Seq(HeldLoaders'), HarmlessDeath
  PROVE  ToolsInv'
<1>1. cookie \in Seq(HeldFiles' \union {Null})
  BY SeqGrows DEF ToolsInv, DumpOK
<1>2. at = NoElement \/ \E l \in HeldLoaders' : \E i \in DOMAIN Elements[l] : at = <<l, i>>
  BY DEF ToolsInv, DumpOK
<1>3. registered \in [Begins -> HeldFiles' \union {Nothing}]
  BY DEF ToolsInv, DumpOK
<1>4. DumpOK'
  BY <1>1, <1>2, <1>3 DEF DumpOK
<1>5. RegisteredAreLive'
  BY DEF ToolsInv, RegisteredAreLive, envVars
<1> QED BY <1>4, <1>5, MainKeeps

LEMMA RefsKeep ==
  ASSUME ToolsInv, UNCHANGED <<envVars, refs>>
  PROVE  LoadersOK' /\ HeldLoaders' = HeldLoaders /\ HeldFiles' = HeldFiles
<1>1. HeldLoaders' = HeldLoaders /\ HeldFiles' = HeldFiles
  BY DEF HeldLoaders, HeldFiles
<1> QED BY <1>1 DEF ToolsInv, LoadersOK, envVars

\* What either library does between its dumps.
LEMMA LibraryStep ==
  ASSUME ToolsInv, NEW c, SystemLoad(c) \/ VisitInVain(c) \/ LoadJvmTI(c),
         UNCHANGED <<jvmVars, at, cookie, registered>>
  PROVE  ToolsInv'
<1>1. CASE SystemLoad(c)
  <2>1. pc = "idle" /\ pc' = "idle" /\ died' = died /\ UNCHANGED <<refs, visited, envVars>>
    BY <1>1 DEF SystemLoad
  <2> QED BY <2>1, RefsKeep, QuietKeeps DEF ToolsInv, DumpOK, HarmlessDeath
<1>2. CASE VisitInVain(c)
  <2>1. pc = "idle" /\ GetClassLoaders("idle") /\ UNCHANGED envVars
    BY <1>2 DEF VisitInVain
  <2> QED BY <2>1, VisitHolds, QuietKeeps
<1>3. CASE LoadJvmTI(c)
  <2>1. pc = "idle" /\ pc' = "idle" /\ died' \in {died, "references", "no symbol", "no plugin"}
        /\ UNCHANGED <<refs, visited, envVars>>
    BY <1>3 DEF LoadJvmTI, CreateJvmtiEnv, Dies, Goes, Lives
  <2> QED BY <2>1, RefsKeep, QuietKeeps DEF ToolsInv, DumpOK, HarmlessDeath
<1> QED BY <1>1, <1>2, <1>3

-----------------------------------------------------------------------------
(* The dump                                                                   *)

LEMMA NextElementIsHeld ==
  ASSUME ToolsInv, NextElement, HeldLoaders' = HeldLoaders
  PROVE  /\ visited' \in Seq(HeldLoaders)
         /\ \E l \in HeldLoaders : \E i \in DOMAIN Elements[l] : at' = <<l, i>>
<1>1. CASE HasNextElement /\ at' = <<at[1], at[2] + 1>> /\ UNCHANGED visited
  <2>1. PICK l \in HeldLoaders : \E i \in DOMAIN Elements[l] : at = <<l, i>>
    BY <1>1 DEF HasNextElement, ToolsInv, DumpOK
  <2>2. PICK i \in DOMAIN Elements[l] : at = <<l, i>>
    BY <2>1
  <2>3. PICK n \in Nat : n = Len(Elements[l]) /\ DOMAIN Elements[l] = 1..n
    BY ElementsAre DEF HeldLoaders
  <2>4. i < n /\ at' = <<l, i + 1>>
    BY <1>1, <2>2, <2>3 DEF HasNextElement
  <2>5. i + 1 \in DOMAIN Elements[l]
    BY <2>3, <2>4
  <2> QED BY <1>1, <2>4, <2>5 DEF ToolsInv, DumpOK
<1>2. CASE visited # <<>> /\ at' = <<Head(visited), 1>> /\ visited' = Tail(visited)
  <2>1. visited \in Seq(HeldLoaders)
    BY DEF ToolsInv, DumpOK
  <2>2. Head(visited) \in HeldLoaders /\ Tail(visited) \in Seq(HeldLoaders)
    BY <1>2, <2>1
  <2>3. PICK l \in HeldLoaders : l = Head(visited)
    BY <2>2
  <2>4. 1 \in DOMAIN Elements[l]
    <3>1. PICK n \in Nat \ {0} : DOMAIN Elements[l] = 1..n
      BY ElementsAre DEF HeldLoaders
    <3> QED BY <3>1
  <2>5. at' = <<l, 1>>
    BY <1>2, <2>3
  <2> QED BY <1>2, <2>2, <2>4, <2>5
<1> QED BY <1>1, <1>2 DEF NextElement

LEMMA DumpElementStep ==
  ASSUME ToolsInv, DumpElement, UNCHANGED jvmVars
  PROVE  ToolsInv'
<1>1. /\ pc = "dump" /\ NextElement /\ ConvertJavaArrayToDexFiles(at')
      /\ UNCHANGED <<registered, refs, envVars>>
  BY DEF DumpElement, InDump
<1>2. LoadersOK' /\ HeldLoaders' = HeldLoaders /\ HeldFiles' = HeldFiles
  BY <1>1, RefsKeep
<1>3. PICK l \in HeldLoaders : \E i \in DOMAIN Elements[l] : at' = <<l, i>>
  BY <1>1, <1>2, NextElementIsHeld
<1>4. PICK i \in DOMAIN Elements[l] : at' = <<l, i>>
  BY <1>3
<1>5. cookie' \in Seq(HeldFiles \union {Null})
  <2>1. CASE cookie' = <<>>
    BY <2>1
  <2>2. CASE Elements[l][i] # NoDex /\ cookie' = Elements[l][i]
    <3>1. cookie' \in Seq(FilesOf(l) \union {Null})
      BY <2>2, ElementsAre DEF HeldLoaders
    <3>2. FilesOf(l) \union {Null} \subseteq HeldFiles \union {Null}
      BY DEF HeldFiles
    <3> QED BY <3>1, <3>2, SeqGrows
  <2> QED BY <1>1, <1>4, <2>1, <2>2 DEF ConvertJavaArrayToDexFiles
<1>6. pc' \in {"idle", "dump"} /\ HarmlessDeath
  BY <1>1 DEF ConvertJavaArrayToDexFiles, Dies, Goes, Lives, HarmlessDeath
<1>7. DumpOK'
  BY <1>1, <1>2, <1>3, <1>5, NextElementIsHeld DEF ToolsInv, DumpOK
<1>8. RegisteredAreLive'
  BY <1>1 DEF ToolsInv, RegisteredAreLive, envVars
<1> QED BY <1>1, <1>2, <1>6, <1>7, <1>8, MainKeeps

LEMMA DumpCookieStep ==
  ASSUME ToolsInv, DumpDexByCookie, UNCHANGED jvmVars
  PROVE  ToolsInv'
<1> DEFINE d == Head(cookie)
<1>1. /\ pc = "dump" /\ cookie # <<>> /\ DumpEntryUnlessNull(d)
      /\ UNCHANGED <<at, refs, visited, envVars>>
  BY DEF DumpDexByCookie, InDump, mainVars
<1>2. LoadersOK' /\ HeldLoaders' = HeldLoaders /\ HeldFiles' = HeldFiles
  BY <1>1, RefsKeep
<1>3. d \in HeldFiles \union {Null} /\ Tail(cookie) \in Seq(HeldFiles \union {Null})
  BY <1>1 DEF ToolsInv, DumpOK
<1>4. cookie' \in {<<>>, Tail(cookie)} /\ pc' \in {"idle", "dump"}
  BY <1>1 DEF DumpEntryUnlessNull, DumpOne, WriteDex, Leaves, Dies, Goes
<1>5. HarmlessDeath
  <2>1. CASE d # Null /\ begin[d] = 0
    <3>1. PICK l \in HeldLoaders : d \in FilesOf(l)
      BY <1>3, <2>1 DEF HeldFiles
    <3>2. d \in freedOpen
      BY <2>1, <3>1 DEF ToolsInv, LoadersOK, HeldLoaders
    <3> QED BY <3>2 DEF HarmlessDeath
  <2>2. CASE ~(d # Null /\ begin[d] = 0)
    BY <1>1, <2>2 DEF DumpEntryUnlessNull, DumpOne, Dies, Goes, Lives, HarmlessDeath
  <2> QED BY <2>1, <2>2
<1>6. \/ registered' = registered
      \/ /\ d \in HeldFiles /\ begin[d] \in Begins
         /\ registered' = [registered EXCEPT ![begin[d]] = IF @ = Nothing THEN d ELSE @]
  <2>1. ASSUME d # Null, begin[d] # 0 PROVE d \in HeldFiles /\ begin[d] \in Begins
    <3>1. d \in HeldFiles /\ d \in DexFiles
      BY <1>3, <2>1, FilesAreDexFiles DEF HeldFiles, HeldLoaders
    <3> QED BY <2>1, <3>1 DEF ToolsInv, LoadersOK
  <2> QED BY <1>1, <2>1 DEF DumpEntryUnlessNull, DumpOne, WriteDex, Leaves
<1>7. registered' \in [Begins -> HeldFiles \union {Nothing}]
  BY <1>6 DEF ToolsInv, DumpOK
<1>8. DumpOK'
  <2>1. cookie' \in Seq(HeldFiles \union {Null})
    <3>1. <<>> \in Seq(HeldFiles \union {Null})
      OBVIOUS
    <3> QED BY <1>3, <1>4, <3>1, Zenon
  <2>2. \/ at = NoElement
        \/ \E l \in HeldLoaders : \E i \in DOMAIN Elements[l] : at = <<l, i>>
    BY DEF ToolsInv, DumpOK
  <2>3. visited \in Seq(HeldLoaders)
    BY DEF ToolsInv, DumpOK
  <2> QED BY <1>1, <1>2, <1>7, <2>1, <2>2, <2>3 DEF DumpOK
<1>9. RegisteredAreLive'
  <2>1. begin' = begin /\ freedOpen' = freedOpen
    BY <1>1 DEF envVars
  <2>2. \A b \in Begins : registered'[b] = registered[b] \/ begin[registered'[b]] = b
    BY <1>6 DEF ToolsInv, DumpOK
  <2> QED BY <2>1, <2>2 DEF ToolsInv, RegisteredAreLive
<1> QED BY <1>1, <1>2, <1>4, <1>5, <1>8, <1>9, MainKeeps

LEMMA DumpLibStep ==
  ASSUME ToolsInv, DumpLib, UNCHANGED jvmVars
  PROVE  ToolsInv'
<1>1. CASE DumpMethodOfLoadEntry \/ AutodumpDex
  <2>1. VisitInVain("dump") \/ LoadJvmTI("dump")
    BY <1>1 DEF DumpMethodOfLoadEntry, AutodumpDex
  <2>2. UNCHANGED <<at, cookie, registered>>
    BY <1>1 DEF DumpMethodOfLoadEntry, AutodumpDex, dumpVars
  <2> QED BY <2>1, <2>2, LibraryStep
<1>2. CASE JNI_OnLoad
  BY <1>2, LibraryStep DEF JNI_OnLoad
<1>3. CASE SetContext
  <2>1. pc = "idle" /\ UNCHANGED <<pc, died, envVars, refs, visited, at, cookie, registered>>
    BY <1>3 DEF SetContext, runtimeVars, mainVars
  <2> QED BY <2>1, RefsKeep, QuietKeeps DEF ToolsInv, DumpOK, HarmlessDeath
<1>4. CASE StartDumpdex
  <2>1. pc = "idle" /\ GetClassLoaders("dump") /\ at' = NoElement /\ UNCHANGED <<envVars, cookie, registered>>
    BY <1>4 DEF StartDumpdex, InDump, GetBaseDexClassLoaders
  <2>2. /\ LoadersOK' /\ HeldLoaders \subseteq HeldLoaders' /\ HeldFiles \subseteq HeldFiles'
        /\ visited' \in Seq(HeldLoaders')
        /\ pc' \in {"idle", "dump"} /\ HarmlessDeath
    BY <2>1, VisitHolds
  <2>3. cookie' \in Seq(HeldFiles' \union {Null})
    BY <2>1, <2>2, SeqGrows DEF ToolsInv, DumpOK
  <2>4. registered' \in [Begins -> HeldFiles' \union {Nothing}]
    BY <2>1, <2>2 DEF ToolsInv, DumpOK
  <2>5. DumpOK'
    BY <2>1, <2>2, <2>3, <2>4 DEF DumpOK
  <2>6. RegisteredAreLive'
    BY <2>1 DEF ToolsInv, RegisteredAreLive, envVars
  <2> QED BY <2>1, <2>2, <2>5, <2>6, MainKeeps
<1>5. CASE DumpElement
  BY <1>5, DumpElementStep
<1>6. CASE EndDumpdex
  <2>1. /\ pc = "dump" /\ pc' = "idle" /\ died' = died /\ at' = NoElement
        /\ UNCHANGED <<envVars, refs, visited, cookie, registered>>
    BY <1>6 DEF EndDumpdex, InDump, Goes, Lives, mainVars
  <2>2. LoadersOK' /\ HeldLoaders' = HeldLoaders /\ HeldFiles' = HeldFiles
    BY <2>1, RefsKeep
  <2>3. DumpOK' /\ RegisteredAreLive'
    BY <2>1, <2>2 DEF ToolsInv, DumpOK, RegisteredAreLive, envVars
  <2> QED BY <2>1, <2>2, <2>3, MainKeeps DEF HarmlessDeath
<1>7. CASE DumpDexByCookie
  BY <1>7, DumpCookieStep
<1>8. ASSUME NEW m \in Methods, DumpMethod(m) PROVE ToolsInv'
  <2>1. /\ pc = "idle" /\ pc' = "idle"
        /\ UNCHANGED <<envVars, refs, visited, at, cookie, registered>>
    BY <1>8 DEF DumpMethod, InDump, Dies, Goes, mainVars
  <2>2. HarmlessDeath
    <3>1. Stale # {} => freedOpen # {}
      BY DEF ToolsInv, RegisteredAreLive, Stale
    <3> QED BY <1>8, <3>1 DEF DumpMethod, Dies, Goes, Lives, HarmlessDeath
  <2> QED BY <2>1, <2>2, RefsKeep, QuietKeeps DEF ToolsInv, DumpOK
<1> QED BY <1>1, <1>2, <1>3, <1>4, <1>5, <1>6, <1>7, <1>8 DEF DumpLib

-----------------------------------------------------------------------------
(* The dump of a context                                                      *)

\* What the dump of a context leaves of libdump, and whom it looks at.
LEMMA ContextKeeps ==
  ASSUME ToolsInv, UNCHANGED <<envVars, refs, visited, at, cookie, registered>>, JvmOK', HarmlessDeath
  PROVE  ToolsInv'
<1>1. LoadersOK' /\ HeldLoaders' = HeldLoaders /\ HeldFiles' = HeldFiles
  BY RefsKeep
<1>2. DumpOK'
  BY <1>1 DEF ToolsInv, DumpOK
<1>3. RegisteredAreLive' /\ OnlyAClosedDexDangles'
  BY DEF ToolsInv, RegisteredAreLive, OnlyAClosedDexDangles, HarmlessDeath, envVars
<1> QED BY <1>1, <1>2, <1>3 DEF ToolsInv

LEMMA JvmLibStep ==
  ASSUME ToolsInv, JvmLib, UNCHANGED dumpVars
  PROVE  ToolsInv'
<1>0. UNCHANGED <<at, cookie, registered>>
  BY DEF dumpVars
<1> DEFINE n == Len(Elements[context])
<1>1. CASE LoadSo \/ FindClass \/ NativeLoadJvmTI
  <2>1. SystemLoad("jvm") \/ VisitInVain("jvm") \/ LoadJvmTI("jvm")
    BY <1>1 DEF LoadSo, FindClass, NativeLoadJvmTI
  <2>2. UNCHANGED jvmVars
    BY <1>1 DEF LoadSo, FindClass, NativeLoadJvmTI
  <2> QED BY <1>0, <2>1, <2>2, LibraryStep
<1>2. ASSUME NEW l \in Loaders, DumpContext(l) PROVE ToolsInv'
  <2>1. /\ pc = "idle" /\ pc' = "jvm" /\ died' = died /\ loader[l] = "live" /\ context' = l
        /\ UNCHANGED <<jvmVars, envVars, refs, visited>>
    BY <1>2 DEF DumpContext, InJvm, Goes, Lives, mainVars
  <2>2. jat' = 0 /\ arrays' = <<>> /\ loader' = loader
    BY <2>1 DEF ToolsInv, JvmOK, jvmVars, envVars
  <2>3. 0 \in 0..Len(Elements[l])
    BY ElementsAre
  <2>4. JvmOK'
    BY <2>1, <2>2, <2>3 DEF JvmOK, ContextOK
  <2> QED BY <1>0, <2>1, <2>4, ContextKeeps DEF HarmlessDeath
<1>3. ASSUME Stops, pc' = "idle", UNCHANGED <<mainVars, envVars>>, HarmlessDeath PROVE ToolsInv'
  <2>1. JvmOK'
    BY <1>3 DEF Stops, JvmOK
  <2> QED BY <1>0, <1>3, <2>1, ContextKeeps DEF mainVars
<1>4. ASSUME DumpEnds, UNCHANGED <<mainVars, envVars>> PROVE ToolsInv'
  BY <1>3, <1>4 DEF DumpEnds, Goes, Lives, HarmlessDeath
<1>5. ASSUME pc \in {"jvm", "copy"}, pc' \in {"jvm", "copy"}, UNCHANGED <<mainVars, envVars, context, died>>,
             jat' \in 0..n, pc' = "copy" => jat' < n, arrays' \in Seq(FilesOf(context) \union {Null})
      PROVE  ToolsInv'
  <2>1. loader' = loader
    BY <1>5 DEF envVars
  <2>2. JvmOK'
    BY <1>5, <2>1 DEF ToolsInv, JvmOK, ContextOK
  <2> QED BY <1>0, <1>5, <2>2, ContextKeeps DEF mainVars, HarmlessDeath
<1>6. CASE DumpContextElement
  <2>1. CASE Elements[context][jat + 1] = NoDex \/ <<context, jat + 1>> \in closedCookie
    BY <1>4, <1>6, <2>1 DEF DumpContextElement
  <2>2. CASE ~(Elements[context][jat + 1] = NoDex \/ <<context, jat + 1>> \in closedCookie)
    <3>1. /\ pc = "jvm" /\ jat < n /\ arrays' = Elements[context][jat + 1] /\ pc' = "copy"
          /\ UNCHANGED <<mainVars, envVars, context, died, jat>>
      BY <1>6, <2>2 DEF DumpContextElement, InJvm, Goes, Lives
    <3>2. context \in Loaders /\ jat \in 0..n
      BY <3>1 DEF ToolsInv, JvmOK, ContextOK
    <3>3. n \in Nat /\ DOMAIN Elements[context] = 1..n
      BY <3>2, ElementsAre
    <3>4. jat + 1 \in DOMAIN Elements[context]
      BY <3>1, <3>2, <3>3
    <3>5. arrays' \in Seq(FilesOf(context) \union {Null})
      BY <2>2, <3>1, <3>2, <3>4, ElementsAre
    <3> QED BY <1>5, <3>1, <3>2, <3>5
  <2> QED BY <2>1, <2>2
<1>7. CASE CopyDexFiles
  <2>0. pc = "copy" /\ ContextOK /\ jat < n /\ n \in Nat
    BY <1>7, ElementsAre DEF CopyDexFiles, InJvm, ToolsInv, JvmOK, ContextOK
  <2>1. CASE \E d \in Range(arrays) : d # Null /\ begin[d] = 0
    <3>1. PICK d \in Range(arrays) : d # Null /\ begin[d] = 0
      BY <2>1
    <3>2. PICK k \in DOMAIN arrays : d = arrays[k]
      BY <3>1 DEF Range
    <3>3. arrays[k] \in FilesOf(context) \union {Null}
      BY <2>0, <3>2 DEF ContextOK
    <3>4. d \in freedOpen
      BY <2>0, <3>1, <3>2, <3>3 DEF ContextOK, ToolsInv, LoadersOK
    <3>5. HarmlessDeath
      BY <3>4 DEF HarmlessDeath
    <3> QED BY <1>3, <1>7, <2>1, <3>5 DEF CopyDexFiles, Dies
  <2>2. CASE ~ \E d \in Range(arrays) : d # Null /\ begin[d] = 0
    <3>1. /\ jat' = jat + 1 /\ pc' = "jvm" /\ UNCHANGED <<mainVars, envVars, context, died, arrays>>
      BY <1>7, <2>2 DEF CopyDexFiles, Goes, Lives
    <3>2. jat' \in 0..n /\ arrays' \in Seq(FilesOf(context) \union {Null})
      BY <2>0, <3>1 DEF ContextOK
    <3> QED BY <1>5, <2>0, <3>1, <3>2
  <2> QED BY <2>1, <2>2
<1>8. CASE WriteArray
  <2>1. CASE Head(arrays) = Null
    BY <1>4, <1>8, <2>1 DEF WriteArray
  <2>2. CASE Head(arrays) # Null
    <3>1. /\ pc = "jvm" /\ arrays # <<>> /\ arrays' = Tail(arrays) /\ pc' = "jvm"
          /\ UNCHANGED <<mainVars, envVars, context, died, jat>>
      BY <1>8, <2>2 DEF WriteArray, InJvm, Goes, Lives
    <3>2. ContextOK
      BY <3>1 DEF ToolsInv, JvmOK
    <3>3. jat' \in 0..n /\ arrays' \in Seq(FilesOf(context) \union {Null})
      BY <3>1, <3>2 DEF ContextOK
    <3> QED BY <1>5, <3>1, <3>3
  <2> QED BY <2>1, <2>2
<1>9. CASE EndDumpContext
  BY <1>4, <1>9 DEF EndDumpContext
<1> QED BY <1>1, <1>2, <1>6, <1>7, <1>8, <1>9 DEF JvmLib

-----------------------------------------------------------------------------
LEMMA RestartStep ==
  ASSUME ToolsInv, Restart
  PROVE  ToolsInv'
<1> USE DEF Restart
<1>1. LoadersOK'
  BY DEF LoadersOK, HeldLoaders
<1>2. DumpOK'
  BY DEF DumpOK
<1>3. JvmOK' /\ RegisteredAreLive' /\ OnlyAClosedDexDangles'
  BY DEF JvmOK, RegisteredAreLive, OnlyAClosedDexDangles
<1> QED BY <1>1, <1>2, <1>3 DEF ToolsInv

LEMMA ToolsKeep == ToolsInv /\ [Next]_vars => ToolsInv'
<1> SUFFICES ASSUME ToolsInv, [Next]_vars PROVE ToolsInv'
  OBVIOUS
<1>1. CASE UNCHANGED vars
  <2>1. UNCHANGED <<envVars, refs, visited, at, cookie, registered, pc, died, context, jat, arrays>>
    BY <1>1 DEF vars, runtimeVars, mainVars, dumpVars, jvmVars
  <2>2. loader' = loader
    BY <2>1 DEF envVars
  <2>3. JvmOK'
    BY <2>1, <2>2 DEF ToolsInv, JvmOK, ContextOK
  <2> QED BY <2>1, <2>3, ContextKeeps DEF HarmlessDeath
<1> QED BY <1>1, AppStep, DumpLibStep, JvmLibStep, RestartStep DEF Next

\* The facts of ToolsInv hold throughout.
THEOREM ToolsInvariance == Spec => []ToolsInv
BY ToolsInitially, ToolsKeep, PTL DEF Spec

\* What dumpMethod repairs is still where it was registered.
THEOREM RegisteredStayMapped == Spec => []RegisteredAreLive
<1>1. ToolsInv => RegisteredAreLive
  BY DEF ToolsInv
<1> QED BY <1>1, ToolsInvariance, PTL

\* Neither tool reads a freed dex file that nobody has closed.
THEOREM OnlyClosingDangles == Spec => []OnlyAClosedDexDangles
<1>1. ToolsInv => OnlyAClosedDexDangles
  BY DEF ToolsInv
<1> QED BY <1>1, ToolsInvariance, PTL

-----------------------------------------------------------------------------
(* What the end of a code item is computed to be                              *)

\* The parts of a sequence that is flattened follow each other.
Parts(ss, start, flat) ==
  /\ start \in [1..(Len(ss) + 1) -> Nat] /\ start[1] = 0
  /\ \A j \in 1..Len(ss) : start[j + 1] = start[j] + Len(ss[j])
  /\ Len(flat) = start[Len(ss) + 1]
  /\ \A j \in 1..Len(ss) : \A k \in 1..Len(ss[j]) :
       start[j] + k \in 1..Len(flat) /\ flat[start[j] + k] = ss[j][k]
  /\ \A p \in 1..Len(flat) : \E j \in 1..Len(ss) : \E k \in 1..Len(ss[j]) : p = start[j] + k

\* The recursive function that FlattenSeq is defined with.
Flattens(g, ss, m) == g = [i \in 1..m |-> IF i = 1 THEN ss[i] ELSE g[i - 1] \o ss[i]]

LEMMA FlattensExists ==
  ASSUME NEW ss, NEW n \in Nat
  PROVE  \E g : Flattens(g, ss, n)
<1> DEFINE S == {m \in Nat : \E g : Flattens(g, ss, m)}
<1>1. 0 \in S
  <2> DEFINE g == [i \in 1..0 |-> ss[1]]
  <2>1. g = [i \in 1..0 |-> IF i = 1 THEN ss[i] ELSE g[i - 1] \o ss[i]]
    OBVIOUS
  <2>2. Flattens(g, ss, 0)
    BY <2>1 DEF Flattens
  <2> QED BY <2>2
<1>2. ASSUME NEW m \in Nat, m \in S PROVE m + 1 \in S
  <2>1. PICK g : Flattens(g, ss, m)
    BY <1>2
  <2> DEFINE h == [i \in 1..(m + 1) |-> IF i <= m THEN g[i]
                     ELSE IF i = 1 THEN ss[i] ELSE g[i - 1] \o ss[i]]
  <2>2. \A i \in 1..m : g[i] = IF i = 1 THEN ss[i] ELSE g[i - 1] \o ss[i]
    BY <2>1 DEF Flattens
  <2>3. ASSUME NEW i \in 1..(m + 1) PROVE h[i] = IF i = 1 THEN ss[i] ELSE h[i - 1] \o ss[i]
    <3>1. CASE i = 1
      BY <2>2, <3>1
    <3>2. CASE i # 1
      <4>1. i - 1 \in 1..(m + 1) /\ i - 1 <= m
        BY <3>2
      <4>2. h[i - 1] = g[i - 1]
        BY <4>1
      <4>3. h[i] = g[i - 1] \o ss[i]
        <5>1. CASE i <= m
          <6>1. i \in 1..m
            BY <5>1
          <6>2. g[i] = g[i - 1] \o ss[i]
            BY <2>2, <3>2, <6>1
          <6> QED BY <5>1, <6>2
        <5>2. CASE ~(i <= m)
          BY <3>2, <5>2
        <5> QED BY <5>1, <5>2
      <4> QED BY <3>2, <4>2, <4>3
    <3> QED BY <3>1, <3>2
  <2>4. DOMAIN h = 1..(m + 1) /\ h = [i \in 1..(m + 1) |-> h[i]]
    OBVIOUS
  <2> HIDE DEF h
  <2>5. h = [i \in 1..(m + 1) |-> IF i = 1 THEN ss[i] ELSE h[i - 1] \o ss[i]]
    BY <2>3, <2>4
  <2>6. Flattens(h, ss, m + 1)
    BY <2>5 DEF Flattens
  <2> QED BY <2>6
<1>3. Nat \subseteq S
  <2> HIDE DEF S
  <2> QED BY <1>1, <1>2, Induction
<1> QED BY <1>3

\* What has been flattened after i parts.
Until(T, f, start, ss, i) ==
  /\ f[i] \in Seq(T) /\ start[i] \in Nat /\ Len(f[i]) = start[i] + Len(ss[i])
  /\ \A j \in 1..i : \A k \in 1..Len(ss[j]) :
       start[j] + k \in 1..Len(f[i]) /\ f[i][start[j] + k] = ss[j][k]
  /\ \A p \in 1..Len(f[i]) : \E j \in 1..i : \E k \in 1..Len(ss[j]) : p = start[j] + k

LEMMA UntilNext ==
  ASSUME NEW T, NEW f, NEW start, NEW ss, NEW i \in Nat, NEW n \in Nat, n = i + 1,
         Until(T, f, start, ss, i), f[n] = f[i] \o ss[n], start[n] = Len(f[i]), ss[n] \in Seq(T)
  PROVE  Until(T, f, start, ss, n)
<1>1. PICK a \in Seq(T) : a = f[i]
  BY DEF Until
<1>2. PICK b \in Seq(T) : b = ss[n]
  OBVIOUS
<1>3. PICK c \in Seq(T) : c = f[n] /\ c = a \o b
  BY <1>1, <1>2, ConcatIs
<1>4. /\ Len(a) \in Nat /\ Len(b) \in Nat /\ Len(c) = Len(a) + Len(b)
      /\ \A p \in 1..Len(a) : c[p] = a[p]
      /\ \A k \in 1..Len(b) : c[Len(a) + k] = b[k]
  BY <1>3, ConcatIs
<1>5. start[n] = Len(a)
  BY <1>1
<1>6. ASSUME NEW j \in 1..n, NEW k \in 1..Len(ss[j])
      PROVE  start[j] + k \in 1..Len(c) /\ c[start[j] + k] = ss[j][k]
  <2>1. CASE j = n
    <3>1. k \in 1..Len(b) /\ ss[j][k] = b[k] /\ start[j] = Len(a)
      BY <1>2, <1>5, <2>1
    <3>2. Len(a) + k \in 1..Len(c)
      BY <1>4, <3>1
    <3> QED BY <1>4, <3>1, <3>2
  <2>2. CASE j # n
    <3>1. j \in 1..i
      BY <2>2
    <3>2. start[j] + k \in 1..Len(a) /\ a[start[j] + k] = ss[j][k]
      BY <1>1, <3>1 DEF Until
    <3>3. PICK p \in 1..Len(a) : p = start[j] + k /\ a[p] = ss[j][k]
      BY <3>2
    <3>4. p \in 1..Len(c) /\ c[p] = a[p]
      BY <1>4
    <3> QED BY <3>3, <3>4
  <2> QED BY <2>1, <2>2
<1>7. ASSUME NEW p \in 1..Len(c)
      PROVE  \E j \in 1..n : \E k \in 1..Len(ss[j]) : p = start[j] + k
  <2>1. CASE p <= Len(a)
    <3>1. p \in 1..Len(f[i])
      BY <1>1, <1>4, <2>1
    <3>2. PICK j \in 1..i : \E k \in 1..Len(ss[j]) : p = start[j] + k
      BY <3>1 DEF Until
    <3> QED BY <3>2
  <2>2. CASE ~(p <= Len(a))
    <3>1. p - Len(a) \in 1..Len(b) /\ p = Len(a) + (p - Len(a))
      BY <1>4, <2>2
    <3>2. PICK k \in 1..Len(ss[n]) : p = start[n] + k
      BY <1>2, <1>5, <3>1
    <3>3. n \in 1..n
      OBVIOUS
    <3> QED BY <3>2, <3>3
  <2> QED BY <2>1, <2>2
<1>8. start[n] \in Nat /\ Len(f[n]) = start[n] + Len(ss[n]) /\ f[n] \in Seq(T)
  BY <1>2, <1>3, <1>4, <1>5
<1>9. /\ \A j \in 1..n : \A k \in 1..Len(ss[j]) :
           start[j] + k \in 1..Len(f[n]) /\ f[n][start[j] + k] = ss[j][k]
      /\ \A p \in 1..Len(f[n]) : \E j \in 1..n : \E k \in 1..Len(ss[j]) : p = start[j] + k
  BY <1>3, <1>6, <1>7, Zenon
<1> QED BY <1>8, <1>9, Zenon DEF Until

LEMMA FlattenIs ==
  ASSUME NEW T, NEW ss \in Seq(Seq(T))
  PROVE  /\ FlattenSeq(ss) \in Seq(T)
         /\ \E start : Parts(ss, start, FlattenSeq(ss))
<1>0. PICK n \in Nat : n = Len(ss)
  OBVIOUS
<1>1. CASE n = 0
  <2>1. FlattenSeq(ss) = ss
    BY <1>0, <1>1 DEF FlattenSeq
  <2>2. ss \in Seq(T)
    <3>1. ss = <<>>
      BY <1>0, <1>1, EmptySeq
    <3> QED BY <3>1
  <2> DEFINE start == [j \in 1..1 |-> 0]
  <2>3. start \in [1..1 -> Nat] /\ start[1] = 0
    OBVIOUS
  <2> HIDE DEF start
  <2>4. 1..(Len(ss) + 1) = 1..1 /\ 1..Len(ss) = {} /\ Len(ss) = 0 /\ Len(ss) + 1 = 1
    BY <1>0, <1>1
  <2>5. Parts(ss, start, ss)
    BY <2>3, <2>4 DEF Parts
  <2> QED BY <2>1, <2>2, <2>5
<1>2. CASE n # 0
  <2> DEFINE f == CHOOSE g : Flattens(g, ss, n)
  <2>1. FlattenSeq(ss) = f[n]
    BY <1>0, <1>2 DEF FlattenSeq, Flattens
  <2>2. Flattens(f, ss, n)
    BY FlattensExists
  <2> HIDE DEF f
  <2>3. \A i \in 1..n : f[i] = IF i = 1 THEN ss[i] ELSE f[i - 1] \o ss[i]
    BY <2>2 DEF Flattens
  <2> DEFINE start == [j \in 1..(n + 1) |-> IF j = 1 THEN 0 ELSE Len(f[j - 1])]
  <2>4. \A i \in 1..n : ss[i] \in Seq(T) /\ Len(ss[i]) \in Nat
    BY <1>0
  <2>5. start[1] = 0 /\ \A j \in 1..n : start[j + 1] = Len(f[j])
    OBVIOUS
  <2>6. start = [j \in 1..(n + 1) |-> start[j]]
    OBVIOUS
  <2> HIDE DEF start
  <2> DEFINE S == {m \in Nat : m < n => Until(T, f, start, ss, m + 1)}
  <2>7. 0 \in S
    <3>1. f[1] = ss[1] /\ ss[1] \in Seq(T) /\ Len(ss[1]) \in Nat
      BY <1>2, <2>3, <2>4
    <3>2. \A j \in 1..1 : j = 1
      OBVIOUS
    <3>3. Until(T, f, start, ss, 1)
      BY <2>5, <3>1, <3>2 DEF Until
    <3> QED BY <3>3
  <2>8. ASSUME NEW m \in Nat, m \in S PROVE m + 1 \in S
    <3> SUFFICES ASSUME m + 1 < n PROVE Until(T, f, start, ss, (m + 1) + 1)
      OBVIOUS
    <3>1. PICK i \in Nat : i = m + 1 /\ i \in 1..n
      OBVIOUS
    <3>2. PICK k \in Nat : k = i + 1 /\ k \in 1..n /\ k # 1 /\ k - 1 = i
      BY <3>1
    <3>3. Until(T, f, start, ss, i)
      BY <2>8, <3>1
    <3>4. f[k] = f[i] \o ss[k] /\ start[k] = Len(f[i]) /\ ss[k] \in Seq(T)
      BY <2>3, <2>4, <2>5, <3>1, <3>2
    <3>5. Until(T, f, start, ss, k)
      BY <3>2, <3>3, <3>4, UntilNext
    <3> QED BY <3>1, <3>2, <3>5
  <2>9. ASSUME NEW i \in 1..n PROVE Until(T, f, start, ss, i)
    <3>1. Nat \subseteq S
      <4> HIDE DEF S
      <4> QED BY <2>7, <2>8, Induction
    <3>2. PICK m \in Nat : m + 1 = i /\ m < n
      <4>1. i - 1 \in Nat /\ (i - 1) + 1 = i /\ i - 1 < n
        OBVIOUS
      <4> QED BY <4>1
    <3> QED BY <3>1, <3>2
  <2>10. \A j \in 1..n : start[j + 1] = start[j] + Len(ss[j]) /\ Len(f[j]) \in Nat /\ f[j] \in Seq(T)
    BY <2>5, <2>9 DEF Until
  <2>11. start \in [1..(n + 1) -> Nat]
    <3>1. ASSUME NEW j \in 1..(n + 1) PROVE start[j] \in Nat
      <4>1. CASE j = 1
        BY <2>5, <4>1
      <4>2. CASE j # 1
        <5>1. PICK i \in 1..n : i + 1 = j
          <6>1. j - 1 \in 1..n /\ (j - 1) + 1 = j
            BY <4>2
          <6> QED BY <6>1
        <5> QED BY <2>5, <2>10, <5>1
      <4> QED BY <4>1, <4>2
    <3> QED BY <2>6, <3>1
  <2>12. n \in 1..n /\ Until(T, f, start, ss, n)
    BY <1>2, <2>9
  <2>13. Parts(ss, start, f[n])
    BY <1>0, <2>5, <2>10, <2>11, <2>12 DEF Parts, Until
  <2> QED BY <2>1, <2>10, <2>12, <2>13
<1> QED BY <1>1, <1>2

-----------------------------------------------------------------------------
(* Code items                                                                 *)

\* codeitem_end takes as many numbers for a handler as it has.
LEMMA HandlerIs ==
  ASSUME NEW h \in [pairs : Nat, catchAll : BOOLEAN], h.pairs > 0 \/ h.catchAll
  PROVE  /\ HandlerTokens(h) \in Seq(Int)
         /\ Len(HandlerTokens(h)) \in Nat \ {0}
         /\ AfterHandler(HandlerTokens(h)[1]) = Len(HandlerTokens(h))
<1> DEFINE size == IF h.catchAll THEN 0 - h.pairs ELSE h.pairs
           pairs == [k \in 1..(2 * h.pairs) |-> 0]
           all == IF h.catchAll THEN <<0>> ELSE <<>>
<1>1. PICK p \in Nat : p = h.pairs
  OBVIOUS
<1>2. size \in Int /\ h.catchAll \in BOOLEAN
  BY <1>1
<1>3. pairs \in Seq(Int) /\ Len(pairs) = 2 * p
  BY <1>1
<1>4. all \in Seq(Int) /\ Len(all) = IF h.catchAll THEN 1 ELSE 0
  OBVIOUS
<1>5. HandlerTokens(h) = (<<size>> \o pairs) \o all
  BY DEF HandlerTokens
<1>6. <<size>> \in Seq(Int) /\ Len(<<size>>) = 1 /\ <<size>>[1] = size
  BY <1>2
<1>7. /\ AfterHandler(size) = 1 + 2 * p + IF h.catchAll THEN 1 ELSE 0
  BY <1>1 DEF AfterHandler, AfterPairs
<1> HIDE DEF size, pairs, all
<1>8. <<size>> \o pairs \in Seq(Int) /\ Len(<<size>> \o pairs) = 1 + 2 * p /\ (<<size>> \o pairs)[1] = size
  BY <1>3, <1>6, ConcatIs
<1>9. /\ (<<size>> \o pairs) \o all \in Seq(Int)
      /\ Len((<<size>> \o pairs) \o all) = 1 + 2 * p + Len(all)
      /\ ((<<size>> \o pairs) \o all)[1] = size
  <2>1. PICK a \in Seq(Int) : a = <<size>> \o pairs /\ Len(a) = 1 + 2 * p /\ a[1] = size
    BY <1>8
  <2>2. PICK b \in Seq(Int) : b = all
    BY <1>4
  <2>3. 1 \in 1..Len(a)
    BY <2>1
  <2>4. a \o b \in Seq(Int) /\ Len(a \o b) = Len(a) + Len(b) /\ (a \o b)[1] = a[1]
    BY <2>3, ConcatIs
  <2> QED BY <2>1, <2>2, <2>4
<1> QED BY <1>4, <1>5, <1>7, <1>9

\* The end that codeitem_end finds is that of the last handler.
LEMMA CodeItemEnds ==
  ASSUME NEW m \in Methods
  PROVE  Len(Tokens(m)) \in Nat /\ CodeItemEnd(Tokens(m)) = Len(Tokens(m))
<1> DEFINE ss == [k \in DOMAIN Handlers[m] |-> HandlerTokens(Handlers[m][k])]
           flat == FlattenSeq(ss)
           tokens == Tokens(m)
<1>0. Handlers[m] \in Seq([pairs : Nat, catchAll : BOOLEAN])
  BY HandlersAssumption
<1>1. PICK n \in Nat : n = Len(Handlers[m]) /\ DOMAIN Handlers[m] = 1..n
  BY <1>0
<1>2. ASSUME NEW k \in 1..n
      PROVE  /\ ss[k] \in Seq(Int) /\ Len(ss[k]) \in Nat \ {0} /\ AfterHandler(ss[k][1]) = Len(ss[k])
  <2>0. Handlers[m][k] \in [pairs : Nat, catchAll : BOOLEAN]
    <3>1. \A U : \A s \in Seq(U) : \A j \in DOMAIN s : s[j] \in U
      OBVIOUS
    <3> QED BY <1>0, <1>1, <3>1, Zenon
  <2>1. Handlers[m][k] \in [pairs : Nat, catchAll : BOOLEAN] /\ Handlers[m][k] \in Range(Handlers[m])
    BY <1>1, <2>0 DEF Range
  <2>2. Handlers[m][k].pairs > 0 \/ Handlers[m][k].catchAll
    BY <2>1, HandlersAssumption
  <2>3. ss[k] = HandlerTokens(Handlers[m][k])
    BY <1>1
  <2> QED BY <2>1, <2>2, <2>3, HandlerIs
<1>3. ss \in Seq(Seq(Int)) /\ Len(ss) = n
  <2>1. ss = [k \in 1..n |-> ss[k]]
    BY <1>1
  <2> HIDE DEF ss
  <2> QED BY <1>2, <2>1
<1>4. tokens = <<n>> \o flat
  BY <1>1 DEF Tokens
<1> HIDE DEF ss
<1>5. PICK start : Parts(ss, start, flat)
  BY <1>3, FlattenIs
<1>6. flat \in Seq(Int) /\ Len(flat) \in Nat
  BY <1>3, FlattenIs
<1> HIDE DEF flat, tokens
<1>7. /\ Len(tokens) = 1 + Len(flat) /\ tokens[1] = n
      /\ \A p \in 1..Len(flat) : tokens[1 + p] = flat[p]
  <2>1. <<n>> \in Seq(Int) /\ Len(<<n>>) = 1 /\ <<n>>[1] = n /\ 1 \in 1..1
    OBVIOUS
  <2> QED BY <1>4, <1>6, <2>1, ConcatIs
<1> DEFINE table == [k \in 0..n |-> 1 + start[k + 1]]
<1>8. /\ \A k \in 1..(n + 1) : start[k] \in Nat
      /\ start[1] = 0 /\ \A k \in 1..n : start[k + 1] = start[k] + Len(ss[k])
      /\ Len(flat) = start[n + 1]
  BY <1>3, <1>5 DEF Parts
<1>9. \A k \in 1..n : /\ start[k] + 1 \in 1..Len(flat) /\ flat[start[k] + 1] = ss[k][1]
  <2> SUFFICES ASSUME NEW k \in 1..n
               PROVE  start[k] + 1 \in 1..Len(flat) /\ flat[start[k] + 1] = ss[k][1]
    OBVIOUS
  <2>1. 1 \in 1..Len(ss[k])
    BY <1>2
  <2> QED BY <1>3, <1>5, <2>1 DEF Parts
<1>10. table[0] = 1 /\ table[n] = Len(tokens)
  BY <1>7, <1>8
<1>11. ASSUME NEW k \in 1..n
       PROVE  table[k] = table[k - 1] + AfterHandler(tokens[table[k - 1] + 1])
  <2>1. table[k - 1] = 1 + start[k] /\ table[k] = 1 + start[k + 1]
    OBVIOUS
  <2>2. start[k] \in Nat /\ start[k + 1] = start[k] + Len(ss[k]) /\ Len(ss[k]) \in Nat
    BY <1>2, <1>8
  <2>3. PICK p \in 1..Len(flat) : p = start[k] + 1 /\ flat[p] = ss[k][1]
    BY <1>9
  <2>4. tokens[1 + p] = ss[k][1] /\ AfterHandler(ss[k][1]) = Len(ss[k])
    BY <1>2, <1>7, <2>3
  <2>5. table[k - 1] + 1 = 1 + p
    BY <2>1, <2>2, <2>3
  <2>6. table[k] = table[k - 1] + Len(ss[k])
    <3> HIDE DEF table
    <3> QED BY <2>1, <2>2
  <2> HIDE DEF table
  <2> QED BY <2>4, <2>5, <2>6
<1>12. table = [k \in 0..n |-> table[k]]
  OBVIOUS
<1> HIDE DEF table
<1> DEFINE Ends(e) == e = [k \in 0..n |-> IF k = 0 THEN 1 ELSE e[k - 1] + AfterHandler(tokens[e[k - 1] + 1])]
           end == CHOOSE e : Ends(e)
<1>13. Ends(table)
  <2>1. ASSUME NEW k \in 0..n
        PROVE  table[k] = IF k = 0 THEN 1 ELSE table[k - 1] + AfterHandler(tokens[table[k - 1] + 1])
    <3>1. CASE k = 0
      BY <1>10, <3>1
    <3>2. CASE k # 0
      <4>1. k \in 1..n
        BY <3>2
      <4> QED BY <1>11, <3>2, <4>1
    <3> QED BY <3>1, <3>2
  <2> QED BY <1>12, <2>1
<1>14. Ends(end)
  BY <1>13
<1>15. CodeItemEnd(tokens) = end[n]
  BY <1>7 DEF CodeItemEnd
<1>16. end[0] = 1 /\ \A k \in 1..n : end[k] = end[k - 1] + AfterHandler(tokens[end[k - 1] + 1])
  <2> HIDE DEF end
  <2>1. \A k \in 0..n : end[k] = IF k = 0 THEN 1 ELSE end[k - 1] + AfterHandler(tokens[end[k - 1] + 1])
    BY <1>14
  <2>2. 0 \in 0..n /\ \A k \in 1..n : k \in 0..n /\ k # 0
    OBVIOUS
  <2> QED BY <2>1, <2>2
<1> HIDE DEF end
<1> DEFINE S == {k \in Nat : k <= n => end[k] = table[k]}
<1>17. 0 \in S
  BY <1>10, <1>16
<1>18. ASSUME NEW k \in Nat, k \in S PROVE k + 1 \in S
  <2> SUFFICES ASSUME k + 1 <= n PROVE end[k + 1] = table[k + 1]
    OBVIOUS
  <2>1. PICK l \in 1..n : l = k + 1 /\ l - 1 = k
    OBVIOUS
  <2>2. end[k] = table[k]
    BY <1>18
  <2> QED BY <1>11, <1>16, <2>1, <2>2
<1>19. end[n] = table[n]
  <2>1. Nat \subseteq S
    <3> HIDE DEF S
    <3> QED BY <1>17, <1>18, Induction
  <2> QED BY <2>1
<1> QED BY <1>6, <1>7, <1>10, <1>15, <1>19 DEF tokens

Places == ((Methods \union DexFiles) \X Nat) \union {<<>>}
Units == Places \X BOOLEAN

LEMMA UnitsOfMethod ==
  ASSUME NEW m \in Methods
  PROVE  CodeItemUnits(m) \in Nat \ {0} /\ CodeItemLen(m) = CodeItemUnits(m)
BY CodeItemEnds DEF CodeItemUnits, CodeItemLen

\* A sequence of a finite set has all of it.
LEMMA SetToSeqIsAll ==
  ASSUME NEW S, IsFiniteSet(S), NEW x \in S
  PROVE  \E j \in 1..Len(SetToSeq(S)) : SetToSeq(S)[j] = x
<1>1. Cardinality(S) \in Nat /\ ExistsBijection(1..Cardinality(S), S)
  BY FS_CardinalityType
<1>2. PICK f \in Bijection(1..Cardinality(S), S) : TRUE
  BY <1>1 DEF ExistsBijection
<1>3. f \in [1..Cardinality(S) -> S] /\ IsInjective(f)
  BY <1>2 DEF Bijection, Injection, Surjection, IsInjective
<1>4. SetToSeq(S) \in [1..Cardinality(S) -> S] /\ IsInjective(SetToSeq(S))
  BY <1>3 DEF SetToSeq
<1>5. PICK g \in [1..Cardinality(S) -> S] : g = SetToSeq(S) /\ IsInjective(g)
  BY <1>4
<1>6. g \in Injection(1..Cardinality(S), S)
  BY <1>5 DEF Injection, IsInjective
<1>7. IsFiniteSet(1..Cardinality(S)) /\ Cardinality(1..Cardinality(S)) = Cardinality(S)
  BY <1>1, FS_Interval
<1>8. g \in Surjection(1..Cardinality(S), S)
  BY <1>6, <1>7, FS_Injection
<1>9. PICK j \in 1..Cardinality(S) : g[j] = x
  BY <1>8 DEF Surjection
<1>10. Len(g) = Cardinality(S)
  BY <1>1, <1>5
<1> QED BY <1>5, <1>9, <1>10

\* Every code item lies in the dex file at the offset that it has in memory.
LEMMA LayoutIs ==
  ASSUME NEW d \in DexFiles
  PROVE  /\ Layout(d) \in Seq(Places) /\ Len(Layout(d)) \in Nat \ {0}
         /\ \A m \in MethodsOf(d) :
              /\ OffsetOf(m) \in Nat
              /\ \A k \in 1..CodeItemUnits(m) :
                   OffsetOf(m) + k \in 1..Len(Layout(d)) /\ Layout(d)[OffsetOf(m) + k] = <<m, k>>
<1> DEFINE ms == MethodSeq(d)
           ss == [k \in DOMAIN ms |-> CodeItem(ms[k])]
           flat == FlattenSeq(ss)
<1>1. IsFiniteSet(MethodsOf(d)) /\ MethodsOf(d) \subseteq Methods
  BY HandlersAssumption, FS_Subset DEF MethodsOf
<1>2. ms \in Seq(MethodsOf(d)) /\ \A m \in MethodsOf(d) : \E j \in 1..Len(ms) : ms[j] = m
  BY <1>1, SetToSeqIs, SetToSeqIsAll DEF MethodSeq
<1>3. Layout(d) = <<<<d, 0>>>> \o flat
  BY DEF Layout
<1> HIDE DEF ms
<1>4. PICK n \in Nat : n = Len(ms) /\ DOMAIN ms = 1..n
  BY <1>2
<1>5. \A j \in 1..n : ms[j] \in MethodsOf(d) /\ ms[j] \in Methods
  BY <1>1, <1>2, <1>4
<1>6. ASSUME NEW j \in 1..n
      PROVE  /\ ss[j] \in Seq(Places) /\ Len(ss[j]) = CodeItemUnits(ms[j])
             /\ \A k \in 1..Len(ss[j]) : ss[j][k] = <<ms[j], k>>
  <2>1. PICK u \in Nat : u = CodeItemUnits(ms[j])
    BY <1>5, UnitsOfMethod
  <2>2. ss[j] = [k \in 1..u |-> <<ms[j], k>>]
    BY <1>4, <2>1 DEF CodeItem
  <2>3. \A k \in 1..u : <<ms[j], k>> \in Places
    BY <1>5 DEF Places
  <2> HIDE DEF ss
  <2>4. ss[j] \in Seq(Places) /\ Len(ss[j]) = u
    BY <2>2, <2>3
  <2> QED BY <2>1, <2>2, <2>4
<1>7. ss \in Seq(Seq(Places)) /\ Len(ss) = n
  <2>1. ss = [k \in 1..n |-> ss[k]]
    BY <1>4
  <2> HIDE DEF ss
  <2> QED BY <1>6, <2>1
<1> HIDE DEF ss
<1>8. PICK start : Parts(ss, start, flat)
  BY <1>7, FlattenIs
<1>9. flat \in Seq(Places) /\ Len(flat) \in Nat
  BY <1>7, FlattenIs
<1> HIDE DEF flat
<1>10. /\ Layout(d) \in Seq(Places) /\ Len(Layout(d)) = 1 + Len(flat) /\ Layout(d)[1] = <<d, 0>>
       /\ \A p \in 1..Len(flat) : Layout(d)[1 + p] = flat[p]
  <2>1. <<d, 0>> \in Places
    BY DEF Places
  <2>2. PICK h \in Seq(Places) : h = <<<<d, 0>>>> /\ Len(h) = 1 /\ h[1] = <<d, 0>>
    <3>1. PICK x \in Places : x = <<d, 0>>
      BY <2>1
    <3>2. <<x>> \in Seq(Places) /\ Len(<<x>>) = 1 /\ <<x>>[1] = x
      OBVIOUS
    <3> QED BY <3>1, <3>2
  <2>3. 1 \in 1..Len(h)
    BY <2>2
  <2> QED BY <1>3, <1>9, <2>2, <2>3, ConcatIs
<1>11. ASSUME NEW m \in MethodsOf(d)
       PROVE  /\ OffsetOf(m) \in Nat
              /\ \A k \in 1..CodeItemUnits(m) :
                   OffsetOf(m) + k \in 1..Len(Layout(d)) /\ Layout(d)[OffsetOf(m) + k] = <<m, k>>
  <2>0. m \in Methods /\ DexOf[m] = d /\ CodeItemUnits(m) \in Nat \ {0}
    BY UnitsOfMethod DEF MethodsOf
  <2> DEFINE L == Layout(d)
  <2>1. L \in Seq(Places) /\ DOMAIN L = 1..Len(L) /\ Len(L) = 1 + Len(flat)
    BY <1>10
  <2> HIDE DEF L
  <2>2. ASSUME NEW j \in 1..n, ms[j] = m, NEW k \in 1..CodeItemUnits(m)
        PROVE  /\ start[j] + k \in 1..Len(flat) /\ flat[start[j] + k] = <<m, k>>
               /\ start[j] \in Nat
    <3>1. k \in 1..Len(ss[j]) /\ ss[j][k] = <<m, k>>
      BY <1>6, <2>2
    <3>2. \A l \in 1..Len(ss[j]) : start[j] + l \in 1..Len(flat) /\ flat[start[j] + l] = ss[j][l]
      BY <1>7, <1>8 DEF Parts
    <3>3. start[j] \in Nat
      BY <1>7, <1>8 DEF Parts
    <3> QED BY <3>1, <3>2, <3>3
  <2>3. \A p \in 1..Len(flat) : L[1 + p] = flat[p] /\ 1 + p \in 1..Len(L)
    BY <1>9, <1>10, <2>1 DEF L
  <2>4. \E o \in DOMAIN L : L[o] = <<m, 1>>
    <3>1. PICK j \in 1..n : ms[j] = m
      BY <1>2, <1>4
    <3>2. 1 \in 1..CodeItemUnits(m)
      BY <2>0
    <3>3. PICK p \in 1..Len(flat) : flat[p] = <<m, 1>>
      BY <2>2, <3>1, <3>2
    <3> QED BY <2>1, <2>3, <3>3
  <2>5. PICK o \in DOMAIN L : L[o] = <<m, 1>> /\ OffsetOf(m) = o - 1
    <3> DEFINE o == CHOOSE x \in DOMAIN L : L[x] = <<m, 1>>
    <3>1. o \in DOMAIN L /\ L[o] = <<m, 1>>
      BY <2>4
    <3>2. OffsetOf(m) = o - 1
      BY <2>0 DEF OffsetOf, L
    <3> QED BY <3>1, <3>2
  <2>6. o # 1
    <3>1. L[1] = <<d, 0>>
      BY <1>10 DEF L
    <3>2. <<d, 0>> # <<m, 1>>
      OBVIOUS
    <3> QED BY <2>5, <3>1, <3>2
  <2>7. PICK p \in 1..Len(flat) : o = 1 + p
    <3>1. o - 1 \in 1..Len(flat) /\ o = 1 + (o - 1)
      BY <1>9, <2>1, <2>6
    <3> QED BY <3>1
  <2>8. flat[p] = <<m, 1>>
    BY <2>3, <2>5, <2>7
  <2>9. PICK j \in 1..n : \E k \in 1..Len(ss[j]) : p = start[j] + k
    BY <1>7, <1>8 DEF Parts
  <2>10. PICK k \in 1..Len(ss[j]) : p = start[j] + k
    BY <2>9
  <2>11. ss[j][k] = <<ms[j], k>> /\ flat[start[j] + k] = ss[j][k]
    BY <1>6, <1>7, <1>8 DEF Parts
  <2>12. <<ms[j], k>> = <<m, 1>>
    BY <2>8, <2>10, <2>11
  <2>13. ms[j] = m /\ k = 1
    BY <2>12
  <2>14. start[j] \in Nat
    BY <1>7, <1>8 DEF Parts
  <2>15. OffsetOf(m) = 1 + start[j]
    BY <2>5, <2>7, <2>10, <2>13, <2>14
  <2>16. ASSUME NEW l \in 1..CodeItemUnits(m)
         PROVE  OffsetOf(m) + l \in 1..Len(L) /\ L[OffsetOf(m) + l] = <<m, l>>
    <3>1. PICK q \in 1..Len(flat) : q = start[j] + l /\ flat[q] = <<m, l>>
      BY <2>2, <2>13
    <3>2. OffsetOf(m) + l = 1 + q
      BY <2>14, <2>15, <3>1
    <3> QED BY <2>3, <3>1, <3>2
  <2> QED BY <2>14, <2>15, <2>16 DEF L
<1> QED BY <1>9, <1>10, <1>11

-----------------------------------------------------------------------------
(* The files                                                                  *)

LEMMA WriteAtIs ==
  ASSUME NEW U, Zeros \in U, NEW file \in Seq(U), NEW offset \in Nat, NEW units \in Seq(U)
  PROVE  /\ WriteAt(file, offset, units) \in Seq(U)
         /\ Len(WriteAt(file, offset, units)) >= Len(file)
         /\ Len(WriteAt(file, offset, units)) >= offset + Len(units)
         /\ \A k \in 1..Len(units) : WriteAt(file, offset, units)[offset + k] = units[k]
         /\ \A p \in 1..Len(file) : p \notin (offset + 1)..(offset + Len(units)) =>
              WriteAt(file, offset, units)[p] = file[p]
<1>1. PICK a \in Nat, b \in Nat : a = Len(file) /\ b = Len(units)
  OBVIOUS
<1>2. PICK n \in Nat : n = (IF a > offset + b THEN a ELSE offset + b) /\ n >= a /\ n >= offset + b
  BY <1>1
<1> DEFINE w == [k \in 1..n |-> IF k \in (offset + 1)..(offset + b) THEN units[k - offset]
                                ELSE IF k <= a THEN file[k] ELSE Zeros]
<1>3. WriteAt(file, offset, units) = w
  BY <1>1, <1>2 DEF WriteAt
<1>4. ASSUME NEW k \in 1..n PROVE w[k] \in U
  <2>1. CASE k \in (offset + 1)..(offset + b)
    <3>1. PICK l \in 1..b : l = k - offset
      BY <1>1, <2>1
    <3>2. units[l] \in U
      BY <1>1
    <3> QED BY <2>1, <3>1, <3>2
  <2>2. CASE k \notin (offset + 1)..(offset + b) /\ k <= a
    <3>1. k \in 1..a
      BY <2>2
    <3>2. file[k] \in U
      BY <1>1, <3>1
    <3> QED BY <2>2, <3>2
  <2>3. CASE k \notin (offset + 1)..(offset + b) /\ ~(k <= a)
    BY <2>3
  <2> QED BY <2>1, <2>2, <2>3
<1>5. ASSUME NEW k \in 1..b PROVE w[offset + k] = units[k]
  <2>1. offset + k \in 1..n /\ offset + k \in (offset + 1)..(offset + b) /\ (offset + k) - offset = k
    BY <1>2
  <2> QED BY <2>1
<1>6. ASSUME NEW p \in 1..a, p \notin (offset + 1)..(offset + b) PROVE w[p] = file[p]
  <2>1. p \in 1..n /\ p <= a
    BY <1>2
  <2> QED BY <1>6, <2>1
<1>7. w = [k \in 1..n |-> w[k]]
  OBVIOUS
<1> HIDE DEF w
<1>8. w \in Seq(U) /\ Len(w) = n
  BY <1>4, <1>7
<1> QED BY <1>1, <1>2, <1>3, <1>5, <1>6, <1>8

\* The file holds the dex file, with whole code items.
Whole(file, d) ==
  /\ Len(file) >= Len(Layout(d))
  /\ \A k \in DOMAIN Layout(d) : file[k][1] = Layout(d)[k]
  /\ \A m \in MethodsOf(d) :
       \E x \in BOOLEAN : \A k \in DOMAIN CodeItem(m) : file[OffsetOf(m) + k][2] = x

\* Whether what is at a place is decoded.
Decoded(place) == place[1] \in decoded

LEMMA PairIs ==
  ASSUME NEW x, NEW y
  PROVE  <<x, y>>[1] = x /\ <<x, y>>[2] = y
OBVIOUS

LEMMA FirstIs ==
  ASSUME NEW pair, NEW x, NEW y, pair = <<x, y>>
  PROVE  pair[1] = x
OBVIOUS

LEMMA SecondIs ==
  ASSUME NEW pair, NEW x, NEW y, pair = <<x, y>>
  PROVE  pair[2] = y
OBVIOUS

LEMMA TruthIs ==
  ASSUME NEW m
  PROVE  (m \in decoded) \in BOOLEAN
OBVIOUS

LEMMA DecodedIs ==
  ASSUME NEW place, NEW m, NEW k, place = <<m, k>>
  PROVE  /\ Decoded(place) \in BOOLEAN
         /\ Decoded(place) = (m \in decoded)
<1>1. place[1] = m
  BY PairIs
<1>2. Decoded(place) \in BOOLEAN
  BY DEF Decoded
<1> QED BY <1>1, <1>2, Zenon DEF Decoded

LEMMA MemoryIs ==
  ASSUME NEW d \in DexFiles
  PROVE  /\ Memory(d) \in Seq(Units) /\ Len(Memory(d)) = Len(Layout(d)) /\ Zeros \in Units
         /\ \A k \in 1..Len(Layout(d)) :
              Memory(d)[k] = <<Layout(d)[k], Decoded(Layout(d)[k])>>
<1>1. PICK n \in Nat : n = Len(Layout(d)) /\ DOMAIN Layout(d) = 1..n
  BY LayoutIs
<1>2. \A k \in 1..n : Layout(d)[k] \in Places
  BY <1>1, LayoutIs
<1>3. Memory(d) = [k \in 1..n |-> <<Layout(d)[k], Decoded(Layout(d)[k])>>]
  BY <1>1, Zenon DEF Memory, Decoded
<1>4. ASSUME NEW k \in 1..n PROVE <<Layout(d)[k], Decoded(Layout(d)[k])>> \in Units
  <2>1. PICK place \in Places : place = Layout(d)[k]
    BY <1>2
  <2>2. Decoded(place) \in BOOLEAN
    BY DEF Decoded
  <2>3. PICK x \in BOOLEAN : x = Decoded(place)
    BY <2>2, Zenon
  <2>4. <<place, x>> \in Units
    BY DEF Units
  <2> QED BY <2>1, <2>3, <2>4, Zenon
<1>5. Memory(d) \in Seq(Units) /\ Len(Memory(d)) = n
  BY <1>3, <1>4
<1>6. Zeros \in Units
  BY DEF Zeros, Units, Places
<1> QED BY <1>1, <1>3, <1>5, <1>6

LEMMA ItemIs ==
  ASSUME NEW m \in Methods
  PROVE  DOMAIN CodeItem(m) = 1..CodeItemUnits(m)
BY DEF CodeItem

\* A dump that is written whole.
LEMMA DumpedIsWhole ==
  ASSUME NEW d \in DexFiles, NEW file \in Seq(Units)
  PROVE  WriteAt(file, 0, Memory(d)) \in Seq(Units) /\ Whole(WriteAt(file, 0, Memory(d)), d)
<1>1. PICK mem \in Seq(Units) : mem = Memory(d)
  BY MemoryIs
<1>2. PICK w \in Seq(Units) :
        /\ w = WriteAt(file, 0, mem) /\ Len(w) >= 0 + Len(mem)
        /\ \A k \in 1..Len(mem) : w[0 + k] = mem[k]
  <2>1. 0 \in Nat /\ Zeros \in Units
    BY MemoryIs
  <2>2. /\ WriteAt(file, 0, mem) \in Seq(Units) /\ Len(WriteAt(file, 0, mem)) >= 0 + Len(mem)
        /\ \A k \in 1..Len(mem) : WriteAt(file, 0, mem)[0 + k] = mem[k]
    BY <2>1, WriteAtIs
  <2> QED BY <2>2, Zenon
<1>3. PICK n \in Nat : n = Len(Layout(d)) /\ DOMAIN Layout(d) = 1..n /\ n = Len(mem)
  BY <1>1, LayoutIs, MemoryIs
<1>4. Len(w) >= n
  BY <1>2, <1>3
<1>5. \A k \in 1..n : w[k] = <<Layout(d)[k], Decoded(Layout(d)[k])>>
  <2>1. \A k \in 1..n : 0 + k = k
    OBVIOUS
  <2> QED BY <1>1, <1>2, <1>3, <2>1, MemoryIs
<1>6. ASSUME NEW m \in MethodsOf(d)
      PROVE  \E x \in BOOLEAN : \A k \in DOMAIN CodeItem(m) : w[OffsetOf(m) + k][2] = x
  <2>1. PICK x \in BOOLEAN : x = (m \in decoded)
    BY TruthIs, Zenon
  <2>2. ASSUME NEW k \in 1..CodeItemUnits(m) PROVE w[OffsetOf(m) + k][2] = x
    <3>1. PICK p \in 1..n : p = OffsetOf(m) + k /\ Layout(d)[p] = <<m, k>>
      BY <1>3, LayoutIs
    <3>2. w[p] = <<Layout(d)[p], Decoded(Layout(d)[p])>>
      BY <1>5, Zenon
    <3>3. w[p][2] = Decoded(Layout(d)[p])
      BY <3>2, SecondIs
    <3> QED BY <2>1, <3>1, <3>3, DecodedIs, Zenon
  <2> QED BY <2>2, ItemIs DEF MethodsOf
<1>7. ASSUME NEW k \in 1..n PROVE w[k][1] = Layout(d)[k]
  <2>1. w[k] = <<Layout(d)[k], Decoded(Layout(d)[k])>>
    BY <1>5, Zenon
  <2> QED BY <2>1, FirstIs
<1>8. Whole(w, d)
  BY <1>3, <1>4, <1>6, <1>7 DEF Whole
<1> QED BY <1>1, <1>2, <1>8

\* The code item as dumpMethod finds it.
LEMMA FoundIs ==
  ASSUME NEW m \in Methods, NEW d \in DexFiles, DexOf[m] = d
  PROVE  /\ FoundCodeItem(m) \in Seq(Units) /\ Len(FoundCodeItem(m)) = CodeItemUnits(m)
         /\ \A k \in 1..CodeItemUnits(m) : FoundCodeItem(m)[k] = <<<<m, k>>, Decoded(<<m, k>>)>>
<1>1. PICK o \in Nat, u \in Nat \ {0} : o = OffsetOf(m) /\ u = CodeItemUnits(m) /\ u = CodeItemLen(m)
  BY LayoutIs, UnitsOfMethod DEF MethodsOf
<1>2. PICK mem \in Seq(Units) : mem = Memory(d)
  BY MemoryIs
<1>3. \A k \in 1..u : o + k \in 1..Len(mem) /\ Layout(d)[o + k] = <<m, k>>
  <2>1. m \in MethodsOf(d) /\ Len(mem) = Len(Layout(d))
    BY <1>2, MemoryIs DEF MethodsOf
  <2> QED BY <1>1, <2>1, LayoutIs
<1>4. o + u \in 1..Len(mem) /\ Len(mem) \in Nat
  BY <1>3
<1>5. FoundCodeItem(m) = SubSeq(mem, o + 1, o + u)
  BY <1>1, <1>2 DEF FoundCodeItem
<1>6. PICK a \in Nat, b \in Nat : a = o + 1 /\ b = o + u /\ a >= 1 /\ b <= Len(mem) /\ b - a + 1 = u
  BY <1>4
<1>7. SubSeq(mem, a, b) \in Seq(Units) /\ Len(SubSeq(mem, a, b)) = u
      /\ \A k \in 1..u : SubSeq(mem, a, b)[k] = mem[a + k - 1]
  BY <1>6
<1>8. ASSUME NEW k \in 1..u PROVE FoundCodeItem(m)[k] = <<<<m, k>>, Decoded(<<m, k>>)>>
  <2>1. a + k - 1 = o + k
    BY <1>6
  <2>2. mem[o + k] = <<<<m, k>>, Decoded(<<m, k>>)>>
    <3>1. PICK p \in 1..Len(Layout(d)) : p = o + k /\ Layout(d)[p] = <<m, k>>
      BY <1>2, <1>3, MemoryIs
    <3>2. mem[p] = <<Layout(d)[p], Decoded(Layout(d)[p])>>
      BY <1>2, MemoryIs
    <3> QED BY <3>1, <3>2, Zenon
  <2> QED BY <1>5, <1>6, <1>7, <2>1, <2>2
<1> QED BY <1>1, <1>5, <1>6, <1>7, <1>8

\* A repair leaves the other code items as they are.
LEMMA RepairedIsWhole ==
  ASSUME NEW m \in Methods, NEW d \in DexFiles, DexOf[m] = d, NEW file \in Seq(Units)
  PROVE  /\ WriteAt(file, OffsetOf(m), FoundCodeItem(m)) \in Seq(Units)
         /\ Whole(file, d) => Whole(WriteAt(file, OffsetOf(m), FoundCodeItem(m)), d)
<1>1. PICK found \in Seq(Units) : found = FoundCodeItem(m)
  BY FoundIs
<1>2. PICK o \in Nat, u \in Nat : o = OffsetOf(m) /\ u = CodeItemUnits(m) /\ u = Len(found)
  BY <1>1, LayoutIs, UnitsOfMethod, FoundIs DEF MethodsOf
<1>3. PICK w \in Seq(Units) :
        /\ w = WriteAt(file, o, found) /\ Len(w) >= Len(file)
        /\ \A k \in 1..Len(found) : w[o + k] = found[k]
        /\ \A p \in 1..Len(file) : p \notin (o + 1)..(o + Len(found)) => w[p] = file[p]
  <2>1. Zeros \in Units
    BY MemoryIs
  <2>2. /\ WriteAt(file, o, found) \in Seq(Units) /\ Len(WriteAt(file, o, found)) >= Len(file)
        /\ \A k \in 1..Len(found) : WriteAt(file, o, found)[o + k] = found[k]
        /\ \A p \in 1..Len(file) : p \notin (o + 1)..(o + Len(found)) =>
             WriteAt(file, o, found)[p] = file[p]
    BY <2>1, WriteAtIs
  <2> QED BY <2>2, Zenon
<1>4. ASSUME Whole(file, d) PROVE Whole(w, d)
  <2>1. PICK n \in Nat : n = Len(Layout(d)) /\ DOMAIN Layout(d) = 1..n /\ n <= Len(file)
    BY <1>4, LayoutIs DEF Whole
  <2>2. Len(w) >= n
    BY <1>3, <2>1
  <2>3. \A k \in 1..u : o + k \in 1..n /\ Layout(d)[o + k] = <<m, k>>
    BY <1>2, <2>1, LayoutIs DEF MethodsOf
  <2>4. \A k \in 1..u : w[o + k] = <<<<m, k>>, Decoded(<<m, k>>)>>
    <3>1. \A k \in 1..u : found[k] = <<<<m, k>>, Decoded(<<m, k>>)>>
      BY <1>1, <1>2, FoundIs
    <3> QED BY <1>2, <1>3, <3>1, Zenon
  <2>5. ASSUME NEW p \in 1..n, p \notin (o + 1)..(o + u) PROVE w[p] = file[p]
    <3>1. p \in 1..Len(file)
      BY <2>1
    <3> QED BY <1>2, <1>3, <2>5, <3>1
  <2>6. \A p \in (o + 1)..(o + u) : \E k \in 1..u : p = o + k
    <3> SUFFICES ASSUME NEW p \in (o + 1)..(o + u) PROVE \E k \in 1..u : p = o + k
      OBVIOUS
    <3>1. p - o \in 1..u /\ p = o + (p - o)
      OBVIOUS
    <3> QED BY <3>1
  <2>7. ASSUME NEW p \in 1..n PROVE w[p][1] = Layout(d)[p]
    <3>1. CASE p \in (o + 1)..(o + u)
      <4>1. PICK k \in 1..u : p = o + k
        BY <2>6, <3>1
      <4>2. w[p] = <<<<m, k>>, Decoded(<<m, k>>)>>
        BY <2>4, <4>1, Zenon
      <4>3. w[p][1] = <<m, k>>
        BY <4>2, PairIs, Zenon
      <4> QED BY <2>3, <4>1, <4>3
    <3>2. CASE p \notin (o + 1)..(o + u)
      <4>1. file[p][1] = Layout(d)[p]
        BY <1>4, <2>1, Zenon DEF Whole
      <4> QED BY <2>5, <3>2, <4>1
    <3> QED BY <3>1, <3>2
  <2>8. ASSUME NEW l \in MethodsOf(d)
        PROVE  \E x \in BOOLEAN : \A k \in DOMAIN CodeItem(l) : w[OffsetOf(l) + k][2] = x
    <3>0. l \in Methods /\ DOMAIN CodeItem(l) = 1..CodeItemUnits(l)
      BY ItemIs DEF MethodsOf
    <3>1. CASE l = m
      <4>1. PICK x \in BOOLEAN : x = (m \in decoded)
        BY TruthIs, Zenon
      <4>2. ASSUME NEW k \in 1..u PROVE w[o + k][2] = x
        <5>1. w[o + k] = <<<<m, k>>, Decoded(<<m, k>>)>>
          BY <2>4, Zenon
        <5>3. w[o + k][2] = Decoded(<<m, k>>)
          BY <5>1, SecondIs DEF Decoded
        <5>2. Decoded(<<m, k>>) = (m \in decoded)
          BY DecodedIs, Zenon
        <5> QED BY <4>1, <5>2, <5>3, Zenon
      <4> QED BY <1>2, <3>0, <3>1, <4>2
    <3>2. CASE l # m
      <4>1. PICK x \in BOOLEAN : \A k \in DOMAIN CodeItem(l) : file[OffsetOf(l) + k][2] = x
        BY <1>4 DEF Whole
      <4>2. ASSUME NEW k \in 1..CodeItemUnits(l) PROVE w[OffsetOf(l) + k][2] = x
        <5>1. PICK p \in 1..n : p = OffsetOf(l) + k /\ Layout(d)[p] = <<l, k>>
          BY <2>1, LayoutIs
        <5>2. p \notin (o + 1)..(o + u)
          <6> SUFFICES ASSUME p \in (o + 1)..(o + u) PROVE FALSE
            OBVIOUS
          <6>1. PICK j \in 1..u : p = o + j
            BY <2>6
          <6>2. <<l, k>> = <<m, j>>
            BY <2>3, <5>1, <6>1
          <6> QED BY <3>2, <6>2
        <5> QED BY <2>5, <3>0, <4>1, <5>1, <5>2
      <4> QED BY <3>0, <4>2
    <3> QED BY <3>1, <3>2
  <2> QED BY <2>1, <2>2, <2>7, <2>8 DEF Whole
<1> QED BY <1>1, <1>2, <1>3, <1>4

\* No two dex files are mapped at the same address.
BeginsOnce == \A d, e \in DexFiles : begin[d] = begin[e] /\ begin[d] # 0 => d = e

FilesInv == files \in [Begins -> Seq(Units)] /\ BeginsOnce /\ FilesMatch

\* A file that need not be as it was registered.
Exempt(b) == b \in torn \/ registered[b] = Nothing \/ registered[b] \in freedOpen

LEMMA FilesMatchIs ==
  /\ FilesMatch <=> \A b \in Begins : Exempt(b) \/ Whole(files[b], registered[b])
  /\ FilesMatch' <=> \A b \in Begins : Exempt(b)' \/ Whole(files'[b], registered'[b])
<1>1. FilesMatch <=> \A b \in Begins : Exempt(b) \/ Whole(files[b], registered[b])
  BY DEF FilesMatch, Exempt, Whole
<1>2. FilesMatch' <=> \A b \in Begins : Exempt(b)' \/ Whole(files'[b], registered'[b])
  BY DEF FilesMatch, Exempt, Whole
<1> QED BY <1>1, <1>2

LEMMA FilesInitially == Init => FilesInv
<1> SUFFICES ASSUME Init PROVE FilesInv
  OBVIOUS
<1> USE DEF Init, ProcessInit, DumpInit
<1>1. <<>> \in Seq(Units)
  OBVIOUS
<1>2. files \in [Begins -> Seq(Units)]
  BY <1>1, Zenon
<1>3. BeginsOnce
  BY DEF BeginsOnce
<1>4. FilesMatch
  BY DEF FilesMatch
<1> QED BY <1>2, <1>3, <1>4 DEF FilesInv

\* A step that writes nothing and maps nothing.
LEMMA NothingWritten ==
  ASSUME FilesInv, UNCHANGED <<files, torn, registered>>, freedOpen \subseteq freedOpen',
         \A d \in DexFiles : begin'[d] = begin[d] \/ begin'[d] = 0
  PROVE  FilesInv'
<1>1. files' \in [Begins -> Seq(Units)]
  BY DEF FilesInv
<1>2. BeginsOnce'
  BY DEF FilesInv, BeginsOnce
<1>3. \A b \in Begins : Exempt(b) => Exempt(b)'
  BY DEF Exempt
<1>4. FilesMatch'
  BY <1>3, FilesMatchIs DEF FilesInv
<1> QED BY <1>1, <1>2, <1>4 DEF FilesInv

LEMMA FilesInApp ==
  ASSUME FilesInv, ToolsInv, App, UNCHANGED dumpVars
  PROVE  FilesInv'
<1>0. UNCHANGED <<files, torn, registered>>
  BY DEF dumpVars
<1>1. ASSUME NEW l \in Loaders, NewLoader(l) PROVE FilesInv'
  <2>1. UNCHANGED freedOpen
    BY <1>1 DEF NewLoader
  <2>2. PICK f \in [FilesOf(l) -> Begins \ Range(begin)] :
          /\ IsInjective(f)
          /\ begin' = [d \in DexFiles |-> IF d \in FilesOf(l) THEN f[d] ELSE begin[d]]
    BY <1>1 DEF NewLoader
  <2>3. \A d \in DexFiles : begin[d] \in Range(begin)
    BY DEF ToolsInv, LoadersOK, Range
  <2>4. \A d, e \in FilesOf(l) : f[d] = f[e] => d = e
    BY <2>2 DEF IsInjective
  <2>5. BeginsOnce'
    <3> SUFFICES ASSUME NEW d \in DexFiles, NEW e \in DexFiles, begin'[d] = begin'[e], begin'[d] # 0
                 PROVE  d = e
      BY DEF BeginsOnce
    <3>1. CASE d \in FilesOf(l) /\ e \in FilesOf(l)
      BY <2>2, <2>4, <3>1
    <3>2. CASE d \in FilesOf(l) /\ e \notin FilesOf(l)
      BY <2>2, <2>3, <3>2
    <3>3. CASE d \notin FilesOf(l) /\ e \in FilesOf(l)
      BY <2>2, <2>3, <3>3
    <3>4. CASE d \notin FilesOf(l) /\ e \notin FilesOf(l)
      BY <2>2, <3>4 DEF FilesInv, BeginsOnce
    <3> QED BY <3>1, <3>2, <3>3, <3>4
  <2>6. \A b \in Begins : Exempt(b) => Exempt(b)'
    BY <1>0, <2>1 DEF Exempt
  <2>7. FilesMatch'
    BY <1>0, <2>6, FilesMatchIs DEF FilesInv
  <2> QED BY <1>0, <2>5, <2>7 DEF FilesInv
<1>2. ASSUME NEW l \in Loaders, Collect(l) PROVE FilesInv'
  <2>1. freedOpen' = freedOpen /\ begin' = [d \in DexFiles |-> IF d \in FilesOf(l) THEN 0 ELSE begin[d]]
    BY <1>2 DEF Collect
  <2> QED BY <1>0, <2>1, NothingWritten
<1>3. ASSUME NEW l \in Loaders, NEW i \in DOMAIN Elements[l], CloseDexFile(l, i) PROVE FilesInv'
  <2>1. PICK freed \in SUBSET CookieFiles(l, i) :
          /\ freedOpen' = freedOpen \union freed
          /\ begin' = [d \in DexFiles |-> IF d \in freed THEN 0 ELSE begin[d]]
    BY <1>3 DEF CloseDexFile
  <2> QED BY <1>0, <2>1, NothingWritten
<1>4. ASSUME NEW m \in Methods, Decode(m) PROVE FilesInv'
  BY <1>0, <1>4, NothingWritten DEF Decode
<1> QED BY <1>1, <1>2, <1>3, <1>4 DEF App

\* A write to the files of one dex file.
LEMMA FilesWritten ==
  ASSUME FilesInv, files' \in [Begins -> Seq(Units)], UNCHANGED <<begin, freedOpen>>,
         \A b \in Begins : Exempt(b)' \/ Whole(files'[b], registered'[b])
  PROVE  FilesInv'
<1>1. FilesMatch'
  BY FilesMatchIs
<1>2. BeginsOnce'
  BY DEF FilesInv, BeginsOnce
<1> QED BY <1>1, <1>2 DEF FilesInv

LEMMA FilesInDump ==
  ASSUME FilesInv, ToolsInv, NEW d, cookie # <<>>, d = Head(cookie), d # Null, begin[d] # 0,
         WriteDex(d), UNCHANGED <<begin, freedOpen>>
  PROVE  FilesInv'
<1>1. d \in DexFiles
  <2>1. d \in HeldFiles \union {Null}
    BY DEF ToolsInv, DumpOK
  <2> QED BY <2>1, FilesAreDexFiles DEF HeldFiles, HeldLoaders
<1>2. PICK b \in Begins : b = begin[d]
  BY <1>1 DEF ToolsInv, LoadersOK
<1>3. registered' = [registered EXCEPT ![b] = IF registered[b] = Nothing THEN d ELSE registered[b]]
  BY <1>2 DEF WriteDex
<1>4. files[b] \in Seq(Units) /\ registered \in [Begins -> HeldFiles \union {Nothing}]
  BY DEF FilesInv, ToolsInv, DumpOK
<1>5. ASSUME NEW e \in Begins, e # b, files'[e] = files[e], e \in torn => e \in torn'
      PROVE  Exempt(e)' \/ Whole(files'[e], registered'[e])
  <2>1. registered'[e] = registered[e]
    BY <1>3, <1>4, <1>5
  <2>2. Exempt(e) => Exempt(e)'
    BY <1>5, <2>1 DEF Exempt
  <2>3. Exempt(e) \/ Whole(files[e], registered[e])
    BY FilesMatchIs DEF FilesInv
  <2> QED BY <1>5, <2>1, <2>2, <2>3
<1>6. CASE /\ files' = [files EXCEPT ![b] = WriteAt(files[b], 0, Memory(d))]
           /\ torn' = torn \ {b}
  <2>1. PICK w \in Seq(Units) : w = WriteAt(files[b], 0, Memory(d)) /\ Whole(w, d)
    BY <1>1, <1>4, DumpedIsWhole
  <2>2. files' = [files EXCEPT ![b] = w]
    BY <1>6, <2>1
  <2>3. files' \in [Begins -> Seq(Units)] /\ files'[b] = w /\ \A e \in Begins : e # b => files'[e] = files[e]
    BY <2>2 DEF FilesInv
  <2>4. Exempt(b)' \/ Whole(files'[b], registered'[b])
    <3>1. CASE registered[b] = Nothing
      BY <1>3, <1>4, <2>1, <2>3, <3>1
    <3>2. CASE registered[b] # Nothing
      <4>1. registered'[b] = registered[b] /\ registered[b] \in HeldFiles
        BY <1>3, <1>4, <3>2
      <4>2. registered[b] \in DexFiles
        BY <4>1, FilesAreDexFiles DEF HeldFiles, HeldLoaders
      <4>3. CASE registered[b] \in freedOpen
        BY <4>1, <4>3 DEF Exempt
      <4>4. CASE registered[b] \notin freedOpen
        <5>1. begin[registered[b]] = b
          BY <3>2, <4>4 DEF ToolsInv, RegisteredAreLive
        <5>2. registered[b] = d
          BY <1>1, <1>2, <4>2, <5>1 DEF FilesInv, BeginsOnce
        <5> QED BY <2>1, <2>3, <4>1, <5>2
      <4> QED BY <4>3, <4>4
    <3> QED BY <3>1, <3>2
  <2> QED BY <1>5, <1>6, <2>3, <2>4, FilesWritten
<1>7. CASE /\ files' = [files EXCEPT ![b] = WriteAt(files[b], 0, <<Head(Memory(d))>>)]
           /\ torn' = torn \union {b}
  <2>1. PICK unit \in Units : unit = Head(Memory(d))
    <3>1. Memory(d) \in Seq(Units) /\ Len(Memory(d)) \in Nat \ {0}
      BY <1>1, MemoryIs, LayoutIs
    <3> HIDE DEF Memory
    <3>2. Memory(d) # <<>> => Head(Memory(d)) \in Units
      BY <3>1
    <3>3. Memory(d) # <<>>
      BY <3>1
    <3> QED BY <3>2, <3>3
  <2>2. PICK w \in Seq(Units) : w = WriteAt(files[b], 0, <<unit>>)
    <3>1. <<unit>> \in Seq(Units) /\ 0 \in Nat /\ Zeros \in Units
      BY <1>1, MemoryIs
    <3> QED BY <1>4, <3>1, WriteAtIs
  <2>3. files' = [files EXCEPT ![b] = w]
    BY <1>7, <2>1, <2>2
  <2>4. files' \in [Begins -> Seq(Units)] /\ \A e \in Begins : e # b => files'[e] = files[e]
    BY <2>3 DEF FilesInv
  <2>5. Exempt(b)'
    BY <1>7 DEF Exempt
  <2> QED BY <1>5, <1>7, <2>4, <2>5, FilesWritten
<1> QED BY <1>2, <1>6, <1>7 DEF WriteDex

LEMMA FilesInRepair ==
  ASSUME FilesInv, ToolsInv, NEW m \in Methods, FixCodeItem(m), UNCHANGED <<begin, freedOpen, registered>>
  PROVE  FilesInv'
<1>1. \A b \in Begins : Exempt(b) \/ Whole(files[b], registered[b])
  BY FilesMatchIs DEF FilesInv
<1>2. CASE UNCHANGED <<files, torn>>
  BY <1>2, NothingWritten
<1>3. CASE /\ UNCHANGED torn
           /\ files' = [b \in Begins |-> IF b \in Containing(m)
                          THEN WriteAt(files[b], OffsetOf(m), FoundCodeItem(m)) ELSE files[b]]
  <2>1. DexOf[m] \in DexFiles
    BY RuntimeAssumption
  <2>2. ASSUME NEW b \in Begins
        PROVE  files'[b] \in Seq(Units) /\ (Exempt(b)' \/ Whole(files'[b], registered'[b]))
    <3>0. files[b] \in Seq(Units)
      BY DEF FilesInv
    <3>1. Exempt(b) => Exempt(b)'
      BY <1>3 DEF Exempt
    <3>2. CASE b \in Containing(m)
      <4>1. registered[b] = DexOf[m] /\ files'[b] = WriteAt(files[b], OffsetOf(m), FoundCodeItem(m))
        BY <1>3, <3>2 DEF Containing
      <4>2. /\ files'[b] \in Seq(Units)
            /\ Whole(files[b], DexOf[m]) => Whole(files'[b], DexOf[m])
        BY <2>1, <3>0, <4>1, RepairedIsWhole
      <4> QED BY <1>1, <3>1, <4>1, <4>2
    <3>3. CASE b \notin Containing(m)
      BY <1>1, <1>3, <3>0, <3>1, <3>3
    <3> QED BY <3>2, <3>3
  <2>3. files' = [b \in Begins |-> files'[b]]
    BY <1>3
  <2>4. files' \in [Begins -> Seq(Units)]
    BY <2>2, <2>3
  <2> QED BY <2>2, <2>4, FilesWritten
<1>4. CASE \E b \in Stale \union Containing(m) : torn' = torn \union {b} /\ UNCHANGED files
  <2>1. torn \subseteq torn' /\ UNCHANGED files
    BY <1>4
  <2>2. \A b \in Begins : Exempt(b) => Exempt(b)'
    BY <2>1 DEF Exempt
  <2>3. files' \in [Begins -> Seq(Units)]
    BY <2>1 DEF FilesInv
  <2> QED BY <1>1, <2>1, <2>2, <2>3, FilesWritten
<1> QED BY <1>2, <1>3, <1>4 DEF FixCodeItem

LEMMA FilesKeep == ToolsInv /\ FilesInv /\ [Next]_vars => FilesInv'
<1> SUFFICES ASSUME ToolsInv, FilesInv, [Next]_vars PROVE FilesInv'
  OBVIOUS
<1>0. UNCHANGED <<files, torn, registered, envVars>> => FilesInv'
  BY NothingWritten DEF envVars
<1>1. CASE UNCHANGED vars
  BY <1>0, <1>1 DEF vars, dumpVars, runtimeVars
<1>2. CASE App /\ UNCHANGED <<dumpVars, jvmVars, starts>>
  BY <1>2, FilesInApp
<1>3. CASE JvmLib /\ UNCHANGED <<dumpVars, starts>>
  <2>1. UNCHANGED envVars
    BY <1>3 DEF JvmLib, LoadSo, FindClass, NativeLoadJvmTI, DumpContext, DumpContextElement, CopyDexFiles,
       WriteArray, EndDumpContext, SystemLoad, VisitInVain, LoadJvmTI
  <2> QED BY <1>0, <1>3, <2>1 DEF dumpVars
<1>4. CASE Restart
  <2>1. begin' = [d \in DexFiles |-> 0] /\ registered' = [b \in Begins |-> Nothing] /\ UNCHANGED files
    BY <1>4 DEF Restart
  <2>2. BeginsOnce' /\ FilesMatch' /\ files' \in [Begins -> Seq(Units)]
    BY <2>1 DEF FilesInv, BeginsOnce, FilesMatch
  <2> QED BY <2>2 DEF FilesInv
<1>5. CASE DumpLib /\ UNCHANGED <<jvmVars, starts>>
  <2>1. CASE DumpMethodOfLoadEntry \/ AutodumpDex \/ JNI_OnLoad \/ SetContext \/ StartDumpdex
             \/ DumpElement \/ EndDumpdex
    BY <1>0, <2>1 DEF DumpMethodOfLoadEntry, AutodumpDex, JNI_OnLoad, SetContext, StartDumpdex, DumpElement,
       EndDumpdex, SystemLoad, VisitInVain, LoadJvmTI, runtimeVars, dumpVars
  <2>2. CASE DumpDexByCookie
    <3> DEFINE d == Head(cookie)
    <3>1. cookie # <<>> /\ DumpEntryUnlessNull(d) /\ UNCHANGED envVars
      BY <2>2 DEF DumpDexByCookie
    <3>2. CASE UNCHANGED <<files, torn, registered>>
      BY <1>0, <3>1, <3>2
    <3>3. CASE d # Null /\ begin[d] # 0 /\ WriteDex(d)
      BY <3>1, <3>3, FilesInDump DEF envVars
    <3> QED BY <3>1, <3>2, <3>3 DEF DumpEntryUnlessNull, DumpOne, Leaves
  <2>3. ASSUME NEW m \in Methods, DumpMethod(m) PROVE FilesInv'
    <3>1. UNCHANGED <<envVars, registered>>
      BY <2>3 DEF DumpMethod
    <3>2. CASE UNCHANGED <<files, torn>>
      BY <1>0, <3>1, <3>2
    <3>3. CASE FixCodeItem(m)
      BY <3>1, <3>3, FilesInRepair DEF envVars
    <3> QED BY <2>3, <3>2, <3>3 DEF DumpMethod
  <2> QED BY <1>5, <2>1, <2>2, <2>3 DEF DumpLib
<1> QED BY <1>1, <1>2, <1>3, <1>4, <1>5 DEF Next

\* A file that has been written whole holds the dex file that is registered for it,
\* whatever has been dumped, repaired, unloaded or started again since (dumpdex.cpp).
THEOREM DumpsMatch == Spec => []FilesMatch
<1>1. FilesInv => FilesMatch
  BY DEF FilesInv
<1>2. Init => ToolsInv /\ FilesInv
  BY ToolsInitially, FilesInitially
<1>3. ToolsInv /\ FilesInv /\ [Next]_vars => (ToolsInv /\ FilesInv)'
  BY ToolsKeep, FilesKeep
<1> QED BY <1>1, <1>2, <1>3, PTL DEF Spec

-----------------------------------------------------------------------------
(* The text of the gdb stub's packets                                         *)
LEMMA DigitsAre ==
  ASSUME NEW d \in 0..15
  PROVE  /\ hex(hexchars(d)) = d
         /\ hexchars(d) \in Octets /\ ~(hexchars(d) \in {Hash, Dollar, Star, Brace})
<1>1. CASE d < 10
  BY <1>1 DEF hex, hexchars, Octets, Hash, Dollar, Star, Brace
<1>2. CASE ~(d < 10)
  BY <1>2 DEF hex, hexchars, Octets, Hash, Dollar, Star, Brace
<1> QED BY <1>1, <1>2

LEMMA Halves ==
  ASSUME NEW i \in Nat, i >= 1
  PROVE  /\ (2 * i - 1) % 2 = 1 /\ ((2 * i - 1) + 1) \div 2 = i
         /\ (2 * i) % 2 = 0 /\ (2 * i) \div 2 = i
OBVIOUS

LEMMA Nibbles ==
  ASSUME NEW b \in Octets
  PROVE  /\ b \div 16 \in 0..15 /\ b % 16 \in 0..15
         /\ (16 * (b \div 16) + (b % 16)) % 256 = b
         /\ 16 * (b \div 16) + (b % 16) = b
BY DEF Octets

LEMMA DigitsOf ==
  ASSUME NEW mem \in Seq(Octets), NEW count \in Nat, count <= Len(mem), NEW i \in 1..count
  PROVE  /\ 2 * i - 1 \in 1..(2 * count) /\ 2 * i \in 1..(2 * count)
         /\ mem2hex(mem, count)[2 * i - 1] = hexchars(mem[i] \div 16)
         /\ mem2hex(mem, count)[2 * i] = hexchars(mem[i] % 16)
         /\ mem[i] \in Octets
<1>1. 2 * i - 1 \in 1..(2 * count) /\ 2 * i \in 1..(2 * count) /\ i \in Nat /\ i >= 1 /\ i \in 1..Len(mem)
  OBVIOUS
<1>2. /\ (2 * i - 1) % 2 = 1 /\ ((2 * i - 1) + 1) \div 2 = i
      /\ (2 * i) % 2 = 0 /\ (2 * i) \div 2 = i
  BY <1>1, Halves
<1>3. \A k \in 1..(2 * count) :
        mem2hex(mem, count)[k] = IF k % 2 = 1 THEN hexchars(mem[(k + 1) \div 2] \div 16)
                                 ELSE hexchars(mem[k \div 2] % 16)
  BY DEF mem2hex
<1>4. mem2hex(mem, count)[2 * i - 1] = hexchars(mem[i] \div 16)
  BY <1>1, <1>2, <1>3
<1>5. mem2hex(mem, count)[2 * i] = hexchars(mem[i] % 16)
  <2>1. ~((2 * i) % 2 = 1)
    BY <1>2
  <2> QED BY <1>1, <1>2, <1>3, <2>1
<1> QED BY <1>1, <1>4, <1>5

\* Bytes survive the way to digits and back (utils.c:3-37), and the digits are none
\* of the bytes that frame a packet.
THEOREM HexReadsBack ==
  ASSUME NEW mem \in Seq(Octets), NEW count \in Nat, count <= Len(mem)
  PROVE  /\ hex2mem(mem2hex(mem, count), count) = SubSeq(mem, 1, count)
         /\ mem2hex(mem, count) \in Seq(Octets \ {Hash, Dollar, Star, Brace})
         /\ Len(mem2hex(mem, count)) = 2 * count
<1> DEFINE text == mem2hex(mem, count)
<1>1. ASSUME NEW i \in 1..count
      PROVE  (16 * hex(text[2 * i - 1]) + hex(text[2 * i])) % 256 = mem[i]
  <2>1. /\ text[2 * i - 1] = hexchars(mem[i] \div 16)
        /\ text[2 * i] = hexchars(mem[i] % 16)
        /\ mem[i] \in Octets
    BY DigitsOf
  <2>2. /\ mem[i] \div 16 \in 0..15 /\ mem[i] % 16 \in 0..15
        /\ (16 * (mem[i] \div 16) + (mem[i] % 16)) % 256 = mem[i]
    BY <2>1, Nibbles
  <2>3. hex(hexchars(mem[i] \div 16)) = mem[i] \div 16 /\ hex(hexchars(mem[i] % 16)) = mem[i] % 16
    BY <2>2, DigitsAre
  <2> HIDE DEF text
  <2> QED BY <2>1, <2>2, <2>3
<1>2. hex2mem(text, count) = [i \in 1..count |-> mem[i]]
  <2> HIDE DEF text
  <2> QED BY <1>1 DEF hex2mem
<1>3. SubSeq(mem, 1, count) = [i \in 1..count |-> mem[i]]
  OBVIOUS
<1>4. ASSUME NEW k \in 1..(2 * count)
      PROVE  text[k] \in Octets \ {Hash, Dollar, Star, Brace}
  <2>1. PICK i \in 1..count : k = 2 * i - 1 \/ k = 2 * i
    <3>1. CASE k % 2 = 1
      <4>1. (k + 1) \div 2 \in 1..count /\ k = 2 * ((k + 1) \div 2) - 1
        BY <3>1
      <4> QED BY <4>1
    <3>2. CASE k % 2 # 1
      <4>1. k \div 2 \in 1..count /\ k = 2 * (k \div 2)
        BY <3>2
      <4> QED BY <4>1
    <3> QED BY <3>1, <3>2
  <2>2. /\ text[2 * i - 1] = hexchars(mem[i] \div 16)
        /\ text[2 * i] = hexchars(mem[i] % 16)
        /\ mem[i] \in Octets
    BY DigitsOf
  <2>3. mem[i] \div 16 \in 0..15 /\ mem[i] % 16 \in 0..15
    BY <2>2, Nibbles
  <2>4. \A d \in 0..15 : hexchars(d) \in Octets \ {Hash, Dollar, Star, Brace}
    BY DigitsAre
  <2> HIDE DEF text
  <2> QED BY <2>1, <2>2, <2>3, <2>4
<1>5. text = [k \in 1..(2 * count) |-> text[k]] /\ 2 * count \in Nat
  BY DEF mem2hex
<1>6. text \in Seq(Octets \ {Hash, Dollar, Star, Brace}) /\ Len(text) = 2 * count
  <2> HIDE DEF text
  <2> DEFINE n == 2 * count
  <2>1. n \in Nat /\ \A k \in 1..n : text[k] \in Octets \ {Hash, Dollar, Star, Brace}
    BY <1>4, <1>5
  <2>2. text = [k \in 1..n |-> text[k]]
    BY <1>5
  <2> HIDE DEF n
  <2>3. text \in Seq(Octets \ {Hash, Dollar, Star, Brace}) /\ Len(text) = n
    BY <2>1, <2>2
  <2> QED BY <2>3 DEF n
<1> QED BY <1>2, <1>3, <1>6

\* The function that unescape is defined with.
Turns(turns, msg, n) ==
  turns = [k \in 0..n |-> IF k = 0 THEN [read |-> 0, written |-> <<>>] ELSE Turn(msg, turns[k - 1])]

LEMMA TurnsExist ==
  ASSUME NEW msg, NEW n \in Nat
  PROVE  \E turns : Turns(turns, msg, n)
<1> DEFINE Start == [read |-> 0, written |-> <<>>]
           S == {m \in Nat : \E turns : Turns(turns, msg, m)}
<1>1. 0 \in S
  <2> DEFINE turns == [k \in 0..0 |-> Start]
  <2>1. turns = [k \in 0..0 |-> IF k = 0 THEN Start ELSE Turn(msg, turns[k - 1])]
    OBVIOUS
  <2>2. Turns(turns, msg, 0)
    BY <2>1 DEF Turns
  <2> QED BY <2>2
<1>2. ASSUME NEW m \in Nat, m \in S PROVE m + 1 \in S
  <2>1. PICK turns : Turns(turns, msg, m)
    BY <1>2
  <2> DEFINE to == [k \in 0..(m + 1) |-> IF k <= m THEN turns[k] ELSE Turn(msg, turns[k - 1])]
  <2>2. \A k \in 0..m : turns[k] = IF k = 0 THEN Start ELSE Turn(msg, turns[k - 1])
    BY <2>1 DEF Turns
  <2> HIDE DEF Start
  <2>3. ASSUME NEW k \in 0..(m + 1) PROVE to[k] = IF k = 0 THEN Start ELSE Turn(msg, to[k - 1])
    <3>1. CASE k = 0
      BY <2>2, <3>1
    <3>2. CASE k # 0
      <4>1. k - 1 \in 0..(m + 1) /\ k - 1 <= m
        BY <3>2
      <4>2. to[k - 1] = turns[k - 1]
        BY <4>1
      <4>3. to[k] = Turn(msg, turns[k - 1])
        <5>1. CASE k <= m
          <6>1. k \in 0..m
            BY <5>1
          <6>2. turns[k] = Turn(msg, turns[k - 1])
            BY <2>2, <3>2, <6>1
          <6> QED BY <5>1, <6>2
        <5>2. CASE ~(k <= m)
          BY <5>2
        <5> QED BY <5>1, <5>2
      <4> QED BY <3>2, <4>2, <4>3
    <3> QED BY <3>1, <3>2
  <2>4. DOMAIN to = 0..(m + 1) /\ to = [k \in 0..(m + 1) |-> to[k]]
    OBVIOUS
  <2> HIDE DEF to
  <2>5. to = [k \in 0..(m + 1) |-> IF k = 0 THEN Start ELSE Turn(msg, to[k - 1])]
    BY <2>3, <2>4
  <2>6. Turns(to, msg, m + 1)
    BY <2>5 DEF Turns, Start
  <2> QED BY <2>6
<1>3. Nat \subseteq S
  <2> HIDE DEF S
  <2> QED BY <1>1, <1>2, Induction
<1> QED BY <1>3

LEMMA UnescapeTurns ==
  ASSUME NEW msg, Len(msg) \in Nat
  PROVE  \E turns : /\ unescape(msg) = turns[Len(msg)].written
                 /\ turns[0] = [read |-> 0, written |-> <<>>]
                 /\ \A k \in 1..Len(msg) : turns[k] = Turn(msg, turns[k - 1])
<1> DEFINE turns == CHOOSE g : Turns(g, msg, Len(msg))
<1>1. unescape(msg) = turns[Len(msg)].written
  BY DEF unescape, Turns
<1>2. Turns(turns, msg, Len(msg))
  BY TurnsExist
<1> HIDE DEF turns
<1>3. \A k \in 0..Len(msg) : turns[k] = IF k = 0 THEN [read |-> 0, written |-> <<>>]
                                     ELSE Turn(msg, turns[k - 1])
  BY <1>2 DEF Turns
<1>4. 0 \in 0..Len(msg) /\ \A k \in 1..Len(msg) : k \in 0..Len(msg) /\ k # 0
  OBVIOUS
<1>5. /\ turns[0] = [read |-> 0, written |-> <<>>]
      /\ \A k \in 1..Len(msg) : turns[k] = Turn(msg, turns[k - 1])
  BY <1>3, <1>4
<1> QED BY <1>1, <1>5

LEMMA EscapedIs ==
  ASSUME NEW b \in Octets
  PROVE  /\ Escaped(b) \in Seq(Octets \ {Hash, Dollar, Star})
         /\ \/ Len(Escaped(b)) = 1 /\ Escaped(b)[1] = b /\ b # Brace
            \/ Len(Escaped(b)) = 2 /\ Escaped(b)[1] = Brace /\ Flip(Escaped(b)[2]) = b
<1>1. CASE b \in {Hash, Dollar, Brace, Star}
  <2>1. b \in {35, 36, 42, 125}
    BY <1>1 DEF Hash, Dollar, Brace, Star
  <2>2. /\ Flip(b) \in {3, 4, 10, 93}
        /\ Flip(Flip(b)) = b
    <3>1. Flip(35) = 3 /\ Flip(36) = 4 /\ Flip(42) = 10 /\ Flip(125) = 93
      BY DEF Flip
    <3>2. Flip(3) = 35 /\ Flip(4) = 36 /\ Flip(10) = 42 /\ Flip(93) = 125
      BY DEF Flip
    <3> QED BY <2>1, <3>1, <3>2
  <2>3. Escaped(b) = <<Brace, Flip(b)>>
    BY <1>1 DEF Escaped
  <2>4. /\ Brace \in Octets \ {Hash, Dollar, Star}
        /\ Flip(b) \in Octets \ {Hash, Dollar, Star}
    BY <2>2 DEF Octets, Hash, Dollar, Brace, Star
  <2>5. /\ Len(<<Brace, Flip(b)>>) = 2 /\ <<Brace, Flip(b)>>[1] = Brace
        /\ <<Brace, Flip(b)>>[2] = Flip(b)
        /\ <<Brace, Flip(b)>> \in Seq(Octets \ {Hash, Dollar, Star})
    BY <2>4
  <2> QED BY <2>2, <2>3, <2>5
<1>2. CASE ~(b \in {Hash, Dollar, Brace, Star})
  <2>1. Escaped(b) = <<b>> /\ b # Brace /\ b \in Octets \ {Hash, Dollar, Star}
    BY <1>2 DEF Escaped
  <2>2. Len(<<b>>) = 1 /\ <<b>>[1] = b /\ <<b>> \in Seq(Octets \ {Hash, Dollar, Star})
    BY <2>1
  <2> QED BY <2>1, <2>2
<1> QED BY <1>1, <1>2

\* One turn reads what one byte was escaped as.
LEMMA TurnReads ==
  ASSUME NEW msg, NEW x \in Octets, NEW s, Len(msg) \in Nat, s.read \in Nat,
         \A k \in 1..Len(Escaped(x)) : s.read + k \in 1..Len(msg) /\ msg[s.read + k] = Escaped(x)[k]
  PROVE  /\ Turn(msg, s).read = s.read + Len(Escaped(x))
         /\ Turn(msg, s).written = Append(s.written, x)
<1> DEFINE e == Escaped(x)
           r == s.read
<1>1. \/ Len(e) = 1 /\ e[1] = x /\ x # Brace
      \/ Len(e) = 2 /\ e[1] = Brace /\ Flip(e[2]) = x
  BY EscapedIs
<1>2. 1 \in 1..Len(e)
  BY <1>1
<1>3. ~(r >= Len(msg)) /\ msg[r + 1] = e[1]
  BY <1>2
<1>4. CASE Len(e) = 1 /\ e[1] = x /\ x # Brace
  <2>1. Turn(msg, s) = [read |-> r + 1, written |-> Append(s.written, x)]
    BY <1>3, <1>4 DEF Turn
  <2> QED BY <1>4, <2>1
<1>5. CASE Len(e) = 2 /\ e[1] = Brace /\ Flip(e[2]) = x
  <2>1. 2 \in 1..Len(e)
    BY <1>5
  <2>2. msg[r + 2] = e[2]
    BY <2>1
  <2>3. Turn(msg, s) = [read |-> r + 2, written |-> Append(s.written, x)]
    BY <1>3, <1>5, <2>2 DEF Turn
  <2> QED BY <1>5, <2>3
<1> QED BY <1>1, <1>4, <1>5

LEMMA EscapeParts ==
  ASSUME NEW data \in Seq(Octets)
  PROVE  /\ Escape(data) \in Seq(Octets \ {Hash, Dollar, Star})
         /\ \E start : /\ start[1] = 0 /\ start[Len(data) + 1] = Len(Escape(data))
                       /\ \A i \in 1..Len(data) :
                            /\ start[i] \in Nat /\ start[i] >= i - 1
                            /\ start[i + 1] = start[i] + Len(Escaped(data[i]))
                            /\ \A k \in 1..Len(Escaped(data[i])) :
                                 /\ start[i] + k \in 1..Len(Escape(data))
                                 /\ Escape(data)[start[i] + k] = Escaped(data[i])[k]
                       /\ Len(data) <= Len(Escape(data))
<1> DEFINE T == Octets \ {Hash, Dollar, Star}
           ss == [i \in 1..Len(data) |-> Escaped(data[i])]
           msg == Escape(data)
<1>1. PICK n \in Nat : n = Len(data)
  OBVIOUS
<1>2. \A i \in 1..n : data[i] \in Octets
  BY <1>1
<1>3. ASSUME NEW i \in 1..n
      PROVE  ss[i] = Escaped(data[i]) /\ ss[i] \in Seq(T) /\ Len(ss[i]) \in Nat /\ Len(ss[i]) >= 1
  <2>1. PICK e : e = Escaped(data[i])
    OBVIOUS
  <2>2. ss[i] = e
    BY <1>1, <2>1
  <2>3. e \in Seq(T)
    BY <1>2, <2>1, EscapedIs
  <2>4. Len(e) = 1 \/ Len(e) = 2
    BY <1>2, <2>1, EscapedIs
  <2>5. Len(e) \in Nat /\ Len(e) >= 1
    BY <2>4
  <2> HIDE DEF ss, T
  <2> QED BY <2>1, <2>2, <2>3, <2>5, Zenon
<1>4. ss \in Seq(Seq(T)) /\ Len(ss) = n
  <2>1. \A i \in 1..n : Escaped(data[i]) \in Seq(T)
    BY <1>2, EscapedIs
  <2>2. ss = [i \in 1..n |-> Escaped(data[i])]
    BY <1>1
  <2> HIDE DEF ss, T
  <2> QED BY <2>1, <2>2
<1>5. msg = FlattenSeq(ss)
  BY DEF Escape
<1> HIDE DEF ss, msg, T
<1>6. msg \in Seq(T) /\ \E start : Parts(ss, start, msg)
  BY <1>4, <1>5, FlattenIs
<1>7. PICK start : Parts(ss, start, msg)
  BY <1>6
<1>8. /\ start \in [1..(n + 1) -> Nat] /\ start[1] = 0
      /\ \A j \in 1..n : start[j + 1] = start[j] + Len(ss[j])
      /\ Len(msg) = start[n + 1]
      /\ \A j \in 1..n : \A k \in 1..Len(ss[j]) :
           start[j] + k \in 1..Len(msg) /\ msg[start[j] + k] = ss[j][k]
  BY <1>4, <1>7 DEF Parts
<1> DEFINE S == {j \in Nat : j <= n => start[j + 1] >= j}
<1>9. 0 \in S
  BY <1>8
<1>10. ASSUME NEW j \in Nat, j \in S PROVE j + 1 \in S
  <2> SUFFICES ASSUME j + 1 <= n PROVE start[(j + 1) + 1] >= j + 1
    OBVIOUS
  <2>1. PICK i \in 1..n : i = j + 1
    OBVIOUS
  <2>2. start[i] \in Nat /\ start[i] >= j
    BY <1>8, <1>10, <2>1
  <2>3. start[i + 1] = start[i] + Len(ss[i]) /\ Len(ss[i]) \in Nat /\ Len(ss[i]) >= 1
    BY <1>3, <1>8
  <2> QED BY <2>1, <2>2, <2>3
<1>11. Nat \subseteq S
  <2> HIDE DEF S
  <2> QED BY <1>9, <1>10, Induction
<1>12. \A i \in 1..n : start[i] \in Nat /\ start[i] >= i - 1
  <2> SUFFICES ASSUME NEW i \in 1..n PROVE start[i] \in Nat /\ start[i] >= i - 1
    OBVIOUS
  <2>1. i - 1 \in Nat /\ i - 1 <= n /\ (i - 1) + 1 = i /\ i \in 1..(n + 1)
    OBVIOUS
  <2>2. i - 1 \in S
    BY <1>11, <2>1
  <2> QED BY <1>8, <2>1, <2>2
<1>13. n <= Len(msg)
  <2>1. n \in S
    BY <1>11
  <2> QED BY <1>8, <2>1
<1>14. \A i \in 1..n :
         /\ start[i] \in Nat /\ start[i] >= i - 1
         /\ start[i + 1] = start[i] + Len(Escaped(data[i]))
         /\ \A k \in 1..Len(Escaped(data[i])) :
              /\ start[i] + k \in 1..Len(msg)
              /\ msg[start[i] + k] = Escaped(data[i])[k]
  BY <1>3, <1>8, <1>12
<1>15. msg \in Seq(Octets \ {Hash, Dollar, Star})
  BY <1>6 DEF T
<1> QED BY <1>1, <1>8, <1>13, <1>14, <1>15 DEF msg

\* Any bytes survive the escapes (packets.c:155-185) and their reading
\* (utils.c:39-53), and what is escaped contains neither a start nor an end of a
\* packet, nor the mark of a repetition.
THEOREM EscapesReadBack ==
  ASSUME NEW data \in Seq(Octets)
  PROVE  /\ unescape(Escape(data)) = data
         /\ Escape(data) \in Seq(Octets \ {Hash, Dollar, Star})
<1> DEFINE msg == Escape(data)
<1>1. PICK n \in Nat : n = Len(data)
  OBVIOUS
<1>2. msg \in Seq(Octets \ {Hash, Dollar, Star})
  BY EscapeParts
<1>3. PICK start : /\ start[1] = 0 /\ start[Len(data) + 1] = Len(Escape(data))
                   /\ \A i \in 1..Len(data) :
                        /\ start[i] \in Nat /\ start[i] >= i - 1
                        /\ start[i + 1] = start[i] + Len(Escaped(data[i]))
                        /\ \A k \in 1..Len(Escaped(data[i])) :
                             /\ start[i] + k \in 1..Len(Escape(data))
                             /\ Escape(data)[start[i] + k] = Escaped(data[i])[k]
                   /\ Len(data) <= Len(Escape(data))
  BY EscapeParts
<1>4. PICK l \in Nat : l = Len(msg)
  BY <1>2
<1>4a. /\ start[1] = 0 /\ start[n + 1] = l /\ n <= l
       /\ \A i \in 1..n :
            /\ start[i] \in Nat /\ start[i] >= i - 1
            /\ start[i + 1] = start[i] + Len(Escaped(data[i]))
            /\ \A k \in 1..Len(Escaped(data[i])) :
                 /\ start[i] + k \in 1..Len(msg)
                 /\ msg[start[i] + k] = Escaped(data[i])[k]
  BY <1>1, <1>3, <1>4
<1> HIDE DEF msg
<1>5. PICK turns : /\ unescape(msg) = turns[l].written
                /\ turns[0] = [read |-> 0, written |-> <<>>]
                /\ \A k \in 1..l : turns[k] = Turn(msg, turns[k - 1])
  BY <1>4, UnescapeTurns
<1> DEFINE Reached(k) == turns[k].read = start[k + 1] /\ turns[k].written = SubSeq(data, 1, k)
           S == {k \in Nat : k <= n => Reached(k)}
<1>6. 0 \in S
  <2>1. SubSeq(data, 1, 0) = <<>> /\ start[0 + 1] = 0
    BY <1>4a
  <2>2. Reached(0)
    BY <1>5, <2>1
  <2> QED BY <2>2
<1>7. ASSUME NEW k \in Nat, k \in S PROVE k + 1 \in S
  <2> SUFFICES ASSUME k + 1 <= n PROVE Reached(k + 1)
    OBVIOUS
  <2>1. PICK i \in 1..n : i = k + 1 /\ i - 1 = k /\ i \in 1..l /\ i \in 1..Len(data)
    BY <1>1, <1>4a, <1>4
  <2>2. turns[k].read = start[i] /\ turns[k].written = SubSeq(data, 1, i - 1)
    BY <1>7, <2>1
  <2>3. turns[i] = Turn(msg, turns[k])
    BY <1>5, <2>1
  <2>4. /\ start[i] \in Nat
        /\ start[i + 1] = start[i] + Len(Escaped(data[i]))
        /\ \A j \in 1..Len(Escaped(data[i])) :
             start[i] + j \in 1..Len(msg) /\ msg[start[i] + j] = Escaped(data[i])[j]
    BY <1>4a
  <2>5. PICK e : e = Escaped(data[i])
    OBVIOUS
  <2>6. turns[i].read = start[i] + Len(e) /\ turns[i].written = SubSeq(data, 1, i)
    <3>1. PICK r \in Nat : r = start[i]
      BY <2>4
    <3>2. PICK x \in Octets : x = data[i] /\ e = Escaped(x)
      BY <2>1, <2>5
    <3>3. PICK s : s = turns[k] /\ s.read = r
      BY <2>2, <3>1
    <3>4. /\ Len(msg) \in Nat /\ s.read \in Nat
          /\ \A j \in 1..Len(Escaped(x)) :
               s.read + j \in 1..Len(msg) /\ msg[s.read + j] = Escaped(x)[j]
      BY <1>4, <2>4, <2>5, <3>1, <3>2, <3>3
    <3>5. /\ Turn(msg, s).read = s.read + Len(Escaped(x))
          /\ Turn(msg, s).written = Append(s.written, x)
      BY <3>4, TurnReads
    <3>6. Append(SubSeq(data, 1, i - 1), data[i]) = SubSeq(data, 1, i)
      BY <2>1
    <3> QED BY <2>2, <2>3, <3>1, <3>2, <3>3, <3>5, <3>6
  <2> QED BY <2>1, <2>2, <2>3, <2>4, <2>5, <2>6
<1>8. Nat \subseteq S
  <2> HIDE DEF S
  <2> QED BY <1>6, <1>7, Induction
<1>9. turns[n].read = l /\ turns[n].written = data
  <2>1. n \in S
    BY <1>8
  <2>2. turns[n].read = start[n + 1] /\ turns[n].written = SubSeq(data, 1, n)
    BY <2>1
  <2>3. SubSeq(data, 1, n) = data
    BY <1>1
  <2> QED BY <1>4a, <2>2, <2>3
<1> DEFINE U == {j \in Nat : n + j <= l => turns[n + j] = turns[n]}
<1>10. 0 \in U
  <2>1. n + 0 = n
    OBVIOUS
  <2> QED BY <2>1
<1>11. ASSUME NEW j \in Nat, j \in U PROVE j + 1 \in U
  <2> SUFFICES ASSUME n + (j + 1) <= l PROVE turns[n + (j + 1)] = turns[n]
    OBVIOUS
  <2>1. PICK i \in 1..l : i = n + (j + 1) /\ i - 1 = n + j
    OBVIOUS
  <2>2. turns[i] = Turn(msg, turns[n])
    BY <1>5, <1>11, <2>1
  <2>3. turns[n].read >= Len(msg)
    BY <1>4, <1>9
  <2> QED BY <2>1, <2>2, <2>3 DEF Turn
<1>12. Nat \subseteq U
  <2> HIDE DEF U
  <2> QED BY <1>10, <1>11, Induction
<1>13. turns[l] = turns[n]
  <2>1. l - n \in Nat /\ n + (l - n) = l
    BY <1>4a, <1>4
  <2>2. l - n \in U
    BY <1>12, <2>1
  <2>3. n + (l - n) <= l => turns[n + (l - n)] = turns[n]
    BY <2>2
  <2> QED BY <2>1, <2>3
<1>14. unescape(msg) = data
  BY <1>5, <1>9, <1>13
<1> QED BY <1>2, <1>14 DEF msg

\* The function that Checksum is defined with.
Sums(sum, data, n) == sum = [i \in 0..n |-> IF i = 0 THEN 0 ELSE (sum[i - 1] + data[i]) % 256]

LEMMA SumsExist ==
  ASSUME NEW data, NEW n \in Nat
  PROVE  \E sum : Sums(sum, data, n)
<1> DEFINE S == {m \in Nat : \E sum : Sums(sum, data, m)}
<1>1. 0 \in S
  <2> DEFINE sum == [i \in 0..0 |-> 0]
  <2>1. sum = [i \in 0..0 |-> IF i = 0 THEN 0 ELSE (sum[i - 1] + data[i]) % 256]
    OBVIOUS
  <2>2. Sums(sum, data, 0)
    BY <2>1 DEF Sums
  <2> QED BY <2>2
<1>2. ASSUME NEW m \in Nat, m \in S PROVE m + 1 \in S
  <2>1. PICK sum : Sums(sum, data, m)
    BY <1>2
  <2> DEFINE to == [i \in 0..(m + 1) |-> IF i <= m THEN sum[i] ELSE (sum[i - 1] + data[i]) % 256]
  <2>2. \A i \in 0..m : sum[i] = IF i = 0 THEN 0 ELSE (sum[i - 1] + data[i]) % 256
    BY <2>1 DEF Sums
  <2>3. ASSUME NEW i \in 0..(m + 1) PROVE to[i] = IF i = 0 THEN 0 ELSE (to[i - 1] + data[i]) % 256
    <3>1. CASE i = 0
      BY <2>2, <3>1
    <3>2. CASE i # 0
      <4>1. i - 1 \in 0..(m + 1) /\ i - 1 <= m
        BY <3>2
      <4>2. to[i - 1] = sum[i - 1]
        BY <4>1
      <4>3. to[i] = (sum[i - 1] + data[i]) % 256
        <5>1. CASE i <= m
          <6>1. i \in 0..m
            BY <5>1
          <6>2. sum[i] = (sum[i - 1] + data[i]) % 256
            BY <2>2, <3>2, <6>1
          <6> QED BY <5>1, <6>2
        <5>2. CASE ~(i <= m)
          BY <5>2
        <5> QED BY <5>1, <5>2
      <4> QED BY <3>2, <4>2, <4>3
    <3> QED BY <3>1, <3>2
  <2>4. DOMAIN to = 0..(m + 1) /\ to = [i \in 0..(m + 1) |-> to[i]]
    OBVIOUS
  <2> HIDE DEF to
  <2>5. to = [i \in 0..(m + 1) |-> IF i = 0 THEN 0 ELSE (to[i - 1] + data[i]) % 256]
    BY <2>3, <2>4
  <2>6. Sums(to, data, m + 1)
    BY <2>5 DEF Sums
  <2> QED BY <2>6
<1>3. Nat \subseteq S
  <2> HIDE DEF S
  <2> QED BY <1>1, <1>2, Induction
<1> QED BY <1>3

LEMMA ChecksumIs ==
  ASSUME NEW data \in Seq(Octets)
  PROVE  Checksum(data) \in Octets
<1>1. PICK n \in Nat : n = Len(data)
  OBVIOUS
<1> DEFINE sum == CHOOSE g : Sums(g, data, n)
<1>2. Checksum(data) = sum[n]
  BY <1>1 DEF Checksum, Sums
<1>3. Sums(sum, data, n)
  BY SumsExist
<1> HIDE DEF sum
<1>4. \A i \in 0..n : sum[i] = IF i = 0 THEN 0 ELSE (sum[i - 1] + data[i]) % 256
  BY <1>3 DEF Sums
<1> DEFINE S == {i \in Nat : i <= n => sum[i] \in Octets}
<1>5. 0 \in S
  BY <1>4 DEF Octets
<1>6. ASSUME NEW i \in Nat, i \in S PROVE i + 1 \in S
  <2> SUFFICES ASSUME i + 1 <= n PROVE sum[i + 1] \in Octets
    OBVIOUS
  <2>1. PICK j \in 0..n : j = i + 1 /\ j # 0 /\ j - 1 = i /\ j \in 1..Len(data)
    BY <1>1
  <2>2. sum[j] = (sum[i] + data[j]) % 256
    BY <1>4, <2>1
  <2>3. sum[i] \in Octets /\ data[j] \in Octets
    BY <1>6, <2>1
  <2>4. PICK x \in Octets : x = sum[i]
    BY <2>3
  <2>5. PICK y \in Octets : y = data[j]
    BY <2>3
  <2>6. x + y \in Nat
    BY DEF Octets
  <2>7. PICK z \in Nat : z = x + y
    BY <2>6
  <2>8. z % 256 \in 0..255
    OBVIOUS
  <2>9. sum[j] = z % 256
    BY <2>2, <2>4, <2>5, <2>7
  <2> QED BY <2>1, <2>8, <2>9 DEF Octets
<1>7. Nat \subseteq S
  <2> HIDE DEF S
  <2> QED BY <1>5, <1>6, Induction
<1> QED BY <1>2, <1>7

LEMMA ConcatAt ==
  ASSUME NEW T, NEW a \in Seq(T), NEW b \in Seq(T), NEW p \in Nat, p > Len(a), p <= Len(a) + Len(b)
  PROVE  (a \o b)[p] = b[p - Len(a)]
OBVIOUS

\* Five parts behind each other: a mark, n bytes of data, a mark, two bytes, and more.
Frames(T, start, data, n, mark, d, more) ==
  /\ start \in Seq(T) /\ data \in Seq(T) /\ mark \in Seq(T) /\ d \in Seq(T) /\ more \in Seq(T)
  /\ n \in Nat /\ Len(start) = 1 /\ Len(data) = n /\ Len(mark) = 1 /\ Len(d) = 2

Framed(start, data, mark, d, more) == (((start \o data) \o mark) \o d) \o more

LEMMA FrameIs ==
  ASSUME NEW T, NEW start, NEW data, NEW n, NEW mark, NEW d, NEW more,
         Frames(T, start, data, n, mark, d, more)
  PROVE  /\ Framed(start, data, mark, d, more) \in Seq(T)
         /\ Len(Framed(start, data, mark, d, more)) \in Nat
         /\ Len(Framed(start, data, mark, d, more)) >= n + 4
         /\ Framed(start, data, mark, d, more)[1] = start[1]
         /\ \A k \in 1..n : Framed(start, data, mark, d, more)[1 + k] = data[k]
         /\ Framed(start, data, mark, d, more)[n + 2] = mark[1]
         /\ Framed(start, data, mark, d, more)[n + 3] = d[1]
         /\ Framed(start, data, mark, d, more)[n + 4] = d[2]
<1>0. /\ start \in Seq(T) /\ data \in Seq(T) /\ mark \in Seq(T) /\ d \in Seq(T) /\ more \in Seq(T)
      /\ n \in Nat /\ Len(start) = 1 /\ Len(data) = n /\ Len(mark) = 1 /\ Len(d) = 2
  BY DEF Frames
<1> USE <1>0
<1>1. PICK a : a = start \o data
  OBVIOUS
<1>2. /\ start \o data \in Seq(T) /\ Len(start) \in Nat /\ Len(data) \in Nat
      /\ Len(start \o data) = Len(start) + Len(data)
      /\ \A p \in 1..Len(start) : (start \o data)[p] = start[p]
  BY ConcatIs
<1>3. a \in Seq(T) /\ Len(a) = n + 1 /\ a[1] = start[1]
  BY <1>1, <1>2
<1>3a. \A k \in 1..n : a[1 + k] = data[k]
  <2> SUFFICES ASSUME NEW k \in 1..n PROVE a[1 + k] = data[k]
    OBVIOUS
  <2>1. PICK p \in Nat : p = 1 + k /\ p > Len(start) /\ p <= Len(start) + Len(data) /\ p - Len(start) = k
    OBVIOUS
  <2>2. (start \o data)[p] = data[p - Len(start)]
    BY <2>1, ConcatAt
  <2> QED BY <1>1, <2>1, <2>2
<1>4. PICK b : b = a \o mark
  OBVIOUS
<1>5. /\ a \o mark \in Seq(T) /\ Len(a) \in Nat /\ Len(mark) \in Nat
      /\ Len(a \o mark) = Len(a) + Len(mark)
      /\ \A p \in 1..Len(a) : (a \o mark)[p] = a[p]
  BY <1>3, ConcatIs
<1>6. b \in Seq(T) /\ Len(b) = n + 2 /\ \A p \in 1..(n + 1) : b[p] = a[p]
  BY <1>3, <1>4, <1>5
<1>7. b[n + 2] = mark[1]
  <2>1. PICK p \in Nat : p = n + 2 /\ p > Len(a) /\ p <= Len(a) + Len(mark) /\ p - Len(a) = 1
    BY <1>3
  <2>2. (a \o mark)[p] = mark[p - Len(a)]
    BY <1>3, <2>1, ConcatAt
  <2> QED BY <1>4, <2>1, <2>2
<1>8. PICK c : c = b \o d
  OBVIOUS
<1>9. /\ b \o d \in Seq(T) /\ Len(b) \in Nat /\ Len(d) \in Nat
      /\ Len(b \o d) = Len(b) + Len(d)
      /\ \A p \in 1..Len(b) : (b \o d)[p] = b[p]
  BY <1>6, ConcatIs
<1>10. c \in Seq(T) /\ Len(c) = n + 4 /\ \A p \in 1..(n + 2) : c[p] = b[p]
  BY <1>6, <1>8, <1>9
<1>11. c[n + 3] = d[1] /\ c[n + 4] = d[2]
  <2>1. PICK p \in Nat : p = n + 3 /\ p > Len(b) /\ p <= Len(b) + Len(d) /\ p - Len(b) = 1
    BY <1>6
  <2>2. PICK q \in Nat : q = n + 4 /\ q > Len(b) /\ q <= Len(b) + Len(d) /\ q - Len(b) = 2
    BY <1>6
  <2>3. (b \o d)[p] = d[p - Len(b)]
    BY <1>6, <2>1, ConcatAt
  <2>4. (b \o d)[q] = d[q - Len(b)]
    BY <1>6, <2>2, ConcatAt
  <2> QED BY <1>8, <2>1, <2>2, <2>3, <2>4
<1>12. PICK e : e = c \o more
  OBVIOUS
<1>13. /\ c \o more \in Seq(T) /\ Len(c) \in Nat /\ Len(more) \in Nat
       /\ Len(c \o more) = Len(c) + Len(more)
       /\ \A p \in 1..Len(c) : (c \o more)[p] = c[p]
  BY <1>10, ConcatIs
<1>14. e \in Seq(T) /\ Len(e) \in Nat /\ Len(e) >= n + 4 /\ \A p \in 1..(n + 4) : e[p] = c[p]
  BY <1>10, <1>12, <1>13
<1>15. \A p \in 1..(n + 1) : e[p] = a[p]
  <2> SUFFICES ASSUME NEW p \in 1..(n + 1) PROVE e[p] = a[p]
    OBVIOUS
  <2>1. p \in 1..(n + 2) /\ p \in 1..(n + 4)
    OBVIOUS
  <2> QED BY <1>6, <1>10, <1>14, <2>1
<1>16. e[1] = start[1]
  <2>1. 1 \in 1..(n + 1)
    OBVIOUS
  <2> QED BY <1>3, <1>15, <2>1
<1>17. \A k \in 1..n : e[1 + k] = data[k]
  <2> SUFFICES ASSUME NEW k \in 1..n PROVE e[1 + k] = data[k]
    OBVIOUS
  <2>1. 1 + k \in 1..(n + 1)
    OBVIOUS
  <2> QED BY <1>3a, <1>15, <2>1
<1>18. e[n + 2] = mark[1] /\ e[n + 3] = d[1] /\ e[n + 4] = d[2]
  <2>1. /\ n + 2 \in 1..(n + 2) /\ n + 2 \in 1..(n + 4)
        /\ n + 3 \in 1..(n + 4) /\ n + 4 \in 1..(n + 4)
    OBVIOUS
  <2> QED BY <1>7, <1>10, <1>11, <1>14, <2>1
<1>19. e = Framed(start, data, mark, d, more)
  BY <1>1, <1>4, <1>8, <1>12 DEF Framed
<1> QED BY <1>14, <1>16, <1>17, <1>18, <1>19

\* What a packet and what follows it in the buffer are, byte by byte.
LEMMA PacketBytes ==
  ASSUME NEW data \in Seq(Octets), NEW more \in Seq(Octets), NEW n \in Nat, Len(data) = n
  PROVE  /\ Packet(data) \o more \in Seq(Octets)
         /\ Len(Packet(data) \o more) \in Nat /\ Len(Packet(data) \o more) >= n + 4
         /\ (Packet(data) \o more)[1] = Dollar /\ (Packet(data) \o more)[n + 2] = Hash
         /\ \A k \in 1..n : (Packet(data) \o more)[1 + k] = data[k]
         /\ (Packet(data) \o more)[n + 3] = hexchars(Checksum(data) \div 16)
         /\ (Packet(data) \o more)[n + 4] = hexchars(Checksum(data) % 16)
<1>1. PICK start : start = <<Dollar>> /\ start \in Seq(Octets) /\ Len(start) = 1 /\ start[1] = Dollar
  <2>1. Dollar \in Octets
    BY DEF Dollar, Octets
  <2>2. <<Dollar>> \in Seq(Octets) /\ Len(<<Dollar>>) = 1 /\ <<Dollar>>[1] = Dollar
    BY <2>1
  <2> QED BY <2>2
<1>2. PICK mark : mark = <<Hash>> /\ mark \in Seq(Octets) /\ Len(mark) = 1 /\ mark[1] = Hash
  <2>1. Hash \in Octets
    BY DEF Hash, Octets
  <2>2. <<Hash>> \in Seq(Octets) /\ Len(<<Hash>>) = 1 /\ <<Hash>>[1] = Hash
    BY <2>1
  <2> QED BY <2>2
<1>3. PICK sum \in Octets : sum = Checksum(data)
  BY ChecksumIs
<1>4. PICK one : one = <<sum>> /\ one \in Seq(Octets) /\ Len(one) = 1 /\ one[1] = sum
  <2>1. <<sum>> \in Seq(Octets) /\ Len(<<sum>>) = 1 /\ <<sum>>[1] = sum
    OBVIOUS
  <2> QED BY <2>1
<1>5. PICK d : d = mem2hex(one, 1)
  OBVIOUS
<1>6. d \in Seq(Octets) /\ Len(d) = 2
  <2>1. 1 \in Nat /\ 1 <= Len(one)
    BY <1>4
  <2>2. /\ mem2hex(one, 1) \in Seq(Octets \ {Hash, Dollar, Star, Brace})
        /\ Len(mem2hex(one, 1)) = 2 * 1
    BY <1>4, <2>1, HexReadsBack
  <2> QED BY <1>5, <2>2
<1>7. d[1] = hexchars(sum \div 16) /\ d[2] = hexchars(sum % 16)
  <2>1. 1 \in Nat /\ 1 <= Len(one) /\ 1 \in 1..1
    BY <1>4
  <2>2. /\ mem2hex(one, 1)[2 * 1 - 1] = hexchars(one[1] \div 16)
        /\ mem2hex(one, 1)[2 * 1] = hexchars(one[1] % 16)
    BY <1>4, <2>1, DigitsOf
  <2>3. 2 * 1 - 1 = 1 /\ 2 * 1 = 2
    OBVIOUS
  <2> QED BY <1>4, <1>5, <2>2, <2>3
<1>8. Packet(data) = ((start \o data) \o mark) \o d
  BY <1>1, <1>2, <1>3, <1>4, <1>5 DEF Packet
<1>9. /\ Framed(start, data, mark, d, more) \in Seq(Octets)
      /\ Len(Framed(start, data, mark, d, more)) \in Nat
      /\ Len(Framed(start, data, mark, d, more)) >= n + 4
      /\ Framed(start, data, mark, d, more)[1] = start[1]
      /\ \A k \in 1..n : Framed(start, data, mark, d, more)[1 + k] = data[k]
      /\ Framed(start, data, mark, d, more)[n + 2] = mark[1]
      /\ Framed(start, data, mark, d, more)[n + 3] = d[1]
      /\ Framed(start, data, mark, d, more)[n + 4] = d[2]
  <2>1. Frames(Octets, start, data, n, mark, d, more)
    BY <1>1, <1>2, <1>6 DEF Frames
  <2> QED BY <2>1, FrameIs
<1>10. Packet(data) \o more = Framed(start, data, mark, d, more)
  BY <1>8 DEF Framed
<1> QED BY <1>1, <1>2, <1>3, <1>7, <1>9, <1>10

\* A packet that write_packet_bytes frames (packets.c:137-148) is taken apart again
\* by process_packet (gdbinject.c:487-503), whatever follows it in the buffer: the
\* first mark is its end, its checksum is accepted, and the contents are the data.
\* The data must be without a mark, as text in digits and escaped bytes are.
THEOREM PacketIsAccepted ==
  ASSUME NEW data \in Seq(Octets \ {Hash}), NEW more \in Seq(Octets)
  PROVE  /\ FirstHash(Packet(data) \o more) = Len(data) + 2
         /\ Contents(Packet(data) \o more) = data
         /\ Accepted(Packet(data) \o more)
<1>1. PICK n \in Nat : n = Len(data)
  OBVIOUS
<1> DEFINE inbuf == Packet(data) \o more
<1>2. data \in Seq(Octets) /\ \A k \in 1..n : data[k] # Hash
  BY <1>1
<1>3. /\ inbuf \in Seq(Octets) /\ Len(inbuf) >= n + 4 /\ Len(inbuf) \in Nat
      /\ inbuf[1] = Dollar /\ inbuf[n + 2] = Hash
      /\ \A k \in 1..n : inbuf[1 + k] = data[k]
      /\ inbuf[n + 3] = hexchars(Checksum(data) \div 16)
      /\ inbuf[n + 4] = hexchars(Checksum(data) % 16)
  BY <1>1, <1>2, PacketBytes
<1> HIDE DEF inbuf
<1>4. \A j \in 1..(n + 1) : inbuf[j] # Hash
  <2> SUFFICES ASSUME NEW j \in 1..(n + 1) PROVE inbuf[j] # Hash
    OBVIOUS
  <2>1. CASE j = 1
    BY <1>3, <2>1 DEF Dollar, Hash
  <2>2. CASE j # 1
    <3>1. PICK k \in 1..n : j = 1 + k
      <4>1. j - 1 \in 1..n /\ j = 1 + (j - 1)
        BY <2>2
      <4> QED BY <4>1
    <3> QED BY <1>2, <1>3, <3>1
  <2> QED BY <2>1, <2>2
<1>5. FirstHash(inbuf) = n + 2
  <2> DEFINE Is(i) == inbuf[i] = Hash /\ \A j \in 1..(i - 1) : inbuf[j] # Hash
             c == CHOOSE i \in 1..Len(inbuf) : Is(i)
  <2>1. n + 2 \in 1..Len(inbuf) /\ Is(n + 2)
    <3>1. n + 2 \in 1..Len(inbuf) /\ (n + 2) - 1 = n + 1
      BY <1>3
    <3> QED BY <1>3, <1>4, <3>1
  <2>2. c \in 1..Len(inbuf) /\ Is(c)
    BY <2>1
  <2>3. FirstHash(inbuf) = c
    BY DEF FirstHash
  <2> HIDE DEF c
  <2>4. ~(c < n + 2)
    <3> SUFFICES ASSUME c < n + 2 PROVE FALSE
      OBVIOUS
    <3>1. c \in 1..(n + 1)
      BY <1>3, <2>2
    <3> QED BY <1>4, <2>2, <3>1
  <2>5. ~(n + 2 < c)
    <3> SUFFICES ASSUME n + 2 < c PROVE FALSE
      OBVIOUS
    <3>1. n + 2 \in 1..(c - 1)
      BY <1>3, <2>2
    <3> QED BY <1>3, <2>2, <3>1
  <2> QED BY <1>3, <2>2, <2>3, <2>4, <2>5
<1>6. Contents(inbuf) = data
  <2>1. Contents(inbuf) = SubSeq(inbuf, 2, n + 1)
    <3>1. (n + 2) - 1 = n + 1
      OBVIOUS
    <3> QED BY <1>5, <3>1 DEF Contents
  <2>2. SubSeq(inbuf, 2, n + 1) = [k \in 1..n |-> inbuf[1 + k]]
    <3>1. SubSeq(inbuf, 2, n + 1) = [k \in 1..((1 + (n + 1)) - 2) |-> inbuf[(2 + k) - 1]]
      BY <1>3
    <3>2. (1 + (n + 1)) - 2 = n /\ \A k \in 1..n : (2 + k) - 1 = 1 + k
      OBVIOUS
    <3> QED BY <3>1, <3>2
  <2>3. data = [k \in 1..n |-> data[k]]
    BY <1>1
  <2> QED BY <1>3, <2>1, <2>2, <2>3
<1>7. Accepted(inbuf)
  <2>1. PICK sum \in Octets : sum = Checksum(data)
    BY <1>2, ChecksumIs
  <2>2. sum \div 16 \in 0..15 /\ sum % 16 \in 0..15 /\ 16 * (sum \div 16) + (sum % 16) = sum
    BY <2>1, Nibbles
  <2>3. hex(hexchars(sum \div 16)) = sum \div 16 /\ hex(hexchars(sum % 16)) = sum % 16
    BY <2>2, DigitsAre
  <2>4. FirstHash(inbuf) + 1 = n + 3 /\ FirstHash(inbuf) + 2 = n + 4
    BY <1>5
  <2>5. /\ hex(inbuf[FirstHash(inbuf) + 1]) = sum \div 16
        /\ hex(inbuf[FirstHash(inbuf) + 2]) = sum % 16
    BY <1>3, <2>1, <2>3, <2>4
  <2>6. sum % 16 >= 0
    BY <2>2
  <2> QED BY <1>3, <1>6, <2>1, <2>2, <2>5, <2>6 DEF Accepted
<1> QED BY <1>1, <1>5, <1>6, <1>7 DEF inbuf
\* A part of a sequence, told by its bytes.
LEMMA PartIs ==
  ASSUME NEW T, NEW text \in Seq(T), NEW part \in Seq(T), NEW m \in Nat, NEW first, NEW last,
         first = m + 1, last = m + Len(part),
         \A k \in 1..Len(part) : m + k \in 1..Len(text) /\ text[m + k] = part[k]
  PROVE  SubSeq(text, first, last) = part
<1>0. PICK n \in Nat : n = Len(part)
  OBVIOUS
<1>1. SubSeq(text, m + 1, m + n) = [k \in 1..((1 + (m + n)) - (m + 1)) |-> text[((m + 1) + k) - 1]]
  OBVIOUS
<1>2. (1 + (m + n)) - (m + 1) = n /\ \A k \in 1..n : ((m + 1) + k) - 1 = m + k
  OBVIOUS
<1>3. SubSeq(text, m + 1, m + n) = [k \in 1..n |-> text[m + k]]
  BY <1>1, <1>2
<1>4. part = [k \in 1..n |-> part[k]]
  BY <1>0
<1> QED BY <1>0, <1>3, <1>4

\* The debugger that knows the sizes finds each register in the answer to `g'
\* (gdbinject.c:515-528): the digits of register i begin where those before it end,
\* and stand for the lower bytes of the word the machine's map names. Memory has a
\* sequence of bytes at every word of the map that reaches as far as the map's size.
THEOREM RegistersReadBack ==
  ASSUME NEW map \in Seq([idx : Nat, size : Nat]), NEW memory,
         \A i \in 1..Len(map) : /\ memory[map[i].idx] \in Seq(Octets)
                                /\ map[i].size <= Len(memory[map[i].idx])
  PROVE  \E start : /\ start[1] = 0
                    /\ Len(Registers(map, memory)) = start[Len(map) + 1]
                    /\ \A i \in 1..Len(map) :
                         /\ start[i + 1] = start[i] + 2 * map[i].size
                         /\ hex2mem(SubSeq(Registers(map, memory), start[i] + 1, start[i + 1]), map[i].size)
                              = SubSeq(memory[map[i].idx], 1, map[i].size)
<1> DEFINE ss == [i \in 1..Len(map) |-> mem2hex(memory[map[i].idx], map[i].size)]
           text == Registers(map, memory)
<1>1. PICK n \in Nat : n = Len(map)
  OBVIOUS
<1>2. ASSUME NEW i \in 1..n
      PROVE  map[i].size \in Nat /\ memory[map[i].idx] \in Seq(Octets)
             /\ map[i].size <= Len(memory[map[i].idx])
  <2>1. i \in 1..Len(map)
    BY <1>1
  <2>2. map[i] \in [idx : Nat, size : Nat]
    <3> DEFINE R == [idx : Nat, size : Nat]
    <3>1. map \in Seq(R)
      OBVIOUS
    <3> HIDE DEF R
    <3>2. map[i] \in R
      BY <2>1, <3>1
    <3> QED BY <3>2 DEF R
  <2>3. map[i].size \in Nat
    BY <2>2
  <2> QED BY <2>1, <2>3
<1>3. ASSUME NEW i \in 1..n
      PROVE  /\ ss[i] \in Seq(Octets) /\ Len(ss[i]) = 2 * map[i].size
             /\ hex2mem(ss[i], map[i].size) = SubSeq(memory[map[i].idx], 1, map[i].size)
  <2>1. PICK size \in Nat : size = map[i].size
    BY <1>2
  <2>2. PICK mem \in Seq(Octets) : mem = memory[map[i].idx] /\ size <= Len(mem)
    BY <1>2, <2>1
  <2>3. ss[i] = mem2hex(mem, size)
    BY <1>1, <2>1, <2>2
  <2>4. /\ hex2mem(mem2hex(mem, size), size) = SubSeq(mem, 1, size)
        /\ mem2hex(mem, size) \in Seq(Octets \ {Hash, Dollar, Star, Brace})
        /\ Len(mem2hex(mem, size)) = 2 * size
    BY <2>2, HexReadsBack
  <2> HIDE DEF ss
  <2> QED BY <2>1, <2>2, <2>3, <2>4
<1>4. ss \in Seq(Seq(Octets)) /\ Len(ss) = n
  <2>1. ss = [i \in 1..n |-> ss[i]]
    BY <1>1
  <2>2. \A i \in 1..n : ss[i] \in Seq(Octets)
    BY <1>3
  <2> HIDE DEF ss
  <2>3. ss \in [1..n -> Seq(Octets)]
    BY <2>1, <2>2
  <2> QED BY <2>3
<1>5. text = FlattenSeq(ss)
  BY DEF Registers
<1> HIDE DEF ss, text
<1>6. text \in Seq(Octets) /\ \E start : Parts(ss, start, text)
  BY <1>4, <1>5, FlattenIs
<1>7. PICK start : Parts(ss, start, text)
  BY <1>6
<1>8. /\ start \in [1..(n + 1) -> Nat] /\ start[1] = 0
      /\ \A j \in 1..n : start[j + 1] = start[j] + Len(ss[j])
      /\ Len(text) = start[n + 1]
      /\ \A j \in 1..n : \A k \in 1..Len(ss[j]) :
           start[j] + k \in 1..Len(text) /\ text[start[j] + k] = ss[j][k]
  BY <1>4, <1>7 DEF Parts
<1>9. ASSUME NEW i \in 1..n
      PROVE  /\ start[i + 1] = start[i] + 2 * map[i].size
             /\ hex2mem(SubSeq(text, start[i] + 1, start[i + 1]), map[i].size)
                  = SubSeq(memory[map[i].idx], 1, map[i].size)
  <2>1. start[i + 1] = start[i] + 2 * map[i].size
    BY <1>3, <1>8
  <2>2. PICK part \in Seq(Octets) : part = ss[i]
    BY <1>3
  <2>3. PICK m \in Nat : m = start[i]
    BY <1>8
  <2>4. start[i + 1] = m + Len(part) /\ Len(part) \in Nat
    BY <1>8, <2>2, <2>3
  <2>5. \A k \in 1..Len(part) : m + k \in 1..Len(text) /\ text[m + k] = part[k]
    BY <1>8, <2>2, <2>3
  <2>6. PICK first \in Nat : first = m + 1
    OBVIOUS
  <2>7. PICK last \in Nat : last = m + Len(part)
    BY <2>4
  <2>8. SubSeq(text, first, last) = part
    BY <1>6, <2>5, <2>6, <2>7, PartIs
  <2>9. SubSeq(text, start[i] + 1, start[i + 1]) = ss[i]
    BY <2>2, <2>3, <2>4, <2>6, <2>7, <2>8
  <2> QED BY <1>3, <2>1, <2>9
<1> QED BY <1>1, <1>8, <1>9 DEF text

\* What the map of a machine asks for is within its registers, except the last five
\* entries of the one for arm64 (arch.h:179-219), which are behind the 34 words of
\* regs_struct; of a word of eight bytes the maps with size 4 show the lower half.
THEOREM MapsOverlook ==
  ASSUME NEW arch \in Archs, NEW i \in 1..Len(regs_map(arch))
  PROVE  /\ regs_map(arch)[i] \in [idx : Nat, size : Nat]
         /\ regs_map(arch)[i].size <= SZ(arch)
         /\ regs_map(arch)[i].idx < Words(arch) <=> (arch = "arm64" => i <= 34)
         /\ regs_map(arch)[i].size < SZ(arch) <=> (arch = "arm64" \/ (arch = "x86_64" /\ i > 17))
<1>1. CASE arch = "arm"
  <2> DEFINE map == [j \in 1..16 |-> [idx |-> j - 1, size |-> 4]]
  <2>1. regs_map(arch) = map /\ Words(arch) = 18 /\ SZ(arch) = 4
    BY <1>1 DEF regs_map, Words, SZ
  <2>2. map \in Seq([idx : Nat, size : Nat]) /\ Len(map) = 16
    OBVIOUS
  <2>3. i \in 1..16 /\ map[i] = [idx |-> i - 1, size |-> 4]
    BY <2>1, <2>2
  <2> HIDE DEF map
  <2> QED BY <1>1, <2>1, <2>3
<1>2. CASE arch = "arm64"
  <2> DEFINE map == [j \in 1..39 |-> [idx |-> j - 1, size |-> 4]]
  <2>1. regs_map(arch) = map /\ Words(arch) = 34 /\ SZ(arch) = 8
    BY <1>2 DEF regs_map, Words, SZ
  <2>2. map \in Seq([idx : Nat, size : Nat]) /\ Len(map) = 39
    OBVIOUS
  <2>3. i \in 1..39 /\ map[i] = [idx |-> i - 1, size |-> 4]
    BY <2>1, <2>2
  <2> HIDE DEF map
  <2> QED BY <1>2, <2>1, <2>3
<1>3. CASE arch = "x86_64"
  <2> DEFINE map == [j \in 1..24 |-> [idx |-> RegIndex[j], size |-> IF j <= 17 THEN 8 ELSE 4]]
  <2>1. regs_map(arch) = map /\ Words(arch) = 27 /\ SZ(arch) = 8
    BY <1>3 DEF regs_map, Words, SZ
  <2>2. \A j \in 1..24 : RegIndex[j] \in Nat /\ RegIndex[j] < 27
    <3>1. /\ RegIndex[1] = 10 /\ RegIndex[2] = 5 /\ RegIndex[3] = 11 /\ RegIndex[4] = 12
          /\ RegIndex[5] = 13 /\ RegIndex[6] = 14 /\ RegIndex[7] = 4 /\ RegIndex[8] = 19
          /\ RegIndex[9] = 9 /\ RegIndex[10] = 8 /\ RegIndex[11] = 7 /\ RegIndex[12] = 6
          /\ RegIndex[13] = 3 /\ RegIndex[14] = 2 /\ RegIndex[15] = 1 /\ RegIndex[16] = 0
          /\ RegIndex[17] = 16 /\ RegIndex[18] = 18 /\ RegIndex[19] = 17 /\ RegIndex[20] = 20
          /\ RegIndex[21] = 23 /\ RegIndex[22] = 24 /\ RegIndex[23] = 25 /\ RegIndex[24] = 26
      BY DEF RegIndex
    <3>2. /\ RegIndex[1] \in 0..26 /\ RegIndex[2] \in 0..26 /\ RegIndex[3] \in 0..26 /\ RegIndex[4] \in 0..26
          /\ RegIndex[5] \in 0..26 /\ RegIndex[6] \in 0..26 /\ RegIndex[7] \in 0..26 /\ RegIndex[8] \in 0..26
          /\ RegIndex[9] \in 0..26 /\ RegIndex[10] \in 0..26 /\ RegIndex[11] \in 0..26 /\ RegIndex[12] \in 0..26
          /\ RegIndex[13] \in 0..26 /\ RegIndex[14] \in 0..26 /\ RegIndex[15] \in 0..26 /\ RegIndex[16] \in 0..26
          /\ RegIndex[17] \in 0..26 /\ RegIndex[18] \in 0..26 /\ RegIndex[19] \in 0..26 /\ RegIndex[20] \in 0..26
          /\ RegIndex[21] \in 0..26 /\ RegIndex[22] \in 0..26 /\ RegIndex[23] \in 0..26 /\ RegIndex[24] \in 0..26
      BY <3>1
    <3>3. ASSUME NEW j \in 1..24
          PROVE  \/ j = 1 \/ j = 2 \/ j = 3 \/ j = 4 \/ j = 5 \/ j = 6 \/ j = 7 \/ j = 8
                 \/ j = 9 \/ j = 10 \/ j = 11 \/ j = 12 \/ j = 13 \/ j = 14 \/ j = 15 \/ j = 16
                 \/ j = 17 \/ j = 18 \/ j = 19 \/ j = 20 \/ j = 21 \/ j = 22 \/ j = 23 \/ j = 24
      OBVIOUS
    <3>4. \A j \in 1..24 : RegIndex[j] \in 0..26
      BY <3>2, <3>3, Zenon
    <3>5. \A x \in 0..26 : x \in Nat /\ x < 27
      OBVIOUS
    <3> QED BY <3>4, <3>5
  <2>3. map \in Seq([idx : Nat, size : Nat]) /\ Len(map) = 24
    BY <2>2
  <2>4. i \in 1..24 /\ map[i] = [idx |-> RegIndex[i], size |-> IF i <= 17 THEN 8 ELSE 4]
    BY <2>1, <2>3
  <2> HIDE DEF map
  <2>5. PICK x \in Nat : x = RegIndex[i] /\ x < 27
    BY <2>2, <2>4
  <2>6. CASE i <= 17
    <3>1. map[i] = [idx |-> x, size |-> 8]
      BY <2>4, <2>5, <2>6
    <3> QED BY <1>3, <2>1, <2>5, <2>6, <3>1
  <2>7. CASE ~(i <= 17)
    <3>1. map[i] = [idx |-> x, size |-> 4] /\ i > 17
      BY <2>4, <2>5, <2>7
    <3> QED BY <1>3, <2>1, <2>5, <2>7, <3>1
  <2> QED BY <2>6, <2>7
<1> QED BY <1>1, <1>2, <1>3 DEF Archs
=============================================================================
