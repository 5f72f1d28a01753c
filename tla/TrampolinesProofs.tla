-------------------------- MODULE TrampolinesProofs --------------------------
(* Proofs about Trampolines, for every page size, every place of the code     *)
(* and any number of threads and methods.                                     *)
EXTENDS Trampolines, Backups, WellFoundedInduction, TLAPS

-----------------------------------------------------------------------------
(* Pages *)

LEMMA PageSizePositive == PageSize \in Nat \ {0}
  BY SizeAssumption

\* Multiples of the page size are at least a page apart.
LEMMA PagesApart ==
  ASSUME NEW n \in Nat, NEW k \in Nat, n < k
  PROVE  n * PageSize + PageSize <= k * PageSize
<1> DEFINE d == k - n - 1
<1>1. d \in Nat /\ k = n + 1 + d
  OBVIOUS
<1>2. d * PageSize \in Nat
  BY <1>1, PageSizePositive
<1>3. k * PageSize = n * PageSize + PageSize + d * PageSize
  BY <1>1, PageSizePositive
<1> QED
  BY <1>2, <1>3, PageSizePositive

\* The page of an address holds it.
LEMMA PageBounds ==
  ASSUME NEW a \in Nat
  PROVE  /\ PageOf(a) \in Nat
         /\ PageOf(a) * PageSize <= a /\ a < PageOf(a) * PageSize + PageSize
  BY PageSizePositive DEF PageOf

\* What lies less than a page behind the beginning of page n is in page n.
LEMMA PageIs ==
  ASSUME NEW n \in Nat, NEW a \in Nat,
         n * PageSize <= a, a < n * PageSize + PageSize
  PROVE  PageOf(a) = n
<1> DEFINE k == PageOf(a)
<1>1. k \in Nat /\ k * PageSize <= a /\ a < k * PageSize + PageSize
  BY PageBounds
<1> HIDE DEF k
<1>2. n * PageSize \in Nat /\ k * PageSize \in Nat
  BY <1>1, PageSizePositive
<1>3. ~(n < k)
  BY <1>1, <1>2, PagesApart, PageSizePositive
<1>4. ~(k < n)
  BY <1>1, <1>2, PagesApart, PageSizePositive
<1>5. k = n
  BY <1>1, <1>3, <1>4
<1> QED
  BY <1>5 DEF k

-----------------------------------------------------------------------------
(* The allocator *)

\* A region ends in the page it begins in.
InItsPage(r) == r.at + r.size <= PageOf(r.at) * PageSize + PageSize

Apart(r, s) == r.at + r.size <= s.at \/ s.at + s.size <= r.at

\* Regions are pieces of single pages and apart; those of the current page end
\* where its unused part begins.
Allocated ==
  /\ address \in Nat /\ offset \in Nat
  /\ address # 0 => \E n \in Nat : address = n * PageSize
  /\ regions \subseteq [at : Nat, size : Nat \ {0}, user : Methods \X {"bridge", "backup"}]
  /\ \A r \in regions : InItsPage(r)
  /\ \A r \in regions :
       address # 0 /\ PageOf(r.at) = PageOf(address) => r.at + r.size <= address + offset
  /\ \A r, s \in regions : r # s => Apart(r, s)

\* The allocator hands out what nobody has.
LEMMA AllocIsApart ==
  ASSUME Allocated, NEW size \in Nat \ {0}, size <= PageSize,
         NEW p \in Places(size), NEW user \in Methods \X {"bridge", "backup"},
         Alloc(size, p, user)
  PROVE  Allocated' /\ p \in Nat
<1> DEFINE new == [at |-> p, size |-> size, user |-> user]
<1>1. regions' = regions \union {new} /\ new.at = p /\ new.size = size
  BY DEF Alloc
<1>2. /\ p \in Nat
      /\ address' \in Nat /\ offset' \in Nat
      /\ address' # 0 => \E n \in Nat : address' = n * PageSize
      /\ PageOf(p) * PageSize <= p /\ p + size <= PageOf(p) * PageSize + PageSize
      /\ p + size = address' + offset'
      /\ PageOf(p) = PageOf(address')
      /\ \A r \in regions : PageOf(r.at) = PageOf(p) => r.at + r.size <= p
  <2>1. CASE Fits(size)
    <3>1. PICK n \in Nat : address = n * PageSize
      BY <2>1 DEF Fits, Allocated
    <3>2. p = address + offset /\ address' = address /\ offset' = offset + size
      BY <2>1 DEF Places, Alloc
    <3>3. n * PageSize \in Nat /\ offset \in Nat /\ address \in Nat /\ p \in Nat
      BY <3>1, <3>2 DEF Allocated
    <3>4. p < n * PageSize + PageSize /\ p + size <= n * PageSize + PageSize
      BY <2>1, <3>1, <3>2, <3>3, PageSizePositive DEF Fits
    <3>5. PageOf(p) = n
      BY <3>1, <3>2, <3>3, <3>4, PageIs
    <3>6. PageOf(address) = n
      BY <3>1, <3>3, PageIs, PageSizePositive
    <3>7. \A r \in regions : PageOf(r.at) = n => r.at + r.size <= p
      BY <2>1, <3>2, <3>6 DEF Allocated, Fits
    <3>8. p + size = address' + offset' /\ offset' \in Nat
      BY <3>2, <3>3
    <3> QED
      BY <3>1, <3>2, <3>3, <3>4, <3>5, <3>6, <3>7, <3>8
  <2>2. CASE ~Fits(size)
    <3>1. PICK n \in FreePages : p = n * PageSize /\ \A r \in regions : PageOf(r.at) # n
      BY <2>2 DEF Places
    <3>2. n \in Nat /\ n * PageSize \in Nat
      BY <3>1, PlaceAssumption, PageSizePositive
    <3>3. address' = p /\ offset' = size
      BY <2>2 DEF Alloc
    <3>4. PageOf(p) = n
      BY <3>1, <3>2, PageIs, PageSizePositive
    <3> QED
      BY <3>1, <3>2, <3>3, <3>4, PageSizePositive
  <2> QED
    BY <2>1, <2>2
<1> HIDE DEF new
<1>3. \A r \in regions :
        /\ r.at \in Nat /\ r.size \in Nat \ {0} /\ InItsPage(r)
        /\ PageOf(r.at) \in Nat /\ PageOf(r.at) * PageSize <= r.at
        /\ PageOf(r.at) * PageSize \in Nat
  BY PageBounds, PageSizePositive DEF Allocated
<1>4. PageOf(p) \in Nat /\ PageOf(p) * PageSize \in Nat
  BY <1>2, PageBounds, PageSizePositive
<1>5. ASSUME NEW r \in regions
      PROVE  Apart(r, new) /\ Apart(new, r)
  <2>1. CASE PageOf(r.at) = PageOf(p)
    BY <2>1, <1>1, <1>2 DEF Apart
  <2>2. CASE PageOf(r.at) < PageOf(p)
    <3>1. PageOf(r.at) * PageSize + PageSize <= PageOf(p) * PageSize
      BY <2>2, <1>3, <1>4, PagesApart
    <3> QED
      BY <3>1, <1>1, <1>2, <1>3, <1>4, PageSizePositive DEF Apart, InItsPage
  <2>3. CASE PageOf(p) < PageOf(r.at)
    <3>1. PageOf(p) * PageSize + PageSize <= PageOf(r.at) * PageSize
      BY <2>3, <1>3, <1>4, PagesApart
    <3> QED
      BY <3>1, <1>1, <1>2, <1>3, <1>4, PageSizePositive DEF Apart, InItsPage
  <2> QED
    BY <2>1, <2>2, <2>3, <1>3, <1>4
<1>6. \A r, s \in regions' : r # s => Apart(r, s)
  BY <1>1, <1>5 DEF Allocated
<1>7. InItsPage(new)
  BY <1>1, <1>2 DEF InItsPage
<1>8. regions' \subseteq [at : Nat, size : Nat \ {0}, user : Methods \X {"bridge", "backup"}]
  BY <1>1, <1>2 DEF Allocated, new
<1>9. \A r \in regions' :
        address' # 0 /\ PageOf(r.at) = PageOf(address') => r.at + r.size <= address' + offset'
  <2>1. \A r \in regions : r.at \in Nat /\ r.size \in Nat
    BY <1>3
  <2>2. new.at + new.size = address' + offset'
    BY <1>1, <1>2
  <2>3. ASSUME NEW r \in regions, PageOf(r.at) = PageOf(address')
        PROVE  r.at + r.size <= new.at + new.size
    <3>1. r.at + r.size <= p
      BY <2>3, <1>2
    <3> QED
      BY <3>1, <2>1, <1>1, <1>2
  <2>4. new.at + new.size \in Nat
    BY <1>1, <1>2
  <2> QED
    BY <2>2, <2>3, <2>4, <1>1
<1>10. \A r \in regions' : InItsPage(r)
  BY <1>1, <1>3, <1>7
<1>11. (\A r \in regions : InItsPage(r))'
  BY <1>10 DEF InItsPage, PageOf
<1>12. (\A r, s \in regions : r # s => Apart(r, s))'
  BY <1>6 DEF Apart
<1>13. (\A r \in regions :
          address # 0 /\ PageOf(r.at) = PageOf(address) => r.at + r.size <= address + offset)'
  BY <1>9 DEF PageOf
<1> QED
  BY <1>2, <1>8, <1>11, <1>12, <1>13 DEF Allocated

\* The overwriting of a function touches nothing of an installation but the pages.
LEMMA NativeLeaves ==
  ASSUME NEW f \in Functions, NativeStep(f)
  PROVE  /\ UNCHANGED <<suspends, suspended, memory, attempted, failed, trampolines, target, pc, job>>
         /\ crashed' \in {crashed, "mprotect", "range", "handler"}
         /\ writable \subseteq writable'
         /\ writable' \subseteq writable \union {PageOf(f), LastPageOf(f)}
         /\ LastPageOf(f) \in Nat /\ PageOf(f) \in Nat
<1>1. f \in Nat /\ f + DirectSize - 1 \in Nat
  BY PlaceAssumption, SizeAssumption
<1>2. LastPageOf(f) \in Nat /\ PageOf(f) \in Nat
  BY <1>1, PageBounds DEF LastPageOf
<1>3. CASE NativeUnprotect(f)
  BY <1>2, <1>3 DEF NativeUnprotect, others
<1>4. CASE NativeBegin(f) \/ NativeEnd(f)
  BY <1>2, <1>4 DEF NativeBegin, NativeEnd, others
<1>5. CASE NativeFaults(f)
  BY <1>2, <1>5 DEF NativeFaults, Fault, others
<1> QED
  BY <1>3, <1>4, <1>5 DEF NativeStep

\* Every step leaves the regions as they are or adds one.
LEMMA AllocatedStep ==
  ASSUME Allocated, \A t \in Threads : pc[t] # "idle" => M(t) \in Methods, [Next]_vars
  PROVE  Allocated'
<1>1. CASE UNCHANGED memory
  BY <1>1 DEF memory, Allocated, InItsPage, Apart, PageOf
<1>2. ASSUME NEW t \in Threads, NEW p \in Places(BackupSize), pc[t] = "backup",
             Alloc(BackupSize, p, <<M(t), "backup">>)
      PROVE  Allocated'
  BY <1>2, AllocIsApart, SizeAssumption
<1>3. ASSUME NEW t \in Threads, NEW p \in Places(BridgeSize), pc[t] = "bridge",
             Alloc(BridgeSize, p, <<M(t), "bridge">>)
      PROVE  Allocated'
  BY <1>3, AllocIsApart, SizeAssumption
<1>4. ASSUME NEW t \in Threads, Backup(t)
      PROVE  Allocated'
  <2>1. pc[t] = "backup"
    BY <1>4 DEF Backup, At
  <2> QED
    BY <1>4, <2>1, <1>1, <1>2 DEF Backup, AllocFails
<1>5. ASSUME NEW t \in Threads, AllocBridge(t)
      PROVE  Allocated'
  <2>1. pc[t] = "bridge"
    BY <1>5 DEF AllocBridge, At
  <2> QED
    BY <1>5, <2>1, <1>1, <1>3 DEF AllocBridge, AllocFails
<1>6. CASE UNCHANGED vars
  BY <1>6, <1>1 DEF vars, memory
<1>7. ASSUME NEW t \in Threads,
             \/ \E m \in Methods, inline, skip \in BOOLEAN : Start(t, m, inline, skip)
             \/ Unprotect(t) \/ WriteBridge(t)
             \/ ReplaceEntry(t) \/ BeginPatch(t) \/ EndPatch(t) \/ PatchFaults(t)
      PROVE  Allocated'
  BY <1>7, <1>1 DEF Start, Unprotect, WriteBridge, ReplaceEntry, BeginPatch, EndPatch, PatchFaults
<1>8. ASSUME NEW f \in Functions, NativeStep(f)
      PROVE  Allocated'
  BY <1>1, <1>8, NativeLeaves
<1> QED
  BY <1>4, <1>5, <1>6, <1>7, <1>8 DEF Next

-----------------------------------------------------------------------------
(* Types and ownership *)

Busy(t) == pc[t] # "idle"

\* A busy thread has a method, which is its own as long as it is busy; while the
\* process is suspended it is for the only busy thread.
Owners ==
  /\ \A t \in Threads : Busy(t) => job[t] \in Jobs /\ M(t) \in attempted /\ M(t) \notin failed
  /\ \A t, u \in Threads : Busy(t) /\ Busy(u) /\ M(t) = M(u) => t = u
  /\ \A t \in Threads : Busy(t) => suspended = IF suspends THEN t ELSE NoThread
  /\ ~suspends => suspended = NoThread

LEMMA JobMethod ==
  ASSUME Owners, NEW t \in Threads, Busy(t)
  PROVE  M(t) \in Methods /\ job[t].inline \in BOOLEAN /\ job[t].skip \in BOOLEAN
  BY DEF Owners, M, Jobs

LEMMA PatchedNat ==
  ASSUME NEW j
  PROVE  Patched(j) \in Nat
  BY SizeAssumption DEF Patched

LEMMA ToPCNat ==
  ASSUME NEW a \in Nat
  PROVE  ToPC(a) \in Nat
  BY DEF ToPC

LEMMA TypeInit == Init => InstallTypes /\ Owners /\ Allocated
<1> SUFFICES ASSUME Init PROVE InstallTypes /\ Owners /\ Allocated
  OBVIOUS
<1>1. \A m \in Methods : CodeEntry(m) \in Nat
  BY PlaceAssumption, ToPCNat DEF CodeEntry
<1>2. InstallTypes
  BY <1>1, ThreadAssumption DEF Init, InstallTypes, Labels
<1> QED
  BY <1>2, ThreadAssumption DEF Init, Owners, Busy, Allocated

\* An installation ends and with it the claim on its method.
LEMMA FinishKeeps ==
  ASSUME InstallTypes, Owners, NEW t \in Threads, Busy(t), Finish(t),
         suspends' = suspends, attempted' = attempted,
         failed' = failed \/ failed' = failed \union {M(t)}
  PROVE  Owners'
<1>1. pc' = [pc EXCEPT ![t] = "idle"] /\ job' = [job EXCEPT ![t] = NoJob]
  BY DEF Finish, Goto
<1>2. \A u \in Threads \ {t} : pc'[u] = pc[u] /\ job'[u] = job[u]
  BY <1>1 DEF InstallTypes
<1>3. ~Busy(t)'
  BY <1>1 DEF InstallTypes, Busy
<1>4. \A u \in Threads : Busy(u)' => u # t /\ Busy(u) /\ M(u)' = M(u) /\ M(u) # M(t)
  BY <1>2, <1>3 DEF Busy, M, Owners
<1>5. suspended' = IF suspended = t THEN NoThread ELSE suspended
  BY DEF Finish
<1> QED
  BY <1>2, <1>4, <1>5 DEF Owners

LEMMA FinishTypes ==
  ASSUME InstallTypes, Owners, NEW t \in Threads, Finish(t)
  PROVE  /\ pc' \in [Threads -> Labels] /\ job' \in [Threads -> Jobs \union {NoJob}]
         /\ suspended' \in Threads \union {NoThread}
         /\ \A u \in Threads : pc'[u] = "idle" => job'[u] = NoJob /\ suspended' # u
<1>1. /\ pc' = [pc EXCEPT ![t] = "idle"] /\ job' = [job EXCEPT ![t] = NoJob]
      /\ suspended' = IF suspended = t THEN NoThread ELSE suspended
  BY DEF Finish, Goto
<1> QED
  BY <1>1, ThreadAssumption DEF InstallTypes, Labels

LEMMA ContinueKeeps ==
  ASSUME InstallTypes, Owners, NEW t \in Threads, Busy(t),
         NEW l \in Labels \ {"idle"}, Continue(t, l),
         suspends' = suspends, attempted' = attempted
  PROVE  /\ Owners'
         /\ pc' \in [Threads -> Labels] /\ job' \in [Threads -> Jobs \union {NoJob}]
         /\ suspended' \in Threads \union {NoThread}
         /\ \A u \in Threads : pc'[u] = "idle" => job'[u] = NoJob /\ suspended' # u
<1>1. /\ pc' = [pc EXCEPT ![t] = l]
      /\ UNCHANGED <<suspended, job, failed>>
  BY DEF Continue, Goto
<1>2. \A u \in Threads : (Busy(u)' <=> Busy(u)) /\ M(u)' = M(u)
  BY <1>1 DEF InstallTypes, Busy, M
<1>3. Owners'
  BY <1>1, <1>2 DEF Owners
<1> QED
  BY <1>1, <1>3 DEF InstallTypes

LEMMA TypeStep ==
  ASSUME InstallTypes, Owners, Allocated, [Next]_vars
  PROVE  InstallTypes' /\ Owners'
<1>1. ASSUME NEW t \in Threads, NEW m \in Methods, NEW inline \in BOOLEAN, NEW skip \in BOOLEAN,
             Start(t, m, inline, skip)
      PROVE  InstallTypes' /\ Owners'
  <2> DEFINE j == [method |-> m, inline |-> inline, skip |-> skip]
  <2>1. /\ pc[t] = "idle" /\ m \notin attempted /\ suspended = NoThread
        /\ suspended' = (IF suspends THEN t ELSE NoThread)
        /\ attempted' = attempted \union {m}
        /\ job' = [job EXCEPT ![t] = j]
        /\ pc' = [pc EXCEPT ![t] = IF inline THEN "unprotect" ELSE "bridge"]
        /\ UNCHANGED <<suspends, memory, failed, trampolines, target, writable, crashed>>
    BY <1>1 DEF Start, At, Goto
  <2>2. j \in Jobs /\ j.method = m
    BY DEF Jobs
  <2>3. \A u \in Threads \ {t} : pc'[u] = pc[u] /\ job'[u] = job[u]
    BY <2>1 DEF InstallTypes
  <2>4. pc'[t] \in Labels \ {"idle"} /\ job'[t] = j
    BY <2>1 DEF InstallTypes, Labels
  <2>5. m \notin failed
    BY <2>1 DEF InstallTypes
  <2>6. suspends => \A u \in Threads : ~Busy(u)
    BY <2>1, ThreadAssumption DEF Owners, InstallTypes
  <2>7. \A u \in Threads \ {t} : Busy(u)' => Busy(u) /\ M(u)' = M(u) /\ M(u) # m
    BY <2>1, <2>3 DEF Busy, M, Owners
  <2>8. Busy(t)' /\ M(t)' = m
    BY <2>2, <2>4 DEF Busy, M
  <2> HIDE DEF j
  <2>9. Owners'
    <3>1. \A u \in Threads : Busy(u)' => job'[u] \in Jobs /\ M(u)' \in attempted' /\ M(u)' \notin failed'
      BY <2>1, <2>2, <2>3, <2>4, <2>5, <2>7, <2>8 DEF Owners
    <3>2. \A u, v \in Threads : Busy(u)' /\ Busy(v)' /\ M(u)' = M(v)' => u = v
      BY <2>7, <2>8 DEF Owners
    <3>3. \A u \in Threads : Busy(u)' => suspended' = IF suspends' THEN u ELSE NoThread
      BY <2>1, <2>6, <2>7
    <3> QED
      BY <3>1, <3>2, <3>3, <2>1 DEF Owners
  <2>10. \A u \in Threads : pc'[u] = "idle" => job'[u] = NoJob /\ suspended' # u
    BY <2>1, <2>3, <2>4, ThreadAssumption DEF InstallTypes
  <2>11. pc' \in [Threads -> Labels] /\ job' \in [Threads -> Jobs \union {NoJob}]
    BY <2>1, <2>2 DEF InstallTypes, Labels
  <2>12. InstallTypes'
    BY <2>1, <2>10, <2>11 DEF InstallTypes, memory, trampolines, target
  <2> QED
    BY <2>9, <2>12
<1>2. ASSUME NEW t \in Threads, Unprotect(t)
      PROVE  InstallTypes' /\ Owners'
  <2>1. /\ Busy(t)
        /\ \/ writable' = writable \union {PageOf(CodeAt[M(t)])} /\ Continue(t, "backup")
           \/ Fail(t) /\ UNCHANGED writable
        /\ UNCHANGED <<suspends, memory, attempted, trampolines, target, crashed>>
    BY <1>2 DEF Unprotect, At, Busy
  <2>2. PageOf(CodeAt[M(t)]) \in Nat
    BY <2>1, JobMethod, PlaceAssumption, PageBounds
  <2>3. CASE Continue(t, "backup") /\ writable' = writable \union {PageOf(CodeAt[M(t)])}
    <3>1. failed' = failed
      BY <2>3 DEF Continue
    <3> QED
      BY <2>1, <2>2, <2>3, <3>1, ContinueKeeps DEF InstallTypes, memory, trampolines, target, Labels
  <2>4. CASE Fail(t) /\ UNCHANGED writable
    <3>1. Finish(t) /\ failed' = failed \union {M(t)} /\ M(t) \in attempted
      BY <2>1, <2>4 DEF Fail, Owners
    <3> QED
      BY <2>1, <2>4, <3>1, FinishKeeps, FinishTypes DEF InstallTypes, memory, trampolines, target
  <2> QED
    BY <2>1, <2>3, <2>4
<1>3. ASSUME NEW t \in Threads, Backup(t)
      PROVE  InstallTypes' /\ Owners'
  <2>1. /\ Busy(t)
        /\ UNCHANGED <<suspends, attempted, bridge, origin, target, writable, crashed>>
    BY <1>3 DEF Backup, At, Busy
  <2>2. ASSUME NEW p \in Places(BackupSize), NEW s \in 0 .. Slack,
               Alloc(BackupSize, p, <<M(t), "backup">>),
               backup' = [backup EXCEPT ![M(t)] = ToPC(p)],
               rest' = [rest EXCEPT ![M(t)] = CodeAt[M(t)] + BackupBytes(job[t]) + s],
               Continue(t, "bridge")
        PROVE  InstallTypes' /\ Owners'
    <3>1. <<M(t), "backup">> \in Methods \X {"bridge", "backup"}
      BY <2>1, JobMethod
    <3>2. Allocated' /\ p \in Nat
      BY <2>2, <3>1, AllocIsApart, SizeAssumption
    <3>3. ToPC(p) \in Nat
      BY <3>2, ToPCNat
    <3>4. CodeAt[M(t)] + BackupBytes(job[t]) + s \in Nat
      BY <2>1, JobMethod, PlaceAssumption, PatchedNat, SizeAssumption DEF BackupBytes
    <3>5. failed' = failed
      BY <2>2 DEF Continue
    <3>6. regions' \subseteq [at : Nat, size : Nat, user : Methods \X {"bridge", "backup"}]
      BY <3>2 DEF Allocated
    <3> QED
      BY <2>1, <2>2, <3>2, <3>3, <3>4, <3>5, <3>6, ContinueKeeps DEF InstallTypes, Allocated, target, Labels
  <2>3. CASE AllocFails(BackupSize) /\ Fail(t) /\ UNCHANGED <<backup, rest>>
    <3>1. Finish(t) /\ failed' = failed \union {M(t)} /\ M(t) \in attempted
      BY <2>1, <2>3 DEF Fail, Owners
    <3> QED
      BY <2>1, <2>3, <3>1, FinishKeeps, FinishTypes DEF InstallTypes, memory, AllocFails, target
  <2> QED
    BY <1>3, <2>2, <2>3 DEF Backup
<1>4. ASSUME NEW t \in Threads, AllocBridge(t)
      PROVE  InstallTypes' /\ Owners'
  <2>1. /\ Busy(t)
        /\ UNCHANGED <<suspends, attempted, origin, backup, rest, target, writable, crashed>>
    BY <1>4 DEF AllocBridge, At, Busy
  <2>2. ASSUME NEW p \in Places(BridgeSize),
               Alloc(BridgeSize, p, <<M(t), "bridge">>),
               bridge' = [bridge EXCEPT ![M(t)] = ToPC(p)],
               Continue(t, "write")
        PROVE  InstallTypes' /\ Owners'
    <3>1. <<M(t), "bridge">> \in Methods \X {"bridge", "backup"}
      BY <2>1, JobMethod
    <3>2. Allocated' /\ p \in Nat
      BY <2>2, <3>1, AllocIsApart, SizeAssumption
    <3>3. ToPC(p) \in Nat
      BY <3>2, ToPCNat
    <3>4. failed' = failed
      BY <2>2 DEF Continue
    <3>5. regions' \subseteq [at : Nat, size : Nat, user : Methods \X {"bridge", "backup"}]
      BY <3>2 DEF Allocated
    <3> QED
      BY <2>1, <2>2, <3>2, <3>3, <3>4, <3>5, ContinueKeeps DEF InstallTypes, Allocated, target, Labels
  <2>3. ASSUME AllocFails(BridgeSize), bridge' = [bridge EXCEPT ![M(t)] = ToPC(0)],
               Fail(t) \/ Continue(t, "publish")
        PROVE  InstallTypes' /\ Owners'
    <3>1. bridge' \in [Methods -> Nat]
      BY <2>3, ToPCNat DEF InstallTypes
    <3>2. CASE Fail(t)
      <4>1. Finish(t) /\ failed' = failed \union {M(t)} /\ M(t) \in attempted
        BY <2>1, <3>2 DEF Fail, Owners
      <4> QED
        BY <2>1, <2>3, <3>1, <4>1, FinishKeeps, FinishTypes DEF InstallTypes, memory, AllocFails, target
    <3>3. CASE Continue(t, "publish")
      <4>1. failed' = failed
        BY <3>3 DEF Continue
      <4> QED
        BY <2>1, <2>3, <3>1, <3>3, <4>1, ContinueKeeps DEF InstallTypes, memory, AllocFails, target, Labels
    <3> QED
      BY <2>3, <3>2, <3>3
  <2> QED
    BY <1>4, <2>2, <2>3 DEF AllocBridge
<1>5. ASSUME NEW t \in Threads, WriteBridge(t)
      PROVE  InstallTypes' /\ Owners'
  <2>1. /\ Busy(t) /\ Continue(t, "publish") /\ failed' = failed
        /\ origin' = [origin EXCEPT ![M(t)] = IF job[t].inline THEN backup[M(t)] ELSE entry[M(t)]]
        /\ UNCHANGED <<suspends, memory, attempted, bridge, backup, rest, target, writable, crashed>>
    BY <1>5 DEF WriteBridge, At, Busy, Continue
  <2>2. M(t) \in Methods
    BY <2>1, JobMethod
  <2>3. origin' \in [Methods -> Nat]
    BY <2>1, <2>2 DEF InstallTypes
  <2> QED
    BY <2>1, <2>3, ContinueKeeps DEF InstallTypes, memory, target, Labels
<1>6. ASSUME NEW t \in Threads, ReplaceEntry(t)
      PROVE  InstallTypes' /\ Owners'
  <2>1. /\ Busy(t) /\ Finish(t) /\ failed' = failed
        /\ entry' = [entry EXCEPT ![M(t)] = bridge[M(t)]]
        /\ UNCHANGED <<suspends, memory, attempted, trampolines, code, jump, over, writable, crashed>>
    BY <1>6 DEF ReplaceEntry, At, Busy
  <2>2. entry' \in [Methods -> Nat]
    BY <2>1, JobMethod DEF InstallTypes
  <2> QED
    BY <2>1, <2>2, FinishKeeps, FinishTypes DEF InstallTypes, memory, trampolines
<1>7. ASSUME NEW t \in Threads, BeginPatch(t)
      PROVE  InstallTypes' /\ Owners'
  <2>1. /\ Busy(t) /\ Continue(t, "patch") /\ failed' = failed
        /\ code' = [code EXCEPT ![M(t)] = "torn"]
        /\ UNCHANGED <<suspends, memory, attempted, trampolines, entry, jump, over, writable, crashed>>
    BY <1>7 DEF BeginPatch, At, Busy, Continue
  <2> QED
    BY <2>1, ContinueKeeps DEF InstallTypes, memory, trampolines, Labels
<1>8. ASSUME NEW t \in Threads, EndPatch(t)
      PROVE  InstallTypes' /\ Owners'
  <2>1. /\ Busy(t) /\ Finish(t) /\ failed' = failed
        /\ code' = [code EXCEPT ![M(t)] = "jump"]
        /\ jump' = [jump EXCEPT ![M(t)] = bridge[M(t)]]
        /\ over' = [over EXCEPT ![M(t)] = Patched(job[t])]
        /\ UNCHANGED <<suspends, memory, attempted, trampolines, entry, writable, crashed>>
    BY <1>8 DEF EndPatch, At, Busy
  <2>2. jump' \in [Methods -> Nat] /\ over' \in [Methods -> Nat]
    BY <2>1, JobMethod, PatchedNat DEF InstallTypes
  <2> QED
    BY <2>1, <2>2, FinishKeeps, FinishTypes DEF InstallTypes, memory, trampolines
<1>9. ASSUME NEW t \in Threads, PatchFaults(t)
      PROVE  InstallTypes' /\ Owners'
  <2>1. /\ Busy(t)
        /\ writable' = writable \union {LastPage(t)} \/ writable' = writable
        /\ crashed' \in {crashed, "mprotect", "range", "handler"}
        /\ UNCHANGED <<suspends, suspended, memory, attempted, failed, trampolines, target, pc, job>>
    BY <1>9 DEF PatchFaults, Fault, At, Busy
  <2>2. LastPage(t) \in Nat
    <3>1. Patched(job[t]) \in Nat \ {0}
      BY SizeAssumption DEF Patched
    <3>2. CodeAt[M(t)] + Patched(job[t]) - 1 \in Nat
      BY <2>1, <3>1, JobMethod, PlaceAssumption
    <3> QED
      BY <3>2, PageBounds DEF LastPage
  <2> QED
    BY <2>1, <2>2 DEF InstallTypes, Owners, Busy, M, memory, trampolines, target
<1>10. CASE UNCHANGED vars
  BY <1>10 DEF vars, InstallTypes, Owners, Busy, M
<1>11. ASSUME NEW f \in Functions, NativeStep(f)
       PROVE  InstallTypes' /\ Owners'
  <2>1. UNCHANGED <<suspends, suspended, address, offset, regions, attempted, failed, bridge, origin,
                    backup, rest, entry, code, jump, over, pc, job>>
    BY <1>11, NativeLeaves DEF memory, trampolines, target
  <2>2. Owners'
    BY <2>1 DEF Owners, Busy, M
  <2>3. writable' \subseteq Nat
    BY <1>11, NativeLeaves DEF InstallTypes
  <2>4. crashed' \in {"no", "mprotect", "range", "handler"}
    BY <1>11, NativeLeaves DEF InstallTypes
  <2> QED
    BY <2>1, <2>2, <2>3, <2>4 DEF InstallTypes
<1> QED
  BY <1>1, <1>2, <1>3, <1>4, <1>5, <1>6, <1>7, <1>8, <1>9, <1>10, <1>11 DEF Next

-----------------------------------------------------------------------------
(* The scopes and the handler they share *)

\* Unless scopes have crossed, the handler is the application's and no scope is
\* open, or it is the library's, one scope has the application's to put back and
\* every other open one the library's.
Lined ==
  \/ crossed
  \/ handler = "app" /\ \A s \in Scopes : ~IsOpen(s)
  \/ /\ handler = "library"
     /\ \E s \in Scopes : /\ saved[s] = "app"
                          /\ \A x \in Scopes \ {s} : saved[x] \in {"closed", "library"}

\* A scope is open exactly while its thread or its function is being patched.
Handlers ==
  /\ FaultTypes
  /\ Lined
  /\ \A t \in Threads : IsOpen(t) <=> pc[t] = "patch"
  /\ \A f \in Functions : IsOpen(f) <=> native[f] = "patch"

HandlerTypes ==
  /\ handler \in {"app", "library"} /\ crossed \in BOOLEAN
  /\ saved \in [Scopes -> {"closed", "app", "library"}]

LEMMA OpenKeeps ==
  ASSUME HandlerTypes, Lined, NEW s \in Scopes, ~IsOpen(s), OpenScope(s)
  PROVE  /\ HandlerTypes'
         /\ Lined'
         /\ \A x \in Scopes : IsOpen(x)' <=> IsOpen(x) \/ x = s
<1>1. /\ saved' = [saved EXCEPT ![s] = handler] /\ handler' = "library"
      /\ crossed' = crossed
  BY DEF OpenScope
<1>2. saved'[s] = handler /\ \A x \in Scopes \ {s} : saved'[x] = saved[x]
  BY <1>1 DEF HandlerTypes
<1>3. HandlerTypes'
  BY <1>1 DEF HandlerTypes
<1>4. \A x \in Scopes : IsOpen(x)' <=> IsOpen(x) \/ x = s
  BY <1>2 DEF IsOpen, HandlerTypes
<1>5. CASE crossed
  BY <1>1, <1>3, <1>4, <1>5 DEF Lined
<1>6. CASE handler = "app" /\ \A x \in Scopes : ~IsOpen(x)
  <2>1. saved'[s] = "app" /\ \A x \in Scopes \ {s} : saved'[x] \in {"closed", "library"}
    BY <1>2, <1>6 DEF IsOpen
  <2> QED
    BY <1>1, <1>3, <1>4, <2>1 DEF Lined
<1>7. ASSUME handler = "library", NEW w \in Scopes, saved[w] = "app",
             \A x \in Scopes \ {w} : saved[x] \in {"closed", "library"}
      PROVE  Lined'
  <2>1. w # s
    BY <1>7 DEF IsOpen
  <2>2. saved'[w] = "app" /\ \A x \in Scopes \ {w} : saved'[x] \in {"closed", "library"}
    BY <1>2, <1>7, <2>1
  <2> QED
    BY <1>1, <2>2 DEF Lined
<1> QED
  BY <1>3, <1>4, <1>5, <1>6, <1>7 DEF Lined

LEMMA CloseKeeps ==
  ASSUME HandlerTypes, Lined, NEW s \in Scopes, IsOpen(s), CloseScope(s)
  PROVE  /\ HandlerTypes'
         /\ Lined'
         /\ \A x \in Scopes : IsOpen(x)' <=> IsOpen(x) /\ x # s
<1>1. /\ saved' = [saved EXCEPT ![s] = "closed"] /\ handler' = saved[s]
      /\ crossed' = (crossed \/ (saved[s] = "app" /\ \E x \in Scopes \ {s} : IsOpen(x)))
  BY DEF CloseScope
<1>2. saved'[s] = "closed" /\ \A x \in Scopes \ {s} : saved'[x] = saved[x]
  BY <1>1 DEF HandlerTypes
<1>3. HandlerTypes'
  BY <1>1 DEF HandlerTypes, IsOpen
<1>4. \A x \in Scopes : IsOpen(x)' <=> IsOpen(x) /\ x # s
  BY <1>2 DEF IsOpen
<1>5. CASE crossed'
  BY <1>3, <1>4, <1>5 DEF Lined
<1>6. ASSUME ~crossed', NEW w \in Scopes, saved[w] = "app",
             \A x \in Scopes \ {w} : saved[x] \in {"closed", "library"}
      PROVE  Lined'
  <2>1. CASE w = s
    <3>1. handler' = "app" /\ \A x \in Scopes \ {s} : ~IsOpen(x)
      BY <1>1, <1>6, <2>1
    <3> QED
      BY <1>4, <3>1 DEF Lined
  <2>2. CASE w # s
    <3>1. handler' = "library"
      BY <1>1, <1>6, <2>2 DEF IsOpen
    <3>2. saved'[w] = "app" /\ \A x \in Scopes \ {w} : saved'[x] \in {"closed", "library"}
      BY <1>2, <1>6, <2>2
    <3> QED
      BY <3>1, <3>2 DEF Lined
  <2> QED
    BY <2>1, <2>2
<1>7. ~crossed' => \E w \in Scopes : /\ saved[w] = "app"
                                     /\ \A x \in Scopes \ {w} : saved[x] \in {"closed", "library"}
  BY <1>1 DEF Lined
<1> QED
  BY <1>3, <1>4, <1>5, <1>6, <1>7

\* A step that opens and closes no scope.
LEMMA QuietKeeps ==
  ASSUME Handlers, UNCHANGED faults, native' \in [Functions -> {"idle", "open", "patch", "done"}],
         \A t \in Threads : pc'[t] = "patch" <=> pc[t] = "patch",
         \A f \in Functions : native'[f] = "patch" <=> native[f] = "patch"
  PROVE  Handlers'
<1>1. Lined' /\ \A x : IsOpen(x)' = IsOpen(x)
  BY DEF Lined, IsOpen, faults, Handlers
<1> QED
  BY <1>1 DEF Handlers, FaultTypes, faults

LEMMA HandlersStep ==
  ASSUME InstallTypes, Handlers, [Next]_vars
  PROVE  Handlers'
<1>1. native \in [Functions -> {"idle", "open", "patch", "done"}] /\ HandlerTypes /\ Lined
  BY DEF Handlers, FaultTypes, HandlerTypes
<1>2. ASSUME NEW t \in Threads,
             \/ \E m \in Methods, inline, skip \in BOOLEAN : Start(t, m, inline, skip)
             \/ Unprotect(t) \/ Backup(t) \/ AllocBridge(t) \/ WriteBridge(t)
             \/ ReplaceEntry(t)
      PROVE  Handlers'
  <2>1. UNCHANGED <<faults, native>> /\ pc[t] # "patch"
    BY <1>2 DEF Start, Unprotect, Backup, AllocBridge, WriteBridge, ReplaceEntry, At
  <2>2. \E l \in Labels \ {"patch"} : Goto(t, l)
    <3>1. \A l \in {"idle", "unprotect", "backup", "bridge", "write", "publish"} :
             l \in Labels \ {"patch"}
      BY DEF Labels
    <3> QED
      BY <1>2, <3>1 DEF Start, Unprotect, Backup, AllocBridge, WriteBridge, ReplaceEntry,
                        Finish, Fail, Continue
  <2>3. \A u \in Threads : pc'[u] = "patch" <=> pc[u] = "patch"
    BY <2>1, <2>2 DEF Goto, InstallTypes
  <2> QED
    BY <1>1, <2>1, <2>3, QuietKeeps
<1>3. ASSUME NEW t \in Threads, BeginPatch(t)
      PROVE  Handlers'
  <2>1. OpenScope(t) /\ ~IsOpen(t) /\ native' = native /\ t \in Scopes
    BY <1>3 DEF BeginPatch, At, Handlers, Scopes
  <2>2. pc' = [pc EXCEPT ![t] = "patch"]
    BY <1>3 DEF BeginPatch, Continue, Goto
  <2>3. \A u \in Threads : pc'[u] = "patch" <=> pc[u] = "patch" \/ u = t
    BY <2>2 DEF InstallTypes
  <2>4. HandlerTypes' /\ Lined' /\ \A x \in Scopes : IsOpen(x)' <=> IsOpen(x) \/ x = t
    BY <1>1, <2>1, OpenKeeps
  <2>5. t \notin Functions
    BY ThreadAssumption
  <2> QED
    BY <1>1, <2>1, <2>3, <2>4, <2>5 DEF Handlers, FaultTypes, HandlerTypes, Scopes
<1>4. ASSUME NEW t \in Threads, EndPatch(t)
      PROVE  Handlers'
  <2>1. CloseScope(t) /\ IsOpen(t) /\ native' = native /\ t \in Scopes
    BY <1>4 DEF EndPatch, At, Handlers, Scopes
  <2>2. pc' = [pc EXCEPT ![t] = "idle"]
    BY <1>4 DEF EndPatch, Finish, Goto
  <2>3. \A u \in Threads : pc'[u] = "patch" <=> pc[u] = "patch" /\ u # t
    BY <2>2 DEF InstallTypes
  <2>4. HandlerTypes' /\ Lined' /\ \A x \in Scopes : IsOpen(x)' <=> IsOpen(x) /\ x # t
    BY <1>1, <2>1, CloseKeeps
  <2>5. t \notin Functions
    BY ThreadAssumption
  <2> QED
    BY <1>1, <2>1, <2>3, <2>4, <2>5 DEF Handlers, FaultTypes, HandlerTypes, Scopes
<1>5. ASSUME NEW t \in Threads, PatchFaults(t)
      PROVE  Handlers'
  <2>1. UNCHANGED <<faults, native, pc>>
    BY <1>5 DEF PatchFaults
  <2> QED
    BY <1>1, <2>1, QuietKeeps
<1>6. ASSUME NEW f \in Functions, NativeStep(f)
      PROVE  Handlers'
  <2>0. pc' = pc /\ f \in Scopes /\ f \notin Threads
    BY <1>6, NativeLeaves, ThreadAssumption DEF Scopes
  <2>1. CASE NativeUnprotect(f)
    <3>1. UNCHANGED faults /\ native[f] = "idle"
          /\ \E to \in {"open", "done"} : native' = [native EXCEPT ![f] = to]
      BY <2>1 DEF NativeUnprotect, Overwriting
    <3>2. /\ native' \in [Functions -> {"idle", "open", "patch", "done"}]
          /\ \A g \in Functions : native'[g] = "patch" <=> native[g] = "patch"
      BY <1>1, <3>1
    <3> QED
      BY <2>0, <3>1, <3>2, QuietKeeps
  <2>2. CASE NativeBegin(f)
    <3>1. native[f] = "open" /\ native' = [native EXCEPT ![f] = "patch"] /\ OpenScope(f)
      BY <2>2 DEF NativeBegin, Overwriting
    <3>2. /\ native' \in [Functions -> {"idle", "open", "patch", "done"}]
          /\ \A g \in Functions : native'[g] = "patch" <=> native[g] = "patch" \/ g = f
      BY <1>1, <3>1
    <3>3. ~IsOpen(f)
      BY <3>1 DEF Handlers
    <3>4. HandlerTypes' /\ Lined' /\ \A x \in Scopes : IsOpen(x)' <=> IsOpen(x) \/ x = f
      BY <1>1, <2>0, <3>1, <3>3, OpenKeeps
    <3> QED
      BY <2>0, <3>2, <3>4 DEF Handlers, FaultTypes, HandlerTypes, Scopes
  <2>3. CASE NativeFaults(f)
    <3>1. UNCHANGED faults /\ native[f] = "patch" /\ native' = [native EXCEPT ![f] = "patch"]
      BY <2>3 DEF NativeFaults, Overwriting
    <3>2. native' = native
      BY <1>1, <3>1
    <3> QED
      BY <1>1, <2>0, <3>1, <3>2, QuietKeeps
  <2>4. CASE NativeEnd(f)
    <3>1. native[f] = "patch" /\ native' = [native EXCEPT ![f] = "done"] /\ CloseScope(f)
      BY <2>4 DEF NativeEnd, Overwriting
    <3>2. /\ native' \in [Functions -> {"idle", "open", "patch", "done"}]
          /\ \A g \in Functions : native'[g] = "patch" <=> native[g] = "patch" /\ g # f
      BY <1>1, <3>1
    <3>3. IsOpen(f)
      BY <3>1 DEF Handlers
    <3>4. HandlerTypes' /\ Lined' /\ \A x \in Scopes : IsOpen(x)' <=> IsOpen(x) /\ x # f
      BY <1>1, <2>0, <3>1, <3>3, CloseKeeps
    <3> QED
      BY <2>0, <3>2, <3>4 DEF Handlers, FaultTypes, HandlerTypes, Scopes
  <2> QED
    BY <1>6, <2>1, <2>2, <2>3, <2>4 DEF NativeStep
<1>7. CASE UNCHANGED vars
  <2>1. UNCHANGED <<faults, native, pc>>
    BY <1>7 DEF vars, faults
  <2> QED
    BY <1>1, <2>1, QuietKeeps
<1> QED
  BY <1>2, <1>3, <1>4, <1>5, <1>6, <1>7 DEF Next

LEMMA HandlersInit == Init => Handlers
<1> SUFFICES ASSUME Init PROVE Handlers
  OBVIOUS
<1>1. FaultTypes
  BY DEF Init, FaultTypes
<1>2. \A s \in Scopes : ~IsOpen(s)
  BY DEF Init, IsOpen
<1>3. Lined
  BY <1>2 DEF Init, Lined
<1>4. /\ \A t \in Threads : t \in Scopes /\ pc[t] = "idle"
      /\ \A f \in Functions : f \in Scopes /\ native[f] = "idle"
  BY DEF Init, Scopes
<1> QED
  BY <1>1, <1>2, <1>3, <1>4 DEF Handlers

-----------------------------------------------------------------------------
(* Where methods lead *)

Settled(m) == Untouched(m) \/ Replaced(m) \/ Redirected(m)

Ready(t) ==
  /\ HasRegion(M(t), "backup", backup[M(t)])
  /\ rest[M(t)] >= CodeAt[M(t)] + Patched(job[t])

Written(t) ==
  origin[M(t)] = IF job[t].inline THEN backup[M(t)] ELSE CodeEntry(M(t))

\* How far the installation of a busy thread has got.
Local(t) ==
  /\ pc[t] # "patch" => Untouched(M(t))
  /\ pc[t] = "patch" => entry[M(t)] = CodeEntry(M(t)) /\ code[M(t)] = "torn"
  /\ pc[t] \in {"unprotect", "backup", "patch"} => job[t].inline
  /\ pc[t] \in {"bridge", "write", "publish", "patch"} /\ job[t].inline => Ready(t)
  /\ pc[t] \in {"write", "publish", "patch"} => HasRegion(M(t), "bridge", bridge[M(t)])
  /\ pc[t] \in {"publish", "patch"} => Written(t)

\* A method that nobody installs at the moment is settled.
Entries ==
  /\ \A t \in Threads : Busy(t) => Local(t)
  /\ \A m \in Methods : (\A t \in Threads : Busy(t) => M(t) # m) => Settled(m)
  /\ \A m \in Methods : m \in failed \/ m \notin attempted => Untouched(m)

SameAt(m) ==
  /\ entry'[m] = entry[m] /\ code'[m] = code[m] /\ jump'[m] = jump[m] /\ over'[m] = over[m]
  /\ bridge'[m] = bridge[m] /\ origin'[m] = origin[m]
  /\ backup'[m] = backup[m] /\ rest'[m] = rest[m]

\* What a step does not touch stays where it was.
LEMMA FrameMethod ==
  ASSUME NEW m, SameAt(m), regions \subseteq regions'
  PROVE  /\ Untouched(m)' = Untouched(m)
         /\ Settled(m) => Settled(m)'
<1>1. /\ HasRegion(m, "bridge", bridge[m]) => HasRegion(m, "bridge", bridge[m])'
      /\ HasRegion(m, "backup", backup[m]) => HasRegion(m, "backup", backup[m])'
  BY DEF SameAt, HasRegion, ToPC
<1>2. Untouched(m)' = Untouched(m)
  BY DEF SameAt, Untouched, CodeEntry, ToPC
<1>3. Replaced(m) => Replaced(m)'
  BY <1>1 DEF SameAt, Replaced, CodeEntry, ToPC
<1>4. Redirected(m) => Redirected(m)'
  BY <1>1 DEF SameAt, Redirected, CodeEntry, ToPC
<1> QED
  BY <1>2, <1>3, <1>4 DEF Settled

LEMMA FrameLocal ==
  ASSUME NEW t, pc'[t] = pc[t], job'[t] = job[t], SameAt(M(t)), regions \subseteq regions',
         Local(t)
  PROVE  Local(t)'
<1>1. M(t)' = M(t)
  BY DEF M
<1>2. Untouched(M(t))' = Untouched(M(t))
  BY <1>1 DEF SameAt, Untouched, CodeEntry, ToPC
<1>3. /\ HasRegion(M(t), "bridge", bridge[M(t)]) => HasRegion(M(t), "bridge", bridge[M(t)])'
      /\ HasRegion(M(t), "backup", backup[M(t)]) => HasRegion(M(t), "backup", backup[M(t)])'
  BY <1>1 DEF SameAt, HasRegion, ToPC
<1>4. Ready(t) => Ready(t)'
  BY <1>1, <1>3 DEF Ready, SameAt, Patched
<1>5. Written(t) => Written(t)'
  BY <1>1 DEF Written, SameAt, CodeEntry, ToPC
<1>6. (entry[M(t)] = CodeEntry(M(t)) /\ code[M(t)] = "torn")' =
      (entry[M(t)] = CodeEntry(M(t)) /\ code[M(t)] = "torn")
  BY <1>1 DEF SameAt, CodeEntry, ToPC
<1> QED
  BY <1>2, <1>3, <1>4, <1>5, <1>6 DEF Local

\* A step of one busy thread, seen from the methods: the thread goes on with its
\* own method, or ends and leaves it settled.
LEMMA StepOfOne ==
  ASSUME InstallTypes, Owners, Entries, NEW t \in Threads, Busy(t),
         \A u \in Threads \ {t} : pc'[u] = pc[u] /\ job'[u] = job[u],
         \A m \in Methods \ {M(t)} : SameAt(m),
         regions \subseteq regions', attempted' = attempted,
         NEW m0 \in Methods, m0 = M(t),
         \/ Busy(t)' /\ job'[t] = job[t] /\ Local(t)' /\ failed' = failed
         \/ ~Busy(t)' /\ Settled(m0)' /\ failed' = failed
         \/ ~Busy(t)' /\ Untouched(m0)' /\ failed' = failed \union {m0}
  PROVE  Entries'
<1>1. \A u \in Threads \ {t} : (Busy(u)' <=> Busy(u)) /\ M(u)' = M(u)
  BY DEF Busy, M
<1>2. ASSUME NEW u \in Threads, Busy(u)'
      PROVE  Local(u)'
  <2>1. CASE u = t
    BY <1>2, <2>1
  <2>2. CASE u # t
    <3>1. M(u) \in Methods /\ M(u) # M(t)
      BY <1>1, <1>2, <2>2, JobMethod DEF Owners
    <3> QED
      BY <1>1, <1>2, <2>2, <3>1, FrameLocal DEF Entries
  <2> QED
    BY <2>1, <2>2
<1>3. ASSUME NEW m \in Methods, \A u \in Threads : Busy(u)' => M(u)' # m
      PROVE  Settled(m)'
  <2>1. CASE m = m0
    <3>1. ~(Busy(t)' /\ job'[t] = job[t])
      BY <1>3, <2>1 DEF M
    <3> QED
      BY <3>1, <2>1 DEF Settled
  <2>2. CASE m # m0
    <3>1. \A u \in Threads : Busy(u) => M(u) # m
      BY <1>1, <1>3, <2>2
    <3> QED
      BY <2>2, <3>1, FrameMethod DEF Entries
  <2> QED
    BY <2>1, <2>2
<1>4. ASSUME NEW m \in Methods, m \in failed' \/ m \notin attempted'
      PROVE  Untouched(m)'
  <2>1. CASE m = m0
    <3>1. m \in attempted /\ m \notin failed
      BY <2>1 DEF Owners
    <3> QED
      BY <1>4, <2>1, <3>1
  <2>2. CASE m # m0
    BY <1>4, <2>2, FrameMethod DEF Entries
  <2> QED
    BY <2>1, <2>2
<1> QED
  BY <1>2, <1>3, <1>4 DEF Entries

\* What a busy thread leaves alone when it goes on or ends.
LEMMA Others ==
  ASSUME InstallTypes, NEW t \in Threads, Busy(t),
         Finish(t) \/ \E l \in Labels \ {"idle"} : Continue(t, l)
  PROVE  /\ \A u \in Threads \ {t} : pc'[u] = pc[u] /\ job'[u] = job[u]
         /\ Finish(t) => ~Busy(t)'
         /\ \A l \in Labels \ {"idle"} :
              Continue(t, l) => Busy(t)' /\ pc'[t] = l /\ job'[t] = job[t] /\ failed' = failed
  BY DEF Finish, Continue, Goto, InstallTypes, Busy

LEMMA EntriesInit == Init => Entries
  BY DEF Init, Entries, Busy, Settled, Untouched

\* The allocations are the only steps that need regions; without the thumb bit an
\* installer sees that one has failed.
LEMMA EntriesStep ==
  ASSUME ~Thumb, InstallTypes, Owners, Entries, [Next]_vars
  PROVE  Entries'
<1>1. ASSUME NEW t \in Threads, NEW m \in Methods, NEW inline \in BOOLEAN, NEW skip \in BOOLEAN,
             Start(t, m, inline, skip)
      PROVE  Entries'
  <2> DEFINE j == [method |-> m, inline |-> inline, skip |-> skip]
  <2>1. /\ pc[t] = "idle" /\ m \notin attempted
        /\ attempted' = attempted \union {m}
        /\ job' = [job EXCEPT ![t] = j]
        /\ pc' = [pc EXCEPT ![t] = IF inline THEN "unprotect" ELSE "bridge"]
        /\ UNCHANGED <<memory, failed, trampolines, target>>
    BY <1>1 DEF Start, At, Goto
  <2>2. \A k \in Methods : SameAt(k)
    BY <2>1 DEF SameAt, trampolines, target
  <2>3. regions' = regions
    BY <2>1 DEF memory
  <2>4. job'[t] = j /\ pc'[t] = IF inline THEN "unprotect" ELSE "bridge"
    BY <2>1 DEF InstallTypes
  <2>5. \A u \in Threads \ {t} : pc'[u] = pc[u] /\ job'[u] = job[u]
    BY <2>1 DEF InstallTypes
  <2>6. Untouched(m)'
    BY <2>1, <2>2, <2>3, FrameMethod DEF Entries
  <2>7. M(t)' = m /\ (job[t].inline)' = inline /\ Busy(t)'
    BY <2>4 DEF M, Busy
  <2>8. Local(t)'
    BY <2>4, <2>6, <2>7 DEF Local
  <2>9. ASSUME NEW u \in Threads, Busy(u)'
        PROVE  Local(u)'
    <3>1. CASE u = t
      BY <3>1, <2>8
    <3>2. CASE u # t
      <4>1. Busy(u) /\ pc'[u] = pc[u] /\ job'[u] = job[u]
        BY <2>5, <2>9, <3>2 DEF Busy
      <4> QED
        BY <2>2, <2>3, <4>1, JobMethod, FrameLocal DEF Entries
    <3> QED
      BY <3>1, <3>2
  <2>10. ASSUME NEW k \in Methods, \A u \in Threads : Busy(u)' => M(u)' # k
         PROVE  Settled(k)'
    <3>1. \A u \in Threads : Busy(u) => M(u) # k
      BY <2>1, <2>5, <2>10 DEF Busy, M
    <3> QED
      BY <2>2, <2>3, <3>1, FrameMethod DEF Entries
  <2>11. ASSUME NEW k \in Methods, k \in failed' \/ k \notin attempted'
         PROVE  Untouched(k)'
    BY <2>1, <2>2, <2>3, <2>11, FrameMethod DEF Entries
  <2> QED
    BY <2>9, <2>10, <2>11 DEF Entries
<1>2. ASSUME NEW t \in Threads, Unprotect(t)
      PROVE  Entries'
  <2>1. /\ Busy(t) /\ pc[t] = "unprotect" /\ M(t) \in Methods
        /\ Continue(t, "backup") \/ (Fail(t) /\ Finish(t) /\ failed' = failed \union {M(t)})
        /\ UNCHANGED <<regions, attempted, trampolines, target>>
    BY <1>2, JobMethod DEF Unprotect, At, Busy, Fail, memory
  <2>2. \A k : SameAt(k)
    BY <2>1 DEF SameAt, trampolines, target
  <2>3. Local(t) /\ Untouched(M(t)) /\ job[t].inline
    BY <2>1 DEF Entries, Local
  <2>4. CASE Continue(t, "backup")
    <3>1. Busy(t)' /\ pc'[t] = "backup" /\ job'[t] = job[t] /\ failed' = failed
      BY <2>1, <2>4, Others DEF Labels
    <3>2. M(t)' = M(t) /\ Untouched(M(t))'
      BY <2>1, <2>2, <2>3, <3>1 DEF M, SameAt, Untouched, CodeEntry, ToPC
    <3>3. Local(t)'
      BY <2>3, <3>1, <3>2 DEF Local
    <3> QED
      BY <2>1, <2>2, <2>4, <3>1, <3>3, Others, StepOfOne DEF Labels
  <2>5. CASE Fail(t) /\ Finish(t) /\ failed' = failed \union {M(t)}
    <3>0. PICK m0 \in Methods : m0 = M(t)
      BY <2>1
    <3>1. Untouched(m0)'
      BY <2>1, <2>2, <2>3, <3>0, FrameMethod
    <3> QED
      BY <2>1, <2>2, <2>5, <3>0, <3>1, Others, StepOfOne
  <2> QED
    BY <2>1, <2>4, <2>5
<1>3. ASSUME NEW t \in Threads, Backup(t)
      PROVE  Entries'
  <2>1. /\ Busy(t) /\ pc[t] = "backup" /\ M(t) \in Methods
        /\ UNCHANGED <<attempted, bridge, origin, target>>
    BY <1>3, JobMethod DEF Backup, At, Busy
  <2>2. Local(t) /\ Untouched(M(t)) /\ job[t].inline
    BY <2>1 DEF Entries, Local
  <2>3. ASSUME NEW p \in Places(BackupSize), NEW s \in 0 .. Slack,
               Alloc(BackupSize, p, <<M(t), "backup">>),
               backup' = [backup EXCEPT ![M(t)] = ToPC(p)],
               rest' = [rest EXCEPT ![M(t)] = CodeAt[M(t)] + BackupBytes(job[t]) + s],
               Continue(t, "bridge")
        PROVE  Entries'
    <3>1. Busy(t)' /\ pc'[t] = "bridge" /\ job'[t] = job[t] /\ failed' = failed /\ M(t)' = M(t)
      BY <2>1, <2>3, Others DEF Labels, M
    <3>2. \A m \in Methods \ {M(t)} : SameAt(m)
      BY <2>1, <2>3 DEF SameAt, InstallTypes, target
    <3>3. regions' = regions \union {[at |-> p, size |-> BackupSize, user |-> <<M(t), "backup">>]}
      BY <2>3 DEF Alloc
    <3>4. Untouched(M(t))'
      BY <2>1, <2>2, <3>1 DEF Untouched, CodeEntry, ToPC, target
    <3>5. backup'[M(t)] = ToPC(p) /\ rest'[M(t)] = CodeAt[M(t)] + Patched(job[t]) + s
      BY <2>1, <2>3 DEF InstallTypes, BackupBytes
    <3>6. HasRegion(M(t), "backup", backup[M(t)])'
      <4>1. \E r \in regions' : r.user = <<M(t), "backup">> /\ ToPC(r.at) = backup'[M(t)]
        <5> DEFINE r == [at |-> p, size |-> BackupSize, user |-> <<M(t), "backup">>]
        <5>1. r \in regions' /\ r.user = <<M(t), "backup">> /\ r.at = p
          BY <3>3
        <5> HIDE DEF r
        <5> QED
          BY <5>1, <3>5
      <4> QED
        BY <3>1, <4>1 DEF HasRegion, ToPC
    <3>7. Ready(t)'
      <4>1. CodeAt[M(t)] \in Nat /\ Patched(job[t]) \in Nat
        BY <2>1, PlaceAssumption, PatchedNat
      <4>2. rest'[M(t)] >= CodeAt[M(t)] + Patched(job[t])
        BY <3>5, <4>1, SizeAssumption
      <4> QED
        BY <3>1, <3>6, <4>2 DEF Ready, Patched
    <3>8. Local(t)'
      BY <3>1, <3>4, <3>7 DEF Local
    <3> QED
      BY <2>1, <2>3, <3>1, <3>2, <3>3, <3>8, Others, StepOfOne DEF Labels
  <2>4. CASE AllocFails(BackupSize) /\ Fail(t) /\ UNCHANGED <<backup, rest>>
    <3>0. PICK m0 \in Methods : m0 = M(t)
      BY <2>1
    <3>1. Finish(t) /\ failed' = failed \union {m0} /\ regions' = regions
      BY <2>4, <3>0 DEF Fail, AllocFails, memory
    <3>2. \A k : SameAt(k)
      BY <2>1, <2>4 DEF SameAt, target
    <3>3. Untouched(m0)'
      BY <2>1, <2>2, <3>0, <3>1, <3>2, FrameMethod
    <3> QED
      BY <2>1, <3>0, <3>1, <3>2, <3>3, Others, StepOfOne
  <2> QED
    BY <1>3, <2>3, <2>4 DEF Backup
<1>4. ASSUME NEW t \in Threads, AllocBridge(t)
      PROVE  Entries'
  <2>1. /\ Busy(t) /\ pc[t] = "bridge" /\ M(t) \in Methods
        /\ UNCHANGED <<attempted, origin, backup, rest, target>>
    BY <1>4, JobMethod DEF AllocBridge, At, Busy
  <2>2. Local(t) /\ Untouched(M(t)) /\ (job[t].inline => Ready(t))
    BY <2>1 DEF Entries, Local
  <2>3. ASSUME NEW p \in Places(BridgeSize),
               Alloc(BridgeSize, p, <<M(t), "bridge">>),
               bridge' = [bridge EXCEPT ![M(t)] = ToPC(p)],
               Continue(t, "write")
        PROVE  Entries'
    <3>1. Busy(t)' /\ pc'[t] = "write" /\ job'[t] = job[t] /\ failed' = failed /\ M(t)' = M(t)
      BY <2>1, <2>3, Others DEF Labels, M
    <3>2. \A m \in Methods \ {M(t)} : SameAt(m)
      BY <2>1, <2>3 DEF SameAt, InstallTypes, target
    <3>3. regions' = regions \union {[at |-> p, size |-> BridgeSize, user |-> <<M(t), "bridge">>]}
      BY <2>3 DEF Alloc
    <3>4. Untouched(M(t))'
      BY <2>1, <2>2, <3>1 DEF Untouched, CodeEntry, ToPC, target
    <3>5. HasRegion(M(t), "bridge", bridge[M(t)])'
      <4>1. bridge'[M(t)] = ToPC(p)
        BY <2>1, <2>3 DEF InstallTypes
      <4>2. \E r \in regions' : r.user = <<M(t), "bridge">> /\ ToPC(r.at) = bridge'[M(t)]
        <5> DEFINE r == [at |-> p, size |-> BridgeSize, user |-> <<M(t), "bridge">>]
        <5>1. r \in regions' /\ r.user = <<M(t), "bridge">> /\ r.at = p
          BY <3>3
        <5> HIDE DEF r
        <5> QED
          BY <5>1, <4>1
      <4> QED
        BY <3>1, <4>2 DEF HasRegion, ToPC
    <3>6. job[t].inline => Ready(t)'
      BY <2>1, <2>2, <3>1, <3>3 DEF Ready, HasRegion, ToPC, Patched
    <3>7. Local(t)'
      BY <3>1, <3>4, <3>5, <3>6 DEF Local
    <3> QED
      BY <2>1, <2>3, <3>1, <3>2, <3>3, <3>7, Others, StepOfOne DEF Labels
  <2>4. ASSUME AllocFails(BridgeSize), bridge' = [bridge EXCEPT ![M(t)] = ToPC(0)], Fail(t)
        PROVE  Entries'
    <3>0. PICK m0 \in Methods : m0 = M(t)
      BY <2>1
    <3>1. Finish(t) /\ failed' = failed \union {m0} /\ regions' = regions
      BY <2>4, <3>0 DEF Fail, AllocFails, memory
    <3>2. \A k \in Methods \ {M(t)} : SameAt(k)
      BY <2>1, <2>4 DEF SameAt, target, InstallTypes
    <3>3. Untouched(m0)'
      BY <2>1, <2>2, <3>0 DEF Untouched, CodeEntry, ToPC, target
    <3> QED
      BY <2>1, <3>0, <3>1, <3>2, <3>3, Others, StepOfOne
  <2>5. ToPC(0) = 0
    BY DEF ToPC
  <2> QED
    BY <1>4, <2>3, <2>4, <2>5 DEF AllocBridge
<1>5. ASSUME NEW t \in Threads, WriteBridge(t)
      PROVE  Entries'
  <2>1. /\ Busy(t) /\ pc[t] = "write" /\ M(t) \in Methods
        /\ origin' = [origin EXCEPT ![M(t)] = IF job[t].inline THEN backup[M(t)] ELSE entry[M(t)]]
        /\ Continue(t, "publish")
        /\ UNCHANGED <<regions, attempted, bridge, backup, rest, target>>
    BY <1>5, JobMethod DEF WriteBridge, At, Busy, memory
  <2>2. /\ Local(t) /\ Untouched(M(t)) /\ (job[t].inline => Ready(t))
        /\ HasRegion(M(t), "bridge", bridge[M(t)])
    BY <2>1 DEF Entries, Local
  <2>3. Busy(t)' /\ pc'[t] = "publish" /\ job'[t] = job[t] /\ failed' = failed /\ M(t)' = M(t)
    BY <2>1, Others DEF Labels, M
  <2>4. \A m \in Methods \ {M(t)} : SameAt(m)
    BY <2>1 DEF SameAt, InstallTypes, target
  <2>5. Untouched(M(t))' /\ HasRegion(M(t), "bridge", bridge[M(t)])' /\ (job[t].inline => Ready(t)')
    BY <2>1, <2>2, <2>3 DEF Untouched, HasRegion, Ready, Patched, CodeEntry, ToPC, target
  <2>6. Written(t)'
    <3>1. origin'[M(t)] = IF job[t].inline THEN backup[M(t)] ELSE CodeEntry(M(t))
      BY <2>1, <2>2 DEF InstallTypes, Untouched
    <3> QED
      BY <2>1, <2>3, <3>1 DEF Written, CodeEntry, ToPC
  <2>7. Local(t)'
    BY <2>3, <2>5, <2>6 DEF Local
  <2> QED
    BY <2>1, <2>3, <2>4, <2>7, Others, StepOfOne DEF Labels
<1>6. ASSUME NEW t \in Threads, ReplaceEntry(t)
      PROVE  Entries'
  <2>0. PICK m0 \in Methods : m0 = M(t)
    BY <1>6, JobMethod DEF ReplaceEntry, At, Busy
  <2>1. /\ Busy(t) /\ pc[t] = "publish" /\ m0 \in Methods /\ ~job[t].inline
        /\ entry' = [entry EXCEPT ![m0] = bridge[m0]]
        /\ Finish(t) /\ failed' = failed
        /\ UNCHANGED <<regions, attempted, trampolines, code, jump, over>>
    BY <1>6, <2>0, JobMethod DEF ReplaceEntry, At, Busy, memory
  <2>2. /\ Untouched(m0) /\ HasRegion(m0, "bridge", bridge[m0])
        /\ origin[m0] = CodeEntry(m0)
    BY <2>0, <2>1 DEF Entries, Local, Written
  <2>3. \A m \in Methods \ {m0} : SameAt(m)
    BY <2>1 DEF SameAt, InstallTypes, trampolines
  <2>4. entry'[m0] = bridge[m0]
    BY <2>1 DEF InstallTypes
  <2>5. Replaced(m0)'
    BY <2>1, <2>2, <2>4 DEF Replaced, Untouched, HasRegion, CodeEntry, ToPC, trampolines
  <2>6. Settled(m0)'
    BY <2>5 DEF Settled
  <2> QED
    BY <2>0, <2>1, <2>3, <2>6, Others, StepOfOne
<1>7. ASSUME NEW t \in Threads, BeginPatch(t)
      PROVE  Entries'
  <2>1. /\ Busy(t) /\ pc[t] = "publish" /\ M(t) \in Methods /\ job[t].inline
        /\ code' = [code EXCEPT ![M(t)] = "torn"]
        /\ Continue(t, "patch")
        /\ UNCHANGED <<regions, attempted, trampolines, entry, jump, over>>
    BY <1>7, JobMethod DEF BeginPatch, At, Busy, memory
  <2>2. /\ Untouched(M(t)) /\ Ready(t) /\ Written(t)
        /\ HasRegion(M(t), "bridge", bridge[M(t)])
    BY <2>1 DEF Entries, Local
  <2>3. Busy(t)' /\ pc'[t] = "patch" /\ job'[t] = job[t] /\ failed' = failed /\ M(t)' = M(t)
    BY <2>1, Others DEF Labels, M
  <2>4. \A m \in Methods \ {M(t)} : SameAt(m)
    BY <2>1 DEF SameAt, InstallTypes, trampolines
  <2>5. (entry[M(t)] = CodeEntry(M(t)) /\ code[M(t)] = "torn")'
    BY <2>1, <2>2, <2>3 DEF InstallTypes, Untouched, CodeEntry, ToPC
  <2>6. Ready(t)' /\ Written(t)' /\ HasRegion(M(t), "bridge", bridge[M(t)])'
    BY <2>1, <2>2, <2>3 DEF Ready, Written, HasRegion, Patched, CodeEntry, ToPC, trampolines
  <2>7. Local(t)'
    BY <2>1, <2>3, <2>5, <2>6 DEF Local
  <2> QED
    BY <2>1, <2>3, <2>4, <2>7, Others, StepOfOne DEF Labels
<1>8. ASSUME NEW t \in Threads, EndPatch(t)
      PROVE  Entries'
  <2>0. PICK m0 \in Methods : m0 = M(t)
    BY <1>8, JobMethod DEF EndPatch, At, Busy
  <2>1. /\ Busy(t) /\ pc[t] = "patch" /\ m0 \in Methods
        /\ code' = [code EXCEPT ![m0] = "jump"]
        /\ jump' = [jump EXCEPT ![m0] = bridge[m0]]
        /\ over' = [over EXCEPT ![m0] = Patched(job[t])]
        /\ Finish(t) /\ failed' = failed
        /\ UNCHANGED <<regions, attempted, trampolines, entry>>
    BY <1>8, <2>0, JobMethod DEF EndPatch, At, Busy, memory
  <2>2. /\ entry[m0] = CodeEntry(m0) /\ HasRegion(m0, "bridge", bridge[m0])
        /\ origin[m0] = backup[m0] /\ HasRegion(m0, "backup", backup[m0])
        /\ rest[m0] >= CodeAt[m0] + Patched(job[t])
    BY <2>0, <2>1 DEF Entries, Local, Written, Ready
  <2>3. \A m \in Methods \ {m0} : SameAt(m)
    BY <2>1 DEF SameAt, InstallTypes, trampolines
  <2>4. code'[m0] = "jump" /\ jump'[m0] = bridge[m0] /\ over'[m0] = Patched(job[t])
    BY <2>1 DEF InstallTypes
  <2>5. Redirected(m0)'
    BY <2>1, <2>2, <2>4 DEF Redirected, HasRegion, CodeEntry, ToPC, trampolines
  <2>6. Settled(m0)'
    BY <2>5 DEF Settled
  <2> QED
    BY <2>0, <2>1, <2>3, <2>6, Others, StepOfOne
<1>9. ASSUME NEW t \in Threads, PatchFaults(t)
      PROVE  Entries'
  <2>1. UNCHANGED <<regions, attempted, failed, trampolines, target, pc, job>>
    BY <1>9 DEF PatchFaults, memory
  <2>2. \A m : SameAt(m)
    BY <2>1 DEF SameAt, trampolines, target
  <2>3. \A u \in Threads : (Busy(u)' <=> Busy(u)) /\ M(u)' = M(u)
    BY <2>1 DEF Busy, M
  <2>4. \A u \in Threads : Busy(u) /\ Local(u) => Local(u)'
    BY <2>1, <2>2, FrameLocal
  <2> QED
    BY <2>1, <2>2, <2>3, <2>4, FrameMethod DEF Entries
<1>10. CASE UNCHANGED vars
  <2>1. UNCHANGED <<regions, attempted, failed, trampolines, target, pc, job>>
    BY <1>10 DEF vars, trampolines, target
  <2>2. \A m : SameAt(m)
    BY <2>1 DEF SameAt, trampolines, target
  <2>3. \A u \in Threads : (Busy(u)' <=> Busy(u)) /\ M(u)' = M(u)
    BY <2>1 DEF Busy, M
  <2>4. \A u \in Threads : Busy(u) /\ Local(u) => Local(u)'
    BY <2>1, <2>2, FrameLocal
  <2> QED
    BY <2>1, <2>2, <2>3, <2>4, FrameMethod DEF Entries
<1>11. ASSUME NEW f \in Functions, NativeStep(f)
       PROVE  Entries'
  <2>1. UNCHANGED <<regions, attempted, failed, trampolines, target, pc, job>>
    BY <1>11, NativeLeaves DEF memory
  <2>2. \A m : SameAt(m)
    BY <2>1 DEF SameAt, trampolines, target
  <2>3. \A u \in Threads : (Busy(u)' <=> Busy(u)) /\ M(u)' = M(u)
    BY <2>1 DEF Busy, M
  <2>4. \A u \in Threads : Busy(u) /\ Local(u) => Local(u)'
    BY <2>1, <2>2, FrameLocal
  <2> QED
    BY <2>1, <2>2, <2>3, <2>4, FrameMethod DEF Entries
<1> QED
  BY <1>1, <1>2, <1>3, <1>4, <1>5, <1>6, <1>7, <1>8, <1>9, <1>10, <1>11 DEF Next

-----------------------------------------------------------------------------
(* Theorems *)

\* Types, ownership, regions and the handler are kept whatever the architecture.
IInv == InstallTypes /\ Owners /\ Allocated /\ Handlers

\* The inductive invariant of the allocator, the installers and the scopes.
THEOREM Invariance == Spec => []IInv
<1>1. Init => IInv
  BY TypeInit, HandlersInit DEF IInv
<1>2. IInv /\ [Next]_vars => IInv'
  <2>1. ASSUME IInv, [Next]_vars PROVE IInv'
    <3>1. \A t \in Threads : pc[t] # "idle" => M(t) \in Methods
      BY <2>1, JobMethod DEF IInv, Busy
    <3> QED
      BY <2>1, <3>1, TypeStep, AllocatedStep, HandlersStep DEF IInv
  <2> QED
    BY <2>1
<1> QED
  BY <1>1, <1>2, PTL DEF Spec

\* The variables of Memory, the installers and the methods keep their types.
THEOREM TypeCorrect == Spec => []TypeOK
<1>1. IInv => TypeOK
  BY DEF IInv, Handlers, TypeOK
<1> QED
  BY <1>1, Invariance, PTL

\* Memory::AllocUnprotected never hands out a byte twice or a region across pages.
THEOREM RegionsAreDisjoint == Spec => []RegionsDisjoint
<1>1. IInv => RegionsDisjoint
  <2> SUFFICES ASSUME IInv, NEW r \in regions
               PROVE  PageOf(r.at) = PageOf(r.at + r.size - 1)
    BY DEF IInv, Allocated, RegionsDisjoint, Apart
  <2> DEFINE last == r.at + r.size - 1
  <2>1. r.at \in Nat /\ r.size \in Nat \ {0} /\ last \in Nat
    BY DEF IInv, Allocated
  <2>2. r.at + r.size <= PageOf(r.at) * PageSize + PageSize
    BY DEF IInv, Allocated, InItsPage
  <2>3. PageOf(r.at) \in Nat /\ PageOf(r.at) * PageSize \in Nat /\ PageOf(r.at) * PageSize <= r.at
    BY <2>1, PageBounds, PageSizePositive
  <2>4. PageOf(r.at) * PageSize <= last /\ last < PageOf(r.at) * PageSize + PageSize
    BY <2>1, <2>2, <2>3, PageSizePositive
  <2> HIDE DEF last
  <2>5. PageOf(last) = PageOf(r.at)
    BY <2>1, <2>3, <2>4, PageIs
  <2> QED
    BY <2>5 DEF last
<1> QED
  BY <1>1, Invariance, PTL

\* hook0 and the installers, where pointers carry no thumb bit: every entry leads
\* to code that is whole, and a failed installation has changed nothing.
THEOREM EntriesStayWhole ==
  ASSUME ~Thumb
  PROVE  Spec => []EntriesAreWhole
<1>1. Init => IInv /\ Entries
  BY TypeInit, HandlersInit, EntriesInit DEF IInv
<1>2. IInv /\ Entries /\ [Next]_vars => Entries'
  BY EntriesStep DEF IInv
<1>3. IInv /\ Entries => EntriesAreWhole
  <2> SUFFICES ASSUME IInv, Entries PROVE EntriesAreWhole
    OBVIOUS
  <2>1. ASSUME NEW m \in Methods, suspended = NoThread
        PROVE  Settled(m) \/ (~suspends /\ code[m] = "torn")
    <3>1. CASE \A t \in Threads : Busy(t) => M(t) # m
      BY <3>1 DEF Entries
    <3>2. ASSUME NEW t \in Threads, Busy(t), M(t) = m
          PROVE  Settled(m) \/ (~suspends /\ code[m] = "torn")
      <4>1. ~suspends
        BY <2>1, <3>2, ThreadAssumption DEF IInv, Owners
      <4> QED
        BY <3>2, <4>1 DEF Entries, Local, Settled
    <3> QED
      BY <3>1, <3>2
  <2>2. \A m \in failed : Untouched(m)
    BY DEF Entries, IInv, InstallTypes
  <2> QED
    BY <2>1, <2>2 DEF EntriesAreWhole, Settled
<1> QED
  BY <1>1, <1>2, <1>3, Invariance, PTL DEF Spec

\* The installers, where pointers carry no thumb bit: a method enters its own code
\* or a trampoline, also while it is being installed.
THEOREM EntriesAreNeverWild ==
  ASSUME ~Thumb
  PROVE  Spec => []NoWildEntry
<1>1. Init => IInv /\ Entries
  BY TypeInit, HandlersInit, EntriesInit DEF IInv
<1>2. IInv /\ Entries /\ [Next]_vars => Entries'
  BY EntriesStep DEF IInv
<1>3. IInv /\ Entries => NoWildEntry
  BY DEF IInv, Entries, NoWildEntry, Settled, Untouched, Replaced, Redirected, Local
<1> QED
  BY <1>1, <1>2, <1>3, Invariance, PTL DEF Spec

-----------------------------------------------------------------------------
(* The signal handler *)

\* Code, pages and the jump are aligned, and the nops take less than that.
AlignedBy(a) ==
  /\ \A m \in Methods : \E n \in Nat : CodeAt[m] = a * n
  /\ \E n \in Nat : PageSize = a * n
  /\ \E n \in Nat : DirectSize = a * n
  /\ SkipSize <= a

\* A multiple that lies before the next one is not past this one.
LEMMA MultipleBelow ==
  ASSUME NEW a \in Nat \ {0}, NEW k \in Nat, NEW n \in Nat, a * k < a * n + a
  PROVE  a * k <= a * n
<1>1. a * k \in Nat /\ a * n \in Nat
  OBVIOUS
<1>2. CASE k <= n
  <2>1. PICK d \in Nat : n = k + d
    <3>1. n - k \in Nat /\ n = k + (n - k)
      BY <1>2
    <3> QED
      BY <3>1
  <2>2. a * n = a * k + a * d /\ a * d \in Nat
    BY <2>1
  <2> QED
    BY <1>1, <2>2
<1>3. CASE n < k
  <2>1. PICK d \in Nat : k = n + 1 + d
    <3>1. k - n - 1 \in Nat /\ k = n + 1 + (k - n - 1)
      BY <1>3
    <3> QED
      BY <3>1
  <2>2. a * k = a * n + a + a * d /\ a * d \in Nat
    BY <2>1
  <2> QED
    BY <1>1, <2>2
<1> QED
  BY <1>2, <1>3

\* Where the patch of aligned code leaves its first page, the next one begins no
\* later than the end of the protected range.
LEMMA SecondPageInRange ==
  ASSUME NEW a \in Nat \ {0}, AlignedBy(a), NEW t, M(t) \in Methods,
         LastPage(t) # PageOf(CodeAt[M(t)])
  PROVE  InRange(CodeAt[M(t)], LastPage(t) * PageSize)
<1> DEFINE c == CodeAt[M(t)]
           size == Patched(job[t])
           last == c + size - 1
           p == PageOf(last)
<1>1. /\ c \in Nat /\ size \in Nat \ {0} /\ last \in Nat
      /\ DirectSize \in Nat /\ size <= SkipSize + DirectSize /\ SkipSize \in Nat
      /\ c <= last
  BY PlaceAssumption, SizeAssumption DEF Patched
<1>2. /\ p \in Nat /\ p * PageSize <= last /\ p # PageOf(c)
      /\ LastPage(t) = p /\ p * PageSize \in Nat
      /\ last < p * PageSize + PageSize
  BY <1>1, PageBounds, PageSizePositive DEF LastPage
<1> HIDE DEF p
<1>3. c < p * PageSize
  <2>1. ~(p * PageSize <= c /\ c < p * PageSize + PageSize)
    BY <1>1, <1>2, PageIs
  <2> HIDE DEF c, last
  <2> QED
    BY <2>1, <1>1, <1>2, PageSizePositive
<1>4. PICK x \in Nat, y \in Nat, z \in Nat : c = a * x /\ PageSize = a * y /\ DirectSize = a * z
  BY DEF AlignedBy
<1>5. p * PageSize = a * (p * y) /\ p * y \in Nat
  BY <1>2, <1>4
<1>6. c + DirectSize = a * (x + z) /\ x + z \in Nat
  BY <1>4
<1>7. p * PageSize < c + DirectSize + a
  <2>1. last = c + size - 1
    OBVIOUS
  <2>2. size <= DirectSize + a
    BY <1>1 DEF AlignedBy
  <2> HIDE DEF c, last, size
  <2> QED
    BY <2>1, <2>2, <1>1, <1>2
<1>8. p * PageSize <= c + DirectSize
  <2>1. PICK k \in Nat, n \in Nat : k = p * y /\ n = x + z
    BY <1>5, <1>6
  <2>2. a * k < a * n + a
    BY <1>5, <1>6, <1>7, <2>1
  <2> QED
    BY <1>5, <1>6, <2>1, <2>2, MultipleBelow
<1> QED
  BY <1>2, <1>3, <1>8, <1>1 DEF InRange

\* The jump that is written over a function ends where its range does.
LEMMA SecondPageOfFunction ==
  ASSUME NEW f \in Functions, LastPageOf(f) # PageOf(f)
  PROVE  InRange(f, LastPageOf(f) * PageSize)
<1> DEFINE last == f + DirectSize - 1
           p == PageOf(last)
<1>1. f \in Nat /\ last \in Nat /\ f <= last /\ DirectSize \in Nat
  BY PlaceAssumption, SizeAssumption
<1>2. /\ p \in Nat /\ p * PageSize <= last /\ p # PageOf(f)
      /\ LastPageOf(f) = p /\ p * PageSize \in Nat
      /\ last < p * PageSize + PageSize
  BY <1>1, PageBounds, PageSizePositive DEF LastPageOf
<1> HIDE DEF p
<1>3. ~(p * PageSize <= f /\ f < p * PageSize + PageSize)
  BY <1>1, <1>2, PageIs
<1>4. f <= p * PageSize /\ p * PageSize <= f + DirectSize
  BY <1>1, <1>2, <1>3, PageSizePositive
<1> QED
  BY <1>2, <1>4 DEF InRange

\* An inline installation past Unprotect writes to a page that is writable.
InstallersOpened ==
  \A t \in Threads :
    /\ pc[t] \in {"unprotect", "backup", "patch"} => job[t].inline
    /\ pc[t] \in {"backup", "bridge", "write", "publish", "patch"} /\ job[t].inline =>
         PageOf(CodeAt[M(t)]) \in writable

\* So does the overwriting of a function.
FunctionsOpened ==
  \A f \in Functions : native[f] \in {"open", "patch"} => PageOf(f) \in writable

\* What a patch does not die of.
Survives == crashed # "range" /\ (crashed = "handler" => crossed)

LEMMA InstallersOpenedStep ==
  ASSUME IInv, InstallersOpened, [Next]_vars
  PROVE  InstallersOpened'
<1>1. \A t, u \in Threads :
        u # t /\ (Finish(t) \/ \E l \in Labels : Continue(t, l)) =>
          pc'[u] = pc[u] /\ job'[u] = job[u]
  BY DEF Finish, Continue, Goto, IInv, InstallTypes
<1>2. ASSUME NEW t \in Threads, Finish(t), writable' = writable
      PROVE  InstallersOpened'
  <2>1. pc'[t] = "idle"
    BY <1>2 DEF Finish, Goto, IInv, InstallTypes
  <2> QED
    BY <1>1, <1>2, <2>1 DEF InstallersOpened, M, PageOf
<1>3. ASSUME NEW t \in Threads, NEW l \in {"bridge", "write", "publish", "patch"}, Continue(t, l),
             writable' = writable,
             pc[t] \in {"backup", "bridge", "write", "publish"}, l = "patch" => job[t].inline
      PROVE  InstallersOpened'
  <2>1. pc'[t] = l /\ job' = job
    BY <1>3 DEF Continue, Goto, IInv, InstallTypes
  <2>2. l \in Labels
    BY DEF Labels
  <2>3. \A u \in Threads \ {t} : pc'[u] = pc[u] /\ job'[u] = job[u]
    BY <1>1, <1>3, <2>2
  <2> QED
    BY <1>3, <2>1, <2>3 DEF InstallersOpened, M, PageOf
<1>4. ASSUME NEW t \in Threads, NEW m \in Methods, NEW inline \in BOOLEAN, NEW skip \in BOOLEAN,
             Start(t, m, inline, skip)
      PROVE  InstallersOpened'
  <2>1. \A u \in Threads \ {t} : pc'[u] = pc[u] /\ job'[u] = job[u]
    BY <1>4 DEF Start, Goto, IInv, InstallTypes
  <2>2. /\ pc'[t] = (IF inline THEN "unprotect" ELSE "bridge") /\ job'[t].inline = inline
    BY <1>4 DEF Start, Goto, IInv, InstallTypes
  <2>3. writable' = writable
    BY <1>4 DEF Start
  <2> QED
    BY <2>1, <2>2, <2>3 DEF InstallersOpened, M, PageOf
<1>5. ASSUME NEW t \in Threads, Unprotect(t)
      PROVE  InstallersOpened'
  <2>1. CASE Fail(t) /\ UNCHANGED writable
    BY <1>2, <1>5, <2>1 DEF Unprotect, Fail
  <2>2. CASE writable' = writable \union {PageOf(CodeAt[M(t)])} /\ Continue(t, "backup")
    <3>1. pc'[t] = "backup" /\ job' = job
      BY <1>5, <2>2 DEF Unprotect, Continue, Goto, IInv, InstallTypes
    <3>2. "backup" \in Labels
      BY DEF Labels
    <3>3. \A u \in Threads \ {t} : pc'[u] = pc[u] /\ job'[u] = job[u]
      BY <1>1, <2>2, <3>2
    <3>4. job[t].inline
      BY <1>5 DEF Unprotect, At, InstallersOpened
    <3> QED
      BY <2>2, <3>1, <3>3, <3>4 DEF InstallersOpened, M, PageOf
  <2> QED
    BY <1>5, <2>1, <2>2 DEF Unprotect
<1>6. ASSUME NEW t \in Threads, Backup(t)
      PROVE  InstallersOpened'
  BY <1>2, <1>3, <1>6 DEF Backup, Fail, At
<1>7. ASSUME NEW t \in Threads, AllocBridge(t)
      PROVE  InstallersOpened'
  BY <1>2, <1>3, <1>7 DEF AllocBridge, Fail, At
<1>8. ASSUME NEW t \in Threads, WriteBridge(t)
      PROVE  InstallersOpened'
  BY <1>3, <1>8 DEF WriteBridge, At
<1>9. ASSUME NEW t \in Threads, ReplaceEntry(t) \/ EndPatch(t)
      PROVE  InstallersOpened'
  BY <1>2, <1>9 DEF ReplaceEntry, EndPatch
<1>10. ASSUME NEW t \in Threads, BeginPatch(t)
       PROVE  InstallersOpened'
  BY <1>3, <1>10 DEF BeginPatch, At
<1>11. ASSUME NEW t \in Threads, PatchFaults(t)
       PROVE  InstallersOpened'
  <2>1. UNCHANGED <<pc, job>> /\ writable \subseteq writable'
    BY <1>11 DEF PatchFaults, Fault
  <2> QED
    BY <2>1 DEF InstallersOpened, M, PageOf
<1>12. CASE UNCHANGED vars
  BY <1>12 DEF vars, InstallersOpened, M, PageOf
<1>13. ASSUME NEW f \in Functions, NativeStep(f)
       PROVE  InstallersOpened'
  <2>1. UNCHANGED <<pc, job>> /\ writable \subseteq writable'
    BY <1>13, NativeLeaves
  <2> QED
    BY <2>1 DEF InstallersOpened, M, PageOf
<1> QED
  BY <1>4, <1>5, <1>6, <1>7, <1>8, <1>9, <1>10, <1>11, <1>12, <1>13 DEF Next

\* Memory::Unprotect and HandleSignal only ever make pages writable.
LEMMA FunctionsOpenedStep ==
  ASSUME IInv, FunctionsOpened, [Next]_vars
  PROVE  FunctionsOpened'
<1>1. native \in [Functions -> {"idle", "open", "patch", "done"}]
  BY DEF IInv, Handlers, FaultTypes
<1>2. ASSUME NEW t \in Threads,
             \/ \E m \in Methods, inline, skip \in BOOLEAN : Start(t, m, inline, skip)
             \/ Unprotect(t) \/ Backup(t) \/ AllocBridge(t) \/ WriteBridge(t)
             \/ ReplaceEntry(t) \/ BeginPatch(t) \/ EndPatch(t)
      PROVE  FunctionsOpened'
  <2>1. native' = native /\ writable \subseteq writable'
    BY <1>2 DEF Start, Unprotect, Backup, AllocBridge, WriteBridge, ReplaceEntry, BeginPatch,
                EndPatch
  <2> QED
    BY <2>1 DEF FunctionsOpened, PageOf
<1>3. ASSUME NEW t \in Threads, PatchFaults(t)
      PROVE  FunctionsOpened'
  BY <1>3 DEF PatchFaults, Fault, FunctionsOpened, PageOf
<1>4. ASSUME NEW f \in Functions, NativeStep(f)
      PROVE  FunctionsOpened'
  <2>1. writable \subseteq writable'
    BY <1>4, NativeLeaves
  <2>2. /\ \A g \in Functions \ {f} : native'[g] = native[g]
        /\ native'[f] \in {"open", "patch"} => PageOf(f) \in writable'
    <3>1. CASE NativeUnprotect(f)
      BY <1>1, <3>1 DEF NativeUnprotect, Overwriting
    <3>2. CASE NativeBegin(f)
      BY <1>1, <2>1, <3>2 DEF NativeBegin, Overwriting, FunctionsOpened
    <3>3. CASE NativeFaults(f)
      BY <1>1, <2>1, <3>3 DEF NativeFaults, Overwriting, FunctionsOpened
    <3>4. CASE NativeEnd(f)
      BY <1>1, <3>4 DEF NativeEnd, Overwriting
    <3> QED
      BY <1>4, <3>1, <3>2, <3>3, <3>4 DEF NativeStep
  <2> QED
    BY <2>1, <2>2 DEF FunctionsOpened, PageOf
<1>5. CASE UNCHANGED vars
  BY <1>5 DEF vars, FunctionsOpened, PageOf
<1> QED
  BY <1>2, <1>3, <1>4, <1>5 DEF Next

\* Who has a scope open finds its handler, or scopes have crossed.
LEMMA OpenIsHandled ==
  ASSUME IInv, NEW s \in Scopes, IsOpen(s), ~crossed
  PROVE  handler = "library"
  BY DEF IInv, Handlers, Lined

LEMMA SurvivesStep ==
  ASSUME NEW a \in Nat \ {0}, AlignedBy(a), IInv, InstallersOpened, FunctionsOpened, Survives,
         [Next]_vars
  PROVE  Survives'
<1>1. ASSUME NEW t \in Threads,
             \/ \E m \in Methods, inline, skip \in BOOLEAN : Start(t, m, inline, skip)
             \/ Unprotect(t) \/ Backup(t) \/ AllocBridge(t) \/ WriteBridge(t)
             \/ ReplaceEntry(t) \/ BeginPatch(t)
      PROVE  Survives'
  BY <1>1 DEF Start, Unprotect, Backup, AllocBridge, WriteBridge, ReplaceEntry, BeginPatch,
              OpenScope, Survives, faults
<1>2. ASSUME NEW t \in Threads, EndPatch(t)
      PROVE  Survives'
  BY <1>2 DEF EndPatch, CloseScope, Survives
<1>3. ASSUME NEW t \in Threads, PatchFaults(t)
      PROVE  Survives'
  <2>1. /\ pc[t] = "patch" /\ LastPage(t) \notin writable /\ crossed' = crossed
        /\ Fault(CodeAt[M(t)], LastPage(t))
    BY <1>3 DEF PatchFaults, At, faults
  <2>2. M(t) \in Methods /\ LastPage(t) # PageOf(CodeAt[M(t)])
    BY <2>1, JobMethod DEF InstallersOpened, Busy, IInv
  <2>3. InRange(CodeAt[M(t)], LastPage(t) * PageSize)
    BY <2>2, SecondPageInRange
  <2>4. crossed \/ handler = "library"
    BY <2>1, OpenIsHandled DEF IInv, Handlers, Scopes
  <2>5. crashed' \in {crashed, "mprotect"} \/ (crashed' = "handler" /\ crossed)
    BY <2>1, <2>3, <2>4 DEF Fault
  <2> QED
    BY <2>1, <2>5 DEF Survives
<1>4. ASSUME NEW f \in Functions, NativeUnprotect(f) \/ NativeBegin(f) \/ NativeEnd(f)
      PROVE  Survives'
  BY <1>4 DEF NativeUnprotect, NativeBegin, NativeEnd, OpenScope, CloseScope, Survives, faults
<1>5. ASSUME NEW f \in Functions, NativeFaults(f)
      PROVE  Survives'
  <2>1. /\ native[f] = "patch" /\ LastPageOf(f) \notin writable /\ crossed' = crossed
        /\ Fault(f, LastPageOf(f))
    BY <1>5 DEF NativeFaults, Overwriting, faults
  <2>2. LastPageOf(f) # PageOf(f)
    BY <2>1 DEF FunctionsOpened
  <2>3. InRange(f, LastPageOf(f) * PageSize)
    BY <2>2, SecondPageOfFunction
  <2>4. crossed \/ handler = "library"
    BY <2>1, OpenIsHandled DEF IInv, Handlers, Scopes
  <2>5. crashed' \in {crashed, "mprotect"} \/ (crashed' = "handler" /\ crossed)
    BY <2>1, <2>3, <2>4 DEF Fault
  <2> QED
    BY <2>1, <2>5 DEF Survives
<1>6. CASE UNCHANGED vars
  BY <1>6 DEF vars, Survives
<1> QED
  BY <1>1, <1>2, <1>3, <1>4, <1>5, <1>6 DEF Next, NativeStep

\* ScopedMemoryAccessProtection knows nothing of the nops in front of the jump, and
\* its handler is the process's; aligned code makes up for the first: a patch that runs
\* into a second page faults inside the range of its scope, and as long as no scope was
\* closed under another the library's handler gets the fault, for any place of the code
\* and any number of installers and of overwritten functions.
THEOREM FaultsStayInRange ==
  ASSUME NEW a \in Nat \ {0}, AlignedBy(a)
  PROVE  Spec => []FaultsAreInRange
<1> DEFINE Opened == InstallersOpened /\ FunctionsOpened /\ Survives
<1>1. Init => Opened
  BY DEF Init, InstallersOpened, FunctionsOpened, Survives
<1>2. IInv /\ Opened /\ [Next]_vars => Opened'
  BY InstallersOpenedStep, FunctionsOpenedStep, SurvivesStep
<1>3. Opened => FaultsAreInRange
  BY DEF Survives, FaultsAreInRange
<1> QED
  BY <1>1, <1>2, <1>3, Invariance, PTL DEF Spec

\* Scopes that are closed in the reverse order of their opening, or side by side with
\* the first one outliving the others, leave SIGSEGV to the application again: the
\* handler stays only where scopes have crossed.
THEOREM HandlerIsGivenBack == Spec => []HandlerComesBack
<1>1. IInv => HandlerComesBack
  BY DEF IInv, Handlers, Lined, IsOpen, HandlerComesBack
<1> QED
  BY <1>1, Invariance, PTL

-----------------------------------------------------------------------------
(* What an inline hook copies                                                 *)

LEMMA NatRel == OpToRel(<, Nat) = {ss \in Nat \X Nat : ss[1] < ss[2]}
BY DEF OpToRel

\* Every set of natural numbers that is not empty has a least one.
LEMMA NatMin ==
  ASSUME NEW T, T \subseteq Nat, T # {}
  PROVE  \E n \in T : \A m \in T : n <= m
<1> DEFINE R == OpToRel(<, Nat)
<1>1. IsWellFoundedOn(R, Nat)
  BY NatLessThanWellFounded
<1>2. R = {ss \in Nat \X Nat : ss[1] < ss[2]}
  BY NatRel
<1> HIDE DEF R
<1>3. PICK x \in T : \A y \in T : ~(<<y, x>> \in R)
  BY <1>1, WFMin
<1>4. ASSUME NEW m \in T, m < x PROVE FALSE
  <2>1. <<m, x>> \in Nat \X Nat /\ <<m, x>>[1] = m /\ <<m, x>>[2] = x
    OBVIOUS
  <2>2. <<m, x>> \in R
    BY <1>2, <1>4, <2>1
  <2> QED BY <1>3, <2>2
<1> QED BY <1>4

\* Induction over the natural numbers, the hypothesis being a set.
LEMMA Induction ==
  ASSUME NEW S, 0 \in S, \A n \in Nat : n \in S => n + 1 \in S
  PROVE  Nat \subseteq S
<1> SUFFICES ASSUME Nat \ S # {} PROVE FALSE
  OBVIOUS
<1> DEFINE R == Nat \ S
<1>1. R \subseteq Nat /\ R # {}
  OBVIOUS
<1>2. PICK n \in R : \A m \in R : n <= m
  BY <1>1, NatMin
<1>3. n \in Nat /\ n # 0 /\ n - 1 \in Nat /\ ~(n <= n - 1)
  OBVIOUS
<1>4. n - 1 \in S
  BY <1>2, <1>3
<1>5. (n - 1) + 1 = n
  BY <1>3
<1> QED BY <1>3, <1>4, <1>5

\* The function that Offsets is defined with.
Walks(at, words, n) == at = [k \in 0..n |-> IF k = 0 THEN 0 ELSE at[k - 1] + Size(words, at[k - 1])]

LEMMA WalkExists ==
  ASSUME NEW words, NEW n \in Nat
  PROVE  \E at : Walks(at, words, n)
<1> DEFINE S == {m \in Nat : \E at : Walks(at, words, m)}
<1>1. 0 \in S
  <2> DEFINE at == [k \in 0..0 |-> 0]
  <2>1. at = [k \in 0..0 |-> IF k = 0 THEN 0 ELSE at[k - 1] + Size(words, at[k - 1])]
    OBVIOUS
  <2>2. Walks(at, words, 0)
    BY <2>1 DEF Walks
  <2> QED BY <2>2
<1>2. ASSUME NEW m \in Nat, m \in S PROVE m + 1 \in S
  <2>1. PICK at : Walks(at, words, m)
    BY <1>2
  <2> DEFINE to == [k \in 0..(m + 1) |-> IF k <= m THEN at[k]
                     ELSE at[k - 1] + Size(words, at[k - 1])]
  <2>2. \A k \in 0..m : at[k] = IF k = 0 THEN 0 ELSE at[k - 1] + Size(words, at[k - 1])
    BY <2>1 DEF Walks
  <2>3. ASSUME NEW k \in 0..(m + 1)
        PROVE  to[k] = IF k = 0 THEN 0 ELSE to[k - 1] + Size(words, to[k - 1])
    <3>1. CASE k = 0
      BY <2>2, <3>1
    <3>2. CASE k # 0
      <4>1. k - 1 \in 0..(m + 1) /\ k - 1 <= m
        BY <3>2
      <4>2. to[k - 1] = at[k - 1]
        BY <4>1
      <4>3. to[k] = at[k - 1] + Size(words, at[k - 1])
        <5>1. CASE k <= m
          <6>1. k \in 0..m
            BY <5>1
          <6>2. at[k] = at[k - 1] + Size(words, at[k - 1])
            BY <2>2, <3>2, <6>1
          <6> QED BY <5>1, <6>2
        <5>2. CASE ~(k <= m)
          BY <5>2
        <5> QED BY <5>1, <5>2
      <4> QED BY <3>2, <4>2, <4>3
    <3> QED BY <3>1, <3>2
  <2>4. DOMAIN to = 0..(m + 1) /\ to = [k \in 0..(m + 1) |-> to[k]]
    OBVIOUS
  <2> HIDE DEF to
  <2>5. to = [k \in 0..(m + 1) |-> IF k = 0 THEN 0 ELSE to[k - 1] + Size(words, to[k - 1])]
    BY <2>3, <2>4
  <2>6. Walks(to, words, m + 1)
    BY <2>5 DEF Walks
  <2> QED BY <2>6
<1>3. Nat \subseteq S
  <2> HIDE DEF S
  <2> QED BY <1>1, <1>2, Induction
<1> QED BY <1>3

LEMMA OffsetsStart ==
  ASSUME NEW words, NEW n \in Nat
  PROVE  /\ Offsets(words, n)[0] = 0
         /\ \A k \in 1..n : Offsets(words, n)[k]
                              = Offsets(words, n)[k - 1] + Size(words, Offsets(words, n)[k - 1])
<1> DEFINE at == CHOOSE g : Walks(g, words, n)
<1>1. Offsets(words, n) = at
  BY DEF Offsets, Walks
<1>2. Walks(at, words, n)
  BY WalkExists
<1> HIDE DEF at
<1>3. \A k \in 0..n : at[k] = IF k = 0 THEN 0 ELSE at[k - 1] + Size(words, at[k - 1])
  BY <1>2 DEF Walks
<1>4. 0 \in 0..n /\ \A k \in 1..n : k \in 0..n /\ k # 0
  OBVIOUS
<1>5. at[0] = 0 /\ \A k \in 1..n : at[k] = at[k - 1] + Size(words, at[k - 1])
  BY <1>3, <1>4
<1> QED BY <1>1, <1>5

\* Instructions begin at even addresses and take two or four bytes.
LEMMA OffsetsAre ==
  ASSUME NEW words, NEW n \in Nat, NEW at, at = Offsets(words, n)
  PROVE  /\ at[0] = 0
         /\ \A k \in 0..n : at[k] \in Nat /\ at[k] >= 2 * k /\ \E h \in Nat : at[k] = 2 * h
         /\ \A k \in 1..n : at[k] = at[k - 1] + 2 \/ at[k] = at[k - 1] + 4
<1>1. at[0] = 0 /\ \A k \in 1..n : at[k] = at[k - 1] + Size(words, at[k - 1])
  BY OffsetsStart
<1>2. \A k \in 1..n : at[k] = at[k - 1] + 2 \/ at[k] = at[k - 1] + 4
  BY <1>1 DEF Size
<1> DEFINE S == {k \in Nat : k <= n => at[k] \in Nat /\ at[k] >= 2 * k /\ \E h \in Nat : at[k] = 2 * h}
<1>3. 0 \in S
  <2>1. 0 = 2 * 0 /\ 0 \in Nat
    OBVIOUS
  <2> QED BY <1>1, <2>1
<1>4. ASSUME NEW k \in Nat, k \in S PROVE k + 1 \in S
  <2> SUFFICES ASSUME k + 1 <= n
               PROVE  /\ at[k + 1] \in Nat /\ at[k + 1] >= 2 * (k + 1)
                      /\ \E h \in Nat : at[k + 1] = 2 * h
    OBVIOUS
  <2>1. PICK h \in Nat : at[k] = 2 * h /\ at[k] \in Nat /\ at[k] >= 2 * k
    BY <1>4
  <2>2. PICK j \in 1..n : j = k + 1
    OBVIOUS
  <2>3. at[j] = at[k] + 2 \/ at[j] = at[k] + 4
    <3>1. j - 1 = k
      BY <2>2
    <3> QED BY <1>2, <2>2, <3>1
  <2>4. at[j] = 2 * (h + 1) \/ at[j] = 2 * (h + 2)
    BY <2>1, <2>3
  <2>5. h + 1 \in Nat /\ h + 2 \in Nat
    OBVIOUS
  <2>6. at[j] \in Nat /\ at[j] >= 2 * (k + 1)
    BY <2>1, <2>3
  <2> QED BY <2>2, <2>4, <2>5, <2>6
<1>5. Nat \subseteq S
  <2> HIDE DEF S
  <2> QED BY <1>3, <1>4, Induction
<1>6. \A k \in 0..n : k \in Nat /\ k <= n
  OBVIOUS
<1>7. \A k \in 0..n : at[k] \in Nat /\ at[k] >= 2 * k /\ \E h \in Nat : at[k] = 2 * h
  BY <1>5, <1>6
<1> QED BY <1>1, <1>2, <1>7

\* Of two walks over the same code the longer one goes on from the shorter one.
LEMMA OffsetsAgree ==
  ASSUME NEW words, NEW m \in Nat, NEW n \in Nat, NEW k \in 0..m, k \in 0..n
  PROVE  Offsets(words, m)[k] = Offsets(words, n)[k]
<1> DEFINE a == Offsets(words, m)
           b == Offsets(words, n)
           S == {j \in Nat : j <= m /\ j <= n => a[j] = b[j]}
<1>1. /\ a[0] = 0
      /\ \A j \in 1..m : a[j] = a[j - 1] + Size(words, a[j - 1])
  BY OffsetsStart
<1>2. /\ b[0] = 0
      /\ \A j \in 1..n : b[j] = b[j - 1] + Size(words, b[j - 1])
  BY OffsetsStart
<1> HIDE DEF a, b
<1>3. 0 \in S
  BY <1>1, <1>2
<1>4. ASSUME NEW j \in Nat, j \in S PROVE j + 1 \in S
  <2> SUFFICES ASSUME j + 1 <= m, j + 1 <= n PROVE a[j + 1] = b[j + 1]
    OBVIOUS
  <2>1. j + 1 \in 1..m /\ j + 1 \in 1..n /\ (j + 1) - 1 = j
    OBVIOUS
  <2>2. a[j] = b[j]
    BY <1>4, <2>1
  <2>3. a[j + 1] = a[j] + Size(words, a[j]) /\ b[j + 1] = b[j] + Size(words, b[j])
    BY <1>1, <1>2, <2>1
  <2> QED BY <2>2, <2>3
<1>5. Nat \subseteq S
  <2> HIDE DEF S
  <2> QED BY <1>3, <1>4, Induction
<1>6. k \in Nat /\ k <= m /\ k <= n
  OBVIOUS
<1>7. a[k] = b[k]
  BY <1>5, <1>6
<1> QED BY <1>7 DEF a, b

\* Later instructions lie behind earlier ones.
LEMMA OffsetsRise ==
  ASSUME NEW words, NEW n \in Nat, NEW at, at = Offsets(words, n),
         NEW j \in 0..n, NEW k \in 0..n, j <= k
  PROVE  at[j] <= at[k]
<1>1. \A i \in 1..n : at[i] = at[i - 1] + 2 \/ at[i] = at[i - 1] + 4
  BY OffsetsAre
<1>2. \A i \in 0..n : at[i] \in Nat
  BY OffsetsAre
<1> DEFINE S == {i \in Nat : j + i <= n => at[j] <= at[j + i]}
<1>3. 0 \in S
  <2>1. j + 0 = j /\ at[j] \in Nat
    BY <1>2
  <2> QED BY <2>1
<1>4. ASSUME NEW i \in Nat, i \in S PROVE i + 1 \in S
  <2> SUFFICES ASSUME j + (i + 1) <= n PROVE at[j] <= at[j + (i + 1)]
    OBVIOUS
  <2>1. PICK h \in 1..n : h = j + (i + 1)
    OBVIOUS
  <2>2. h - 1 = j + i /\ j + i \in 0..n
    BY <2>1
  <2>3. at[h] = at[j + i] + 2 \/ at[h] = at[j + i] + 4
    BY <1>1, <2>2
  <2>4. at[j] <= at[j + i]
    BY <1>4, <2>2
  <2>5. at[j] \in Nat /\ at[j + i] \in Nat
    BY <1>2, <2>2
  <2> QED BY <2>1, <2>3, <2>4, <2>5
<1>5. Nat \subseteq S
  <2> HIDE DEF S
  <2> QED BY <1>3, <1>4, Induction
<1>6. k - j \in Nat /\ j + (k - j) = k /\ k <= n
  OBVIOUS
<1>7. j + (k - j) <= n => at[j] <= at[j + (k - j)]
  BY <1>5, <1>6
<1> QED BY <1>6, <1>7

\* The first instruction that does not begin within the first n bytes.
FirstReached(at, n, k) == k \in 0..n /\ at[k] >= n /\ \A j \in 0..(k - 1) : at[j] < n

LEMMA BackupReaches ==
  ASSUME NEW words, NEW n \in Nat, NEW at, at = Offsets(words, n)
  PROVE  \E k \in 0..n : FirstReached(at, n, k) /\ GetBackupCodeSize(words, n) = at[k]
<1> DEFINE T == {k \in 0..n : at[k] >= n}
           c == CHOOSE k \in 0..n : at[k] >= n /\ \A j \in 0..(k - 1) : at[j] < n
<1>1. \A k \in 0..n : at[k] \in Nat /\ at[k] >= 2 * k
  BY OffsetsAre
<1>2. n \in T
  <2>1. n \in 0..n /\ at[n] \in Nat /\ at[n] >= 2 * n
    BY <1>1
  <2> QED BY <2>1
<1>3. T \subseteq Nat /\ T # {}
  BY <1>2
<1>4. PICK k \in T : \A m \in T : k <= m
  <2> HIDE DEF T
  <2> QED BY <1>3, NatMin
<1>5. ASSUME NEW j \in 0..(k - 1) PROVE at[j] < n
  <2>1. j \in 0..n /\ ~(k <= j)
    BY <1>3
  <2>2. ~(j \in T)
    BY <1>4, <2>1
  <2> QED BY <1>1, <2>1, <2>2
<1>6. \E x \in 0..n : at[x] >= n /\ \A j \in 0..(x - 1) : at[j] < n
  BY <1>4, <1>5
<1>7. c \in 0..n /\ at[c] >= n /\ \A j \in 0..(c - 1) : at[j] < n
  BY <1>6
<1>8. GetBackupCodeSize(words, n) = at[c]
  BY DEF GetBackupCodeSize
<1>9. FirstReached(at, n, c)
  BY <1>7 DEF FirstReached
<1> QED BY <1>7, <1>8, <1>9

\* What GetBackupCodeSize returns (thumb2.cpp:93-104) for an even number of bytes:
\* this many or two more, always whole instructions, and no more of them than it
\* takes: code that ends behind an instruction is never read beyond its end.
THEOREM BackupIsWhole ==
  ASSUME NEW words, NEW half \in Nat, NEW size \in Nat, size = 2 * half
  PROVE  /\ GetBackupCodeSize(words, size) \in {size, size + 2}
         /\ \E k \in 0..size : Offsets(words, size)[k] = GetBackupCodeSize(words, size)
         /\ \A length \in Nat :
              /\ length >= size
              /\ \E k \in 0..length : Offsets(words, length)[k] = length
              => GetBackupCodeSize(words, size) <= length
<1> DEFINE at == Offsets(words, size)
<1>1. /\ at[0] = 0
      /\ \A k \in 0..size : at[k] \in Nat /\ at[k] >= 2 * k /\ \E h \in Nat : at[k] = 2 * h
      /\ \A k \in 1..size : at[k] = at[k - 1] + 2 \/ at[k] = at[k - 1] + 4
  BY OffsetsAre
<1>2. PICK k \in 0..size : FirstReached(at, size, k) /\ GetBackupCodeSize(words, size) = at[k]
  BY BackupReaches
<1>3. at[k] >= size /\ \A j \in 0..(k - 1) : at[j] < size
  BY <1>2 DEF FirstReached
<1>4. at[k] \in {size, size + 2}
  <2> HIDE DEF at
  <2>1. CASE k = 0
    BY <1>1, <1>3, <2>1
  <2>2. CASE k # 0
    <3>1. k \in 1..size /\ k - 1 \in 0..(k - 1) /\ k - 1 \in 0..size
      BY <2>2
    <3>2. at[k - 1] < size /\ (at[k] = at[k - 1] + 2 \/ at[k] = at[k - 1] + 4)
      BY <1>1, <1>3, <3>1
    <3>3. PICK h \in Nat : at[k] = 2 * h
      BY <1>1
    <3>4. PICK g \in Nat : at[k - 1] = 2 * g
      BY <1>1, <3>1
    <3> QED BY <1>3, <3>2, <3>3, <3>4
  <2> QED BY <2>1, <2>2
<1>5. ASSUME NEW length \in Nat, length >= size,
             NEW e \in 0..length, Offsets(words, length)[e] = length
      PROVE  at[k] <= length
  <2> DEFINE to == Offsets(words, length)
  <2>1. CASE k <= e
    <3>1. k \in 0..length
      BY <1>5
    <3>2. at[k] = to[k]
      BY <3>1, OffsetsAgree
    <3>3. to[k] <= to[e]
      BY <2>1, <3>1, OffsetsRise
    <3> QED BY <1>5, <3>2, <3>3
  <2>2. CASE ~(k <= e)
    <3>1. e \in 0..(k - 1) /\ e \in 0..size
      BY <2>2
    <3>2. at[e] = to[e]
      BY <3>1, OffsetsAgree
    <3>3. at[e] < size
      BY <1>3, <3>1
    <3>4. to[e] = length
      BY <1>5
    <3> HIDE DEF at, to
    <3> QED BY <1>5, <3>2, <3>3, <3>4
  <2> QED BY <2>1, <2>2
<1> QED BY <1>2, <1>4, <1>5

\* The choice that the action Backup leaves open is within its bounds: for a jump
\* and a skip of an even number of bytes, GetBackupCodeSize takes what is patched
\* and a remainder of at most Slack, and the copy fits the trampoline
\* (thumb2.cpp:106-121; the space is that of trampoline/arch/thumb2.S).
THEOREM BackupFits ==
  ASSUME NEW words, NEW j \in Jobs, NEW half \in Nat, BackupBytes(j) = 2 * half, Slack >= 2
  PROVE  \E s \in 0..Slack : /\ GetBackupCodeSize(words, BackupBytes(j)) = BackupBytes(j) + s
                             /\ BackupBytes(j) + s <= Override
<1> DEFINE n == BackupBytes(j)
<1>1. n \in Nat /\ n <= DirectSize + SkipSize
  BY SizeAssumption DEF BackupBytes, Patched
<1>2. GetBackupCodeSize(words, n) \in {n, n + 2}
  BY <1>1, BackupIsWhole
<1>3. 0 \in 0..Slack /\ 2 \in 0..Slack /\ n + 0 = n
  BY <1>1, SizeAssumption
<1>4. n + 0 <= Override /\ n + 2 <= Override
  BY <1>1, SizeAssumption
<1> QED BY <1>2, <1>3, <1>4

\* What the checks of hook0 establish (trampoline_installer.h:50-79): when an inline
\* hook is safe, and the first bytes are skipped only when they can be, the patch
\* lies within the code and none of the instructions that are copied, the last one
\* included, is one of those that CannotBackup looks for.
THEOREM NothingRelatedIsCopied ==
  ASSUME NEW words, NEW length \in Nat, NEW direct \in Nat, NEW skipped \in Nat,
         NEW skips \in BOOLEAN, NEW n \in Nat,
         ~CannotSafeInlineHook(words, length, direct),
         skips => CanSkipFirstFewBytes(words, length, direct + skipped),
         n = IF skips THEN direct + skipped ELSE direct
  PROVE  /\ n <= length
         /\ \A k \in 0..n : Offsets(words, n)[k] < GetBackupCodeSize(words, n)
                              => ~IsPCRelated(words, Offsets(words, n)[k])
<1> DEFINE at == Offsets(words, n)
<1>1. n <= length /\ ~CannotBackup(words, n)
  BY DEF CannotSafeInlineHook, CanSkipFirstFewBytes
<1>2. \A k \in 0..n : at[k] < n => ~IsPCRelated(words, at[k])
  BY <1>1 DEF CannotBackup
<1>3. PICK b \in 0..n : FirstReached(at, n, b) /\ GetBackupCodeSize(words, n) = at[b]
  BY BackupReaches
<1>4. \A k \in 0..n : at[k] \in Nat
  BY OffsetsAre
<1>5. ASSUME NEW k \in 0..n, at[k] < at[b] PROVE at[k] < n
  <2>1. ~(b <= k)
    <3> SUFFICES ASSUME b <= k PROVE FALSE
      OBVIOUS
    <3>1. at[b] <= at[k]
      BY OffsetsRise
    <3> HIDE DEF at
    <3> QED BY <1>4, <1>5, <3>1
  <2>2. k \in 0..(b - 1)
    BY <2>1
  <2> QED BY <1>3, <2>2 DEF FirstReached
<1> QED BY <1>1, <1>2, <1>3, <1>5

\* What the halfwords below 61440 (0xf000) have in their upper bits.
LEMMA BitsBelow ==
  ASSUME NEW w \in Halfwords, w < 61440
  PROVE  /\ Bits(w, 2048, 32) < 30
         /\ Bits(w, 256, 256) < 240
<1>1. w \in Nat
  BY DEF Halfwords
<1>2. (w \div 2048) \in 0..29
  BY <1>1
<1>3. (w \div 256) \in 0..239
  BY <1>1
<1>4. \A d \in 0..29 : d % 32 = d
  OBVIOUS
<1>5. \A d \in 0..239 : d % 256 = d
  OBVIOUS
<1>6. (w \div 2048) % 32 = w \div 2048
  BY <1>2, <1>4
<1>7. (w \div 256) % 256 = w \div 256
  BY <1>3, <1>5
<1> QED BY <1>2, <1>3, <1>6, <1>7 DEF Bits

\* An instruction that loads a literal is not the second half of a table branch.
LEMMA BitsOfLiteral ==
  ASSUME NEW w \in Halfwords, Bits(w, 1, 128) = 95
  PROVE  ~(Bits(w, 16, 16) \in {0, 1})
<1>1. w \in Nat
  BY DEF Halfwords
<1>2. w % 128 = 95
  <2>1. w \div 1 = w
    BY <1>1
  <2> QED BY <2>1 DEF Bits
<1>3. PICK q \in Nat : w = 128 * q + 95
  <2>1. w = 128 * (w \div 128) + (w % 128) /\ w \div 128 \in Nat
    BY <1>1
  <2> QED BY <1>2, <2>1
<1>4. w \div 16 = 8 * q + 5
  BY <1>3
<1>5. \A n \in Nat : (8 * n + 5) % 8 = 5 /\ \A d \in Nat : d % 16 \in {0, 1} => d % 8 \in {0, 1}
  OBVIOUS
<1>6. 8 * q + 5 \in Nat
  OBVIOUS
<1>7. ~((8 * q + 5) % 16 \in {0, 1})
  BY <1>5, <1>6
<1> QED BY <1>4, <1>7 DEF Bits

LEMMA HalfwordIsInt == ASSUME NEW w \in Halfwords PROVE w \in Int
BY DEF Halfwords

LEMMA BitsBound ==
  ASSUME NEW w \in Halfwords
  PROVE  /\ Bits(w, 4096, 16) # 15 => w < 61440
         /\ Bits(w, 16384, 4) = 2 => w < 49152
         /\ Bits(w, 32768, 2) = 0 => w < 32768
<1>1. Bits(w, 4096, 16) # 15 => w < 61440
  BY DEF Bits, Halfwords
<1>2. Bits(w, 16384, 4) = 2 => w < 49152
  BY DEF Bits, Halfwords
<1>3. Bits(w, 32768, 2) = 0 => w < 32768
  BY DEF Bits, Halfwords
<1> QED BY <1>1, <1>2, <1>3

LEMMA TableBranchBits ==
  /\ Bits(59615, 4096, 2) = 0
  /\ Bits(59615, 16384, 4) = 3
  /\ Bits(59615, 32768, 2) = 1
  /\ Bits(59615, 16, 16) = 13
BY DEF Bits

\* The comments at thumb2.cpp:50-56 name the instructions that the masks are for,
\* but the masks are written for a word with the first halfword on top, and the
\* word that CannotBackup reads has it at the bottom.  Of the encodings that these
\* masks describe, none is recognized whose second halfword does not begin with
\* four ones: no b.w, adr.w or table branch, no literal load but into the program
\* counter, and no bl but to the nearer half of its range.
THEOREM MasksMissTheirInstructions ==
  ASSUME NEW first \in Halfwords, NEW second \in Halfwords, Thumb32Cases(first, second)
  PROVE  /\ IsThumb32PCRelatedInst(first, second) => second >= 61440
         /\ Branch(first, second) => ~IsThumb32PCRelatedInst(first, second)
         /\ Adr(first, second) => ~IsThumb32PCRelatedInst(first, second)
         /\ TableBranch(first, second) => ~IsThumb32PCRelatedInst(first, second)
<1>1. ASSUME second < 61440 PROVE ~IsThumb32PCRelatedInst(first, second)
  <2>1. /\ Bits(second, 2048, 32) < 30 /\ Bits(second, 256, 256) < 240
    BY <1>1, BitsBelow
  <2>2. ~(30 < 30) /\ ~(31 < 30) /\ ~(248 < 240)
    OBVIOUS
  <2>3. /\ ~BranchLink(second, first) /\ ~Branch(second, first)
        /\ ~Adr(second, first) /\ ~Ldr(second, first)
    BY <2>1, <2>2 DEF BranchLink, Branch, Adr, Ldr
  <2>4. ~TableBranch(second, first)
    <3> SUFFICES ASSUME second = 59615, Bits(first, 16, 16) \in {0, 1} PROVE FALSE
      BY DEF TableBranch
    <3>1. ~BranchLink(first, second) /\ ~Branch(first, second) /\ ~Adr(first, second)
      BY TableBranchBits DEF BranchLink, Branch, Adr
    <3>2. ~TableBranch(first, second)
      BY TableBranchBits DEF TableBranch
    <3>3. ~Ldr(first, second)
      BY BitsOfLiteral DEF Ldr
    <3> QED BY <3>1, <3>2, <3>3 DEF Thumb32Cases
  <2> QED BY <2>3, <2>4 DEF IsThumb32PCRelatedInst, Thumb32Cases
<1>2. /\ first \in Int
      /\ second \in Int
  BY HalfwordIsInt
<1>3. IsThumb32PCRelatedInst(first, second) => second >= 61440
  BY <1>1, <1>2
<1>4. Branch(first, second) => ~IsThumb32PCRelatedInst(first, second)
  <2>1. Branch(first, second) => second < 49152
    BY BitsBound DEF Branch
  <2> QED BY <1>1, <1>2, <2>1
<1>5. Adr(first, second) => ~IsThumb32PCRelatedInst(first, second)
  <2>1. Adr(first, second) => second < 32768
    BY BitsBound DEF Adr
  <2> QED BY <1>1, <1>2, <2>1
<1>6. ASSUME TableBranch(first, second) PROVE ~IsThumb32PCRelatedInst(first, second)
  <2>1. first = 59615 /\ Bits(second, 16, 16) \in {0, 1}
    BY <1>6 DEF TableBranch
  <2>2. ~BranchLink(second, first) /\ ~Branch(second, first) /\ ~Adr(second, first)
    BY <2>1, TableBranchBits DEF BranchLink, Branch, Adr
  <2>3. ~Ldr(second, first)
    BY <2>1, BitsOfLiteral DEF Ldr
  <2>4. ~TableBranch(second, first)
    BY <2>1, TableBranchBits DEF TableBranch
  <2> QED BY <2>2, <2>3, <2>4 DEF IsThumb32PCRelatedInst, Thumb32Cases
<1> QED BY <1>3, <1>4, <1>5, <1>6
=============================================================================
