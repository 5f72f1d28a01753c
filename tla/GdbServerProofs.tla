--------------------------- MODULE GdbServerProofs ---------------------------
(***************************************************************************)
(* Proofs about the gdb stub: its table of threads, the buffers and what   *)
(* is in them, the order of the answers, and the translation of signals.   *)
(***************************************************************************)
EXTENDS GdbServer, FiniteSetTheorems, WellFoundedInduction, SequenceTheorems, TLAPS

\* Every signal that a thread can stop with survives the way to the debugger
\* and back (gdb_signal_from_host and gdb_signal_to_host), whichever of the
\* named or real-time signals it is.
THEOREM SignalsSurvive == SignalsRoundTrip
<1> SUFFICES ASSUME NEW s \in 1..64 \ {16}
             PROVE  ToHost(FromHost(s)) = s
  BY DEF SignalsRoundTrip
<1>1. CASE s \in 32..64
  <2>1. ~\E n \in Names : HostNumber[n] = s
    BY <1>1 DEF Names, HostNumber
  <2>2. FromHost(s) = FromRealtime(s)
    BY <1>1, <2>1 DEF FromHost, RealtimeLo, RealtimeHi
  <2>3. FromRealtime(s) \in 45..78 /\ ToRealtime(FromRealtime(s)) = s
    BY <1>1 DEF FromRealtime, ToRealtime, Realtime33, Realtime63, Realtime32, Realtime64,
                Realtime127, Unknown
  <2>4. ~\E n \in Names : GdbNumber[n] = FromRealtime(s)
    BY <2>3 DEF Names, HostNumber, GdbNumber
  <2> QED BY <1>1, <2>2, <2>3, <2>4 DEF ToHost, HasHost, Named, RealtimeLo, RealtimeHi
<1>2. CASE s \in 1..31
  <2>1. \E n \in Names \ {"POLL"} : HostNumber[n] = s
    BY <1>2 DEF Names, HostNumber
  <2>2. PICK n \in Names \ {"POLL"} : n = FromName(s)
    BY <2>1 DEF FromName
  <2>3. HostNumber[n] = s
    BY <2>1, <2>2 DEF FromName
  <2>4. FromHost(s) = GdbNumber[n]
    BY <1>2, <2>1, <2>2 DEF FromHost
  <2>5. \A m \in Names : GdbNumber[m] = GdbNumber[n] => m = n
    BY DEF Names, HostNumber, GdbNumber
  <2> QED BY <2>3, <2>4, <2>5 DEF ToHost, HasHost, Named
<1> QED BY <1>1, <1>2

-----------------------------------------------------------------------------
LEMMA NatRel == OpToRel(<, Nat) = {ss \in Nat \X Nat : ss[1] < ss[2]}
BY DEF OpToRel

\* Every set of natural numbers that is not empty has a least one.
LEMMA NatMin ==
  ASSUME NEW T, T \subseteq Nat, T # {}
  PROVE  \E n \in T : \A m \in T : n <= m
<1> DEFINE R == OpToRel(<, Nat)
<1>1. IsWellFoundedOn(R, Nat)
  BY NatLessThanWellFounded
<1>2. R = {ss \in Nat \X Nat : ss[1] < ss[2]}
  BY NatRel
<1> HIDE DEF R
<1>3. PICK x \in T : \A y \in T : ~(<<y, x>> \in R)
  BY <1>1, WFMin
<1>4. ASSUME NEW m \in T, m < x PROVE FALSE
  <2>1. <<m, x>> \in Nat \X Nat /\ <<m, x>>[1] = m /\ <<m, x>>[2] = x
    OBVIOUS
  <2>2. <<m, x>> \in R
    BY <1>2, <1>4, <2>1
  <2> QED BY <1>3, <2>2
<1> QED BY <1>4

(* The table of threads.  The invariant: curr is NULL, names an entry or is   *)
(* written over by a start that is under way, and it is NULL only before the  *)
(* first start and in the loop of vCont;c; while the first start fills the    *)
(* table, its entries are taken up to the one written last.                   *)
NeedsCurr == pc \in {"listen", "read", "receive", "process", "flush", "judge"}

ThreadsInv ==
  /\ pc \in {"init", "listen", "read", "receive", "process", "flush", "resume",
             "waiting", "judge", "frozen", "dead"}
  /\ tab \in [Entries -> Nat] /\ stat \in [Entries -> Stats]
  /\ curr \in {0, Wild} \union Entries /\ len \in Nat
  /\ curr = Wild => starting /\ written >= Wild
  /\ NeedsCurr => curr # 0

LaunchInv ==
  /\ starts \in Nat /\ starting \in BOOLEAN /\ written \in Nat
  /\ starting => starts >= 1
  /\ starts = 0 => written = 0 /\ len = 0
  /\ starts = 0 \/ (starts = 1 /\ starting) => pc \in {"init", "dead"}
  /\ pc = "init" => /\ starts = 0 \/ (starts = 1 /\ starting)
                    /\ \A e \in Entries : tab[e] # 0 <=> e <= written

LEMMA InitThreads == Init => ThreadsInv /\ LaunchInv
<1> SUFFICES ASSUME Init PROVE ThreadsInv /\ LaunchInv
  OBVIOUS
<1>1. /\ pc = "init" /\ curr = 0 /\ len = 0
      /\ starts = 0 /\ starting = FALSE /\ written = 0
  BY DEF Init
<1>2. /\ tab \in [Entries -> Nat] /\ stat \in [Entries -> Stats]
      /\ \A e \in Entries : tab[e] = 0 /\ e \in Nat /\ e >= 1
  <2>1. tab = [e \in Entries |-> 0] /\ stat = [e \in Entries |-> "exited"]
    BY DEF Init
  <2> QED BY <2>1, TableAssumption DEF Stats, Entries
<1>3. 0 # Wild
  BY TableAssumption DEF Wild
<1>4. ThreadsInv
  BY <1>1, <1>2, <1>3 DEF ThreadsInv, NeedsCurr
<1>5. \A e \in Entries : tab[e] # 0 <=> e <= written
  <2>1. \A e \in Entries : tab[e] = 0 /\ ~(e <= 0)
    BY <1>2
  <2> QED BY <1>1, <2>1
<1> QED BY <1>1, <1>4, <1>5 DEF LaunchInv

\* A step that leaves the table alone and does not come back from the loop.
LEMMA QuietStep ==
  ASSUME ThreadsInv, LaunchInv, UNCHANGED threads, UNCHANGED launch,
         pc' \in {"init", "listen", "read", "receive", "process", "flush", "resume",
                 "waiting", "judge", "frozen", "dead"},
         NeedsCurr' => NeedsCurr, pc' = "init" => pc = "init",
         pc \in {"init", "dead"} => pc' \in {"init", "dead"}
  PROVE  ThreadsInv' /\ LaunchInv'
  BY DEF ThreadsInv, LaunchInv, threads, launch, NeedsCurr

LEMMA FirstEntry == /\ 1 \in Entries /\ 1 # Wild /\ Wild \notin Entries /\ Wild \in Nat
                    /\ \A e \in Entries : e \in Nat /\ e >= 1 /\ e < Wild
  BY TableAssumption DEF Entries, Wild

LEMMA CountsAre == ASSUME NEW n \in Counts PROVE n \in Nat /\ n >= 1
  BY TableAssumption DEF Counts

LEMMA StartThreads ==
  ASSUME ThreadsInv, LaunchInv, StartGdbServer
  PROVE  ThreadsInv' /\ LaunchInv'
<1>1. /\ UNCHANGED <<pc, tab, stat, curr, len>> /\ pc # "dead"
      /\ ~starting /\ starts' = starts + 1 /\ starting' /\ written' = 0
  BY DEF StartGdbServer, threads, Alive
<1>2. starting' \in BOOLEAN
  BY DEF StartGdbServer
<1>3. curr # Wild
  BY <1>1 DEF ThreadsInv
<1>4. ThreadsInv'
  BY <1>1, <1>3 DEF ThreadsInv, NeedsCurr
<1>5. starts = 0 <=> pc = "init"
  BY <1>1 DEF LaunchInv
<1>6. pc = "init" => \A e \in Entries : tab[e] # 0 <=> e <= 0
  BY <1>5 DEF LaunchInv
<1>7. starts' \in Nat /\ starts' >= 1 /\ (starts' = 1 <=> starts = 0)
  BY <1>1 DEF LaunchInv
<1> QED BY <1>1, <1>2, <1>4, <1>5, <1>6, <1>7 DEF LaunchInv

\* init_tids writes an entry, or over what lies behind the table.
LEMMA InitTidThreads ==
  ASSUME ThreadsInv, LaunchInv, InitTid
  PROVE  ThreadsInv' /\ LaunchInv'
<1>1. /\ UNCHANGED <<pc, stat, starts, starting>> /\ starting
      /\ written' = written + 1 /\ written \in Nat /\ written' \in Nat
      /\ written' >= 1 /\ written < written'
      /\ len \in Nat
  BY DEF InitTid, ThreadsInv, LaunchInv
<1>2. starts >= 1 /\ starts # 0
  BY <1>1 DEF LaunchInv
<1>3. CASE written' \in Entries
  <2>1. tab' = [tab EXCEPT ![written'] = written'] /\ len' = len + 1 /\ curr' = curr
    BY <1>3, FirstEntry DEF InitTid
  <2>2. tab' \in [Entries -> Nat] /\ len' \in Nat
    <3>1. len' \in Nat
      BY <1>1, <2>1
    <3>2. tab \in [Entries -> Nat] /\ written' \in Nat
      BY <1>1 DEF ThreadsInv
    <3> QED BY <2>1, <3>1, <3>2
  <2>3. curr' # Wild
    <3>1. written' < Wild /\ Wild \in Nat
      BY <1>3, FirstEntry
    <3>2. ~(written >= Wild)
      BY <1>1, <3>1
    <3> QED BY <2>1, <3>2 DEF ThreadsInv
  <2>4. ASSUME pc = "init", NEW e \in Entries PROVE tab'[e] # 0 <=> e <= written'
    <3>1. CASE e = written'
      BY <1>1, <2>1, <3>1 DEF ThreadsInv
    <3>2. CASE e # written'
      <4>1. tab'[e] = tab[e]
        BY <2>1, <3>2 DEF ThreadsInv
      <4>2. tab[e] # 0 <=> e <= written
        BY <2>4 DEF LaunchInv
      <4>3. e <= written <=> e <= written'
        BY <1>1, <3>2, FirstEntry DEF LaunchInv
      <4> QED BY <4>1, <4>2, <4>3
    <3> QED BY <3>1, <3>2
  <2>5. ThreadsInv'
    BY <1>1, <2>1, <2>2, <2>3 DEF ThreadsInv, NeedsCurr
  <2> QED BY <1>1, <1>2, <2>4, <2>5 DEF LaunchInv
<1>4. CASE written' \notin Entries
  <2>1. tab' = tab /\ len' \in Nat /\ curr' \in {curr, Wild} /\ written' >= Wild
    BY <1>1, <1>4, FirstEntry DEF InitTid
  <2>2. ThreadsInv'
    BY <1>1, <2>1, FirstEntry DEF ThreadsInv, NeedsCurr
  <2>3. ASSUME pc = "init", NEW e \in Entries PROVE tab'[e] # 0 <=> e <= written'
    <3>1. e <= written /\ e <= written'
      BY <1>1, <2>1, FirstEntry DEF LaunchInv, Wild
    <3> QED BY <2>1, <2>3, <3>1 DEF LaunchInv
  <2> QED BY <1>1, <1>2, <2>2, <2>3 DEF LaunchInv
<1> QED BY <1>3, <1>4

\* The first entry becomes the current one.
LEMMA PrepareThreads ==
  ASSUME ThreadsInv, LaunchInv, Prepare
  PROVE  ThreadsInv' /\ LaunchInv'
<1>1. /\ curr' = 1 /\ UNCHANGED <<tab, stat, len, starts, written>>
      /\ starting /\ starting' = FALSE /\ pc # "dead"
      /\ pc' \in {"listen", "dead", pc} /\ pc' # "init"
  BY DEF Prepare, Dies, Alive
<1>2. ThreadsInv'
  BY <1>1, FirstEntry DEF ThreadsInv, NeedsCurr
<1>3. starts \in Nat /\ starts >= 1 /\ starts # 0 /\ written \in Nat
  BY <1>1 DEF LaunchInv
<1>4. ~(starts' = 0 \/ (starts' = 1 /\ starting'))
  BY <1>1, <1>3
<1> QED BY <1>1, <1>2, <1>3, <1>4 DEF LaunchInv

LEMMA TransportQuiet ==
  ASSUME ThreadsInv, LaunchInv, (ReadPacket \/ ReadDataOnce \/ WriteFlush) /\ UNCHANGED Rest
  PROVE  ThreadsInv' /\ LaunchInv'
<1>1. UNCHANGED threads /\ UNCHANGED launch
  BY DEF Rest
<1>2. NeedsCurr /\ pc \notin {"init", "dead"} /\ pc' \in {"read", "receive", "process", "dead"}
  BY DEF ReadPacket, ReadDataOnce, WriteFlush, Flush, Dies, NeedsCurr
<1> QED BY <1>1, <1>2, QuietStep

\* The entry that set_curr_thread selects has the id that was asked for.
LEMMA SetCurrThreadIs ==
  ASSUME NEW tid
  PROVE  \/ SetCurrThread(tid) = curr
         \/ SetCurrThread(tid) \in Entries /\ tab[SetCurrThread(tid)] = tid
<1>1. CASE \E e \in Entries : tab[e] = tid
  <2> DEFINE T == {e \in Entries : tab[e] = tid}
  <2>1. T \subseteq Nat /\ T # {}
    BY <1>1, FirstEntry
  <2>2. \E n \in T : \A m \in T : n <= m
    <3> HIDE DEF T
    <3> QED BY <2>1, NatMin
  <2>3. PICK n \in T : \A m \in T : n <= m
    BY <2>2
  <2>4. ASSUME NEW d \in 1..(n - 1) PROVE tab[d] # tid
    <3>1. d \in Entries /\ d < n
      BY <2>3, TableAssumption DEF Entries
    <3> QED BY <2>3, <3>1
  <2>5. n \in Entries /\ tab[n] = tid
    BY <2>3
  <2>6. \E e \in Entries : tab[e] = tid /\ \A d \in 1..(e - 1) : tab[d] # tid
    BY <2>4, <2>5
  <2> QED BY <1>1, <2>6 DEF SetCurrThread
<1>2. CASE ~\E e \in Entries : tab[e] = tid
  BY <1>2 DEF SetCurrThread
<1> QED BY <1>1, <1>2

\* A request is processed while curr is set.
LEMMA RequestThreads ==
  ASSUME ThreadsInv, LaunchInv, Request
  PROVE  ThreadsInv' /\ LaunchInv'
<1>1. NeedsCurr /\ pc \notin {"init", "dead"}
  BY DEF Request, ProcessMisframed, ProcessPlain, ProcessSilent, ProcessFatal,
         ProcessBreakpoint, ProcessKill, ProcessThreadInfo, ProcessStep, ProcessContinue,
         Processes, NeedsCurr
<1>2. CASE ProcessStep
  <2>1. PICK tid \in Nat : curr' = SetCurrThread(tid)
    BY <1>2, TableAssumption DEF ProcessStep
  <2>2. curr' = curr \/ curr' \in Entries
    BY <2>1, SetCurrThreadIs
  <2>3. /\ UNCHANGED <<tab, stat, len, starts, starting, written>>
        /\ pc' \in {"flush", "dead"}
    BY <1>2 DEF ProcessStep, WritePacket, CurrTraps, Dies, launch
  <2>4. curr' # 0 /\ (curr' = Wild => curr = Wild)
    BY <1>1, <2>2, FirstEntry DEF ThreadsInv
  <2>5. ThreadsInv'
    BY <2>2, <2>3, <2>4 DEF ThreadsInv, NeedsCurr
  <2> QED BY <1>1, <2>3, <2>5 DEF LaunchInv
<1>3. CASE ~ProcessStep
  <2>1. UNCHANGED threads /\ UNCHANGED launch
    BY <1>3 DEF Request, ProcessMisframed, ProcessPlain, ProcessSilent, ProcessFatal,
         ProcessBreakpoint, ProcessKill, ProcessThreadInfo, ProcessContinue
  <2>2. pc' \in {"flush", "dead", "resume"}
    BY <1>3 DEF Request, ProcessMisframed, ProcessPlain, ProcessSilent, ProcessFatal,
         ProcessBreakpoint, ProcessKill, ProcessThreadInfo, ProcessContinue, WritePacket,
         CurrTraps, Dies
  <2> QED BY <1>1, <2>1, <2>2, QuietStep
<1> QED BY <1>2, <1>3

\* The loop of vCont;c gives up curr and does not leave before it is set.
LEMMA ResumeThreads ==
  ASSUME ThreadsInv, LaunchInv, Resume
  PROVE  ThreadsInv' /\ LaunchInv'
<1>1. CASE EnableAsyncIo
  BY <1>1, QuietStep DEF EnableAsyncIo, NeedsCurr, ThreadsInv
<1>2. CASE WaitReturns
  <2>1. CASE curr \notin Entries
    <3>1. UNCHANGED threads /\ UNCHANGED launch /\ pc' = "dead" /\ pc # "init"
      BY <1>2, <2>1 DEF WaitReturns, CurrTraps, Dies, threads
    <3> QED BY <3>1, QuietStep DEF NeedsCurr
  <2>2. CASE curr \in Entries
    <3>1. PICK st \in Stats : stat' = [stat EXCEPT ![curr] = st]
      BY <1>2, <2>2 DEF WaitReturns
    <3>2. /\ UNCHANGED <<tab, curr, len, starts, starting, written>>
          /\ pc = "waiting" /\ pc' = "judge"
      BY <1>2, <2>2 DEF WaitReturns, launch
    <3>3. stat' \in [Entries -> Stats] /\ curr # 0
      BY <2>2, <3>1, FirstEntry DEF ThreadsInv
    <3>4. ThreadsInv'
      BY <3>2, <3>3 DEF ThreadsInv, NeedsCurr
    <3> QED BY <3>2, <3>4 DEF LaunchInv
  <2> QED BY <2>1, <2>2
<1>3. CASE JudgeWild
  <2>1. UNCHANGED threads /\ UNCHANGED launch /\ pc' = "dead" /\ pc # "init"
    BY <1>3 DEF JudgeWild, CurrTraps, Dies
  <2> QED BY <2>1, QuietStep DEF NeedsCurr
<1>4. CASE CheckExit
  <2>1. /\ UNCHANGED <<stat, starts, starting, written>> /\ pc = "judge" /\ pc' = "resume"
        /\ curr' = 0 /\ len' = len - 1 /\ len > 1 /\ curr \in Entries
        /\ tab' = [tab EXCEPT ![curr] = 0]
    BY <1>4 DEF CheckExit, launch
  <2>2. tab' \in [Entries -> Nat] /\ len' \in Nat /\ 0 # Wild
    BY <2>1, FirstEntry DEF ThreadsInv
  <2>3. ThreadsInv'
    BY <2>1, <2>2 DEF ThreadsInv, NeedsCurr
  <2>4. starts # 0 /\ ~(starts = 1 /\ starting)
    BY <2>1 DEF LaunchInv
  <2> QED BY <2>1, <2>3, <2>4 DEF LaunchInv
<1>5. CASE CheckSigstopOrClone
  BY <1>5, QuietStep DEF CheckSigstopOrClone, NeedsCurr, ThreadsInv
<1>6. CASE ResumeReply
  <2>1. /\ NeedsCurr /\ UNCHANGED threads /\ UNCHANGED launch
        /\ pc \notin {"init", "dead"} /\ pc' \in {"frozen", "flush", "dead"}
    BY <1>6 DEF ResumeReply, WritePacket, Dies, NeedsCurr
  <2> QED BY <2>1, QuietStep
<1> QED BY <1>1, <1>2, <1>3, <1>4, <1>5, <1>6 DEF Resume

LEMMA OthersThreads ==
  ASSUME ThreadsInv, LaunchInv, Handler \/ Debugger \/ Ended
  PROVE  ThreadsInv' /\ LaunchInv'
<1>1. UNCHANGED threads /\ UNCHANGED launch
  BY DEF Handler, Debugger, Ended, Rest, Accept, SendRequest, SendInterrupt, vars,
         threads, launch
<1>2. pc' = pc \/ pc' = "dead" \/ (pc = "listen" /\ pc' = "read")
  BY DEF Handler, InputInterrupt, ReadInterrupt, Dies, Debugger, Disconnect, Ended, Accept,
         SendRequest, SendInterrupt, vars
<1> QED BY <1>1, <1>2, QuietStep DEF ThreadsInv, NeedsCurr

LEMMA NextThreads ==
  ASSUME ThreadsInv, LaunchInv, [Next]_vars
  PROVE  ThreadsInv' /\ LaunchInv'
<1>1. CASE UNCHANGED vars
  BY <1>1, QuietStep DEF vars, threads, launch, ThreadsInv, NeedsCurr
<1> QED
  BY <1>1, StartThreads, InitTidThreads, PrepareThreads, TransportQuiet, RequestThreads,
     ResumeThreads, OthersThreads
  DEF Next, Launch, Server

THEOREM ThreadsAlways == Spec => [](ThreadsInv /\ LaunchInv)
  BY InitThreads, NextThreads, PTL DEF Spec

LEMMA OccupiedFinite ==
  IsFiniteSet(Occupied) /\ Cardinality(Occupied) \in Nat
<1>1. IsFiniteSet(Entries) /\ Occupied \in SUBSET Entries
  BY FS_Interval, TableAssumption DEF Entries, Occupied
<1> QED BY <1>1, FS_Subset, FS_CardinalityType

\* The entry that check_exit empties may have been free.
LEMMA CheckExitCount ==
  ASSUME ThreadsInv, CheckExit, len <= Cardinality(Occupied)
  PROVE  len' <= Cardinality(Occupied')
<1>1. /\ curr \in Entries /\ tab' = [tab EXCEPT ![curr] = 0] /\ len' = len - 1 /\ len \in Nat
  BY DEF CheckExit, ThreadsInv
<1>2. Occupied' = Occupied \ {curr}
  BY <1>1 DEF ThreadsInv, Occupied
<1>3. CASE curr \in Occupied
  <2>1. Cardinality(Occupied \ {curr}) = Cardinality(Occupied) - 1
    BY <1>3, OccupiedFinite, FS_RemoveElement
  <2> QED BY <1>1, <1>2, <2>1, OccupiedFinite
<1>4. CASE curr \notin Occupied
  <2>1. Occupied' = Occupied
    BY <1>2, <1>4
  <2> QED BY <1>1, <2>1, OccupiedFinite
<1> QED BY <1>3, <1>4

\* The first start takes a free entry with each thread.
LEMMA InitTidCount ==
  ASSUME ThreadsInv, LaunchInv, InitTid, starts <= 1, written' <= THREAD_NUMBER,
         len <= Cardinality(Occupied)
  PROVE  len' <= Cardinality(Occupied')
<1>1. /\ starting /\ written' = written + 1 /\ written \in Nat /\ written' \in Entries
      /\ len \in Nat
  BY TableAssumption DEF InitTid, ThreadsInv, LaunchInv, Entries
<1>2. starts = 1
  BY <1>1 DEF LaunchInv
<1>3. written' \notin Occupied
  <2>1. pc = "init" /\ ~(written' <= written)
    BY <1>1, <1>2 DEF LaunchInv, InitTid, Alive
  <2> QED BY <1>1, <2>1 DEF LaunchInv, Occupied
<1>4. tab' = [tab EXCEPT ![written'] = written'] /\ len' = len + 1
  BY <1>1, FirstEntry DEF InitTid
<1>5. Occupied' = Occupied \union {written'}
  BY <1>1, <1>4, FirstEntry DEF ThreadsInv, Occupied
<1>6. Cardinality(Occupied \union {written'}) = Cardinality(Occupied) + 1
  BY <1>3, OccupiedFinite, FS_AddElement
<1> QED BY <1>1, <1>4, <1>5, <1>6, OccupiedFinite

\* Nothing else touches the table or the count.
LEMMA OthersCount ==
  ASSUME [Next]_vars, ~InitTid, ~CheckExit
  PROVE  UNCHANGED <<tab, len>> /\ (StartGdbServer \/ UNCHANGED <<starts, written>>)
<1>1. CASE UNCHANGED vars
  BY <1>1 DEF vars
<1>2. CASE Launch
  BY <1>2 DEF Launch, StartGdbServer, Prepare, threads
<1>3. CASE Server
  BY <1>3 DEF Server, Rest, threads, launch, Request, ProcessMisframed, ProcessPlain,
     ProcessSilent, ProcessFatal, ProcessBreakpoint, ProcessKill, ProcessThreadInfo,
     ProcessStep, ProcessContinue, Resume, EnableAsyncIo, WaitReturns, JudgeWild,
     CheckSigstopOrClone, ResumeReply
<1>4. CASE Handler \/ Debugger \/ Ended
  BY <1>4 DEF Handler, Debugger, Ended, Rest, threads, launch, Accept, SendRequest,
     SendInterrupt, vars
<1> QED BY <1>1, <1>2, <1>3, <1>4 DEF Next

\* After one start that fits, the list of threads ends in the table, for any size of
\* it, whatever exits, is stepped or is resumed afterwards.
THEOREM ListEnds == Spec => []ListEndsInTable
<1>1. Init => ListEndsInTable
  <2> SUFFICES ASSUME Init PROVE len <= Cardinality(Occupied)
    BY DEF ListEndsInTable
  <2>1. len = 0
    BY DEF Init
  <2> QED BY <2>1, OccupiedFinite
<1>2. ThreadsInv /\ LaunchInv /\ ListEndsInTable /\ [Next]_vars => ListEndsInTable'
  <2> SUFFICES ASSUME ThreadsInv, LaunchInv, ListEndsInTable, [Next]_vars,
                      starts' <= 1, written' <= THREAD_NUMBER
               PROVE  len' <= Cardinality(Occupied')
    BY DEF ListEndsInTable
  <2>1. CASE InitTid
    <3>1. starts <= 1 /\ written <= THREAD_NUMBER
      BY <2>1, TableAssumption DEF InitTid, LaunchInv
    <3> QED BY <2>1, <3>1, InitTidCount DEF ListEndsInTable
  <2>2. CASE CheckExit
    <3>1. UNCHANGED <<starts, written>>
      BY <2>2 DEF CheckExit, launch
    <3> QED BY <2>2, <3>1, CheckExitCount DEF ListEndsInTable
  <2>3. CASE ~InitTid /\ ~CheckExit
    <3>1. UNCHANGED <<tab, len>> /\ (StartGdbServer \/ UNCHANGED <<starts, written>>)
      BY <2>3, OthersCount
    <3>2. Occupied' = Occupied
      BY <3>1 DEF Occupied
    <3>3. len <= Cardinality(Occupied)
      <4>1. CASE StartGdbServer
        <5>1. len = 0
          BY <4>1 DEF StartGdbServer, LaunchInv
        <5> QED BY <5>1, OccupiedFinite
      <4>2. CASE UNCHANGED <<starts, written>>
        BY <4>2 DEF ListEndsInTable
      <4> QED BY <3>1, <4>1, <4>2
    <3> QED BY <3>1, <3>2, <3>3
  <2> QED BY <2>1, <2>2, <2>3
<1> QED BY <1>1, <1>2, ThreadsAlways, PTL DEF Spec

-----------------------------------------------------------------------------
(* The buffers.  What is buffered and on the way is a sequence of whole        *)
(* requests, of which the first may have lost its acknowledgement, and of      *)
(* interrupt characters between them; its requests are those that have not     *)
(* been processed, each once and in order.                                     *)
\* The byte d may stand behind the byte b.
Follows(b, d) ==
  /\ b.c \in {"+", "$", "body", "#", "h1", "h2", "int"}
  /\ b.c = "+" => d = Byte("$", b.id)
  /\ b.c = "$" => d = Byte("body", b.id)
  /\ b.c = "body" => d = Byte("#", b.id)
  /\ b.c = "#" => d = Byte("h1", b.id)
  /\ b.c = "h1" => d = Byte("h2", b.id)
  /\ b.c \in {"h2", "int"} => d.c \in {"+", "int"}

\* Where a sequence of requests may begin and end.
Begins(b) == b.c \in {"+", "$", "int"}
Ends(b) == b.c \in {"h2", "int"}

Framing(s) ==
  /\ s # <<>> => Begins(s[1]) /\ Ends(s[Len(s)])
  /\ \A i \in 1..(Len(s) - 1) : Follows(s[i], s[i + 1])

\* What remains when a prefix is dropped and the rest begins well.
LEMMA DropFraming ==
  ASSUME NEW S, NEW s \in Seq(S), Framing(s), NEW n \in 0..Len(s),
         n < Len(s) => Begins(s[n + 1])
  PROVE  Framing(SubSeq(s, n + 1, Len(s)))
<1> DEFINE t == SubSeq(s, n + 1, Len(s))
<1>1. /\ Len(t) = Len(s) - n
      /\ \A i \in 1..(Len(s) - n) : t[i] = s[n + i]
  OBVIOUS
<1>2. t # <<>> => Len(t) >= 1
  BY <1>1
<1> HIDE DEF t
<1>3. t # <<>> => Begins(t[1]) /\ Ends(t[Len(t)])
  BY <1>1, <1>2 DEF Framing
<1>4. \A i \in 1..(Len(t) - 1) : Follows(t[i], t[i + 1])
  BY <1>1 DEF Framing
<1> QED BY <1>3, <1>4 DEF Framing, t

\* A sequence that begins a request behind a sequence that ends one.
LEMMA ConcatFraming ==
  ASSUME NEW S, NEW s \in Seq(S), NEW t \in Seq(S), Framing(s), Framing(t),
         s # <<>> /\ t # <<>> => t[1].c \in {"+", "int"}
  PROVE  Framing(s \o t)
<1> DEFINE u == s \o t
<1>1. /\ Len(u) = Len(s) + Len(t) /\ Len(s) \in Nat /\ Len(t) \in Nat
      /\ \A i \in 1..Len(s) : u[i] = s[i]
      /\ \A i \in 1..Len(t) : u[Len(s) + i] = t[i]
  OBVIOUS
<1>2. (s = <<>> <=> Len(s) = 0) /\ (t = <<>> <=> Len(t) = 0)
  OBVIOUS
<1> HIDE DEF u
<1>3. u # <<>> => Begins(u[1]) /\ Ends(u[Len(u)])
  BY <1>1, <1>2 DEF Framing
<1>4. ASSUME NEW i \in 1..(Len(u) - 1)
      PROVE  Follows(u[i], u[i + 1])
  <2>1. CASE i < Len(s)
    BY <2>1, <1>1 DEF Framing
  <2>2. CASE i > Len(s)
    <3>1. PICK j \in 1..(Len(t) - 1) : i = Len(s) + j
      BY <2>2, <1>1
    <3> QED BY <3>1, <1>1 DEF Framing
  <2>3. CASE i = Len(s)
    BY <2>3, <1>1, <1>2 DEF Framing, Follows, Ends
  <2> QED BY <2>1, <2>2, <2>3, <1>1
<1> QED BY <1>3, <1>4 DEF Framing, u

\* The requests of s are those from first to last, each once and in order.
Numbering(s, first, last) ==
  /\ \A i, j \in 1..Len(s) : i < j /\ s[i].c = "$" /\ s[j].c = "$" => s[i].id < s[j].id
  /\ \A i \in 1..Len(s) : s[i].c = "$" => s[i].id \in first..last
  /\ \A id \in first..last : \E i \in 1..Len(s) : s[i] = Byte("$", id)

\* What is dropped holds the requests before next.
LEMMA DropNumbering ==
  ASSUME NEW S, NEW s \in Seq(S), NEW n \in 0..Len(s),
         NEW first \in Nat, NEW last \in Nat, NEW next \in Nat, Numbering(s, first, last),
         first <= next,
         \A i \in 1..n : s[i].c = "$" => s[i].id < next,
         \A i \in (n + 1)..Len(s) : s[i].c = "$" => next <= s[i].id
  PROVE  Numbering(SubSeq(s, n + 1, Len(s)), next, last)
<1> DEFINE t == SubSeq(s, n + 1, Len(s))
<1>1. /\ Len(t) = Len(s) - n /\ Len(s) \in Nat
      /\ \A i \in 1..(Len(s) - n) : t[i] = s[n + i]
  OBVIOUS
<1> HIDE DEF t
<1>2. ASSUME NEW i \in 1..Len(t), NEW j \in 1..Len(t), i < j, t[i].c = "$", t[j].c = "$"
      PROVE  t[i].id < t[j].id
  <2>1. /\ n + i \in 1..Len(s) /\ n + j \in 1..Len(s) /\ n + i < n + j
        /\ t[i] = s[n + i] /\ t[j] = s[n + j]
    BY <1>1, <1>2
  <2> QED BY <2>1, <1>2 DEF Numbering
<1>3. ASSUME NEW i \in 1..Len(t), t[i].c = "$"
      PROVE  t[i].id \in next..last
  <2>1. n + i \in (n + 1)..Len(s) /\ n + i \in 1..Len(s) /\ t[i] = s[n + i]
    BY <1>1
  <2>2. s[n + i].id \in first..last
    BY <2>1, <1>3 DEF Numbering
  <2>3. next <= s[n + i].id
    BY <2>1, <1>3
  <2> QED BY <2>1, <2>2, <2>3
<1>4. ASSUME NEW id \in next..last
      PROVE  \E i \in 1..Len(t) : t[i] = Byte("$", id)
  <2>1. PICK k \in 1..Len(s) : s[k] = Byte("$", id)
    BY DEF Numbering
  <2>2. ASSUME k <= n PROVE FALSE
    <3>1. s[k].id < next
      BY <2>1, <2>2 DEF Byte
    <3> QED BY <3>1, <2>1 DEF Byte
  <2>3. k - n \in 1..Len(t) /\ t[k - n] = s[k]
    <3>1. k > n /\ k - n \in 1..(Len(s) - n)
      BY <2>2, <1>1
    <3> QED BY <3>1, <1>1
  <2> QED BY <2>1, <2>3
<1> QED BY <1>2, <1>3, <1>4 DEF Numbering, t

\* A request that is sent is the last one.
LEMMA SendNumbering ==
  ASSUME NEW S, NEW s \in Seq(S), NEW t \in Seq(S),
         NEW first \in Nat, NEW last \in Nat, Numbering(s, first, last), first <= last + 1,
         NEW next \in {last, last + 1},
         \A i \in 1..Len(t) : t[i].c = "$" => next = last + 1 /\ t[i].id = next,
         \A i, j \in 1..Len(t) : t[i].c = "$" /\ t[j].c = "$" => i = j,
         next = last + 1 => \E i \in 1..Len(t) : t[i] = Byte("$", next)
  PROVE  Numbering(s \o t, first, next)
<1> DEFINE u == s \o t
<1>1. /\ Len(u) = Len(s) + Len(t) /\ Len(s) \in Nat /\ Len(t) \in Nat
      /\ \A i \in 1..Len(s) : u[i] = s[i]
      /\ \A i \in 1..Len(t) : u[Len(s) + i] = t[i]
  OBVIOUS
<1> HIDE DEF u
<1>2. ASSUME NEW i \in 1..Len(u), NEW j \in 1..Len(u), i < j, u[i].c = "$", u[j].c = "$"
      PROVE  u[i].id < u[j].id
  <2>1. CASE j <= Len(s)
    <3>1. i \in 1..Len(s) /\ j \in 1..Len(s) /\ u[i] = s[i] /\ u[j] = s[j]
      BY <2>1, <1>1, <1>2
    <3>2. s[i].c = "$" /\ s[j].c = "$"
      BY <3>1, <1>2
    <3> QED BY <3>1, <3>2, <1>2 DEF Numbering
  <2>2. CASE j > Len(s)
    <3>1. u[j] = t[j - Len(s)] /\ j - Len(s) \in 1..Len(t)
      BY <2>2, <1>1
    <3>2. CASE i > Len(s)
      <4>1. u[i] = t[i - Len(s)] /\ i - Len(s) \in 1..Len(t)
        BY <3>2, <1>1
      <4> QED BY <4>1, <3>1, <1>2
    <3>3. CASE i <= Len(s)
      <4>1. s[i].id \in first..last /\ u[i] = s[i]
        BY <3>3, <1>1, <1>2 DEF Numbering
      <4>2. u[j].id = last + 1
        BY <3>1, <1>2
      <4> QED BY <4>1, <4>2
    <3> QED BY <3>2, <3>3, <1>1
  <2> QED BY <2>1, <2>2, <1>1
<1>3. ASSUME NEW i \in 1..Len(u), u[i].c = "$"
      PROVE  u[i].id \in first..next
  <2>1. CASE i <= Len(s)
    BY <2>1, <1>1, <1>3 DEF Numbering
  <2>2. CASE i > Len(s)
    <3>1. u[i] = t[i - Len(s)] /\ i - Len(s) \in 1..Len(t)
      BY <2>2, <1>1
    <3> QED BY <3>1, <1>3
  <2> QED BY <2>1, <2>2, <1>1
<1>4. ASSUME NEW id \in first..next
      PROVE  \E i \in 1..Len(u) : u[i] = Byte("$", id)
  <2>1. CASE id <= last
    <3>1. PICK k \in 1..Len(s) : s[k] = Byte("$", id)
      BY <2>1 DEF Numbering
    <3> QED BY <3>1, <1>1
  <2>2. CASE id = last + 1
    <3>1. next = last + 1
      BY <2>2
    <3>2. PICK k \in 1..Len(t) : t[k] = Byte("$", id)
      BY <3>1, <2>2
    <3>3. Len(s) + k \in 1..Len(u) /\ u[Len(s) + k] = t[k]
      BY <1>1
    <3> QED BY <3>2, <3>3
  <2> QED BY <2>1, <2>2
<1> QED BY <1>2, <1>3, <1>4 DEF Numbering, u

\* The interrupt character leaves the sequence that it stood in.
LEMMA RemoveInterrupt ==
  ASSUME NEW S, NEW a \in Seq(S), NEW b \in Seq(S), b # <<>>, b[1] = Interrupt,
         Framing(a \o b), NEW first \in Nat, NEW last \in Nat, Numbering(a \o b, first, last)
  PROVE  Framing(a \o Tail(b)) /\ Numbering(a \o Tail(b), first, last)
<1> DEFINE s == a \o b
           t == a \o Tail(b)
           From(i) == IF i <= Len(a) THEN i ELSE i + 1
<1>1. /\ Len(a) \in Nat /\ Len(b) \in Nat /\ Len(b) >= 1
      /\ Len(t) = Len(s) - 1 /\ Len(s) = Len(a) + Len(b)
      /\ \A i \in 1..Len(t) : t[i] = IF i <= Len(a) THEN s[i] ELSE s[i + 1]
      /\ s[Len(a) + 1] = Interrupt
      /\ (s = <<>> <=> Len(s) = 0) /\ (t = <<>> <=> Len(t) = 0)
  <2>1. Tail(b) \in Seq(S) /\ Len(Tail(b)) = Len(b) - 1 /\ Len(b) \in Nat /\ Len(b) >= 1
        /\ \A i \in 1..(Len(b) - 1) : Tail(b)[i] = b[i + 1]
    OBVIOUS
  <2> DEFINE c == Tail(b)
  <2>2. /\ Len(a) \in Nat
        /\ Len(s) = Len(a) + Len(b) /\ Len(t) = Len(a) + Len(Tail(b))
        /\ \A i \in 1..Len(a) : s[i] = a[i] /\ t[i] = a[i]
        /\ \A i \in 1..Len(b) : s[Len(a) + i] = b[i]
        /\ \A i \in 1..Len(Tail(b)) : t[Len(a) + i] = Tail(b)[i]
        /\ (s = <<>> <=> Len(s) = 0) /\ (t = <<>> <=> Len(t) = 0)
    <3>1. c \in Seq(S)
      BY <2>1
    <3> HIDE DEF c
    <3>2. /\ Len(t) = Len(a) + Len(c) /\ Len(a) \in Nat
          /\ \A i \in 1..Len(a) : t[i] = a[i]
          /\ \A i \in 1..Len(c) : t[Len(a) + i] = c[i]
          /\ (t = <<>> <=> Len(t) = 0)
      <4>1. t = a \o c
        BY DEF c
      <4> HIDE DEF t
      <4> QED BY <3>1, <4>1
    <3>3. /\ Len(s) = Len(a) + Len(b)
          /\ \A i \in 1..Len(a) : s[i] = a[i]
          /\ \A i \in 1..Len(b) : s[Len(a) + i] = b[i]
          /\ (s = <<>> <=> Len(s) = 0)
      OBVIOUS
    <3> QED BY <3>2, <3>3 DEF c
  <2> HIDE DEF s, t, c
  <2>3. ASSUME NEW i \in 1..Len(t)
        PROVE  t[i] = IF i <= Len(a) THEN s[i] ELSE s[i + 1]
    <3>1. CASE i <= Len(a)
      BY <3>1, <2>2
    <3>2. CASE i > Len(a)
      <4>1. i - Len(a) \in 1..Len(Tail(b)) /\ i - Len(a) \in 1..(Len(b) - 1)
            /\ i - Len(a) + 1 \in 1..Len(b)
        BY <3>2, <2>1, <2>2
      <4>2. /\ t[Len(a) + (i - Len(a))] = Tail(b)[i - Len(a)]
            /\ s[Len(a) + (i - Len(a) + 1)] = b[i - Len(a) + 1]
        BY <4>1, <2>2
      <4>3. /\ Len(a) + (i - Len(a)) = i /\ Len(a) + (i - Len(a) + 1) = i + 1
            /\ Tail(b)[i - Len(a)] = b[(i - Len(a)) + 1]
        BY <4>1, <2>1, <2>2, <3>2
      <4> QED BY <4>3, <4>1, <4>2, <3>2, <2>1
    <3> QED BY <3>1, <3>2, <2>2
  <2>4. s[Len(a) + 1] = Interrupt
    BY <2>1, <2>2
  <2> QED BY <2>1, <2>2, <2>3, <2>4
<1> HIDE DEF s, t
<1>2. Framing(s) /\ Numbering(s, first, last)
  BY DEF s
<1>3. Interrupt.c = "int"
  BY DEF Interrupt, Byte
<1>4. Framing(t)
  <2>1. ASSUME t # <<>>
        PROVE  Begins(t[1]) /\ Ends(t[Len(t)])
    <3>1. Begins(t[1])
      BY <2>1, <1>1, <1>2, <1>3 DEF Framing, Follows, Begins
    <3>2. CASE Len(b) = 1
      <4>1. t[Len(t)] = s[Len(a)] /\ Len(a) \in 1..(Len(s) - 1)
        BY <2>1, <3>2, <1>1
      <4>2. Follows(s[Len(a)], Interrupt)
        BY <4>1, <1>1, <1>2 DEF Framing
      <4>3. Len(a) + 1 = Len(s)
        BY <3>2, <1>1
      <4>4. s[Len(a)].c \in {"h2", "int"}
        <5>1. s[Len(a)].c # "+" /\ s[Len(a)].c # "$" /\ s[Len(a)].c # "body"
              /\ s[Len(a)].c # "#" /\ s[Len(a)].c # "h1"
          BY <4>2 DEF Follows, Interrupt, Byte
        <5> QED BY <5>1, <4>2 DEF Follows
      <4> QED BY <4>1, <4>4, <3>1 DEF Ends
    <3>3. CASE Len(b) # 1
      <4>1. /\ t[Len(t)] = s[Len(t) + 1] /\ Len(t) + 1 = Len(s) /\ s # <<>>
        <5>1. Len(t) \in 1..Len(t) /\ ~(Len(t) <= Len(a)) /\ Len(t) + 1 = Len(s) /\ Len(s) # 0
          <6>1. PICK la \in Nat : la = Len(a)
            BY <1>1
          <6>2. PICK lb \in Nat : lb = Len(b) /\ lb >= 1 /\ lb # 1
            BY <1>1, <3>3
          <6>3. lb >= 2
            BY <6>2
          <6>4. Len(s) = la + lb /\ Len(t) = la + lb - 1
            BY <1>1, <6>1, <6>2
          <6> QED BY <6>1, <6>2, <6>3, <6>4
        <5> QED BY <5>1, <1>1
      <4> QED BY <3>1, <4>1, <1>2 DEF Framing
    <3> QED BY <3>2, <3>3
  <2>2. ASSUME NEW i \in 1..(Len(t) - 1)
        PROVE  Follows(t[i], t[i + 1])
    <3>1. CASE i = Len(a)
      <4>1. Follows(s[i], Interrupt) /\ Follows(Interrupt, s[i + 2])
        BY <3>1, <1>1, <1>2 DEF Framing
      <4>2. t[i] = s[i] /\ t[i + 1] = s[i + 2]
        BY <3>1, <1>1
      <4>3. Interrupt.c = "int" /\ Interrupt.c # "$" /\ Interrupt.c # "body"
        BY DEF Interrupt, Byte
      <4> QED BY <4>1, <4>2, <4>3 DEF Follows, Byte
    <3>2. CASE i # Len(a)
      BY <3>2, <1>1, <1>2 DEF Framing
    <3> QED BY <3>1, <3>2
  <2> QED BY <2>1, <2>2 DEF Framing
<1>5. Numbering(t, first, last)
  <2>1. \A i \in 1..Len(t) : From(i) \in 1..Len(s) /\ t[i] = s[From(i)]
    BY <1>1
  <2>2. \A i, j \in 1..Len(t) : i < j => From(i) < From(j)
    BY <1>1
  <2>3. ASSUME NEW id \in first..last
        PROVE  \E i \in 1..Len(t) : t[i] = Byte("$", id)
    <3>1. PICK k \in 1..Len(s) : s[k] = Byte("$", id)
      BY <1>2 DEF Numbering
    <3>2. k # Len(a) + 1
      BY <3>1, <1>1 DEF Interrupt, Byte
    <3>3. CASE k <= Len(a)
      BY <3>1, <3>3, <1>1
    <3>4. CASE k > Len(a) + 1
      <4>1. k - 1 \in 1..Len(t) /\ ~(k - 1 <= Len(a)) /\ (k - 1) + 1 = k
        BY <3>4, <1>1
      <4>2. t[k - 1] = s[(k - 1) + 1]
        BY <4>1, <1>1
      <4> QED BY <3>1, <4>1, <4>2
    <3>5. k <= Len(a) \/ k > Len(a) + 1
      BY <3>2, <1>1
    <3> QED BY <3>3, <3>4, <3>5
  <2> HIDE DEF From
  <2>4. \A i, j \in 1..Len(t) : i < j /\ t[i].c = "$" /\ t[j].c = "$" => t[i].id < t[j].id
    BY <2>1, <2>2, <1>2 DEF Numbering
  <2>5. \A i \in 1..Len(t) : t[i].c = "$" => t[i].id \in first..last
    BY <2>1, <1>2 DEF Numbering
  <2> QED BY <2>3, <2>4, <2>5 DEF Numbering
<1> QED BY <1>4, <1>5 DEF t

\* Dropping from the first of two sequences drops from both together.
LEMMA DropConcat ==
  ASSUME NEW S, NEW s \in Seq(S), NEW t \in Seq(S), NEW n \in 0..Len(s)
  PROVE  SubSeq(s, n + 1, Len(s)) \o t = SubSeq(s \o t, n + 1, Len(s \o t))
<1> DEFINE a == SubSeq(s, n + 1, Len(s))
           c == s \o t
           d == SubSeq(c, n + 1, Len(c))
<1>1. /\ a \in Seq(S) /\ Len(a) = Len(s) - n
      /\ \A i \in 1..(Len(s) - n) : a[i] = s[n + i]
  OBVIOUS
<1>2. /\ c \in Seq(S) /\ Len(c) = Len(s) + Len(t)
      /\ \A i \in 1..Len(s) : c[i] = s[i]
      /\ \A i \in 1..Len(t) : c[Len(s) + i] = t[i]
  OBVIOUS
<1> HIDE DEF a, c
<1>3. n \in 0..Len(c) /\ Len(s) \in Nat /\ Len(t) \in Nat
  BY <1>2
<1>4. /\ d \in Seq(S) /\ Len(d) = Len(c) - n
      /\ \A i \in 1..(Len(c) - n) : d[i] = c[n + i]
  BY <1>2, <1>3
<1> HIDE DEF d
<1>5. /\ a \o t \in Seq(S) /\ Len(a \o t) = Len(a) + Len(t)
      /\ \A i \in 1..Len(a) : (a \o t)[i] = a[i]
      /\ \A i \in 1..Len(t) : (a \o t)[Len(a) + i] = t[i]
  <2>1. a \in Seq(S) /\ t \in Seq(S)
    BY <1>1
  <2>2. a \o t \in Seq(S) /\ Len(a \o t) = Len(a) + Len(t)
    BY <2>1, ConcatProperties
  <2>3. \A i \in 1..Len(a) : (a \o t)[i] = a[i]
    BY <2>1
  <2>4. \A i \in 1..Len(t) : (a \o t)[Len(a) + i] = t[i]
    BY <2>1
  <2> QED BY <2>2, <2>3, <2>4
<1>6. Len(a \o t) = Len(d)
  BY <1>1, <1>2, <1>4, <1>5
<1>7. ASSUME NEW i \in 1..Len(d)
      PROVE  (a \o t)[i] = d[i]
  <2>1. CASE i <= Len(a)
    <3>1. i \in 1..Len(a) /\ i \in 1..(Len(s) - n) /\ n + i \in 1..Len(s) /\ i \in 1..(Len(c) - n)
      BY <2>1, <1>1, <1>2, <1>3
    <3> QED BY <3>1, <1>1, <1>2, <1>4, <1>5
  <2>2. CASE ~(i <= Len(a))
    <3>1. PICK j \in 1..Len(t) : i = Len(a) + j
      <4>1. /\ i - Len(a) \in 1..Len(t) /\ i = Len(a) + (i - Len(a))
        BY <2>2, <1>1, <1>2, <1>3, <1>4
      <4> QED BY <4>1
    <3>2. i \in 1..(Len(c) - n) /\ n + i = Len(s) + j
      BY <3>1, <1>1, <1>2, <1>3, <1>4
    <3> QED BY <3>1, <3>2, <1>2, <1>4, <1>5
  <2> QED BY <2>1, <2>2
<1>8. a \o t = d
  BY <1>4, <1>5, <1>6, <1>7, SeqEqual
<1> QED BY <1>8 DEF a, c, d

\* What is buffered and on the way.
Contents == in \o wire
InLoop == pc \in {"resume", "waiting", "judge"}
\* The first request in it: in the loop of vCont;c the packet is still there.
NextId == IF InLoop THEN req ELSE req + 1

BufferTypes ==
  /\ wire \in Seq(Bytes) /\ in \in Seq(Bytes)
  /\ asked \in Seq(AllKinds) /\ Len(asked) <= MAX_REQUESTS
  /\ req \in 0..MAX_REQUESTS

Buffers ==
  Alive => /\ Framing(Contents) /\ Numbering(Contents, NextId, Len(asked))
           /\ req <= Len(asked)
           /\ InLoop => Len(in) >= 5 /\ in[1].c = "$" /\ req \in 1..Len(asked)

LEMMA BytesHaveIds ==
  ASSUME NEW b \in Bytes
  PROVE  b.id \in 0..MAX_REQUESTS /\ b.c # "int" => b.id \in 1..MAX_REQUESTS
  BY TableAssumption DEF Bytes, Byte, Interrupt

\* The least member of a set is the one that is a lower bound.
LEMMA MinOf ==
  ASSUME NEW I, I \subseteq Int, NEW k \in I, \A y \in I : k <= y
  PROVE  (CHOOSE x \in I : \A y \in I : x <= y) = k
<1> DEFINE m == CHOOSE x \in I : \A y \in I : x <= y
<1>1. \E x \in I : \A y \in I : x <= y
  OBVIOUS
<1>2. m \in I /\ \A y \in I : m <= y
  BY <1>1
<1> HIDE DEF m
<1>3. m \in Int /\ m <= k /\ k <= m
  BY <1>2
<1> QED BY <1>3 DEF m

\* At a request's start the '#' is the third byte, and what remains behind the
\* packet is framed and begins with the next request.
LEMMA HeadPacket ==
  ASSUME BufferTypes, Framing(Contents), NEW first \in Nat, NEW last \in Nat,
         Numbering(Contents, first, last), in # <<>>, in[1].c = "$",
         Len(in) >= 5 \/ (PacketEnd # 0 /\ Len(in) >= PacketEnd + 2)
  PROVE  /\ PacketEnd = 3 /\ Len(in) >= 5
         /\ in[2].id = first /\ first <= last
         /\ Framing(SubSeq(Contents, 6, Len(Contents)))
         /\ Numbering(SubSeq(Contents, 6, Len(Contents)), first + 1, last)
<1> DEFINE s == Contents
<1>1. /\ s \in Seq(Bytes) /\ Len(s) = Len(in) + Len(wire)
      /\ \A i \in 1..Len(in) : s[i] = in[i]
      /\ Len(in) \in Nat /\ Len(in) >= 1 /\ Len(wire) \in Nat /\ s # <<>>
  BY DEF Contents, BufferTypes
<1>2. Framing(s) /\ Numbering(s, first, last)
  OBVIOUS
<1> HIDE DEF s
<1> DEFINE I == {i \in 1..Len(in) : in[i].c = "#"}
<1>3. PacketEnd = IF I # {} THEN CHOOSE x \in I : \A y \in I : x <= y ELSE 0
  BY DEF PacketEnd, SelectInSeq, Min
<1>4. s[1].c = "$" /\ in[1] = s[1]
  BY <1>1
<1>5. ASSUME Len(in) >= 2
      PROVE  in[2] = Byte("body", s[1].id)
  <2>1. Follows(s[1], s[2]) /\ in[2] = s[2]
    BY <1>1, <1>2, <1>5 DEF Framing
  <2> QED BY <1>4, <2>1 DEF Follows
<1>6. Len(in) >= 3
  <2>1. SUFFICES ASSUME ~(Len(in) >= 3)
                 PROVE  FALSE
    OBVIOUS
  <2>2. I = {}
    <3>1. ASSUME NEW i \in I PROVE FALSE
      <4>1. (i = 1 \/ i = 2) /\ i <= Len(in)
        BY <2>1, <1>1
      <4> QED BY <4>1, <1>4, <1>5 DEF Byte
    <3> QED BY <3>1
  <2> QED BY <1>1, <1>3, <2>1, <2>2
<1>7. in[3] = Byte("#", s[1].id)
  <2>1. 2 \in 1..(Len(s) - 1) /\ in[3] = s[3] /\ s[2] = in[2]
    BY <1>1, <1>6
  <2>2. Follows(s[2], s[2 + 1])
    BY <2>1, <1>2 DEF Framing
  <2> QED BY <2>1, <2>2, <1>5, <1>6, <1>1 DEF Follows, Byte
<1>8. PacketEnd = 3
  <2>1. 3 \in I /\ I \subseteq Int
    BY <1>1, <1>6, <1>7 DEF Byte
  <2>2. ASSUME NEW i \in I PROVE 3 <= i
    <3>1. i # 1 /\ i # 2
      BY <1>4, <1>5, <1>6, <1>1 DEF Byte
    <3> QED BY <3>1
  <2> HIDE DEF I
  <2>3. (CHOOSE x \in I : \A y \in I : x <= y) = 3
    BY <2>1, <2>2, MinOf
  <2> QED BY <1>3, <2>1, <2>3
<1>9. Len(in) >= 5
  BY <1>8, <1>1
<1>10. s[4] = Byte("h1", s[1].id) /\ s[5] = Byte("h2", s[1].id)
  <2>1. Follows(s[3], s[4]) /\ Follows(s[4], s[5]) /\ s[3] = in[3]
    BY <1>1, <1>2, <1>9 DEF Framing
  <2>2. s[4] = Byte("h1", s[1].id)
    BY <2>1, <1>7 DEF Follows, Byte
  <2> QED BY <2>1, <2>2 DEF Follows, Byte
<1>11. s[1].id = first /\ first <= last
  <2>1. 1 \in 1..Len(s) /\ s[1].id \in first..last
    BY <1>1, <1>2, <1>4 DEF Numbering
  <2>2. PICK k \in 1..Len(s) : s[k] = Byte("$", first)
    <3>1. first \in first..last
      BY <2>1
    <3> QED BY <3>1, <1>2 DEF Numbering
  <2>3. k = 1 \/ 1 < k
    BY <1>1
  <2>4. ASSUME 1 < k PROVE FALSE
    <3>1. s[1].id < s[k].id
      BY <1>2, <1>4, <2>1, <2>2, <2>4 DEF Numbering, Byte
    <3> QED BY <3>1, <2>1, <2>2 DEF Byte
  <2> QED BY <2>1, <2>2, <2>3, <2>4 DEF Byte
<1>12. 5 \in 0..Len(s)
  BY <1>1, <1>9
<1>13. Framing(SubSeq(s, 6, Len(s)))
  <2>1. 5 < Len(s) => Begins(s[6])
    <3>1. SUFFICES ASSUME 5 < Len(s) PROVE Begins(s[6])
      OBVIOUS
    <3>2. Follows(s[5], s[6])
      BY <1>1, <1>2, <3>1 DEF Framing
    <3> QED BY <3>2, <1>10 DEF Follows, Byte, Begins
  <2>2. 5 < Len(s) => Begins(s[5 + 1])
    BY <2>1
  <2>3. Framing(SubSeq(s, 5 + 1, Len(s)))
    BY <1>1, <1>2, <1>12, <2>2, DropFraming
  <2> QED BY <2>3
<1>14. Numbering(SubSeq(s, 6, Len(s)), first + 1, last)
  <2>1. ASSUME NEW i \in 1..5, s[i].c = "$" PROVE s[i].id < first + 1
    <3>1. i = 1
      <4>1. s[2] = in[2] /\ s[3] = in[3]
        BY <1>1, <1>9
      <4> QED BY <4>1, <2>1, <1>5, <1>7, <1>9, <1>10, <1>1 DEF Byte
    <3> QED BY <3>1, <1>11
  <2>2. ASSUME NEW i \in 6..Len(s), s[i].c = "$" PROVE first + 1 <= s[i].id
    <3>1. i \in 1..Len(s) /\ 1 \in 1..Len(s) /\ 1 < i
      BY <1>12
    <3>2. s[1].id < s[i].id
      BY <3>1, <1>2, <1>4, <2>2 DEF Numbering
    <3>3. s[i].id \in first..last
      BY <3>1, <1>2, <2>2 DEF Numbering
    <3> QED BY <3>2, <3>3, <1>11
  <2>3. /\ \A i \in 1..5 : s[i].c = "$" => s[i].id < first + 1
        /\ \A i \in (5 + 1)..Len(s) : s[i].c = "$" => first + 1 <= s[i].id
        /\ first + 1 \in Nat /\ first <= first + 1
    BY <2>1, <2>2
  <2>4. Numbering(SubSeq(s, 5 + 1, Len(s)), first + 1, last)
    BY <1>1, <1>2, <1>12, <2>3, DropNumbering
  <2> QED BY <2>4
<1> QED BY <1>5, <1>8, <1>9, <1>11, <1>13, <1>14 DEF s, Byte

\* A start is the first byte or follows an acknowledgement.
LEMMA StartIs ==
  ASSUME BufferTypes, Framing(Contents)
  PROVE  \/ Start(in) = 0 /\ in = <<>>
         \/ Start(in) = 0 /\ Len(in) = 1 /\ in[1].c = "+"
         \/ Start(in) = 1 /\ in # <<>> /\ in[1].c \in {"$", "int"}
         \/ Start(in) = 2 /\ Len(in) >= 2 /\ in[1].c = "+" /\ in[2].c = "$"
<1> DEFINE s == Contents
           I == {i \in 1..Len(in) : in[i].c \in {"$", "int"}}
<1>1. /\ s \in Seq(Bytes) /\ Len(s) = Len(in) + Len(wire)
      /\ \A i \in 1..Len(in) : s[i] = in[i]
      /\ Len(in) \in Nat /\ Len(wire) \in Nat
      /\ (in = <<>> <=> Len(in) = 0) /\ (s = <<>> <=> Len(s) = 0)
  BY DEF Contents, BufferTypes
<1>2. Framing(s)
  OBVIOUS
<1> HIDE DEF s
<1>3. Start(in) = IF I # {} THEN CHOOSE x \in I : \A y \in I : x <= y ELSE 0
  BY DEF Start, SelectInSeq, Min, IsStart
<1>4. I \subseteq Int
  OBVIOUS
<1>5. CASE in = <<>>
  <2>1. I = {}
    BY <1>1, <1>5
  <2> QED BY <1>3, <1>5, <2>1
<1>6. CASE in # <<>> /\ in[1].c \in {"$", "int"}
  <2>1. 1 \in I /\ \A y \in I : 1 <= y
    BY <1>1, <1>6
  <2>2. (CHOOSE x \in I : \A y \in I : x <= y) = 1
    BY <1>4, <2>1, MinOf
  <2> QED BY <1>3, <1>6, <2>1, <2>2
<1>7. CASE in # <<>> /\ in[1].c \notin {"$", "int"}
  <2>1. in[1].c = "+" /\ in[1] = s[1] /\ Len(in) >= 1
    BY <1>1, <1>2, <1>7 DEF Framing, Begins
  <2>2. CASE Len(in) = 1
    <3>1. I = {}
      BY <2>2, <1>7
    <3> QED BY <1>3, <2>1, <2>2, <3>1
  <2>3. CASE Len(in) # 1
    <3>1. Len(in) >= 2
      <4>1. PICK l \in Nat : l = Len(in) /\ l >= 1 /\ l # 1
        BY <2>1, <2>3, <1>1
      <4>2. l >= 2
        BY <4>1
      <4> QED BY <4>1, <4>2
    <3>2. 1 \in 1..(Len(s) - 1) /\ in[2] = s[1 + 1]
      BY <3>1, <1>1
    <3>3. Follows(s[1], s[1 + 1])
      BY <3>2, <1>2 DEF Framing
    <3>4. in[2].c = "$"
      BY <3>2, <3>3, <2>1 DEF Follows, Byte
    <3>5. 2 \in I /\ \A y \in I : 2 <= y
      <4>1. 2 \in I
        BY <3>1, <3>4, <1>1
      <4>2. ASSUME NEW y \in I PROVE 2 <= y
        <5>1. y # 1
          BY <1>7
        <5> QED BY <5>1
      <4> QED BY <4>1, <4>2
    <3>6. (CHOOSE x \in I : \A y \in I : x <= y) = 2
      <4> HIDE DEF I
      <4> QED BY <1>4, <3>5, MinOf
    <3> QED BY <1>3, <3>1, <3>4, <3>5, <3>6, <2>1
  <2> QED BY <2>2, <2>3
<1> QED BY <1>5, <1>6, <1>7

\* What precedes a start is the acknowledgement that a request begins with.
LEMMA SkipKeeps ==
  ASSUME BufferTypes, Framing(Contents), NEW n \in 0..Len(in),
         IF Start(in) = 0 THEN n = Len(in) ELSE n = Start(in) - 1,
         NEW first \in Nat, NEW last \in Nat, Numbering(Contents, first, last)
  PROVE  /\ Framing(SubSeq(Contents, n + 1, Len(Contents)))
         /\ Numbering(SubSeq(Contents, n + 1, Len(Contents)), first, last)
<1> DEFINE s == Contents
<1>1. /\ s \in Seq(Bytes) /\ Len(s) = Len(in) + Len(wire)
      /\ \A i \in 1..Len(in) : s[i] = in[i]
      /\ Len(in) \in Nat /\ Len(wire) \in Nat
      /\ (in = <<>> <=> Len(in) = 0) /\ (s = <<>> <=> Len(s) = 0)
  BY DEF Contents, BufferTypes
<1>2. Framing(s) /\ Numbering(s, first, last)
  OBVIOUS
<1> HIDE DEF s
<1>3. n = 0 \/ (n = 1 /\ Len(in) >= 1 /\ in[1].c = "+")
  BY StartIs, <1>1
<1>4. n < Len(s) => Begins(s[n + 1])
  <2>1. CASE n = 0
    BY <2>1, <1>1, <1>2 DEF Framing
  <2>2. CASE n = 1 /\ Len(in) >= 1 /\ in[1].c = "+"
    <3>1. SUFFICES ASSUME n < Len(s) PROVE Begins(s[n + 1])
      OBVIOUS
    <3>2. 1 \in 1..(Len(s) - 1) /\ s[1].c = "+"
      BY <2>2, <3>1, <1>1
    <3>3. Follows(s[1], s[1 + 1])
      BY <3>2, <1>2 DEF Framing
    <3> QED BY <2>2, <3>2, <3>3 DEF Follows, Byte, Begins
  <2> QED BY <2>1, <2>2, <1>3
<1>5. n \in 0..Len(s)
  BY <1>1
<1>6. Framing(SubSeq(s, n + 1, Len(s)))
  BY <1>1, <1>2, <1>4, <1>5, DropFraming
<1>7. \A i \in 1..n : s[i].c = "$" => s[i].id < first
  BY <1>1, <1>3
<1>8. \A i \in (n + 1)..Len(s) : s[i].c = "$" => first <= s[i].id
  <2>1. ASSUME NEW i \in (n + 1)..Len(s), s[i].c = "$" PROVE first <= s[i].id
    <3>1. i \in 1..Len(s)
      BY <1>5
    <3> QED BY <2>1, <3>1, <1>2 DEF Numbering
  <2> QED BY <2>1
<1>9. Numbering(SubSeq(s, n + 1, Len(s)), first, last)
  <2>1. first <= first
    OBVIOUS
  <2> QED BY <1>1, <1>2, <1>5, <1>7, <1>8, <2>1, DropNumbering
<1> QED BY <1>6, <1>9 DEF s

Pcs == {"init", "listen", "read", "receive", "process", "flush", "resume", "waiting",
        "judge", "frozen", "dead"}

\* A step that leaves the buffers and the requests alone.
LEMMA SameBuffers ==
  ASSUME BufferTypes, Buffers, UNCHANGED <<wire, in, asked, req>>,
         ~Alive' \/ (Alive /\ (InLoop <=> InLoop'))
  PROVE  BufferTypes' /\ Buffers'
  BY DEF BufferTypes, Buffers, Contents, NextId

\* skip_to_packet_start takes no byte of a request.
LEMMA ReadPacketBuffers ==
  ASSUME BufferTypes, Buffers, ReadPacket, UNCHANGED <<asked, req>>
  PROVE  BufferTypes' /\ Buffers'
<1>1. /\ pc = "read" /\ Alive /\ ~InLoop /\ NextId = req + 1
      /\ wire' = wire
  BY DEF ReadPacket, Alive, InLoop, NextId
<1>2. /\ Framing(Contents) /\ Numbering(Contents, req + 1, Len(asked)) /\ req <= Len(asked)
      /\ req + 1 \in Nat /\ Len(asked) \in Nat
  BY <1>1 DEF Buffers, BufferTypes
<1>3. pc' \in {"receive", "process", "dead"}
  BY DEF ReadPacket, Flush, Dies
<1>4. PICK n \in 0..Len(in) :
         /\ IF Start(in) = 0 THEN n = Len(in) ELSE n = Start(in) - 1
         /\ in' = SubSeq(in, n + 1, Len(in))
  <2>1. CASE Start(in) = 0
    <3>1. in' = <<>> /\ SubSeq(in, Len(in) + 1, Len(in)) = <<>> /\ Len(in) \in 0..Len(in)
      BY <2>1 DEF ReadPacket, BufferTypes
    <3> QED BY <2>1, <3>1
  <2>2. CASE Start(in) # 0
    <3>1. in' = SubSeq(in, Start(in), Len(in))
      BY <2>2 DEF ReadPacket
    <3>2. Start(in) \in {1, 2} /\ Start(in) - 1 \in 0..Len(in)
      <4>1. Len(in) \in Nat /\ (in # <<>> => Len(in) >= 1)
        BY DEF BufferTypes
      <4> QED BY <4>1, <1>2, <2>2, StartIs
    <3>3. (Start(in) - 1) + 1 = Start(in)
      BY <3>2
    <3> QED BY <2>2, <3>1, <3>2, <3>3
  <2> QED BY <2>1, <2>2
<1>5. Contents' = SubSeq(Contents, n + 1, Len(Contents))
  BY <1>1, <1>4, DropConcat DEF Contents, BufferTypes
<1>6. Framing(Contents') /\ Numbering(Contents', req + 1, Len(asked))
  BY <1>2, <1>4, <1>5, SkipKeeps
<1>7. BufferTypes'
  BY <1>1, <1>4 DEF BufferTypes
<1>8. Buffers'
  BY <1>1, <1>2, <1>3, <1>6 DEF Buffers, Alive, InLoop, NextId
<1> QED BY <1>7, <1>8

\* What read_data_once takes from the wire goes behind what is buffered.
LEMMA ReadDataBuffers ==
  ASSUME BufferTypes, Buffers, ReadDataOnce, UNCHANGED <<asked, req>>
  PROVE  BufferTypes' /\ Buffers'
<1>1. pc = "receive" /\ Alive /\ ~InLoop
  BY DEF ReadDataOnce, Alive, InLoop
<1>2. CASE pc' = "dead"
  <2>1. in' = in /\ (wire' = wire \/ \E n \in 1..READ_MAX : n <= Len(wire) /\ wire' = SubSeq(wire, n + 1, Len(wire)))
    BY <1>2 DEF ReadDataOnce, Dies
  <2>2. wire' \in Seq(Bytes)
    <3>1. wire \in Seq(Bytes) /\ Len(wire) \in Nat
      BY DEF BufferTypes
    <3>2. ASSUME NEW n \in 1..READ_MAX, n <= Len(wire)
          PROVE  SubSeq(wire, n + 1, Len(wire)) \in Seq(Bytes)
      <4>1. n \in Nat
        BY SizesAssumption
      <4> QED BY <3>1, <3>2, <4>1
    <3> QED BY <2>1, <3>1, <3>2
  <2>3. BufferTypes'
    BY <2>1, <2>2 DEF BufferTypes
  <2> QED BY <1>2, <2>3 DEF Buffers, Alive
<1>3. CASE pc' # "dead"
  <2>1. PICK n \in 1..READ_MAX :
           /\ n <= Len(wire)
           /\ wire' = SubSeq(wire, n + 1, Len(wire))
           /\ in' = in \o SubSeq(wire, 1, n)
           /\ pc' = "read"
    BY <1>3 DEF ReadDataOnce, Dies
  <2>2. n \in 0..Len(wire) /\ n \in Nat /\ Len(wire) \in Nat
    BY <2>1, SizesAssumption DEF BufferTypes
  <2>3. /\ SubSeq(wire, 1, n) \in Seq(Bytes) /\ SubSeq(wire, n + 1, Len(wire)) \in Seq(Bytes)
        /\ SubSeq(wire, 1, n) \o SubSeq(wire, n + 1, Len(wire)) = wire
    BY <2>2 DEF BufferTypes
  <2>4. Contents' = Contents
    <3> DEFINE a == SubSeq(wire, 1, n)
               b == SubSeq(wire, n + 1, Len(wire))
    <3>1. a \in Seq(Bytes) /\ b \in Seq(Bytes) /\ a \o b = wire
      BY <2>3
    <3>2. in' = in \o a /\ wire' = b
      BY <2>1
    <3> HIDE DEF a, b
    <3>3. (in \o a) \o b = in \o (a \o b)
      <4>1. in \in Seq(Bytes) /\ a \in Seq(Bytes) /\ b \in Seq(Bytes)
        BY <3>1 DEF BufferTypes
      <4> QED BY <4>1, ConcatAssociative
    <3> QED BY <3>1, <3>2, <3>3 DEF Contents
  <2>5. BufferTypes'
    BY <2>1, <2>3 DEF BufferTypes
  <2>6. ~InLoop' /\ Alive'
    BY <2>1 DEF InLoop, Alive
  <2> QED BY <1>1, <2>4, <2>5, <2>6 DEF Buffers, NextId
<1> QED BY <1>2, <1>3

\* The packet at the head of the buffer goes.
LEMMA EraseBuffers ==
  ASSUME BufferTypes, Framing(Contents), Numbering(Contents, req', Len(asked)),
         in # <<>>, in[1].c = "$", Len(in) >= 5 \/ (PacketEnd # 0 /\ Len(in) >= PacketEnd + 2),
         req' \in 0..MAX_REQUESTS, req' <= Len(asked),
         EraseHead, UNCHANGED <<wire, asked>>, pc' \in {"flush", "dead"}
  PROVE  BufferTypes' /\ Buffers'
<1>1. /\ req' \in Nat /\ Len(asked) \in Nat /\ MAX_REQUESTS \in Nat
  BY TableAssumption DEF BufferTypes
<1>2. /\ PacketEnd = 3 /\ Len(in) >= 5
      /\ Framing(SubSeq(Contents, 6, Len(Contents)))
      /\ Numbering(SubSeq(Contents, 6, Len(Contents)), req' + 1, Len(asked))
  BY <1>1, HeadPacket
<1>3. in' = SubSeq(in, 5 + 1, Len(in)) /\ 5 \in 0..Len(in)
  BY <1>2 DEF EraseHead, BufferTypes
<1>4. Contents' = SubSeq(Contents, 6, Len(Contents))
  <2>1. SubSeq(in, 5 + 1, Len(in)) \o wire = SubSeq(in \o wire, 5 + 1, Len(in \o wire))
    BY <1>3, DropConcat DEF BufferTypes
  <2>2. 5 + 1 = 6
    OBVIOUS
  <2> QED BY <1>3, <2>1, <2>2 DEF Contents
<1>5. BufferTypes'
  BY <1>3 DEF BufferTypes
<1> QED BY <1>1, <1>2, <1>4, <1>5 DEF Buffers, Alive, InLoop, NextId

\* The request that is processed is the next one.
LEMMA ProcessedIsNext ==
  ASSUME BufferTypes, Buffers, pc = "process", Whole
  PROVE  /\ in[2].id = req + 1 /\ req + 1 <= Len(asked) /\ req + 1 \in 1..MAX_REQUESTS
         /\ Framing(Contents) /\ Numbering(Contents, req + 1, Len(asked))
         /\ in # <<>> /\ in[1].c = "$" /\ Len(in) >= 5
         /\ PacketEnd # 0 /\ Len(in) >= PacketEnd + 2
<1>1. /\ Framing(Contents) /\ Numbering(Contents, req + 1, Len(asked))
      /\ req + 1 \in Nat /\ Len(asked) \in Nat /\ MAX_REQUESTS \in Nat /\ req \in Nat
  BY TableAssumption DEF Buffers, BufferTypes, Alive, InLoop, NextId
<1>2. PacketEnd # 0 /\ Len(in) >= PacketEnd + 2 /\ in[1].c = "$"
  BY DEF Whole
<1>3. in # <<>>
  <2>1. SUFFICES ASSUME in = <<>> PROVE PacketEnd = 0
    BY <1>2
  <2>2. {i \in 1..Len(in) : in[i].c = "#"} = {}
    BY <2>1
  <2> QED BY <2>2 DEF PacketEnd, SelectInSeq
<1>4. in[2].id = req + 1 /\ req + 1 <= Len(asked) /\ Len(in) >= 5
  BY <1>1, <1>2, <1>3, HeadPacket
<1> QED BY <1>1, <1>2, <1>3, <1>4 DEF BufferTypes

\* Every handler processes the next request, and the packet is erased or kept
\* for the loop.
LEMMA RequestBuffers ==
  ASSUME BufferTypes, Buffers, Request
  PROVE  BufferTypes' /\ Buffers'
<1>1. pc = "process" /\ UNCHANGED <<wire, asked>>
  BY DEF Request, ProcessMisframed, ProcessPlain, ProcessSilent, ProcessFatal,
         ProcessBreakpoint, ProcessKill, ProcessThreadInfo, ProcessStep, ProcessContinue,
         Processes, ReadingPart, transport, debugger
<1>2. CASE ProcessMisframed
  <2>1. ~Alive' /\ UNCHANGED <<in, req>>
    BY <1>2 DEF ProcessMisframed, Dies, Alive, transport
  <2> QED BY <1>1, <2>1, SameBuffers
<1>3. CASE ~ProcessMisframed
  <2>1. Whole /\ req' = in[2].id
    BY <1>3 DEF Request, ProcessPlain, ProcessSilent, ProcessFatal, ProcessBreakpoint,
           ProcessKill, ProcessThreadInfo, ProcessStep, ProcessContinue, Processes
  <2>2. /\ req' = req + 1 /\ req' <= Len(asked) /\ req' \in 1..MAX_REQUESTS
        /\ Framing(Contents) /\ Numbering(Contents, req', Len(asked))
        /\ in # <<>> /\ in[1].c = "$" /\ Len(in) >= 5
        /\ PacketEnd # 0 /\ Len(in) >= PacketEnd + 2
    BY <1>1, <2>1, ProcessedIsNext
  <2>3. \/ in' = in /\ pc' \in {"resume", "dead"}
        \/ EraseHead /\ pc' \in {"flush", "dead"}
    BY <1>3 DEF Request, ProcessPlain, ProcessSilent, ProcessFatal, ProcessBreakpoint,
           ProcessKill, ProcessThreadInfo, ProcessStep, ProcessContinue, WritePacket,
           CurrTraps, Dies, transport
  <2>4. CASE in' = in /\ pc' \in {"resume", "dead"}
    <3>1. BufferTypes'
      BY <1>1, <2>2, <2>4 DEF BufferTypes
    <3>2. Contents' = Contents
      BY <1>1, <2>4 DEF Contents
    <3> QED BY <1>1, <2>2, <2>4, <3>1, <3>2 DEF Buffers, Alive, InLoop, NextId, BufferTypes
  <2>5. CASE EraseHead /\ pc' \in {"flush", "dead"}
    <3>1. req' \in 0..MAX_REQUESTS
      BY <2>2
    <3> QED BY <1>1, <2>2, <2>5, <3>1, EraseBuffers
  <2> QED BY <2>3, <2>4, <2>5
<1> QED BY <1>2, <1>3

\* The loop keeps the packet until the resume reply is written.
LEMMA ResumeBuffers ==
  ASSUME BufferTypes, Buffers, Resume
  PROVE  BufferTypes' /\ Buffers'
<1>1. InLoop /\ Alive /\ UNCHANGED <<wire, asked, req>>
  BY DEF Resume, EnableAsyncIo, WaitReturns, JudgeWild, CheckExit, CheckSigstopOrClone,
         ResumeReply, InLoop, Alive, transport, ReadingPart, debugger
<1>2. CASE UNCHANGED in /\ pc' \in {"resume", "waiting", "judge", "frozen", "dead"}
  <2>1. ~Alive' \/ InLoop'
    BY <1>2 DEF Alive, InLoop
  <2> QED BY <1>1, <1>2, <2>1, SameBuffers
<1>3. CASE EraseHead /\ pc' \in {"flush", "dead"}
  <2>1. /\ Framing(Contents) /\ Numbering(Contents, req, Len(asked))
        /\ req <= Len(asked) /\ Len(in) >= 5 /\ in[1].c = "$"
    BY <1>1 DEF Buffers, NextId
  <2>2. in # <<>> /\ req \in 0..MAX_REQUESTS
    BY <2>1 DEF BufferTypes
  <2> QED BY <1>1, <1>3, <2>1, <2>2, EraseBuffers
<1> QED
  BY <1>2, <1>3 DEF Resume, EnableAsyncIo, WaitReturns, JudgeWild, CheckExit,
     CheckSigstopOrClone, ResumeReply, WritePacket, CurrTraps, Dies, transport

LEMMA FrameProperties ==
  ASSUME NEW n \in 1..MAX_REQUESTS
  PROVE  /\ Frame(n) \in Seq(Bytes) /\ Len(Frame(n)) = 6
         /\ Framing(Frame(n)) /\ Frame(n)[1].c = "+"
         /\ \A i \in 1..6 : Frame(n)[i].c = "$" => i = 2
         /\ Frame(n)[2] = Byte("$", n)
<1>1. Frame(n) \in Seq(Bytes)
  BY DEF Frame, Bytes
<1>2. /\ Frame(n)[1] = Byte("+", n) /\ Frame(n)[2] = Byte("$", n) /\ Frame(n)[3] = Byte("body", n)
      /\ Frame(n)[4] = Byte("#", n) /\ Frame(n)[5] = Byte("h1", n) /\ Frame(n)[6] = Byte("h2", n)
      /\ Len(Frame(n)) = 6 /\ Frame(n) # <<>>
  BY DEF Frame
<1>3. ASSUME NEW i \in 1..5 PROVE Follows(Frame(n)[i], Frame(n)[i + 1])
  <2>1. i \in {1, 2, 3, 4, 5}
    OBVIOUS
  <2> QED BY <1>2, <2>1 DEF Follows, Byte
<1>4. Framing(Frame(n))
  BY <1>2, <1>3 DEF Framing, Begins, Ends, Byte
<1>5. ASSUME NEW i \in 1..6, Frame(n)[i].c = "$" PROVE i = 2
  <2>1. i \in {1, 2, 3, 4, 5, 6}
    OBVIOUS
  <2> QED BY <1>2, <1>5, <2>1 DEF Byte
<1> QED BY <1>1, <1>2, <1>4, <1>5 DEF Byte

\* What the debugger sends goes behind what it has sent.
LEMMA ArriveContents ==
  ASSUME BufferTypes, NEW bytes \in Seq(Bytes), Arrive(bytes)
  PROVE  /\ Contents \in Seq(Bytes) /\ Contents' = Contents \o bytes
         /\ wire' \in Seq(Bytes) /\ in' = in
<1>1. wire \in Seq(Bytes) /\ in \in Seq(Bytes)
  BY DEF BufferTypes
<1>2. (in \o wire) \o bytes = in \o (wire \o bytes)
  BY <1>1, ConcatAssociative
<1>3. wire' = wire \o bytes /\ in' = in
  BY DEF Arrive
<1> QED BY <1>1, <1>2, <1>3 DEF Contents

\* A request is sent: its frame goes behind what is on the way.
LEMMA SendRequestBuffers ==
  ASSUME BufferTypes, Buffers, SendRequest
  PROVE  BufferTypes' /\ Buffers'
<1> DEFINE n == Len(asked) + 1
           F == Frame(n)
<1>1. /\ Len(asked) \in Nat /\ n \in 1..MAX_REQUESTS /\ req \in Nat
      /\ Alive /\ UNCHANGED <<pc, req>> /\ Arrive(F)
  BY TableAssumption DEF SendRequest, BufferTypes
<1>2. asked' \in Seq(AllKinds) /\ Len(asked') = n
  BY KindsAssumption DEF SendRequest, BufferTypes
<1>3. /\ F \in Seq(Bytes) /\ Len(F) = 6 /\ Framing(F) /\ F[1].c = "+" /\ F[2] = Byte("$", n)
      /\ \A i \in 1..6 : F[i].c = "$" => i = 2
  BY <1>1, FrameProperties
<1> HIDE DEF F
<1>4. /\ Contents \in Seq(Bytes) /\ Contents' = Contents \o F
      /\ wire' \in Seq(Bytes) /\ in' = in
  BY <1>1, <1>3, ArriveContents
<1>5. /\ Framing(Contents) /\ Numbering(Contents, NextId, Len(asked))
      /\ req <= Len(asked) /\ NextId \in Nat /\ NextId <= Len(asked) + 1
      /\ InLoop => Len(in) >= 5 /\ in[1].c = "$" /\ req \in 1..Len(asked)
  BY <1>1 DEF Buffers, NextId
<1>6. Framing(Contents')
  BY <1>3, <1>4, <1>5, ConcatFraming
<1>7. Numbering(Contents \o F, NextId, n)
  <2>1. \A i \in 1..Len(F) : F[i].c = "$" => n = Len(asked) + 1 /\ F[i].id = n
    BY <1>3 DEF Byte
  <2>2. \A i, j \in 1..Len(F) : F[i].c = "$" /\ F[j].c = "$" => i = j
    BY <1>3
  <2>3. \E i \in 1..Len(F) : F[i] = Byte("$", n)
    BY <1>3
  <2>4. n \in {Len(asked), Len(asked) + 1}
    OBVIOUS
  <2> HIDE DEF n
  <2> QED BY <1>1, <1>3, <1>4, <1>5, <2>1, <2>2, <2>3, <2>4, SendNumbering
<1>8. BufferTypes'
  BY <1>1, <1>2, <1>4 DEF BufferTypes
<1>9. NextId' = NextId /\ InLoop' = InLoop /\ Alive'
  BY <1>1 DEF NextId, InLoop, Alive
<1> QED BY <1>1, <1>2, <1>4, <1>5, <1>6, <1>7, <1>8, <1>9 DEF Buffers

\* An interrupt is sent between two requests.
LEMMA SendInterruptBuffers ==
  ASSUME BufferTypes, Buffers, SendInterrupt
  PROVE  BufferTypes' /\ Buffers'
<1> DEFINE F == <<Interrupt>>
<1>1. Alive /\ UNCHANGED <<pc, req, asked>> /\ Arrive(F)
  BY DEF SendInterrupt
<1>2. /\ F \in Seq(Bytes) /\ Len(F) = 1 /\ F[1] = Interrupt /\ Interrupt.c = "int"
      /\ Len(asked) \in Nat /\ req \in Nat
  BY DEF Bytes, Interrupt, Byte, BufferTypes
<1>3. Framing(F)
  BY <1>2 DEF Framing, Begins, Ends
<1> HIDE DEF F
<1>4. /\ Contents \in Seq(Bytes) /\ Contents' = Contents \o F
      /\ wire' \in Seq(Bytes) /\ in' = in
  BY <1>1, <1>2, ArriveContents
<1>5. /\ Framing(Contents) /\ Numbering(Contents, NextId, Len(asked))
      /\ req <= Len(asked) /\ NextId \in Nat /\ NextId <= Len(asked) + 1
      /\ InLoop => Len(in) >= 5 /\ in[1].c = "$" /\ req \in 1..Len(asked)
  BY <1>1, <1>2 DEF Buffers, NextId
<1>6. Framing(Contents')
  <2>1. F[1].c \in {"+", "int"}
    BY <1>2
  <2> QED BY <1>2, <1>3, <1>4, <1>5, <2>1, ConcatFraming
<1>7. Numbering(Contents \o F, NextId, Len(asked))
  <2>1. \A i \in 1..Len(F) : F[i].c # "$"
    BY <1>2
  <2>2. Len(asked) \in {Len(asked), Len(asked) + 1} /\ Len(asked) # Len(asked) + 1
    BY <1>2
  <2> QED BY <1>2, <1>4, <1>5, <2>1, <2>2, SendNumbering
<1>8. BufferTypes'
  BY <1>1, <1>4 DEF BufferTypes
<1>9. NextId' = NextId /\ InLoop' = InLoop /\ Alive'
  BY <1>1 DEF NextId, InLoop, Alive
<1> QED BY <1>1, <1>4, <1>5, <1>6, <1>7, <1>8, <1>9 DEF Buffers

\* The handler takes the interrupt character, or the process ends.
LEMMA ReadInterruptBuffers ==
  ASSUME BufferTypes, Buffers, ReadInterrupt, UNCHANGED Rest
  PROVE  BufferTypes' /\ Buffers'
<1>1. UNCHANGED <<in, asked, req>> /\ Alive
  BY DEF ReadInterrupt, Rest
<1>2. CASE wire # <<>> /\ Head(wire) = Interrupt
  <2>1. wire' = Tail(wire) /\ pc' = pc
    BY <1>2 DEF ReadInterrupt
  <2>2. /\ in \in Seq(Bytes) /\ wire \in Seq(Bytes) /\ wire[1] = Interrupt
        /\ Len(asked) \in Nat /\ req \in Nat
    BY <1>2 DEF BufferTypes
  <2>3. NextId \in Nat /\ NextId' = NextId /\ InLoop' = InLoop /\ Alive'
    BY <1>1, <2>1, <2>2 DEF NextId, InLoop, Alive
  <2>4. Framing(in \o wire) /\ Numbering(in \o wire, NextId, Len(asked))
    BY <1>1 DEF Buffers, Contents
  <2>5. Framing(Contents') /\ Numbering(Contents', NextId, Len(asked))
    BY <1>1, <1>2, <2>1, <2>2, <2>3, <2>4, RemoveInterrupt DEF Contents
  <2>6. BufferTypes'
    BY <1>1, <1>2, <2>1, <2>2 DEF BufferTypes
  <2> QED BY <1>1, <2>3, <2>5, <2>6 DEF Buffers
<1>3. CASE ~(wire # <<>> /\ Head(wire) = Interrupt)
  <2>1. wire' = wire /\ ~Alive'
    BY <1>3 DEF ReadInterrupt, Dies, Alive
  <2> QED BY <1>1, <2>1, SameBuffers
<1> QED BY <1>2, <1>3

LEMMA NextBuffers ==
  ASSUME BufferTypes, Buffers, [Next]_vars
  PROVE  BufferTypes' /\ Buffers'
<1>1. CASE UNCHANGED vars
  BY <1>1, SameBuffers DEF vars, Alive, InLoop
<1>2. CASE Launch
  <2>1. Alive /\ UNCHANGED <<wire, in, asked, req>> /\ pc' \in {pc, "listen", "dead"}
        /\ (pc' = "listen" => pc \in {"init", "listen"})
    BY <1>2 DEF Launch, StartGdbServer, InitTid, Prepare, Dies, transport, debugger
  <2> QED BY <2>1, SameBuffers DEF Alive, InLoop
<1>3. CASE (ReadPacket \/ ReadDataOnce \/ WriteFlush) /\ UNCHANGED Rest
  <2>1. UNCHANGED <<asked, req>>
    BY <1>3 DEF Rest
  <2>2. CASE WriteFlush
    <3>1. UNCHANGED <<wire, in>> /\ Alive /\ ~InLoop /\ pc' \in {"read", "dead"}
      BY <2>2 DEF WriteFlush, Flush, Dies, Alive, InLoop
    <3> QED BY <2>1, <3>1, SameBuffers DEF Alive, InLoop
  <2> QED BY <1>3, <2>1, <2>2, ReadPacketBuffers, ReadDataBuffers
<1>4. CASE Request
  BY <1>4, RequestBuffers
<1>5. CASE Resume
  BY <1>5, ResumeBuffers
<1>6. CASE InputInterrupt /\ UNCHANGED Rest
  <2>1. UNCHANGED <<wire, in, asked, req, pc>> /\ Alive
    BY <1>6 DEF InputInterrupt, Rest
  <2> QED BY <2>1, SameBuffers DEF Alive, InLoop
<1>7. CASE ReadInterrupt /\ UNCHANGED Rest
  BY <1>7, ReadInterruptBuffers
<1>8. CASE Accept \/ (Alive /\ Disconnect /\ UNCHANGED Rest)
  <2>1. UNCHANGED <<wire, in, asked, req>> /\ Alive /\ (pc' = pc \/ (pc = "listen" /\ pc' = "read"))
    BY <1>8 DEF Accept, Disconnect, Rest, transport, debugger, Alive
  <2> QED BY <2>1, SameBuffers DEF Alive, InLoop
<1>9. CASE SendRequest \/ SendInterrupt
  BY <1>9, SendRequestBuffers, SendInterruptBuffers
<1>10. CASE Ended
  BY <1>10, SameBuffers DEF Ended, vars, Alive
<1> QED
  BY <1>1, <1>2, <1>3, <1>4, <1>5, <1>6, <1>7, <1>8, <1>9, <1>10
  DEF Next, Server, Handler, Debugger

LEMMA InitBuffers == Init => BufferTypes /\ Buffers
<1> SUFFICES ASSUME Init PROVE BufferTypes /\ Buffers
  OBVIOUS
<1>1. wire = <<>> /\ in = <<>> /\ asked = <<>> /\ req = 0 /\ pc = "init"
  BY DEF Init, TransportInit
<1>2. Contents = <<>> /\ Len(Contents) = 0 /\ Len(asked) = 0 /\ NextId = 1 /\ ~InLoop
  BY <1>1 DEF Contents, NextId, InLoop
<1>3. Framing(Contents) /\ Numbering(Contents, NextId, Len(asked))
  <2>1. 1..0 = {} /\ 1..(Len(Contents) - 1) = {}
    BY <1>2
  <2> QED BY <1>2, <2>1 DEF Framing, Numbering
<1>4. BufferTypes
  BY <1>1, <1>2, TableAssumption DEF BufferTypes
<1> QED BY <1>1, <1>2, <1>3, <1>4 DEF Buffers

LEMMA BuffersAlways == Spec => [](BufferTypes /\ Buffers)
  BY InitBuffers, NextBuffers, PTL DEF Spec

\* No byte of a request that has not been processed is lost, for any sizes of the
\* buffers, any number of requests and interrupts, and any way the stream is cut.
THEOREM NoRequestIsEverLost == Spec => []NoRequestIsLost
<1>1. BufferTypes /\ Buffers => NoRequestIsLost
  <2>1. SUFFICES ASSUME BufferTypes, Buffers, Alive, NEW id \in (req + 1)..Len(asked)
                 PROVE  \E at \in 1..(Len(Contents) - 4) :
                           SubSeq(Contents, at, at + 4) = Tail(Frame(id))
    BY DEF NoRequestIsLost, Contents
  <2> DEFINE s == Contents
  <2>2. /\ s \in Seq(Bytes) /\ Len(s) \in Nat /\ (s = <<>> <=> Len(s) = 0)
        /\ Framing(s) /\ Numbering(s, NextId, Len(asked)) /\ req \in Nat /\ Len(asked) \in Nat
    BY <2>1 DEF Contents, BufferTypes, Buffers
  <2> HIDE DEF s
  <2>3. PICK at \in 1..Len(s) : s[at] = Byte("$", id)
    <3>1. id \in NextId..Len(asked)
      BY <2>2 DEF NextId
    <3> QED BY <2>2, <3>1 DEF Numbering
  <2>4. ASSUME NEW k \in 1..Len(s), s[k].c \notin {"h2", "int"}
        PROVE  k + 1 \in 1..Len(s) /\ Follows(s[k], s[k + 1])
    <3>1. k # Len(s)
      BY <2>2, <2>4 DEF Framing, Ends
    <3>2. k \in 1..(Len(s) - 1)
      BY <2>2, <3>1
    <3> QED BY <2>2, <3>2 DEF Framing
  <2>5. at + 1 \in 1..Len(s) /\ s[at + 1] = Byte("body", id)
    <3>1. s[at].c = "$" /\ s[at].id = id /\ at \in 1..Len(s)
      BY <2>3 DEF Byte
    <3>2. at + 1 \in 1..Len(s) /\ Follows(s[at], s[at + 1])
      BY <2>4, <3>1
    <3> QED BY <3>1, <3>2 DEF Follows
  <2>6. at + 1 + 1 \in 1..Len(s) /\ s[at + 1 + 1] = Byte("#", id)
    <3>1. s[at + 1].c = "body" /\ s[at + 1].id = id /\ at + 1 \in 1..Len(s)
      BY <2>5 DEF Byte
    <3>2. at + 1 + 1 \in 1..Len(s) /\ Follows(s[at + 1], s[at + 1 + 1])
      BY <2>4, <3>1
    <3> QED BY <3>1, <3>2 DEF Follows
  <2>7. at + 1 + 1 + 1 \in 1..Len(s) /\ s[at + 1 + 1 + 1] = Byte("h1", id)
    <3>1. s[at + 1 + 1].c = "#" /\ s[at + 1 + 1].id = id /\ at + 1 + 1 \in 1..Len(s)
      BY <2>6 DEF Byte
    <3>2. at + 1 + 1 + 1 \in 1..Len(s) /\ Follows(s[at + 1 + 1], s[at + 1 + 1 + 1])
      BY <2>4, <3>1
    <3> QED BY <3>1, <3>2 DEF Follows
  <2>8. at + 1 + 1 + 1 + 1 \in 1..Len(s) /\ s[at + 1 + 1 + 1 + 1] = Byte("h2", id)
    <3>1. s[at + 1 + 1 + 1].c = "h1" /\ s[at + 1 + 1 + 1].id = id /\ at + 1 + 1 + 1 \in 1..Len(s)
      BY <2>7 DEF Byte
    <3>2. at + 1 + 1 + 1 + 1 \in 1..Len(s) /\ Follows(s[at + 1 + 1 + 1], s[at + 1 + 1 + 1 + 1])
      BY <2>4, <3>1
    <3> QED BY <3>1, <3>2 DEF Follows
  <2>9. /\ s[at + 1] = Byte("body", id) /\ s[at + 2] = Byte("#", id)
        /\ s[at + 3] = Byte("h1", id) /\ s[at + 4] = Byte("h2", id) /\ at + 4 \in 1..Len(s)
    <3>1. at + 1 + 1 = at + 2 /\ at + 1 + 1 + 1 = at + 3 /\ at + 1 + 1 + 1 + 1 = at + 4
      OBVIOUS
    <3> QED BY <2>5, <2>6, <2>7, <2>8, <3>1
  <2>10. at \in 1..(Len(s) - 4)
    BY <2>2, <2>9
  <2>11. SubSeq(s, at, at + 4) = Tail(Frame(id))
    <3> DEFINE t == SubSeq(s, at, at + 4)
               f == Tail(Frame(id))
    <3>1. /\ t \in Seq(Bytes) /\ Len(t) = 5
          /\ \A i \in 1..5 : t[i] = s[at + i - 1]
      BY <2>2, <2>9
    <3>2. /\ f = <<Byte("$", id), Byte("body", id), Byte("#", id), Byte("h1", id), Byte("h2", id)>>
      BY DEF Frame
    <3> HIDE DEF t, f
    <3>3. /\ Len(f) = 5 /\ f[1] = Byte("$", id) /\ f[2] = Byte("body", id)
          /\ f[3] = Byte("#", id) /\ f[4] = Byte("h1", id) /\ f[5] = Byte("h2", id)
      BY <3>2
    <3>4. f \in Seq(Bytes)
      <4>1. id \in 1..MAX_REQUESTS
        BY <2>1, <2>2, TableAssumption DEF BufferTypes
      <4>2. \A c \in {"$", "body", "#", "h1", "h2"} : Byte(c, id) \in Bytes
        BY <4>1 DEF Bytes
      <4> HIDE DEF f
      <4> QED BY <3>2, <4>2
    <3>5. ASSUME NEW i \in 1..5 PROVE t[i] = f[i]
      <4>1. i \in {1, 2, 3, 4, 5}
        OBVIOUS
      <4>2. /\ t[1] = s[at] /\ t[2] = s[at + 1] /\ t[3] = s[at + 2] /\ t[4] = s[at + 3]
            /\ t[5] = s[at + 4]
        BY <3>1
      <4> QED BY <2>3, <2>9, <3>3, <4>1, <4>2
    <3>6. t = f
      BY <3>1, <3>3, <3>4, <3>5, SeqEqual
    <3> QED BY <3>6 DEF t, f
  <2> QED BY <2>10, <2>11 DEF s
<1> QED BY <1>1, BuffersAlways, PTL

-----------------------------------------------------------------------------
(* The current entry is occupied, but for thread 0 and for later starts.       *)
SteppedZero == \E id \in 1..req : asked[id] = "vContsZero"

Occupation ==
  Alive /\ pc # "init" /\ curr \in Entries
    => \/ tab[curr] # 0
       \/ SteppedZero
       \/ curr = 1 /\ starts > 1

\* A request that was processed stays so.
LEMMA SteppedStays ==
  ASSUME BufferTypes, Buffers, SteppedZero, req' \in Nat, req <= req',
         asked' = asked \/ \E kind \in Kinds : asked' = Append(asked, kind), Alive
  PROVE  SteppedZero'
<1>1. PICK id \in 1..req : asked[id] = "vContsZero"
  BY DEF SteppedZero
<1>2. req \in Nat /\ req <= Len(asked) /\ Len(asked) \in Nat
  BY DEF BufferTypes, Buffers
<1>3. id \in 1..Len(asked) /\ id \in 1..req'
  BY <1>2
<1>4. asked'[id] = asked[id]
  BY <1>3, KindsAssumption DEF BufferTypes
<1> QED BY <1>1, <1>3, <1>4 DEF SteppedZero

\* A step that leaves the table alone.
LEMMA SameOccupation ==
  ASSUME BufferTypes, Buffers, Occupation, Alive, UNCHANGED <<tab, curr>>,
         starts' = starts \/ (starts \in Nat /\ starts' = starts + 1),
         Alive' /\ pc' # "init" => pc # "init", req' \in Nat, req <= req',
         asked' = asked \/ \E kind \in Kinds : asked' = Append(asked, kind)
  PROVE  Occupation'
<1>1. SUFFICES ASSUME Alive', pc' # "init", curr' \in Entries
               PROVE  tab'[curr'] # 0 \/ SteppedZero' \/ (curr' = 1 /\ starts' > 1)
  BY DEF Occupation
<1>2. tab[curr] # 0 \/ SteppedZero \/ (curr = 1 /\ starts > 1)
  BY <1>1 DEF Occupation
<1> QED BY <1>2, SteppedStays

\* Whatever is stepped is an entry with the id that was asked for.
LEMMA StepOccupation ==
  ASSUME ThreadsInv, BufferTypes, Buffers, Occupation, ProcessStep
  PROVE  Occupation'
<1>1. /\ pc = "process" /\ Whole /\ req' = in[2].id /\ UNCHANGED <<tab, starts, asked>>
  BY DEF ProcessStep, Processes, launch, debugger
<1>2. req' = req + 1 /\ req \in Nat /\ req' \in Nat /\ req <= req' /\ req' \in 1..req'
  <2>1. req' = req + 1 /\ req \in Nat
    BY <1>1, ProcessedIsNext DEF BufferTypes
  <2> QED BY <2>1
<1>3. pc # "init" /\ Alive
  BY <1>1 DEF Alive
<1>4. CASE curr' = curr
  BY <1>1, <1>2, <1>3, <1>4, SameOccupation
<1>5. CASE curr' # curr
  <2>1. CASE Processes("vConts")
    <3>1. PICK tid \in Nat : tid # 0 /\ curr' = SetCurrThread(tid)
      <4>1. asked[in[2].id] # "vContsZero"
        BY <2>1 DEF Processes
      <4>2. ~Processes("vContsZero")
        BY <4>1 DEF Processes
      <4>3. PICK tid \in 1..(THREAD_NUMBER + 1) : curr' = SetCurrThread(tid)
        BY <4>2 DEF ProcessStep
      <4>4. tid \in Nat /\ tid # 0
        BY TableAssumption
      <4> QED BY <4>3, <4>4
    <3>2. curr' \in Entries /\ tab[curr'] = tid
      BY <1>5, <3>1, SetCurrThreadIs
    <3> QED BY <1>1, <3>1, <3>2 DEF Occupation
  <2>2. CASE Processes("vContsZero")
    <3>1. asked'[req'] = "vContsZero"
      BY <1>1, <2>2 DEF Processes
    <3>2. SteppedZero'
      BY <1>2, <3>1 DEF SteppedZero
    <3> QED BY <3>2 DEF Occupation
  <2> QED BY <2>1, <2>2 DEF ProcessStep
<1> QED BY <1>4, <1>5

\* Writing an entry, making the first one current.
LEMMA LaunchOccupation ==
  ASSUME ThreadsInv, LaunchInv, BufferTypes, Buffers, Occupation, Launch
  PROVE  Occupation'
<1>1. Alive /\ UNCHANGED <<req, asked>> /\ req \in Nat /\ req <= req
  BY DEF Launch, StartGdbServer, InitTid, Prepare, debugger, BufferTypes
<1>2. CASE StartGdbServer
  <2>1. UNCHANGED <<tab, curr, pc>> /\ starts' = starts + 1 /\ starts \in Nat
    BY <1>2 DEF StartGdbServer, threads, LaunchInv
  <2> QED BY <1>1, <2>1, SameOccupation
<1>3. CASE InitTid
  <2>1. UNCHANGED <<pc, starts>> /\ written' = written + 1 /\ written \in Nat
    BY <1>3 DEF InitTid, LaunchInv
  <2>2. CASE written' \in Entries
    <3>1. tab' = [tab EXCEPT ![written'] = written'] /\ curr' = curr
      BY <1>3, <2>2, FirstEntry DEF InitTid
    <3>2. ASSUME pc' # "init", curr' \in Entries
          PROVE  tab'[curr'] # 0 \/ SteppedZero' \/ (curr' = 1 /\ starts' > 1)
      <4>1. tab[curr] # 0 \/ SteppedZero \/ (curr = 1 /\ starts > 1)
        BY <1>1, <2>1, <3>1, <3>2 DEF Occupation
      <4>2. SteppedZero => SteppedZero'
        BY <1>1, SteppedStays
      <4>3. written' # 0
        BY <2>1
      <4>4. tab[curr] # 0 => tab'[curr'] # 0
        BY <3>1, <3>2, <4>3 DEF ThreadsInv
      <4> QED BY <2>1, <3>1, <4>1, <4>2, <4>4
    <3> QED BY <3>2 DEF Occupation
  <2>3. CASE written' \notin Entries
    <3>1. tab' = tab /\ curr' \in {curr, Wild}
      BY <1>3, <2>3 DEF InitTid
    <3>2. CASE curr' = curr
      BY <1>1, <2>1, <3>1, <3>2, SameOccupation
    <3>3. CASE curr' = Wild
      BY <3>3, FirstEntry DEF Occupation
    <3> QED BY <3>1, <3>2, <3>3
  <2> QED BY <2>2, <2>3
<1>4. CASE Prepare
  <2>1. /\ curr' = 1 /\ UNCHANGED <<tab, starts>> /\ starting /\ written \in Counts
        /\ starts \in Nat /\ starts >= 1
    BY <1>4 DEF Prepare, LaunchInv
  <2>2. CASE starts > 1
    BY <2>1, <2>2 DEF Occupation
  <2>3. CASE starts = 1
    <3>1. pc = "init" /\ 1 <= written /\ 1 \in Entries
      <4>1. pc = "init"
        BY <1>1, <2>1, <2>3 DEF LaunchInv, Alive
      <4>2. written \in Nat /\ written >= 1
        BY <2>1, CountsAre
      <4> QED BY <4>1, <4>2, FirstEntry
    <3>2. tab[1] # 0
      BY <3>1 DEF LaunchInv
    <3> QED BY <2>1, <3>2 DEF Occupation
  <2> QED BY <2>1, <2>2, <2>3
<1> QED BY <1>2, <1>3, <1>4 DEF Launch

\* A request other than a step leaves curr alone.
LEMMA RequestOccupation ==
  ASSUME BufferTypes, Buffers, Occupation, Request, ~ProcessStep
  PROVE  Occupation'
<1>1. /\ pc = "process" /\ UNCHANGED <<tab, curr, starts, asked>>
  BY DEF Request, ProcessMisframed, ProcessPlain, ProcessSilent, ProcessFatal,
         ProcessBreakpoint, ProcessKill, ProcessThreadInfo, ProcessContinue,
         Processes, threads, launch, debugger
<1>2. req' = req \/ (Whole /\ req' = in[2].id)
  BY DEF Request, ProcessMisframed, ProcessPlain, ProcessSilent, ProcessFatal,
         ProcessBreakpoint, ProcessKill, ProcessThreadInfo, ProcessContinue, Processes
<1>3. req \in Nat /\ (req' = req \/ req' = req + 1)
  BY <1>1, <1>2, ProcessedIsNext DEF BufferTypes
<1>4. req' \in Nat /\ req <= req' /\ Alive /\ pc # "init"
  BY <1>1, <1>3 DEF Alive
<1> QED BY <1>1, <1>4, SameOccupation

LEMMA NextOccupation ==
  ASSUME ThreadsInv, LaunchInv, BufferTypes, Buffers, Occupation, [Next]_vars
  PROVE  Occupation'
<1>1. CASE UNCHANGED vars \/ Ended
  <2>1. UNCHANGED <<tab, curr, starts, pc, req, asked>>
    BY <1>1 DEF vars, Ended
  <2> QED BY <2>1 DEF Occupation, SteppedZero, Alive
<1>2. CASE Launch
  BY <1>2, LaunchOccupation
<1>3. CASE ProcessStep
  BY <1>3, StepOccupation
<1>4. CASE Request /\ ~ProcessStep
  BY <1>4, RequestOccupation
<1>5. CASE CheckExit
  <2>1. curr' = 0
    BY <1>5 DEF CheckExit
  <2> QED BY <2>1, FirstEntry DEF Occupation
<1>6. CASE Resume /\ ~CheckExit
  <2>1. Alive /\ pc # "init" /\ UNCHANGED <<tab, curr, starts, asked, req>>
    BY <1>6 DEF Resume, EnableAsyncIo, WaitReturns, JudgeWild, CheckSigstopOrClone,
       ResumeReply, threads, launch, debugger, Alive
  <2> QED BY <2>1, SameOccupation DEF BufferTypes
<1>7. CASE (ReadPacket \/ ReadDataOnce \/ WriteFlush) /\ UNCHANGED Rest
  <2>1. Alive /\ pc # "init" /\ UNCHANGED <<tab, curr, starts, asked, req>>
    BY <1>7 DEF ReadPacket, ReadDataOnce, WriteFlush, Rest, threads, launch, Alive
  <2> QED BY <2>1, SameOccupation DEF BufferTypes
<1>8. CASE Handler \/ Debugger
  <2>1. Alive /\ UNCHANGED <<tab, curr, starts, req>>
    BY <1>8 DEF Handler, InputInterrupt, ReadInterrupt, Debugger, Accept, SendRequest,
       SendInterrupt, Rest, threads, launch, Alive
  <2>2. asked' = asked \/ \E kind \in Kinds : asked' = Append(asked, kind)
    BY <1>8 DEF Handler, Debugger, Accept, SendRequest, SendInterrupt, Rest, debugger
  <2>3. Alive' /\ pc' # "init" => pc # "init"
    BY <1>8 DEF Alive, Handler, InputInterrupt, ReadInterrupt, Debugger, Accept, SendRequest,
       SendInterrupt, Disconnect, Dies
  <2> QED BY <2>1, <2>2, <2>3, SameOccupation DEF BufferTypes
<1> QED
  BY <1>1, <1>2, <1>3, <1>4, <1>5, <1>6, <1>7, <1>8 DEF Next, Server

\* A request always finds a current thread, with an entry of its own but for thread 0
\* and for later starts, for any size of the table and any number of threads.
THEOREM CurrAlwaysOccupied == Spec => []CurrIsOccupied
<1>1. ThreadsInv /\ Occupation => CurrIsOccupied
  BY DEF ThreadsInv, Occupation, SteppedZero, CurrIsOccupied, NeedsCurr, Alive
<1>2. Init => Occupation
  BY DEF Init, Occupation
<1>3. /\ ThreadsInv /\ LaunchInv /\ BufferTypes /\ Buffers /\ Occupation
      /\ [Next]_vars
      => Occupation'
  BY NextOccupation
<1> QED BY <1>1, <1>2, <1>3, ThreadsAlways, BuffersAlways, PTL DEF Spec

-----------------------------------------------------------------------------
(* The answers.  What is written for a request is there until it is flushed,  *)
(* and every request between the last answered and the one being processed is *)
(* of a silent kind.                                                          *)
Others == {"Z", "z", "vKill", "qfThreadInfo", "vContc", "vConts", "vContsZero"}

LEMMA NotPlain ==
  /\ SetsTmp \subseteq DOMAIN Plain
  /\ \A kind \in Others \union Silent : kind \notin DOMAIN Plain
<1>1. DOMAIN Plain = PlainPackets \union PlainQueries \union PlainXfers \union PlainVPackets
  BY DEF Plain
<1>2. SetsTmp \subseteq DOMAIN Plain
  BY <1>1 DEF PlainPackets, PlainQueries, PlainXfers, PlainVPackets, SetsTmp
<1>3. ASSUME NEW kind \in Others \union Silent PROVE kind \notin DOMAIN Plain
  BY <1>1 DEF PlainPackets, PlainQueries, PlainXfers, PlainVPackets, Others, Silent
<1> QED BY <1>2, <1>3

LEMMA TextsAre ==
  /\ \A kind \in DOMAIN Plain : Texts(kind) = {Plain[kind]}
  /\ \A kind \in Silent : Texts(kind) = {}
  /\ Texts("Z") = {"OK", "E01"} /\ Texts("z") = {"OK", "E01"}
  /\ Texts("vKill") = {"OK"}
  /\ Texts("qfThreadInfo") = {"threads", "wild threads"}
  /\ \A kind \in {"vContc", "vConts", "vContsZero"} : Texts(kind) = TmpTexts
<1>1. ASSUME NEW kind \in DOMAIN Plain PROVE Texts(kind) = {Plain[kind]}
  <2>1. kind \notin Others \union Silent
    BY NotPlain
  <2> QED BY <2>1 DEF Texts, Others
<1>2. ASSUME NEW kind \in Silent PROVE Texts(kind) = {}
  <2>1. kind \notin DOMAIN Plain /\ kind \notin Others
    BY NotPlain DEF Silent, Others
  <2> QED BY <2>1 DEF Texts, Others
<1>3. \A kind \in Others : kind \notin DOMAIN Plain
  BY NotPlain
<1>4. Texts("Z") = {"OK", "E01"} /\ Texts("z") = {"OK", "E01"}
  BY <1>3 DEF Texts, Others
<1>5. Texts("vKill") = {"OK"} /\ Texts("qfThreadInfo") = {"threads", "wild threads"}
  BY <1>3 DEF Texts, Others
<1>6. \A kind \in {"vContc", "vConts", "vContsZero"} : Texts(kind) = TmpTexts
  BY <1>3 DEF Texts, Others
<1> QED BY <1>1, <1>2, <1>4, <1>5, <1>6

LEMMA TmpTextsAre ==
  /\ \A kind \in SetsTmp : Plain[kind] \in TmpTexts
  /\ {"", "threads", "wild threads", "W", "T"} \subseteq TmpTexts
  BY NotPlain DEF TmpTexts

AnswerTypes ==
  /\ out \in Seq(Items) /\ received \in Seq(Items)
  /\ tmpbuf \in TmpTexts

Done == IF pc = "flush" \/ InLoop THEN req - 1 ELSE req

Answering ==
  Alive =>
    /\ LastAnswered \in 0..Done
    /\ \A k \in (LastAnswered + 1)..Done : Texts(asked[k]) = {}
    /\ pc = "flush" \/ InLoop => req \in 1..Len(asked)
    /\ IF pc = "flush"
       THEN \/ out = <<>> /\ Texts(asked[req]) = {}
            \/ \E text \in Texts(asked[req]) : out = <<[id |-> req, text |-> text]>>
       ELSE out = <<>>
    /\ InLoop => asked[req] = "vContc"

\* A step that neither processes nor answers a request.
LEMMA SameAnswers ==
  ASSUME BufferTypes, Buffers, AnswerTypes, Answering, UNCHANGED <<out, received, tmpbuf, req>>,
         asked' = asked \/ \E kind \in Kinds : asked' = Append(asked, kind),
         ~Alive' \/ (Alive /\ (InLoop <=> InLoop') /\ (pc = "flush" <=> pc' = "flush"))
  PROVE  AnswerTypes' /\ Answering'
<1>1. AnswerTypes'
  BY DEF AnswerTypes
<1>2. ASSUME Alive' PROVE Answering'
  <2>1. /\ Alive /\ LastAnswered' = LastAnswered /\ Done' = Done
        /\ (InLoop' <=> InLoop) /\ (pc = "flush" <=> pc' = "flush")
    <3>1. Alive /\ (InLoop' <=> InLoop) /\ (pc = "flush" <=> pc' = "flush")
      BY <1>2
    <3>2. LastAnswered' = LastAnswered
      BY DEF LastAnswered
    <3> QED BY <3>1, <3>2 DEF Done
  <2>2. /\ req \in Nat /\ req <= Len(asked) /\ Len(asked) \in Nat /\ Len(asked') \in Nat
        /\ Len(asked) <= Len(asked')
        /\ \A k \in 1..Len(asked) : asked'[k] = asked[k]
    BY <2>1, KindsAssumption DEF BufferTypes, Buffers
  <2>3. /\ LastAnswered \in 0..Done /\ Done <= Len(asked)
        /\ \A k \in (LastAnswered + 1)..Done : k \in 1..Len(asked)
    BY <2>1, <2>2 DEF Answering, Done
  <2>4. \A k \in (LastAnswered + 1)..Done : Texts(asked'[k]) = {}
    BY <2>1, <2>2, <2>3 DEF Answering
  <2>5. pc = "flush" \/ InLoop => req \in 1..Len(asked) /\ asked'[req] = asked[req]
    BY <2>1, <2>2 DEF Answering
  <2>6. \A k \in (LastAnswered' + 1)..Done' : Texts(asked'[k]) = {}
    BY <2>1, <2>4
  <2>7. LastAnswered' \in 0..Done'
    BY <2>1, <2>3
  <2>8. pc' = "flush" \/ InLoop' => req' \in 1..Len(asked') /\ asked'[req'] = asked[req]
    BY <2>1, <2>2, <2>5
  <2>9. IF pc' = "flush"
        THEN \/ out' = <<>> /\ Texts(asked'[req']) = {}
             \/ \E text \in Texts(asked'[req']) : out' = <<[id |-> req', text |-> text]>>
        ELSE out' = <<>>
    BY <2>1, <2>8 DEF Answering
  <2>10. InLoop' => asked'[req'] = "vContc"
    BY <2>1, <2>8 DEF Answering
  <2> QED BY <2>6, <2>7, <2>8, <2>9, <2>10 DEF Answering
<1> QED BY <1>1, <1>2 DEF Answering

LEMMA AppendToEmpty ==
  ASSUME NEW x
  PROVE  Append(<<>>, x) = <<x>>
  OBVIOUS

\* Processing a request: it is answered, silent, or told to run.
LEMMA ProcessAnswers ==
  ASSUME BufferTypes, Buffers, AnswerTypes, Answering, pc = "process",
         req' = req + 1, req' \in 1..Len(asked), UNCHANGED <<asked, received>>,
         tmpbuf' \in TmpTexts,
         \/ pc' = "dead" /\ out' = out
         \/ /\ pc' = "flush"
            /\ \E text \in Texts(asked[req']) : out' = Append(out, [id |-> req', text |-> text])
         \/ pc' = "flush" /\ out' = out /\ Texts(asked[req']) = {}
         \/ pc' = "resume" /\ out' = out /\ asked[req'] = "vContc"
  PROVE  AnswerTypes' /\ Answering'
<1>1. /\ Alive /\ ~InLoop /\ out = <<>> /\ Done = req /\ req \in Nat
      /\ LastAnswered \in 0..req /\ LastAnswered' = LastAnswered
      /\ \A k \in (LastAnswered + 1)..req : Texts(asked[k]) = {}
  <2>1. Alive /\ ~InLoop /\ pc # "flush" /\ req \in Nat
    BY DEF Alive, InLoop, BufferTypes
  <2>2. Done = req
    BY <2>1 DEF Done
  <2>3. LastAnswered' = LastAnswered
    BY DEF LastAnswered
  <2> QED BY <2>1, <2>2, <2>3 DEF Answering
<1>2. pc' # "dead" => Done' = req
  BY <1>1 DEF Done, InLoop
<1>3. AnswerTypes'
  <2>1. out' = out \/ \E item \in Items : out' = Append(out, item)
    <3>1. ASSUME NEW text \in Texts(asked[req'])
          PROVE  [id |-> req', text |-> text] \in Items
      <4>1. asked[req'] \in AllKinds /\ req' \in 1..MAX_REQUESTS
        BY TableAssumption DEF BufferTypes
      <4> QED BY <4>1 DEF Items
    <3> QED BY <3>1
  <2> QED BY <2>1 DEF AnswerTypes
<1>4. Answering'
  <2>1. CASE pc' = "dead"
    BY <2>1 DEF Answering, Alive
  <2>2. CASE pc' = "flush"
    <3>1. \/ out' = <<>> /\ Texts(asked[req']) = {}
          \/ \E text \in Texts(asked[req']) : out' = <<[id |-> req', text |-> text]>>
      BY <1>1, <2>2, AppendToEmpty
    <3> QED BY <1>1, <1>2, <2>2, <3>1 DEF Answering, InLoop
  <2>3. CASE pc' = "resume"
    BY <1>1, <1>2, <2>3 DEF Answering, InLoop
  <2> QED BY <2>1, <2>2, <2>3
<1> QED BY <1>3, <1>4


\* Every handler writes at most one answer, with a text of the kind.
LEMMA RequestAnswers ==
  ASSUME BufferTypes, Buffers, AnswerTypes, Answering, Request
  PROVE  AnswerTypes' /\ Answering'
<1>1. pc = "process" /\ UNCHANGED <<asked, received>>
  BY DEF Request, ProcessMisframed, ProcessPlain, ProcessSilent, ProcessFatal,
         ProcessBreakpoint, ProcessKill, ProcessThreadInfo, ProcessStep, ProcessContinue,
         Processes, ReadingPart, transport, debugger
<1>2. CASE ProcessMisframed
  <2>1. ~Alive' /\ UNCHANGED <<out, received, tmpbuf, req, asked>>
    BY <1>2 DEF ProcessMisframed, Dies, Alive, transport, debugger
  <2> QED BY <2>1, SameAnswers
<1>3. CASE ~ProcessMisframed
  <2>1. Whole /\ req' = in[2].id
    BY <1>3 DEF Request, ProcessPlain, ProcessSilent, ProcessFatal, ProcessBreakpoint,
           ProcessKill, ProcessThreadInfo, ProcessStep, ProcessContinue, Processes
  <2>2. req' = req + 1 /\ req' \in 1..Len(asked)
    <3>1. /\ req' = req + 1 /\ req' <= Len(asked) /\ req' \in 1..MAX_REQUESTS
      BY <1>1, <2>1, ProcessedIsNext
    <3> QED BY <3>1 DEF BufferTypes
  <2> DEFINE Written(text) == \/ pc' = "dead" /\ out' = out
                              \/ /\ pc' = "flush"
                                 /\ out' = Append(out, [id |-> req', text |-> text])
  <2>3. \A text : WritePacket(req', text, "flush") => Written(text)
    BY DEF WritePacket, Dies
  <2>4. CASE ProcessPlain
    <3>1. PICK kind \in DOMAIN Plain :
             /\ asked[in[2].id] = kind
             /\ tmpbuf' = IF kind \in SetsTmp THEN Plain[kind] ELSE tmpbuf
             /\ IF kind \in UsesCurr /\ curr \notin Entries
                THEN CurrTraps /\ UNCHANGED out
                ELSE WritePacket(req', Plain[kind], "flush")
      BY <2>4 DEF ProcessPlain, Processes
    <3>2. tmpbuf' \in TmpTexts
      BY <3>1, TmpTextsAre DEF AnswerTypes
    <3>3. Written(Plain[kind])
      BY <2>3, <3>1 DEF CurrTraps, Dies
    <3>4. Plain[kind] \in Texts(asked[req'])
      BY <2>1, <3>1, TextsAre
    <3> QED BY <1>1, <2>2, <3>2, <3>3, <3>4, ProcessAnswers
  <2>5. CASE ProcessSilent
    <3>1. asked[req'] \in Silent /\ pc' = "flush" /\ UNCHANGED <<out, tmpbuf>>
      BY <2>1, <2>5 DEF ProcessSilent, Processes
    <3>2. Texts(asked[req']) = {} /\ tmpbuf' \in TmpTexts
      BY <3>1, TextsAre DEF AnswerTypes
    <3> QED BY <1>1, <2>2, <3>1, <3>2, ProcessAnswers
  <2>6. CASE ProcessFatal
    <3>1. pc' = "dead" /\ UNCHANGED <<out, tmpbuf>>
      BY <2>6 DEF ProcessFatal, Dies, transport
    <3>2. tmpbuf' \in TmpTexts
      BY <3>1 DEF AnswerTypes
    <3> QED BY <1>1, <2>2, <3>1, <3>2, ProcessAnswers
  <2>7. CASE ProcessBreakpoint
    <3>1. PICK text \in {"OK", "E01"} : Written(text)
      BY <2>3, <2>7 DEF ProcessBreakpoint, CurrTraps, Dies
    <3>2. asked[req'] \in {"Z", "z"} /\ tmpbuf' = tmpbuf
      BY <2>1, <2>7 DEF ProcessBreakpoint, Processes
    <3>3. text \in Texts(asked[req']) /\ tmpbuf' \in TmpTexts
      BY <3>1, <3>2, TextsAre DEF AnswerTypes
    <3> QED BY <1>1, <2>2, <3>1, <3>3, ProcessAnswers
  <2>8. CASE ProcessKill
    <3>1. Written("OK")
      BY <2>3, <2>8 DEF ProcessKill, Dies
    <3>2. asked[req'] = "vKill" /\ tmpbuf' = tmpbuf
      BY <2>1, <2>8 DEF ProcessKill, Processes
    <3>3. "OK" \in Texts(asked[req']) /\ tmpbuf' \in TmpTexts
      BY <3>2, TextsAre DEF AnswerTypes
    <3> QED BY <1>1, <2>2, <3>1, <3>3, ProcessAnswers
  <2>9. CASE ProcessThreadInfo
    <3>1. \E text \in {"threads", "wild threads"} :
             Written(text) /\ (tmpbuf' = tmpbuf \/ tmpbuf' = text)
      BY <2>3, <2>9 DEF ProcessThreadInfo, Dies
    <3>2. asked[req'] = "qfThreadInfo"
      BY <2>1, <2>9 DEF ProcessThreadInfo, Processes
    <3>3. PICK text \in Texts(asked[req']) : Written(text)
      BY <3>1, <3>2, TextsAre
    <3>4. tmpbuf' \in TmpTexts
      BY <3>1, TmpTextsAre DEF AnswerTypes
    <3> QED BY <1>1, <2>2, <3>3, <3>4, ProcessAnswers
  <2>10. CASE ProcessStep
    <3>1. asked[req'] \in {"vConts", "vContsZero"}
      BY <2>1, <2>10 DEF ProcessStep, Processes
    <3>2. CASE curr' \in Entries
      <4>1. tmpbuf' = ResumeText(stat[curr']) /\ WritePacket(req', tmpbuf', "flush")
        BY <2>10, <3>2 DEF ProcessStep
      <4>2. tmpbuf' \in TmpTexts
        BY <4>1, TmpTextsAre DEF AnswerTypes, ResumeText
      <4>3. Written(tmpbuf')
        BY <2>3, <4>1
      <4>4. tmpbuf' \in Texts(asked[req'])
        BY <3>1, <4>2, TextsAre
      <4> QED BY <1>1, <2>2, <4>2, <4>3, <4>4, ProcessAnswers
    <3>3. CASE curr' \notin Entries
      <4>1. pc' = "dead" /\ UNCHANGED <<out, tmpbuf>>
        BY <2>10, <3>3 DEF ProcessStep, CurrTraps, Dies
      <4>2. tmpbuf' \in TmpTexts
        BY <4>1 DEF AnswerTypes
      <4> QED BY <1>1, <2>2, <4>1, <4>2, ProcessAnswers
    <3> QED BY <3>2, <3>3
  <2>11. CASE ProcessContinue
    <3>1. pc' = "resume" /\ out' = out /\ asked[req'] = "vContc" /\ tmpbuf' \in TmpTexts
      BY <2>1, <2>11 DEF ProcessContinue, Processes, transport, AnswerTypes
    <3> QED BY <1>1, <2>2, <3>1, ProcessAnswers
  <2> QED BY <1>3, <2>4, <2>5, <2>6, <2>7, <2>8, <2>9, <2>10, <2>11 DEF Request
<1> QED BY <1>2, <1>3

\* The resume reply answers the vCont;c that is in the buffer.
LEMMA ResumeAnswers ==
  ASSUME BufferTypes, Buffers, AnswerTypes, Answering, Resume
  PROVE  AnswerTypes' /\ Answering'
<1>1. InLoop /\ Alive /\ pc # "flush" /\ UNCHANGED <<received, asked, req>>
  BY DEF Resume, EnableAsyncIo, WaitReturns, JudgeWild, CheckExit, CheckSigstopOrClone,
         ResumeReply, InLoop, Alive, transport, ReadingPart, debugger
<1>2. CASE UNCHANGED <<out, tmpbuf>> /\ pc' \in {"resume", "waiting", "judge", "frozen", "dead"}
  BY <1>1, <1>2, SameAnswers DEF Alive, InLoop
<1>3. CASE ResumeReply /\ pc' # "frozen"
  <2>1. tmpbuf' = ResumeText(stat[curr]) /\ WritePacket(req, tmpbuf', "flush")
    BY <1>3 DEF ResumeReply
  <2>2. tmpbuf' \in TmpTexts
    BY <2>1, TmpTextsAre DEF AnswerTypes, ResumeText
  <2>3. asked[req] = "vContc" /\ req \in 1..Len(asked) /\ out = <<>>
    BY <1>1 DEF Answering
  <2>4. \/ pc' = "dead" /\ out' = out
        \/ pc' = "flush" /\ out' = Append(out, [id |-> req, text |-> tmpbuf'])
    BY <2>1 DEF WritePacket, Dies
  <2>5. tmpbuf' \in Texts(asked[req])
    BY <2>2, <2>3, TextsAre
  <2>6. AnswerTypes'
    <3>1. asked[req] \in AllKinds /\ req \in 1..MAX_REQUESTS
      BY <2>3, TableAssumption DEF BufferTypes
    <3>2. [id |-> req, text |-> tmpbuf'] \in Items
      BY <2>5, <3>1 DEF Items
    <3> QED BY <1>1, <2>2, <2>4, <3>2 DEF AnswerTypes
  <2>7. Answering'
    <3>1. CASE pc' = "dead"
      BY <3>1 DEF Answering, Alive
    <3>2. CASE pc' = "flush"
      <4>1. ~InLoop' /\ Done' = Done /\ LastAnswered' = LastAnswered
        <5>1. ~InLoop'
          BY <3>2 DEF InLoop
        <5>2. LastAnswered' = LastAnswered
          BY <1>1 DEF LastAnswered
        <5> QED BY <1>1, <3>2, <5>1, <5>2 DEF Done
      <4>2. /\ LastAnswered \in 0..Done
            /\ \A k \in (LastAnswered + 1)..Done : Texts(asked[k]) = {}
        BY <1>1 DEF Answering
      <4>3. out' = <<[id |-> req, text |-> tmpbuf']>>
        BY <2>3, <2>4, <3>2, AppendToEmpty
      <4> QED BY <1>1, <2>3, <2>5, <3>2, <4>1, <4>2, <4>3 DEF Answering
    <3> QED BY <2>4, <3>1, <3>2
  <2> QED BY <2>6, <2>7
<1>4. CASE EnableAsyncIo \/ WaitReturns \/ JudgeWild \/ CheckExit \/ CheckSigstopOrClone
  <2>1. UNCHANGED <<out, tmpbuf>>
    BY <1>4 DEF EnableAsyncIo, WaitReturns, JudgeWild, CheckExit, CheckSigstopOrClone, transport
  <2>2. pc' \in {"resume", "waiting", "judge", "frozen", "dead"}
    BY <1>4 DEF EnableAsyncIo, WaitReturns, JudgeWild, CheckExit, CheckSigstopOrClone,
       CurrTraps, Dies
  <2> QED BY <1>2, <2>1, <2>2
<1>5. CASE ResumeReply /\ pc' = "frozen"
  <2>1. UNCHANGED <<out, tmpbuf>>
    BY <1>5 DEF ResumeReply, WritePacket, Dies
  <2> QED BY <1>2, <1>5, <2>1
<1> QED BY <1>3, <1>4, <1>5 DEF Resume

\* What is written reaches the debugger: the answer to the request, or nothing.
LEMMA FlushAnswers ==
  ASSUME BufferTypes, Buffers, AnswerTypes, Answering, WriteFlush, UNCHANGED Rest
  PROVE  /\ AnswerTypes' /\ Answering'
         /\ \/ Service!Answer
            \/ UNCHANGED <<asked, received>>
<1>1. pc = "flush" /\ Alive /\ ~InLoop /\ UNCHANGED <<asked, req, tmpbuf>>
  BY DEF WriteFlush, Alive, InLoop, Rest
<1>2. CASE pc' = "dead"
  <2>1. UNCHANGED <<out, received>> /\ ~Alive'
    BY <1>2 DEF WriteFlush, Flush, Alive
  <2> QED BY <1>1, <2>1, SameAnswers
<1>3. CASE pc' # "dead"
  <2>1. received' = received \o out /\ out' = <<>> /\ pc' = "read"
    BY <1>3 DEF WriteFlush, Flush, Dies
  <2>2. /\ Alive' /\ ~InLoop' /\ Done' = req /\ Done = req - 1
        /\ req \in 1..Len(asked) /\ req \in Nat
        /\ LastAnswered \in 0..(req - 1)
        /\ \A k \in (LastAnswered + 1)..(req - 1) : Texts(asked[k]) = {}
    <3>1. Alive' /\ ~InLoop'
      BY <2>1 DEF Alive, InLoop
    <3>2. Done' = req /\ Done = req - 1
      BY <1>1, <2>1, <3>1 DEF Done
    <3>3. /\ LastAnswered \in 0..Done /\ req \in 1..Len(asked)
          /\ \A k \in (LastAnswered + 1)..Done : Texts(asked[k]) = {}
      BY <1>1 DEF Answering
    <3>4. req \in Nat
      BY DEF BufferTypes
    <3> QED BY <3>1, <3>2, <3>3, <3>4
  <2>3. CASE out = <<>>
    <3>1. received' = received
      BY <2>1, <2>3 DEF AnswerTypes
    <3>2. LastAnswered' = LastAnswered
      BY <3>1 DEF LastAnswered
    <3>3. Texts(asked[req]) = {}
      BY <1>1, <2>3 DEF Answering
    <3>4. \A k \in (LastAnswered + 1)..req : Texts(asked[k]) = {}
      BY <2>2, <3>3
    <3>5. AnswerTypes'
      BY <1>1, <2>1, <3>1 DEF AnswerTypes
    <3>6. Answering'
      <4>1. /\ LastAnswered' \in 0..Done'
            /\ \A k \in (LastAnswered' + 1)..Done' : Texts(asked'[k]) = {}
        BY <1>1, <2>2, <3>2, <3>4
      <4> QED BY <2>1, <2>2, <4>1 DEF Answering
    <3> QED BY <1>1, <3>1, <3>5, <3>6
  <2>4. CASE out # <<>>
    <3>1. PICK text \in Texts(asked[req]) : out = <<[id |-> req, text |-> text]>>
      BY <1>1, <2>4 DEF Answering
    <3>2. received' = Append(received, [id |-> req, text |-> text])
      BY <2>1, <3>1 DEF AnswerTypes
    <3>3. LastAnswered' = req
      <4>1. /\ received' # <<>> /\ received'[Len(received')] = [id |-> req, text |-> text]
        BY <3>2 DEF AnswerTypes
      <4> QED BY <4>1 DEF LastAnswered
    <3>4. AnswerTypes'
      BY <1>1, <2>1 DEF AnswerTypes
    <3>5. Answering'
      BY <1>1, <2>1, <2>2, <3>3 DEF Answering
    <3>6. Service!Answer
      <4>1. Service!LastAnswered = LastAnswered
        BY DEF LastAnswered, Service!LastAnswered
      <4>2. /\ req \in (LastAnswered + 1)..Len(asked)
            /\ \A skipped \in (LastAnswered + 1)..(req - 1) : Texts(asked[skipped]) = {}
        BY <2>2
      <4>3. Alive' = Alive
        BY <1>1, <2>2
      <4> QED BY <1>1, <3>1, <3>2, <4>1, <4>2, <4>3 DEF Service!Answer
    <3> QED BY <3>4, <3>5, <3>6
  <2> QED BY <2>3, <2>4
<1> QED BY <1>2, <1>3

LEMMA NextAnswers ==
  ASSUME BufferTypes, Buffers, AnswerTypes, Answering, [Next]_vars
  PROVE  /\ AnswerTypes' /\ Answering'
         /\ \/ Service!Submit
            \/ Service!Answer
            \/ UNCHANGED <<asked, received>> /\ (Alive' => Alive)
<1>1. CASE UNCHANGED vars
  BY <1>1, SameAnswers DEF vars, Alive, InLoop
<1>2. CASE Launch
  <2>1. Alive /\ UNCHANGED <<out, received, tmpbuf, req, asked>> /\ pc' \in {pc, "listen", "dead"}
        /\ (pc' = "listen" => pc \in {"init", "listen"})
    BY <1>2 DEF Launch, StartGdbServer, InitTid, Prepare, Dies, transport, debugger
  <2> QED BY <2>1, SameAnswers DEF Alive, InLoop
<1>3. CASE ReadPacket /\ UNCHANGED Rest
  <2>1. pc = "read" /\ Alive /\ ~InLoop /\ pc' \in {"receive", "process", "dead"}
        /\ UNCHANGED <<tmpbuf, req, asked>>
    BY <1>3 DEF ReadPacket, Flush, Dies, Alive, InLoop, Rest
  <2>2. out = <<>>
    BY <2>1 DEF Answering
  <2>3. UNCHANGED <<out, received>>
    <3>1. received \o <<>> = received
      BY DEF AnswerTypes
    <3> QED BY <1>3, <2>2, <3>1 DEF ReadPacket, Flush
  <2> QED BY <2>1, <2>3, SameAnswers DEF Alive, InLoop
<1>4. CASE ReadDataOnce /\ UNCHANGED Rest
  <2>1. pc = "receive" /\ pc' \in {"read", "dead"}
        /\ UNCHANGED <<out, received, tmpbuf, req, asked>>
    BY <1>4 DEF ReadDataOnce, Dies, Rest
  <2> QED BY <2>1, SameAnswers DEF Alive, InLoop
<1>5. CASE WriteFlush /\ UNCHANGED Rest
  <2>1. Alive
    BY <1>5 DEF WriteFlush, Alive
  <2> QED BY <1>5, <2>1, FlushAnswers
<1>6. CASE Request
  <2>1. Alive /\ UNCHANGED <<asked, received>>
    BY <1>6 DEF Request, ProcessMisframed, ProcessPlain, ProcessSilent, ProcessFatal,
         ProcessBreakpoint, ProcessKill, ProcessThreadInfo, ProcessStep, ProcessContinue,
         Processes, ReadingPart, transport, debugger, Alive
  <2> QED BY <1>6, <2>1, RequestAnswers
<1>7. CASE Resume
  <2>1. Alive /\ UNCHANGED <<asked, received>>
    BY <1>7 DEF Resume, EnableAsyncIo, WaitReturns, JudgeWild, CheckExit, CheckSigstopOrClone,
         ResumeReply, ReadingPart, transport, debugger, Alive
  <2> QED BY <1>7, <2>1, ResumeAnswers
<1>8. CASE (InputInterrupt \/ ReadInterrupt) /\ UNCHANGED Rest
  <2>1. Alive /\ UNCHANGED <<out, received, tmpbuf, req, asked>> /\ pc' \in {pc, "dead"}
    BY <1>8 DEF InputInterrupt, ReadInterrupt, Dies, Rest
  <2> QED BY <2>1, SameAnswers DEF Alive, InLoop
<1>9. CASE Accept \/ SendInterrupt \/ (Alive /\ Disconnect /\ UNCHANGED Rest)
  <2>1. Alive /\ UNCHANGED <<out, received, tmpbuf, req, asked>>
        /\ (pc' = pc \/ (pc = "listen" /\ pc' = "read"))
    BY <1>9 DEF Accept, SendInterrupt, Arrive, Disconnect, Rest, transport, debugger, Alive
  <2> QED BY <2>1, SameAnswers DEF Alive, InLoop
<1>10. CASE SendRequest
  <2>1. PICK kind \in Kinds : asked' = Append(asked, kind)
    BY <1>10 DEF SendRequest
  <2>2. Alive /\ UNCHANGED <<out, received, tmpbuf, req, pc>>
    BY <1>10 DEF SendRequest, Arrive
  <2>3. Alive' = Alive
    BY <2>2 DEF Alive
  <2>4. Service!Submit
    BY <2>1, <2>2, <2>3 DEF Service!Submit
  <2> QED BY <2>1, <2>2, <2>4, SameAnswers DEF Alive, InLoop
<1>11. CASE Ended
  BY <1>11, SameAnswers DEF Ended, vars, Alive
<1> QED
  BY <1>1, <1>2, <1>3, <1>4, <1>5, <1>6, <1>7, <1>8, <1>9, <1>10, <1>11
  DEF Next, Server, Handler, Debugger

LEMMA InitAnswers == Init => AnswerTypes /\ Answering
<1> SUFFICES ASSUME Init PROVE AnswerTypes /\ Answering
  OBVIOUS
<1>1. /\ out = <<>> /\ received = <<>> /\ tmpbuf = "" /\ req = 0 /\ pc = "init"
  BY DEF Init, TransportInit
<1>2. AnswerTypes
  <2>1. "" \in TmpTexts
    BY TmpTextsAre
  <2>2. <<>> \in Seq(Items)
    OBVIOUS
  <2>3. out \in Seq(Items) /\ received \in Seq(Items)
    BY <1>1, <2>2
  <2>4. tmpbuf \in TmpTexts
    BY <1>1, <2>1
  <2> QED BY <2>3, <2>4 DEF AnswerTypes
<1>3. ~InLoop /\ Done = 0 /\ LastAnswered = 0
  BY <1>1 DEF InLoop, Done, LastAnswered
<1>4. Answering
  <2>1. LastAnswered \in 0..Done /\ (LastAnswered + 1)..Done = {}
    BY <1>3
  <2> QED BY <1>1, <1>3, <2>1 DEF Answering
<1> QED BY <1>2, <1>4

LEMMA AnswersAlways == Spec => [](BufferTypes /\ Buffers /\ AnswerTypes /\ Answering)
<1>1. BufferTypes /\ Buffers /\ AnswerTypes /\ Answering /\ [Next]_vars
        => (BufferTypes /\ Buffers /\ AnswerTypes /\ Answering)'
  BY NextBuffers, NextAnswers
<1> QED BY <1>1, InitBuffers, InitAnswers, PTL DEF Spec

\* The stub implements GdbService: requests are answered in order, each at most
\* once, with a text of its kind, and only silent kinds are passed over.  A step of
\* the stub is an answer (the flush), a request, an end, or invisible.
THEOREM AnswersAreInOrder == Spec => AnswersInOrder
<1>1. Init => Service!Init
  <2>1. Init => asked = <<>> /\ received = <<>> /\ pc = "init"
    BY DEF Init, TransportInit
  <2> QED BY <2>1 DEF Service!Init, Alive
<1>2. BufferTypes /\ Buffers /\ AnswerTypes /\ Answering /\ [Next]_vars
        => [Service!Next]_Service!vars
  <2>1. SUFFICES ASSUME BufferTypes, Buffers, AnswerTypes, Answering, [Next]_vars
                 PROVE  [Service!Next]_Service!vars
    OBVIOUS
  <2>2. CASE UNCHANGED <<asked, received>> /\ (Alive' => Alive)
    <3>1. CASE Alive'
      <4>1. Alive' = Alive
        BY <2>2, <3>1 DEF Alive
      <4> QED BY <2>2, <4>1 DEF Service!vars
    <3>2. CASE ~Alive'
      <4>1. Alive' = FALSE
        BY <3>2 DEF Alive
      <4> QED BY <2>2, <4>1 DEF Service!Next, Service!End
    <3> QED BY <3>1, <3>2
  <2> QED BY <2>1, <2>2, NextAnswers DEF Service!Next
<1> QED BY <1>1, <1>2, AnswersAlways, PTL DEF Spec, AnswersInOrder, Service!Spec

-----------------------------------------------------------------------------
OtherTypes ==
  /\ closed \in BOOLEAN /\ async_io_enabled \in BOOLEAN
  /\ handler \in {"none", "raised", "reading"}
  /\ cause \in Causes
  /\ bps \in [Slots -> Addresses \union {0}]
  /\ interrupts \in 0..MAX_INTERRUPTS /\ starts \in 0..MAX_STARTS

LEMMA NextOthers ==
  ASSUME OtherTypes, [Next]_vars
  PROVE  OtherTypes'
<1>1. closed' \in BOOLEAN
  BY DEF OtherTypes, vars, Next, Server, Handler, Debugger, Ended, Rest, Launch, StartGdbServer, InitTid, Prepare, Accept, SendRequest, SendInterrupt,
      Arrive, Disconnect, ReadPacket, ReadDataOnce, WriteFlush, InputInterrupt, ReadInterrupt, Request,
         ProcessMisframed, ProcessPlain, ProcessSilent, ProcessFatal,
         ProcessBreakpoint, ProcessKill, ProcessThreadInfo, ProcessStep, ProcessContinue,
         ReadingPart, transport, Resume, EnableAsyncIo, WaitReturns, JudgeWild, CheckExit, CheckSigstopOrClone,
         ResumeReply
<1>2. async_io_enabled' \in BOOLEAN
  BY DEF OtherTypes, vars, Next, Server, Handler, Debugger, Ended, Rest, Launch, StartGdbServer, InitTid, Prepare, Accept, SendRequest, SendInterrupt,
      Arrive, Disconnect, ReadPacket, ReadDataOnce, WriteFlush, InputInterrupt, ReadInterrupt, Request,
         ProcessMisframed, ProcessPlain, ProcessSilent, ProcessFatal,
         ProcessBreakpoint, ProcessKill, ProcessThreadInfo, ProcessStep, ProcessContinue,
         ReadingPart, transport, Resume, EnableAsyncIo, WaitReturns, JudgeWild, CheckExit, CheckSigstopOrClone,
         ResumeReply
<1>3. handler' \in {"none", "raised", "reading"}
  BY DEF OtherTypes, vars, Next, Server, Handler, Debugger, Ended, Rest, Launch, StartGdbServer, InitTid, Prepare, Accept, SendRequest, SendInterrupt,
      Arrive, Disconnect, Raise, ReadPacket, ReadDataOnce, WriteFlush, InputInterrupt, ReadInterrupt, Request,
         ProcessMisframed, ProcessPlain, ProcessSilent, ProcessFatal,
         ProcessBreakpoint, ProcessKill, ProcessThreadInfo, ProcessStep, ProcessContinue,
         ReadingPart, transport, Resume, EnableAsyncIo, WaitReturns, JudgeWild, CheckExit, CheckSigstopOrClone,
         ResumeReply
<1>4. cause' \in Causes
  <2>1. {"none", "closed", "overflow", "write", "interrupt", "bind", "misframed",
         "detached", "fault", "null curr", "wild curr", "killed"} \subseteq Causes /\ cause \in Causes
    BY DEF Causes, OtherTypes
  <2>2. CASE Request
    <3>1. CASE ProcessMisframed \/ ProcessFatal \/ ProcessSilent \/ ProcessContinue
      <4>1. cause' = cause \/ cause' \in {"misframed", "detached", "fault"}
        BY <3>1 DEF ProcessMisframed, ProcessFatal, ProcessSilent, ProcessContinue, Dies
      <4> QED BY <2>1, <4>1
    <3>2. CASE ProcessPlain \/ ProcessBreakpoint \/ ProcessStep
      <4>1. cause' = cause \/ cause' \in {"null curr", "wild curr", "overflow"}
        BY <3>2 DEF ProcessPlain, ProcessBreakpoint, ProcessStep, WritePacket, CurrTraps, Dies
      <4> QED BY <2>1, <4>1
    <3>3. CASE ProcessKill \/ ProcessThreadInfo
      <4>1. cause' = cause \/ cause' \in {"killed", "fault", "overflow"}
        BY <3>3 DEF ProcessKill, ProcessThreadInfo, WritePacket, Dies
      <4> QED BY <2>1, <4>1
    <3> QED BY <2>2, <3>1, <3>2, <3>3 DEF Request
  <2>3. CASE Resume
    <3>1. cause' = cause \/ cause' \in {"null curr", "wild curr", "overflow"}
      BY <2>3 DEF Resume, EnableAsyncIo, WaitReturns, JudgeWild, CheckExit,
         CheckSigstopOrClone, ResumeReply, WritePacket, CurrTraps, Dies
    <3> QED BY <2>1, <3>1
  <2>4. CASE ReadPacket \/ ReadDataOnce \/ WriteFlush
    <3>1. cause' = cause \/ cause' \in {"write", "closed", "overflow"}
      BY <2>4 DEF ReadPacket, ReadDataOnce, WriteFlush, Flush, Dies
    <3> QED BY <2>1, <3>1
  <2>5. CASE Launch \/ Handler \/ Debugger \/ Ended \/ UNCHANGED vars
    <3>1. cause' = cause \/ cause' \in {"bind", "interrupt"}
      BY <2>5 DEF Launch, StartGdbServer, InitTid, Prepare, Handler, InputInterrupt, ReadInterrupt, Debugger, Accept,
         SendRequest, SendInterrupt, Disconnect, Ended, vars, Dies
    <3> QED BY <2>1, <3>1
  <2> QED BY <2>2, <2>3, <2>4, <2>5 DEF Next, Server
<1>5. bps' \in [Slots -> Addresses \union {0}]
  <2>1. CASE ProcessBreakpoint
    <3>1. \/ bps' = bps
          \/ \E a \in Addresses, wanted \in Addresses \union {0} :
                bps' = [bps EXCEPT ![FirstSlot(wanted)] = a - wanted]
      BY <2>1 DEF ProcessBreakpoint
    <3> QED BY <3>1 DEF OtherTypes, Addresses
  <2>2. CASE Launch
    BY <2>2 DEF Launch, StartGdbServer, InitTid, Prepare, OtherTypes
  <2>3. CASE ~ProcessBreakpoint /\ ~Launch
    BY <2>3 DEF OtherTypes, vars, Next, Server, Handler, Debugger, Ended, Rest, Accept, SendRequest, SendInterrupt,
         Request, ProcessMisframed, ProcessPlain, ProcessSilent, ProcessFatal,
         ProcessKill, ProcessThreadInfo, ProcessStep, ProcessContinue,
         Resume, EnableAsyncIo, WaitReturns, JudgeWild, CheckExit, CheckSigstopOrClone,
         ResumeReply
  <2> QED BY <2>1, <2>2, <2>3
<1>6. interrupts' \in 0..MAX_INTERRUPTS
  <2>1. CASE SendInterrupt
    <3>1. interrupts < MAX_INTERRUPTS /\ interrupts' = interrupts + 1
      BY <2>1 DEF SendInterrupt
    <3> QED BY <3>1, TableAssumption DEF OtherTypes
  <2>2. CASE ~SendInterrupt
    BY <2>2 DEF OtherTypes, vars, Next, Server, Handler, Debugger, Ended, Rest,
       Launch, StartGdbServer, InitTid, Prepare, Accept, SendRequest, debugger, Request, ProcessMisframed, ProcessPlain,
       ProcessSilent, ProcessFatal, ProcessBreakpoint, ProcessKill, ProcessThreadInfo,
       ProcessStep, ProcessContinue, Resume, EnableAsyncIo, WaitReturns, JudgeWild, CheckExit,
       CheckSigstopOrClone, ResumeReply
  <2> QED BY <2>1, <2>2
<1>7. starts' \in 0..MAX_STARTS
  <2>1. CASE StartGdbServer
    <3>1. starts < MAX_STARTS /\ starts' = starts + 1
      BY <2>1 DEF StartGdbServer
    <3> QED BY <3>1, TableAssumption DEF OtherTypes
  <2>2. CASE ~StartGdbServer
    BY <2>2 DEF OtherTypes, vars, Next, Launch, InitTid, Prepare, launch, Server, Handler,
       Debugger, Ended, Rest, Accept, SendRequest, SendInterrupt, Request, ProcessMisframed, ProcessPlain,
       ProcessSilent, ProcessFatal, ProcessBreakpoint, ProcessKill, ProcessThreadInfo,
       ProcessStep, ProcessContinue, Resume, EnableAsyncIo, WaitReturns, JudgeWild, CheckExit,
       CheckSigstopOrClone, ResumeReply
  <2> QED BY <2>1, <2>2
<1> QED BY <1>1, <1>2, <1>3, <1>4, <1>5, <1>6, <1>7 DEF OtherTypes

LEMMA InitOthers == Init => OtherTypes
<1> SUFFICES ASSUME Init PROVE OtherTypes
  OBVIOUS
<1>1. closed = FALSE /\ async_io_enabled = FALSE /\ handler = "none"
  BY DEF Init, TransportInit
<1>2. cause = "none" /\ interrupts = 0 /\ starts = 0
  BY DEF Init
<1>3. bps \in [Slots -> Addresses \union {0}]
  <2>1. bps = [s \in Slots |-> 0]
    BY DEF Init
  <2> QED BY <2>1
<1>4. interrupts \in 0..MAX_INTERRUPTS /\ starts \in 0..MAX_STARTS
  BY <1>2, TableAssumption
<1>5. cause \in Causes
  BY <1>2 DEF Causes
<1> QED BY <1>1, <1>3, <1>4, <1>5 DEF OtherTypes

\* The variables hold what TypeOK says, whatever is sent and however it is cut.
THEOREM TypeAlwaysOK == Spec => []TypeOK
<1>1. OtherTypes /\ [Next]_vars => OtherTypes'
  BY NextOthers
<1>2. Spec => []OtherTypes
  BY <1>1, InitOthers, PTL DEF Spec
<1>3. OtherTypes /\ ThreadsInv /\ LaunchInv /\ BufferTypes /\ Buffers /\ AnswerTypes /\ Answering => TypeOK
  BY DEF OtherTypes, ThreadsInv, LaunchInv, BufferTypes, AnswerTypes, TypeOK
<1> QED BY <1>2, <1>3, ThreadsAlways, AnswersAlways, PTL
=============================================================================
