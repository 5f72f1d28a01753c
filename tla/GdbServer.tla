------------------------------ MODULE GdbServer ------------------------------
(***************************************************************************)
(* The gdb stub of gdbinject: a thread of the process it serves            *)
(* (gdbinject.c, entry.cpp) over the transport of GdbPackets.  Every       *)
(* handler of process_packet is an action.  ptrace and waitpid fail for it *)
(* (a thread cannot trace its own process, which has no children here),    *)
(* so what waitpid leaves in its status is what was on the stack.          *)
(***************************************************************************)
EXTENDS GdbPackets, GdbSignals, FiniteSets

CONSTANTS THREAD_NUMBER, BREAKPOINT_NUMBER,
          ThreadCounts,       \* bound: threads the process may have at the first start
          LaterCounts,        \* bound: threads it may have at a later one
          MAX_STARTS,         \* bound: calls of start_gdbserver
          Kinds, MAX_REQUESTS, WINDOW, MAX_INTERRUPTS   \* bounds: the debugger

ASSUME TableAssumption ==
  /\ THREAD_NUMBER \in Nat \ {0} /\ BREAKPOINT_NUMBER \in Nat \ {0}
  /\ ThreadCounts \subseteq Nat \ {0} /\ LaterCounts \subseteq Nat \ {0}
  /\ MAX_STARTS \in Nat /\ MAX_REQUESTS \in Nat /\ MAX_INTERRUPTS \in Nat

VARIABLES tab,            \* threads.t[].tid, 0 when the entry is free
          stat,           \* threads.t[].stat
          curr,           \* index of threads.curr, 0 for NULL, Wild
          len,            \* threads.len
          bps,            \* breakpoints[].addr, 0 when free
          tmpbuf,         \* what was formatted into tmpbuf last
          asked,          \* the kinds of the requests sent so far
          req,            \* the request being processed, or the last one
          interrupts,
          starts,         \* calls of start_gdbserver
          starting,       \* the latest has not assigned curr yet
          written         \* entries its init_tids has written

threads == <<tab, stat, curr, len>>
launch == <<starts, starting, written>>
debugger == <<asked, interrupts>>
vars == <<wire, closed, in, out, received, async_io_enabled, handler, pc, cause,
          tab, stat, curr, len, bps, tmpbuf, asked, req, interrupts, starts, starting, written>>

Entries == 1..THREAD_NUMBER
Slots == 1..BREAKPOINT_NUMBER
Stats == {"exited", "stopped", "cloned", "other"}
Occupied == {e \in Entries : tab[e] # 0}

\* What curr is when ids of a process and a thread, or one of them, lie over it.
Wild == THREAD_NUMBER + 1

-----------------------------------------------------------------------------
(* The requests.  Plain ones are answered with a fixed text; SetsTmp says     *)
(* which of them format it in tmpbuf.                                         *)
PlainPackets == {"H", "M", "g", "m", "mLong", "p", "pHigh", "P", "PHigh", "X", "ZOther",
                 "zOther", "status", "other"}

PlainQueries == {"qC", "qAttached", "qOffsets", "qSupported", "qSymbol",
                 "qThreadExtraInfo", "qTStatus", "qsThreadInfo"}

PlainXfers == {"qXferFeatures", "qXferAuxv", "qXferExecFile"}

PlainVPackets == {"vContQuery", "vMustReplyEmpty", "vFileOpen", "vFileClose", "vFilePread",
                  "vFileSetfs", "vFileOther"}

\* The path of exec-file goes to an address that is NULL: the answer is empty.
Plain ==
  [kind \in PlainPackets \union PlainQueries \union PlainXfers \union PlainVPackets |->
     CASE kind \in {"H", "M", "P", "X", "qSymbol"} -> "OK"
       [] kind \in {"pHigh", "PHigh"} -> "E01"
       [] kind = "status" -> "S05"
       [] kind = "g" -> "registers"
       [] kind = "m" -> "memory"
       [] kind = "mLong" -> "long memory"
       [] kind = "p" -> "register"
       [] kind = "qC" -> "current"
       [] kind = "qAttached" -> "1"
       [] kind = "qSupported" -> "features"
       [] kind = "qThreadExtraInfo" -> "41414141"
       [] kind = "qXferFeatures" -> "target"
       [] kind \in {"qsThreadInfo", "qXferAuxv", "qXferExecFile"} -> "l"
       [] kind = "vContQuery" -> "vCont;c;C;s;S;"
       [] kind = "vFileOpen" -> "F"
       [] kind \in {"vFileClose", "vFileSetfs"} -> "F0"
       [] kind = "vFilePread" -> "data"
       [] OTHER -> ""]

SetsTmp == {"g", "m", "mLong", "p", "qC", "vFileOpen", "vFilePread"}

UsesCurr == {"p", "P", "qC", "X"}

\* No branch writes a packet for these: the settings (Q), the queries,
\* objects and v packets it does not know, and vCont with C or S.
Silent == {"Q", "qUnknown", "qXferOther", "vUnknown", "vContC", "vContS"}

AllKinds == DOMAIN Plain \union Silent
              \union {"D", "mBad", "Z", "z", "vKill", "vContc", "vConts", "vContsZero",
                     "qfThreadInfo"}

ASSUME KindsAssumption == Kinds \subseteq AllKinds

\* What tmpbuf may hold: nothing yet, a text, a list of threads, a resume reply.
TmpTexts == {""} \union {Plain[kind] : kind \in SetsTmp}
              \union {"threads", "wild threads", "W", "T"}

\* The addresses a debugger sets breakpoints at.
Addresses == {1}

\* The size of a packet in the buffer out: the answer to a read of as much
\* memory as PacketSize allows, twice that many digits, needs all of it.
Size(text) == IF text = "long memory" THEN OUT_SIZE ELSE 1

-----------------------------------------------------------------------------
Init ==
  /\ TransportInit
  /\ pc = "init" /\ cause = "none"
  /\ tab = [e \in Entries |-> 0]
  /\ stat = [e \in Entries |-> "exited"]       \* zero: WIFEXITED
  /\ curr = 0 /\ len = 0
  /\ bps = [s \in Slots |-> 0]
  /\ tmpbuf = "" /\ asked = <<>> /\ req = 0 /\ interrupts = 0
  /\ starts = 0 /\ starting = FALSE /\ written = 0

\* A thread is created for GdbInjectThread, from JNI_OnLoad or by the button.
\* Bound: not while an earlier one fills the table.
StartGdbServer ==
  /\ Alive /\ ~starting /\ starts < MAX_STARTS
  /\ starts' = starts + 1 /\ starting' = TRUE /\ written' = 0
  /\ UNCHANGED <<transport, pc, cause, threads, bps, tmpbuf, req, debugger>>

Counts == IF starts > 1 THEN LaterCounts ELSE ThreadCounts

\* init_tids writes one more entry and counts it, on top of what len is.  What would be
\* the entry behind the table lies over curr; where a pointer has four bytes it takes
\* len too, which is the thread's id then, counted up.  The ones behind it lie over
\* the breakpoints, or over what else the linker has put there.
InitTid ==
  /\ Alive /\ starting /\ \E n \in Counts : written < n
  /\ written' = written + 1
  /\ \/ /\ written' \in Entries
        /\ tab' = [tab EXCEPT ![written'] = written'] /\ len' = len + 1
        /\ UNCHANGED <<curr, bps>>
     \/ /\ written' = Wild
        /\ curr' = Wild /\ len' \in {len + 1, written' + 1}
        /\ UNCHANGED <<tab, bps>>
     \/ /\ written' > Wild
        /\ bps' \in [Slots -> Addresses \union {0}] /\ len' = len + 1
        /\ UNCHANGED <<tab, curr>>
  /\ UNCHANGED <<transport, pc, cause, stat, tmpbuf, req, starts, starting, debugger>>

\* The rest of GdbInjectThread up to accept.  A second server finds the port taken,
\* or waits for a debugger of its own.
Prepare ==
  /\ Alive /\ starting /\ written \in Counts
  /\ curr' = 1
  /\ async_io_enabled' = FALSE
  /\ starting' = FALSE
  /\ IF pc = "listen" THEN Dies("bind")
     ELSE pc' = (IF pc = "init" THEN "listen" ELSE pc) /\ UNCHANGED cause
  /\ UNCHANGED <<wire, closed, in, out, received, handler, tab, stat, len, bps, tmpbuf, req,
                 starts, written, debugger>>

Accept ==
  /\ pc = "listen"
  /\ pc' = "read"
  /\ UNCHANGED <<transport, cause, threads, bps, tmpbuf, req, launch, debugger>>
-----------------------------------------------------------------------------
(* The debugger.                                                              *)
LastAnswered == IF received = <<>> THEN 0 ELSE received[Len(received)].id

SendRequest ==
  /\ Alive /\ pc \notin {"init", "listen"} /\ ~closed
  /\ Len(asked) < MAX_REQUESTS
  /\ Len(asked) - LastAnswered < WINDOW
  /\ \E k \in Kinds : asked' = Append(asked, k)
  /\ Arrive(Frame(Len(asked) + 1))
  /\ UNCHANGED <<pc, cause, threads, bps, tmpbuf, req, launch, interrupts>>

\* The user interrupts a process that was told to run.
SendInterrupt ==
  /\ Alive /\ ~closed
  /\ interrupts < MAX_INTERRUPTS
  /\ asked # <<>> /\ Last(asked) = "vContc" /\ LastAnswered < Len(asked)
  /\ interrupts' = interrupts + 1
  /\ Arrive(<<Interrupt>>)
  /\ UNCHANGED <<pc, cause, threads, bps, tmpbuf, req, launch, asked>>
-----------------------------------------------------------------------------
(* process_packet                                                             *)
\* The place of '#', and whether the packet is all there.
PacketEnd == SelectInSeq(in, LAMBDA b : b.c = "#")
Whole == PacketEnd # 0 /\ Len(in) >= PacketEnd + 2 /\ in[1].c = "$"

\* The packet is incomplete, or no packet: a '#' that is not there is written
\* to, or an assertion fails, or the buffer is moved by more than it holds.
ProcessMisframed ==
  /\ pc = "process" /\ ~Whole
  /\ Dies("misframed")
  /\ UNCHANGED <<transport, threads, bps, tmpbuf, req, launch, debugger>>

Processes(kind) ==
  /\ pc = "process" /\ Whole
  /\ req' = in[2].id
  /\ asked[in[2].id] = kind

\* The buffer is cleared after the packet, what follows it included.
EraseAll == in' = <<>>

\* inbuf_erase_head
EraseHead == in' = SubSeq(in, PacketEnd + 3, Len(in))

\* write_packet: into the buffer out, when it fits.
WritePacket(id, text, next) ==
  IF Size(text) >= OUT_SIZE
  THEN Dies("overflow") /\ UNCHANGED out
  ELSE /\ out' = Append(out, [id |-> id, text |-> text])
       /\ pc' = next /\ UNCHANGED cause

\* threads.curr->tid: at the addresses that ids make nothing is mapped.
CurrTraps == Dies(IF curr = 0 THEN "null curr" ELSE "wild curr")

ReadingPart == <<wire, closed, received, async_io_enabled, handler>>

ProcessPlain ==
  /\ \E kind \in DOMAIN Plain :
       /\ Processes(kind)
       /\ tmpbuf' = IF kind \in SetsTmp THEN Plain[kind] ELSE tmpbuf
       /\ IF kind \in UsesCurr /\ curr \notin Entries
          THEN CurrTraps /\ UNCHANGED out
          ELSE WritePacket(req', Plain[kind], "flush")
  /\ EraseHead
  /\ UNCHANGED <<ReadingPart, threads, bps, launch, debugger>>

ProcessSilent ==
  /\ \E kind \in Silent : Processes(kind)
  /\ pc' = "flush"
  /\ EraseHead
  /\ UNCHANGED <<ReadingPart, out, cause, threads, bps, tmpbuf, launch, debugger>>

\* Detach leaves by exit, and memory that is not mapped is read all the same.
ProcessFatal ==
  /\ \E how \in {[kind |-> "D", cause |-> "detached"], [kind |-> "mBad", cause |-> "fault"]} :
       Processes(how.kind) /\ Dies(how.cause)
  /\ UNCHANGED <<transport, threads, bps, tmpbuf, launch, debugger>>

\* set_breakpoint and remove_breakpoint: the first entry that is free, or that
\* has the address.  What ptrace returns is not looked at.
FirstSlot(a) == CHOOSE s \in Slots : bps[s] = a /\ \A t \in 1..(s - 1) : bps[t] # a

ProcessBreakpoint ==
  /\ \E a \in Addresses :
       \E kind \in {"Z", "z"} :
         LET wanted == IF kind = "Z" THEN 0 ELSE a
             found  == \E s \in Slots : bps[s] = wanted
         IN  /\ Processes(kind)
             /\ IF curr \notin Entries
                THEN CurrTraps /\ UNCHANGED <<bps, out>>
                ELSE /\ bps' = IF found THEN [bps EXCEPT ![FirstSlot(wanted)] = a - wanted]
                                        ELSE bps
                     /\ WritePacket(req', IF found THEN "OK" ELSE "E01", "flush")
  /\ EraseHead
  /\ UNCHANGED <<ReadingPart, threads, tmpbuf, launch, debugger>>

\* kill(-pid): an app is not the leader of a process group, unless it has
\* been made one.
ProcessKill ==
  /\ Processes("vKill")
  /\ \/ Dies("killed") /\ UNCHANGED out
     \/ WritePacket(req', "OK", "flush")
  /\ EraseHead
  /\ UNCHANGED <<ReadingPart, threads, bps, tmpbuf, launch, debugger>>

\* fThreadInfo looks for len occupied entries.  When the table has fewer it
\* reads on behind it: what it lists is then undefined, if it ends at all.
ProcessThreadInfo ==
  /\ Processes("qfThreadInfo")
  /\ IF len <= Cardinality(Occupied)
     THEN WritePacket(req', "threads", "flush") /\ tmpbuf' = "threads"
     ELSE \/ Dies("fault") /\ UNCHANGED <<out, tmpbuf>>
          \/ WritePacket(req', "wild threads", "flush") /\ tmpbuf' = "wild threads"
  /\ EraseHead
  /\ UNCHANGED <<ReadingPart, threads, bps, launch, debugger>>

\* prepare_resume_reply: a status that is neither exited nor stopped leaves
\* tmpbuf alone, and what it held is sent.
ResumeText(st) == IF st = "exited" THEN "W" ELSE IF st = "stopped" THEN "T" ELSE tmpbuf

\* Fault: the place behind the table when no entry has the id.
SetCurrPastEnd(tid) ==
  IF \E e \in Entries : tab[e] = tid
  THEN CHOOSE e \in Entries : tab[e] = tid /\ \A d \in 1..(e - 1) : tab[d] # tid
  ELSE Wild

\* set_curr_thread: the first entry with the id, which for 0 is the first free one;
\* curr stays when there is none.
SetCurrThread(tid) ==
  IF \E e \in Entries : tab[e] = tid
  THEN CHOOSE e \in Entries : tab[e] = tid /\ \A d \in 1..(e - 1) : tab[d] # tid
  ELSE curr

\* vCont;s with any id, of the table or not: waitpid fails and leaves the status of
\* the entry as it was.
ProcessStep ==
  /\ \/ Processes("vConts") /\ \E tid \in 1..(THREAD_NUMBER + 1) : curr' = SetCurrThread(tid)
     \/ Processes("vContsZero") /\ curr' = SetCurrThread(0)
  /\ IF curr' \in Entries
     THEN tmpbuf' = ResumeText(stat[curr']) /\ WritePacket(req', tmpbuf', "flush")
     ELSE CurrTraps /\ UNCHANGED <<out, tmpbuf>>
  /\ EraseHead
  /\ UNCHANGED <<ReadingPart, tab, stat, len, bps, launch, debugger>>
-----------------------------------------------------------------------------
(* vCont;c: the packet stays in the buffer until the resume reply is written. *)
ProcessContinue ==
  /\ Processes("vContc")
  /\ pc' = "resume"
  /\ UNCHANGED <<transport, cause, threads, bps, tmpbuf, launch, debugger>>

EnableAsyncIo ==
  /\ pc = "resume"
  /\ async_io_enabled' = TRUE
  /\ pc' = "waiting"
  /\ UNCHANGED <<wire, closed, in, out, received, handler, cause,
                 threads, bps, tmpbuf, req, launch, debugger>>

\* waitpid(-1) fails: no entry has the id -1, so curr stays, and its status
\* becomes what the local variable happened to hold.
WaitReturns ==
  /\ pc = "waiting"
  /\ IF curr \notin Entries
     THEN CurrTraps /\ UNCHANGED <<stat, async_io_enabled>>
     ELSE /\ \E st \in Stats : stat' = [stat EXCEPT ![curr] = st]
          /\ async_io_enabled' = FALSE
          /\ pc' = "judge" /\ UNCHANGED cause
  /\ UNCHANGED <<wire, closed, in, out, received, handler,
                 tab, curr, len, bps, tmpbuf, req, launch, debugger>>

\* curr has been written over since waitpid.
JudgeWild ==
  /\ pc = "judge" /\ curr \notin Entries
  /\ CurrTraps
  /\ UNCHANGED <<transport, threads, bps, tmpbuf, req, launch, debugger>>

\* The thread that has exited stays the current one.
CheckExitKeepsCurr ==
  /\ pc = "judge" /\ curr \in Entries
  /\ stat[curr] = "exited" /\ len > 1
  /\ tab' = [tab EXCEPT ![curr] = 0]
  /\ len' = len - 1
  /\ pc' = "resume"
  /\ UNCHANGED <<transport, cause, stat, curr, bps, tmpbuf, req, launch, debugger>>

\* The entry is emptied and still counted.
CheckExitKeepsLen ==
  /\ pc = "judge" /\ curr \in Entries
  /\ stat[curr] = "exited" /\ len > 1
  /\ tab' = [tab EXCEPT ![curr] = 0]
  /\ curr' = 0
  /\ pc' = "resume"
  /\ UNCHANGED <<transport, cause, stat, len, bps, tmpbuf, req, launch, debugger>>

CheckExit ==
  /\ pc = "judge" /\ curr \in Entries
  /\ stat[curr] = "exited" /\ len > 1
  /\ tab' = [tab EXCEPT ![curr] = 0]
  /\ curr' = 0
  /\ len' = len - 1
  /\ pc' = "resume"
  /\ UNCHANGED <<transport, cause, stat, bps, tmpbuf, req, launch, debugger>>

\* check_sigstop judges by a siginfo that ptrace has not filled in, check_clone
\* by the status; the thread that it waits for is not there either.
CheckSigstopOrClone ==
  /\ pc = "judge" /\ curr \in Entries
  /\ ~(stat[curr] = "exited" /\ len > 1)
  /\ pc' = "resume"
  /\ UNCHANGED <<transport, cause, threads, bps, tmpbuf, req, launch, debugger>>

\* stop_threads signals the other threads of the table one by one, but SIGSTOP
\* stops the process, the stub included.
StopsOthers == len > 1 /\ \E e \in Occupied : tab[e] # tab[curr]

ResumeReply ==
  /\ pc = "judge" /\ curr \in Entries
  /\ ~(stat[curr] = "exited" /\ len > 1) /\ stat[curr] # "cloned"
  /\ IF stat[curr] = "stopped" /\ StopsOthers
     THEN /\ pc' = "frozen"
          /\ UNCHANGED <<in, out, cause, tmpbuf>>
     ELSE /\ tmpbuf' = ResumeText(stat[curr])
          /\ WritePacket(req, tmpbuf', "flush")
          /\ EraseHead
  /\ UNCHANGED <<ReadingPart, threads, bps, req, launch, debugger>>
-----------------------------------------------------------------------------
Texts(kind) ==
  CASE kind \in DOMAIN Plain -> {Plain[kind]}
    [] kind \in {"Z", "z"} -> {"OK", "E01"}
    [] kind = "vKill" -> {"OK"}
    [] kind = "qfThreadInfo" -> {"threads", "wild threads"}
    [] kind \in {"vContc", "vConts", "vContsZero"} -> TmpTexts
    [] OTHER -> {}

-----------------------------------------------------------------------------
Rest == <<threads, bps, tmpbuf, asked, req, interrupts, launch>>

Request == \/ ProcessMisframed \/ ProcessPlain \/ ProcessSilent \/ ProcessFatal
           \/ ProcessBreakpoint \/ ProcessKill \/ ProcessThreadInfo \/ ProcessStep
           \/ ProcessContinue

Resume == EnableAsyncIo \/ WaitReturns \/ JudgeWild \/ CheckExit \/ CheckSigstopOrClone \/ ResumeReply

\* get_request
Server == \/ (ReadPacket \/ ReadDataOnce \/ WriteFlush) /\ UNCHANGED Rest
          \/ Request
          \/ Resume

Handler == (InputInterrupt \/ ReadInterrupt) /\ UNCHANGED Rest

Debugger == \/ Accept \/ SendRequest \/ SendInterrupt
            \/ Alive /\ pc \notin {"init", "listen"} /\ Disconnect /\ UNCHANGED Rest

Ended == ~Alive /\ UNCHANGED vars

Launch == StartGdbServer \/ InitTid \/ Prepare

Next == Launch \/ Server \/ Handler \/ Debugger \/ Ended

\* The scheduler runs the server's thread; nobody makes the debugger send, the
\* button be pressed or a signal be handled soon.
Spec == Init /\ [][Next]_vars /\ WF_vars(Server)

-----------------------------------------------------------------------------
Bytes == {Byte(c, id) : c \in {"+", "$", "body", "#", "h1", "h2"}, id \in 1..MAX_REQUESTS}
           \union {Interrupt}
Items == [id : 1..MAX_REQUESTS, text : UNION {Texts(kind) : kind \in AllKinds}]
Causes == {"none", "closed", "overflow", "write", "interrupt", "bind", "misframed",
           "detached", "fault", "null curr", "wild curr", "killed"}

\* The variables of the stub hold what their declarations in packets.c and
\* gdbinject.c allow; in particular curr points into the table or is NULL, but while
\* a start has written more entries than there are and has not assigned it yet.
TypeOK ==
  /\ wire \in Seq(Bytes) /\ in \in Seq(Bytes)
  /\ out \in Seq(Items) /\ received \in Seq(Items)
  /\ closed \in BOOLEAN /\ async_io_enabled \in BOOLEAN
  /\ handler \in {"none", "raised", "reading"}
  /\ pc \in {"init", "listen", "read", "receive", "process", "flush", "resume",
             "waiting", "judge", "frozen", "dead"}
  /\ cause \in Causes
  /\ tab \in [Entries -> Nat] /\ stat \in [Entries -> Stats]
  /\ curr \in {0, Wild} \union Entries /\ len \in Nat
  /\ curr = Wild => starting /\ written >= Wild
  /\ bps \in [Slots -> Addresses \union {0}]
  /\ asked \in Seq(AllKinds) /\ req \in 0..MAX_REQUESTS
  /\ interrupts \in 0..MAX_INTERRUPTS /\ starts \in 0..MAX_STARTS
  /\ starting \in BOOLEAN /\ written \in Nat

\* As long as the stub lives, a request that it has not begun to process is
\* whole in what is buffered or on the way: neither the search for the start of
\* a packet, which drops what precedes it, nor the removal of the packet before
\* it (pktbuf_erase_head), nor the handler that reads one byte of the same
\* socket, takes a byte of it.
NoRequestIsLost ==
  Alive => \A id \in (req + 1)..Len(asked) :
    \E at \in 1..(Len(in \o wire) - 4) : SubSeq(in \o wire, at, at + 4) = Tail(Frame(id))

\* The requests that go through curr (p, P, X, qC) never find it NULL: after
\* check_exit has emptied its entry the stub does not come back to a request before
\* curr is set again.  The entry it names has a thread, unless the debugger has
\* stepped thread 0, which selects a free entry, or a later start has made curr
\* the first entry, whose thread had exited since init_tids wrote it.
CurrIsOccupied ==
  Alive /\ pc \notin {"init", "resume", "waiting"} =>
    /\ curr # 0
    /\ curr \in Entries =>
         \/ tab[curr] # 0
         \/ \E id \in 1..req : asked[id] = "vContsZero"
         \/ curr = 1 /\ starts > 1

\* fThreadInfo, which looks for len threads without asking where the table ends,
\* finds as many after one start of a process with no more threads than the table
\* has entries: whatever exits and whatever is stepped afterwards, the count never
\* exceeds the entries that are taken.  A further start, or more threads, makes it
\* read on behind the table.
ListEndsInTable ==
  starts <= 1 /\ written <= THREAD_NUMBER => len <= Cardinality(Occupied)

\* The stub keeps the promise of GdbService: one answer per request, in order,
\* with a text of its kind.
Service == INSTANCE GdbService WITH answered <- received, up <- Alive
AnswersInOrder == Service!Spec

\* A request that has an answer gets it, or the process ends, or the stub is
\* in the loop of vCont;c, which its undefined status may never let it leave.
RequestsAreAnswered ==
  \A id \in 1..MAX_REQUESTS :
    (Len(asked) >= id /\ Texts(asked[id]) # {})
      ~> (~Alive \/ pc \in {"resume", "waiting", "judge"} \/ LastAnswered >= id)
=============================================================================
