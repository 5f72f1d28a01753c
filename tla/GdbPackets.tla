----------------------------- MODULE GdbPackets -----------------------------
(***************************************************************************)
(* The transport of the gdb stub (packets.c): the two packet buffers, the  *)
(* framing of requests, and the signal handler that looks for an interrupt *)
(* character while the stub waits for the process.  A byte is a record of  *)
(* what it is and of the request it belongs to; the text between the       *)
(* request's first character and the '#' is one byte.  The build is the    *)
(* one with assertions (the parsing of most requests sits inside one).     *)
(***************************************************************************)
EXTENDS Integers, Sequences, SequencesExt

CONSTANTS IN_SIZE,        \* PACKET_BUF_SIZE of the buffer in
          OUT_SIZE,       \* PACKET_BUF_SIZE of the buffer out
          READ_MAX        \* size of the buffer of read_data_once

ASSUME SizesAssumption == IN_SIZE \in Nat /\ OUT_SIZE \in Nat /\ READ_MAX \in Nat \ {0}

VARIABLES wire,           \* bytes the debugger sent and nobody has read
          closed,         \* the debugger has closed the connection
          in, out,        \* struct packet_buf: the bytes, the answers written
          received,       \* the answers that have reached the debugger
          async_io_enabled,
          handler,        \* input_interrupt: "none", "raised" or "reading"
          pc,             \* where the server's thread is
          cause           \* how the process ended

transport == <<wire, closed, in, out, received, async_io_enabled, handler>>

Alive == pc \notin {"dead", "frozen"}

\* exit, abort and faults end the whole process, which the stub is part of.
Dies(how) == pc' = "dead" /\ cause' = how

Byte(c, id) == [c |-> c, id |-> id]

Interrupt == Byte("int", 0)

\* What a debugger sends for a request: it acknowledges what it received last.
Frame(id) == <<Byte("+", id), Byte("$", id), Byte("body", id),
               Byte("#", id), Byte("h1", id), Byte("h2", id)>>

IsStart(b) == b.c \in {"$", "int"}

-----------------------------------------------------------------------------
\* remote_prepare, initialize_async_io: the state that they leave.
TransportInit ==
  /\ wire = <<>> /\ closed = FALSE
  /\ in = <<>> /\ out = <<>> /\ received = <<>>
  /\ async_io_enabled = FALSE
  /\ handler = "none"

\* Data that arrive raise SIGIO for the process (enable_async_notification).
\* Bound: one handler at a time.
Raise == handler' = IF handler = "none" THEN "raised" ELSE handler

Arrive(bytes) ==
  /\ wire' = wire \o bytes
  /\ Raise
  /\ UNCHANGED <<closed, in, out, received, async_io_enabled>>

Disconnect ==
  /\ ~closed
  /\ closed' = TRUE
  /\ Raise
  /\ UNCHANGED <<wire, in, out, received, async_io_enabled, pc, cause>>

-----------------------------------------------------------------------------
\* The buffer is not cleared after it has been written.
FlushKeepsOut(next) ==
  /\ received' = received \o out
  /\ pc' = next
  /\ UNCHANGED <<out, cause>>

\* The buffer is cleared before it is written.
FlushClearsFirst(next) ==
  /\ out' = <<>>
  /\ pc' = next
  /\ UNCHANGED <<received, cause>>

\* write_flush: everything in out reaches the socket, or the peer is gone and
\* the write fails.  Of what is written the answers are recorded and not the '+'
\* that acknowledges a packet.
Flush(next) ==
  \/ /\ received' = received \o out
     /\ out' = <<>>
     /\ pc' = next
     /\ UNCHANGED cause
  \/ closed /\ Dies("write") /\ UNCHANGED <<received, out>>

\* skip_to_packet_start with the rest of read_packet: what precedes a start is
\* dropped, and when there is one the packet is acknowledged at once, whether
\* it is complete or not.
Start(buf) == SelectInSeq(buf, IsStart)

ReadPacket ==
  /\ pc = "read"
  /\ IF Start(in) = 0
     THEN /\ in' = <<>>
          /\ pc' = "receive"
          /\ UNCHANGED <<received, out, cause>>
     ELSE /\ in' = SubSeq(in, Start(in), Len(in))
          /\ Flush("process")
  /\ UNCHANGED <<wire, closed, async_io_enabled, handler>>

\* read_data_once: TCP hands over any part of what was sent.
ReadDataOnce ==
  /\ pc = "receive"
  /\ \/ /\ wire # <<>>
        /\ \E n \in 1..READ_MAX :
             /\ n <= Len(wire)
             /\ wire' = SubSeq(wire, n + 1, Len(wire))
             /\ IF Len(in) + n >= IN_SIZE
                THEN Dies("overflow") /\ UNCHANGED in
                ELSE /\ in' = in \o SubSeq(wire, 1, n)
                     /\ pc' = "read" /\ UNCHANGED cause
     \/ /\ wire = <<>> /\ closed
        /\ Dies("closed")
        /\ UNCHANGED <<in, wire>>
  /\ UNCHANGED <<closed, out, received, async_io_enabled, handler>>

\* write_flush of get_request, after the packet has been processed.
WriteFlush ==
  /\ pc = "flush"
  /\ Flush("read")
  /\ UNCHANGED <<wire, closed, in, async_io_enabled, handler>>

-----------------------------------------------------------------------------
\* input_interrupt, which runs in whatever thread does not block SIGIO: all of
\* them but the server's, and that one too while async I/O is enabled.
InputInterrupt ==
  /\ Alive /\ handler = "raised"
  /\ handler' = IF async_io_enabled THEN "reading" ELSE "none"
  /\ UNCHANGED <<wire, closed, in, out, received, async_io_enabled, pc, cause>>

\* The rest of the handler: a blocking read of one byte, and the assertion.
\* (request_interrupt signals a process group that an app does not lead.)
ReadInterrupt ==
  /\ Alive /\ handler = "reading"
  /\ wire # <<>> \/ closed
  /\ IF wire # <<>> /\ Head(wire) = Interrupt
     THEN wire' = Tail(wire) /\ handler' = "none" /\ UNCHANGED <<pc, cause>>
     ELSE Dies("interrupt") /\ UNCHANGED <<wire, handler>>
  /\ UNCHANGED <<closed, in, out, received, async_io_enabled>>
=============================================================================
