----------------------------- MODULE GdbSignals -----------------------------
(***************************************************************************)
(* The stub's translation between the signal numbers of the system it runs *)
(* on and those of the remote protocol (signals.c, gdb/signals.def).  Both *)
(* directions test the signals by name; the numbers a name has are those   *)
(* of Linux on ARM on one side and those of the protocol on the other.     *)
(***************************************************************************)
EXTENDS Integers

\* The names Linux defines, in its order: number 16 (SIGSTKFLT) is one that
\* the stub does not know, SIGPOLL is another name of SIGIO.
HostNumber ==
  [HUP |-> 1, INT |-> 2, QUIT |-> 3, ILL |-> 4, TRAP |-> 5, ABRT |-> 6,
   BUS |-> 7, FPE |-> 8, KILL |-> 9, USR1 |-> 10, SEGV |-> 11, USR2 |-> 12,
   PIPE |-> 13, ALRM |-> 14, TERM |-> 15, CHLD |-> 17, CONT |-> 18,
   STOP |-> 19, TSTP |-> 20, TTIN |-> 21, TTOU |-> 22, URG |-> 23,
   XCPU |-> 24, XFSZ |-> 25, VTALRM |-> 26, PROF |-> 27, WINCH |-> 28,
   IO |-> 29, POLL |-> 29, PWR |-> 30, SYS |-> 31]

RealtimeLo == 32
RealtimeHi == 65        \* __SIGRTMAX + 1

\* enum gdb_signal, as far as one of the names above or a real-time signal
\* is concerned.
GdbNumber ==
  [HUP |-> 1, INT |-> 2, QUIT |-> 3, ILL |-> 4, TRAP |-> 5, ABRT |-> 6,
   FPE |-> 8, KILL |-> 9, BUS |-> 10, SEGV |-> 11, SYS |-> 12, PIPE |-> 13,
   ALRM |-> 14, TERM |-> 15, URG |-> 16, STOP |-> 17, TSTP |-> 18,
   CONT |-> 19, CHLD |-> 20, TTIN |-> 21, TTOU |-> 22, IO |-> 23,
   XCPU |-> 24, XFSZ |-> 25, VTALRM |-> 26, PROF |-> 27, WINCH |-> 28,
   USR1 |-> 30, USR2 |-> 31, PWR |-> 32, POLL |-> 33]

Names == DOMAIN HostNumber

Realtime33 == 45
Realtime63 == 75
Realtime32 == 77
Realtime64 == 78
Realtime127 == 141
Unknown == 143

\* gdb_signal_from_host.  The chain of tests finds SIGIO before SIGPOLL.
FromName(s) == CHOOSE n \in Names \ {"POLL"} : HostNumber[n] = s

FromRealtime(s) ==
  IF s \in 33..63 THEN s - 33 + Realtime33
  ELSE IF s = 32 THEN Realtime32
  ELSE IF s \in 64..127 THEN s - 64 + Realtime64
  ELSE Unknown

FromHost(s) ==
  IF s = 0 THEN 0
  ELSE IF \E n \in Names : HostNumber[n] = s THEN GdbNumber[FromName(s)]
  ELSE IF s >= RealtimeLo /\ s < RealtimeHi THEN FromRealtime(s)
  ELSE Unknown

\* do_gdb_signal_to_host and gdb_signal_to_host: 0 when there is none.
ToRealtime(g) ==
  IF g \in Realtime33..Realtime63 THEN g - Realtime33 + 33
  ELSE IF g = Realtime32 THEN 32
  ELSE IF g \in Realtime64..Realtime127 THEN g - Realtime64 + 64
  ELSE 0

\* oursig_ok, gdb_signal_to_host_p: the system has the signal.
Named(g) == \E n \in Names : GdbNumber[n] = g
HasHost(g) == Named(g) \/ (ToRealtime(g) >= RealtimeLo /\ ToRealtime(g) < RealtimeHi)

ToHost(g) ==
  IF ~HasHost(g) THEN 0
  ELSE IF Named(g) THEN HostNumber[CHOOSE n \in Names : GdbNumber[n] = g] ELSE ToRealtime(g)

\* Every signal that a thread can stop with on the system, other than the one
\* the stub does not know, survives the way to the debugger and back, so that
\* no two of them are reported alike (the three blocks of real-time numbers are
\* not contiguous in the protocol).
SignalsRoundTrip == \A s \in 1..64 \ {16} : ToHost(FromHost(s)) = s
=============================================================================
