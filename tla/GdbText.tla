------------------------------- MODULE GdbText -------------------------------
(***************************************************************************)
(* What the gdb stub's packets are made of (utils.c, packets.c, arch.h):   *)
(* hexadecimal digits, escaped bytes, the frame with its checksum, and the *)
(* registers in the order of the debugger.                                 *)
(*                                                                         *)
(* Memory and text are sequences of bytes, a byte is a number.             *)
(***************************************************************************)
EXTENDS Integers, Sequences, SequencesExt

Octets == 0 .. 255

Hash == 35
Dollar == 36
Star == 42
Brace == 125

-----------------------------------------------------------------------------
(* Digits                                                                     *)
hexchars(d) == IF d < 10 THEN 48 + d ELSE 87 + d

hex(ch) ==
  CASE ch \in 97 .. 102 -> ch - 87
    [] ch \in 48 .. 57 -> ch - 48
    [] ch \in 65 .. 70 -> ch - 55
    [] OTHER -> -1

\* The first `count' bytes of mem in digits, two for each.
mem2hex(mem, count) ==
  [i \in 1 .. 2 * count |-> IF i % 2 = 1 THEN hexchars(mem[(i + 1) \div 2] \div 16)
                            ELSE hexchars(mem[i \div 2] % 16)]

\* The `count' bytes that the digits of buf stand for.
hex2mem(buf, count) == [i \in 1 .. count |-> (16 * hex(buf[2 * i - 1]) + hex(buf[2 * i])) % 256]

-----------------------------------------------------------------------------
(* Escapes                                                                    *)
\* A byte with the bit 0x20 the other way.
Flip(b) == IF (b \div 32) % 2 = 1 THEN b - 32 ELSE b + 32

Escaped(b) == IF b \in {Hash, Dollar, Brace, Star} THEN <<Brace, Flip(b)>> ELSE <<b>>

\* The bytes as write_binary_packet puts them behind its prefix.
Escape(data) == FlattenSeq([i \in 1 .. Len(data) |-> Escaped(data[i])])

\* A turn of the loop: `read' is how much of msg has been read, `written' what
\* has been written over its beginning.
Turn(msg, s) ==
  IF s.read >= Len(msg) THEN s
  ELSE IF msg[s.read + 1] # Brace
       THEN [read |-> s.read + 1, written |-> Append(s.written, msg[s.read + 1])]
       ELSE [read |-> s.read + 2, written |-> Append(s.written, Flip(msg[s.read + 2]))]

\* For a message that does not end within an escape.
unescape(msg) ==
  LET turn[k \in 0 .. Len(msg)] ==
        IF k = 0 THEN [read |-> 0, written |-> <<>>] ELSE Turn(msg, turn[k - 1])
  IN  turn[Len(msg)].written

-----------------------------------------------------------------------------
(* Frames                                                                     *)
Checksum(data) ==
  LET sum[i \in 0 .. Len(data)] == IF i = 0 THEN 0 ELSE (sum[i - 1] + data[i]) % 256
  IN  sum[Len(data)]

\* What write_packet_bytes writes.
Packet(data) == <<Dollar>> \o data \o <<Hash>> \o mem2hex(<<Checksum(data)>>, 1)

\* process_packet: where it takes the packet to end, and what it asserts of it.
FirstHash(inbuf) ==
  CHOOSE i \in 1 .. Len(inbuf) : inbuf[i] = Hash /\ \A j \in 1 .. (i - 1) : inbuf[j] # Hash

Contents(inbuf) == SubSeq(inbuf, 2, FirstHash(inbuf) - 1)

Accepted(inbuf) ==
  LET hi == hex(inbuf[FirstHash(inbuf) + 1])
      lo == hex(inbuf[FirstHash(inbuf) + 2])
  IN  inbuf[1] = Dollar /\ lo >= 0 /\ Checksum(Contents(inbuf)) = 16 * hi + lo

-----------------------------------------------------------------------------
(* Registers                                                                  *)
\* The machines for which the stub can be built.
Archs == {"arm", "arm64", "x86_64"}

SZ(arch) == IF arch = "arm" THEN 4 ELSE 8

\* The words of regs_struct, a type of the system's headers.
Words(arch) == CASE arch = "arm" -> 18 [] arch = "arm64" -> 34 [] arch = "x86_64" -> 27

\* Where the kernel keeps rax, rbx, rcx, rdx, rsi, rdi, rbp, rsp, r8 .. r15, rip,
\* eflags, cs, ss, ds, es, fs and gs (sys/reg.h).
RegIndex == <<10, 5, 11, 12, 13, 14, 4, 19, 9, 8, 7, 6, 3, 2, 1, 0, 16, 18, 17, 20, 23, 24, 25, 26>>

regs_map(arch) ==
  CASE arch = "arm" -> [i \in 1 .. 16 |-> [idx |-> i - 1, size |-> 4]]
    [] arch = "arm64" -> [i \in 1 .. 39 |-> [idx |-> i - 1, size |-> 4]]
    [] arch = "x86_64" -> [i \in 1 .. 24 |-> [idx |-> RegIndex[i], size |-> IF i <= 17 THEN 8 ELSE 4]]

\* The words that getRegister writes: the program counter, and on x86_64 most others.
Captured(arch) ==
  CASE arch = "arm" -> {15}
    [] arch = "arm64" -> {32}
    [] arch = "x86_64" -> 0 .. 26 \ {0, 15, 18, 21, 22}

\* The registers as the answer to `g' is made from them: what is not captured is 0.
getRegister(arch, cpu) ==
  [w \in 0 .. Words(arch) - 1 |-> IF w \in Captured(arch) THEN cpu[w] ELSE [b \in 1 .. SZ(arch) |-> 0]]

\* The text of this answer; memory[w] are the bytes of word w from there on.
Registers(map, memory) ==
  FlattenSeq([i \in 1 .. Len(map) |-> mem2hex(memory[map[i].idx], map[i].size)])
=============================================================================
