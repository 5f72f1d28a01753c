------------------------------- MODULE Backups -------------------------------
(***************************************************************************)
(* What an inline hook copies from the beginning of a method's code, and   *)
(* whether it may be copied: CannotBackup and GetBackupCodeSize, which     *)
(* walk over the same code one after the other, and the instructions that  *)
(* they look for.                                                          *)
(*                                                                         *)
(* The code is what is in memory: words[at] is the halfword at byte `at'   *)
(* behind its beginning, whatever lies there.                              *)
(***************************************************************************)
EXTENDS Integers

Halfwords == 0 .. 65535

\* The bits of a word from the one that is worth `unit', `span' being what the
\* one behind them is worth in these units.
Bits(w, unit, span) == (w \div unit) % span

-----------------------------------------------------------------------------
(* arm32: thumb2.cpp                                                          *)
IsThumb32(w) == Bits(w, 4096, 16) = 15 \/ Bits(w, 2048, 32) = 29

IsThumb16PCRelatedInst(w) ==
  \/ Bits(w, 4096, 16) = 13                             \* b <label>
  \/ Bits(w, 2048, 32) = 28                             \* b <label>
  \/ Bits(w, 8, 8192) = 2287                            \* bx pc
  \/ Bits(w, 256, 256) \in {68, 70} /\ Bits(w, 8, 16) = 15 \* add Rdn, pc; mov Rd, pc
  \/ Bits(w, 2048, 32) \in {20, 9}                      \* adr; ldr Rt, <label>
  \/ Bits(w, 4096, 16) = 11 /\ Bits(w, 1024, 2) = 0 /\ Bits(w, 256, 2) = 1   \* cb{n}z

\* The masks, for a word with the first halfword of the instruction on top.
BranchLink(top, low) ==                                 \* blx, bl <label>
  Bits(top, 2048, 32) \in {31, 30} /\ Bits(low, 16384, 4) = 3 /\ Bits(low, 4096, 2) = 1
Branch(top, low) == Bits(top, 2048, 32) = 30 /\ Bits(low, 16384, 4) = 2      \* b.w <label>
Adr(top, low) ==                                        \* adr.w Rd, <label>
  Bits(top, 2048, 32) = 30 /\ Bits(top, 1, 1024) \in {687, 527} /\ Bits(low, 32768, 2) = 0
Ldr(top, low) == Bits(top, 256, 256) = 248 /\ Bits(top, 1, 128) = 95         \* ldr.w Rt, <label>
TableBranch(top, low) == top = 59615 /\ Bits(low, 16, 16) \in {0, 1}         \* tbb, tbh

Thumb32Cases(top, low) ==
  BranchLink(top, low) \/ Branch(top, low) \/ Adr(top, low) \/ Ldr(top, low) \/ TableBranch(top, low)

\* The word is read as one number, with the first halfword at the lower address
\* and hence at the bottom: the masks meet the halfwords the other way round.
IsThumb32PCRelatedInst(first, second) == Thumb32Cases(second, first)

-----------------------------------------------------------------------------
(* The walks                                                                  *)
Size(words, at) == IF IsThumb32(words[at]) THEN 4 ELSE 2

IsPCRelated(words, at) ==
  IF IsThumb32(words[at]) THEN IsThumb32PCRelatedInst(words[at], words[at + 2])
  ELSE IsThumb16PCRelatedInst(words[at])

\* Where the instructions begin; a walk over `size' bytes has no more than these.
Offsets(words, size) ==
  LET at[k \in 0..size] == IF k = 0 THEN 0 ELSE at[k - 1] + Size(words, at[k - 1])
  IN  at

CannotBackup(words, size) ==
  \E k \in 0..size : LET at == Offsets(words, size)[k] IN at < size /\ IsPCRelated(words, at)

GetBackupCodeSize(words, size) ==
  Offsets(words, size)[CHOOSE k \in 0..size :
    /\ Offsets(words, size)[k] >= size
    /\ \A j \in 0..(k - 1) : Offsets(words, size)[j] < size]

\* The decisions of hook0 for a method with `length' bytes of code.
CannotSafeInlineHook(words, length, direct) == length < direct \/ CannotBackup(words, direct)
CanSkipFirstFewBytes(words, length, size) == length >= size /\ ~CannotBackup(words, size)
=============================================================================
