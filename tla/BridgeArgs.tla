----------------------------- MODULE BridgeArgs -----------------------------
(***************************************************************************)
(* How handleBridge gets the arguments of a hooked call back (Arm64Entry,  *)
(* Arm64MarshmallowEntry, Arm32Entry, X86Entry and getArgs* of pine.cpp).  *)
(* The caller places the arguments by the calling convention of compiled   *)
(* code; the bridge reads registers and stack into arrays and decodes them *)
(* one parameter at a time.  A value stands for the places its words come  *)
(* from, so that decoding is right when it names the places of the caller. *)
(***************************************************************************)
EXTENDS Integers, Sequences, FiniteSets, SequencesExt

CONSTANTS Abis,           \* the conventions of the run, of those in AllAbis
          CR_SIZE,        \* core registers that hold arguments on arm64
          FPR_SIZE,       \* floating-point registers, on arm32 single ones
          MAX_PARAMS      \* bound: parameters of a method

\* arm32 passes floating-point values in core registers before M ("soft"),
\* and does not split a long between r3 and the stack from S on ("S").  On M
\* the bridge of arm64 has as many parameters as the method.
Arm64Abis == {"arm64", "arm64 M"}
Arm32Abis == {"arm32 soft", "arm32 hard", "arm32 S"}
AllAbis == Arm64Abis \union Arm32Abis \union {"x86"}

ASSUME AbiAssumption ==
  /\ Abis \subseteq AllAbis
  /\ CR_SIZE \in Nat /\ CR_SIZE >= 3
  /\ FPR_SIZE \in Nat /\ FPR_SIZE % 2 = 0 /\ FPR_SIZE >= 2
  /\ MAX_PARAMS \in Nat

\* Every other type is passed and decoded like one of these.
Types == {"int", "boolean", "long", "float", "double"}

VARIABLES abi, static, types,
          places,         \* where the caller has put each argument
          pc,             \* "pass", "read", "decode" or "done"
          stack,          \* the slots that the entries of the array stack start at
          at,             \* current_on_stack, in slots
          crIndex, fprIndex, doubleIndex, stackIndex,
          args            \* where each argument was read from

argsVars == <<abi, static, types, places, pc, stack, at,
              crIndex, fprIndex, doubleIndex, stackIndex, args>>

Arm64 == abi \in Arm64Abis
HardFp == abi \in {"arm32 hard", "arm32 S"}
CoreSize == IF Arm64 THEN CR_SIZE ELSE 3

Core(k) == <<"core", k>>
Fp(k) == <<"fp", k>>
Slot(s) == <<"slot", s>>
Nowhere == <<"outside the array", 0>>
Zero == <<"zero", 0>>

IsFp(t) == t \in {"float", "double"}
Wide(t) == t \in {"long", "double"}
This == IF static THEN 0 ELSE 1
Lesser(a, b) == IF a < b THEN a ELSE b
Greater(a, b) == IF a > b THEN a ELSE b
EvenUp(n) == IF n % 2 = 1 THEN n + 1 ELSE n

\* How many of the first n parameters have a type in kinds.
CountIn(s, n, kinds) == Cardinality({k \in 1..n : s[k] \in kinds})
Count(n, kinds) == CountIn(types, n, kinds)

FpTypes == {"float", "double"}
CoreTypes == Types \ FpTypes
WideTypes == {"long", "double"}

-----------------------------------------------------------------------------
(* The calling convention.  Every argument has its slots on the stack,        *)
(* whether it is passed there or not.                                         *)
NextSlot == This + Len(types) + Count(Len(types), WideTypes)

OnStack(t) == IF Wide(t) THEN <<Slot(NextSlot), Slot(NextSlot + 1)>> ELSE <<Slot(NextSlot)>>

Register64(t) == IF IsFp(t) THEN Count(Len(types), FpTypes)
                            ELSE This + Count(Len(types), CoreTypes)

Place64(t) ==
  IF IsFp(t) /\ Register64(t) < FPR_SIZE THEN <<Fp(Register64(t))>>
  ELSE IF ~IsFp(t) /\ Register64(t) < CR_SIZE THEN <<Core(Register64(t))>>
  ELSE OnStack(t)

Placed == UNION {Range(places[k]) : k \in DOMAIN places}

\* A float takes the first single register that is free, a double the first
\* pair.
FreeSingles == {r \in 0..(FPR_SIZE - 1) : Fp(r) \notin Placed}
FreePairs == {r \in FreeSingles : r % 2 = 0 /\ r + 1 \in FreeSingles}
First(regs) == CHOOSE r \in regs : \A s \in regs : r <= s

PlaceFp(t) ==
  LET free == IF t = "double" THEN FreePairs ELSE FreeSingles
  IN  IF free = {} THEN OnStack(t)
      ELSE IF t = "double" THEN <<Fp(First(free)), Fp(First(free) + 1)>>
      ELSE <<Fp(First(free))>>

\* What goes through core registers takes the next one; when one of them has
\* been put on the stack, they all are from there on.
InCore(t) == ~IsFp(t) \/ abi = "arm32 soft"
Exhausted == \E k \in DOMAIN places :
               InCore(types[k]) /\ \E w \in Range(places[k]) : w[1] = "slot"
NextCore == IF Exhausted THEN 3
            ELSE First({r \in This..3 : \A s \in r..2 : Core(s) \notin Placed})

PlaceCore(t) ==
  LET c == NextCore
  IN  IF ~Wide(t) THEN (IF c < 3 THEN <<Core(c)>> ELSE OnStack(t))
      ELSE IF HardFp /\ c = 0 THEN <<Core(1), Core(2)>>
      ELSE IF c < 2 THEN <<Core(c), Core(c + 1)>>
      ELSE IF c = 2 /\ abi # "arm32 S" THEN <<Core(2), Slot(NextSlot + 1)>>
      ELSE OnStack(t)

\* x86 has three words in registers when there are three, otherwise two.
PlaceX86(t) == OnStack(t)
InRegistersX86(words, total) ==
  [k \in DOMAIN words |->
    IF words[k][2] < 2 \/ (words[k][2] = 2 /\ total = 3) THEN Core(words[k][2]) ELSE words[k]]

Place(t) ==
  IF Arm64 THEN Place64(t)
  ELSE IF abi = "x86" THEN PlaceX86(t)
  ELSE IF InCore(t) THEN PlaceCore(t)
  ELSE PlaceFp(t)

ArgsInit ==
  /\ abi \in Abis /\ static \in BOOLEAN
  /\ types = <<>> /\ places = <<>> /\ args = <<>>
  /\ pc = "pass"
  /\ stack = <<>> /\ at = 0
  /\ crIndex = 0 /\ fprIndex = 0 /\ doubleIndex = 0 /\ stackIndex = 0

PassArgument ==
  /\ pc = "pass" /\ Len(types) < MAX_PARAMS
  /\ \E t \in Types :
       /\ types' = Append(types, t)
       /\ places' = Append(places, Place(t))
  /\ UNCHANGED <<abi, static, pc, stack, at, crIndex, fprIndex, doubleIndex, stackIndex, args>>

Call ==
  /\ pc = "pass"
  /\ pc' = "read"
  /\ places' = IF abi = "x86"
               THEN [k \in DOMAIN places |-> InRegistersX86(places[k], NextSlot)] ELSE places
  /\ UNCHANGED <<abi, static, types, stack, at, crIndex, fprIndex, doubleIndex, stackIndex, args>>
-----------------------------------------------------------------------------
(* The lengths of the arrays.                                                 *)
Params == Len(types)

CrLength64 == Lesser(CR_SIZE, This + Count(Params, CoreTypes))
FprLength64 == Lesser(FPR_SIZE, Count(Params, FpTypes))

Up(n) == IF n < 3 THEN n + 1 ELSE n

\* One round of getArgs of Arm32Entry; r1 is skipped when a long comes first.
AfterParam(n, t) ==
  IF IsFp(t) THEN n
  ELSE IF t = "long" THEN Up(Up(IF n = 0 THEN 1 ELSE n))
  ELSE Up(n)

FpLength == 2 * Count(Params, {"double"}) + Count(Params, {"float"})
CrLength32 ==
  LET length == FoldLeft(AfterParam, This, types)
  IN  IF HardFp THEN length ELSE Lesser(length + FpLength, 3)
FprLength32 == IF HardFp THEN Lesser(EvenUp(FpLength), FPR_SIZE) ELSE 0

CrLength == IF Arm64 THEN CrLength64 ELSE CrLength32
FprLength == IF Arm64 THEN FprLength64 ELSE FprLength32

\* stackLength of arm32 and the length of the array of x86.
Words == This + Params + Count(Params, WideTypes)

-----------------------------------------------------------------------------
\* getBridge: the number of parameters of the bridge of Marshmallow, of which
\* the third is sp and those from the fourth on are x4 and so on.
BridgeParams == Greater(Params, 2)

\* getArgsArm64 reads 8 bytes and advances by what the entry of typeWides says.
\* (The array is longer than typeWides, because stackLength adds up bytes:
\* what the loop reads after these entries is not used by anybody.)
WideEntry(k) == k >= This /\ Wide(types[k - This + 1])

ReadStack64 ==
  /\ pc = "read" /\ Arm64
  /\ IF Len(stack) < This + Params /\ (abi = "arm64 M" => BridgeParams >= 3)
     THEN /\ stack' = Append(stack, at)
          /\ at' = at + (IF WideEntry(Len(stack)) THEN 2 ELSE 1)
          /\ UNCHANGED <<pc, crIndex, stackIndex>>
     ELSE /\ pc' = "decode"
          /\ crIndex' = This /\ stackIndex' = This
          /\ UNCHANGED <<stack, at>>
  /\ UNCHANGED <<abi, static, types, places, fprIndex, doubleIndex, args>>

\* getArgsArm32 and getArgsX86 copy the slots as they are.
ReadWords ==
  /\ pc = "read" /\ ~Arm64
  /\ stack' = [k \in 1..Words |-> k - 1]
  /\ pc' = "decode"
  /\ crIndex' = This /\ stackIndex' = This
  /\ UNCHANGED <<abi, static, types, places, at, fprIndex, doubleIndex, args>>

-----------------------------------------------------------------------------
(* handleBridge of Arm64Entry                                                 *)
Type == types[Len(args) + 1]
Decoding == pc = "decode" /\ Len(args) < Params
Decode(words) == args' = Append(args, words)
Same == UNCHANGED <<abi, static, types, places, pc, stack, at>>

FromStack64 ==
  IF stackIndex >= Len(stack) THEN <<Nowhere>>
  ELSE IF Type \in WideTypes \union {"boolean"}      \* compared with 0 as a whole
  THEN <<Slot(stack[stackIndex + 1]), Slot(stack[stackIndex + 1] + 1)>>
  ELSE <<Slot(stack[stackIndex + 1])>>

FromCore64(k) ==
  IF k >= 3 /\ abi = "arm64 M" /\ k >= BridgeParams THEN <<Zero>> ELSE <<Core(k)>>

DecodeFp64 ==
  /\ Decoding /\ Arm64 /\ IsFp(Type)
  /\ IF fprIndex < FprLength
     THEN Decode(<<Fp(fprIndex)>>) /\ fprIndex' = fprIndex + 1
     ELSE Decode(FromStack64) /\ UNCHANGED fprIndex
  /\ stackIndex' = stackIndex + 1
  /\ Same /\ UNCHANGED <<crIndex, doubleIndex>>

DecodeCore64 ==
  /\ Decoding /\ Arm64 /\ ~IsFp(Type)
  /\ IF crIndex < CrLength
     THEN Decode(FromCore64(crIndex)) /\ crIndex' = crIndex + 1
     ELSE Decode(FromStack64) /\ UNCHANGED crIndex
  /\ stackIndex' = stackIndex + 1
  /\ Same /\ UNCHANGED <<fprIndex, doubleIndex>>
-----------------------------------------------------------------------------
(* handleBridge of Arm32Entry                                                 *)
Arm32 == abi \in Arm32Abis

FromStack(k) == IF k < Len(stack) THEN Slot(stack[k + 1]) ELSE Nowhere
FromCore(k) == IF k < CrLength THEN Core(k) ELSE Nowhere

\* One word, or two, from core index c on, and the index afterwards.
CoreOrStack(c, k) == IF c < CrLength THEN Core(c) ELSE FromStack(k)
TwoWords(c) == <<CoreOrStack(c, stackIndex), CoreOrStack(c + 1, stackIndex + 1)>>

\* The index runs past the registers.
IndexAfterUnbounded(c, n) == c + n

IndexAfter(c, n) == IF c < CrLength THEN Lesser(c + n, CrLength) ELSE c

DoubleIndex == Greater(doubleIndex, EvenUp(fprIndex))

\* A single register that a double may have taken.
FloatIndexPlain == fprIndex

FloatIndex == IF fprIndex % 2 = 0 THEN Greater(doubleIndex, fprIndex) ELSE fprIndex

DecodeDouble32 ==
  /\ Decoding /\ Arm32 /\ Type = "double"
  /\ IF DoubleIndex < FprLength
     THEN /\ Decode(<<Fp(DoubleIndex), Fp(DoubleIndex + 1)>>)
          /\ doubleIndex' = DoubleIndex + 2
          /\ UNCHANGED crIndex
     ELSE /\ Decode(TwoWords(IF HardFp THEN 3 ELSE crIndex))
          /\ doubleIndex' = DoubleIndex
          /\ crIndex' = IF HardFp THEN crIndex ELSE IndexAfter(crIndex, 2)
  /\ stackIndex' = stackIndex + 2
  /\ Same /\ UNCHANGED fprIndex

DecodeFloat32 ==
  /\ Decoding /\ Arm32 /\ Type = "float"
  /\ IF FloatIndex < FprLength
     THEN /\ Decode(<<Fp(FloatIndex)>>)
          /\ fprIndex' = FloatIndex + 1
          /\ UNCHANGED crIndex
     ELSE /\ Decode(<<CoreOrStack(IF HardFp THEN 3 ELSE crIndex, stackIndex)>>)
          /\ fprIndex' = FloatIndex
          /\ crIndex' = IF HardFp THEN crIndex ELSE IndexAfter(crIndex, 1)
  /\ stackIndex' = stackIndex + 1
  /\ Same /\ UNCHANGED doubleIndex

LongIndex == IF crIndex = 2 /\ abi = "arm32 S" THEN 3 ELSE crIndex

DecodeLong32 ==
  /\ Decoding /\ Arm32 /\ Type = "long"
  /\ IF crIndex = 0 /\ static /\ HardFp
     THEN Decode(<<FromCore(1), FromCore(2)>>) /\ crIndex' = 3
     ELSE Decode(TwoWords(LongIndex)) /\ crIndex' = IndexAfter(LongIndex, 2)
  /\ stackIndex' = stackIndex + 2
  /\ Same /\ UNCHANGED <<fprIndex, doubleIndex>>

DecodeWord32 ==
  /\ Decoding /\ Arm32 /\ Type \notin WideTypes \union FpTypes
  /\ Decode(<<CoreOrStack(crIndex, stackIndex)>>)
  /\ crIndex' = IndexAfter(crIndex, 1)
  /\ stackIndex' = stackIndex + 1
  /\ Same /\ UNCHANGED <<fprIndex, doubleIndex>>
-----------------------------------------------------------------------------
\* getArgsX86 and handleBridge of X86Entry: one array of words.
WordX86(k) == IF k < 2 \/ (k = 2 /\ Words = 3) THEN Core(k) ELSE FromStack(k)

DecodeX86 ==
  /\ Decoding /\ abi = "x86"
  /\ Decode(IF Wide(Type) THEN <<WordX86(stackIndex), WordX86(stackIndex + 1)>>
                          ELSE <<WordX86(stackIndex)>>)
  /\ stackIndex' = stackIndex + (IF Wide(Type) THEN 2 ELSE 1)
  /\ Same /\ UNCHANGED <<crIndex, fprIndex, doubleIndex>>

HandleCall ==
  /\ pc = "decode" /\ Len(args) = Params
  /\ pc' = "done"
  /\ UNCHANGED <<abi, static, types, places, stack, at,
                 crIndex, fprIndex, doubleIndex, stackIndex, args>>

Done == pc = "done" /\ UNCHANGED argsVars

ArgsNext == \/ PassArgument \/ Call
            \/ ReadStack64 \/ ReadWords
            \/ DecodeFp64 \/ DecodeCore64
            \/ DecodeDouble32 \/ DecodeFloat32 \/ DecodeLong32 \/ DecodeWord32
            \/ DecodeX86 \/ HandleCall \/ Done

ArgsSpec == ArgsInit /\ [][ArgsNext]_argsVars
-----------------------------------------------------------------------------
Places == {"core", "fp", "slot", "zero", "outside the array"} \X Nat

\* The indices stay inside the arrays that they index.
ArgsTypeOK ==
  /\ abi \in Abis /\ static \in BOOLEAN
  /\ types \in Seq(Types)
  /\ places \in Seq(Seq(Places)) /\ Len(places) = Len(types)
  /\ pc \in {"pass", "read", "decode", "done"}
  /\ stack \in Seq(Nat) /\ at \in Nat
  /\ args \in Seq(Seq(Places)) /\ Len(args) <= Len(types)
  /\ crIndex \in 0..CoreSize
  /\ fprIndex \in 0..FPR_SIZE /\ doubleIndex \in 0..FPR_SIZE
  /\ stackIndex \in Nat

\* On M an instance method has one register more than its bridge has parameters.
LostOnM(k) == abi = "arm64 M" /\ ~static /\ args[k] = <<Zero>>

\* A boolean on the stack of arm64 is compared with 0 together with the slot
\* behind it.
BooleanWithNext(k) ==
  Arm64 /\ types[k] = "boolean" /\ Len(args[k]) = 2 /\ Head(args[k]) = Head(places[k])

\* The callbacks of a hooked method get each argument from where its caller
\* has put it, whatever the types are, but for the two cases above.
ArgsAreThePassed ==
  \A k \in DOMAIN args :
    args[k] = places[k] \/ LostOnM(k) \/ BooleanWithNext(k)

\* The same without exception ("The arguments passed to the method in this
\* call", Pine.java:891).
ArgsArePassed == \A k \in DOMAIN args : args[k] = places[k]
=============================================================================
