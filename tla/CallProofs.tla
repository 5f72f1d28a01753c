----------------------------- MODULE CallProofs -----------------------------
(***************************************************************************)
(* Proofs about a call of a hooked method.  CallChain, for every number of *)
(* callbacks, of replacements among them and of setters used in a turn:    *)
(* handleCall stays within its array, no callback inherits an outcome, a   *)
(* replacement replaces, and the two loops implement the transactions of   *)
(* module CallOutcome.  BridgeArgs on arm64, for any numbers of registers  *)
(* and parameters: the loops of the code keep running indices, where the   *)
(* convention speaks of how many parameters of a kind come before one; the *)
(* invariant says that the indices are these counts.                       *)
(***************************************************************************)
EXTENDS CallChain, BridgeArgs, FiniteSetTheorems, TLAPS

-----------------------------------------------------------------------------
(* The callbacks                                                              *)
\* What a setter leaves: a frame that is marked unless it is blank, and that
\* holds a result or an exception, not both.
Good(f) ==
  /\ f \in Frames
  /\ ~f.returnEarly => f = BlankFrame
  /\ OutcomeOf(f) \in Outcomes

Consistent == Good(frame) /\ last \in Outcomes

\* Where beforeIdx stands: the first loop never passes a replacement.
Indices ==
  /\ stage \in {"original", "rejected"} => beforeIdx = N
  /\ stage \in {"before", "original", "rejected"} =>
       \A i \in replacements : beforeIdx <= i

IInv == InBounds /\ Indices /\ Consistent /\ FreshFrame

-----------------------------------------------------------------------------
\* A new frame, and one that resetResult has reset, is good.
LEMMA BlankIsGood == Good(BlankFrame)
  BY ThrowableAssumption DEF Good, BlankFrame, Frames, OutcomeOf, MaybeResult, MaybeThrowable,
     Outcomes

\* setResult marks the frame with a result.
LEMMA SetResultIsGood ==
  ASSUME NEW f, NEW v \in MaybeResult
  PROVE  Good(SetResult(f, v)) /\ SetResult(f, v).returnEarly
  BY DEF Good, SetResult, Frames, OutcomeOf, MaybeResult, MaybeThrowable, Outcomes

\* setThrowable marks the frame with an exception, or with null.
LEMMA SetThrowableIsGood ==
  ASSUME NEW f, NEW e \in MaybeThrowable
  PROVE  Good(SetThrowable(f, e)) /\ SetThrowable(f, e).returnEarly
<1>1. SetThrowable(f, e) \in Frames /\ SetThrowable(f, e).returnEarly
  BY DEF SetThrowable, Frames, MaybeResult
<1>2. OutcomeOf(SetThrowable(f, e)) \in Outcomes
  BY DEF SetThrowable, OutcomeOf, MaybeResult, MaybeThrowable, Outcomes
<1> QED
  BY <1>1, <1>2 DEF Good

\* setResultIfNoException leaves an exception alone.
LEMMA SetResultIfNoExceptionIsGood ==
  ASSUME NEW f, Good(f), NEW v \in MaybeResult
  PROVE  Good(SetResultIfNoException(f, v))
<1>1. CASE f.throwable = NoThrowable
  <2>1. SetResultIfNoException(f, v) = SetResult(f, v)
    BY <1>1 DEF SetResultIfNoException, SetResult, Good, Frames
  <2> QED
    BY <2>1, SetResultIsGood
<1>2. CASE f.throwable # NoThrowable
  BY <1>2 DEF SetResultIfNoException
<1> QED
  BY <1>1, <1>2

\* A callback leaves a good frame, whatever setters it uses.
LEMMA UseFrameIsGood ==
  ASSUME IInv, UseFrame
  PROVE  Good(frame')
<1>1. Good(frame)
  BY DEF IInv, Consistent
<1>2. CASE \E v \in MaybeResult : frame' = SetResult(frame, v)
  BY <1>2, SetResultIsGood
<1>3. CASE \E v \in MaybeResult : frame' = SetResultIfNoException(frame, v)
  BY <1>1, <1>3, SetResultIfNoExceptionIsGood
<1>4. CASE \E e \in MaybeThrowable : frame' = SetThrowable(frame, e)
  BY <1>4, SetThrowableIsGood
<1>5. CASE frame' = ResetResult(frame)
  BY <1>5, BlankIsGood DEF ResetResult
<1> QED
  BY <1>2, <1>3, <1>4, <1>5 DEF UseFrame

\* The frame of a turn that throws is good again.
LEMMA RestoreIsGood ==
  ASSUME IInv
  PROVE  Good(Restore) /\ OutcomeOf(Restore) = last
<1>1. last \in Outcomes
  BY DEF IInv, Consistent
<1>2. last.result \in MaybeResult /\ last.throwable \in MaybeThrowable
  BY <1>1 DEF Outcomes, MaybeResult, MaybeThrowable
<1>3. Good(Restore)
  BY <1>2, SetResultIsGood, SetThrowableIsGood DEF Restore
<1>4. OutcomeOf(Restore) = last
  BY <1>1, ThrowableAssumption DEF Restore, SetResult, SetThrowable, OutcomeOf, Outcomes
<1> QED
  BY <1>3, <1>4

\* The concrete and the abstract chain speak of the same outcomes.
LEMMA OutcomesAgree == Atomic!Outcomes = Outcomes
  BY DEF Atomic!Outcomes, Outcomes, MaybeResult

-----------------------------------------------------------------------------
\* Every way to write the frame leaves a good one.
LEMMA ConsistentStep == IInv /\ [Next]_vars => Consistent'
<1> SUFFICES ASSUME IInv, [Next]_vars PROVE Consistent'
  OBVIOUS
<1> USE DEF IInv, Consistent
<1>1. CASE UseFrame
  BY <1>1, UseFrameIsGood DEF UseFrame
<1>2. CASE BeforeReturns
  BY <1>2 DEF BeforeReturns, EndBefore, NextBefore, StartAfter, Good
<1>3. CASE BeforeThrows
  BY <1>3, BlankIsGood DEF BeforeThrows, NextBefore, ResetResult
<1>4. CASE ReplaceCall
  <2>1. CASE \E v \in MaybeResult : EndBefore(SetResult(frame, v))
    BY <2>1, SetResultIsGood DEF EndBefore, NextBefore, StartAfter, Good
  <2>2. CASE \E e \in Throwables : EndBefore(SetThrowable(frame, e))
    BY <2>2, SetThrowableIsGood DEF EndBefore, NextBefore, StartAfter, Good,
       MaybeThrowable
  <2> QED
    BY <1>4, <2>1, <2>2 DEF ReplaceCall
<1>5. CASE OriginalReturns
  BY <1>5, SetResultIsGood DEF OriginalReturns, StartAfter, Good
<1>6. CASE OriginalThrows
  BY <1>6, SetThrowableIsGood DEF OriginalThrows, StartAfter, Good, MaybeThrowable
<1>7. CASE OriginalRejected
  BY <1>7 DEF OriginalRejected
<1>8. CASE AfterReturns
  BY <1>8 DEF AfterReturns, EndAfter, Good
<1>9. CASE AfterThrows
  BY <1>9, RestoreIsGood DEF AfterThrows, EndAfter, Good
<1>10. CASE UNCHANGED vars
  BY <1>10 DEF vars
<1> QED
  BY <1>1, <1>2, <1>3, <1>4, <1>5, <1>6, <1>7, <1>8, <1>9, <1>10 DEF Next

\* Every step keeps the indices within the array: a loop ends at its last callback.
LEMMA InBoundsStep == IInv /\ [Next]_vars => InBounds'
<1> SUFFICES ASSUME IInv, [Next]_vars PROVE InBounds'
  OBVIOUS
<1> USE NAssumption, MaxOpsAssumption DEF IInv, InBounds, Indices
<1>1. CASE UseFrame
  BY <1>1 DEF UseFrame
<1>2. CASE BeforeReturns
  BY <1>2 DEF BeforeReturns, EndBefore, NextBefore, StartAfter
<1>3. CASE BeforeThrows
  BY <1>3 DEF BeforeThrows, NextBefore, Fails, Turns
<1>4. CASE ReplaceCall
  <2>1. PICK f : EndBefore(f)
    BY <1>4 DEF ReplaceCall
  <2>2. stage = "before" /\ ops' = 0 /\ UNCHANGED <<replacements, failed>>
    BY <1>4 DEF ReplaceCall
  <2>3. CASE f.returnEarly
    BY <2>1, <2>2, <2>3 DEF EndBefore, StartAfter
  <2>4. CASE ~f.returnEarly
    BY <2>1, <2>2, <2>4 DEF EndBefore, NextBefore
  <2> QED
    BY <2>3, <2>4
<1>5. CASE OriginalReturns
  BY <1>5 DEF OriginalReturns, StartAfter
<1>6. CASE OriginalThrows
  BY <1>6 DEF OriginalThrows, StartAfter
<1>7. CASE OriginalRejected
  BY <1>7 DEF OriginalRejected
<1>8. CASE AfterReturns
  BY <1>8 DEF AfterReturns, EndAfter
<1>9. CASE AfterThrows
  BY <1>9 DEF AfterThrows, EndAfter, Fails, Turns
<1>10. CASE UNCHANGED vars
  BY <1>10 DEF vars
<1> QED
  BY <1>1, <1>2, <1>3, <1>4, <1>5, <1>6, <1>7, <1>8, <1>9, <1>10 DEF Next

\* The turn of a replacement settles the call, so that the loop goes no further.
LEMMA IndicesStep == IInv /\ [Next]_vars => Indices'
<1> SUFFICES ASSUME IInv, [Next]_vars PROVE Indices'
  OBVIOUS
<1> USE NAssumption DEF IInv, InBounds, Indices
<1>1. CASE UseFrame
  BY <1>1 DEF UseFrame
<1>2. CASE BeforeReturns
  BY <1>2 DEF BeforeReturns, EndBefore, NextBefore, StartAfter
<1>3. CASE BeforeThrows
  BY <1>3 DEF BeforeThrows, NextBefore
<1>4. CASE ReplaceCall
  <2>1. PICK f : EndBefore(f) /\ f.returnEarly /\ UNCHANGED replacements
    BY <1>4, SetResultIsGood, SetThrowableIsGood DEF ReplaceCall, MaybeThrowable
  <2> QED
    BY <2>1 DEF EndBefore, StartAfter
<1>5. CASE OriginalReturns
  BY <1>5 DEF OriginalReturns, StartAfter
<1>6. CASE OriginalThrows
  BY <1>6 DEF OriginalThrows, StartAfter
<1>7. CASE OriginalRejected
  BY <1>7 DEF OriginalRejected
<1>8. CASE AfterReturns
  BY <1>8 DEF AfterReturns, EndAfter
<1>9. CASE AfterThrows
  BY <1>9 DEF AfterThrows, EndAfter
<1>10. CASE UNCHANGED vars
  BY <1>10 DEF vars
<1> QED
  BY <1>1, <1>2, <1>3, <1>4, <1>5, <1>6, <1>7, <1>8, <1>9, <1>10 DEF Next

\* A turn before that does not settle the call leaves the frame blank.
LEMMA FreshFrameStep == IInv /\ [Next]_vars => FreshFrame'
<1> SUFFICES ASSUME IInv, [Next]_vars PROVE FreshFrame'
  OBVIOUS
<1> USE DEF IInv, InBounds, FreshFrame
<1>1. CASE UseFrame
  BY <1>1, MaxOpsAssumption DEF UseFrame
<1>2. CASE BeforeReturns
  BY <1>2 DEF BeforeReturns, EndBefore, NextBefore, StartAfter, Consistent, Good
<1>3. CASE BeforeThrows
  BY <1>3 DEF BeforeThrows, NextBefore, ResetResult
<1>4. CASE ReplaceCall
  <2>1. PICK f : EndBefore(f) /\ f.returnEarly
    BY <1>4, SetResultIsGood, SetThrowableIsGood DEF ReplaceCall, MaybeThrowable
  <2> QED
    BY <2>1 DEF EndBefore, StartAfter
<1>5. CASE OriginalReturns
  BY <1>5 DEF OriginalReturns, StartAfter
<1>6. CASE OriginalThrows
  BY <1>6 DEF OriginalThrows, StartAfter
<1>7. CASE OriginalRejected
  BY <1>7 DEF OriginalRejected
<1>8. CASE AfterReturns
  BY <1>8 DEF AfterReturns, EndAfter
<1>9. CASE AfterThrows
  BY <1>9 DEF AfterThrows, EndAfter
<1>10. CASE UNCHANGED vars
  BY <1>10 DEF vars
<1> QED
  BY <1>1, <1>2, <1>3, <1>4, <1>5, <1>6, <1>7, <1>8, <1>9, <1>10 DEF Next

-----------------------------------------------------------------------------
\* The invariant holds in the initial state.
LEMMA InitIInv == Init => IInv
<1> SUFFICES ASSUME Init PROVE IInv
  OBVIOUS
<1>1. InBounds
  BY NAssumption, MaxOpsAssumption DEF Init, InBounds
<1>2. Indices
  BY NAssumption DEF Init, Indices
<1>3. Consistent
  BY BlankIsGood DEF Init, Consistent, Good
<1>4. FreshFrame
  BY DEF Init, FreshFrame
<1> QED
  BY <1>1, <1>2, <1>3, <1>4 DEF IInv

\* The invariant is inductive.
LEMMA NextIInv == IInv /\ [Next]_vars => IInv'
<1> SUFFICES ASSUME IInv /\ [Next]_vars PROVE IInv'
  OBVIOUS
<1> QED
  BY ConsistentStep, InBoundsStep, IndicesStep, FreshFrameStep DEF IInv

\* Every reachable state satisfies the invariant.
THEOREM Invariance == Spec => []IInv
  BY InitIInv, NextIInv, PTL DEF Spec

\* The loops of handleCall never index outside the array of callbacks, and the
\* frame never holds a result and an exception.
THEOREM TypeCorrect == Spec => []TypeOK
<1>1. IInv => TypeOK
  BY DEF IInv, TypeOK, Consistent, Good
<1> QED
  BY <1>1, Invariance, PTL

\* No callback before, and not the original, inherits an outcome.
THEOREM FrameIsFresh == Spec => []FreshFrame
<1>1. IInv => FreshFrame
  BY DEF IInv
<1> QED
  BY <1>1, Invariance, PTL

\* A call with a replacement never runs the original.
THEOREM ReplacementsReplace == Spec => []ReplacementReplaces
<1>1. IInv => ReplacementReplaces
  <2> SUFFICES ASSUME IInv, NEW i \in replacements, stage \in {"original", "rejected"}
               PROVE  FALSE
    BY DEF ReplacementReplaces
  <2>1. i \in 0 .. N - 1 /\ N \in Nat
    BY NAssumption DEF IInv, InBounds
  <2>2. N <= i
    BY DEF IInv, Indices
  <2> QED
    BY <2>1, <2>2
<1> QED
  BY <1>1, Invariance, PTL

-----------------------------------------------------------------------------
\* The end of a turn is a step of the abstract chain; a setter is none.
LEMMA AtomicStep == IInv /\ [Next]_vars => [Atomic!Next]_<<stage, At, Settled, failed>>
<1> SUFFICES ASSUME IInv, [Next]_vars PROVE [Atomic!Next]_<<stage, At, Settled, failed>>
  OBVIOUS
<1> USE NAssumption DEF IInv, InBounds, At, Settled
<1>1. CASE UseFrame
  BY <1>1 DEF UseFrame
<1>2. CASE BeforeReturns
  <2>1. CASE frame.returnEarly
    <3>1. Atomic!BeforeSettles
      BY <1>2, <2>1, OutcomesAgree DEF BeforeReturns, EndBefore, StartAfter, Consistent,
         Good,
         Atomic!BeforeSettles
    <3> QED
      BY <3>1 DEF Atomic!Next
  <2>2. CASE ~frame.returnEarly
    <3>1. Atomic!BeforePasses
      BY <1>2, <2>2 DEF BeforeReturns, EndBefore, NextBefore, Consistent, Good,
         Atomic!BeforePasses
    <3> QED
      BY <3>1 DEF Atomic!Next
  <2> QED
    BY <2>1, <2>2
<1>3. CASE BeforeThrows
  <2>1. Atomic!BeforePasses
    BY <1>3 DEF BeforeThrows, NextBefore, ResetResult, Fails, Atomic!BeforePasses,
       Atomic!Fails
  <2> QED
    BY <2>1 DEF Atomic!Next
<1>4. CASE ReplaceCall
  <2>1. PICK f : EndBefore(f) /\ f.returnEarly /\ Good(f)
    BY <1>4, SetResultIsGood, SetThrowableIsGood DEF ReplaceCall, MaybeThrowable
  <2>2. Atomic!BeforeSettles
    BY <1>4, <2>1, OutcomesAgree DEF ReplaceCall, EndBefore, StartAfter, Good,
       Atomic!BeforeSettles
  <2> QED
    BY <2>2 DEF Atomic!Next
<1>5. CASE OriginalReturns
  <2>1. PICK f : StartAfter(f, beforeIdx) /\ Good(f)
    BY <1>5, SetResultIsGood DEF OriginalReturns
  <2>2. Atomic!Original
    BY <1>5, <2>1, OutcomesAgree DEF OriginalReturns, StartAfter, Indices, Good,
       Atomic!Original
  <2> QED
    BY <2>2 DEF Atomic!Next
<1>6. CASE OriginalThrows
  <2>1. PICK f : StartAfter(f, beforeIdx) /\ Good(f)
    BY <1>6, SetThrowableIsGood DEF OriginalThrows, MaybeThrowable
  <2>2. Atomic!Original
    BY <1>6, <2>1, OutcomesAgree DEF OriginalThrows, StartAfter, Indices, Good,
       Atomic!Original
  <2> QED
    BY <2>2 DEF Atomic!Next
<1>7. CASE OriginalRejected
  <2>1. Atomic!Original
    BY <1>7 DEF OriginalRejected, Atomic!Original
  <2> QED
    BY <2>1 DEF Atomic!Next
<1>8. CASE AfterReturns
  <2>1. Atomic!After
    BY <1>8, OutcomesAgree DEF AfterReturns, EndAfter, Consistent, Good, Atomic!After
  <2> QED
    BY <2>1 DEF Atomic!Next
<1>9. CASE AfterThrows
  <2>1. Atomic!After
    BY <1>9, RestoreIsGood DEF AfterThrows, EndAfter, Fails, Atomic!After, Atomic!Fails
  <2> QED
    BY <2>1 DEF Atomic!Next
<1>10. CASE UNCHANGED vars
  BY <1>10 DEF vars
<1> QED
  BY <1>1, <1>2, <1>3, <1>4, <1>5, <1>6, <1>7, <1>8, <1>9, <1>10 DEF Next

\* The two loops treat every callback as a transaction.
THEOREM ChainIsTransactional == Spec => Transactional
<1>1. Init => Atomic!Init
  BY DEF Init, Atomic!Init, At, Settled, BlankFrame, OutcomeOf, Atomic!Blank
<1>2. IInv /\ [Next]_vars => [Atomic!Next]_<<stage, At, Settled, failed>>
  BY AtomicStep
<1> QED
  BY <1>1, <1>2, Invariance, PTL DEF Spec, Transactional, Atomic!Spec

-----------------------------------------------------------------------------
(* The arguments                                                              *)
\* Counting the first n parameters, one parameter after the other.
LEMMA CountFinite ==
  ASSUME NEW s, NEW kinds, NEW n \in Int
  PROVE  IsFiniteSet({k \in 1..n : s[k] \in kinds})
<1>1. IsFiniteSet(1..n)
  BY FS_Interval
<1>2. {k \in 1..n : s[k] \in kinds} \in SUBSET (1..n)
  OBVIOUS
<1> QED BY <1>1, <1>2, FS_Subset

LEMMA CountBounds ==
  ASSUME NEW s, NEW kinds, NEW n \in Int
  PROVE  /\ CountIn(s, n, kinds) \in Nat
         /\ n \in Nat => CountIn(s, n, kinds) <= n
         /\ n <= 0 => CountIn(s, n, kinds) = 0
<1> DEFINE S == {k \in 1..n : s[k] \in kinds}
<1>1. IsFiniteSet(1..n) /\ Cardinality(1..n) = IF 1 > n THEN 0 ELSE n
  BY FS_Interval
<1>2. S \in SUBSET (1..n)
  OBVIOUS
<1>3. IsFiniteSet(S) /\ Cardinality(S) <= Cardinality(1..n)
  BY <1>1, <1>2, FS_Subset
<1>4. Cardinality(S) \in Nat
  BY <1>3, FS_CardinalityType
<1> QED BY <1>1, <1>3, <1>4 DEF CountIn

LEMMA CountStep ==
  ASSUME NEW s, NEW kinds, NEW n \in Nat
  PROVE  CountIn(s, n + 1, kinds)
           = CountIn(s, n, kinds) + (IF s[n + 1] \in kinds THEN 1 ELSE 0)
<1> DEFINE S == {k \in 1..n : s[k] \in kinds}
           T == {k \in 1..(n + 1) : s[k] \in kinds}
<1>1. IsFiniteSet(S)
  BY CountFinite
<1>2. Cardinality(S) \in Nat
  BY <1>1, FS_CardinalityType
<1>3. CASE s[n + 1] \in kinds
  <2>1. T = S \union {n + 1} /\ n + 1 \notin S
    BY <1>3
  <2>2. Cardinality(T) = Cardinality(S) + 1
    BY <1>1, <2>1, FS_AddElement
  <2> QED BY <1>2, <1>3, <2>2 DEF CountIn
<1>4. CASE s[n + 1] \notin kinds
  <2>1. T = S
    BY <1>4
  <2> QED BY <1>2, <1>4, <2>1 DEF CountIn
<1> QED BY <1>3, <1>4

LEMMA CountMonotone ==
  ASSUME NEW s, NEW kinds, NEW n \in Nat, NEW m \in Nat, n <= m
  PROVE  CountIn(s, n, kinds) <= CountIn(s, m, kinds)
<1> DEFINE S == {k \in 1..n : s[k] \in kinds}
           T == {k \in 1..m : s[k] \in kinds}
<1>1. S \in SUBSET T
  OBVIOUS
<1>2. IsFiniteSet(T)
  BY CountFinite
<1> QED BY <1>1, <1>2, FS_Subset DEF CountIn

\* What is counted among the first n parameters does not depend on the others.
LEMMA CountSame ==
  ASSUME NEW s, NEW t, NEW kinds, NEW n \in Int, \A k \in 1..n : s[k] = t[k]
  PROVE  CountIn(s, n, kinds) = CountIn(t, n, kinds)
<1>1. {k \in 1..n : s[k] \in kinds} = {k \in 1..n : t[k] \in kinds}
  OBVIOUS
<1> QED BY <1>1 DEF CountIn

-----------------------------------------------------------------------------
(* Where the convention puts parameter k, by counts alone.                    *)
SlotAt(k) == This + (k - 1) + Count(k - 1, WideTypes)

OnStackAt(k) == IF Wide(types[k]) THEN <<Slot(SlotAt(k)), Slot(SlotAt(k) + 1)>>
                                  ELSE <<Slot(SlotAt(k))>>

PlaceAt(k) ==
  IF IsFp(types[k]) /\ Count(k - 1, FpTypes) < FPR_SIZE
  THEN <<Fp(Count(k - 1, FpTypes))>>
  ELSE IF ~IsFp(types[k]) /\ This + Count(k - 1, CoreTypes) < CR_SIZE
  THEN <<Core(This + Count(k - 1, CoreTypes))>>
  ELSE OnStackAt(k)

\* Where entry j of the array stack starts, the receiver's included.
EntryAt(j) == (j - 1) + Count(j - 1 - This, WideTypes)

DecodeInv ==
  /\ Len(stack) = This + Params \/ (abi = "arm64 M" /\ Params < 3)
  /\ stackIndex = This + Len(args)
  /\ crIndex = Lesser(CR_SIZE, This + Count(Len(args), CoreTypes))
  /\ fprIndex = Lesser(FPR_SIZE, Count(Len(args), FpTypes))

ArgsInv ==
  /\ abi \in Abis /\ abi \in Arm64Abis /\ static \in BOOLEAN
  /\ types \in Seq(Types)
  /\ places \in Seq(Seq(Places)) /\ Len(places) = Len(types)
  /\ \A k \in 1..Len(types) : places[k] = PlaceAt(k)
  /\ stack \in Seq(Nat) /\ Len(stack) <= This + Params
  /\ \A j \in 1..Len(stack) : stack[j] = EntryAt(j)
  /\ at = EntryAt(Len(stack) + 1)
  /\ args \in Seq(Seq(Places)) /\ Len(args) <= Len(types)
  /\ doubleIndex = 0
  /\ pc \in {"pass", "read", "decode", "done"}
  /\ pc = "pass" => stack = <<>>
  /\ pc \in {"pass", "read"} => args = <<>> /\ crIndex = 0 /\ fprIndex = 0 /\ stackIndex = 0
  /\ pc \in {"decode", "done"} => DecodeInv
  /\ ArgsAreThePassed

LEMMA PlaceAtType ==
  ASSUME static \in BOOLEAN, NEW k \in Nat \ {0}
  PROVE  PlaceAt(k) \in Seq(Places) /\ SlotAt(k) \in Nat
<1>1. /\ Count(k - 1, FpTypes) \in Nat /\ Count(k - 1, CoreTypes) \in Nat
      /\ Count(k - 1, WideTypes) \in Nat
  BY CountBounds DEF Count
<1>2. This \in 0..1
  BY DEF This
<1>3. SlotAt(k) \in Nat
  BY <1>1, <1>2 DEF SlotAt
<1>4. \A n \in Nat : Slot(n) \in Places /\ Fp(n) \in Places /\ Core(n) \in Places
  BY DEF Slot, Fp, Core, Places
<1>5. OnStackAt(k) \in Seq(Places)
  BY <1>3, <1>4 DEF OnStackAt
<1>6. Fp(Count(k - 1, FpTypes)) \in Places /\ Core(This + Count(k - 1, CoreTypes)) \in Places
  BY <1>1, <1>2, <1>4
<1> QED BY <1>3, <1>5, <1>6 DEF PlaceAt

LEMMA InitArgs == ASSUME Abis \subseteq Arm64Abis, ArgsInit PROVE ArgsInv
<1>1. This \in 0..1
  BY DEF ArgsInit, This
<1>2. Count(0 - This, WideTypes) = 0
  BY <1>1, CountBounds DEF Count
<1>3. EntryAt(1) = 0
  BY <1>1, <1>2 DEF EntryAt
<1>4. abi \in Abis /\ static \in BOOLEAN /\ types = <<>> /\ places = <<>> /\ args = <<>>
      /\ pc = "pass" /\ stack = <<>> /\ at = 0
      /\ crIndex = 0 /\ fprIndex = 0 /\ doubleIndex = 0 /\ stackIndex = 0
  BY DEF ArgsInit
<1> QED BY <1>1, <1>3, <1>4 DEF ArgsInv, ArgsAreThePassed, Params

LEMMA PassStep == ASSUME ArgsInv, PassArgument PROVE ArgsInv'
<1>0. PICK n \in Nat \ {0} : n = Len(types) + 1
  BY DEF ArgsInv
<1>1. PICK t \in Types : types' = Append(types, t) /\ places' = Append(places, Place(t))
  BY DEF PassArgument
<1>2. /\ abi' = abi /\ static' = static /\ pc = "pass" /\ pc' = pc
      /\ stack' = stack /\ at' = at /\ args' = args /\ doubleIndex' = doubleIndex
      /\ crIndex' = crIndex /\ fprIndex' = fprIndex /\ stackIndex' = stackIndex
  BY DEF PassArgument
<1>3. types' \in Seq(Types) /\ Len(types') = n /\ types'[n] = t /\ n = Len(types) + 1
      /\ \A k \in 1..Len(types) : types'[k] = types[k]
  BY <1>0, <1>1 DEF ArgsInv
<1>4. \A k \in Int : k <= Len(types) =>
        /\ Count(k, FpTypes)' = Count(k, FpTypes)
        /\ Count(k, CoreTypes)' = Count(k, CoreTypes)
        /\ Count(k, WideTypes)' = Count(k, WideTypes)
  BY <1>3, CountSame DEF Count, FpTypes, CoreTypes, WideTypes
<1>5. This' = This /\ This \in 0..1
  BY <1>2 DEF This, ArgsInv
<1>6. \A k \in 1..n : SlotAt(k)' = This + (k - 1) + Count(k - 1, WideTypes)
  BY <1>3, <1>4, <1>5 DEF SlotAt
<1>7. \A k \in 1..Len(types) : PlaceAt(k)' = PlaceAt(k)
  <2> SUFFICES ASSUME NEW k \in 1..Len(types) PROVE PlaceAt(k)' = PlaceAt(k)
    OBVIOUS
  <2>1. types'[k] = types[k] /\ SlotAt(k)' = SlotAt(k)
    BY <1>3, <1>6 DEF SlotAt
  <2>2. Count(k - 1, FpTypes)' = Count(k - 1, FpTypes)
        /\ Count(k - 1, CoreTypes)' = Count(k - 1, CoreTypes)
    BY <1>3, <1>4
  <2>3. OnStackAt(k)' = OnStackAt(k)
    BY <2>1 DEF OnStackAt
  <2> QED BY <1>5, <2>1, <2>2, <2>3 DEF PlaceAt
<1>8. PlaceAt(n)' = Place(t)
  <2>1. Count(n - 1, FpTypes)' = Count(Len(types), FpTypes)
        /\ Count(n - 1, CoreTypes)' = Count(Len(types), CoreTypes)
    BY <1>3, <1>4
  <2>2. SlotAt(n)' = NextSlot
    BY <1>3, <1>6 DEF NextSlot
  <2>3. OnStackAt(n)' = OnStack(t)
    BY <1>3, <2>2 DEF OnStackAt, OnStack
  <2>4. Arm64
    BY DEF ArgsInv, Arm64
  <2> QED BY <1>3, <1>5, <2>1, <2>3, <2>4 DEF PlaceAt, Place, Place64, Register64
<1>9. Place(t) \in Seq(Places)
  <2>1. /\ Count(Len(types), FpTypes) \in Nat /\ Count(Len(types), CoreTypes) \in Nat
        /\ Count(Len(types), WideTypes) \in Nat
    BY <1>3, CountBounds DEF Count
  <2>2. \A k \in Nat : Slot(k) \in Places /\ Fp(k) \in Places /\ Core(k) \in Places
    BY DEF Slot, Fp, Core, Places
  <2>3. NextSlot \in Nat
    BY <1>3, <1>5, <2>1 DEF NextSlot
  <2>4. OnStack(t) \in Seq(Places)
    BY <2>2, <2>3 DEF OnStack
  <2>5. Arm64
    BY DEF ArgsInv, Arm64
  <2>6. This + Count(Len(types), CoreTypes) \in Nat
    BY <1>5, <2>1
  <2> QED BY <2>1, <2>2, <2>4, <2>5, <2>6 DEF Place, Place64, Register64
<1>10. places' \in Seq(Seq(Places)) /\ Len(places') = n
      /\ \A k \in 1..n : places'[k] = PlaceAt(k)'
  <2>1. places \in Seq(Seq(Places)) /\ Len(places) = Len(types)
        /\ \A k \in 1..Len(types) : places[k] = PlaceAt(k)
    BY DEF ArgsInv
  <2>2. places' \in Seq(Seq(Places)) /\ Len(places') = n /\ places'[n] = Place(t)
        /\ \A k \in 1..Len(types) : places'[k] = places[k]
    BY <1>1, <1>3, <1>9, <2>1
  <2>3. ASSUME NEW k \in 1..n PROVE places'[k] = PlaceAt(k)'
    <3>1. CASE k = n
      BY <1>8, <2>2, <3>1
    <3>2. CASE k # n
      <4>1. k \in 1..Len(types)
        BY <1>3, <2>3, <3>2
      <4>2. places[k] = PlaceAt(k) /\ places'[k] = places[k] /\ PlaceAt(k)' = PlaceAt(k)
        BY <1>7, <2>1, <2>2, <4>1
      <4> QED BY <4>2
    <3> QED BY <3>1, <3>2
  <2> QED BY <2>2, <2>3
<1>11. stack = <<>> /\ args = <<>> /\ at' = EntryAt(Len(stack) + 1)'
  <2>1. stack = <<>> /\ at = EntryAt(1) /\ args = <<>>
    BY <1>2 DEF ArgsInv
  <2>2. Count(0 - This, WideTypes)' = Count(0 - This, WideTypes)
    BY <1>3, <1>4, <1>5
  <2>3. EntryAt(1)' = EntryAt(1)
    BY <1>5, <2>2 DEF EntryAt
  <2>4. (Len(stack) + 1)' = 1
    BY <1>2, <2>1
  <2> QED BY <1>2, <2>1, <2>3, <2>4
<1> QED BY <1>2, <1>3, <1>5, <1>10, <1>11 DEF ArgsInv, ArgsAreThePassed, Params

\* Call and HandleCall, and a step that changes nothing.
LEMMA CallStep == ASSUME ArgsInv, Call PROVE ArgsInv'
<1>1. /\ abi' = abi /\ static' = static /\ types' = types /\ pc = "pass" /\ pc' = "read"
      /\ stack' = stack /\ at' = at /\ args' = args /\ doubleIndex' = doubleIndex
      /\ crIndex' = crIndex /\ fprIndex' = fprIndex /\ stackIndex' = stackIndex
  BY DEF Call
<1>2. places' = places
  BY DEF Call, ArgsInv, Arm64Abis
<1>3. \A k \in 1..Len(types) : PlaceAt(k)' = PlaceAt(k)
  BY <1>1 DEF PlaceAt, OnStackAt, SlotAt, This, Count
<1>4. \A j \in Nat : EntryAt(j)' = EntryAt(j)
  BY <1>1 DEF EntryAt, This, Count
<1>5. (Len(stack) + 1)' = Len(stack) + 1 /\ Len(stack) + 1 \in Nat /\ Len(stack) \in Nat
  BY <1>1 DEF ArgsInv
<1>6. at' = EntryAt(Len(stack) + 1)'
  <2>1. at = EntryAt(Len(stack) + 1)
    BY DEF ArgsInv
  <2> QED BY <1>1, <1>4, <1>5, <2>1
<1>7. (This + Params)' = This + Params
  BY <1>1 DEF This, Params
<1>8. ArgsAreThePassed'
  BY <1>1 DEF ArgsInv, ArgsAreThePassed
<1> QED BY <1>1, <1>2, <1>3, <1>4, <1>5, <1>6, <1>7, <1>8 DEF ArgsInv

LEMMA StutterStep ==
  ASSUME ArgsInv, UNCHANGED <<abi, static, types, places, stack, at,
                              crIndex, fprIndex, doubleIndex, stackIndex, args>>,
         pc' = pc \/ (pc = "decode" /\ pc' = "done")
  PROVE  ArgsInv'
<1>1. \A k \in 1..Len(types) : PlaceAt(k)' = PlaceAt(k)
  BY DEF PlaceAt, OnStackAt, SlotAt, This, Count
<1>2. \A j \in Nat : EntryAt(j)' = EntryAt(j)
  BY DEF EntryAt, This, Count
<1>3. (Len(stack) + 1)' = Len(stack) + 1 /\ Len(stack) + 1 \in Nat /\ Len(stack) \in Nat
  BY DEF ArgsInv
<1>4. at' = EntryAt(Len(stack) + 1)'
  <2>1. at = EntryAt(Len(stack) + 1)
    BY DEF ArgsInv
  <2> QED BY <1>2, <1>3, <2>1
<1>5. (This + Params)' = This + Params
  BY DEF This, Params
<1>6. ArgsAreThePassed' <=> ArgsAreThePassed
  BY DEF ArgsAreThePassed, LostOnM, BooleanWithNext, Arm64
<1>7. DecodeInv' <=> DecodeInv
  BY DEF DecodeInv, This, Params, Count
<1> QED BY <1>1, <1>2, <1>3, <1>4, <1>5, <1>6, <1>7 DEF ArgsInv

LEMMA ReadStep == ASSUME ArgsInv, ReadStack64 PROVE ArgsInv'
<1>1. /\ abi' = abi /\ static' = static /\ types' = types /\ places' = places
      /\ pc = "read" /\ args' = args /\ args = <<>> /\ doubleIndex' = doubleIndex
      /\ fprIndex' = fprIndex /\ fprIndex = 0 /\ crIndex = 0 /\ stackIndex = 0
  BY DEF ReadStack64, ArgsInv
<1>2. \A k \in 1..Len(types) : PlaceAt(k)' = PlaceAt(k)
  BY <1>1 DEF PlaceAt, OnStackAt, SlotAt, This, Count
<1>3. \A j \in Nat : EntryAt(j)' = EntryAt(j)
  BY <1>1 DEF EntryAt, This, Count
<1>4. This' = This /\ This \in 0..1 /\ Params' = Params /\ Params \in Nat
  BY <1>1 DEF This, Params, ArgsInv
<1>5. PICK l \in Nat : l = Len(stack)
  BY DEF ArgsInv
<1>6. ArgsAreThePassed'
  BY <1>1 DEF ArgsAreThePassed
<1>7. CASE Len(stack) < This + Params /\ (abi = "arm64 M" => BridgeParams >= 3)
  <2>1. stack' = Append(stack, at) /\ pc' = pc /\ crIndex' = crIndex /\ stackIndex' = stackIndex
        /\ at' = at + (IF WideEntry(l) THEN 2 ELSE 1)
    BY <1>5, <1>7 DEF ReadStack64
  <2>2. at = EntryAt(l + 1) /\ l < This + Params
    BY <1>5, <1>7 DEF ArgsInv
  <2>3. EntryAt(l + 1) \in Nat
    BY <1>4, CountBounds DEF EntryAt, Count
  <2>4. EntryAt(l + 2) = EntryAt(l + 1) + (IF WideEntry(l) THEN 2 ELSE 1)
    <3>1. CASE l >= This
      <4>1. l - This \in Nat /\ (l - This) + 1 = (l + 2) - 1 - This
            /\ (l + 1) - 1 - This = l - This
        BY <1>4, <3>1
      <4>2. Count((l + 2) - 1 - This, WideTypes) = Count((l + 1) - 1 - This, WideTypes)
              + (IF types[l - This + 1] \in WideTypes THEN 1 ELSE 0)
        BY <4>1, CountStep DEF Count
      <4>3. Count((l + 1) - 1 - This, WideTypes) \in Nat
        BY <4>1, CountBounds DEF Count
      <4>4. WideEntry(l) <=> types[l - This + 1] \in WideTypes
        BY <3>1 DEF WideEntry, Wide, WideTypes
      <4>5. PICK c \in Nat : c = Count((l + 1) - 1 - This, WideTypes)
        BY <4>3
      <4>6. EntryAt(l + 1) = l + c
        <5>1. EntryAt(l + 1) = ((l + 1) - 1) + Count((l + 1) - 1 - This, WideTypes)
          BY Zenon DEF EntryAt
        <5> QED BY <1>5, <4>5, <5>1
      <4>7. EntryAt(l + 2) = l + 1 + c + (IF WideEntry(l) THEN 1 ELSE 0)
        BY <1>4, <1>5, <4>2, <4>4, <4>5 DEF EntryAt
      <4> QED BY <1>5, <4>6, <4>7
    <3>2. CASE l < This
      <4>1. l = 0 /\ This = 1
        BY <1>4, <3>2
      <4>2. Count((l + 2) - 1 - This, WideTypes) = 0 /\ Count((l + 1) - 1 - This, WideTypes) = 0
        BY <4>1, CountBounds DEF Count
      <4>3. ~WideEntry(l)
        BY <3>2, <1>4 DEF WideEntry
      <4> QED BY <4>1, <4>2, <4>3 DEF EntryAt
    <3> QED BY <1>4, <3>1, <3>2
  <2>5. stack' \in Seq(Nat) /\ Len(stack') = l + 1 /\ stack'[l + 1] = at
        /\ \A j \in 1..l : stack'[j] = stack[j]
    BY <1>5, <2>1, <2>2, <2>3 DEF ArgsInv
  <2>6. \A j \in 1..(l + 1) : stack'[j] = EntryAt(j)'
    <3>1. \A j \in 1..l : stack[j] = EntryAt(j)
      BY <1>5 DEF ArgsInv
    <3> QED BY <1>3, <2>2, <2>5, <3>1
  <2>7. at' = EntryAt(Len(stack) + 1)'
    <3>1. (Len(stack) + 1)' = l + 2
      BY <2>5
    <3> QED BY <1>3, <2>1, <2>2, <2>4, <3>1
  <2> QED BY <1>1, <1>2, <1>4, <1>6, <2>1, <2>2, <2>5, <2>6, <2>7 DEF ArgsInv
<1>8. CASE ~(Len(stack) < This + Params /\ (abi = "arm64 M" => BridgeParams >= 3))
  <2>1. stack' = stack /\ at' = at /\ pc' = "decode" /\ crIndex' = This /\ stackIndex' = This
    BY <1>8 DEF ReadStack64
  <2>2. \/ Len(stack) = This + Params
        \/ abi = "arm64 M" /\ Params < 3
    <3>1. Len(stack) <= This + Params /\ Len(stack) \in Nat
      BY DEF ArgsInv
    <3>2. BridgeParams >= 3 <=> ~(Params < 3)
      BY <1>4 DEF BridgeParams, Greater
    <3>3. CASE Len(stack) < This + Params
      BY <1>8, <3>2, <3>3
    <3>4. CASE ~(Len(stack) < This + Params)
      <4>1. PICK m \in Nat : m = This + Params
        BY <1>4
      <4>2. l <= m /\ ~(l < m)
        BY <1>5, <3>1, <3>4, <4>1
      <4>3. l = m
        BY <1>5, <4>1, <4>2
      <4> QED BY <1>5, <4>1, <4>3
    <3> QED BY <3>3, <3>4
  <2>3. Count(0, CoreTypes)' = 0 /\ Count(0, FpTypes)' = 0
    BY <1>1, CountBounds DEF Count
  <2>4. DecodeInv'
    <3>1. Len(args') = 0 /\ Len(args)' = 0
      BY <1>1
    <3>2. Count(Len(args), CoreTypes)' = 0 /\ Count(Len(args), FpTypes)' = 0
      BY <2>3, <3>1
    <3>3. Len(stack)' = Len(stack) /\ abi' = abi
      BY <1>1, <2>1
    <3>4. crIndex' = Lesser(CR_SIZE, This + 0) /\ fprIndex' = Lesser(FPR_SIZE, 0)
      BY <1>1, <1>4, <2>1, AbiAssumption DEF Lesser
    <3>5. stackIndex' = This + 0
      BY <1>4, <2>1
    <3> QED BY <1>4, <2>2, <3>1, <3>2, <3>3, <3>4, <3>5 DEF DecodeInv, Lesser
  <2>5. (Len(stack) + 1)' = Len(stack) + 1 /\ Len(stack) + 1 \in Nat /\ Len(stack) \in Nat
    BY <2>1 DEF ArgsInv
  <2>6. at' = EntryAt(Len(stack) + 1)'
    <3>1. at = EntryAt(Len(stack) + 1)
      BY DEF ArgsInv
    <3> QED BY <1>3, <2>1, <2>5, <3>1
  <2> QED BY <1>1, <1>2, <1>3, <1>4, <1>6, <2>1, <2>4, <2>5, <2>6 DEF ArgsInv
<1> QED BY <1>7, <1>8

-----------------------------------------------------------------------------
\* What decoding may make of argument k.
Accepts(k, w) ==
  \/ w = places[k]
  \/ abi = "arm64 M" /\ ~static /\ w = <<Zero>>
  \/ types[k] = "boolean" /\ Len(w) = 2 /\ Head(w) = Head(places[k])

\* One round of the decoding loop keeps the invariant when it accepts.
LEMMA DecodeStep ==
  ASSUME ArgsInv, NEW i \in Nat, i = Len(args), pc = "decode", i < Params, Same,
         NEW w \in Seq(Places), args' = Append(args, w), Accepts(i + 1, w),
         doubleIndex' = doubleIndex, stackIndex' = stackIndex + 1,
         crIndex' = Lesser(CR_SIZE, This + Count(i + 1, CoreTypes)),
         fprIndex' = Lesser(FPR_SIZE, Count(i + 1, FpTypes))
  PROVE  ArgsInv'
<1>1. /\ abi' = abi /\ static' = static /\ types' = types /\ places' = places
      /\ pc' = pc /\ stack' = stack /\ at' = at
  BY DEF Same
<1>2. /\ args' \in Seq(Seq(Places)) /\ Len(args') = i + 1 /\ args'[i + 1] = w
      /\ \A k \in 1..i : args'[k] = args[k]
  BY DEF ArgsInv
<1>3. \A k \in 1..Len(types) : PlaceAt(k)' = PlaceAt(k)
  BY <1>1 DEF PlaceAt, OnStackAt, SlotAt, This, Count
<1>4. \A j \in Nat : EntryAt(j)' = EntryAt(j)
  BY <1>1 DEF EntryAt, This, Count
<1>5. (Len(stack) + 1)' = Len(stack) + 1 /\ Len(stack) + 1 \in Nat /\ Len(stack) \in Nat
  BY <1>1 DEF ArgsInv
<1>6. at' = EntryAt(Len(stack) + 1)'
  <2>1. at = EntryAt(Len(stack) + 1)
    BY DEF ArgsInv
  <2> QED BY <1>1, <1>4, <1>5, <2>1
<1>7. (This + Params)' = This + Params /\ This' = This /\ Params' = Params /\ Params \in Nat
      /\ This \in 0..1
  BY <1>1 DEF This, Params, ArgsInv
<1>8. ArgsAreThePassed'
  <2> SUFFICES ASSUME NEW k \in 1..(i + 1)
               PROVE  (args[k] = places[k] \/ LostOnM(k) \/ BooleanWithNext(k))'
    BY <1>2 DEF ArgsAreThePassed
  <2>1. CASE k = i + 1
    BY <1>1, <1>2, <2>1 DEF Accepts, LostOnM, BooleanWithNext, Arm64, ArgsInv
  <2>2. CASE k # i + 1
    <3>1. k \in 1..i
      BY <2>2
    <3>2. args[k] = places[k] \/ LostOnM(k) \/ BooleanWithNext(k)
      <4>1. args \in Seq(Seq(Places)) /\ ArgsAreThePassed
        BY DEF ArgsInv
      <4>2. k \in DOMAIN args
        BY <3>1, <4>1
      <4> QED BY <4>1, <4>2 DEF ArgsAreThePassed
    <3> QED BY <1>1, <1>2, <3>1, <3>2 DEF LostOnM, BooleanWithNext, Arm64
  <2> QED BY <2>1, <2>2
<1>9. DecodeInv'
  <2>1. DecodeInv
    BY DEF ArgsInv
  <2>2. Count(i + 1, CoreTypes)' = Count(i + 1, CoreTypes)
        /\ Count(i + 1, FpTypes)' = Count(i + 1, FpTypes)
    BY <1>1 DEF Count
  <2>3. Len(args)' = i + 1
    BY <1>2
  <2>4. crIndex' = Lesser(CR_SIZE, This + Count(Len(args), CoreTypes))'
    BY <1>7, <2>2, <2>3 DEF Lesser
  <2>5. fprIndex' = Lesser(FPR_SIZE, Count(Len(args), FpTypes))'
    BY <2>2, <2>3 DEF Lesser
  <2>6. stackIndex' = (This + Len(args))'
    <3>1. stackIndex = This + i
      BY <2>1 DEF DecodeInv
    <3>2. stackIndex' = This + (i + 1)
      BY <1>7, <3>1
    <3> QED BY <1>7, <2>3, <3>2
  <2>7. (Len(stack) = This + Params \/ (abi = "arm64 M" /\ Params < 3))'
    BY <1>1, <1>7, <2>1 DEF DecodeInv
  <2> QED BY <2>4, <2>5, <2>6, <2>7 DEF DecodeInv
<1>10. Len(args') <= Len(types')
  BY <1>1, <1>2, <1>7 DEF Params
<1> QED BY <1>1, <1>2, <1>3, <1>5, <1>4, <1>6, <1>7, <1>8, <1>9, <1>10 DEF ArgsInv

\* What is behind the registers is found in its entry of the array.
LEMMA StackRead ==
  ASSUME ArgsInv, NEW i \in Nat, i = Len(args), i < Params,
         stackIndex = This + i, Len(stack) = This + Params,
         places[i + 1] = OnStackAt(i + 1)
  PROVE  FromStack64 \in Seq(Places) /\ Accepts(i + 1, FromStack64)
<1>1. This \in 0..1 /\ Params \in Nat /\ types[i + 1] \in Types
  BY DEF This, Params, ArgsInv
<1>2. stack[stackIndex + 1] = EntryAt(stackIndex + 1)
  BY <1>1 DEF ArgsInv
<1>3. PICK c \in Nat : c = Count(i, WideTypes)
  BY CountBounds DEF Count
<1>4. EntryAt(stackIndex + 1) = This + i + c
  <2>1. (stackIndex + 1) - 1 - This = i
    BY <1>1
  <2> QED BY <1>1, <1>3, <2>1 DEF EntryAt
<1>5. SlotAt(i + 1) = This + i + c
  <2>1. (i + 1) - 1 = i
    OBVIOUS
  <2> QED BY <1>1, <1>3, <2>1 DEF SlotAt
<1>6. PICK s \in Nat : s = This + i + c
  BY <1>1, <1>3
<1>7. Slot(s) \in Places /\ Slot(s + 1) \in Places
  <2>1. \A n \in Nat : Slot(n) \in Places
    BY DEF Slot, Places
  <2> QED BY <1>6, <2>1
<1>8. Type = types[i + 1]
  BY DEF Type
<1>9. FromStack64 = IF types[i + 1] \in WideTypes \union {"boolean"}
                    THEN <<Slot(s), Slot(s + 1)>> ELSE <<Slot(s)>>
  BY <1>1, <1>2, <1>4, <1>6, <1>8 DEF FromStack64
<1>10. places[i + 1] = IF types[i + 1] \in WideTypes THEN <<Slot(s), Slot(s + 1)>> ELSE <<Slot(s)>>
  BY <1>5, <1>6 DEF OnStackAt, Wide, WideTypes
<1>11. FromStack64 \in Seq(Places)
  BY <1>7, <1>9
<1>12. CASE types[i + 1] = "boolean"
  <2>1. FromStack64 = <<Slot(s), Slot(s + 1)>> /\ places[i + 1] = <<Slot(s)>>
    BY <1>9, <1>10, <1>12 DEF WideTypes
  <2> QED BY <1>11, <1>12, <2>1 DEF Accepts
<1>13. CASE types[i + 1] # "boolean"
  BY <1>9, <1>10, <1>11, <1>13 DEF Accepts
<1> QED BY <1>12, <1>13

LEMMA Fp64Step == ASSUME ArgsInv, DecodeFp64 PROVE ArgsInv'
<1>1. PICK i \in Nat : i = Len(args)
  BY DEF ArgsInv
<1>2. /\ pc = "decode" /\ i < Params /\ Same /\ IsFp(types[i + 1])
      /\ doubleIndex' = doubleIndex /\ stackIndex' = stackIndex + 1 /\ crIndex' = crIndex
  BY <1>1 DEF DecodeFp64, Decoding, Type
<1>3. /\ This \in 0..1 /\ Params \in Nat /\ types[i + 1] \in Types
      /\ places[i + 1] = PlaceAt(i + 1) /\ PlaceAt(i + 1) \in Seq(Places)
  <2>1. i + 1 \in 1..Len(types) /\ static \in BOOLEAN /\ i + 1 \in Nat \ {0}
    BY <1>2 DEF Params, ArgsInv
  <2>2. PlaceAt(i + 1) \in Seq(Places)
    BY <2>1, PlaceAtType
  <2>3. This \in 0..1
    BY DEF This
  <2>4. types \in Seq(Types) /\ \A k \in 1..Len(types) : places[k] = PlaceAt(k)
    BY DEF ArgsInv
  <2>5. Params \in Nat /\ types[i + 1] \in Types
    <3> HIDE DEF Types
    <3> QED BY <2>1, <2>4, SMT DEF Params
  <2>6. places[i + 1] = PlaceAt(i + 1)
    BY <2>1, <2>4
  <2> QED BY <2>2, <2>3, <2>5, <2>6
<1>4. DecodeInv
  BY <1>2 DEF ArgsInv
<1>5. PICK c \in Nat : c = Count(i, FpTypes) /\ c <= i
  BY CountBounds DEF Count
<1>6. PICK m \in Nat : m = Count(Params, FpTypes)
  BY <1>3, CountBounds DEF Count
<1>7. Count(i + 1, FpTypes) = c + 1 /\ Count(i + 1, CoreTypes) = Count(i, CoreTypes)
  <2>1. types[i + 1] \in FpTypes /\ types[i + 1] \notin CoreTypes
    BY <1>2 DEF IsFp, FpTypes, CoreTypes
  <2>2. Count(i, CoreTypes) \in Nat
    BY CountBounds DEF Count
  <2> QED BY <1>5, <2>1, <2>2, CountStep DEF Count
<1>8. c + 1 <= m
  <2>1. i + 1 <= Params /\ i + 1 \in Nat
    BY <1>2, <1>3
  <2>2. Count(i + 1, FpTypes) <= Count(Params, FpTypes)
    BY <1>3, <2>1, CountMonotone DEF Count
  <2> QED BY <1>6, <1>7, <2>2
<1>9. fprIndex = Lesser(FPR_SIZE, c) /\ stackIndex = This + i
      /\ crIndex' = Lesser(CR_SIZE, This + Count(i + 1, CoreTypes))
  BY <1>1, <1>2, <1>4, <1>5, <1>7 DEF DecodeInv
<1>10. FprLength = Lesser(FPR_SIZE, m)
  BY <1>6 DEF FprLength, FprLength64, Arm64, ArgsInv
<1>11. FPR_SIZE \in Nat /\ FPR_SIZE >= 2
  BY AbiAssumption
<1>12. fprIndex < FprLength <=> c < FPR_SIZE
  BY <1>5, <1>6, <1>8, <1>9, <1>10, <1>11 DEF Lesser
<1>13. (i + 1) - 1 = i
  OBVIOUS
<1>14. CASE c < FPR_SIZE
  <2>1. args' = Append(args, <<Fp(c)>>) /\ fprIndex' = c + 1
    BY <1>5, <1>9, <1>11, <1>12, <1>14 DEF DecodeFp64, Decode, Lesser
  <2>2. PlaceAt(i + 1) = <<Fp(c)>>
    BY <1>2, <1>5, <1>13, <1>14 DEF PlaceAt
  <2>3. fprIndex' = Lesser(FPR_SIZE, Count(i + 1, FpTypes))
    BY <1>7, <1>11, <1>14, <2>1 DEF Lesser
  <2> QED BY <1>1, <1>2, <1>3, <1>9, <2>1, <2>2, <2>3, DecodeStep DEF Accepts
<1>15. CASE ~(c < FPR_SIZE)
  <2>1. args' = Append(args, FromStack64) /\ fprIndex' = fprIndex
    BY <1>12, <1>15 DEF DecodeFp64, Decode
  <2>2. PlaceAt(i + 1) = OnStackAt(i + 1)
    BY <1>2, <1>5, <1>13, <1>15 DEF PlaceAt
  <2>3. fprIndex' = Lesser(FPR_SIZE, Count(i + 1, FpTypes))
    BY <1>7, <1>9, <1>11, <1>15, <2>1 DEF Lesser
  <2>4. Len(stack) = This + Params
    <3>1. ~(Params < 3)
      BY <1>2, <1>3, <1>5, <1>11, <1>15
    <3> QED BY <1>4, <3>1 DEF DecodeInv
  <2>5. FromStack64 \in Seq(Places) /\ Accepts(i + 1, FromStack64)
    BY <1>1, <1>2, <1>3, <1>9, <2>2, <2>4, StackRead
  <2> QED BY <1>1, <1>2, <1>9, <2>1, <2>3, <2>5, DecodeStep
<1> QED BY <1>14, <1>15

LEMMA Core64Step == ASSUME ArgsInv, DecodeCore64 PROVE ArgsInv'
<1>1. PICK i \in Nat : i = Len(args)
  BY DEF ArgsInv
<1>2. /\ pc = "decode" /\ i < Params /\ Same /\ ~IsFp(types[i + 1])
      /\ doubleIndex' = doubleIndex /\ stackIndex' = stackIndex + 1 /\ fprIndex' = fprIndex
  BY <1>1 DEF DecodeCore64, Decoding, Type
<1>3. /\ This \in 0..1 /\ Params \in Nat /\ types[i + 1] \in Types
      /\ places[i + 1] = PlaceAt(i + 1) /\ PlaceAt(i + 1) \in Seq(Places)
  <2>1. i + 1 \in 1..Len(types) /\ static \in BOOLEAN /\ i + 1 \in Nat \ {0}
    BY <1>2 DEF Params, ArgsInv
  <2>2. PlaceAt(i + 1) \in Seq(Places)
    BY <2>1, PlaceAtType
  <2>3. This \in 0..1
    BY DEF This
  <2>4. types \in Seq(Types) /\ \A k \in 1..Len(types) : places[k] = PlaceAt(k)
    BY DEF ArgsInv
  <2>5. Params \in Nat /\ types[i + 1] \in Types
    <3> HIDE DEF Types
    <3> QED BY <2>1, <2>4, SMT DEF Params
  <2>6. places[i + 1] = PlaceAt(i + 1)
    BY <2>1, <2>4
  <2> QED BY <2>2, <2>3, <2>5, <2>6
<1>4. DecodeInv
  BY <1>2 DEF ArgsInv
<1>5. PICK c \in Nat : c = Count(i, CoreTypes) /\ c <= i
  BY CountBounds DEF Count
<1>6. PICK m \in Nat : m = Count(Params, CoreTypes)
  BY <1>3, CountBounds DEF Count
<1>7. Count(i + 1, CoreTypes) = c + 1 /\ Count(i + 1, FpTypes) = Count(i, FpTypes)
  <2>1. types[i + 1] \notin FpTypes /\ types[i + 1] \in CoreTypes
    BY <1>2, <1>3 DEF IsFp, FpTypes, CoreTypes
  <2>2. Count(i, FpTypes) \in Nat
    BY CountBounds DEF Count
  <2> QED BY <1>5, <2>1, <2>2, CountStep DEF Count
<1>8. c + 1 <= m
  <2>1. i + 1 <= Params /\ i + 1 \in Nat
    BY <1>2, <1>3
  <2>2. Count(i + 1, CoreTypes) <= Count(Params, CoreTypes)
    BY <1>3, <2>1, CountMonotone DEF Count
  <2> QED BY <1>6, <1>7, <2>2
<1>9. crIndex = Lesser(CR_SIZE, This + c) /\ stackIndex = This + i
      /\ fprIndex' = Lesser(FPR_SIZE, Count(i + 1, FpTypes))
  BY <1>1, <1>2, <1>4, <1>5, <1>7 DEF DecodeInv
<1>10. CrLength = Lesser(CR_SIZE, This + m)
  BY <1>6 DEF CrLength, CrLength64, Arm64, ArgsInv
<1>11. CR_SIZE \in Nat /\ CR_SIZE >= 3
  BY AbiAssumption
<1>12. crIndex < CrLength <=> This + c < CR_SIZE
  BY <1>3, <1>5, <1>6, <1>8, <1>9, <1>10, <1>11 DEF Lesser
<1>13. (i + 1) - 1 = i
  OBVIOUS
<1>14. CASE This + c < CR_SIZE
  <2>1. args' = Append(args, FromCore64(This + c)) /\ crIndex' = This + c + 1
    BY <1>3, <1>5, <1>9, <1>11, <1>12, <1>14 DEF DecodeCore64, Decode, Lesser
  <2>2. PlaceAt(i + 1) = <<Core(This + c)>>
    BY <1>2, <1>5, <1>13, <1>14 DEF PlaceAt
  <2>3. crIndex' = Lesser(CR_SIZE, This + Count(i + 1, CoreTypes))
    BY <1>3, <1>7, <1>11, <1>14, <2>1 DEF Lesser
  <2>4. /\ FromCore64(This + c) \in Seq(Places)
        /\ Accepts(i + 1, FromCore64(This + c))
    <3>1. CASE This + c >= 3 /\ abi = "arm64 M" /\ This + c >= BridgeParams
      <4>1. ~static
        <5>1. BridgeParams >= Params /\ BridgeParams \in Nat
          BY <1>3 DEF BridgeParams, Greater
        <5>2. This = 1
          <6>1. PICK b \in Nat : b = BridgeParams
            BY <5>1
          <6>2. i < Params /\ Params <= b /\ b <= This + c /\ c <= i
            BY <1>2, <1>5, <3>1, <5>1, <6>1
          <6>3. This # 0
            BY <1>3, <1>5, <6>1, <6>2
          <6> QED BY <1>3, <6>3
        <5> QED BY <5>2 DEF This
      <4>2. FromCore64(This + c) = <<Zero>> /\ <<Zero>> \in Seq(Places)
        <5>1. FromCore64(This + c) = <<Zero>>
          BY <3>1 DEF FromCore64
        <5>2. Zero \in Places
          BY DEF Zero, Places
        <5> QED BY <5>1, <5>2
      <4> QED BY <3>1, <4>1, <4>2 DEF Accepts
    <3>2. CASE ~(This + c >= 3 /\ abi = "arm64 M" /\ This + c >= BridgeParams)
      <4>1. FromCore64(This + c) = <<Core(This + c)>>
        BY <3>2 DEF FromCore64
      <4> QED BY <1>3, <2>2, <4>1 DEF Accepts
    <3> QED BY <3>1, <3>2
  <2> QED BY <1>1, <1>2, <1>9, <2>1, <2>3, <2>4, DecodeStep
<1>15. CASE ~(This + c < CR_SIZE)
  <2>1. args' = Append(args, FromStack64) /\ crIndex' = crIndex
    BY <1>12, <1>15 DEF DecodeCore64, Decode
  <2>2. PlaceAt(i + 1) = OnStackAt(i + 1)
    BY <1>2, <1>5, <1>13, <1>15 DEF PlaceAt
  <2>3. crIndex' = Lesser(CR_SIZE, This + Count(i + 1, CoreTypes))
    BY <1>3, <1>7, <1>9, <1>11, <1>15, <2>1 DEF Lesser
  <2>4. Len(stack) = This + Params
    <3>1. ~(Params < 3)
      BY <1>2, <1>3, <1>5, <1>11, <1>15
    <3> QED BY <1>4, <3>1 DEF DecodeInv
  <2>5. FromStack64 \in Seq(Places) /\ Accepts(i + 1, FromStack64)
    BY <1>1, <1>2, <1>3, <1>9, <2>2, <2>4, StackRead
  <2> QED BY <1>1, <1>2, <1>9, <2>1, <2>3, <2>5, DecodeStep
<1> QED BY <1>14, <1>15

LEMMA NextStep == ASSUME ArgsInv, [ArgsNext]_argsVars PROVE ArgsInv'
<1>1. abi \in {"arm64", "arm64 M"} /\ Arm64
  BY DEF ArgsInv, Arm64, Arm64Abis
<1>2. ~ReadWords
  BY <1>1 DEF ReadWords
<1>3. ~DecodeDouble32 /\ ~DecodeFloat32 /\ ~DecodeLong32 /\ ~DecodeWord32 /\ ~DecodeX86
  BY <1>1 DEF DecodeDouble32, DecodeFloat32, DecodeLong32, DecodeWord32, DecodeX86,
              Arm32, Arm32Abis
<1>4. CASE HandleCall
  BY <1>4, StutterStep DEF HandleCall
<1>5. CASE Done
  BY <1>5, StutterStep DEF Done, argsVars
<1>6. CASE UNCHANGED argsVars
  BY <1>6, StutterStep DEF argsVars
<1> QED BY <1>2, <1>3, <1>4, <1>5, <1>6, PassStep, CallStep, ReadStep, Fp64Step, Core64Step
        DEF ArgsNext

\* What the invariant says of the indices is what the arrays allow.
LEMMA InvType == ASSUME ArgsInv PROVE ArgsTypeOK
<1>1. PICK i \in Nat : i = Len(args)
  BY DEF ArgsInv
<1>2. This \in 0..1 /\ Arm64
  BY DEF This, ArgsInv, Arm64
<1>3. Count(i, CoreTypes) \in Nat /\ Count(i, FpTypes) \in Nat
  BY CountBounds DEF Count
<1>4. /\ CR_SIZE \in Nat /\ FPR_SIZE \in Nat
  BY AbiAssumption
<1>5. crIndex \in 0..CR_SIZE /\ fprIndex \in 0..FPR_SIZE /\ stackIndex \in Nat
  <2>1. CASE pc \in {"pass", "read"}
    BY <1>4, <2>1 DEF ArgsInv
  <2>2. CASE pc \in {"decode", "done"}
    <3>1. DecodeInv
      BY <2>2 DEF ArgsInv
    <3>2. crIndex = Lesser(CR_SIZE, This + Count(i, CoreTypes)) /\ stackIndex = This + i
      BY <1>1, <3>1 DEF DecodeInv
    <3>3. fprIndex = Lesser(FPR_SIZE, Count(i, FpTypes))
      BY <1>1, <3>1 DEF DecodeInv
    <3>4. crIndex \in 0..CR_SIZE /\ stackIndex \in Nat
      BY <1>1, <1>2, <1>3, <1>4, <3>2 DEF Lesser
    <3>5. fprIndex \in 0..FPR_SIZE
      BY <1>3, <1>4, <3>3 DEF Lesser
    <3> QED BY <3>4, <3>5
  <2> QED BY <2>1, <2>2 DEF ArgsInv
<1>6. at \in Nat
  <2>1. PICK l \in Nat : l = Len(stack)
    BY DEF ArgsInv
  <2>2. at = EntryAt(l + 1)
    BY <2>1 DEF ArgsInv
  <2>3. Count((l + 1) - 1 - This, WideTypes) \in Nat
    BY <1>2, CountBounds DEF Count
  <2> QED BY <1>2, <2>2, <2>3 DEF EntryAt
<1> QED BY <1>2, <1>4, <1>5, <1>6 DEF ArgsInv, ArgsTypeOK, CoreSize

\* On arm64 the indices count what has been decoded, in every state.
THEOREM IndicesCount == ASSUME Abis \subseteq Arm64Abis PROVE ArgsSpec => []ArgsInv
<1>1. ArgsInit => ArgsInv
  BY InitArgs
<1>2. ArgsInv /\ [ArgsNext]_argsVars => ArgsInv'
  BY NextStep
<1> QED BY <1>1, <1>2, PTL DEF ArgsSpec

\* The indices of the bridge of arm64 stay inside the arrays they index,
\* whatever the numbers of registers and of parameters.
THEOREM IndicesInArrays == ASSUME Abis \subseteq Arm64Abis PROVE ArgsSpec => []ArgsTypeOK
<1>1. ArgsInv => ArgsTypeOK
  BY InvType
<1> QED BY <1>1, IndicesCount, PTL

\* handleBridge of arm64 decodes every argument from where the caller has put
\* it, but for the two cases that ArgsAreThePassed names.
THEOREM ArgumentsArrive == ASSUME Abis \subseteq Arm64Abis PROVE ArgsSpec => []ArgsAreThePassed
<1>1. ArgsInv => ArgsAreThePassed
  BY DEF ArgsInv
<1> QED BY <1>1, IndicesCount, PTL
=============================================================================
