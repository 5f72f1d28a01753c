------------------------------ MODULE CallChain ------------------------------
(***************************************************************************)
(* One intercepted call after its snapshot of callbacks was taken: the two *)
(* loops of Pine.handleCall with the CallFrame they share.                 *)
(*                                                                         *)
(* A callback is arbitrary code.  It may use the setters of the CallFrame, *)
(* up to MaxOps times a turn, and then returns or throws.  Indices are the *)
(* code's: beforeIdx and afterIdx count from 0.                            *)
(***************************************************************************)
EXTENDS Integers

CONSTANTS
  N,              \* callbacks.length
  Results, Null, Throwables, NoThrowable,
  MaxOps          \* bound: setters a callback uses in one turn

ASSUME NAssumption == N \in Nat \ {0}
ASSUME ThrowableAssumption == NoThrowable \notin Throwables
ASSUME MaxOpsAssumption == MaxOps \in Nat

VARIABLES
  replacements,\* indices of the callbacks that are Methodreplacements
  stage,       \* the callbacks before, the original, the callbacks after, the end
  beforeIdx, afterIdx,
  frame,       \* CallFrame: result, throwable, returnEarly
  last,        \* lastResult and lastThrowable of the current after callback
  ops,         \* setters used in this turn
  failed       \* history: turns that ended with an exception of the callback

vars == <<replacements, stage, beforeIdx, afterIdx, frame, last, ops, failed>>

MaybeResult == Results \union {Null}
MaybeThrowable == Throwables \union {NoThrowable}
Frames == [result : MaybeResult, throwable : MaybeThrowable, returnEarly : BOOLEAN]
Outcomes == [result : MaybeResult, throwable : {NoThrowable}]
              \union [result : {Null}, throwable : Throwables]
Turns == [stage : {"before", "after"}, at : 0 .. N - 1]

BlankFrame == [result |-> Null, throwable |-> NoThrowable, returnEarly |-> FALSE]
OutcomeOf(f) == [result |-> f.result, throwable |-> f.throwable]

Init ==
  /\ replacements \in SUBSET (0 .. N - 1)
  /\ stage = "before"
  /\ beforeIdx = 0
  /\ afterIdx = 0
  /\ frame = BlankFrame
  /\ last = OutcomeOf(BlankFrame)
  /\ ops = 0
  /\ failed = {}

-----------------------------------------------------------------------------
(* CallFrame *)

SetResult(f, v) == [result |-> v, throwable |-> NoThrowable, returnEarly |-> TRUE]

SetResultIfNoException(f, v) ==
  IF f.throwable = NoThrowable THEN [f EXCEPT !.result = v, !.returnEarly = TRUE] ELSE f

SetThrowable(f, e) == [result |-> Null, throwable |-> e, returnEarly |-> TRUE]

ResetResult(f) == BlankFrame

\* A callback may set null, as result and as exception.
UseFrame ==
  /\ stage \in {"before", "after"} /\ ops < MaxOps
  /\ stage = "after" => afterIdx \notin replacements
  /\ ops' = ops + 1
  /\ \/ \E v \in MaybeResult : frame' = SetResult(frame, v)
     \/ \E v \in MaybeResult : frame' = SetResultIfNoException(frame, v)
     \/ \E e \in MaybeThrowable : frame' = SetThrowable(frame, e)
     \/ frame' = ResetResult(frame)
  /\ UNCHANGED <<replacements, stage, beforeIdx, afterIdx, last, failed>>

-----------------------------------------------------------------------------
(* The loop over the callbacks before *)

Fails == failed' = failed \union
  {[stage |-> stage, at |-> IF stage = "before" THEN beforeIdx ELSE afterIdx]}

\* Fault: afterIdx starts at beforeIdx.
StartAfterTooHigh(f, n) ==
  /\ stage' = "after"
  /\ frame' = f
  /\ beforeIdx' = n
  /\ afterIdx' = n
  /\ last' = OutcomeOf(f)

\* The second loop begins, with frame f, when n callbacks had their first turn.
StartAfter(f, n) ==
  /\ stage' = "after"
  /\ frame' = f
  /\ beforeIdx' = n
  /\ afterIdx' = n - 1
  /\ last' = OutcomeOf(f)

\* The condition of the loop: ++beforeIdx < callbacks.length.
NextBefore(f) ==
  /\ beforeIdx' = beforeIdx + 1
  /\ stage' = IF beforeIdx + 1 < N THEN "before" ELSE "original"
  /\ frame' = f
  /\ UNCHANGED <<afterIdx, last>>

\* The callback returned with frame f.
EndBefore(f) ==
  IF f.returnEarly THEN StartAfter(f, beforeIdx + 1) ELSE NextBefore(f)

BeforeReturns ==
  /\ stage = "before" /\ beforeIdx \notin replacements
  /\ EndBefore(frame)
  /\ ops' = 0
  /\ UNCHANGED <<replacements, failed>>

\* Fault: what the callback did is kept.
BeforeThrowsKeeping ==
  /\ stage = "before" /\ beforeIdx \notin replacements
  /\ NextBefore(frame)
  /\ Fails
  /\ UNCHANGED replacements
  /\ ops' = 0

BeforeThrows ==
  /\ stage = "before" /\ beforeIdx \notin replacements
  /\ NextBefore(ResetResult(frame))
  /\ Fails
  /\ UNCHANGED replacements
  /\ ops' = 0

\* MethodReplacement.beforeCall: what replaceCall returns or throws is set.
ReplaceCall ==
  /\ stage = "before" /\ beforeIdx \in replacements
  /\ \/ \E v \in MaybeResult : EndBefore(SetResult(frame, v))
     \/ \E e \in Throwables : EndBefore(SetThrowable(frame, e))
  /\ ops' = 0
  /\ UNCHANGED <<replacements, failed>>

-----------------------------------------------------------------------------
(* The original and the loop over the callbacks after *)

OriginalReturns ==
  /\ stage = "original"
  /\ \E v \in MaybeResult : StartAfter(SetResult(frame, v), beforeIdx)
  /\ UNCHANGED <<replacements, ops, failed>>

OriginalThrows ==
  /\ stage = "original"
  /\ \E e \in Throwables : StartAfter(SetThrowable(frame, e), beforeIdx)
  /\ UNCHANGED <<replacements, ops, failed>>

\* Reflection rejects the receiver or the arguments that a callback put into the
\* frame: only InvocationTargetException is caught, the exception leaves handleCall.
OriginalRejected ==
  /\ stage = "original"
  /\ stage' = "rejected"
  /\ UNCHANGED <<replacements, beforeIdx, afterIdx, frame, last, ops, failed>>

\* The condition of the loop: --afterIdx >= 0.
EndAfter(f) ==
  /\ afterIdx' = afterIdx - 1
  /\ frame' = f
  /\ IF afterIdx - 1 >= 0
       THEN UNCHANGED stage /\ last' = OutcomeOf(f)
       ELSE stage' = "ended" /\ UNCHANGED last
  /\ ops' = 0
  /\ UNCHANGED beforeIdx

AfterReturns ==
  /\ stage = "after"
  /\ EndAfter(frame)
  /\ UNCHANGED <<replacements, failed>>

\* Fault: only the result is restored.
RestoreResult == SetResult(frame, last.result)

Restore ==
  IF last.throwable = NoThrowable THEN SetResult(frame, last.result)
                                  ELSE SetThrowable(frame, last.throwable)

AfterThrows ==
  /\ stage = "after" /\ afterIdx \notin replacements
  /\ EndAfter(Restore)
  /\ Fails
  /\ UNCHANGED replacements

Next ==
  \/ UseFrame \/ BeforeReturns \/ BeforeThrows \/ ReplaceCall
  \/ OriginalReturns \/ OriginalThrows \/ OriginalRejected
  \/ AfterReturns \/ AfterThrows

Spec == Init /\ [][Next]_vars

-----------------------------------------------------------------------------
(* Properties *)

\* The loops stay within the array of callbacks.
InBounds ==
  /\ replacements \subseteq 0 .. N - 1
  /\ stage \in {"before", "original", "after", "ended", "rejected"}
  /\ beforeIdx \in 0 .. N
  /\ afterIdx \in -1 .. N - 1
  /\ stage = "before" => beforeIdx < N
  /\ stage = "after" => afterIdx >= 0
  /\ ops \in 0 .. MaxOps
  /\ failed \subseteq Turns

\* Every variable has its type, and the frame holds a result or an exception,
\* never both.
TypeOK ==
  /\ InBounds
  /\ frame \in Frames
  /\ OutcomeOf(frame) \in Outcomes
  /\ last \in Outcomes

\* "Throwing any exception in this method will cause the result or exception you
\* set gets reset": a callback before, and the original, find a frame that no
\* earlier callback has marked, however those ended.
FreshFrame ==
  (stage = "before" /\ ops = 0) \/ stage \in {"original", "rejected"} => frame = BlankFrame

\* MethodReplacement: "Use this will always prevent the original method call":
\* a call with a replacement among its callbacks never gets to the original.
ReplacementReplaces == replacements # {} => stage \notin {"original", "rejected"}

\* The callbacks take part as transactions: what a turn that throws did to the
\* frame is undone exactly, and the turns after mirror the turns before.
At == CASE stage = "after" -> afterIdx
        [] stage = "ended" -> 0
        [] OTHER           -> beforeIdx
Settled == CASE stage = "before" -> OutcomeOf(BlankFrame)
             [] stage = "after"  -> last
             [] OTHER            -> OutcomeOf(frame)

Atomic == INSTANCE CallOutcome WITH at <- At, outcome <- Settled

Transactional == Atomic!Spec
=============================================================================
