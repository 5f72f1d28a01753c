----------------------------- MODULE CallOutcome -----------------------------
(***************************************************************************)
(* What the chain of callbacks promises: each callback takes its part in   *)
(* the call as a transaction.  It settles an outcome or leaves the one it  *)
(* found; a callback that throws leaves the one it found.  The callbacks   *)
(* whose turn came before the outcome was settled get their second turn in *)
(* reverse order.                                                          *)
(***************************************************************************)
EXTENDS Naturals

CONSTANTS N,           \* number of callbacks of the call
          Results, Null, Throwables, NoThrowable

Blank == [result |-> Null, throwable |-> NoThrowable]

\* A result or an exception, never both.
Outcomes == [result : Results \union {Null}, throwable : {NoThrowable}]
              \union [result : {Null}, throwable : Throwables]

VARIABLES stage, at, outcome,
          failed    \* the turns that ended with an exception of the callback

Init == stage = "before" /\ at = 0 /\ outcome = Blank /\ failed = {}

Fails == failed' = failed \union {[stage |-> stage, at |-> at]}

\* The callback settles nothing: the next one has its turn, or the original.
BeforePasses ==
  /\ stage = "before"
  /\ UNCHANGED failed \/ Fails
  /\ at' = at + 1
  /\ stage' = IF at + 1 = N THEN "original" ELSE "before"
  /\ UNCHANGED outcome

BeforeSettles ==
  /\ stage = "before"
  /\ outcome' \in Outcomes
  /\ stage' = "after"
  /\ UNCHANGED <<at, failed>>

Original ==
  /\ stage = "original"
  /\ \/ outcome' \in Outcomes /\ stage' = "after" /\ at' = N - 1
     \/ UNCHANGED <<outcome, at>> /\ stage' = "rejected"
  /\ UNCHANGED failed

After ==
  /\ stage = "after"
  /\ \/ outcome' \in Outcomes /\ UNCHANGED failed
     \/ Fails /\ UNCHANGED outcome
  /\ IF at = 0 THEN stage' = "ended" /\ at' = at
               ELSE stage' = "after" /\ at' = at - 1

Next == BeforePasses \/ BeforeSettles \/ Original \/ After

Spec == Init /\ [][Next]_<<stage, at, outcome, failed>>
=============================================================================
