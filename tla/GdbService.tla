----------------------------- MODULE GdbService -----------------------------
(***************************************************************************)
(* What the stub promises a debugger: the requests of an answered kind are *)
(* answered in the order in which they were sent, each at most once and    *)
(* with one of the texts that its kind allows; the silent kinds are never  *)
(* answered; and the stub may end at any time.                             *)
(***************************************************************************)
EXTENDS Naturals, Sequences

CONSTANTS Kinds,          \* the kinds of requests a debugger sends
          Texts(_)        \* the texts that answer a kind: {} for a silent one

VARIABLES asked,          \* the kinds of the requests sent, in order
          answered,       \* the answers: [id, text] in order
          up

vars == <<asked, answered, up>>

LastAnswered == IF answered = <<>> THEN 0 ELSE answered[Len(answered)].id

Init == asked = <<>> /\ answered = <<>> /\ up = TRUE

Submit == \E k \in Kinds : asked' = Append(asked, k) /\ UNCHANGED <<answered, up>>

Answer ==
  /\ up
  /\ \E id \in (LastAnswered + 1)..Len(asked) :
       /\ \A skipped \in (LastAnswered + 1)..(id - 1) : Texts(asked[skipped]) = {}
       /\ \E text \in Texts(asked[id]) :
            answered' = Append(answered, [id |-> id, text |-> text])
  /\ UNCHANGED <<asked, up>>

End == up' = FALSE /\ UNCHANGED <<asked, answered>>

Next == Submit \/ Answer \/ End

Spec == Init /\ [][Next]_vars
=============================================================================
