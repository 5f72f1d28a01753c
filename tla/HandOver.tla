------------------------------ MODULE HandOver ------------------------------
(***************************************************************************)
(* What the bridge promises a hooked call: the handler that runs for it    *)
(* receives, in one indivisible step, the argument registers of that call  *)
(* and of no other.                                                        *)
(***************************************************************************)
CONSTANTS Threads, Args, NoArgs

VARIABLES passed,    \* the argument registers of the call a thread is in
          received   \* the copy its bridge handler decodes

Init ==
  /\ passed = [t \in Threads |-> NoArgs]
  /\ received = [t \in Threads |-> NoArgs]

Begin(t) ==
  /\ passed[t] = NoArgs
  /\ \E a \in Args : passed' = [passed EXCEPT ![t] = a]
  /\ UNCHANGED received

Receive(t) ==
  /\ passed[t] # NoArgs /\ received[t] = NoArgs
  /\ received' = [received EXCEPT ![t] = passed[t]]
  /\ UNCHANGED passed

End(t) ==
  /\ received[t] # NoArgs
  /\ passed' = [passed EXCEPT ![t] = NoArgs]
  /\ received' = [received EXCEPT ![t] = NoArgs]

Next == \E t \in Threads : Begin(t) \/ Receive(t) \/ End(t)

Spec == Init /\ [][Next]_<<passed, received>>
=============================================================================
