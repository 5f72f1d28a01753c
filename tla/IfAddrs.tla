------------------------------- MODULE IfAddrs ------------------------------
(***************************************************************************)
(* net_us of checkvpn.cpp: it asks the kernel for all addresses over a     *)
(* netlink socket, makes an ifaddrs entry of each answer and starts a      *)
(* thread that runs text().  An answer is the set of its attributes, which *)
(* may come in any order.                                                  *)
(***************************************************************************)
EXTENDS Integers, Sequences, FiniteSets, SequencesExt

CONSTANTS Interfaces,   \* interface indices
          Own, Other,   \* the local address and the peer's
          Broadcast,    \* the broadcast address
          None          \* a null pointer

ASSUME AddressAssumption == Own # Other /\ None \notin {Own, Other, Broadcast}

\* Attributes of RTM_NEWADDR by family: IPv4 always has IFA_LOCAL, IPv6 only
\* when there is a peer (external: inet_fill_ifaddr, inet6_fill_ifaddr).
Attribute(type, address) == [type |-> type, address |-> address]
Answers ==
  {{Attribute("ADDRESS", a), Attribute("LOCAL", Own)} : a \in {Own, Other}}
  \union {{Attribute("ADDRESS", a), Attribute("LOCAL", Own), Attribute("BROADCAST", Broadcast)}
           : a \in {Own, Other}}
  \union {{Attribute("ADDRESS", Own)}}

Has(answer, type) == \E r \in answer : r.type = type
ValueOf(answer, type) == (CHOOSE r \in answer : r.type = type).address
HasPeer(answer) == ValueOf(answer, "ADDRESS") = Other

VARIABLES net,          \* whether net_us is reading answers
          known,        \* the broadcast flag of the newest entry of each interface
          entry,        \* the last entry made
          of            \* the answer that it was made of

netVars == <<net, known, entry, of>>

Blank == [addr |-> None, ifu |-> None, broadcast |-> FALSE]

NetInit ==
  /\ net = "idle" /\ known = [i \in Interfaces |-> None]
  /\ entry = Blank /\ of = {}

-----------------------------------------------------------------------------
(* ifaddrs_storage.  The broadcast and the destination address share a field. *)
SetBroadcastAddress(e, a) == [e EXCEPT !.ifu = a]

\* The first is the local address for now; after an IFA_LOCAL it is the peer.
SetAddress(e, a) == IF e.addr = None THEN [e EXCEPT !.addr = a] ELSE [e EXCEPT !.ifu = a]

\* Fault: the address before is lost.
SetLocalOnly(e, a) == [e EXCEPT !.addr = a]

\* What was taken for the local address becomes the destination.
SetLocalAddress(e, a) ==
  IF e.addr = None THEN [e EXCEPT !.addr = a] ELSE [e EXCEPT !.addr = a, !.ifu = e.addr]

\* __getifaddrs_callback.  The broadcast flag is set when no entry of the
\* interface is known, and else copied from the entry.
SetAttribute(i, e, r) ==
  CASE r.type = "ADDRESS" -> SetAddress(e, r.address)
    [] r.type = "LOCAL" -> SetLocalAddress(e, r.address)
    [] r.type = "BROADCAST" ->
         [SetBroadcastAddress(e, r.address) EXCEPT !.broadcast = e.broadcast \/ known[i] = None]

NewEntry(i, order) ==
  LET made[k \in 0 .. Len(order)] ==
        IF k = 0 THEN [Blank EXCEPT !.broadcast = known[i] # None /\ known[i]]
        ELSE SetAttribute(i, made[k - 1], order[k])
  IN  made[Len(order)]

-----------------------------------------------------------------------------
\* SendRequest: the socket of the last call is still open.
SendRequest ==
  /\ net = "idle"
  /\ net' = "reading" /\ known' = [i \in Interfaces |-> None]
  /\ UNCHANGED <<entry, of>>

ReadAnswer ==
  /\ net = "reading"
  /\ \E i \in Interfaces, answer \in Answers :
       \E order \in SetToSeqs(answer) :
         /\ entry' = NewEntry(i, order)
         /\ known' = [known EXCEPT ![i] = entry'.broadcast]
         /\ of' = answer
  /\ UNCHANGED net

\* NLMSG_DONE, an NLMSG_ERROR, or a send or recv that fails: the list is
\* printed and leaked, or freed.
EndResponses ==
  /\ net = "reading" /\ net' = "idle"
  /\ known' = [i \in Interfaces |-> None] /\ entry' = Blank /\ of' = {}
-----------------------------------------------------------------------------
\* In whatever order the attributes come, the address of an entry is the local
\* one, and its other address is the peer when there is one and no broadcast
\* (checkvpn.cpp:225-235, 245-255).
LocalIsOwn ==
  of # {} =>
    /\ entry.addr = Own
    /\ HasPeer(of) /\ ~Has(of, "BROADCAST") => entry.ifu = Other
=============================================================================
