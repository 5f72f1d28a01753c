------------------------------- MODULE SoInfo -------------------------------
(***************************************************************************)
(* libcheckvpn in a process with the other libraries that look symbols up. *)
(* JNI_OnLoad runs text() on the loading thread, and each net_us starts a  *)
(* thread with another one when it is through.                             *)
(***************************************************************************)
EXTENDS SoList, IfAddrs

soInfoVars == <<elfVars, soVars, netVars>>

SoInfoInit == ElfInit /\ SoInit /\ NetInit

\* The thread that is started next; the first one is that of JNI_OnLoad.
Unstarted == {k \in DOMAIN Walkers : walk[Walkers[k]] = "none"}
NextWalker == Walkers[Min(Unstarted)]
Loaded == walk[Walkers[1]] = "done"

JNI_OnLoadCheckvpn ==
  /\ StartText(Walkers[1])
  /\ UNCHANGED <<elfVars, netVars>>

NetUs ==
  /\ Loaded /\ ~crashed
  /\ \/ Unstarted # {} /\ SendRequest
     \/ ReadAnswer
  /\ UNCHANGED <<soVars, elfVars>>

\* pthread_create, whether there were answers or not.
EndNetUs ==
  /\ ~crashed /\ EndResponses
  /\ StartText(NextWalker)
  /\ UNCHANGED elfVars

Text(t) == TextStep(t) /\ UNCHANGED netVars

Linked ==
  /\ OtherLibraries
  /\ UNCHANGED <<elfVars, netVars>>

OtherClients ==
  /\ ~crashed
  /\ \/ \E c \in Copies \ {"checkvpn"}, s \in Symbols : Resolve(c, s)
     \/ \E s \in Symbols : GetSymbolAddress(s)
     \/ \E p \in Paths : ForeignMap(p)
  /\ UNCHANGED <<soVars, netVars>>

\* ElfImg does not look at what lseek and mmap return.
OpenUnmapped ==
  /\ ~crashed /\ Wanted["pine"] # {}
  /\ Crash
  /\ UNCHANGED <<elfVars, netVars, solist, opened, shared, walk, cur, result, alone, whole>>

SoInfoNext ==
  \/ JNI_OnLoadCheckvpn \/ NetUs \/ EndNetUs \/ Linked \/ OtherClients \/ OpenUnmapped
  \/ \E t \in Threads : Text(t)

SoInfoSpec == SoInfoInit /\ [][SoInfoNext]_soInfoVars
=============================================================================
