---------------------------- MODULE MCTrampolines ----------------------------
(* Where the code of the methods begins, for TLC: method 1 at the beginning   *)
(* of a page, 2 in its middle, 3 in its last DirectSize bytes, so that a jump *)
(* behind nops runs into the next page.                                       *)
EXTENDS Trampolines, TLC

MCCodeAt == (1 :> 320) @@ (2 :> 464) @@ (3 :> 640 - DirectSize)
=============================================================================
