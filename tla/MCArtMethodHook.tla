--------------------------- MODULE MCArtMethodHook ---------------------------
(* The callers of a backup, the places of a class and the functions of a      *)
(* native method are interchangeable: nothing in the module tells them apart. *)
EXTENDS ArtMethodHook, TLC

MCSymmetry == Permutations(Callers) \union Permutations(Classes) \union Permutations(Impls)
=============================================================================
