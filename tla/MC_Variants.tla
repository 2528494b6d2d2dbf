---------------------------- MODULE MC_Variants ----------------------------
(* Two requests for two variants of one resource; requests and the values  *)
(* they send are interchangeable.                                          *)
EXTENDS Variants, TLC

Symmetry == Permutations(Requests) \union Permutations(Values)
=============================================================================
