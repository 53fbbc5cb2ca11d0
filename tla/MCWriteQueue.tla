---------------------------- MODULE MCWriteQueue -----------------------------
(***************************************************************************)
(* WriteQueue for TLC: nothing tells one property, or one value, from      *)
(* another.                                                                *)
(***************************************************************************)
EXTENDS WriteQueue, TLC

Symmetry == Permutations(Keys) \cup Permutations(Values)

=============================================================================
