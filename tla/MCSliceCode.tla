---------------------------- MODULE MCSliceCode -----------------------------
(* SliceCode with a few pages and two slices per round.                     *)
EXTENDS SliceCode, TLC

Perms == Permutations(Pages) \cup Permutations(Slices)
=============================================================================
