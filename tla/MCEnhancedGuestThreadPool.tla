--------------------- MODULE MCEnhancedGuestThreadPool ----------------------
(* EnhancedGuestThreadPool with two workers, a bounded clock and a completed *)
(* queue that can fill up.                                                   *)
EXTENDS EnhancedGuestThreadPool

(* The workers run the same code, and so do the consumers. *)
PoolSymmetry == Permutations(Workers) \cup Permutations(Consumers)
=============================================================================
