----------------------------- MODULE MCSoftTpm ------------------------------
(* A small software TPM: see MCSoftTpm.cfg. *)
EXTENDS SoftTpm, TLC

MCGuests == {{"random", "session"}, {"nv"}, {"pcr"}, {"session", "key"}}

ValueSymmetry == Permutations(Digests) \cup Permutations(Values)
=============================================================================
