--------------------------- MODULE DurableDevice ----------------------------
(***************************************************************************)
(* What a device with persistent state promises its caller, and nothing    *)
(* about how.  It answers from cur.  kept are the states that the next     *)
(* restart may bring back: an acknowledgement narrows them down to the     *)
(* state that was acknowledged, a save that nobody was told of only adds   *)
(* one.  durable are the states that may come back when the power is lost: *)
(* always states that were saved, whole, and Blank before the first.       *)
(***************************************************************************)
CONSTANTS
  Blank,                    \* nothing was saved yet
  IsFresh(_)                \* the states of a device that was never saved

VARIABLES cur, kept, durable

vars == <<cur, kept, durable>>

Init ==
  /\ IsFresh(cur)
  /\ kept = {Blank}
  /\ durable = {Blank}

(* A command changes what the device answers from. *)
Work == UNCHANGED <<kept, durable>>

Save ==
  /\ kept' = kept \cup {cur}
  /\ cur \in durable' /\ durable' \subseteq durable \cup {cur}
  /\ UNCHANGED cur

(* The caller hears that a saving command succeeded. *)
Acknowledge ==
  /\ cur \in kept
  /\ kept' = {cur}
  /\ UNCHANGED <<cur, durable>>

(* Older states stop being candidates. *)
Settle ==
  /\ durable' # {} /\ durable' \subseteq durable
  /\ UNCHANGED <<cur, kept>>

Reopen(k) ==
  /\ IF k = Blank THEN IsFresh(cur') ELSE cur' = k
  /\ kept' = {k}

Restart == (\E k \in kept : Reopen(k)) /\ UNCHANGED durable

PowerLoss == \E k \in durable : Reopen(k) /\ durable' = {k}

Next == Work \/ Save \/ Acknowledge \/ Settle \/ Restart \/ PowerLoss

Spec == Init /\ [][Next]_vars
=============================================================================
