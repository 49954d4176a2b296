--------------------------- MODULE PumpWakeProofs ---------------------------
(***************************************************************************)
(* NoLostPumpWake and NoLostCompletion of PumpWake for any publishers.  The *)
(* invariant follows the pass: work in a source the pass is done with       *)
(* belongs to a publisher that has not bumped the epoch yet, or the epoch   *)
(* has left the value the pass started from.                                *)
(***************************************************************************)
EXTENDS PumpWake, TLAPS

(* Labels at which the pump is past its look at a source. *)
PastReap == {"scan", "block", "asleepPump", "wokenPump"}
PastScan == {"block", "asleepPump", "wokenPump"}

(* The publisher will still bump the epoch. *)
WillBump(p) == pc[p] \in {"stored", "signalled"}

(* Work behind the pass is announced, or about to be. *)
Announced ==
    /\ pump \in PastReap => \A p \in ready[Completion] : WillBump(p) \/ epoch # observed
    /\ pump \in PastScan /\ cooperative =>
           \A p \in ready[Cooperative] : WillBump(p) \/ epoch # observed

(* The pump blocks on the epoch for cooperative waits only. *)
Branch == pump \in {"asleepPump", "wokenPump"} => cooperative

(* A pump asleep on an old epoch is about to be notified. *)
NotifyPending ==
    pump = "asleepPump" /\ epoch # observed => \E p \in Publishers : pc[p] = "bumped"

(* A pump asleep on the pool sleeps through no signalled completion. *)
PoolPending == pump = "asleepPool" => \A p \in ready[Completion] : p \in Workers /\ pc[p] = "stored"

(* The epoch never falls behind, and completions come from workers. *)
Behind == observed <= epoch

CompletionsOfWorkers == ready[Completion] \subseteq Workers

IInv == TypeOK /\ Announced /\ Branch /\ NotifyPending /\ PoolPending /\ Behind /\ CompletionsOfWorkers

(* Initially nothing is published. *)
LEMMA InitInv == Init => IInv
<1> SUFFICES ASSUME Init PROVE IInv
  OBVIOUS
<1>1. cooperative \in BOOLEAN BY DEF Init
<1>2. TypeOK BY <1>1, LimitAssumption DEF Init, TypeOK, PumpLabels, Publishers
<1> QED BY <1>2 DEF Init, IInv, Announced, PastReap, PastScan, Branch, NotifyPending, PoolPending,
         Behind, CompletionsOfWorkers, Sources, Completion, Cooperative

(* A publisher's steps. *)
LEMMA PublishInv ==
  ASSUME IInv, NEW q \in Publishers, Publish(q)
  PROVE  IInv'
<1> USE DEF IInv
<1>1. TypeOK' /\ Branch'
  <2>1. cooperative' = cooperative BY DEF Publish, Store, NotifyPool, Bump, NotifyPump
  <2>2. cooperative' \in BOOLEAN BY <2>1, Zenon DEF TypeOK
  <2>3. CASE Store(q)
    <3>1. count' \in [Publishers -> 0 .. Limit] BY <2>3, LimitAssumption DEF Store, TypeOK
    <3> QED BY <2>1, <2>2, <2>3, <3>1
            DEF Store, TypeOK, SourceOf, Sources, Branch, Completion, Cooperative
  <2>4. CASE NotifyPool(q) BY <2>1, <2>2, <2>4 DEF NotifyPool, TypeOK, PumpLabels, Branch
  <2>5. CASE Bump(q) BY <2>1, <2>2, <2>5 DEF Bump, TypeOK, Branch
  <2>6. CASE NotifyPump(q) BY <2>1, <2>2, <2>6 DEF NotifyPump, TypeOK, PumpLabels, Branch
  <2> QED BY <2>3, <2>4, <2>5, <2>6 DEF Publish
<1>2. pc \in [Publishers -> {"idle", "stored", "signalled", "bumped"}] /\ epoch \in Nat
      /\ observed \in Nat /\ ready \in [Sources -> SUBSET Publishers]
  BY DEF TypeOK
<1>3. CASE Store(q)
  <2>1. UNCHANGED <<epoch, pump, observed, cooperative>> /\ pc[q] = "idle"
        /\ pc' = [pc EXCEPT ![q] = "stored"]
        /\ ready' = [ready EXCEPT ![SourceOf(q)] = @ \cup {q}]
    BY <1>3 DEF Store
  <2>2. Announced' BY <1>2, <2>1
        DEF Announced, WillBump, SourceOf, Sources, Completion, Cooperative
  <2>3. NotifyPending' BY <1>2, <2>1 DEF NotifyPending
  <2>4. PoolPending' BY <1>2, <2>1 DEF PoolPending, SourceOf, Sources, Completion, Cooperative
  <2>5. Behind' BY <2>1 DEF Behind
  <2>6. CompletionsOfWorkers'
    BY <1>2, <2>1 DEF CompletionsOfWorkers, SourceOf, Sources, Completion, Cooperative
  <2> QED BY <1>1, <2>2, <2>3, <2>4, <2>5, <2>6
<1>4. CASE NotifyPool(q)
  <2>1. UNCHANGED <<epoch, ready, observed, cooperative>> /\ pc[q] = "stored"
        /\ pc' = [pc EXCEPT ![q] = "signalled"]
        /\ pump' = IF pump = "asleepPool" THEN "wokenPool" ELSE pump
    BY <1>4 DEF NotifyPool
  <2>2. Announced' BY <1>2, <2>1 DEF Announced, WillBump, PastReap, PastScan
  <2>3. NotifyPending' BY <1>2, <2>1 DEF NotifyPending
  <2>4. PoolPending' BY <2>1 DEF PoolPending
  <2> QED BY <1>1, <2>1, <2>2, <2>3, <2>4 DEF Behind, CompletionsOfWorkers
<1>5. CASE Bump(q)
  <2>1. UNCHANGED <<ready, pump, observed, cooperative>> /\ epoch' = epoch + 1
        /\ pc[q] \in {"stored", "signalled"} /\ (q \in Workers => pc[q] = "signalled")
        /\ pc' = [pc EXCEPT ![q] = "bumped"]
    BY <1>5 DEF Bump
  <2>2. epoch' # observed' BY <1>2, <2>1 DEF Behind
  <2>3. Announced' BY <2>2 DEF Announced
  <2>4. NotifyPending' BY <1>2, <2>1 DEF NotifyPending
  <2>5. PoolPending' BY <1>2, <2>1 DEF PoolPending
  <2>6. Behind' BY <1>2, <2>1 DEF Behind
  <2> QED BY <1>1, <2>1, <2>3, <2>4, <2>5, <2>6 DEF CompletionsOfWorkers
<1>6. CASE NotifyPump(q)
  <2>1. UNCHANGED <<epoch, ready, observed, cooperative>> /\ pc[q] = "bumped"
        /\ pc' = [pc EXCEPT ![q] = "idle"]
        /\ pump' = IF pump = "asleepPump" THEN "wokenPump" ELSE pump
    BY <1>6 DEF NotifyPump
  <2>2. Announced' BY <1>2, <2>1 DEF Announced, WillBump, PastReap, PastScan
  <2>3. NotifyPending' BY <2>1 DEF NotifyPending
  <2>4. PoolPending' BY <1>2, <2>1 DEF PoolPending
  <2> QED BY <1>1, <2>1, <2>2, <2>3, <2>4 DEF Behind, CompletionsOfWorkers
<1> QED BY <1>3, <1>4, <1>5, <1>6 DEF Publish

(* The steps of the pump's pass that may run guest code. *)
LEMMA PassInv ==
  ASSUME IInv, Observe \/ Reap \/ Scan
  PROVE  IInv'
<1> USE DEF IInv
<1>1. epoch \in Nat /\ observed \in Nat /\ ready \in [Sources -> SUBSET Publishers]
      /\ pc \in [Publishers -> {"idle", "stored", "signalled", "bumped"}]
      /\ count \in [Publishers -> 0 .. Limit]
  BY DEF TypeOK
<1>2. cooperative \in BOOLEAN BY DEF TypeOK
<1>3. CASE Observe
  <2>1. pump' = "reap" /\ observed' = epoch /\ UNCHANGED <<epoch, ready, pc, count, cooperative>>
    BY <1>3 DEF Observe
  <2>2. cooperative' \in BOOLEAN BY <1>2, <2>1, Zenon
  <2>3. TypeOK' BY <1>1, <2>1, <2>2 DEF TypeOK, PumpLabels
  <2> QED BY <1>1, <2>1, <2>3 DEF Announced, PastReap, PastScan, Branch, NotifyPending, PoolPending,
          Behind, CompletionsOfWorkers
<1>4. CASE Reap
  <2>1. PICK applied \in SUBSET ready[Completion] :
           /\ ready' = [ready EXCEPT ![Completion] = {}, ![Cooperative] = @ \cup applied]
           /\ IF applied # {}
              THEN epoch' = epoch + 1 /\ pump' = "top" /\ cooperative' = TRUE
              ELSE pump' = "scan" /\ UNCHANGED <<epoch, cooperative>>
    BY <1>4 DEF Reap
  <2>2. UNCHANGED <<pc, count, observed>> BY <1>4 DEF Reap
  <2>3. cooperative' \in BOOLEAN BY <1>2, <2>1, Zenon
  <2>4. ready' \in [Sources -> SUBSET Publishers] /\ ready'[Completion] = {}
    BY <1>1, <2>1 DEF Sources, Completion, Cooperative
  <2>5. epoch' \in Nat /\ epoch' >= epoch /\ pump' \in {"top", "scan"} BY <1>1, <2>1
  <2>6. TypeOK' BY <1>1, <2>2, <2>3, <2>4, <2>5 DEF TypeOK, PumpLabels
  <2>7. Behind' BY <1>1, <2>2, <2>5 DEF Behind
  <2> QED BY <2>4, <2>5, <2>6, <2>7 DEF Announced, PastReap, PastScan, Branch, NotifyPending,
          PoolPending, CompletionsOfWorkers
<1>5. CASE Scan
  <2>1. UNCHANGED <<pc, count, observed>> BY <1>5 DEF Scan
  <2>2. CASE cooperative /\ ready[Cooperative] # {}
    <3>1. PICK p \in ready[Cooperative] : ready' = [ready EXCEPT ![Cooperative] = @ \ {p}]
      BY <1>5, <2>2 DEF Scan
    <3>2. epoch' = epoch + 1 /\ pump' = "top"
      BY <1>5, <2>2 DEF Scan
    <3>3. cooperative' \in {TRUE, ready'[Cooperative] \cap Workers # {}}
      BY <1>5, <2>2, Zenon DEF Scan
    <3>4. cooperative' \in BOOLEAN BY <3>3, Zenon
    <3>5. ready' \in [Sources -> SUBSET Publishers] /\ ready'[Completion] = ready[Completion]
      BY <1>1, <3>1 DEF Sources, Completion, Cooperative
    <3>6. TypeOK' BY <1>1, <2>1, <3>2, <3>4, <3>5 DEF TypeOK, PumpLabels
    <3>7. Behind' BY <1>1, <2>1, <3>2 DEF Behind
    <3> QED BY <3>2, <3>5, <3>6, <3>7 DEF Announced, PastReap, PastScan, Branch, NotifyPending,
            PoolPending, CompletionsOfWorkers
  <2>3. CASE ~(cooperative /\ ready[Cooperative] # {})
    <3>1. pump = "scan" /\ pump' = "block" /\ UNCHANGED <<epoch, ready, cooperative>>
      BY <1>5, <2>3 DEF Scan
    <3>2. cooperative' \in BOOLEAN BY <1>2, <3>1, Zenon
    <3>3. TypeOK' BY <1>1, <2>1, <3>1, <3>2 DEF TypeOK, PumpLabels
    <3>4. Announced' BY <2>1, <2>3, <3>1 DEF Announced, WillBump, PastReap, PastScan
    <3> QED BY <2>1, <3>1, <3>3, <3>4 DEF Branch, NotifyPending, PoolPending, Behind,
            CompletionsOfWorkers
  <2> QED BY <2>2, <2>3
<1> QED BY <1>3, <1>4, <1>5

(* Blocking, waking and timing out move the pump only. *)
LEMMA BlockInv ==
  ASSUME IInv, WaitUntil \/ WaitForCompletion \/ Timeout \/ SpuriousWake
  PROVE  IInv'
<1> USE DEF IInv
<1>1. UNCHANGED <<epoch, ready, pc, count, observed, cooperative>>
  BY DEF WaitUntil, WaitForCompletion, Timeout, SpuriousWake
<1>2. cooperative' \in BOOLEAN BY <1>1, Zenon DEF TypeOK
<1>3. TypeOK' BY <1>1, <1>2
      DEF TypeOK, PumpLabels, WaitUntil, WaitForCompletion, Timeout, SpuriousWake
<1>4. Behind' /\ CompletionsOfWorkers' BY <1>1 DEF Behind, CompletionsOfWorkers
<1>5. CASE WaitUntil
  BY <1>1, <1>3, <1>4, <1>5 DEF WaitUntil, Announced, WillBump, PastReap, PastScan, Branch,
     NotifyPending, PoolPending
<1>6. CASE WaitForCompletion
  BY <1>1, <1>3, <1>4, <1>6 DEF WaitForCompletion, Announced, WillBump, PastReap, PastScan, Branch,
     NotifyPending, PoolPending
<1>7. CASE Timeout \/ SpuriousWake
  BY <1>1, <1>3, <1>4, <1>7 DEF Timeout, SpuriousWake, Announced, WillBump, PastReap, PastScan,
     Branch, NotifyPending, PoolPending
<1> QED BY <1>5, <1>6, <1>7

(* Every step preserves the invariant. *)
LEMMA NextInv == IInv /\ [Next]_vars => IInv'
<1> SUFFICES ASSUME IInv, [Next]_vars PROVE IInv'
  OBVIOUS
<1>1. CASE \E p \in Publishers : Publish(p) BY <1>1, PublishInv
<1>2. CASE Observe \/ Reap \/ Scan BY <1>2, PassInv
<1>3. CASE WaitUntil \/ WaitForCompletion \/ Timeout \/ SpuriousWake BY <1>3, BlockInv
<1>4. CASE UNCHANGED vars
  <2>1. UNCHANGED <<epoch, ready, pc, count, pump, observed, cooperative>> BY <1>4 DEF vars
  <2>2. cooperative' \in BOOLEAN BY <2>1, Zenon DEF IInv, TypeOK
  <2> QED BY <2>1, <2>2 DEF IInv, TypeOK, Announced, WillBump, Branch, NotifyPending, PoolPending,
          Behind, CompletionsOfWorkers
<1> QED BY <1>1, <1>2, <1>3, <1>4 DEF Next, Pump

(* A pump that sleeps with work in a source is about to be woken. *)
LEMMA InvSafe == IInv => NoLostPumpWake /\ NoLostCompletion
<1> SUFFICES ASSUME IInv PROVE NoLostPumpWake /\ NoLostCompletion
  OBVIOUS
<1>1. ready \in [Sources -> SUBSET Publishers] BY DEF IInv, TypeOK
<1>2. NoLostPumpWake
  BY <1>1 DEF IInv, NoLostPumpWake, Announced, WillBump, PastReap, PastScan, Branch, NotifyPending,
     Sources, Completion, Cooperative
<1>3. NoLostCompletion BY DEF IInv, NoLostCompletion, PoolPending
<1> QED BY <1>2, <1>3

(* The epoch protocol of PumpWake and the predicate of wait_for_completion
   lose no wake of the idle pump, whatever publishers do between its steps. *)
THEOREM PumpWakeSafety == Spec => []NoLostWake
<1>1. Init => IInv BY InitInv
<1>2. IInv /\ [Next]_vars => IInv' BY NextInv
<1>3. IInv => NoLostWake BY InvSafe DEF NoLostWake
<1> QED BY <1>1, <1>2, <1>3, PTL DEF Spec

=============================================================================
