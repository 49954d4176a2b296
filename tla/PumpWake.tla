------------------------------ MODULE PumpWake ------------------------------
(***************************************************************************)
(* The idle pump of src/src/runtime/scheduler.rs: run_pump_driven reads the *)
(* wake epoch, looks at its sources of work one after another and, when it  *)
(* found none, blocks: on PumpWake (an epoch and a condition variable) when *)
(* some thread waits cooperatively, otherwise on the completion condition   *)
(* variable of the worker pool.  Publishers on other host threads add work  *)
(* to a source and then wake the pump, with a step between each two of      *)
(* their operations.  Timeouts exist but nothing relies on them.            *)
(***************************************************************************)
EXTENDS Integers

CONSTANTS
    Hosts,     \* host threads that publish work other than completions
    Workers,   \* workers of the production pool
    Limit      \* how often each of them publishes

ASSUME PublishersDisjoint == Hosts \cap Workers = {}

ASSUME LimitAssumption == Limit \in Nat

Publishers == Hosts \cup Workers

\* The sources in the order of the loop's body: reap_production_completions,
\* then pump_pending_guest_thread and the timer queues.
Completion == 1
Cooperative == 2
Sources == {Completion, Cooperative}

VARIABLES
    epoch,       \* PumpWakeState::epoch
    ready,       \* ready[s]: publishers whose work waits in source s
    pc,          \* publisher: "idle", "stored", "signalled" or "bumped"
    count,       \* publications begun by each publisher
    pump,        \* where the pump is
    observed,    \* the epoch it read at the top of the loop
    cooperative  \* some pending thread is not parked on a worker

vars == <<epoch, ready, pc, count, pump, observed, cooperative>>

PumpLabels == {"top", "reap", "scan", "block", "asleepPump", "wokenPump",
               "asleepPool", "wokenPool"}

SourceOf(p) == IF p \in Workers THEN Completion ELSE Cooperative

Init ==
    /\ epoch = 0
    /\ ready = [s \in Sources |-> {}]
    /\ pc = [p \in Publishers |-> "idle"]
    /\ count = [p \in Publishers |-> 0]
    /\ pump = "top"
    /\ observed = 0
    /\ cooperative \in BOOLEAN

-----------------------------------------------------------------------------
\* Publishers.

\* The work is stored: a completion under the pool's mutex, or an object, port
\* or timer changes state.
Store(p) ==
    /\ pc[p] = "idle"
    /\ count[p] < Limit
    /\ count' = [count EXCEPT ![p] = @ + 1]
    /\ ready' = [ready EXCEPT ![SourceOf(p)] = @ \cup {p}]
    /\ pc' = [pc EXCEPT ![p] = "stored"]
    /\ UNCHANGED <<epoch, pump, observed, cooperative>>

\* production_worker: completion_ready.notify_all.
NotifyPool(p) ==
    /\ p \in Workers
    /\ pc[p] = "stored"
    /\ pump' = IF pump = "asleepPool" THEN "wokenPool" ELSE pump
    /\ pc' = [pc EXCEPT ![p] = "signalled"]
    /\ UNCHANGED <<epoch, ready, count, observed, cooperative>>

\* PumpWake::notify, under the mutex.
Bump(p) ==
    /\ pc[p] = IF p \in Workers THEN "signalled" ELSE "stored"
    /\ epoch' = epoch + 1
    /\ pc' = [pc EXCEPT ![p] = "bumped"]
    /\ UNCHANGED <<ready, count, pump, observed, cooperative>>

\* PumpWake::notify, after the mutex was dropped.
NotifyPump(p) ==
    /\ pc[p] = "bumped"
    /\ pump' = IF pump = "asleepPump" THEN "wokenPump" ELSE pump
    /\ pc' = [pc EXCEPT ![p] = "idle"]
    /\ UNCHANGED <<epoch, ready, count, observed, cooperative>>

-----------------------------------------------------------------------------
\* The pump.

\* The top of the loop.
Observe ==
    /\ pump = "top"
    /\ observed' = epoch
    /\ pump' = "reap"
    /\ UNCHANGED <<epoch, ready, pc, count, cooperative>>

\* A reap that leaves the resumed thread listed as parked on a worker.
ReapStillParked ==
    /\ pump = "reap"
    /\ \E applied \in SUBSET ready[Completion] :
           /\ ready' = [ready EXCEPT ![Completion] = {}, ![Cooperative] = @ \cup applied]
           /\ IF applied # {}
              THEN epoch' = epoch + 1 /\ pump' = "top"
              ELSE pump' = "scan" /\ UNCHANGED epoch
    /\ UNCHANGED <<pc, count, observed, cooperative>>

\* reap_production_completions.  A completion that is still current makes its
\* thread runnable and advances the epoch (notify_pump_wake on the owner's own
\* thread); one of a terminated thread is ignored.  A pass that applied none
\* goes on.
Reap ==
    /\ pump = "reap"
    /\ \E applied \in SUBSET ready[Completion] :
           /\ ready' = [ready EXCEPT ![Completion] = {}, ![Cooperative] = @ \cup applied]
           /\ IF applied # {}
              THEN /\ epoch' = epoch + 1
                   /\ pump' = "top"
                   /\ cooperative' = TRUE
              ELSE /\ pump' = "scan"
                   /\ UNCHANGED <<epoch, cooperative>>
    /\ UNCHANGED <<pc, count, observed>>

\* pump_pending_guest_thread: one runnable thread, or one whose cooperative
\* wait can be completed, runs until it waits again, on a worker or
\* cooperatively.  Only a pass that found no work goes on to block.
Scan ==
    /\ pump = "scan"
    /\ IF cooperative /\ ready[Cooperative] # {}
       THEN /\ \E p \in ready[Cooperative] :
                   ready' = [ready EXCEPT ![Cooperative] = @ \ {p}]
            /\ epoch' = epoch + 1
            /\ pump' = "top"
            /\ cooperative' \in {TRUE, ready'[Cooperative] \cap Workers # {}}
       ELSE /\ pump' = "block"
            /\ UNCHANGED <<epoch, ready, cooperative>>
    /\ UNCHANGED <<pc, count, observed>>

\* A wait that blocks without a look at the epoch.
WaitBlindly ==
    /\ pump \in {"block", "wokenPump"}
    /\ pump = "block" => cooperative
    /\ pump' = IF pump = "wokenPump" THEN "top" ELSE "asleepPump"
    /\ UNCHANGED <<epoch, ready, pc, count, observed, cooperative>>

\* PumpWake::wait_until: the test and the block are one step under the mutex.
WaitUntil ==
    /\ pump \in {"block", "wokenPump"}
    /\ pump = "block" => cooperative
    /\ pump' = IF epoch # observed THEN "top" ELSE "asleepPump"
    /\ UNCHANGED <<epoch, ready, pc, count, observed, cooperative>>

\* A wait for completions that does not look for one first.
WaitPoolBlindly ==
    /\ pump \in {"block", "wokenPool"}
    /\ pump = "block" => ~cooperative
    /\ pump' = IF pump = "wokenPool" THEN "top" ELSE "asleepPool"
    /\ UNCHANGED <<epoch, ready, pc, count, observed, cooperative>>

\* ProductionScheduler::wait_for_completion: test and block are one step under
\* the pool's mutex.
WaitForCompletion ==
    /\ pump \in {"block", "wokenPool"}
    /\ pump = "block" => ~cooperative
    /\ pump' = IF ready[Completion] # {} THEN "top" ELSE "asleepPool"
    /\ UNCHANGED <<epoch, ready, pc, count, observed, cooperative>>

\* The deadline or the housekeeping interval passes.
Timeout ==
    /\ pump \in {"asleepPump", "asleepPool"}
    /\ pump' = "top"
    /\ UNCHANGED <<epoch, ready, pc, count, observed, cooperative>>

SpuriousWake ==
    /\ \/ pump = "asleepPump" /\ pump' = "wokenPump"
       \/ pump = "asleepPool" /\ pump' = "wokenPool"
    /\ UNCHANGED <<epoch, ready, pc, count, observed, cooperative>>

Publish(p) == Store(p) \/ NotifyPool(p) \/ Bump(p) \/ NotifyPump(p)

Pump == Observe \/ Reap \/ Scan \/ WaitUntil \/ WaitForCompletion

Next ==
    \/ \E p \in Publishers : Publish(p)
    \/ Pump
    \/ Timeout
    \/ SpuriousWake

Spec == Init /\ [][Next]_vars

\* The host runs the pump and a publisher that has begun; no timeout is fair.
FairSpec ==
    /\ Spec
    /\ WF_vars(Pump)
    /\ \A p \in Publishers : WF_vars(NotifyPool(p) \/ Bump(p) \/ NotifyPump(p))

-----------------------------------------------------------------------------

TypeOK ==
    /\ epoch \in Nat
    /\ ready \in [Sources -> SUBSET Publishers]
    /\ pc \in [Publishers -> {"idle", "stored", "signalled", "bumped"}]
    /\ count \in [Publishers -> 0 .. Limit]
    /\ pump \in PumpLabels
    /\ observed \in Nat
    /\ cooperative \in BOOLEAN

\* run_pump_driven and PumpWake: "a wake that arrives before the wait starts is
\* observed".  A pump asleep on the epoch with work in one of its sources has
\* a publisher that is still going to wake it.
NoLostPumpWake ==
    (pump = "asleepPump" /\ \E s \in Sources : ready[s] # {})
        => \E p \in Publishers : pc[p] # "idle"

\* wait_for_completion: a pump asleep on the pool with a completion waiting has
\* a worker that has not signalled completion_ready yet.
NoLostCompletion ==
    (pump = "asleepPool" /\ ready[Completion] # {})
        => \E p \in Workers : pc[p] = "stored"

\* Whichever of its two waits the idle pump sleeps in, published work has
\* somebody who is still going to wake it.
NoLostWake == NoLostPumpWake /\ NoLostCompletion

\* run_pump_driven: "the HOST blocks only when nothing is runnable, and wakes on
\* a scheduler notification".  The thread of a completion runs, or its
\* completion was stale, although no timeout is relied on.
CompletionRuns ==
    \A p \in Workers : p \in ready[Completion] ~> p \notin ready[Completion] \cup ready[Cooperative]

=============================================================================
