----------------------- MODULE GuestConditionVariable -----------------------
(***************************************************************************)
(* The Windows-style condition variable of src/threads.rs, composed with   *)
(* the GuestMutex it releases and re-acquires.                             *)
(*                                                                         *)
(* The guest program around it is the usual monitor. A waiter enters the   *)
(* critical section, sleeps in sleep_cs until the predicate `ready` holds, *)
(* consumes it and leaves; it gives up when sleep_cs times out. A          *)
(* signaller enters, sets ready, leaves and calls wake or wake_all. A      *)
(* poller is the dispatch loop in sleep_with_polling.  A visitor shares    *)
(* the mutex only: it tries or acquires, nests, releases what it took, and *)
(* may die with the mutex in its hands.                                    *)
(*                                                                         *)
(* wake does not hold any lock that sleep_cs holds (sleep_cs waits on a    *)
(* mutex of its own), so the load of the generation, the predicate and the *)
(* blocking of Condvar::wait are separate steps for it: a notification     *)
(* reaches only the threads that are already "blocked".                    *)
(***************************************************************************)
EXTENDS GuestMutex, FiniteSets

CONSTANTS
  Waiters,                  \* threads that call sleep_cs
  Signallers,               \* threads that call wake or wake_all, once each
  Pollers,                  \* threads that call sleep_with_polling
  Visitors,                 \* threads that use the mutex by itself, once each
  Timed                     \* the waiters and pollers that pass Some(timeout)

ASSUME CVAssumption ==
  /\ Threads = Waiters \cup Signallers \cup Pollers \cup Visitors
  /\ Timed \subseteq Waiters \cup Pollers

VARIABLES
  at,                       \* where each thread is above the mutex
  ready,                    \* the guest's predicate
  wake_generation,          \* GuestConditionVariable.wake_generation
  waiter_count,             \* GuestConditionVariable.waiter_count
  seen,                     \* the local `generation` of each sleeper
  expired,                  \* the deadline of a thread's sleep has passed
  result                    \* what the last sleep of a thread returned

cvVars == <<ready, wake_generation, waiter_count, seen, expired, result>>
allVars == <<vars, at, cvVars>>

CVInit ==
  /\ Init
  /\ at = [t \in Threads |-> IF t \in Pollers THEN "snap"
                            ELSE IF t \in Visitors THEN "visit" ELSE "enter"]
  /\ ready = FALSE
  /\ wake_generation = 0
  /\ waiter_count = 0
  /\ seen = [t \in Threads |-> 0]
  /\ expired = [t \in Threads |-> FALSE]
  /\ result = [t \in Threads |-> "none"]

Go(t, l) == at' = [at EXCEPT ![t] = l]

-----------------------------------------------------------------------------
(* mutex.acquire, by the guest or at the end of sleep_cs. *)
EnterMutex(t) ==
  /\ at[t] \in {"enter", "reenter"}
  /\ Acquire(t)
  /\ IF pc'[t] = "run" THEN Go(t, "crit") ELSE UNCHANGED at
  /\ UNCHANGED cvVars

(* A visitor takes the mutex, nests, and then releases level by level. *)
Visit(t) ==
  /\ at[t] = "visit"
  /\ TryAcquire(t) \/ Acquire(t)
  /\ UNCHANGED <<at, cvVars>>

Leave(t) ==
  /\ at[t] \in {"visit", "leave"}
  /\ Release(t)
  /\ Go(t, IF recursion_count = 1 THEN "done" ELSE "leave")
  /\ UNCHANGED cvVars

(* A visitor's thread ends, wherever it is outside acquire. *)
Die(t) ==
  /\ at[t] \in {"visit", "leave"}
  /\ MarkAbandoned(t)
  /\ Go(t, "done")
  /\ UNCHANGED cvVars

(* The guest finds its predicate, or gives up after a timeout. *)
LeaveMonitor(t) ==
  /\ t \in Waiters
  /\ at[t] = "crit"
  /\ ready \/ result[t] = "timeout"
  /\ ready' = FALSE
  /\ Release(t)
  /\ Go(t, "done")
  /\ UNCHANGED <<wake_generation, waiter_count, seen, expired, result>>

(* The signaller's critical section. *)
SetReady(t) ==
  /\ t \in Signallers
  /\ at[t] = "crit"
  /\ ready' = TRUE
  /\ Release(t)
  /\ Go(t, "bump")
  /\ UNCHANGED <<wake_generation, waiter_count, seen, expired, result>>

(* wake and wake_all: the increment, which holds no lock ... *)
BumpGeneration(t) ==
  /\ at[t] = "bump"
  /\ wake_generation' = wake_generation + 1
  /\ Go(t, "notify")
  /\ UNCHANGED <<vars, ready, waiter_count, seen, expired, result>>

Blocked == {t \in Threads : at[t] = "blocked"}

(* ... and then notify_one (wake) or notify_all (wake_all). *)
Notify(t) ==
  /\ at[t] = "notify"
  /\ \E W \in SUBSET Blocked :
       /\ W = Blocked \/ Cardinality(W) = 1
       /\ at' = [u \in Threads |-> IF u = t THEN "done"
                                   ELSE IF u \in W THEN "check" ELSE at[u]]
  /\ UNCHANGED <<vars, cvVars>>

-----------------------------------------------------------------------------
(* sleep_cs: mutex.release(thread_id). *)
SleepRelease(t) ==
  /\ t \in Waiters
  /\ at[t] = "crit"
  /\ ~ready
  /\ result[t] # "timeout"
  /\ Release(t)
  /\ Go(t, "snap")
  /\ UNCHANGED cvVars

(* sleep_cs and sleep_with_polling: snapshot the generation, count in. *)
Snapshot(t) ==
  /\ at[t] = "snap"
  /\ seen' = [seen EXCEPT ![t] = wake_generation]
  /\ waiter_count' = waiter_count + 1
  /\ Go(t, IF t \in Pollers THEN "poll" ELSE "check")
  /\ expired' = [expired EXCEPT ![t] = FALSE]
  /\ UNCHANGED <<vars, ready, wake_generation, result>>

(* mutant: a timeout returns early, without mutex.acquire *)
ReturnUnlocked(t, r) ==
  /\ waiter_count' = waiter_count - 1
  /\ result' = [result EXCEPT ![t] = r]
  /\ Go(t, IF t \in Pollers THEN "done" ELSE IF r = "timeout" THEN "crit" ELSE "reenter")
  /\ UNCHANGED <<vars, ready, wake_generation, seen, expired>>

(* waiter_count.fetch_sub; then sleep_cs goes for the mutex. *)
Return(t, r) ==
  /\ waiter_count' = waiter_count - 1
  /\ result' = [result EXCEPT ![t] = r]
  /\ Go(t, IF t \in Pollers THEN "done" ELSE "reenter")
  /\ UNCHANGED <<vars, ready, wake_generation, seen, expired>>

(* sleep_with_polling: the head of the loop. *)
PollCheck(t) ==
  /\ at[t] = "poll"
  /\ \/ wake_generation # seen[t] /\ Return(t, "wake")
     \/ wake_generation = seen[t] /\ expired[t] /\ Return(t, "timeout")
     \/ /\ wake_generation = seen[t] /\ ~expired[t]
        /\ Go(t, "pump")
        /\ UNCHANGED <<vars, cvVars>>

(* pump() reports progress, and the loop starts again, or it does not. *)
Pump(t) ==
  /\ at[t] = "pump"
  /\ Go(t, "poll") \/ Go(t, "check")
  /\ UNCHANGED <<vars, cvVars>>

(* mutant: a wake-up is taken for a wake without looking at the generation *)
CheckNothing(t) ==
  /\ at[t] \in {"check", "late"}
  /\ \/ at[t] = "late" /\ Return(t, "timeout")
     \/ Return(t, "wake")
     \/ at[t] = "check" /\ Go(t, "block") /\ UNCHANGED <<vars, cvVars>>

(* mutant: every turn of the wait starts with the whole timeout *)
CheckForever(t) ==
  /\ at[t] \in {"check", "late"}
  /\ \/ wake_generation # seen[t] /\ Return(t, "wake")
     \/ wake_generation = seen[t] /\ Go(t, "block") /\ UNCHANGED <<vars, cvVars>>

(* The predicate of wait_while and wait_timeout_while, and then the remaining
   time. "late" is the look after the wait itself timed out. A poller whose
   wait times out goes round its own loop. *)
CheckGeneration(t) ==
  /\ at[t] \in {"check", "late"}
  /\ \/ wake_generation # seen[t] /\ Return(t, "wake")
     \/ /\ wake_generation = seen[t]
        /\ at[t] = "late" \/ expired[t]
        /\ IF t \in Pollers THEN Go(t, "poll") /\ UNCHANGED <<vars, cvVars>>
                            ELSE Return(t, "timeout")
     \/ /\ wake_generation = seen[t]
        /\ at[t] = "check" /\ ~expired[t]
        /\ Go(t, "block")
        /\ UNCHANGED <<vars, cvVars>>

(* Condvar::wait begins: from here on a notification reaches the thread. *)
Block(t) ==
  /\ at[t] = "block"
  /\ Go(t, "blocked")
  /\ UNCHANGED <<vars, cvVars>>

(* The deadline of Some(timeout) passes. *)
Expire(t) ==
  /\ t \in Timed
  /\ at[t] \in {"poll", "pump", "check", "block", "blocked"}
  /\ ~expired[t]
  /\ expired' = [expired EXCEPT ![t] = TRUE]
  /\ UNCHANGED <<vars, at, ready, wake_generation, waiter_count, seen, result>>

(* The wait times out: the deadline, or the 24-hour ceiling of a poller. *)
TimeoutWake(t) ==
  /\ at[t] = "blocked"
  /\ expired[t] \/ t \in Pollers \ Timed
  /\ Go(t, "late")
  /\ UNCHANGED <<vars, cvVars>>

(* std's Condvar may wake spuriously, here as in the mutex. *)
SpuriousCVWake(t) ==
  /\ at[t] = "blocked"
  /\ Go(t, "check")
  /\ UNCHANGED <<vars, cvVars>>

SpuriousMutexWake(t) ==
  /\ SpuriousWake(t)
  /\ UNCHANGED <<at, cvVars>>

(* Steps that the thread itself takes as soon as it is scheduled. *)
Step(t) ==
  \/ EnterMutex(t)
  \/ Visit(t) \/ Leave(t)
  \/ LeaveMonitor(t)
  \/ SetReady(t)
  \/ BumpGeneration(t)
  \/ Notify(t)
  \/ SleepRelease(t)
  \/ Snapshot(t)
  \/ PollCheck(t)
  \/ CheckGeneration(t)
  \/ Block(t)
  \/ TimeoutWake(t)

CVNext ==
  \/ \E t \in Threads :
       Step(t) \/ Pump(t) \/ Die(t) \/ Expire(t)
         \/ SpuriousCVWake(t) \/ SpuriousMutexWake(t)
  \/ (\A t \in Threads : at[t] = "done") /\ UNCHANGED allVars

CVSpec == CVInit /\ [][CVNext]_allVars

(* Every thread is scheduled, pump returns, and the clock runs. *)
CVFairSpec ==
  /\ CVSpec
  /\ \A t \in Threads : WF_allVars(Step(t) \/ Pump(t)) /\ WF_allVars(Expire(t))

-----------------------------------------------------------------------------
Asleep == {"poll", "pump", "check", "late", "block", "blocked"}

(* A thread in the guest's critical section, first entry or back from
   sleep_cs, owns the mutex exactly once; nobody else is in there with it. *)
MonitorExclusion ==
  \A t \in Threads \ Visitors :
    at[t] = "crit" <=> owner_tid = t /\ recursion_count = 1

(* sleep_cs and sleep_with_polling report a wake only to a thread that a
   wake came after: spurious wake-ups and timeouts that race a wake are
   told apart by the generation. *)
WakeReportedHonestly ==
  \A t \in Waiters \cup Pollers : result[t] = "wake" /\ at[t] # "snap" /\ at[t] \notin Asleep
    => wake_generation > seen[t]

(* A sleeper with a timeout comes back with the mutex, even if it misses
   every wake. *)
TimedSleepReturns ==
  \A t \in Timed : (at[t] = "snap") ~> (at[t] \in {"crit", "done"})

(* sleep_cs is documented (lines 1016-1017): the mutex is released atomically
   with the wait. Then the only waiter cannot be asleep once the predicate
   is set and every wake has been delivered. The code releases the mutex
   first, snapshots the generation afterwards, and checks it outside any lock
   that wake takes. *)
NoLostWakeup ==
  ready /\ (\A s \in Signallers : at[s] = "done") => \E t \in Waiters : at[t] # "blocked"
=============================================================================
