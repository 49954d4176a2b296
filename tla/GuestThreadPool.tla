-------------------------- MODULE GuestThreadPool ---------------------------
(***************************************************************************)
(* The fixed worker pool of src/threads.rs (GuestThreadPool): a caller     *)
(* queues work items, workers move them to the completed queue, and the    *)
(* caller may take them from there. Dropping the pool stores the shutdown  *)
(* flag, notifies all workers and joins them.                              *)
(*                                                                         *)
(* A worker evaluates its predicate and blocks while it holds the mutex of *)
(* active_work (labels "eval" to "block"), so a push cannot come between.  *)
(* shutdown takes no mutex: its store and its notify_all can.              *)
(***************************************************************************)
EXTENDS Naturals, Sequences, FiniteSets

CONSTANTS
  Workers,                  \* the THREAD_POOL_WORKERS threads
  Items,                    \* bound: the work items ever queued
  Cap,                      \* THREAD_POOL_COMPLETED_CAP
  None                      \* no item

VARIABLES
  active_work, completed_work,      \* the two queues
  started, shutdown,                \* the flags of the pool
  caller,                           \* where the thread that owns the pool is
  wpc,                              \* where each worker is
  hand,                             \* the item a worker carries
  queued, delivered, dropped        \* history: what became of the items

poolVars == <<active_work, completed_work, started, shutdown>>
vars == <<poolVars, caller, wpc, hand, queued, delivered, dropped>>

Init ==
  /\ active_work = <<>> /\ completed_work = <<>>
  /\ started = FALSE /\ shutdown = FALSE
  /\ caller = "idle"
  /\ wpc = [w \in Workers |-> "unborn"]
  /\ hand = [w \in Workers |-> None]
  /\ queued = {} /\ delivered = {} /\ dropped = {}

(* The mutex of active_work, held across the evaluation and the block. *)
ActiveWorkFree == \A w \in Workers : wpc[w] # "block"
Blocked == {w \in Workers : wpc[w] = "blocked"}

-----------------------------------------------------------------------------
(* queue_work: push_back under the mutex; the first call spawns the workers. *)
QueueWork(i) ==
  /\ caller = "idle"
  /\ i \notin queued
  /\ ActiveWorkFree
  /\ active_work' = Append(active_work, i)
  /\ queued' = queued \cup {i}
  /\ started' = TRUE
  /\ wpc' = [w \in Workers |-> IF started THEN wpc[w] ELSE "top"]
  /\ caller' = "notify"
  /\ UNCHANGED <<completed_work, shutdown, hand, delivered, dropped>>

(* mutant: the item is announced on the first call only *)
NotifyOneWhenStarting ==
  /\ caller = "notify"
  /\ caller' = "idle"
  /\ UNCHANGED <<poolVars, wpc, hand, queued, delivered, dropped>>

(* queue_work: work_available.notify_one(), outside the mutex. *)
NotifyOne ==
  /\ caller = "notify"
  /\ caller' = "idle"
  /\ \/ \E w \in Blocked : wpc' = [wpc EXCEPT ![w] = "eval"]
     \/ Blocked = {} /\ UNCHANGED wpc
  /\ UNCHANGED <<poolVars, hand, queued, delivered, dropped>>

(* dequeue_work: whenever the caller likes. *)
DequeueWork ==
  /\ caller = "idle"
  /\ completed_work # <<>>
  /\ delivered' = delivered \cup {Head(completed_work)}
  /\ completed_work' = Tail(completed_work)
  /\ UNCHANGED <<active_work, started, shutdown, caller, wpc, hand, queued, dropped>>

(* Drop: the store of the flag ... *)
StoreShutdown ==
  /\ caller = "idle"
  /\ shutdown' = TRUE
  /\ caller' = "notifyAll"
  /\ UNCHANGED <<active_work, completed_work, started, wpc, hand, queued, delivered, dropped>>

(* ... notify_all ... *)
NotifyAll ==
  /\ caller = "notifyAll"
  /\ wpc' = [w \in Workers |-> IF wpc[w] = "blocked" THEN "eval" ELSE wpc[w]]
  /\ caller' = "join"
  /\ UNCHANGED <<poolVars, hand, queued, delivered, dropped>>

(* ... and join on every worker that was spawned. *)
Join ==
  /\ caller = "join"
  /\ \A w \in Workers : wpc[w] \in {"unborn", "exit"}
  /\ caller' = "dropped"
  /\ UNCHANGED <<poolVars, wpc, hand, queued, delivered, dropped>>

-----------------------------------------------------------------------------
(* A worker's loop: the flag first. *)
Top(w) ==
  /\ wpc[w] = "top"
  /\ wpc' = [wpc EXCEPT ![w] = IF shutdown THEN "exit" ELSE "eval"]
  /\ UNCHANGED <<poolVars, caller, hand, queued, delivered, dropped>>

(* mutant: the item is copied from the queue and removed only later *)
EvaluatePeek(w) ==
  /\ wpc[w] = "eval"
  /\ ActiveWorkFree
  /\ \/ /\ active_work = <<>> /\ ~shutdown
        /\ wpc' = [wpc EXCEPT ![w] = "block"]
        /\ UNCHANGED <<active_work, hand>>
     \/ /\ active_work = <<>> /\ shutdown
        /\ wpc' = [wpc EXCEPT ![w] = "top"]
        /\ UNCHANGED <<active_work, hand>>
     \/ /\ active_work # <<>>
        /\ hand' = [hand EXCEPT ![w] = Head(active_work)]
        /\ active_work' = IF Len(active_work) > 1 THEN Tail(active_work) ELSE active_work
        /\ wpc' = [wpc EXCEPT ![w] = "complete"]
  /\ UNCHANGED <<completed_work, started, shutdown, caller, queued, delivered, dropped>>

(* Under the mutex, on entry or back from Condvar::wait: block, or pop_front
   (which finds nothing when only the flag ended the loop). *)
Evaluate(w) ==
  /\ wpc[w] = "eval"
  /\ ActiveWorkFree
  /\ \/ /\ active_work = <<>> /\ ~shutdown
        /\ wpc' = [wpc EXCEPT ![w] = "block"]
        /\ UNCHANGED <<active_work, hand>>
     \/ /\ active_work = <<>> /\ shutdown
        /\ wpc' = [wpc EXCEPT ![w] = "top"]
        /\ UNCHANGED <<active_work, hand>>
     \/ /\ active_work # <<>>
        /\ hand' = [hand EXCEPT ![w] = Head(active_work)]
        /\ active_work' = Tail(active_work)
        /\ wpc' = [wpc EXCEPT ![w] = "complete"]
  /\ UNCHANGED <<completed_work, started, shutdown, caller, queued, delivered, dropped>>

(* Condvar::wait: block and release the mutex at once. *)
Block(w) ==
  /\ wpc[w] = "block"
  /\ wpc' = [wpc EXCEPT ![w] = "blocked"]
  /\ UNCHANGED <<poolVars, caller, hand, queued, delivered, dropped>>

SpuriousWake(w) ==
  /\ wpc[w] = "blocked"
  /\ wpc' = [wpc EXCEPT ![w] = "eval"]
  /\ UNCHANGED <<poolVars, caller, hand, queued, delivered, dropped>>

(* mutant: a worker ends after one item *)
CompleteAndExit(w) ==
  /\ wpc[w] = "complete"
  /\ IF Len(completed_work) >= Cap
       THEN dropped' = dropped \cup {hand[w]} /\ UNCHANGED completed_work
       ELSE completed_work' = Append(completed_work, hand[w]) /\ UNCHANGED dropped
  /\ hand' = [hand EXCEPT ![w] = None]
  /\ wpc' = [wpc EXCEPT ![w] = "exit"]
  /\ UNCHANGED <<active_work, started, shutdown, caller, queued, delivered>>

(* The item goes to the completed queue, or is dropped when that is full. *)
Complete(w) ==
  /\ wpc[w] = "complete"
  /\ IF Len(completed_work) >= Cap
       THEN dropped' = dropped \cup {hand[w]} /\ UNCHANGED completed_work
       ELSE completed_work' = Append(completed_work, hand[w]) /\ UNCHANGED dropped
  /\ hand' = [hand EXCEPT ![w] = None]
  /\ wpc' = [wpc EXCEPT ![w] = "top"]
  /\ UNCHANGED <<active_work, started, shutdown, caller, queued, delivered>>

WorkerStep(w) == Top(w) \/ Evaluate(w) \/ Block(w) \/ Complete(w)
CallerStep == NotifyOne \/ NotifyAll \/ Join

Next ==
  \/ \E i \in Items : QueueWork(i)
  \/ CallerStep
  \/ DequeueWork
  \/ StoreShutdown
  \/ \E w \in Workers : WorkerStep(w) \/ SpuriousWake(w)

(* Threads run when they can. Queueing, dequeueing and dropping the pool are
   choices of the pool's user, who need not make them: nothing is assumed to
   drain the completed queue. *)
Spec ==
  /\ Init /\ [][Next]_vars
  /\ \A w \in Workers : WF_vars(WorkerStep(w))
  /\ WF_vars(CallerStep)

-----------------------------------------------------------------------------
Elements(s) == {s[k] : k \in DOMAIN s}

TypeOK ==
  /\ active_work \in Seq(Items)
  /\ completed_work \in Seq(Items) /\ Len(completed_work) <= Cap
  /\ started \in BOOLEAN /\ shutdown \in BOOLEAN
  /\ caller \in {"idle", "notify", "notifyAll", "join", "dropped"}
  /\ wpc \in [Workers -> {"unborn", "top", "eval", "block", "blocked", "complete", "exit"}]
  /\ hand \in [Workers -> Items \cup {None}]
  /\ queued \subseteq Items /\ delivered \subseteq Items /\ dropped \subseteq Items

(* An item that was queued is in one place: in a queue, in one worker's hands,
   delivered, or dropped at the cap. Several workers never run it twice, and
   none disappears. *)
EachItemOnce ==
  /\ queued = Elements(active_work) \cup Elements(completed_work) \cup delivered \cup dropped
              \cup ({hand[w] : w \in Workers} \ {None})
  /\ Cardinality(queued) =
       Len(active_work) + Len(completed_work) + Cardinality(delivered)
       + Cardinality(dropped) + Cardinality({w \in Workers : hand[w] # None})

(* The workers finish every queued item, whether or not anybody dequeues: it
   reaches the completed queue, or is dropped at the cap, unless the pool is
   shut down first. *)
WorkCompletes ==
  \A i \in Items :
    (i \in queued) ~> (i \in Elements(completed_work) \cup delivered \cup dropped \/ shutdown)

(* work_available "Signals workers that a work item arrived (or shutdown)"
   (line 713): a drop of the pool that has begun comes to an end. The store
   and the notify_all can fall between a worker's evaluation of the predicate
   and its block; then the worker sleeps and the join never returns. *)
DropReturns == (caller = "notifyAll") ~> (caller = "dropped")
=============================================================================
