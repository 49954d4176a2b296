---------------------- MODULE EnhancedGuestThreadPool -----------------------
(***************************************************************************)
(* The pool of src/threads.rs that also services timers                    *)
(* (EnhancedGuestThreadPool). Workers deliver due timers and queued items  *)
(* to the completed queue, from which the runtime takes them, with or      *)
(* without blocking.                                                       *)
(*                                                                         *)
(* A worker evaluates its wait predicate and blocks while it holds the     *)
(* mutex of work_queue (label "block"). queue_work pushes under that       *)
(* mutex; create_timer, delete_timer and shutdown change what the          *)
(* predicate reads, and notify, without it.                                *)
(***************************************************************************)
EXTENDS Naturals, Sequences, FiniteSets, SequencesExt

CONSTANTS
  Workers,                  \* the worker threads
  Callers,                  \* threads that call the pool's &self methods
  Consumers,                \* threads that dequeue completed items
  Items,                    \* bound: the work items ever queued
  Timers,                   \* bound: the timer handles ever created
  MaxTime,                  \* bound: milliseconds since the epoch
  Dues, Periods,            \* the times create_timer is called with
  Cap,                      \* ENHANCED_POOL_CAP
  None                      \* no deadline, no item

ASSUME PoolAssumption ==
  /\ Timers \subseteq Nat /\ MaxTime \in Nat /\ Cap \in Nat
  /\ Dues \subseteq Nat /\ Periods \subseteq Nat /\ None \notin Nat

VARIABLES
  work_queue, completed_queue,      \* the two queues
  timers,                           \* timer_queue.timers: handle |-> due, period
  timer_generation, shutdown,       \* the atomics
  now,                              \* epoch.elapsed()
  wpc, timer_gen, next_due, out,    \* each worker: label, snapshot, deadline, items to push
  cpc,                              \* where each caller is
  consumer,                         \* where each consumer is
  queued, created, taken, dropped   \* history

poolVars == <<work_queue, completed_queue, timers, timer_generation, shutdown>>
workerVars == <<wpc, timer_gen, next_due, out>>
history == <<queued, created, taken, dropped>>
vars == <<poolVars, now, workerVars, cpc, consumer, history>>

Init ==
  /\ work_queue = <<>> /\ completed_queue = <<>>
  /\ timers = <<>>
  /\ timer_generation = 0 /\ shutdown = FALSE /\ now = 0
  /\ wpc = [w \in Workers |-> "top"]
  /\ timer_gen = [w \in Workers |-> 0]
  /\ next_due = [w \in Workers |-> None]
  /\ out = [w \in Workers |-> <<>>]
  /\ cpc = [c \in Callers |-> "idle"]
  /\ consumer = [k \in Consumers |-> "idle"]
  /\ queued = {} /\ created = {} /\ taken = {} /\ dropped = {}

WorkQueueFree == \A w \in Workers : wpc[w] # "block"
Blocked == {w \in Workers : wpc[w] = "blocked"}
Dozing == {k \in Consumers : consumer[k] = "blocked"}
SetMin(S) == CHOOSE x \in S : \A y \in S : x <= y
EarliestDue(ts) == IF ts = <<>> THEN None ELSE SetMin({ts[h].due : h \in DOMAIN ts})

Tick ==
  /\ now < MaxTime
  /\ now' = now + 1
  /\ UNCHANGED <<poolVars, workerVars, cpc, consumer, history>>

-----------------------------------------------------------------------------
(* A worker's loop: the flag, then the snapshot of the generation. *)
Top(w) ==
  /\ wpc[w] = "top"
  /\ wpc' = [wpc EXCEPT ![w] = IF shutdown THEN "exit" ELSE "timers"]
  /\ timer_gen' = [timer_gen EXCEPT ![w] = timer_generation]
  /\ UNCHANGED <<poolVars, now, next_due, out, cpc, consumer, history>>

(* The timers due by now in order of due time, ties by handle. *)
DueTimers(ts) ==
  LET due == {h \in DOMAIN ts : ts[h].due <= now}
      before(g, h) == ts[g].due < ts[h].due \/ (ts[g].due = ts[h].due /\ g < h)
  IN SetToSortSeq(due, before)

(* The first multiple of the period after now. *)
NextExpiry(t) ==
  SetMin({d \in now + 1 .. now + t.period : (d - t.due) % t.period = 0})

(* mutant: a periodic timer moves on by one period only *)
RescheduledOnce(ts) ==
  LET due == {h \in DOMAIN ts : ts[h].due <= now}
  IN [h \in {g \in DOMAIN ts : g \notin due \/ ts[g].period > 0} |->
        IF h \in due THEN [ts[h] EXCEPT !.due = @ + ts[h].period] ELSE ts[h]]

(* One-shot timers that are due are removed, periodic ones rescheduled. *)
Rescheduled(ts) ==
  LET due == {h \in DOMAIN ts : ts[h].due <= now}
  IN [h \in {g \in DOMAIN ts : g \notin due \/ ts[g].period > 0} |->
        IF h \in due THEN [ts[h] EXCEPT !.due = NextExpiry(ts[h])] ELSE ts[h]]

(* Collect, remove and reschedule under the mutex of timer_queue. *)
ServiceTimers(w) ==
  /\ wpc[w] = "timers"
  /\ LET due == DueTimers(timers)
     IN /\ out' = [out EXCEPT ![w] = [k \in DOMAIN due |-> <<due[k], timers[due[k]].due>>]]
        /\ timers' = Rescheduled(timers)
        /\ next_due' = [next_due EXCEPT ![w] = EarliestDue(timers')]
  /\ wpc' = [wpc EXCEPT ![w] = "deliver"]
  /\ UNCHANGED <<work_queue, completed_queue, timer_generation, shutdown, now, timer_gen,
                 cpc, consumer, history>>

(* push_completed_item of the next item in out, under the mutex of
   completed_queue: drop it at the cap, and go on at `full`; else push it, and
   the notification is next. *)
PushCompleted(w, full, pushed) ==
  /\ out[w] # <<>>
  /\ out' = [out EXCEPT ![w] = Tail(@)]
  /\ IF Len(completed_queue) >= Cap
       THEN /\ dropped' = dropped \cup {Head(out[w])}
            /\ wpc' = [wpc EXCEPT ![w] = full]
            /\ UNCHANGED completed_queue
       ELSE /\ completed_queue' = Append(completed_queue, Head(out[w]))
            /\ wpc' = [wpc EXCEPT ![w] = pushed]
            /\ UNCHANGED dropped
  /\ UNCHANGED <<work_queue, timers, timer_generation, shutdown, now, timer_gen, next_due,
                 cpc, consumer, queued, created, taken>>

(* mutant: only an item that finds the queue empty is announced *)
NotifyIfFirst(w) ==
  /\ wpc[w] \in {"announce", "announceLast"}
  /\ wpc' = [wpc EXCEPT ![w] = IF wpc[w] = "announce" THEN "deliver" ELSE "top"]
  /\ \/ Len(completed_queue) = 1 /\ \E k \in Dozing : consumer' = [consumer EXCEPT ![k] = "look"]
     \/ (Dozing = {} \/ Len(completed_queue) # 1) /\ UNCHANGED consumer
  /\ UNCHANGED <<poolVars, now, timer_gen, next_due, out, cpc, history>>

(* ... and, after drop(q), completed_available.notify_one(). *)
NotifyCompleted(w) ==
  /\ wpc[w] \in {"announce", "announceLast"}
  /\ wpc' = [wpc EXCEPT ![w] = IF wpc[w] = "announce" THEN "deliver" ELSE "top"]
  /\ \/ \E k \in Dozing : consumer' = [consumer EXCEPT ![k] = "look"]
     \/ Dozing = {} /\ UNCHANGED consumer
  /\ UNCHANGED <<poolVars, now, timer_gen, next_due, out, cpc, history>>

(* mutant: the work item is copied and stays in the queue *)
DeliverPeek(w) ==
  /\ wpc[w] = "deliver"
  /\ \/ PushCompleted(w, "deliver", "announce")
     \/ /\ out[w] = <<>> /\ WorkQueueFree
        /\ IF work_queue = <<>>
             THEN /\ wpc' = [wpc EXCEPT ![w] = "eval"]
                  /\ UNCHANGED out
             ELSE /\ wpc' = [wpc EXCEPT ![w] = "complete"]
                  /\ out' = [out EXCEPT ![w] = <<Head(work_queue)>>]
        /\ UNCHANGED <<poolVars, now, timer_gen, next_due, cpc, consumer, history>>

(* The due timers one by one; then pop_front of the work queue. *)
Deliver(w) ==
  /\ wpc[w] = "deliver"
  /\ \/ PushCompleted(w, "deliver", "announce")
     \/ /\ out[w] = <<>> /\ WorkQueueFree
        /\ IF work_queue = <<>>
             THEN /\ wpc' = [wpc EXCEPT ![w] = "eval"]
                  /\ UNCHANGED <<work_queue, out>>
             ELSE /\ wpc' = [wpc EXCEPT ![w] = "complete"]
                  /\ out' = [out EXCEPT ![w] = <<Head(work_queue)>>]
                  /\ work_queue' = Tail(work_queue)
        /\ UNCHANGED <<completed_queue, timers, timer_generation, shutdown, now, timer_gen,
                       next_due, cpc, consumer, history>>

(* The work item goes to the completed queue, and the loop starts again. *)
Complete(w) ==
  /\ wpc[w] = "complete"
  /\ PushCompleted(w, "top", "announceLast")

(* wait_timeout_while under the mutex of work_queue: the predicate and the
   time that is left. *)
Evaluate(w) ==
  /\ wpc[w] = "eval"
  /\ WorkQueueFree
  /\ wpc' = [wpc EXCEPT ![w] =
       IF /\ work_queue = <<>> /\ ~shutdown /\ timer_generation = timer_gen[w]
          /\ next_due[w] = None \/ next_due[w] > now
       THEN "block" ELSE "top"]
  /\ UNCHANGED <<poolVars, now, timer_gen, next_due, out, cpc, consumer, history>>

Block(w) ==
  /\ wpc[w] = "block"
  /\ wpc' = [wpc EXCEPT ![w] = "blocked"]
  /\ UNCHANGED <<poolVars, now, timer_gen, next_due, out, cpc, consumer, history>>

(* The deadline passes. The ceiling of 24 hours, used when there is no timer,
   is beyond MaxTime. *)
WaitTimeout(w) ==
  /\ wpc[w] = "blocked"
  /\ next_due[w] # None /\ next_due[w] <= now
  /\ wpc' = [wpc EXCEPT ![w] = "eval"]
  /\ UNCHANGED <<poolVars, now, timer_gen, next_due, out, cpc, consumer, history>>

SpuriousWake(w) ==
  /\ wpc[w] = "blocked"
  /\ wpc' = [wpc EXCEPT ![w] = "eval"]
  /\ UNCHANGED <<poolVars, now, timer_gen, next_due, out, cpc, consumer, history>>

-----------------------------------------------------------------------------
(* queue_work: the push, under the mutex. *)
QueueWork(c, i) ==
  /\ cpc[c] = "idle" /\ i \notin queued
  /\ WorkQueueFree
  /\ work_queue' = Append(work_queue, i)
  /\ queued' = queued \cup {i}
  /\ cpc' = [cpc EXCEPT ![c] = "notify"]
  /\ UNCHANGED <<completed_queue, timers, timer_generation, shutdown, now, workerVars,
                 consumer, created, taken, dropped>>

(* create_timer: the insertion, under the mutex of timer_queue. *)
CreateTimer(c, h, due, period) ==
  /\ cpc[c] = "idle" /\ h \notin created
  /\ timers' = [g \in DOMAIN timers \cup {h} |->
                  IF g = h THEN [due |-> due, period |-> period] ELSE timers[g]]
  /\ created' = created \cup {h}
  /\ cpc' = [cpc EXCEPT ![c] = "bump"]
  /\ UNCHANGED <<work_queue, completed_queue, timer_generation, shutdown, now, workerVars,
                 consumer, queued, taken, dropped>>

DeleteTimer(c, h) ==
  /\ cpc[c] = "idle" /\ h \in DOMAIN timers
  /\ timers' = [g \in DOMAIN timers \ {h} |-> timers[g]]
  /\ cpc' = [cpc EXCEPT ![c] = "bump"]
  /\ UNCHANGED <<work_queue, completed_queue, timer_generation, shutdown, now, workerVars,
                 consumer, history>>

(* create_timer, delete_timer: timer_generation.fetch_add. *)
BumpGeneration(c) ==
  /\ cpc[c] = "bump"
  /\ timer_generation' = timer_generation + 1
  /\ cpc' = [cpc EXCEPT ![c] = "notify"]
  /\ UNCHANGED <<work_queue, completed_queue, timers, shutdown, now, workerVars, consumer,
                 history>>

(* mutant: queue_work leaves the notification out *)
NotifyNobody(c) ==
  /\ cpc[c] = "notify"
  /\ cpc' = [cpc EXCEPT ![c] = "idle"]
  /\ UNCHANGED <<poolVars, now, workerVars, consumer, history>>

(* work_available.notify_one() of all three. *)
NotifyOne(c) ==
  /\ cpc[c] = "notify"
  /\ cpc' = [cpc EXCEPT ![c] = "idle"]
  /\ \/ \E w \in Blocked : wpc' = [wpc EXCEPT ![w] = "eval"]
     \/ Blocked = {} /\ UNCHANGED wpc
  /\ UNCHANGED <<poolVars, now, timer_gen, next_due, out, consumer, history>>

(* shutdown: the store, then notify_all; drop then joins the workers. *)
StoreShutdown(c) ==
  /\ cpc[c] = "idle" /\ ~shutdown
  /\ shutdown' = TRUE
  /\ cpc' = [cpc EXCEPT ![c] = "notifyAll"]
  /\ UNCHANGED <<work_queue, completed_queue, timers, timer_generation, now, workerVars,
                 consumer, history>>

NotifyAll(c) ==
  /\ cpc[c] = "notifyAll"
  /\ cpc' = [cpc EXCEPT ![c] = "join"]
  /\ wpc' = [w \in Workers |-> IF w \in Blocked THEN "eval" ELSE wpc[w]]
  /\ UNCHANGED <<poolVars, now, timer_gen, next_due, out, consumer, history>>

-----------------------------------------------------------------------------
(* mutant: a consumer blocks without looking at the queue first *)
DequeueBlind(k) ==
  /\ consumer[k] \in {"idle", "look"}
  /\ \/ /\ completed_queue # <<>> /\ consumer[k] = "look"
        /\ taken' = taken \cup {Head(completed_queue)}
        /\ completed_queue' = Tail(completed_queue)
        /\ consumer' = [consumer EXCEPT ![k] = "idle"]
     \/ /\ completed_queue = <<>> \/ consumer[k] = "idle"
        /\ \E next \in {"idle", "blocked"} : consumer' = [consumer EXCEPT ![k] = next]
        /\ UNCHANGED <<completed_queue, taken>>
  /\ UNCHANGED <<work_queue, timers, timer_generation, shutdown, now, workerVars, cpc,
                 queued, created, dropped>>

(* dequeue_completed_timeout: one look under the mutex of completed_queue, on
   entry or after a wake-up. Without an item it blocks, or returns when the
   time is up (dequeue_completed returns at once). *)
DequeueCompleted(k) ==
  /\ consumer[k] \in {"idle", "look"}
  /\ \/ /\ completed_queue # <<>>
        /\ taken' = taken \cup {Head(completed_queue)}
        /\ completed_queue' = Tail(completed_queue)
        /\ consumer' = [consumer EXCEPT ![k] = "idle"]
     \/ /\ completed_queue = <<>>
        /\ \E next \in {"idle", "blocked"} : consumer' = [consumer EXCEPT ![k] = next]
        /\ UNCHANGED <<completed_queue, taken>>
  /\ UNCHANGED <<work_queue, timers, timer_generation, shutdown, now, workerVars, cpc,
                 queued, created, dropped>>

(* ... and its timeout, or a spurious wake-up. *)
ConsumerTimeout(k) ==
  /\ consumer[k] = "blocked"
  /\ consumer' = [consumer EXCEPT ![k] = "look"]
  /\ UNCHANGED <<poolVars, now, workerVars, cpc, history>>

WorkerStep(w) ==
  Top(w) \/ ServiceTimers(w) \/ Deliver(w) \/ Complete(w) \/ NotifyCompleted(w)
  \/ Evaluate(w) \/ Block(w) \/ WaitTimeout(w)
CallerStep(c) == BumpGeneration(c) \/ NotifyOne(c) \/ NotifyAll(c)

Next ==
  \/ Tick
  \/ \E w \in Workers : WorkerStep(w) \/ SpuriousWake(w)
  \/ \E c \in Callers :
       \/ \E i \in Items : QueueWork(c, i)
       \/ \E h \in Timers, d \in Dues, p \in Periods : CreateTimer(c, h, d, p)
       \/ \E h \in Timers : DeleteTimer(c, h)
       \/ CallerStep(c)
       \/ StoreShutdown(c)
  \/ \E k \in Consumers : DequeueCompleted(k) \/ ConsumerTimeout(k)

Spec == Init /\ [][Next]_vars

-----------------------------------------------------------------------------
TypeOK ==
  /\ work_queue \in Seq(Items)
  /\ Len(completed_queue) <= Cap
  /\ DOMAIN timers \subseteq Timers
  /\ \A h \in DOMAIN timers : timers[h].due \in Nat /\ timers[h].period \in Nat
  /\ shutdown \in BOOLEAN
  /\ wpc \in [Workers -> {"top", "timers", "deliver", "complete", "announce", "announceLast",
                          "eval", "block", "blocked", "exit"}]
  /\ cpc \in [Callers -> {"idle", "bump", "notify", "notifyAll", "join"}]
  /\ consumer \in [Consumers -> {"idle", "look", "blocked"}]

(* Everything a worker has pushed or is about to push. *)
Carried == UNION {ToSet(out[w]) : w \in Workers}
Done == ToSet(completed_queue) \cup taken \cup dropped

(* "a due timer is delivered exactly once even with several workers" (line
   1695), and so is a work item: nothing that was delivered, dropped or is on
   its way shows up a second time. *)
DeliveredOnce ==
  /\ IsInjective(completed_queue)
  /\ ToSet(completed_queue) \cap (taken \cup dropped) = {} /\ taken \cap dropped = {}
  /\ Carried \cap Done = {}
  /\ \A v, w \in Workers : v # w => ToSet(out[v]) \cap ToSet(out[w]) = {}
  /\ queued \subseteq ToSet(work_queue) \cup Carried \cup Done

(* A periodic timer that was serviced late skips the expiries that have
   passed: after a worker looked at the timers, its deadline is ahead of the
   clock it read, so a worker never spins on one timer. *)
NoExpiryInThePast ==
  [][\A w \in Workers : wpc[w] = "timers" /\ wpc'[w] = "deliver"
       => next_due'[w] = None \/ next_due'[w] > now]_vars

(* A queued item always has somebody coming for it. *)
WorkNotStranded ==
  work_queue # <<>> => (\E c \in Callers : cpc[c] = "notify") \/ Blocked # Workers

(* While a consumer sleeps, every completed item has a wake-up of its own: a
   worker that is about to notify, or a consumer that is about to look. *)
ItemsAnnounced ==
  Dozing # {} =>
    Len(completed_queue) <=
      Cardinality({w \in Workers : wpc[w] \in {"announce", "announceLast"}})
      + Cardinality({k \in Consumers : consumer[k] = "look"})

(* Nobody sleeps through work: neither the workers through a queued item nor
   the consumers through a completed one, although push_completed_item lets go
   of the mutex before it notifies, and another consumer can come between. *)
NobodyStranded == WorkNotStranded /\ ItemsAnnounced

(* The comment on the wait predicate (lines 1686-1690): "a wake cannot be
   missed between the evaluation and the blocking wait". So once create_timer
   has returned, some worker is awake or sleeps no longer than until the
   earliest timer. The bump and the notify_one can both fall between a
   worker's evaluation and its block; the worker then sleeps past the timer. *)
TimerNotSleptPast ==
  (\A c \in Callers : cpc[c] = "idle") /\ Blocked = Workers /\ timers # <<>>
    => \E w \in Workers : next_due[w] # None /\ next_due[w] <= EarliestDue(timers)
=============================================================================
