--------------------------- MODULE ProductionWait ---------------------------
(***************************************************************************)
(* Production scheduling of blocked guest threads                           *)
(* (src/src/runtime/scheduler.rs).  The owner thread runs guest code, parks *)
(* a thread that has to wait by handing a job to a pool of native workers,  *)
(* and applies the completions the workers push.  A worker waits on the     *)
(* job's own ParkSignal, on the completion port or for a deadline.  Guest   *)
(* operations, prune, reap and each application are steps of the owner;     *)
(* workers step in between.                                                 *)
(*                                                                          *)
(* A job's signal is its `reason`: "none" until the first notification.  A  *)
(* job number is used again once no queue holds it, which cannot be told    *)
(* from the code's 64-bit counter.                                          *)
(***************************************************************************)
EXTENDS Naturals, Sequences, FiniteSets, SequencesExt

CONSTANTS
    Threads,      \* guest threads
    Main,         \* the one that the run starts with
    Objects,      \* auto-reset events
    Port,         \* the completion port
    Waits,        \* the waits each thread performs, as descriptors
    ApcTargets,   \* bound: threads that an APC is queued to
    Jobs,         \* numbers of wait jobs
    NoJob,
    PoolSizes,    \* numbers of workers that the pool may be built with
    PacketLimit   \* bound on packets in the completion port

\* A thread that parks again holds its old job until the new one is recorded.
ASSUME JobsSuffice == Cardinality(Jobs) > Cardinality(Threads)

ASSUME MainIsThread == Main \in Threads /\ NoJob \notin Jobs /\ Port \notin Objects

VARIABLES
    loop,         \* what the owner runs: "direct", "pump", "drain", "failed", "dropped"
    thread,       \* "running" (or runnable), "parked", "exited", "terminated"
    wait,         \* the descriptor a thread parked with
    production,   \* production_waits: the current job of a parked thread
    due,          \* threads whose wait is past its deadline on the guest clock
    apc,          \* threads with a queued APC
    signaled,     \* signaled objects
    closed,       \* objects whose last handle was closed; the port may be one
    packets,      \* packets in the completion port
    dropped,      \* packets of completions that were ignored
    workers,      \* the size of the pool
    owner,        \* thread of each job
    reason,       \* signal or outcome of each job
    held,         \* number of packets in the completion of each job
    queue, working, completions, batch   \* where jobs are

guest == <<loop, thread, wait, due, apc, signaled, closed, packets>>
pool == <<owner, reason, held, queue, working, completions, batch>>
vars == <<guest, production, dropped, workers, pool>>

Dead(t) == thread[t] \in {"exited", "terminated"}

InUse == Range(queue) \cup working \cup Range(completions) \cup Range(batch)
         \cup {production[t] : t \in Threads}

\* Jobs whose signal is still waited on.
Waiting == Range(queue) \cup working

\* The owner is between two guest operations.
Owning == loop \in {"direct", "pump", "drain"} /\ batch = << >>

\* What a thread that is not parked waits for.
Idle == [kind |-> "none", targets |-> << >>, all |-> FALSE, alertable |-> FALSE,
         timed |-> FALSE, most |-> 0]

Init ==
    /\ loop = "direct"
    /\ thread = [t \in Threads |-> "running"]
    /\ wait = [t \in Threads |-> Idle]
    /\ production = [t \in Threads |-> NoJob]
    /\ due = {} /\ apc = {} /\ signaled = {} /\ closed = {}
    /\ packets = 0 /\ dropped = 0
    /\ owner = [j \in Jobs |-> Main]
    /\ reason = [j \in Jobs |-> "none"]
    /\ held = [j \in Jobs |-> 0]
    /\ workers \in PoolSizes
    /\ queue = << >> /\ working = {} /\ completions = << >> /\ batch = << >>

-----------------------------------------------------------------------------
\* Waiting on objects.

IsSignaled(x) == IF x \in Threads THEN Dead(x) ELSE x \in signaled \ closed

Ready(w) == {i \in DOMAIN w.targets : IsSignaled(w.targets[i])}

\* wait_satisfiable, with `late` for a deadline that has passed.
wait_satisfiable(t, w, late) ==
    \/ w.alertable /\ t \in apc
    \/ w.timed /\ late
    \/ w.kind = "objects" /\ IF w.all THEN Ready(w) = DOMAIN w.targets ELSE Ready(w) # {}
    \/ w.kind = "port" /\ (packets > 0 \/ Port \in closed)

First(S) == CHOOSE i \in S : \A k \in S : i <= k

\* take_locked: the packets that one dequeue takes.
Taken(w) == IF packets < w.most THEN packets ELSE w.most

\* complete_wait: an APC goes before the timeout and the timeout before the
\* objects; a port gives the packets it has, or none when it was closed.
\* Wait-any walks the handles in order and fails, with the run, at
\* one that no longer resolves.
complete_wait(t, w, late) ==
    IF w.alertable /\ t \in apc
    THEN apc' = apc \ {t} /\ UNCHANGED <<loop, signaled, packets>>
    ELSE /\ UNCHANGED apc
         /\ IF (w.timed /\ late) \/ w.kind = "sleep"
            THEN UNCHANGED <<loop, signaled, packets>>
            ELSE IF w.kind = "port"
            THEN packets' = packets - Taken(w) /\ UNCHANGED <<loop, signaled>>
            ELSE /\ UNCHANGED packets
                 /\ IF w.all
                    THEN signaled' = signaled \ Range(w.targets) /\ UNCHANGED loop
                    ELSE LET i == First(Ready(w)) IN
                         IF \E k \in 1 .. i - 1 : w.targets[k] \in closed
                         THEN loop' = "failed" /\ UNCHANGED signaled
                         ELSE signaled' = signaled \ {w.targets[i]} /\ UNCHANGED loop

\* production_wait_supported: every handle still resolves.
production_wait_supported(w) ==
    /\ \A i \in DOMAIN w.targets : w.targets[i] \notin closed
    /\ w.kind = "port" => Port \notin closed

\* start_production_wait: subscribe, submit, record the job; or leave the wait
\* to the pump.
start_production_wait(t, w) ==
    IF production_wait_supported(w)
    THEN LET j == CHOOSE k \in Jobs : k \notin InUse IN
         /\ \E k \in Jobs : k \notin InUse
         /\ queue' = Append(queue, j)
         /\ owner' = [owner EXCEPT ![j] = t]
         /\ reason' = [reason EXCEPT ![j] = "none"]
         /\ production' = [production EXCEPT ![t] = j]
    ELSE production' = [production EXCEPT ![t] = NoJob] /\ UNCHANGED <<queue, owner, reason>>

\* ParkSignal::notify on the jobs in S: the first reason stays.
Notify(S) ==
    reason' = [j \in Jobs |-> IF j \in S /\ reason[j] = "none" THEN "notified" ELSE reason[j]]

\* Jobs subscribed to an object, or to a thread: waits for its end and the
\* thread's own alertable wait.
SubscribedTo(x) ==
    {j \in Waiting : LET w == wait[owner[j]] IN
                     \/ x \in Range(w.targets)
                     \/ x = owner[j] /\ w.alertable}

-----------------------------------------------------------------------------
\* Guest operations, run by the owner.

\* A wait thunk of t: complete at once, or park.  The run is pump-driven from
\* the moment the main thread parks.
Wait(t, w) ==
    /\ Owning
    /\ thread[t] = "running"
    /\ t \notin Range(w.targets)
    /\ production_wait_supported(w)
    /\ IF wait_satisfiable(t, w, FALSE)
       THEN /\ complete_wait(t, w, FALSE)
            /\ UNCHANGED <<thread, wait, due, closed, production, dropped, workers, pool>>
       ELSE /\ thread' = [thread EXCEPT ![t] = "parked"]
            /\ wait' = [wait EXCEPT ![t] = w]
            /\ due' = due \ {t}
            /\ loop' = IF t = Main THEN "pump" ELSE loop
            /\ start_production_wait(t, w)
            /\ UNCHANGED <<apc, signaled, closed, packets, dropped, workers, held, working,
                           completions, batch>>

\* A signal that reaches only the jobs that already have a worker.
SignalWorkersOnly(o) ==
    /\ Owning
    /\ \E t \in Threads : thread[t] = "running"
    /\ o \notin closed
    /\ signaled' = signaled \cup {o}
    /\ Notify(SubscribedTo(o) \cap working)
    /\ UNCHANGED <<loop, thread, wait, due, apc, closed, packets, production, dropped, workers,
                   owner, held, queue, working, completions, batch>>

\* SetEvent (ReleaseSemaphore, ReleaseMutex): notify_object_waiters.
Signal(o) ==
    /\ Owning
    /\ \E t \in Threads : thread[t] = "running"
    /\ o \notin closed
    /\ signaled' = signaled \cup {o}
    /\ Notify(SubscribedTo(o))
    /\ UNCHANGED <<loop, thread, wait, due, apc, closed, packets, production, dropped, workers,
                   owner, held, queue, working, completions, batch>>

\* The last handle to an object is closed.
CloseObject(o) ==
    /\ Owning
    /\ \E t \in Threads : thread[t] = "running"
    /\ o \notin closed
    /\ closed' = closed \cup {o}
    /\ Notify(SubscribedTo(o))
    /\ UNCHANGED <<loop, thread, wait, due, apc, signaled, packets, production, dropped, workers,
                   owner, held, queue, working, completions, batch>>

\* The last handle to the port is closed: its packets are gone, the workers on
\* it wake by themselves.
ClosePort ==
    /\ Owning
    /\ \E t \in Threads : thread[t] = "running"
    /\ Port \notin closed
    /\ closed' = closed \cup {Port}
    /\ packets' = 0
    /\ UNCHANGED <<loop, thread, wait, due, apc, signaled, production, dropped,
                   workers, pool>>

\* QueueUserAPC: notify_thread_apc.
QueueApc(t) ==
    /\ Owning
    /\ \E u \in Threads : thread[u] = "running"
    /\ t \in ApcTargets /\ ~Dead(t) /\ t \notin apc
    /\ apc' = apc \cup {t}
    /\ Notify(SubscribedTo(t))
    /\ UNCHANGED <<loop, thread, wait, due, signaled, closed, packets, production, dropped, workers,
                   owner, held, queue, working, completions, batch>>

\* The direct loop's safepoint delivers the main thread's APCs.
Safepoint ==
    /\ Owning
    /\ loop = "direct"
    /\ Main \in apc
    /\ apc' = apc \ {Main}
    /\ UNCHANGED <<loop, thread, wait, due, signaled, closed, packets, production, dropped,
                   workers, pool>>

\* PostQueuedCompletionStatus, by guest or host.
Post ==
    /\ packets < PacketLimit /\ Port \notin closed
    /\ packets' = packets + 1
    /\ UNCHANGED <<loop, thread, wait, due, apc, signaled, closed, production, dropped,
                   workers, pool>>

\* t returns or calls ExitThread: notify_thread_exit.  When the main thread
\* does, the pending threads are drained.
Exit(t) ==
    /\ Owning
    /\ thread[t] = "running"
    /\ thread' = [thread EXCEPT ![t] = "exited"]
    /\ loop' = IF t = Main /\ loop = "direct" THEN "drain" ELSE loop
    /\ Notify(SubscribedTo(t))
    /\ UNCHANGED <<wait, due, apc, signaled, closed, packets, production, dropped, workers,
                   owner, held, queue, working, completions, batch>>

\* TerminateThread on another thread that is in the pending queue: its record
\* and its exit code change, its job and those that wait for it do not hear of
\* it.
Terminate(t) ==
    /\ Owning
    /\ t # Main \/ loop = "pump"
    /\ \E u \in Threads \ {t} : thread[u] = "running"
    /\ ~Dead(t)
    /\ thread' = [thread EXCEPT ![t] = "terminated"]
    /\ UNCHANGED <<loop, wait, due, apc, signaled, closed, packets, production, dropped,
                   workers, pool>>

\* The guest clock passes the deadline of a parked wait.
Tick(t) ==
    /\ thread[t] = "parked"
    /\ wait[t].timed
    /\ t \notin due
    /\ due' = due \cup {t}
    /\ UNCHANGED <<loop, thread, wait, apc, signaled, closed, packets, production, dropped,
                   workers, pool>>

\* A parked thread becomes runnable and its descriptor is taken.
Resume(t) ==
    /\ thread' = [thread EXCEPT ![t] = "running"]
    /\ wait' = [wait EXCEPT ![t] = Idle]
    /\ due' = due \ {t}

\* pump_pending_guest_thread completes a wait that no worker has.
PumpCooperative(t) ==
    /\ Owning
    /\ thread[t] = "parked"
    /\ production[t] = NoJob
    /\ wait_satisfiable(t, wait[t], t \in due)
    /\ Resume(t)
    /\ complete_wait(t, wait[t], t \in due)
    /\ UNCHANGED <<closed, production, dropped, workers, pool>>

-----------------------------------------------------------------------------
\* Workers.

\* production_worker takes the oldest job.
Take ==
    /\ loop # "dropped"
    /\ queue # << >>
    /\ Cardinality(working) < workers
    /\ working' = working \cup {Head(queue)}
    /\ queue' = Tail(queue)
    /\ UNCHANGED <<guest, production, dropped, workers, owner, reason, held, completions, batch>>

Push(j) ==
    /\ working' = working \ {j}
    /\ completions' = Append(completions, j)

\* run_wait_job: the signal was notified; a port wait looks at the port first.
FinishNotified(j) ==
    /\ j \in working
    /\ reason[j] = "notified"
    /\ wait[owner[j]].kind = "port" => packets = 0 /\ Port \notin closed
    /\ Push(j)
    /\ UNCHANGED <<guest, production, dropped, workers, owner, reason, held, queue, batch>>

\* A port wait that is not given its deadline.
FinishDeadlineNotPort(j) ==
    /\ j \in working
    /\ wait[owner[j]].timed
    /\ wait[owner[j]].kind # "port" /\ reason[j] = "none"
    /\ reason' = [reason EXCEPT ![j] = "deadline"]
    /\ Push(j)
    /\ UNCHANGED <<guest, production, dropped, workers, owner, held, queue, batch>>

\* The deadline, unless a notification was there first.
FinishDeadline(j) ==
    /\ j \in working
    /\ wait[owner[j]].timed
    /\ wait[owner[j]].kind = "port" \/ reason[j] = "none"
    /\ reason' = [reason EXCEPT ![j] = "deadline"]
    /\ Push(j)
    /\ UNCHANGED <<guest, production, dropped, workers, owner, held, queue, batch>>

\* A dequeue that takes whatever there is.
FinishAllPackets(j) ==
    /\ j \in working
    /\ wait[owner[j]].kind = "port"
    /\ packets > 0
    /\ held' = [held EXCEPT ![j] = packets]
    /\ packets' = 0
    /\ reason' = [reason EXCEPT ![j] = "packets"]
    /\ Push(j)
    /\ UNCHANGED <<loop, thread, wait, due, apc, signaled, closed, production, dropped, workers,
                   owner, queue, batch>>

\* As many packets as there are and the wait has room for.
FinishPackets(j) ==
    /\ j \in working
    /\ wait[owner[j]].kind = "port"
    /\ packets > 0
    /\ held' = [held EXCEPT ![j] = Taken(wait[owner[j]])]
    /\ packets' = packets - held'[j]
    /\ reason' = [reason EXCEPT ![j] = "packets"]
    /\ Push(j)
    /\ UNCHANGED <<loop, thread, wait, due, apc, signaled, closed, production, dropped, workers,
                   owner, queue, batch>>

\* The port was closed.
FinishClosed(j) ==
    /\ j \in working
    /\ wait[owner[j]].kind = "port"
    /\ Port \in closed
    /\ reason' = [reason EXCEPT ![j] = "portClosed"]
    /\ Push(j)
    /\ UNCHANGED <<guest, production, dropped, workers, owner, held, queue, batch>>

-----------------------------------------------------------------------------
\* Completions.

\* A pass that reads the completions and leaves them.
ReapCopy ==
    /\ Owning
    /\ loop = "pump"
    /\ completions # << >> \/ \E t \in Threads : production[t] # NoJob /\ thread[t] # "parked"
    /\ production' = [t \in Threads |-> IF thread[t] = "parked" THEN production[t] ELSE NoJob]
    /\ batch' = completions
    /\ UNCHANGED <<guest, dropped, workers, owner, reason, held, queue, working, completions>>

\* prune_orphan_production_waits, then take_completions: only run_pump_driven
\* does so.
Reap ==
    /\ Owning
    /\ loop = "pump"
    /\ completions # << >> \/ \E t \in Threads : production[t] # NoJob /\ thread[t] # "parked"
    /\ production' = [t \in Threads |-> IF thread[t] = "parked" THEN production[t] ELSE NoJob]
    /\ batch' = completions
    /\ completions' = << >>
    /\ UNCHANGED <<guest, dropped, workers, owner, reason, held, queue, working>>

\* The job's record is dropped.
Retire(j) ==
    /\ owner' = [owner EXCEPT ![j] = Main]
    /\ reason' = [reason EXCEPT ![j] = "none"]
    /\ held' = [held EXCEPT ![j] = 0]

\* A completion of a job that is not current is ignored, with its packets.
ApplyStale(j, t) ==
    /\ production[t] # j
    /\ dropped' = dropped + held[j]
    /\ Retire(j)
    /\ UNCHANGED <<guest, production, queue>>

\* The worker's packets are handed over, or the end of the port reported; the
\* wait is not evaluated again.
ApplyPort(j, t) ==
    /\ production[t] = j
    /\ reason[j] \in {"packets", "portClosed"}
    /\ Resume(t)
    /\ production' = [production EXCEPT ![t] = NoJob]
    /\ Retire(j)
    /\ UNCHANGED <<loop, apc, signaled, closed, packets, dropped, queue>>

\* A worker's deadline brings the guest clock along.
Late(j, t) == t \in due \/ reason[j] = "deadline"

ApplyResume(j, t) ==
    /\ production[t] = j
    /\ reason[j] \notin {"packets", "portClosed"}
    /\ wait_satisfiable(t, wait[t], Late(j, t))
    /\ Resume(t)
    /\ production' = [production EXCEPT ![t] = NoJob]
    /\ complete_wait(t, wait[t], Late(j, t))
    /\ Retire(j)
    /\ UNCHANGED <<closed, dropped, queue>>

\* Not satisfiable after all: the thread is parked again, with a new job.
ApplyRepark(j, t) ==
    /\ production[t] = j
    /\ reason[j] \notin {"packets", "portClosed"}
    /\ ~wait_satisfiable(t, wait[t], Late(j, t))
    /\ start_production_wait(t, wait[t])
    /\ UNCHANGED <<guest, dropped, held>>

Apply ==
    /\ batch # << >>
    /\ LET j == Head(batch) IN
         \/ ApplyStale(j, owner[j])
         \/ ApplyPort(j, owner[j])
         \/ ApplyResume(j, owner[j])
         \/ ApplyRepark(j, owner[j])
    /\ batch' = IF loop' = "failed" THEN << >> ELSE Tail(batch)
    /\ UNCHANGED <<workers, working, completions>>

\* A drop that notifies the queued jobs only.
DropQueued ==
    /\ loop # "dropped" /\ batch = << >>
    /\ loop' = "dropped"
    /\ Notify(Range(queue))
    /\ UNCHANGED <<thread, wait, due, apc, signaled, closed, packets, production, dropped, workers,
                   owner, held, queue, working, completions, batch>>

\* Drop for ProductionScheduler: every signal is notified; a worker takes no
\* further job.
Drop ==
    /\ loop # "dropped" /\ batch = << >>
    /\ loop' = "dropped"
    /\ Notify(Waiting)
    /\ UNCHANGED <<thread, wait, due, apc, signaled, closed, packets, production, dropped, workers,
                   owner, held, queue, working, completions, batch>>

Finish(j) == FinishNotified(j) \/ FinishDeadline(j) \/ FinishPackets(j) \/ FinishClosed(j)

Next ==
    \/ \E t \in Threads :
           \/ \E w \in Waits[t] : Wait(t, w)
           \/ QueueApc(t) \/ Exit(t) \/ Terminate(t) \/ Tick(t) \/ PumpCooperative(t)
    \/ \E o \in Objects : Signal(o) \/ CloseObject(o)
    \/ Post \/ ClosePort \/ Safepoint
    \/ Take
    \/ \E j \in Jobs : Finish(j)
    \/ Reap
    \/ Apply
    \/ Drop

Spec == Init /\ [][Next]_vars

\* Workers and the owner's loop are scheduled and clocks run; guest code need
\* not do anything.  The pump takes the first ready record and requeues at the
\* end, so it does not pass over a ready thread for ever.
FairSpec ==
    /\ Spec
    /\ WF_vars(Take) /\ WF_vars(Reap) /\ WF_vars(Apply)
    /\ \A j \in Jobs : WF_vars(Finish(j))
    /\ \A t \in Threads : WF_vars(Tick(t)) /\ SF_vars(PumpCooperative(t))

-----------------------------------------------------------------------------

TypeOK ==
    /\ loop \in {"direct", "pump", "drain", "failed", "dropped"}
    /\ thread \in [Threads -> {"running", "parked", "exited", "terminated"}]
    /\ \A t \in Threads : wait[t] \in Waits[t] \cup {Idle}
    /\ production \in [Threads -> Jobs \cup {NoJob}]
    /\ due \subseteq Threads /\ apc \subseteq Threads
    /\ signaled \subseteq Objects /\ closed \subseteq Objects \cup {Port}
    /\ packets \in 0 .. PacketLimit
    /\ dropped \in Nat
    /\ owner \in [Jobs -> Threads]
    /\ reason \in [Jobs -> {"none", "notified", "deadline", "packets", "portClosed"}]
    /\ held \in [Jobs -> Nat]
    /\ workers \in PoolSizes
    /\ working \subseteq Jobs
    /\ queue \in Seq(Jobs) /\ completions \in Seq(Jobs) /\ batch \in Seq(Jobs)

\* submit, production_worker and apply_production_completion: while the run
\* goes on, the job of a thread parked in production is in exactly one place,
\* and the pool never works on more jobs than it has workers.  (A run that
\* fails while it applies completions drops the rest of them.)
JobAccountedOnce ==
    /\ loop \notin {"failed", "dropped"} =>
         \A t \in Threads : thread[t] = "parked" /\ production[t] # NoJob =>
           LET j == production[t]
               At(s) == Cardinality({i \in DOMAIN s : s[i] = j})
           IN  /\ At(queue) + At(completions) + At(batch) + (IF j \in working THEN 1 ELSE 0) = 1
               /\ owner[j] = t
    /\ Cardinality(working) <= workers

\* The wait of t can be completed by an APC or by its objects; an end of a
\* thread through TerminateThread is left out.
Wakeable(t) ==
    LET w == wait[t] IN
    /\ \A i \in DOMAIN w.targets : w.targets[i] \in Threads => thread[w.targets[i]] # "terminated"
    /\ \/ w.alertable /\ t \in apc
       \/ w.kind = "objects" /\ wait_satisfiable(t, [w EXCEPT !.alertable = FALSE], FALSE)

\* ParkSignal and WakeBus: whenever a parked wait can be completed, its job was
\* notified or is on its way back, so the wake cannot be lost between the
\* subscription, the queue, the worker and the completion pass.
NoStrandedWait ==
    \A t \in Threads :
        (loop \notin {"failed", "dropped"} /\ thread[t] = "parked" /\ production[t] # NoJob /\ Wakeable(t))
            => \/ production[t] \in Waiting /\ reason[production[t]] # "none"
               \/ production[t] \in Range(completions) \cup Range(batch)

\* The packets in the completion of j are lost if its thread was terminated.
Lost(j) == IF thread[owner[j]] = "terminated" THEN held[j] ELSE 0

\* Orphaned jobs: the packets that a completion carries are lost only with a
\* terminated thread, and with each no more than its last wait had room for.
LossBounded ==
    dropped + MapThenSumSet(Lost, Range(completions) \cup Range(batch))
        <= MapThenSumSet(LAMBDA t : wait[t].most, {t \in Threads : thread[t] = "terminated"})

\* Every worker sits in a wait that nothing but an event ends.
Saturated ==
    Cardinality(working) = workers /\ \A j \in working : ~wait[owner[j]].timed

\* complete_wait: a wait with a timeout ends, while the run is pump-driven,
\* however often its thread is woken for nothing, unless the pool stays full
\* of waits without one: a queued job has no clock.
TimedWaitReturns ==
    \A t \in Threads :
        [](loop = "pump" /\ thread[t] = "parked" /\ wait[t].timed
              => <>(thread[t] # "parked" \/ loop # "pump" \/ []Saturated))

\* Drop for ProductionScheduler joins its workers: each of them leaves its job.
DropReturns == loop = "dropped" ~> working = {}

\* run_block_dispatch_safepoint and the drain loop: "which is what lets a
\* Sleep(20) worker finish while the main thread spins"; a timed wait returns
\* whatever loop the owner is in.
TimedWaitAlwaysReturns ==
    \A t \in Threads :
        (thread[t] = "parked" /\ wait[t].timed)
            ~> (thread[t] # "parked" \/ loop \in {"failed", "dropped"})

\* "woken by a real event": an APC queued to an alertable wait ends it.
ApcEndsWait ==
    \A t \in Threads :
        (loop = "pump" /\ thread[t] = "parked" /\ wait[t].alertable /\ t \in apc)
            ~> (thread[t] # "parked" \/ loop # "pump")

\* "a join parked on a native worker learns about every exit source, including
\* TerminateThread".
JoinLearnsOfExit ==
    \A t, u \in Threads :
        (thread[t] = "parked" /\ production[t] \in Waiting /\ wait[t].targets = <<u>> /\ Dead(u))
            => reason[production[t]] # "none"

\* start_production_wait "never loses the wait": closing another handle of a
\* wait does not end the run.
RunSurvivesClose == loop # "failed"

=============================================================================
