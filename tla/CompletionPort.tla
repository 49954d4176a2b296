--------------------------- MODULE CompletionPort ---------------------------
(***************************************************************************)
(* The I/O completion port of src/src/win32.rs (CompletionPortWaitState):   *)
(* a FIFO of packets, a set of threads that hold one of the port's active   *)
(* slots, and a condition variable for threads that wait for a packet.      *)
(* Every section under the port's mutex is one step.  A thread blocked in   *)
(* the condition variable has the label "sleep"; a notification moves it to *)
(* "notified" and its timeout to "expired", and in both it takes the mutex  *)
(* again in a later step, so that other threads may run in between.         *)
(***************************************************************************)
EXTENDS Naturals, Sequences, FiniteSets

CONSTANTS
    Threads,             \* guest threads that dequeue from the port
    Packets,             \* packets, each posted at most once
    Concurrency,         \* values SetCompletionPortConcurrency is called with
    DefaultConcurrency   \* number of processors

ASSUME ThreadsFinite == IsFiniteSet(Threads)

ASSUME ConcurrencyAssumption == /\ Concurrency \subseteq Nat
                                /\ DefaultConcurrency \in Nat \ {0}

VARIABLES
    queue,       \* packets posted and not removed, oldest first
    configured,  \* configured_concurrency, 0 for the default
    active,      \* active_threads
    closed,
    pc,          \* where each thread is
    deadline,    \* of the thread's wait: "none", "ahead" or "passed"
    handle,      \* some handle to the thread object is open
    posted,      \* history: every packet accepted, in order
    delivered,   \* history: every packet handed out, in order
    discarded    \* history: the packets invalidated by close

port == <<queue, configured, active, closed>>
history == <<posted, delivered, discarded>>
vars == <<port, pc, deadline, handle, history>>

Labels == {"run", "sleep", "notified", "expired", "exited"}

At(label) == {t \in Threads : pc[t] = label}

Sleeping == At("sleep")

\* Threads counted by `waiters`: the counter is decremented only once the
\* thread has the mutex again.
Waiters == At("sleep") \cup At("notified") \cup At("expired")

effective_limit(c) == IF c = 0 THEN DefaultConcurrency ELSE c

\* The mapping of labels after Condvar::notify_one / notify_all.
NotifyOne(labels) ==
    LET asleep == {t \in Threads : labels[t] = "sleep"} IN
    IF asleep = {}
    THEN {labels}
    ELSE {[labels EXCEPT ![t] = "notified"] : t \in asleep}

NotifyAll(labels) ==
    [t \in Threads |-> IF labels[t] = "sleep" THEN "notified" ELSE labels[t]]

\* wake_eligible_waiter: the labels it may leave, from the labels, the number
\* of waiters, the queue, the active set and whether the port is closed.
wake_eligible_waiter(labels, nobody, q, act, shut) ==
    IF nobody \/ q = << >> \/ shut
    THEN {labels}
    ELSE IF Cardinality(act) < effective_limit(configured)
         THEN NotifyOne(labels)
         ELSE {labels}

\* A queue that is examined without the test for a free slot.
MayTakeAlways(t) == queue # << >>

\* take_locked's admission test.
MayTake(t) ==
    /\ queue # << >>
    /\ t \in active \/ Cardinality(active) < effective_limit(configured)

\* A batch that is handed out without leaving the queue.
TakePeek(t, n) ==
    LET k == IF n < Len(queue) THEN n ELSE Len(queue) IN
    /\ queue' = SubSeq(queue, k, Len(queue))
    /\ delivered' = delivered \o SubSeq(queue, 1, k)
    /\ active' = active \cup {t}

\* take_locked: up to n packets from the front, and an active slot.
Take(t, n) ==
    LET k == IF n < Len(queue) THEN n ELSE Len(queue) IN
    /\ queue' = SubSeq(queue, k + 1, Len(queue))
    /\ delivered' = delivered \o SubSeq(queue, 1, k)
    /\ active' = active \cup {t}

-----------------------------------------------------------------------------

Init ==
    /\ queue = << >>
    /\ configured \in Concurrency
    /\ active = {}
    /\ closed = FALSE
    /\ pc = [t \in Threads |-> "run"]
    /\ deadline = [t \in Threads |-> "none"]
    /\ handle = [t \in Threads |-> TRUE]
    /\ posted = << >> /\ delivered = << >> /\ discarded = << >>

\* The loop of wait_dequeue_as reports that the port is closed.
ReturnClosed(t) ==
    /\ closed
    /\ active' = active \ {t}
    /\ pc' = [pc EXCEPT ![t] = "run"]
    /\ UNCHANGED <<queue, configured, closed, history>>

\* It returns a batch of at most n packets.
ReturnPackets(t, n) ==
    /\ ~closed
    /\ MayTake(t)
    /\ Take(t, n)
    /\ pc' = [pc EXCEPT ![t] = "run"]
    /\ UNCHANGED <<configured, closed, posted, discarded>>

\* It finds nothing to take, gives up its active slot (waking a waiter that
\* can use it) and goes to label `next`: back to the caller or to sleep.
ReturnNothing(t, next) ==
    /\ ~closed
    /\ ~MayTake(t)
    /\ active' = active \ {t}
    /\ \E labels \in
           (IF t \in active
            THEN wake_eligible_waiter(pc, Waiters \ {t} = {}, queue, active', closed)
            ELSE {pc}) :
           pc' = [labels EXCEPT ![t] = next]
    /\ UNCHANGED <<queue, configured, closed, history>>

\* GetQueuedCompletionStatus(Ex): timeout is "zero", "finite" or "infinite".
WaitDequeue(t, n, timeout) ==
    /\ pc[t] = "run"
    /\ deadline' = [deadline EXCEPT ![t] = IF timeout = "finite" THEN "ahead" ELSE "none"]
    /\ \/ ReturnClosed(t)
       \/ ReturnPackets(t, n)
       \/ ReturnNothing(t, IF timeout = "zero" THEN "run" ELSE "sleep")
    /\ UNCHANGED handle

\* A loop that goes back to sleep without a look at the clock.
SleepAgain(t) == "sleep"

\* Where a woken thread that finds nothing goes: one whose deadline has passed
\* does not sleep a second time.
AfterNothing(t) == IF deadline[t] = "passed" THEN "run" ELSE "sleep"

\* A thread whose wait timed out and that finds the queue empty reports just
\* that, without a look at `closed`.
ReturnTimedOut(t) ==
    /\ pc[t] = "expired"
    /\ queue = << >>
    /\ pc' = [pc EXCEPT ![t] = "run"]
    /\ UNCHANGED <<port, history>>

\* A woken thread has the mutex again: after any other wake-up the loop starts
\* over.
Resume(t, n) ==
    /\ pc[t] \in {"notified", "expired"}
    /\ \/ ReturnTimedOut(t)
       \/ /\ pc[t] = "notified" \/ queue # << >>
          /\ ReturnClosed(t) \/ ReturnPackets(t, n) \/ ReturnNothing(t, AfterNothing(t))
    /\ UNCHANGED <<deadline, handle>>

\* The clock reaches the deadline of a thread's wait.
PassDeadline(t) ==
    /\ pc[t] \in {"sleep", "notified"}
    /\ deadline[t] = "ahead"
    /\ deadline' = [deadline EXCEPT ![t] = "passed"]
    /\ UNCHANGED <<port, pc, handle, history>>

\* Condvar::wait_timeout returns because of the time.
Timeout(t) ==
    /\ pc[t] = "sleep"
    /\ deadline[t] = "passed"
    /\ pc' = [pc EXCEPT ![t] = "expired"]
    /\ UNCHANGED <<port, deadline, handle, history>>

SpuriousWake(t) ==
    /\ pc[t] = "sleep"
    /\ pc' = [pc EXCEPT ![t] = "notified"]
    /\ UNCHANGED <<port, deadline, handle, history>>

\* A post that notifies before the packet is in the queue.
PostLate(p) ==
    /\ ~closed
    /\ \A i \in 1 .. Len(posted) : posted[i] # p
    /\ queue' = Append(queue, p)
    /\ posted' = Append(posted, p)
    /\ pc' \in wake_eligible_waiter(pc, Waiters = {}, queue, active, closed)
    /\ UNCHANGED <<configured, active, closed, deadline, handle, delivered, discarded>>

\* post: the packet is queued and one eligible waiter is woken.
Post(p) ==
    /\ ~closed
    /\ \A i \in 1 .. Len(posted) : posted[i] # p
    /\ queue' = Append(queue, p)
    /\ posted' = Append(posted, p)
    /\ pc' \in wake_eligible_waiter(pc, Waiters = {}, queue', active, closed)
    /\ UNCHANGED <<configured, active, closed, deadline, handle, delivered, discarded>>

\* set_concurrency: every waiter is woken when packets have become eligible.
SetConcurrency(c) ==
    /\ c # configured
    /\ configured' = c
    /\ pc' = IF /\ ~closed
                /\ queue # << >>
                /\ Cardinality(active) < effective_limit(c)
             THEN NotifyAll(pc)
             ELSE pc
    /\ UNCHANGED <<queue, active, closed, deadline, handle, history>>

\* A close that leaves the waiters asleep.
CloseQuietly ==
    /\ ~closed
    /\ closed' = TRUE
    /\ discarded' = queue
    /\ queue' = << >>
    /\ active' = {}
    /\ UNCHANGED <<pc, configured, deadline, handle, posted, delivered>>

\* close: the last handle to the port is gone.
Close ==
    /\ ~closed
    /\ closed' = TRUE
    /\ discarded' = queue
    /\ queue' = << >>
    /\ active' = {}
    /\ pc' = NotifyAll(pc)
    /\ UNCHANGED <<configured, deadline, handle, posted, delivered>>

\* release_active_as, with the thread at label `next` afterwards.
ReleaseActive(t) ==
    /\ active' = active \ {t}
    /\ pc' \in (IF t \in active
                THEN wake_eligible_waiter(pc, Waiters = {}, queue, active', closed)
                ELSE {pc})

\* The thread returns or calls ExitThread.  set_thread_exit_code_by_id runs
\* while the thread is still the current one, so cleanup_exited_thread_state
\* returns at its first test and the slot stays where it is.
Exit(t) ==
    /\ pc[t] = "run"
    /\ pc' = [pc EXCEPT ![t] = "exited"]
    /\ UNCHANGED <<port, deadline, handle, history>>

\* CloseHandle on the last handle to the thread: an exited thread's slot is
\* released, a running thread keeps it.
CloseThreadHandle(t) ==
    /\ handle[t]
    /\ handle' = [handle EXCEPT ![t] = FALSE]
    /\ IF pc[t] = "exited"
       THEN ReleaseActive(t)
       ELSE UNCHANGED <<active, pc>>
    /\ UNCHANGED <<queue, configured, closed, deadline, history>>

Next ==
    \/ \E t \in Threads, n \in {1, 2}, timeout \in {"zero", "finite", "infinite"} :
           WaitDequeue(t, n, timeout)
    \/ \E t \in Threads, n \in {1, 2} : Resume(t, n)
    \/ \E t \in Threads :
           \/ PassDeadline(t) \/ Timeout(t) \/ SpuriousWake(t)
           \/ Exit(t) \/ CloseThreadHandle(t)
    \/ \E p \in Packets : Post(p)
    \/ \E c \in Concurrency : SetConcurrency(c)
    \/ Close

Spec == Init /\ [][Next]_vars

\* The host schedules a thread that is awake and the clock runs; nobody has
\* to call the port again.
FairSpec ==
    /\ Spec
    /\ \A t \in Threads :
           /\ WF_vars(\E n \in {1, 2} : Resume(t, n))
           /\ WF_vars(PassDeadline(t))
           /\ WF_vars(Timeout(t))

-----------------------------------------------------------------------------

TypeOK ==
    /\ queue \in Seq(Packets)
    /\ configured \in Concurrency
    /\ active \subseteq Threads
    /\ closed \in BOOLEAN
    /\ pc \in [Threads -> Labels]
    /\ deadline \in [Threads -> {"none", "ahead", "passed"}]
    /\ handle \in [Threads -> BOOLEAN]
    /\ posted \in Seq(Packets)
    /\ delivered \in Seq(Packets)
    /\ discarded \in Seq(Packets)

\* take_locked / post / release_active_as: while a packet is queued, a slot is
\* free and a thread sleeps in the condition variable, some thread is already
\* on its way back to the queue.  No interleaving of posts, releases, timeouts
\* and limit changes strands a packet with an eligible waiter.
NoStrandedPacket ==
    (queue # << >> /\ Cardinality(active) < effective_limit(configured) /\ Sleeping # {})
        => At("notified") \cup At("expired") # {}

\* close: a closed port has no sleeping waiter, so each of them learns of it
\* (ERROR_ABANDONED_WAIT_0).
ClosedWakesAll == closed => Sleeping = {}

\* Nobody sleeps on the port for nothing: neither through a packet that it could
\* take nor through the end of the port.
NobodyStranded == NoStrandedPacket /\ ClosedWakesAll

\* take_locked and close: packets leave in the order they were posted, each
\* handed to one caller only or invalidated by close.
FifoExactlyOnce == posted = delivered \o queue \o discarded

\* take_locked: whatever the limit was before, no dequeue lets the number of
\* active threads grow beyond the limit in force.
GrowthWithinLimit ==
    [][active' \subseteq active \/ Cardinality(active') <= effective_limit(configured)]_vars

\* wait_dequeue_as: a wait with a deadline returns.
TimedWaitReturns ==
    \A t \in Threads : (t \in Waiters /\ deadline[t] # "none") ~> pc[t] = "run"

\* cleanup_exited_thread_state: "a guest thread stops holding completion-port
\* concurrency slots when it exits".
ExitedHoldsNoSlot == \A t \in Threads : pc[t] = "exited" => t \notin active

=============================================================================
