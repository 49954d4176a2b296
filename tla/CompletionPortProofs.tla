------------------------ MODULE CompletionPortProofs ------------------------
(***************************************************************************)
(* NoStrandedPacket and ClosedWakesAll of CompletionPort, for any finite    *)
(* set of threads, any packets and any concurrency limits.  The invariant   *)
(* counts: while somebody sleeps, the threads on their way back to the      *)
(* queue are at least as many as the packets, or with the active threads    *)
(* they fill the limit.                                                     *)
(***************************************************************************)
EXTENDS CompletionPort, FiniteSetTheorems, SequenceTheorems, TLAPS

Awake == At("notified") \cup At("expired")

(* Threads that wait have no active slot. *)
WaitersInactive == \A t \in active : pc[t] \in {"run", "exited"}

(* A closed port is empty and nobody sleeps on it. *)
ClosedEmpty == closed => queue = << >> /\ Sleeping = {}

(* The balance of packets, free slots and threads on their way. *)
Balance ==
    Sleeping # {} => \/ Cardinality(Awake) >= Len(queue)
                     \/ Cardinality(Awake) + Cardinality(active) >= effective_limit(configured)

IInv == TypeOK /\ WaitersInactive /\ ClosedEmpty /\ Balance

(* Cardinalities of sets of threads, which are finite. *)
LEMMA Counting ==
  ASSUME NEW S \in SUBSET Threads
  PROVE  /\ IsFiniteSet(S)
         /\ Cardinality(S) \in Nat
         /\ Cardinality(S) = 0 <=> S = {}
         /\ \A t : Cardinality(S \cup {t}) = IF t \in S THEN Cardinality(S) ELSE Cardinality(S) + 1
         /\ \A t : Cardinality(S \ {t}) = IF t \in S THEN Cardinality(S) - 1 ELSE Cardinality(S)
         /\ \A R \in SUBSET S : Cardinality(R) \in Nat /\ Cardinality(R) <= Cardinality(S)
BY Zenon, ThreadsFinite, FS_Subset, FS_CardinalityType, FS_EmptySet, FS_AddElement, FS_RemoveElement

(* A limit is a natural number. *)
LEMMA LimitNat == \A c \in Concurrency : effective_limit(c) \in Nat
BY ConcurrencyAssumption DEF effective_limit

(* The loop takes at least one packet off a queue that is not empty. *)
LEMMA TakeShortens ==
  ASSUME NEW n \in {1, 2}, NEW t \in Threads, TypeOK, queue # << >>, Take(t, n)
  PROVE  /\ queue' \in Seq(Packets)
         /\ delivered' \in Seq(Packets)
         /\ Len(queue') < Len(queue)
         /\ active' = active \cup {t}
<1> DEFINE k == IF n < Len(queue) THEN n ELSE Len(queue)
<1>1. queue \in Seq(Packets) /\ delivered \in Seq(Packets) BY DEF TypeOK
<1>2. Len(queue) \in Nat /\ Len(queue) > 0 BY <1>1, EmptySeq
<1>3. k \in 1 .. Len(queue) BY <1>2
<1>4. queue' = SubSeq(queue, k + 1, Len(queue)) /\ delivered' = delivered \o SubSeq(queue, 1, k)
      /\ active' = active \cup {t}
  BY DEF Take
<1> HIDE DEF k
<1>5. SubSeq(queue, k + 1, Len(queue)) \in Seq(Packets) /\ SubSeq(queue, 1, k) \in Seq(Packets)
  BY <1>1, <1>2, <1>3
<1>6. Len(queue') = Len(queue) - k BY <1>1, <1>2, <1>3, <1>4
<1> QED BY <1>1, <1>2, <1>3, <1>4, <1>5, <1>6

(* Where the threads are after one of them has moved. *)
LEMMA Moved ==
  ASSUME pc \in [Threads -> Labels], NEW t \in Threads, NEW l \in Labels,
         pc' = [pc EXCEPT ![t] = l]
  PROVE  /\ pc' \in [Threads -> Labels]
         /\ \A x : At(x)' = IF x = l THEN At(x) \cup {t} ELSE At(x) \ {t}
BY DEF At

(* wake_eligible_waiter: what a wake-up does to the labels.  Either nobody is
   moved, or one sleeping thread is. *)
LEMMA WakeMoves ==
  ASSUME pc \in [Threads -> Labels], NEW nobody, NEW q, NEW act, NEW shut,
         NEW labels \in wake_eligible_waiter(pc, nobody, q, act, shut)
  PROVE  \/ labels = pc
         \/ \E u \in Sleeping : labels = [pc EXCEPT ![u] = "notified"]
BY DEF wake_eligible_waiter, NotifyOne, Sleeping, At

(* wake_eligible_waiter: with a packet, a free slot and a sleeping thread, the
   wake-up reaches one. *)
LEMMA WakeReaches ==
  ASSUME pc \in [Threads -> Labels], NEW q, NEW act, q # << >>,
         Cardinality(act) < effective_limit(configured), Sleeping # {},
         NEW labels \in wake_eligible_waiter(pc, FALSE, q, act, FALSE)
  PROVE  \E u \in Sleeping : labels = [pc EXCEPT ![u] = "notified"]
BY DEF wake_eligible_waiter, NotifyOne, Sleeping, At

(* A notified thread joins those on their way, and nobody else moves. *)
LEMMA NotifiedSets ==
  ASSUME pc \in [Threads -> Labels], NEW u \in Sleeping, pc' = [pc EXCEPT ![u] = "notified"]
  PROVE  /\ pc' \in [Threads -> Labels]
         /\ Sleeping' = Sleeping \ {u}
         /\ Awake' = Awake \cup {u}
         /\ u \notin Awake
         /\ u \in Threads
         /\ \A x : x \notin {"sleep", "notified"} => At(x)' = At(x)
<1>1. u \in Threads /\ pc[u] = "sleep" BY DEF Sleeping, At
<1>2. "notified" \in Labels BY DEF Labels
<1>3. pc' \in [Threads -> Labels] /\ \A x : At(x)' = IF x = "notified" THEN At(x) \cup {u} ELSE At(x) \ {u}
  BY Zenon, <1>1, <1>2, Moved
<1>4. \A x : x # "sleep" => u \notin At(x) BY <1>1 DEF At
<1> QED BY Zenon, <1>1, <1>3, <1>4 DEF Sleeping, Awake

(* A step that finds the port closed. *)
LEMMA ClosedStep ==
  ASSUME IInv, NEW t \in Threads, pc[t] \in {"run", "notified", "expired"},
         ReturnClosed(t), handle' = handle,
         deadline' \in [Threads -> {"none", "ahead", "passed"}]
  PROVE  IInv'
<1> USE DEF IInv
<1>1. "run" \in Labels BY DEF Labels
<1>2. pc \in [Threads -> Labels] BY DEF TypeOK
<1>3. pc' = [pc EXCEPT ![t] = "run"] /\ active' = active \ {t} /\ closed /\ closed' = closed
      /\ queue' = queue /\ configured' = configured
      /\ posted' = posted /\ delivered' = delivered /\ discarded' = discarded
  BY DEF ReturnClosed, history
<1>4. pc' \in [Threads -> Labels] /\ \A x : At(x)' = IF x = "run" THEN At(x) \cup {t} ELSE At(x) \ {t}
  BY Zenon, <1>1, <1>2, <1>3, Moved
<1>5. closed' \in BOOLEAN BY <1>3, Zenon DEF TypeOK
<1>6. TypeOK' BY <1>3, <1>4, <1>5 DEF TypeOK
<1>7. Sleeping' = {} /\ queue' = << >> BY <1>3, <1>4 DEF ClosedEmpty, Sleeping
<1>8. WaitersInactive' BY <1>2, <1>3 DEF WaitersInactive, TypeOK
<1> QED BY <1>6, <1>7, <1>8 DEF ClosedEmpty, Balance

(* A step that reports a timeout: with an empty queue nobody is owed a wake. *)
LEMMA TimedOutStep ==
  ASSUME IInv, NEW t \in Threads, ReturnTimedOut(t), UNCHANGED <<deadline, handle>>
  PROVE  IInv'
<1> USE DEF IInv
<1>1. "run" \in Labels /\ pc[t] = "expired" BY DEF Labels, ReturnTimedOut
<1>2. pc \in [Threads -> Labels] BY DEF TypeOK
<1>3. pc' = [pc EXCEPT ![t] = "run"] /\ queue = << >>
      /\ UNCHANGED <<queue, configured, active, closed, posted, delivered, discarded, deadline, handle>>
  BY DEF ReturnTimedOut, port, history
<1>4. pc' \in [Threads -> Labels] /\ \A x : At(x)' = IF x = "run" THEN At(x) \cup {t} ELSE At(x) \ {t}
  BY Zenon, <1>1, <1>2, <1>3, Moved
<1>5. closed' \in BOOLEAN BY <1>3, Zenon DEF TypeOK
<1>6. TypeOK' BY <1>3, <1>4, <1>5 DEF TypeOK
<1>7. Sleeping' = Sleeping BY <1>1, <1>4 DEF Sleeping, At
<1>8. WaitersInactive' BY <1>2, <1>3 DEF WaitersInactive, TypeOK
<1>9. ClosedEmpty' BY <1>3, <1>7 DEF ClosedEmpty
<1>10. Awake' \in SUBSET Threads BY DEF Awake, At
<1>11. Cardinality(Awake') \in Nat /\ Len(queue') = 0 BY <1>3, <1>10, Counting
<1>12. Balance' BY <1>11 DEF Balance
<1> QED BY <1>6, <1>8, <1>9, <1>12

(* A step that takes packets. *)
LEMMA PacketsStep ==
  ASSUME IInv, NEW t \in Threads, NEW n \in {1, 2}, pc[t] \in {"run", "notified", "expired"},
         ReturnPackets(t, n), handle' = handle,
         deadline' \in [Threads -> {"none", "ahead", "passed"}]
  PROVE  IInv'
<1> USE DEF IInv
<1>1. "run" \in Labels BY DEF Labels
<1>2. pc \in [Threads -> Labels] /\ active \in SUBSET Threads BY DEF TypeOK
<1>3. pc' = [pc EXCEPT ![t] = "run"] /\ ~closed /\ closed' = closed /\ configured' = configured
      /\ posted' = posted /\ discarded' = discarded /\ queue # << >> /\ Take(t, n)
  BY DEF ReturnPackets, MayTake
<1>4. pc' \in [Threads -> Labels] /\ \A x : At(x)' = IF x = "run" THEN At(x) \cup {t} ELSE At(x) \ {t}
  BY Zenon, <1>1, <1>2, <1>3, Moved
<1>5. queue' \in Seq(Packets) /\ delivered' \in Seq(Packets) /\ Len(queue') < Len(queue)
      /\ active' = active \cup {t}
  BY <1>3, TakeShortens
<1>6. closed' \in BOOLEAN /\ ~closed' BY <1>3, Zenon DEF TypeOK
<1>7. TypeOK' BY <1>3, <1>4, <1>5, <1>6 DEF TypeOK
<1>8. WaitersInactive' BY <1>2, <1>3, <1>5 DEF WaitersInactive
<1>9. Balance'
  <2>1. Sleeping' = Sleeping /\ Awake' = Awake \ {t}
    BY <1>2, <1>4 DEF Sleeping, Awake, At
  <2>2. t \in Awake => t \notin active BY DEF Awake, At, WaitersInactive
  <2>3. Awake \in SUBSET Threads BY DEF Awake, At
  <2>4. /\ Cardinality(Awake) \in Nat /\ Cardinality(active) \in Nat
        /\ Cardinality(Awake') = IF t \in Awake THEN Cardinality(Awake) - 1 ELSE Cardinality(Awake)
        /\ Cardinality(active') = IF t \in active THEN Cardinality(active) ELSE Cardinality(active) + 1
    BY <1>2, <1>5, <2>1, <2>3, Counting
  <2>5. Len(queue) \in Nat /\ Len(queue') \in Nat BY <1>5 DEF TypeOK
  <2>6. effective_limit(configured) \in Nat /\ effective_limit(configured') = effective_limit(configured)
    BY <1>3, LimitNat DEF TypeOK
  <2> QED BY <1>5, <2>1, <2>2, <2>4, <2>5, <2>6 DEF Balance
<1> QED BY <1>6, <1>7, <1>8, <1>9 DEF ClosedEmpty

(* A step that finds nothing to take.  A thread with a slot finds nothing only
   in an empty queue, so the wake-up in this branch moves nobody. *)
LEMMA NothingStep ==
  ASSUME IInv, NEW t \in Threads, NEW next \in {"run", "sleep"},
         pc[t] \in {"run", "notified", "expired"}, ReturnNothing(t, next), handle' = handle,
         deadline' \in [Threads -> {"none", "ahead", "passed"}]
  PROVE  IInv'
<1> USE DEF IInv
<1>1. next \in Labels BY DEF Labels
<1>2. pc \in [Threads -> Labels] /\ active \in SUBSET Threads BY DEF TypeOK
<1>3. ~closed /\ closed' = closed /\ configured' = configured /\ queue' = queue
      /\ posted' = posted /\ delivered' = delivered /\ discarded' = discarded
      /\ ~MayTake(t) /\ active' = active \ {t}
  BY DEF ReturnNothing, history
<1>4. t \in active => queue = << >> BY <1>3 DEF MayTake
<1>5. pc' = [pc EXCEPT ![t] = next]
  <2>1. CASE t \in active
    BY <1>4, <2>1 DEF ReturnNothing, wake_eligible_waiter
  <2>2. CASE t \notin active
    BY <2>2 DEF ReturnNothing
  <2> QED BY <2>1, <2>2
<1>6. pc' \in [Threads -> Labels] BY <1>1, <1>2, <1>5, Moved
<1>7. closed' \in BOOLEAN /\ ~closed' BY <1>3, Zenon DEF TypeOK
<1>8. TypeOK' BY <1>2, <1>3, <1>6, <1>7 DEF TypeOK
<1>9. WaitersInactive' BY <1>2, <1>3, <1>5 DEF WaitersInactive
<1>10. Balance'
  <2>1. Awake' \in SUBSET Threads BY DEF Awake, At
  <2>2. Cardinality(Awake') \in Nat /\ Cardinality(active) \in Nat BY <1>2, <2>1, Counting
  <2>3. CASE queue = << >>
    BY <1>3, <2>2, <2>3 DEF Balance
  <2>4. CASE queue # << >>
    <3>1. t \notin active /\ ~(Cardinality(active) < effective_limit(configured))
      BY <1>3, <2>4 DEF MayTake
    <3>2. active' = active BY <1>3, <3>1
    <3>3. effective_limit(configured) \in Nat BY LimitNat DEF TypeOK
    <3>4. effective_limit(configured') = effective_limit(configured) BY <1>3
    <3>5. Cardinality(Awake') + Cardinality(active) >= effective_limit(configured)
      BY <2>2, <3>1, <3>3
    <3> QED BY <3>2, <3>4, <3>5 DEF Balance
  <2> QED BY <2>3, <2>4
<1> QED BY <1>7, <1>8, <1>9, <1>10 DEF ClosedEmpty

(* A sleeping thread starts on its way back: by its timeout or for no reason. *)
LEMMA StirStep ==
  ASSUME IInv, NEW t \in Sleeping, NEW l \in {"notified", "expired"},
         pc' = [pc EXCEPT ![t] = l], UNCHANGED <<port, deadline, handle, history>>
  PROVE  IInv'
<1> USE DEF IInv
<1>1. t \in Threads /\ pc[t] = "sleep" BY DEF Sleeping, At
<1>2. l \in Labels BY DEF Labels
<1>3. pc \in [Threads -> Labels] /\ active \in SUBSET Threads BY DEF TypeOK
<1>4. UNCHANGED <<queue, configured, active, closed, posted, delivered, discarded, deadline, handle>>
  BY DEF port, history
<1>5. pc' \in [Threads -> Labels] /\ \A x : At(x)' = IF x = l THEN At(x) \cup {t} ELSE At(x) \ {t}
  BY Zenon, <1>1, <1>2, <1>3, Moved
<1>6. closed' \in BOOLEAN BY <1>4, Zenon DEF TypeOK
<1>7. TypeOK' BY <1>4, <1>5, <1>6 DEF TypeOK
<1>8. WaitersInactive' BY <1>1, <1>3, <1>4 DEF WaitersInactive
<1>9. Sleeping' = Sleeping \ {t} /\ Awake \subseteq Awake' /\ Awake' \in SUBSET Threads
  BY <1>1, <1>5 DEF Sleeping, Awake, At
<1>10. Cardinality(Awake) \in Nat /\ Cardinality(Awake') \in Nat /\ Cardinality(Awake) <= Cardinality(Awake')
  BY <1>9, Counting
<1>11. Cardinality(active) \in Nat /\ Len(queue) \in Nat /\ effective_limit(configured) \in Nat
  BY <1>3, Counting, LimitNat DEF TypeOK
<1>12. Balance' BY <1>4, <1>9, <1>10, <1>11 DEF Balance
<1>13. ClosedEmpty' BY <1>4, <1>9 DEF ClosedEmpty
<1> QED BY <1>7, <1>8, <1>12, <1>13

(* post: the new packet is matched by a woken thread, by a full set of active
   threads, or by the absence of sleepers. *)
LEMMA PostStep ==
  ASSUME IInv, NEW p \in Packets, Post(p)
  PROVE  IInv'
<1> USE DEF IInv
<1>1. pc \in [Threads -> Labels] /\ active \in SUBSET Threads /\ queue \in Seq(Packets)
  BY DEF TypeOK
<1>2. ~closed /\ closed' = closed /\ configured' = configured /\ active' = active
      /\ queue' = Append(queue, p) /\ posted' = Append(posted, p)
      /\ delivered' = delivered /\ discarded' = discarded /\ deadline' = deadline /\ handle' = handle
      /\ pc' \in wake_eligible_waiter(pc, Waiters = {}, queue', active, closed)
  BY DEF Post
<1>3. pc' = pc \/ \E u \in Sleeping : pc' = [pc EXCEPT ![u] = "notified"]
  BY <1>1, <1>2, WakeMoves
<1>4. queue' \in Seq(Packets) /\ Len(queue') = Len(queue) + 1 /\ queue' # << >> /\ Len(queue) \in Nat
  BY <1>1, <1>2
<1>5. closed' \in BOOLEAN /\ ~closed' BY <1>2, Zenon DEF TypeOK
<1>6. pc' \in [Threads -> Labels] BY <1>1, <1>3, NotifiedSets
<1>7. TypeOK'
  <2>1. posted' \in Seq(Packets) BY <1>2 DEF TypeOK
  <2> QED BY <1>2, <1>4, <1>5, <1>6, <2>1 DEF TypeOK
<1>8. WaitersInactive' BY <1>1, <1>2, <1>3 DEF WaitersInactive, Sleeping, At
<1>9. Awake \in SUBSET Threads BY DEF Awake, At
<1>10. Cardinality(Awake) \in Nat /\ Cardinality(active) \in Nat /\ effective_limit(configured) \in Nat
  BY <1>1, <1>9, Counting, LimitNat DEF TypeOK
<1>11. Balance'
  <2>1. CASE Sleeping = {}
    <3>1. pc' = pc BY <1>3, <2>1
    <3> QED BY <2>1, <3>1 DEF Balance, Sleeping, At
  <2>2. CASE Sleeping # {} /\ ~(Cardinality(active) < effective_limit(configured))
    <3>1. Awake' \in SUBSET Threads BY DEF Awake, At
    <3>2. Cardinality(Awake') \in Nat BY <3>1, Counting
    <3> QED BY <1>2, <1>10, <2>2, <3>2 DEF Balance
  <2>3. CASE Sleeping # {} /\ Cardinality(active) < effective_limit(configured)
    <3>1. (Waiters = {}) = FALSE /\ closed = FALSE
      BY <1>2, <2>3 DEF Waiters, Sleeping, TypeOK
    <3>2. pc' \in wake_eligible_waiter(pc, FALSE, queue', active, FALSE)
      BY Zenon, <1>2, <2>3, <3>1
    <3>3. PICK u \in Sleeping : pc' = [pc EXCEPT ![u] = "notified"]
      BY Zenon, <1>1, <1>4, <2>3, <3>2, WakeReaches
    <3>4. Awake' = Awake \cup {u} /\ u \notin Awake BY Zenon, <1>1, <3>3, NotifiedSets
    <3>5. Cardinality(Awake') = Cardinality(Awake) + 1 BY <1>9, <3>4, Counting
    <3> QED BY <1>2, <1>4, <1>10, <2>3, <3>5 DEF Balance
  <2> QED BY <2>1, <2>2, <2>3
<1> QED BY <1>5, <1>7, <1>8, <1>11 DEF ClosedEmpty

(* set_concurrency: it wakes everybody, or the queue is empty, or the new
   limit is already reached. *)
LEMMA SetConcurrencyStep ==
  ASSUME IInv, NEW c \in Concurrency, SetConcurrency(c)
  PROVE  IInv'
<1> USE DEF IInv
<1>1. pc \in [Threads -> Labels] /\ active \in SUBSET Threads BY DEF TypeOK
<1>2. closed' = closed /\ configured' = c /\ active' = active /\ queue' = queue
      /\ posted' = posted /\ delivered' = delivered /\ discarded' = discarded
      /\ deadline' = deadline /\ handle' = handle
  BY DEF SetConcurrency, history
<1>3. pc' = NotifyAll(pc) \/ pc' = pc BY DEF SetConcurrency
<1>4. pc' \in [Threads -> Labels] /\ Sleeping' \subseteq Sleeping
  BY <1>1, <1>3 DEF NotifyAll, Labels, Sleeping, At
<1>5. closed' \in BOOLEAN BY <1>2, Zenon DEF TypeOK
<1>6. TypeOK' BY <1>2, <1>4, <1>5 DEF TypeOK
<1>7. WaitersInactive' BY <1>1, <1>2, <1>3 DEF WaitersInactive, NotifyAll
<1>8. ClosedEmpty' BY <1>2, <1>4 DEF ClosedEmpty
<1>9. Balance'
  <2>1. Awake' \in SUBSET Threads BY DEF Awake, At
  <2>2. Cardinality(Awake') \in Nat /\ Cardinality(active) \in Nat BY <1>1, <2>1, Counting
  <2>3. effective_limit(c) \in Nat BY LimitNat
  <2>4. CASE closed
    BY <1>4, <2>4 DEF ClosedEmpty, Balance
  <2>5. CASE queue = << >>
    BY <1>2, <2>2, <2>5 DEF Balance
  <2>6. CASE ~(Cardinality(active) < effective_limit(c))
    <3>1. Cardinality(Awake') + Cardinality(active) >= effective_limit(c) BY <2>2, <2>3, <2>6
    <3> QED BY <1>2, <3>1 DEF Balance
  <2>7. CASE ~closed /\ queue # << >> /\ Cardinality(active) < effective_limit(c)
    <3>1. pc' = NotifyAll(pc) BY <2>7 DEF SetConcurrency
    <3>2. Sleeping' = {} BY <3>1 DEF NotifyAll, Sleeping, At
    <3> QED BY <3>2 DEF Balance
  <2> QED BY <2>4, <2>5, <2>6, <2>7
<1> QED BY <1>6, <1>7, <1>8, <1>9

(* close: the queue is cleared and everybody is woken. *)
LEMMA CloseStep ==
  ASSUME IInv, Close
  PROVE  IInv'
<1> USE DEF IInv
<1>1. pc \in [Threads -> Labels] /\ pc' = NotifyAll(pc) /\ queue' = << >> /\ active' = {}
      /\ closed' = TRUE /\ discarded' = queue
      /\ UNCHANGED <<configured, deadline, handle, posted, delivered>>
  BY DEF TypeOK, Close
<1>2. pc' \in [Threads -> Labels] /\ Sleeping' = {}
  BY <1>1 DEF NotifyAll, Labels, Sleeping, At
<1>3. TypeOK' BY <1>1, <1>2 DEF TypeOK
<1> QED BY <1>1, <1>2, <1>3 DEF WaitersInactive, ClosedEmpty, Balance

(* CloseHandle on an exited thread: its slot is handed on. *)
LEMMA ReleaseStep ==
  ASSUME IInv, NEW t \in Threads, ReleaseActive(t),
         UNCHANGED <<queue, configured, closed, deadline, history>>,
         handle' \in [Threads -> BOOLEAN]
  PROVE  IInv'
<1> USE DEF IInv
<1>1. pc \in [Threads -> Labels] /\ active \in SUBSET Threads BY DEF TypeOK
<1>2. UNCHANGED <<queue, configured, closed, deadline, posted, delivered, discarded>> BY DEF history
<1>3. active' = active \ {t}
      /\ pc' \in (IF t \in active
                  THEN wake_eligible_waiter(pc, Waiters = {}, queue, active', closed)
                  ELSE {pc})
  BY DEF ReleaseActive
<1>4. pc' = pc \/ \E u \in Sleeping : pc' = [pc EXCEPT ![u] = "notified"]
  BY <1>1, <1>3, WakeMoves
<1>5. pc' \in [Threads -> Labels] /\ Sleeping' \subseteq Sleeping /\ Awake \subseteq Awake'
  BY <1>1, <1>4, NotifiedSets DEF Sleeping, Awake, At
<1>6. closed' \in BOOLEAN BY <1>2, Zenon DEF TypeOK
<1>7. TypeOK' BY <1>1, <1>2, <1>3, <1>5, <1>6 DEF TypeOK
<1>8. WaitersInactive' BY <1>1, <1>3, <1>4 DEF WaitersInactive, Sleeping, At
<1>9. ClosedEmpty' BY <1>2, <1>5 DEF ClosedEmpty
<1>10. Awake \in SUBSET Threads /\ Awake' \in SUBSET Threads BY DEF Awake, At
<1>11. /\ Cardinality(Awake) \in Nat /\ Cardinality(Awake') \in Nat
       /\ Cardinality(active) \in Nat /\ Cardinality(active') \in Nat
       /\ Cardinality(active') = IF t \in active THEN Cardinality(active) - 1 ELSE Cardinality(active)
  BY <1>1, <1>3, <1>10, Counting
<1>12. effective_limit(configured) \in Nat /\ effective_limit(configured') = effective_limit(configured)
       /\ Len(queue) \in Nat
  BY <1>2, LimitNat DEF TypeOK
<1>13. Balance'
  <2>1. CASE Sleeping = {} \/ closed
    BY <1>5, <2>1 DEF Balance, ClosedEmpty
  <2>2. CASE t \notin active
    <3>1. active' = active /\ pc' = pc BY <1>3, <2>2
    <3> QED BY <1>2, <3>1 DEF Balance, Sleeping, Awake, At
  <2>3. CASE queue = << >>
    BY <1>2, <1>11, <2>3 DEF Balance
  <2>4. CASE ~(Cardinality(active') < effective_limit(configured))
    <3>1. Cardinality(Awake') + Cardinality(active') >= effective_limit(configured')
      BY <1>11, <1>12, <2>4
    <3> QED BY <3>1 DEF Balance
  <2>5. CASE Sleeping # {} /\ ~closed /\ t \in active /\ queue # << >>
             /\ Cardinality(active') < effective_limit(configured)
    <3>1. (Waiters = {}) = FALSE /\ closed = FALSE
      BY <2>5 DEF Waiters, Sleeping, TypeOK
    <3>2. pc' \in wake_eligible_waiter(pc, FALSE, queue, active', FALSE)
      BY Zenon, <1>3, <2>5, <3>1
    <3>3. PICK u \in Sleeping : pc' = [pc EXCEPT ![u] = "notified"]
      BY Zenon, <1>1, <2>5, <3>2, WakeReaches
    <3>4. Awake' = Awake \cup {u} /\ u \notin Awake BY Zenon, <1>1, <3>3, NotifiedSets
    <3>5. Cardinality(Awake') = Cardinality(Awake) + 1 BY <1>10, <3>4, Counting
    <3>6. \/ Cardinality(Awake) >= Len(queue)
          \/ Cardinality(Awake) + Cardinality(active) >= effective_limit(configured)
      BY <2>5 DEF Balance
    <3> QED BY <1>2, <1>11, <1>12, <2>5, <3>5, <3>6 DEF Balance
  <2> QED BY <2>1, <2>2, <2>3, <2>4, <2>5
<1> QED BY <1>7, <1>8, <1>9, <1>13

(* Initially the port is empty and nobody waits. *)
LEMMA InitInv == Init => IInv
<1> SUFFICES ASSUME Init PROVE IInv
  OBVIOUS
<1>1. TypeOK
  <2>1. closed \in BOOLEAN BY Zenon DEF Init
  <2>2. /\ pc \in [Threads -> Labels]
        /\ deadline \in [Threads -> {"none", "ahead", "passed"}]
        /\ active \subseteq Threads /\ configured \in Concurrency
    BY DEF Init, Labels
  <2>3. handle \in [Threads -> BOOLEAN] BY Zenon DEF Init
  <2>4. << >> \in Seq(Packets) OBVIOUS
  <2> QED BY <2>1, <2>2, <2>3, <2>4 DEF Init, TypeOK
<1>2. Sleeping = {} BY DEF Init, Sleeping, At
<1> QED BY <1>1, <1>2 DEF Init, IInv, WaitersInactive, ClosedEmpty, Balance

(* Every action preserves the invariant. *)
LEMMA NextInv == IInv /\ [Next]_vars => IInv'
<1> SUFFICES ASSUME IInv, [Next]_vars PROVE IInv'
  OBVIOUS
<1>0. deadline \in [Threads -> {"none", "ahead", "passed"}] /\ pc \in [Threads -> Labels]
  BY DEF IInv, TypeOK
<1>1. CASE \E t \in Threads, n \in {1, 2}, timeout \in {"zero", "finite", "infinite"} :
             WaitDequeue(t, n, timeout)
  <2>1. PICK t \in Threads, n \in {1, 2}, timeout \in {"zero", "finite", "infinite"} :
             WaitDequeue(t, n, timeout)
    BY <1>1
  <2>2. pc[t] = "run" /\ handle' = handle
        /\ deadline' \in [Threads -> {"none", "ahead", "passed"}]
    BY <1>0, <2>1 DEF WaitDequeue
  <2>3. CASE ReturnClosed(t) BY <2>2, <2>3, ClosedStep
  <2>4. CASE ReturnPackets(t, n) BY <2>2, <2>4, PacketsStep
  <2>5. CASE ReturnNothing(t, IF timeout = "zero" THEN "run" ELSE "sleep")
    BY <2>2, <2>5, NothingStep
  <2> QED BY <2>1, <2>3, <2>4, <2>5 DEF WaitDequeue
<1>2. CASE \E t \in Threads, n \in {1, 2} : Resume(t, n)
  <2>1. PICK t \in Threads, n \in {1, 2} : Resume(t, n) BY <1>2
  <2>2. pc[t] \in {"run", "notified", "expired"} /\ handle' = handle
        /\ deadline' \in [Threads -> {"none", "ahead", "passed"}]
    BY <1>0, <2>1 DEF Resume
  <2>3. CASE ReturnClosed(t) BY <2>2, <2>3, ClosedStep
  <2>4. CASE ReturnPackets(t, n) BY <2>2, <2>4, PacketsStep
  <2>5. CASE ReturnNothing(t, AfterNothing(t))
    <3>1. AfterNothing(t) \in {"run", "sleep"} BY DEF AfterNothing
    <3> QED BY <2>2, <2>5, <3>1, NothingStep
  <2>6. CASE ReturnTimedOut(t)
    BY <2>1, <2>6, TimedOutStep DEF Resume
  <2> QED BY <2>1, <2>3, <2>4, <2>5, <2>6 DEF Resume
<1>3. CASE \E t \in Threads : Timeout(t) \/ SpuriousWake(t)
  BY <1>0, <1>3, StirStep DEF Timeout, SpuriousWake, Sleeping, At
<1>4. CASE \E t \in Threads : PassDeadline(t)
  <2>1. PICK t \in Threads : PassDeadline(t) BY <1>4
  <2>2. deadline' \in [Threads -> {"none", "ahead", "passed"}] BY <1>0, <2>1 DEF PassDeadline
  <2>3. UNCHANGED <<queue, configured, active, closed, pc, handle, posted, delivered, discarded>>
    BY <2>1 DEF PassDeadline, port, history
  <2>4. closed' \in BOOLEAN BY <2>3, Zenon DEF IInv, TypeOK
  <2> QED BY <2>2, <2>3, <2>4
          DEF IInv, TypeOK, WaitersInactive, ClosedEmpty, Balance, Sleeping, Awake, At
<1>5. CASE \E t \in Threads : Exit(t)
  <2>1. PICK t \in Threads : Exit(t) BY <1>5
  <2>2. UNCHANGED <<queue, configured, active, closed, deadline, handle, posted, delivered, discarded>>
        /\ pc[t] = "run" /\ pc' = [pc EXCEPT ![t] = "exited"]
    BY <2>1 DEF Exit, port, history
  <2>3. closed' \in BOOLEAN BY <2>2, Zenon DEF IInv, TypeOK
  <2>4. pc' \in [Threads -> Labels] /\ Sleeping' = Sleeping /\ Awake' = Awake
    BY <1>0, <2>2 DEF Labels, Sleeping, Awake, At
  <2>5. TypeOK' BY <2>2, <2>3, <2>4 DEF IInv, TypeOK
  <2>6. WaitersInactive' BY <1>0, <2>2 DEF IInv, TypeOK, WaitersInactive
  <2> QED BY <2>2, <2>4, <2>5, <2>6 DEF IInv, ClosedEmpty, Balance
<1>6. CASE \E t \in Threads : CloseThreadHandle(t)
  <2>1. PICK t \in Threads : CloseThreadHandle(t) BY <1>6
  <2>2. UNCHANGED <<queue, configured, closed, deadline, history>>
    BY <2>1 DEF CloseThreadHandle
  <2>3. handle' \in [Threads -> BOOLEAN] BY <2>1, Zenon DEF CloseThreadHandle, IInv, TypeOK
  <2>4. CASE pc[t] = "exited"
    BY <2>1, <2>2, <2>3, <2>4, ReleaseStep DEF CloseThreadHandle
  <2>5. CASE pc[t] # "exited"
    <3>1. UNCHANGED <<queue, configured, closed, deadline, posted, delivered, discarded, active, pc>>
      BY <2>1, <2>2, <2>5 DEF CloseThreadHandle, history
    <3>2. closed' \in BOOLEAN BY <3>1, Zenon DEF IInv, TypeOK
    <3> QED BY <2>3, <3>1, <3>2
            DEF IInv, TypeOK, WaitersInactive, ClosedEmpty, Balance, Sleeping, Awake, At
  <2> QED BY <2>4, <2>5
<1>7. CASE \E p \in Packets : Post(p) BY <1>7, PostStep
<1>8. CASE \E c \in Concurrency : SetConcurrency(c) BY <1>8, SetConcurrencyStep
<1>9. CASE Close BY <1>9, CloseStep
<1>10. CASE UNCHANGED vars
  <2>1. UNCHANGED <<queue, configured, active, closed, pc, deadline, handle, posted, delivered, discarded>>
    BY <1>10 DEF vars, port, history
  <2>2. closed' \in BOOLEAN BY <2>1, Zenon DEF IInv, TypeOK
  <2> QED BY <2>1, <2>2
          DEF IInv, TypeOK, WaitersInactive, ClosedEmpty, Balance, Sleeping, Awake, At
<1> QED BY <1>1, <1>2, <1>3, <1>4, <1>5, <1>6, <1>7, <1>8, <1>9, <1>10 DEF Next

(* The balance leaves no packet with a free slot and only sleeping threads. *)
LEMMA InvSafe == IInv => NoStrandedPacket /\ ClosedWakesAll
<1> SUFFICES ASSUME IInv PROVE NoStrandedPacket /\ ClosedWakesAll
  OBVIOUS
<1>1. active \in SUBSET Threads /\ Awake \in SUBSET Threads /\ queue \in Seq(Packets)
      /\ effective_limit(configured) \in Nat
  BY LimitNat DEF IInv, TypeOK, Awake, At
<1>2. Cardinality(active) \in Nat /\ Cardinality(Awake) \in Nat /\ (Cardinality(Awake) = 0 <=> Awake = {})
  BY <1>1, Counting
<1>3. queue # << >> => Len(queue) \in Nat /\ Len(queue) > 0 BY <1>1, EmptySeq
<1>4. NoStrandedPacket
  BY <1>1, <1>2, <1>3 DEF IInv, Balance, NoStrandedPacket, Awake
<1> QED BY <1>4 DEF IInv, ClosedEmpty, ClosedWakesAll

(* post, take_locked, release_active_as, set_concurrency and close together
   never leave a packet queued with a free slot while every thread that could
   take it sleeps, and a closed port leaves nobody asleep. *)
THEOREM CompletionPortSafety == Spec => []NobodyStranded
<1>1. Init => IInv BY InitInv
<1>2. IInv /\ [Next]_vars => IInv' BY NextInv
<1>3. IInv => NobodyStranded BY InvSafe DEF NobodyStranded
<1> QED BY <1>1, <1>2, <1>3, PTL DEF Spec

(* Nothing is discarded before the port closes. *)
FifoInv == FifoExactlyOnce /\ (~closed => discarded = << >>)

(* Concatenation of packets is associative. *)
LEMMA Regroup ==
  \A d, f, b \in Seq(Packets) : (d \o f) \o b = d \o (f \o b)
BY ConcatAssociative

(* A batch moves from the front of the queue to the end of what was handed
   out, and leaves their concatenation alone. *)
LEMMA TakeKeepsOrder ==
  ASSUME NEW n \in {1, 2}, NEW t \in Threads, TypeOK, queue # << >>, Take(t, n)
  PROVE  delivered' \o queue' = delivered \o queue
<1> DEFINE k == IF n < Len(queue) THEN n ELSE Len(queue)
<1> DEFINE front == SubSeq(queue, 1, k)
<1> DEFINE back == SubSeq(queue, k + 1, Len(queue))
<1>1. queue \in Seq(Packets) /\ delivered \in Seq(Packets) BY DEF TypeOK
<1>2. Len(queue) \in Nat /\ Len(queue) > 0 BY <1>1, EmptySeq
<1>3. k \in 1 .. Len(queue) BY <1>2
<1>4. queue' = back /\ delivered' = delivered \o front BY DEF Take
<1> HIDE DEF k
<1>5. front \in Seq(Packets) /\ back \in Seq(Packets) BY <1>1, <1>2, <1>3
<1>6. front \o back = queue
  <2>1. 1 \in 1 .. Len(queue) + 1 /\ k \in 1 - 1 .. Len(queue) /\ Len(queue) \in k .. Len(queue)
    BY <1>2, <1>3
  <2>2. front \o back = SubSeq(queue, 1, Len(queue))
    BY <1>1, <2>1, ConcatAdjacentSubSeq, Zenon
  <2> QED BY Zenon, <1>1, <2>2, SubSeqFull
<1> HIDE DEF front, back
<1>7. (delivered \o front) \o back = delivered \o (front \o back)
  BY Zenon, <1>1, <1>5, Regroup
<1> QED BY <1>4, <1>6, <1>7

(* Every action keeps the order of the packets. *)
LEMMA FifoStep ==
  ASSUME TypeOK, FifoInv, [Next]_vars
  PROVE  FifoInv'
<1> USE DEF FifoInv
<1>1. queue \in Seq(Packets) /\ delivered \in Seq(Packets) /\ posted \in Seq(Packets)
      /\ discarded \in Seq(Packets)
  BY DEF TypeOK
<1>2. CASE UNCHANGED <<queue, closed, history>>
  BY <1>2 DEF history, FifoExactlyOnce
<1>3. ASSUME NEW t \in Threads, NEW n \in {1, 2}, ReturnPackets(t, n)
      PROVE  FifoInv'
  <2>1. queue # << >> /\ Take(t, n) /\ UNCHANGED <<closed, posted, discarded>>
    BY <1>3 DEF ReturnPackets, MayTake
  <2>2. delivered' \o queue' = delivered \o queue BY <2>1, TakeKeepsOrder
  <2> QED BY <2>1, <2>2 DEF FifoExactlyOnce
<1>4. ASSUME NEW p \in Packets, Post(p)
      PROVE  FifoInv'
  <2>1. ~closed /\ queue' = Append(queue, p) /\ posted' = Append(posted, p)
        /\ UNCHANGED <<closed, delivered, discarded>>
    BY <1>4 DEF Post
  <2>2. discarded = << >> /\ delivered \o queue \in Seq(Packets) BY <1>1, <2>1, ConcatProperties
  <2>3. posted = delivered \o queue BY <2>2, ConcatEmptySeq DEF FifoExactlyOnce
  <2>4. Append(posted, p) = (delivered \o queue) \o <<p>> BY <1>1, <2>3, AppendIsConcat
  <2>5. Append(queue, p) = queue \o <<p>> BY <1>1, AppendIsConcat
  <2>6. (delivered \o queue) \o <<p>> = delivered \o (queue \o <<p>>)
    BY <1>1, ConcatAssociative, SMTT(30)
  <2>7. delivered \o Append(queue, p) \in Seq(Packets) BY <1>1
  <2>8. (delivered \o Append(queue, p)) \o << >> = delivered \o Append(queue, p)
    BY <2>7, ConcatEmptySeq
  <2>9. posted' = delivered' \o queue' \o discarded'
    BY <2>1, <2>2, <2>4, <2>5, <2>6, <2>8
  <2> QED BY Zenon, <2>1, <2>2, <2>9 DEF FifoExactlyOnce
<1>5. CASE Close
  <2>1. ~closed /\ closed' /\ queue' = << >> /\ discarded' = queue
        /\ UNCHANGED <<posted, delivered>>
    BY <1>5 DEF Close
  <2>2. discarded = << >> /\ delivered \o queue \in Seq(Packets) BY <1>1, <2>1, ConcatProperties
  <2>3. posted = delivered \o queue BY <2>2, ConcatEmptySeq DEF FifoExactlyOnce
  <2>4. delivered \o << >> = delivered BY <1>1, ConcatEmptySeq
  <2>5. posted' = delivered' \o queue' \o discarded' BY <2>1, <2>3, <2>4
  <2> QED BY <2>1, <2>5 DEF FifoExactlyOnce
<1>6. CASE \E t \in Threads, n \in {1, 2}, timeout \in {"zero", "finite", "infinite"} :
             WaitDequeue(t, n, timeout)
  BY <1>2, <1>3, <1>6 DEF WaitDequeue, ReturnClosed, ReturnNothing
<1>7. CASE \E t \in Threads, n \in {1, 2} : Resume(t, n)
  BY <1>2, <1>3, <1>7 DEF Resume, ReturnTimedOut, ReturnClosed, ReturnNothing, port
<1>8. CASE \E t \in Threads : PassDeadline(t) \/ Timeout(t) \/ SpuriousWake(t) \/ Exit(t)
  BY <1>2, <1>8 DEF PassDeadline, Timeout, SpuriousWake, Exit, port
<1>9. CASE \E t \in Threads : CloseThreadHandle(t)
  BY <1>2, <1>9 DEF CloseThreadHandle
<1>10. CASE \E c \in Concurrency : SetConcurrency(c)
  BY <1>2, <1>10 DEF SetConcurrency
<1>11. CASE UNCHANGED vars
  BY <1>2, <1>11 DEF vars, port
<1> QED BY <1>4, <1>5, <1>6, <1>7, <1>8, <1>9, <1>10, <1>11 DEF Next

(* Packets leave the port in the order in which post accepted them, each
   handed to one caller or invalidated by close: take_locked neither loses,
   repeats nor reorders one, for any number of threads and any limits. *)
THEOREM CompletionPortFifo == Spec => []FifoExactlyOnce
<1>1. Init => FifoInv
  <2> SUFFICES ASSUME Init PROVE FifoInv
    OBVIOUS
  <2> QED BY DEF Init, FifoInv, FifoExactlyOnce
<1>2. Init => IInv BY InitInv
<1>3. IInv /\ [Next]_vars => IInv' BY NextInv
<1>4. IInv => TypeOK BY DEF IInv
<1>5. TypeOK /\ FifoInv /\ [Next]_vars => FifoInv' BY FifoStep
<1>6. FifoInv => FifoExactlyOnce BY DEF FifoInv
<1> QED BY <1>1, <1>2, <1>3, <1>4, <1>5, <1>6, PTL DEF Spec

(* A dequeue never pushes the number of active threads past the limit in
   force, even right after the limit was lowered below it. *)
LEMMA GrowthStep ==
  ASSUME TypeOK, [Next]_vars
  PROVE  active' \subseteq active \/ Cardinality(active') <= effective_limit(configured)
<1> DEFINE Within == active' \subseteq active \/ Cardinality(active') <= effective_limit(configured)
<1>1. active \in SUBSET Threads /\ effective_limit(configured) \in Nat BY LimitNat DEF TypeOK
<1>2. ASSUME NEW t \in Threads, NEW n \in {1, 2}, ReturnPackets(t, n)
      PROVE  Within
  <2>1. active' = active \cup {t} BY <1>2 DEF ReturnPackets, Take
  <2>2. t \in active \/ Cardinality(active) < effective_limit(configured)
    BY <1>2 DEF ReturnPackets, MayTake
  <2>3. Cardinality(active) \in Nat /\ (t \notin active => Cardinality(active') = Cardinality(active) + 1)
    BY <1>1, <2>1, Counting
  <2> QED BY <1>1, <2>1, <2>2, <2>3
<1>3. CASE active' \subseteq active BY <1>3
<1>4. CASE \E t \in Threads, n \in {1, 2}, timeout \in {"zero", "finite", "infinite"} :
             WaitDequeue(t, n, timeout)
  BY <1>2, <1>3, <1>4 DEF WaitDequeue, ReturnClosed, ReturnNothing
<1>5. CASE \E t \in Threads, n \in {1, 2} : Resume(t, n)
  BY <1>2, <1>3, <1>5 DEF Resume, ReturnTimedOut, ReturnClosed, ReturnNothing, port
<1> QED
  BY <1>3, <1>4, <1>5 DEF Next, PassDeadline, Timeout, SpuriousWake, Exit, CloseThreadHandle,
     ReleaseActive, Post, SetConcurrency, Close, vars, port

(* GrowthWithinLimit: take_locked's admission test bounds the growth of the
   active set by the limit, for every run of the port. *)
THEOREM CompletionPortGrowth == Spec => GrowthWithinLimit
<1>1. Init => IInv BY InitInv
<1>2. IInv /\ [Next]_vars => IInv' BY NextInv
<1>3. IInv => TypeOK BY DEF IInv
<1>4. TypeOK /\ [Next]_vars
      => [active' \subseteq active \/ Cardinality(active') <= effective_limit(configured)]_vars
  BY GrowthStep
<1> QED BY <1>1, <1>2, <1>3, <1>4, PTL DEF Spec, GrowthWithinLimit

=============================================================================
