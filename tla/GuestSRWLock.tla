---------------------------- MODULE GuestSRWLock ----------------------------
(***************************************************************************)
(* The slim reader-writer lock of src/threads.rs (GuestSRWLock).           *)
(*                                                                         *)
(* A host mutex protects two counters; every section of code that runs     *)
(* under it is one atomic step here.  The two condition variables are the  *)
(* sets of threads blocked in Condvar::wait: notify_one moves one thread   *)
(* out of the set, notify_all moves all of them, and a thread that was     *)
(* moved out still has to re-take the mutex and re-check its condition     *)
(* (pc "wokenX" / "wokenS").  std's Condvar may also wake spuriously.      *)
(***************************************************************************)
EXTENDS Integers, FiniteSets

CONSTANTS
  Threads,                  \* guest threads that use the lock
  Writers                   \* the threads among them that ever take it exclusively

ASSUME ThreadsAssumption == IsFiniteSet(Threads) /\ Writers \subseteq Threads

VARIABLES
  readers,                  \* SrwLockState.readers: 0 free, n > 0 shared, -1 exclusive
  writers_waiting,          \* SrwLockState.writers_waiting
  pc                        \* where each thread is in the lock's code

vars == <<readers, writers_waiting, pc>>

\* "idle": outside the lock;  "holdX"/"holdS": between acquire and release;
\* "waitX"/"waitS": blocked in Condvar::wait;  "wokenX"/"wokenS": notified (or
\* woken spuriously) and not yet back inside the mutex.
PCs == {"idle", "holdX", "holdS", "waitX", "waitS", "wokenX", "wokenS"}

At(l) == {t \in Threads : pc[t] = l}

TypeOK ==
  /\ readers \in Nat \cup {-1}
  /\ writers_waiting \in Nat
  /\ pc \in [Threads -> PCs]

Init ==
  /\ readers = 0
  /\ writers_waiting = 0
  /\ pc = [t \in Threads |-> "idle"]

-----------------------------------------------------------------------------
(* mutant: the shared waiters are not notified *)
NotifyWritersOnly(t) ==
  LET woken(W) == [u \in Threads |->
                     IF u = t THEN "idle" ELSE IF u \in W THEN "wokenX" ELSE pc[u]]
  IN IF At("waitX") = {}
       THEN pc' = woken({})
       ELSE \E w \in At("waitX") : pc' = woken({w})

(* exclusive_waiters.notify_one() followed by shared_waiters.notify_all(),
   while t moves to "idle": t is the releasing thread. *)
NotifyAfterRelease(t) ==
  LET woken(W) == [u \in Threads |->
                     IF u = t THEN "idle"
                     ELSE IF u \in W THEN "wokenX"
                     ELSE IF pc[u] = "waitS" THEN "wokenS" ELSE pc[u]]
  IN IF At("waitX") = {}
       THEN pc' = woken({})
       ELSE \E w \in At("waitX") : pc' = woken({w})

(* acquire_exclusive: the first look at the state. *)
AcquireExclusive(t) ==
  /\ pc[t] = "idle"
  /\ IF readers = 0
       THEN /\ readers' = -1
            /\ pc' = [pc EXCEPT ![t] = "holdX"]
            /\ UNCHANGED writers_waiting
       ELSE /\ writers_waiting' = writers_waiting + 1
            /\ pc' = [pc EXCEPT ![t] = "waitX"]
            /\ UNCHANGED readers

(* mutant: a woken writer does not look at readers again *)
ResumeExclusiveNoRecheck(t) ==
  /\ pc[t] = "wokenX"
  /\ readers' = -1
  /\ writers_waiting' = writers_waiting - 1
  /\ pc' = [pc EXCEPT ![t] = "holdX"]

(* mutant: the increment of writers_waiting stays outside the loop *)
ResumeExclusiveNoRecount(t) ==
  /\ pc[t] = "wokenX"
  /\ writers_waiting > 0
  /\ writers_waiting' = writers_waiting - 1
  /\ IF readers = 0
       THEN readers' = -1 /\ pc' = [pc EXCEPT ![t] = "holdX"]
       ELSE readers' = readers /\ pc' = [pc EXCEPT ![t] = "waitX"]

(* acquire_exclusive: back from Condvar::wait.  A failed re-check decrements
   and increments writers_waiting within the same critical section. *)
ResumeExclusive(t) ==
  /\ pc[t] = "wokenX"
  /\ IF readers = 0
       THEN /\ readers' = -1
            /\ writers_waiting' = writers_waiting - 1
            /\ pc' = [pc EXCEPT ![t] = "holdX"]
       ELSE /\ pc' = [pc EXCEPT ![t] = "waitX"]
            /\ UNCHANGED <<readers, writers_waiting>>

(* release_exclusive.  The caller is the holder, or a thread that holds
   nothing calling at a moment when the code recognises the misuse and leaves
   the state alone.  A release of another thread's hold is outside the guest's
   contract with SRW locks and is not modelled. *)
ReleaseExclusive(t) ==
  /\ pc[t] = "holdX" \/ (pc[t] = "idle" /\ readers # -1)
  /\ IF readers # -1
       THEN UNCHANGED <<readers, pc>>
       ELSE /\ readers' = 0
            /\ NotifyAfterRelease(t)
  /\ UNCHANGED writers_waiting

(* mutant: readers do not yield to a pending writer *)
AcquireSharedNoPreference(t) ==
  /\ pc[t] \in {"idle", "wokenS"}
  /\ IF readers < 0
       THEN pc' = [pc EXCEPT ![t] = "waitS"] /\ UNCHANGED readers
       ELSE pc' = [pc EXCEPT ![t] = "holdS"] /\ readers' = readers + 1
  /\ UNCHANGED writers_waiting

(* acquire_shared: the first look, and every look after a wake-up. *)
AcquireShared(t) ==
  /\ pc[t] \in {"idle", "wokenS"}
  /\ IF readers < 0 \/ writers_waiting > 0
       THEN /\ pc' = [pc EXCEPT ![t] = "waitS"]
            /\ UNCHANGED readers
       ELSE /\ readers' = readers + 1
            /\ pc' = [pc EXCEPT ![t] = "holdS"]
  /\ UNCHANGED writers_waiting

(* release_shared, with the same contract; the last reader out notifies. *)
ReleaseShared(t) ==
  /\ pc[t] = "holdS" \/ (pc[t] = "idle" /\ readers <= 0)
  /\ IF readers <= 0
       THEN UNCHANGED <<readers, pc>>
       ELSE /\ readers' = readers - 1
            /\ IF readers = 1
                 THEN NotifyAfterRelease(t)
                 ELSE pc' = [pc EXCEPT ![t] = "idle"]
  /\ UNCHANGED writers_waiting

(* try_acquire_exclusive / try_acquire_shared that succeed; a failed attempt
   changes nothing. *)
TryAcquireExclusive(t) ==
  /\ pc[t] = "idle"
  /\ readers = 0
  /\ readers' = -1
  /\ pc' = [pc EXCEPT ![t] = "holdX"]
  /\ UNCHANGED writers_waiting

TryAcquireShared(t) ==
  /\ pc[t] = "idle"
  /\ readers >= 0
  /\ writers_waiting = 0
  /\ readers' = readers + 1
  /\ pc' = [pc EXCEPT ![t] = "holdS"]
  /\ UNCHANGED writers_waiting

(* Condvar::wait may return without a notification. *)
SpuriousWake(t) ==
  /\ pc[t] \in {"waitX", "waitS"}
  /\ pc' = [pc EXCEPT ![t] = IF pc[t] = "waitX" THEN "wokenX" ELSE "wokenS"]
  /\ UNCHANGED <<readers, writers_waiting>>

Next == \E t \in Threads :
  \/ t \in Writers /\ (AcquireExclusive(t) \/ TryAcquireExclusive(t))
  \/ ResumeExclusive(t) \/ ReleaseExclusive(t)
  \/ AcquireShared(t) \/ TryAcquireShared(t) \/ ReleaseShared(t)
  \/ SpuriousWake(t)

(* The host scheduler runs a notified thread eventually, and a guest that took
   the lock eventually releases it.  Nothing forces a thread to ask for the
   lock. *)
Fairness == \A t \in Threads :
  /\ WF_vars(ResumeExclusive(t))
  /\ WF_vars(pc[t] = "wokenS" /\ AcquireShared(t))
  /\ WF_vars(pc[t] = "holdX" /\ ReleaseExclusive(t))
  /\ WF_vars(pc[t] = "holdS" /\ ReleaseShared(t))

Spec == Init /\ [][Next]_vars
FairSpec == Spec /\ Fairness

-----------------------------------------------------------------------------
(* What the guest sees of the lock: who holds it and which writers wait. *)
Held(l) ==
  IF l = "holdX" THEN "exclusive" ELSE IF l = "holdS" THEN "shared" ELSE "none"

Mode == [t \in Threads |-> Held(pc[t])]

Lock == INSTANCE ReadersWriterLock
          WITH mode <- Mode, waiting <- At("waitX") \cup At("wokenX")

(* The two counters, two condition variables and re-checks implement a
   reader-writer lock that no reader enters past a waiting writer, whatever
   the order of wake-ups, barging try_acquire calls and spurious wake-ups. *)
ImplementsLock == Lock!Spec

(* At most one exclusive holder, and never together with a shared one:
   acquire_exclusive and acquire_shared hand the lock out correctly whatever
   the order of wake-ups, barging try_acquire calls and spurious wake-ups. *)
Exclusion ==
  \A t, u \in Threads :
    pc[t] = "holdX" /\ t # u => pc[u] \notin {"holdX", "holdS"}

(* The two counters are exact: readers is -1 under an exclusive hold and the
   number of shared holders otherwise, and writers_waiting counts the threads
   inside the loop of acquire_exclusive, across every re-wait. *)
CountersExact ==
  /\ readers = IF At("holdX") # {} THEN -1 ELSE Cardinality(At("holdS"))
  /\ writers_waiting = Cardinality(At("waitX") \cup At("wokenX"))

(* No waiter is left behind: with the lock free and a writer blocked, some
   writer is already on its way; a blocked reader has an exclusive holder or a
   pending writer to wait for.  (release_* notify one writer and all readers,
   without handing the lock over.) *)
NoStrandedWaiter ==
  /\ readers = 0 /\ At("waitX") # {} => At("wokenX") # {}
  /\ At("waitS") # {} => readers = -1 \/ writers_waiting > 0

(* Writer preference ("a stream of readers cannot starve the writer",
   acquire_shared): while a writer waits, some writer gets the lock, however
   many readers come and go. *)
WriterNotStarved ==
  (At("waitX") \cup At("wokenX") # {}) ~> (At("holdX") # {})
=============================================================================
