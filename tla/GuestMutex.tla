----------------------------- MODULE GuestMutex -----------------------------
(***************************************************************************)
(* The recursive, owner-tracking mutex of src/threads.rs (GuestMutex).     *)
(*                                                                         *)
(* Each operation runs under the host mutex `inner`, so it is one step. A  *)
(* thread that blocks in Condvar::wait has pc "wait"; a notification or a  *)
(* spurious wake-up moves it to "woken", from where it looks at the state  *)
(* again: another thread may have taken the mutex in between.              *)
(*                                                                         *)
(* held is not in the code: it is what the guest believes, the number of   *)
(* acquisitions that returned to a thread and were not yet released.       *)
(* inherited is not in the code either: the present owner took a mutex     *)
(* that was abandoned.                                                     *)
(***************************************************************************)
EXTENDS Naturals

CONSTANTS
  Threads,                  \* guest thread ids
  NoThread,                 \* owner_tid = 0
  MaxDepth                  \* bound: nested acquisitions a guest makes

ASSUME MutexAssumption == NoThread \notin Threads /\ MaxDepth \in Nat \ {0}

VARIABLES
  owner_tid,                \* MutexState.owner_tid
  recursion_count,          \* MutexState.recursion_count
  abandoned,                \* MutexState.abandoned
  pc,                       \* where each thread is
  held,                     \* history: acquisitions minus releases, per thread
  inherited                 \* history: the owner took an abandoned mutex

vars == <<owner_tid, recursion_count, abandoned, pc, held, inherited>>

TypeOK ==
  /\ owner_tid \in Threads \cup {NoThread}
  /\ recursion_count \in 0..MaxDepth
  /\ abandoned \in BOOLEAN
  /\ inherited \in BOOLEAN
  /\ pc \in [Threads -> {"run", "wait", "woken", "dead"}]
  /\ held \in [Threads -> Nat]

Init ==
  /\ owner_tid = NoThread
  /\ recursion_count = 0
  /\ abandoned = FALSE
  /\ inherited = FALSE
  /\ pc = [t \in Threads |-> "run"]
  /\ held = [t \in Threads |-> 0]

-----------------------------------------------------------------------------
(* mutant: a thread that was woken takes the mutex without looking again *)
EnterUnchecked(t) ==
  \/ /\ owner_tid # t
     /\ owner_tid' = t
     /\ recursion_count' = 1
     /\ abandoned' = FALSE
     /\ inherited' = abandoned
     /\ held' = [held EXCEPT ![t] = @ + 1]
  \/ /\ owner_tid = t
     /\ recursion_count < MaxDepth
     /\ recursion_count' = recursion_count + 1
     /\ held' = [held EXCEPT ![t] = @ + 1]
     /\ UNCHANGED <<owner_tid, abandoned, inherited>>

(* The two branches of try_acquire and acquire that return to the caller
   with the mutex: it was free, or the caller owns it already. *)
Enter(t) ==
  \/ /\ owner_tid = NoThread
     /\ owner_tid' = t
     /\ recursion_count' = 1
     /\ abandoned' = FALSE
     /\ inherited' = abandoned
     /\ held' = [held EXCEPT ![t] = @ + 1]
  \/ /\ owner_tid = t
     /\ recursion_count < MaxDepth
     /\ recursion_count' = recursion_count + 1
     /\ held' = [held EXCEPT ![t] = @ + 1]
     /\ UNCHANGED <<owner_tid, abandoned, inherited>>

(* try_acquire that succeeds; one that fails changes nothing. *)
TryAcquire(t) ==
  /\ pc[t] = "run"
  /\ Enter(t)
  /\ UNCHANGED pc

(* One turn of the loop in acquire, on entry or after Condvar::wait. *)
Acquire(t) ==
  /\ pc[t] \in {"run", "woken"}
  /\ \/ Enter(t) /\ pc' = [pc EXCEPT ![t] = "run"]
     \/ /\ owner_tid \notin {NoThread, t}
        /\ pc' = [pc EXCEPT ![t] = "wait"]
        /\ UNCHANGED <<owner_tid, recursion_count, abandoned, held, inherited>>

(* release by the owner: the last one frees the mutex and calls notify_one.
   release by any other thread returns false and changes nothing. *)
Release(t) ==
  /\ pc[t] = "run"
  /\ owner_tid = t
  /\ recursion_count' = recursion_count - 1
  /\ held' = [held EXCEPT ![t] = @ - 1]
  /\ IF recursion_count > 1
       THEN UNCHANGED <<owner_tid, inherited, pc>>
       ELSE /\ owner_tid' = NoThread
            /\ inherited' = FALSE
            /\ \/ \E w \in Threads : pc[w] = "wait" /\ pc' = [pc EXCEPT ![w] = "woken"]
               \/ (\A w \in Threads : pc[w] # "wait") /\ UNCHANGED pc
  /\ UNCHANGED abandoned

(* mutant: nobody is notified that the owner died *)
MarkAbandonedSilently(t) ==
  /\ pc[t] = "run"
  /\ pc' = [pc EXCEPT ![t] = "dead"]
  /\ IF owner_tid = t
       THEN /\ owner_tid' = NoThread
            /\ recursion_count' = 0
            /\ abandoned' = TRUE
            /\ inherited' = FALSE
            /\ held' = [held EXCEPT ![t] = 0]
       ELSE UNCHANGED <<owner_tid, recursion_count, abandoned, held, inherited>>

(* The thread ends and mark_abandoned is called for it: notify_all if it
   owned the mutex, nothing otherwise. *)
MarkAbandoned(t) ==
  /\ pc[t] = "run"
  /\ IF owner_tid = t
       THEN /\ owner_tid' = NoThread
            /\ recursion_count' = 0
            /\ abandoned' = TRUE
            /\ inherited' = FALSE
            /\ held' = [held EXCEPT ![t] = 0]
            /\ pc' = [u \in Threads |-> IF u = t THEN "dead"
                                        ELSE IF pc[u] = "wait" THEN "woken" ELSE pc[u]]
       ELSE /\ pc' = [pc EXCEPT ![t] = "dead"]
            /\ UNCHANGED <<owner_tid, recursion_count, abandoned, held, inherited>>

(* std's Condvar may wake a waiter that nobody notified. *)
SpuriousWake(t) ==
  /\ pc[t] = "wait"
  /\ pc' = [pc EXCEPT ![t] = "woken"]
  /\ UNCHANGED <<owner_tid, recursion_count, abandoned, held, inherited>>

Next ==
  \E t \in Threads :
    \/ TryAcquire(t)
    \/ Acquire(t)
    \/ Release(t)
    \/ MarkAbandoned(t)
    \/ SpuriousWake(t)

Spec == Init /\ [][Next]_vars

-----------------------------------------------------------------------------
(* What each thread was told adds up to the state: a thread that acquired n
   times more than it released is the owner with recursion_count n, and a
   thread that was told nothing owns nothing, whatever threads barge in
   between a notification and the notified thread's next look, or die. *)
OwnershipExact ==
  /\ \A t \in Threads : held[t] = IF owner_tid = t THEN recursion_count ELSE 0
  /\ owner_tid = NoThread <=> recursion_count = 0

(* release wakes one waiter only. That is enough: while the mutex is free
   and threads are blocked in acquire, one of them is on its way. *)
NoStrandedWaiter ==
  owner_tid = NoThread /\ (\E t \in Threads : pc[t] = "wait")
    => \E t \in Threads : pc[t] = "woken"

(* mark_abandoned is documented (lines 241-242): the next acquirer observes
   is_abandoned(). The owner that took an abandoned mutex should therefore
   read true while it owns it. acquire and try_acquire clear the flag when
   they take the mutex, so no owner can ever see it. *)
AbandonmentObserved == inherited => abandoned
=============================================================================
