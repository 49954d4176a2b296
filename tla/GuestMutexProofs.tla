-------------------------- MODULE GuestMutexProofs --------------------------
(***************************************************************************)
(* GuestMutex: ownership is exact and no waiter is stranded, for any set   *)
(* of threads and any nesting depth.                                       *)
(***************************************************************************)
EXTENDS GuestMutex, TLAPS

(* OwnershipExact and NoStrandedWaiter need each other and the types: that
   no thread waits on a mutex it owns is what lets Release wake any waiter. *)
IInv ==
  /\ TypeOK
  /\ OwnershipExact
  /\ NoStrandedWaiter
  /\ \A t \in Threads : pc[t] \in {"wait", "woken", "dead"} => owner_tid # t

LEMMA InitInv == Init => IInv
<1> SUFFICES ASSUME Init PROVE IInv
  OBVIOUS
<1> USE MutexAssumption DEF Init
<1>0. abandoned \in BOOLEAN /\ inherited \in BOOLEAN
  BY Zenon
<1>1. TypeOK
  BY <1>0 DEF TypeOK
<1>2. OwnershipExact
  BY DEF OwnershipExact
<1>3. QED
  BY <1>1, <1>2 DEF IInv, NoStrandedWaiter

(* Taking the mutex, from "run" or from "woken". *)
LEMMA EnterInv ==
  ASSUME IInv, NEW t \in Threads, pc[t] \in {"run", "woken"}, Enter(t),
         pc' = [pc EXCEPT ![t] = "run"]
  PROVE  IInv'
<1> USE MutexAssumption
<1>1. CASE owner_tid = NoThread
  <2>1. /\ owner_tid' = t
        /\ recursion_count' = 1
        /\ abandoned' = FALSE
        /\ inherited' = abandoned
        /\ held' = [held EXCEPT ![t] = @ + 1]
    BY <1>1 DEF Enter
  <2>b. abandoned' \in BOOLEAN /\ inherited' \in BOOLEAN
    BY <2>1, Zenon DEF IInv, TypeOK
  <2>2. TypeOK'
    BY <2>1, <2>b DEF IInv, TypeOK
  <2>3. OwnershipExact'
    BY <1>1, <2>1 DEF IInv, TypeOK, OwnershipExact
  <2>4. QED
    BY <2>1, <2>2, <2>3 DEF IInv, TypeOK, NoStrandedWaiter
<1>2. CASE owner_tid = t
  <2>1. /\ recursion_count' = recursion_count + 1
        /\ recursion_count < MaxDepth
        /\ held' = [held EXCEPT ![t] = @ + 1]
        /\ UNCHANGED <<owner_tid, abandoned, inherited>>
    BY <1>2 DEF Enter
  <2>2. TypeOK'
    BY <2>1 DEF IInv, TypeOK
  <2>3. OwnershipExact'
    BY <1>2, <2>1 DEF IInv, TypeOK, OwnershipExact
  <2>4. QED
    BY <1>2, <2>1, <2>2, <2>3 DEF IInv, TypeOK, NoStrandedWaiter
<1>3. QED
  BY <1>1, <1>2 DEF Enter

LEMMA NextInv == IInv /\ [Next]_vars => IInv'
<1> SUFFICES ASSUME IInv, [Next]_vars PROVE IInv'
  OBVIOUS
<1> USE MutexAssumption
<1>1. ASSUME NEW t \in Threads, TryAcquire(t) PROVE IInv'
  <2>1. pc' = [pc EXCEPT ![t] = "run"]
    BY <1>1 DEF TryAcquire, IInv, TypeOK
  <2>2. QED
    BY <1>1, <2>1, EnterInv DEF TryAcquire
<1>2. ASSUME NEW t \in Threads, Acquire(t) PROVE IInv'
  <2>1. CASE Enter(t) /\ pc' = [pc EXCEPT ![t] = "run"]
    BY <1>2, <2>1, EnterInv DEF Acquire
  <2>2. CASE /\ owner_tid \notin {NoThread, t}
             /\ pc' = [pc EXCEPT ![t] = "wait"]
             /\ UNCHANGED <<owner_tid, recursion_count, abandoned, held, inherited>>
    BY <2>2 DEF IInv, TypeOK, OwnershipExact, NoStrandedWaiter
  <2>3. QED
    BY <1>2, <2>1, <2>2 DEF Acquire
<1>3. ASSUME NEW t \in Threads, Release(t) PROVE IInv'
  <2>1. recursion_count > 0 /\ recursion_count \in Nat /\ held[t] = recursion_count
    BY <1>3 DEF Release, IInv, TypeOK, OwnershipExact
  <2>2. CASE recursion_count > 1
    <3>1. /\ UNCHANGED <<owner_tid, inherited, pc, abandoned>>
          /\ recursion_count' = recursion_count - 1
          /\ held' = [held EXCEPT ![t] = @ - 1]
          /\ owner_tid = t
      BY <1>3, <2>2 DEF Release
    <3>2. TypeOK'
      BY <2>1, <2>2, <3>1 DEF IInv, TypeOK
    <3>3. OwnershipExact'
      BY <2>1, <2>2, <3>1 DEF IInv, TypeOK, OwnershipExact
    <3>4. QED
      BY <3>1, <3>2, <3>3 DEF IInv, TypeOK, NoStrandedWaiter
  <2>3. CASE recursion_count = 1
    <3>1. /\ owner_tid' = NoThread
          /\ inherited' = FALSE
          /\ UNCHANGED abandoned
          /\ recursion_count' = 0
          /\ held' = [held EXCEPT ![t] = @ - 1]
          /\ owner_tid = t
          /\ \/ \E w \in Threads : pc[w] = "wait" /\ pc' = [pc EXCEPT ![w] = "woken"]
             \/ (\A w \in Threads : pc[w] # "wait") /\ UNCHANGED pc
      BY <1>3, <2>3 DEF Release
    <3>b. abandoned' \in BOOLEAN /\ inherited' \in BOOLEAN
      BY <3>1, Zenon DEF IInv, TypeOK
    <3>2. TypeOK'
      BY <2>1, <2>3, <3>1, <3>b DEF IInv, TypeOK
    <3>3. OwnershipExact'
      BY <2>1, <2>3, <3>1 DEF IInv, TypeOK, OwnershipExact
    <3>4. NoStrandedWaiter'
      BY <3>1 DEF IInv, TypeOK, NoStrandedWaiter
    <3>5. QED
      BY <3>1, <3>2, <3>3, <3>4 DEF IInv, TypeOK
  <2>4. QED
    BY <2>1, <2>2, <2>3
<1>4. ASSUME NEW t \in Threads, MarkAbandoned(t) PROVE IInv'
  <2>1. CASE owner_tid = t
    <3>1. /\ owner_tid' = NoThread
          /\ recursion_count' = 0
          /\ abandoned' = TRUE
          /\ inherited' = FALSE
          /\ held' = [held EXCEPT ![t] = 0]
          /\ pc' = [u \in Threads |-> IF u = t THEN "dead"
                                      ELSE IF pc[u] = "wait" THEN "woken" ELSE pc[u]]
      BY <1>4, <2>1 DEF MarkAbandoned
    <3>b. abandoned' \in BOOLEAN /\ inherited' \in BOOLEAN
      BY <3>1, Zenon
    <3>2. TypeOK'
      BY <3>1, <3>b DEF IInv, TypeOK
    <3>3. OwnershipExact'
      BY <2>1, <3>1 DEF IInv, TypeOK, OwnershipExact
    <3>4. QED
      BY <3>1, <3>2, <3>3 DEF IInv, TypeOK, NoStrandedWaiter
  <2>2. CASE owner_tid # t
    BY <1>4, <2>2 DEF MarkAbandoned, IInv, TypeOK, OwnershipExact, NoStrandedWaiter
  <2>3. QED
    BY <2>1, <2>2
<1>5. ASSUME NEW t \in Threads, SpuriousWake(t) PROVE IInv'
  BY <1>5 DEF SpuriousWake, IInv, TypeOK, OwnershipExact, NoStrandedWaiter
<1>6. CASE UNCHANGED vars
  BY <1>6 DEF vars, IInv, TypeOK, OwnershipExact, NoStrandedWaiter
<1>7. QED
  BY <1>1, <1>2, <1>3, <1>4, <1>5, <1>6 DEF Next

(* For any set of threads and any depth of nesting: what each thread was
   told about its acquisitions matches owner_tid and recursion_count, and
   release's notify_one and mark_abandoned's notify_all strand no waiter. *)
THEOREM MutexSafety == Spec => [](OwnershipExact /\ NoStrandedWaiter)
<1>1. IInv => OwnershipExact /\ NoStrandedWaiter
  BY DEF IInv
<1>2. QED
  BY <1>1, InitInv, NextInv, PTL DEF Spec
=============================================================================
