------------------------- MODULE GuestSRWLockProofs -------------------------
(***************************************************************************)
(* Exclusion, exact counters and the absence of stranded waiters of        *)
(* GuestSRWLock, for any finite set of threads.  The four together are     *)
(* inductive: exclusion needs the counters (a thread only looks at         *)
(* readers), and the counters need exclusion (a release stores 0).         *)
(***************************************************************************)
EXTENDS GuestSRWLock, FiniteSetTheorems, TLAPS

InQueue == At("waitX") \cup At("wokenX")

IInv == TypeOK /\ Exclusion /\ CountersExact /\ NoStrandedWaiter

(* Every set of threads at a control point is finite, so its cardinality is a
   natural number that is 0 only for the empty set. *)
LEMMA FiniteAt ==
  ASSUME NEW S \in SUBSET Threads
  PROVE  /\ IsFiniteSet(S)
         /\ Cardinality(S) \in Nat
         /\ Cardinality(S) = 0 <=> S = {}
         /\ \A t : Cardinality(S \cup {t}) = IF t \in S THEN Cardinality(S) ELSE Cardinality(S) + 1
         /\ \A t : Cardinality(S \ {t}) = IF t \in S THEN Cardinality(S) - 1 ELSE Cardinality(S)
BY ThreadsAssumption, FS_Subset, FS_CardinalityType, FS_EmptySet, FS_AddElement, FS_RemoveElement

(* The facts about the holders that a value of readers stands for. *)
LEMMA ReadersMeaning ==
  ASSUME TypeOK, Exclusion, CountersExact
  PROVE  /\ At("holdS") \in SUBSET Threads
         /\ InQueue \in SUBSET Threads
         /\ readers # -1 => At("holdX") = {} /\ readers = Cardinality(At("holdS"))
         /\ readers = 0 => At("holdS") = {}
         /\ readers = -1 => At("holdX") # {} /\ At("holdS") = {}
         /\ readers = -1 \/ readers \in Nat
<1>1. At("holdS") \in SUBSET Threads /\ InQueue \in SUBSET Threads
  BY DEF At, InQueue
<1>2. Cardinality(At("holdS")) \in Nat /\ (Cardinality(At("holdS")) = 0 <=> At("holdS") = {})
  BY <1>1, FiniteAt
<1>3. readers = IF At("holdX") # {} THEN -1 ELSE Cardinality(At("holdS"))
  BY DEF CountersExact
<1>4. At("holdX") # {} => At("holdS") = {}
  BY DEF Exclusion, At
<1> QED BY <1>1, <1>2, <1>3, <1>4

(* Initially nobody holds or waits. *)
LEMMA InitInv == Init => IInv
<1> SUFFICES ASSUME Init PROVE IInv
  OBVIOUS
<1>1. TypeOK BY DEF Init, TypeOK, PCs
<1>2. \A l : l # "idle" => At(l) = {} BY DEF Init, At
<1>3. At("holdX") = {} /\ At("holdS") = {} /\ At("waitX") = {} /\ At("wokenX") = {} /\ At("waitS") = {}
  BY <1>2
<1>4. Cardinality({}) = 0 BY FS_EmptySet
<1>5. CountersExact BY <1>3, <1>4 DEF Init, CountersExact
<1>6. NoStrandedWaiter BY <1>3 DEF NoStrandedWaiter
<1>7. Exclusion BY DEF Init, Exclusion
<1> QED BY <1>1, <1>5, <1>6, <1>7 DEF IInv

(* A release that frees the lock: whoever is notified, the queue of writers
   keeps its members, no blocked reader remains, and a blocked writer leaves a
   woken one behind. *)
LEMMA ReleaseInv ==
  ASSUME IInv, NEW t \in Threads, pc[t] \in {"holdX", "holdS"},
         At("holdX") \cup At("holdS") = {t},
         readers' = 0, writers_waiting' = writers_waiting, NotifyAfterRelease(t)
  PROVE  IInv'
<1> USE DEF IInv
<1> DEFINE woken(W) == [u \in Threads |->
                     IF u = t THEN "idle"
                     ELSE IF u \in W THEN "wokenX"
                     ELSE IF pc[u] = "waitS" THEN "wokenS" ELSE pc[u]]
<1>1. PICK W \in SUBSET At("waitX") : pc' = woken(W) /\ (At("waitX") # {} => W # {})
  <2>1. CASE At("waitX") = {}
    BY <2>1 DEF NotifyAfterRelease
  <2>2. CASE At("waitX") # {}
    BY <2>2 DEF NotifyAfterRelease
  <2> QED BY <2>1, <2>2
<1>2. \A u \in Threads : pc[u] \in PCs
  BY DEF TypeOK
<1>3. W \subseteq Threads /\ \A u \in W : pc[u] = "waitX" /\ u # t
  BY DEF At
<1> HIDE DEF woken
<1>a. \A u \in Threads : pc'[u] = IF u = t THEN "idle"
                     ELSE IF u \in W THEN "wokenX"
                     ELSE IF pc[u] = "waitS" THEN "wokenS" ELSE pc[u]
  BY <1>1 DEF woken
<1>b. pc'[t] = "idle" BY <1>a
<1>c. \A u \in W : pc'[u] = "wokenX" BY <1>a, <1>3
<1>d. \A u \in Threads : u # t /\ u \notin W /\ pc[u] = "waitS" => pc'[u] = "wokenS" BY <1>a
<1>e. \A u \in Threads : u # t /\ u \notin W /\ pc[u] # "waitS" => pc'[u] = pc[u] BY <1>a
<1>4. TypeOK'
  <2>1. \A u \in Threads : pc'[u] \in PCs BY <1>b, <1>c, <1>d, <1>e, <1>2 DEF PCs
  <2>2. pc' \in [Threads -> PCs] BY <2>1, <1>1 DEF woken
  <2> QED BY <2>2 DEF TypeOK
<1>5. At("holdX")' = {} /\ At("holdS")' = {}
  <2>1. \A u \in Threads : pc'[u] \notin {"holdX", "holdS"}
    <3> SUFFICES ASSUME NEW u \in Threads PROVE pc'[u] \notin {"holdX", "holdS"} OBVIOUS
    <3>1. CASE u = t BY <3>1, <1>b
    <3>2. CASE u \in W BY <3>2, <1>c
    <3>3. CASE u # t /\ u \notin W /\ pc[u] = "waitS" BY <3>3, <1>d
    <3>4. CASE u # t /\ u \notin W /\ pc[u] # "waitS"
      <4>1. pc[u] \notin {"holdX", "holdS"} BY <3>4 DEF At
      <4> QED BY <3>4, <4>1, <1>e
    <3> QED BY <3>1, <3>2, <3>3, <3>4
  <2> QED BY <2>1 DEF At
<1>6. InQueue' = InQueue
  <2>1. \A u \in Threads : pc'[u] \in {"waitX", "wokenX"} <=> pc[u] \in {"waitX", "wokenX"}
    BY <1>b, <1>c, <1>d, <1>e, <1>3
  <2> QED BY <2>1 DEF InQueue, At
<1>7. At("waitS")' = {}
  <2>1. \A u \in Threads : pc'[u] # "waitS" BY <1>b, <1>c, <1>d, <1>e
  <2> QED BY <2>1 DEF At
<1>8. At("waitX")' # {} => At("wokenX")' # {}
  <2>1. \A u \in Threads : pc'[u] = "waitX" => pc[u] = "waitX" BY <1>b, <1>c, <1>d, <1>e
  <2>2. At("waitX")' # {} => At("waitX") # {} BY <2>1 DEF At
  <2>3. W \subseteq At("wokenX")' BY <1>c, <1>3 DEF At
  <2> QED BY <2>2, <2>3, <1>1
<1>9. CountersExact'
  BY <1>5, <1>6, FS_EmptySet DEF CountersExact, InQueue
<1>10. Exclusion' BY <1>5 DEF Exclusion, At
<1>11. NoStrandedWaiter' BY <1>7, <1>8 DEF NoStrandedWaiter
<1> QED BY <1>4, <1>9, <1>10, <1>11

(* Every step of the lock keeps the inductive invariant. *)
LEMMA NextInv == IInv /\ [Next]_vars => IInv'
<1> SUFFICES ASSUME IInv, [Next]_vars PROVE IInv'
  OBVIOUS
<1> USE DEF IInv
<1>0. \A u \in Threads : pc[u] \in PCs
  BY DEF TypeOK
<1>r. /\ At("holdS") \in SUBSET Threads
      /\ InQueue \in SUBSET Threads
      /\ readers # -1 => At("holdX") = {} /\ readers = Cardinality(At("holdS"))
      /\ readers = 0 => At("holdS") = {}
      /\ readers = -1 => At("holdX") # {} /\ At("holdS") = {}
      /\ readers = -1 \/ readers \in Nat
  BY ReadersMeaning
<1>w. writers_waiting = Cardinality(InQueue) /\ writers_waiting \in Nat
  BY DEF CountersExact, InQueue, TypeOK
<1>1. ASSUME NEW t \in Threads, pc[t] \in {"idle", "wokenX"}, readers = 0,
             readers' = -1, pc' = [pc EXCEPT ![t] = "holdX"],
             writers_waiting' = IF pc[t] = "idle" THEN writers_waiting ELSE writers_waiting - 1
      PROVE IInv'
  \* a thread takes the free lock exclusively
  <2>1. At("holdX")' = {t} /\ At("holdS")' = {}
    BY <1>1, <1>r, <1>0 DEF At, TypeOK
  <2>2. InQueue' = InQueue \ {t} /\ (pc[t] = "wokenX" => t \in InQueue) /\ (pc[t] = "idle" => t \notin InQueue)
    BY <1>1 DEF At, InQueue, TypeOK
  <2>3. Cardinality(InQueue \ {t}) = IF t \in InQueue THEN Cardinality(InQueue) - 1 ELSE Cardinality(InQueue)
    BY <1>r, FiniteAt
  <2>4. Cardinality(InQueue) \in Nat /\ (Cardinality(InQueue) = 0 <=> InQueue = {})
    BY <1>r, FiniteAt
  <2>5. writers_waiting' = Cardinality(InQueue)' /\ writers_waiting' \in Nat
    BY <1>1, <1>w, <2>2, <2>3, <2>4
  <2>6. TypeOK' BY <1>1, <2>5 DEF TypeOK, PCs
  <2>7. CountersExact' BY <1>1, <2>1, <2>5 DEF CountersExact, InQueue
  <2>8. Exclusion' BY <2>1 DEF Exclusion, At
  <2>9. NoStrandedWaiter' BY <1>1 DEF NoStrandedWaiter
  <2> QED BY <2>6, <2>7, <2>8, <2>9
<1>2. ASSUME NEW t \in Threads, pc[t] = "idle", readers # 0,
             writers_waiting' = writers_waiting + 1,
             pc' = [pc EXCEPT ![t] = "waitX"], readers' = readers
      PROVE IInv'
  \* a thread starts to wait for exclusive access
  <2>1. At("holdX")' = At("holdX") /\ At("holdS")' = At("holdS") /\ At("waitS")' = At("waitS")
    BY <1>2 DEF At, TypeOK
  <2>2. InQueue' = InQueue \cup {t} /\ t \notin InQueue
    BY <1>2 DEF At, InQueue, TypeOK
  <2>3. Cardinality(InQueue)' = Cardinality(InQueue) + 1
    BY <1>r, <2>2, FiniteAt
  <2>6. TypeOK' BY <1>2 DEF TypeOK, PCs
  <2>7. CountersExact' BY <1>2, <1>w, <2>1, <2>3 DEF CountersExact, InQueue
  <2>8. Exclusion' BY <1>2 DEF Exclusion, TypeOK
  <2>9. NoStrandedWaiter' BY <1>2, <2>1, <1>w DEF NoStrandedWaiter
  <2> QED BY <2>6, <2>7, <2>8, <2>9
<1>3. ASSUME NEW t \in Threads, NEW l \in {"waitX", "wokenX"}, pc[t] \in {"waitX", "wokenX"},
             l = "waitX" => readers # 0,
             pc' = [pc EXCEPT ![t] = l], readers' = readers, writers_waiting' = writers_waiting
      PROVE IInv'
  \* a thread moves within the writers' queue
  <2>1. At("holdX")' = At("holdX") /\ At("holdS")' = At("holdS") /\ At("waitS")' = At("waitS")
    BY <1>3 DEF At, TypeOK
  <2>2. InQueue' = InQueue
    BY <1>3 DEF At, InQueue, TypeOK
  <2>6. TypeOK' BY <1>3 DEF TypeOK, PCs
  <2>7. CountersExact' BY <1>3, <1>w, <2>1, <2>2 DEF CountersExact, InQueue
  <2>8. Exclusion' BY <1>3 DEF Exclusion, TypeOK
  <2>9. NoStrandedWaiter'
    <3>1. l = "wokenX" => At("wokenX")' # {} BY <1>3 DEF At, TypeOK
    <3> QED BY <1>3, <2>1, <3>1 DEF NoStrandedWaiter
  <2> QED BY <2>6, <2>7, <2>8, <2>9
<1>4. ASSUME NEW t \in Threads, NEW l \in {"waitS", "wokenS"}, pc[t] \in {"idle", "waitS", "wokenS"},
             l = "waitS" => readers < 0 \/ writers_waiting > 0,
             pc' = [pc EXCEPT ![t] = l], readers' = readers, writers_waiting' = writers_waiting
      PROVE IInv'
  \* a thread starts to wait for shared access, or is woken from that wait
  <2>1. /\ At("holdX")' = At("holdX") /\ At("holdS")' = At("holdS")
        /\ At("waitX")' = At("waitX") /\ At("wokenX")' = At("wokenX")
    BY <1>4 DEF At, TypeOK
  <2>2. At("waitS")' \subseteq At("waitS") \cup {t} /\ (l = "wokenS" => At("waitS")' \subseteq At("waitS"))
    BY <1>4 DEF At, TypeOK
  <2>6. TypeOK' BY <1>4 DEF TypeOK, PCs
  <2>7. CountersExact' BY <1>4, <2>1 DEF CountersExact
  <2>8. Exclusion' BY <1>4 DEF Exclusion, TypeOK
  <2>9. NoStrandedWaiter'
    <3>1. At("waitS")' # {} => readers' = -1 \/ writers_waiting' > 0
      BY <1>4, <1>r, <2>2 DEF NoStrandedWaiter
    <3>2. readers' = 0 /\ At("waitX")' # {} => At("wokenX")' # {}
      BY <1>4, <2>1 DEF NoStrandedWaiter
    <3> QED BY <3>1, <3>2 DEF NoStrandedWaiter
  <2> QED BY <2>6, <2>7, <2>8, <2>9
<1>5. ASSUME NEW t \in Threads, pc[t] \in {"idle", "wokenS"}, readers >= 0, writers_waiting = 0,
             readers' = readers + 1, pc' = [pc EXCEPT ![t] = "holdS"], writers_waiting' = writers_waiting
      PROVE IInv'
  \* a thread takes the lock in shared mode
  <2>0. readers # -1 /\ readers \in Nat BY <1>5, <1>r
  <2>1. At("holdX")' = {} /\ At("holdS")' = At("holdS") \cup {t} /\ t \notin At("holdS")
    BY <1>5, <2>0, <1>r DEF At, TypeOK
  <2>2. InQueue' = InQueue /\ At("waitX")' = At("waitX") /\ At("wokenX")' = At("wokenX")
    BY <1>5 DEF At, InQueue, TypeOK
  <2>3. At("waitS")' \subseteq At("waitS") /\ At("waitS") = {}
    BY <1>5, <2>0 DEF At, TypeOK, NoStrandedWaiter
  <2>4. Cardinality(At("holdS"))' = Cardinality(At("holdS")) + 1
    BY <1>r, <2>1, FiniteAt
  <2>5. TypeOK' BY <1>5 DEF TypeOK, PCs
  <2>6. readers' = Cardinality(At("holdS"))' BY <1>5, <1>r, <2>0, <2>4
  <2>7. CountersExact' BY <1>5, <1>w, <2>1, <2>2, <2>6 DEF CountersExact, InQueue
  <2>8. Exclusion' BY <2>1 DEF Exclusion, At
  <2>9. NoStrandedWaiter' BY <1>5, <2>0, <2>2, <2>3 DEF NoStrandedWaiter
  <2> QED BY <2>5, <2>7, <2>8, <2>9
<1>6. ASSUME NEW t \in Threads, pc[t] = "holdS", readers > 1,
             readers' = readers - 1, pc' = [pc EXCEPT ![t] = "idle"], writers_waiting' = writers_waiting
      PROVE IInv'
  \* a reader that is not the last one leaves
  <2>0. readers # -1 /\ readers \in Nat BY <1>6, <1>r
  <2>1. At("holdX")' = {} /\ At("holdS")' = At("holdS") \ {t} /\ t \in At("holdS")
    BY <1>6, <2>0, <1>r DEF At, TypeOK
  <2>2. InQueue' = InQueue /\ At("waitS")' = At("waitS")
    BY <1>6 DEF At, InQueue, TypeOK
  <2>4. Cardinality(At("holdS"))' = Cardinality(At("holdS")) - 1
    BY <1>r, <2>1, FiniteAt
  <2>5. TypeOK' BY <1>6 DEF TypeOK, PCs
  <2>6. readers' = Cardinality(At("holdS"))' BY <1>6, <1>r, <2>0, <2>4
  <2>7. CountersExact' BY <1>6, <1>w, <2>1, <2>2, <2>6 DEF CountersExact, InQueue
  <2>8. Exclusion' BY <2>1 DEF Exclusion, At
  <2>9. NoStrandedWaiter' BY <1>6, <2>0, <2>2 DEF NoStrandedWaiter
  <2> QED BY <2>5, <2>7, <2>8, <2>9
<1>7. ASSUME UNCHANGED vars PROVE IInv'
  BY <1>7 DEF vars, TypeOK, Exclusion, CountersExact, NoStrandedWaiter, At
<1>8. ASSUME NEW t \in Threads, AcquireExclusive(t) PROVE IInv'
  BY <1>8, <1>1, <1>2 DEF AcquireExclusive
<1>9. ASSUME NEW t \in Threads, TryAcquireExclusive(t) PROVE IInv'
  BY <1>9, <1>1 DEF TryAcquireExclusive
<1>10. ASSUME NEW t \in Threads, ResumeExclusive(t) PROVE IInv'
  BY <1>10, <1>1, <1>3 DEF ResumeExclusive
<1>11. ASSUME NEW t \in Threads, ReleaseExclusive(t) PROVE IInv'
  <2>1. CASE readers # -1
    BY <2>1, <1>11, <1>7 DEF ReleaseExclusive, vars
  <2>2. CASE readers = -1
    <3>1. pc[t] = "holdX" BY <2>2, <1>11 DEF ReleaseExclusive
    <3>2. At("holdX") \cup At("holdS") = {t} BY <3>1, <2>2, <1>r DEF Exclusion, At
    <3> QED BY <3>1, <3>2, <2>2, <1>11, ReleaseInv DEF ReleaseExclusive
  <2> QED BY <2>1, <2>2
<1>12. ASSUME NEW t \in Threads, AcquireShared(t) PROVE IInv'
  <2>1. CASE readers < 0 \/ writers_waiting > 0
    BY <2>1, <1>12, <1>4 DEF AcquireShared
  <2>2. CASE ~(readers < 0 \/ writers_waiting > 0)
    <3>1. readers >= 0 /\ writers_waiting = 0 BY <2>2, <1>w, <1>r
    <3> QED BY <3>1, <2>2, <1>12, <1>5 DEF AcquireShared
  <2> QED BY <2>1, <2>2
<1>13. ASSUME NEW t \in Threads, TryAcquireShared(t) PROVE IInv'
  BY <1>13, <1>5 DEF TryAcquireShared
<1>14. ASSUME NEW t \in Threads, ReleaseShared(t) PROVE IInv'
  <2>1. CASE readers <= 0
    BY <2>1, <1>14, <1>7 DEF ReleaseShared, vars
  <2>2. CASE readers = 1
    <3>1. pc[t] = "holdS" BY <2>2, <1>14 DEF ReleaseShared
    <3>2. t \in At("holdS") /\ Cardinality(At("holdS")) = 1 /\ At("holdX") = {}
      BY <3>1, <2>2, <1>r DEF At
    <3>3. At("holdS") \ {t} \in SUBSET Threads /\ Cardinality(At("holdS") \ {t}) = 0
      BY <3>2, <1>r, FiniteAt
    <3>4. At("holdS") \ {t} = {} BY <3>3, FiniteAt
    <3>5. At("holdX") \cup At("holdS") = {t} BY <3>4, <3>2
    <3>6. readers' = 0 /\ NotifyAfterRelease(t) /\ writers_waiting' = writers_waiting
      BY <2>2, <1>14 DEF ReleaseShared
    <3> QED BY <3>1, <3>5, <3>6, ReleaseInv
  <2>3. CASE readers > 1
    <3>1. pc[t] = "holdS" /\ readers \in Int BY <2>3, <1>14, <1>r DEF ReleaseShared
    <3> QED BY <3>1, <2>3, <1>14, <1>6 DEF ReleaseShared
  <2> QED BY <2>1, <2>2, <2>3, <1>r
<1>15. ASSUME NEW t \in Threads, SpuriousWake(t) PROVE IInv'
  <2>1. CASE pc[t] = "waitX" BY <2>1, <1>15, <1>3 DEF SpuriousWake
  <2>2. CASE pc[t] = "waitS" BY <2>2, <1>15, <1>4 DEF SpuriousWake
  <2> QED BY <2>1, <2>2, <1>15 DEF SpuriousWake
<1> QED BY <1>7, <1>8, <1>9, <1>10, <1>11, <1>12, <1>13, <1>14, <1>15 DEF Next

(* GuestSRWLock hands out the lock correctly: exclusion, exact counters and no
   stranded waiter hold in every reachable state, for any number of threads. *)
THEOREM SRWLockSafety == Spec => [](Exclusion /\ CountersExact /\ NoStrandedWaiter)
<1>1. IInv => Exclusion /\ CountersExact /\ NoStrandedWaiter BY DEF IInv
<1> QED BY <1>1, InitInv, NextInv, PTL DEF Spec

-----------------------------------------------------------------------------
(* Only writers are in the exclusive part of the code. *)
WritersOnly == \A t \in Threads : pc[t] \in {"waitX", "wokenX"} => t \in Writers

LEMMA WritersOnlyStep == TypeOK /\ WritersOnly /\ [Next]_vars => WritersOnly'
<1> SUFFICES ASSUME TypeOK, WritersOnly, [Next]_vars PROVE WritersOnly'
  OBVIOUS
<1> USE DEF WritersOnly, TypeOK
<1>1. ASSUME NEW t \in Threads, NotifyAfterRelease(t) PROVE WritersOnly'
  <2>1. \A u \in Threads : pc'[u] \in {"waitX", "wokenX"} => pc[u] \in {"waitX", "wokenX"}
    BY <1>1 DEF NotifyAfterRelease, At
  <2> QED BY <2>1
<1>2. CASE UNCHANGED vars BY <1>2 DEF vars
<1>3. ASSUME NEW t \in Threads, t \in Writers, AcquireExclusive(t) PROVE WritersOnly'
  BY <1>3 DEF AcquireExclusive
<1>4. ASSUME NEW t \in Threads, TryAcquireExclusive(t) PROVE WritersOnly'
  BY <1>4 DEF TryAcquireExclusive
<1>5. ASSUME NEW t \in Threads, ResumeExclusive(t) PROVE WritersOnly'
  BY <1>5 DEF ResumeExclusive
<1>6. ASSUME NEW t \in Threads, ReleaseExclusive(t) PROVE WritersOnly'
  BY <1>6, <1>1 DEF ReleaseExclusive
<1>7. ASSUME NEW t \in Threads, AcquireShared(t) PROVE WritersOnly'
  BY <1>7 DEF AcquireShared
<1>8. ASSUME NEW t \in Threads, TryAcquireShared(t) PROVE WritersOnly'
  BY <1>8 DEF TryAcquireShared
<1>9. ASSUME NEW t \in Threads, ReleaseShared(t) PROVE WritersOnly'
  BY <1>9, <1>1 DEF ReleaseShared
<1>10. ASSUME NEW t \in Threads, SpuriousWake(t) PROVE WritersOnly'
  BY <1>10 DEF SpuriousWake
<1> QED BY <1>2, <1>3, <1>4, <1>5, <1>6, <1>7, <1>8, <1>9, <1>10 DEF Next

(* A step that moves one thread of the map of holders. *)
LEMMA ModeMoves ==
  ASSUME NEW t \in Threads, NEW h,
         \A u \in Threads : Held(pc'[u]) = IF u = t THEN h ELSE Held(pc[u])
  PROVE  Mode' = [Mode EXCEPT ![t] = h]
<1>1. Mode' = [u \in Threads |-> Held(pc'[u])] BY DEF Mode
<1>2. [Mode EXCEPT ![t] = h] = [u \in Threads |-> IF u = t THEN h ELSE Held(pc[u])]
  BY DEF Mode
<1> QED BY <1>1, <1>2

(* Every step of the lock is a step of the reader-writer lock, or none: a
   look that fails, a wake-up and a recognised misuse change nothing there. *)
LEMMA LockStep ==
  IInv /\ WritersOnly /\ [Next]_vars => [Lock!Next]_(Lock!lockVars)
<1> SUFFICES ASSUME IInv, WritersOnly, [Next]_vars
             PROVE  [Lock!Next]_(Lock!lockVars)
  OBVIOUS
<1>0. TypeOK /\ pc \in [Threads -> PCs] BY DEF IInv, TypeOK
<1>r. /\ readers # -1 => At("holdX") = {}
      /\ readers = 0 => At("holdS") = {}
      /\ readers = -1 \/ readers \in Nat
  BY ReadersMeaning DEF IInv
<1>w. writers_waiting = Cardinality(InQueue) /\ (writers_waiting = 0 <=> InQueue = {})
  <2>1. InQueue \in SUBSET Threads BY DEF InQueue, At
  <2> QED BY <2>1, FiniteAt DEF IInv, CountersExact, InQueue
<1>m. \A u \in Threads : Mode[u] = Held(pc[u]) BY DEF Mode
<1>q. \A u : u \in InQueue <=> u \in Threads /\ pc[u] \in {"waitX", "wokenX"}
  BY DEF InQueue, At
<1>s. \A u : u \in InQueue' <=> u \in Threads /\ pc'[u] \in {"waitX", "wokenX"}
  BY DEF InQueue, At
<1>1. ASSUME NEW t \in Threads, t \in Writers, pc[t] \in {"idle", "wokenX"}, readers = 0,
             pc' = [pc EXCEPT ![t] = "holdX"]
      PROVE  Lock!TakeExclusive(t)
  <2>1. \A u \in Threads : Mode[u] = "none" BY <1>1, <1>r, <1>m DEF At, Held
  <2>2. Mode' = [Mode EXCEPT ![t] = "exclusive"]
    <3>1. \A u \in Threads : Held(pc'[u]) = IF u = t THEN "exclusive" ELSE Held(pc[u])
      BY <1>0, <1>1 DEF Held
    <3> QED BY <3>1, ModeMoves
  <2>3. InQueue' = InQueue \ {t} BY <1>0, <1>1, <1>q, <1>s
  <2> QED BY <1>1, <2>1, <2>2, <2>3 DEF Lock!TakeExclusive, InQueue
<1>2. ASSUME NEW t \in Threads, t \in Writers, pc[t] = "idle", pc' = [pc EXCEPT ![t] = "waitX"]
      PROVE  Lock!StartWaiting(t)
  <2>1. Mode[t] = "none" /\ Mode' = Mode BY <1>0, <1>2, <1>m DEF Held, Mode
  <2>2. InQueue' = InQueue \cup {t} /\ t \notin InQueue BY <1>0, <1>2, <1>q, <1>s
  <2> QED BY <1>2, <2>1, <2>2 DEF Lock!StartWaiting, InQueue
<1>3. ASSUME NEW t \in Threads, pc[t] \in {"idle", "wokenS"}, readers >= 0, writers_waiting = 0,
             pc' = [pc EXCEPT ![t] = "holdS"]
      PROVE  Lock!TakeShared(t)
  <2>1. \A u \in Threads : Mode[u] # "exclusive" BY <1>3, <1>r, <1>m DEF At, Held
  <2>2. Mode[t] = "none" BY <1>3, <1>m DEF Held
  <2>3. Mode' = [Mode EXCEPT ![t] = "shared"]
    <3>1. \A u \in Threads : Held(pc'[u]) = IF u = t THEN "shared" ELSE Held(pc[u])
      BY <1>0, <1>3 DEF Held
    <3> QED BY <3>1, ModeMoves
  <2>4. InQueue' = InQueue BY <1>0, <1>3, <1>q, <1>s
  <2> QED BY <1>3, <1>w, <2>1, <2>2, <2>3, <2>4 DEF Lock!TakeShared, InQueue
<1>4. ASSUME NEW t \in Threads, pc[t] \in {"holdX", "holdS"},
             \A u \in Threads : /\ Held(pc'[u]) = IF u = t THEN "none" ELSE Held(pc[u])
                                /\ pc'[u] \in {"waitX", "wokenX"} <=> pc[u] \in {"waitX", "wokenX"}
      PROVE  Lock!Release(t)
  <2>1. Mode[t] # "none" BY <1>4, <1>m DEF Held
  <2>2. Mode' = [Mode EXCEPT ![t] = "none"]
    <3>1. \A u \in Threads : Held(pc'[u]) = IF u = t THEN "none" ELSE Held(pc[u])
      BY <1>4
    <3> QED BY <3>1, ModeMoves
  <2>3. InQueue' = InQueue BY <1>4, <1>q, <1>s
  <2> QED BY <2>1, <2>2, <2>3 DEF Lock!Release, InQueue
<1>5. ASSUME \A u \in Threads : /\ Held(pc'[u]) = Held(pc[u])
                                /\ pc'[u] \in {"waitX", "wokenX"} <=> pc[u] \in {"waitX", "wokenX"}
      PROVE  UNCHANGED Lock!lockVars
  <2>1. Mode' = Mode BY <1>5 DEF Mode
  <2>2. InQueue' = InQueue BY <1>5, <1>q, <1>s
  <2> QED BY <2>1, <2>2 DEF Lock!lockVars, InQueue
<1>6. ASSUME NEW t \in Threads, pc[t] \in {"holdX", "holdS"}, NotifyAfterRelease(t)
      PROVE  Lock!Release(t)
  <2>1. \A u \in Threads : /\ Held(pc'[u]) = IF u = t THEN "none" ELSE Held(pc[u])
                           /\ pc'[u] \in {"waitX", "wokenX"} <=> pc[u] \in {"waitX", "wokenX"}
    BY <1>0, <1>6 DEF NotifyAfterRelease, At, Held
  <2> QED BY <1>4, <1>6, <2>1
<1>7. CASE UNCHANGED vars
  BY <1>5, <1>7 DEF vars
<1>8. ASSUME NEW t \in Threads, t \in Writers, AcquireExclusive(t) \/ TryAcquireExclusive(t)
      PROVE  Lock!TakeExclusive(t) \/ Lock!StartWaiting(t)
  BY <1>8, <1>1, <1>2 DEF AcquireExclusive, TryAcquireExclusive
<1>9. ASSUME NEW t \in Threads, ResumeExclusive(t)
      PROVE  Lock!TakeExclusive(t) \/ UNCHANGED Lock!lockVars
  <2>1. CASE readers = 0
    <3>1. t \in Writers BY <1>9 DEF WritersOnly, ResumeExclusive
    <3> QED BY <1>9, <2>1, <3>1, <1>1 DEF ResumeExclusive
  <2>2. CASE readers # 0
    <3>1. pc[t] = "wokenX" /\ pc' = [pc EXCEPT ![t] = "waitX"] BY <1>9, <2>2 DEF ResumeExclusive
    <3> QED BY <1>0, <3>1, <1>5 DEF Held
  <2> QED BY <2>1, <2>2
<1>10. ASSUME NEW t \in Threads, ReleaseExclusive(t)
       PROVE  Lock!Release(t) \/ UNCHANGED Lock!lockVars
  BY <1>10, <1>5, <1>6 DEF ReleaseExclusive
<1>11. ASSUME NEW t \in Threads, AcquireShared(t) \/ TryAcquireShared(t)
       PROVE  Lock!TakeShared(t) \/ UNCHANGED Lock!lockVars
  <2>1. CASE readers < 0 \/ writers_waiting > 0
    <3>1. writers_waiting \in Nat BY DEF IInv, TypeOK
    <3>2. pc[t] \in {"idle", "wokenS"} /\ pc' = [pc EXCEPT ![t] = "waitS"]
      BY <1>11, <2>1, <1>r, <3>1 DEF AcquireShared, TryAcquireShared
    <3> QED BY <1>0, <3>2, <1>5 DEF Held
  <2>2. CASE ~(readers < 0 \/ writers_waiting > 0)
    <3>1. readers >= 0 /\ writers_waiting = 0 BY <2>2, <1>r DEF IInv, TypeOK
    <3>2. pc[t] \in {"idle", "wokenS"} /\ pc' = [pc EXCEPT ![t] = "holdS"]
      BY <1>11, <2>2 DEF AcquireShared, TryAcquireShared
    <3> QED BY <3>1, <3>2, <1>3
  <2> QED BY <2>1, <2>2
<1>12. ASSUME NEW t \in Threads, ReleaseShared(t)
       PROVE  Lock!Release(t) \/ UNCHANGED Lock!lockVars
  <2>1. CASE readers <= 0 BY <1>12, <2>1, <1>5 DEF ReleaseShared
  <2>2. CASE readers = 1 BY <1>12, <2>2, <1>6 DEF ReleaseShared
  <2>3. CASE ~(readers <= 0) /\ readers # 1
    <3>1. pc[t] = "holdS" /\ pc' = [pc EXCEPT ![t] = "idle"] BY <1>12, <2>3 DEF ReleaseShared
    <3> QED BY <1>0, <3>1, <1>4 DEF Held
  <2> QED BY <2>1, <2>2, <2>3
<1>13. ASSUME NEW t \in Threads, SpuriousWake(t) PROVE UNCHANGED Lock!lockVars
  BY <1>0, <1>13, <1>5 DEF SpuriousWake, Held
<1> QED
  <2>1. CASE Next
    BY <2>1, <1>8, <1>9, <1>10, <1>11, <1>12, <1>13 DEF Next, Lock!Next
  <2> QED BY <2>1, <1>7

(* GuestSRWLock is a reader-writer lock with writer preference, for any finite
   set of threads: acquire, release and the try variants are the abstract
   operations, and everything that happens between them is invisible. *)
THEOREM SRWImplementsLock == Spec => ImplementsLock
<1>1. Init => Lock!Init /\ WritersOnly
  <2> SUFFICES ASSUME Init PROVE Lock!Init /\ WritersOnly
    OBVIOUS
  <2>1. Mode = [t \in Threads |-> "none"] BY DEF Init, Mode, Held
  <2>2. At("waitX") \cup At("wokenX") = {} BY DEF Init, At
  <2> QED BY <2>1, <2>2 DEF Lock!Init, Init, WritersOnly
<1>2. IInv => TypeOK BY DEF IInv
<1> QED BY <1>1, <1>2, InitInv, NextInv, WritersOnlyStep, LockStep, PTL
     DEF Spec, ImplementsLock, Lock!Spec

=============================================================================
