-------------------------- MODULE SliceCodeProofs ---------------------------
(***************************************************************************)
(* Proofs about SliceCode, for any pages, any slices, any budget and any   *)
(* cache size, with or without the AOT cache.                              *)
(*                                                                         *)
(* WritesReported is not inductive. IInv adds where a recorded store can   *)
(* be while the round runs (RecordedSomewhere), that the last slice leaves *)
(* no log behind (LogHasReader), that every block known to be stale has    *)
(* its page among the recorded ones, and that code_pages covers the blocks *)
(* of the dispatcher (in JitOK).                                           *)
(***************************************************************************)
EXTENDS SliceCode, TLAPS

(* The two caches of j and its page set fit together. *)
JitOK(j) ==
  /\ j.block_cache \in [Pages -> Status]
  /\ j.slice_block_cache \in [Pages -> Status]
  /\ j.code_pages \subseteq Pages
  /\ Cached(j.block_cache) \subseteq j.code_pages
  /\ \A p \in Pages : j.block_cache[p] # "missed"

(* The pages with a block that is known to be stale. *)
SeenIn(cache) == {p \in Pages : cache[p] = "seen"}

Seen(j) == SeenIn(j.block_cache) \cup SeenIn(j.slice_block_cache)

RecordedSomewhere ==
  \A p \in recorded :
    \/ p \in code_writes
    \/ \E s \in Slices : p \in report[s]
    \/ \E s \in Slices : pc[s] = "push" /\ pend[s] = p

LogHasReader == code_writes # {} => \E s \in Slices : pc[s] \notin {"idle", "done"}

PendIsPage == \A s \in Slices : pc[s] = "push" => pend[s] \in Pages

AfterPending ==
  \A s \in Slices : /\ after[s] # "tail" => pc[s] \in {"push", "bump"}
                    /\ after[s] = "return" => pc[s] = "push"

OwnStopped ==
  \A s \in Slices : own[s] = "store" =>
    \/ pc[s] \in {"push", "bump"} /\ after[s] \in {"tail", "stop"}
    \/ pc[s] = "tail" /\ moved[s] /\ wrote[s]
    \/ pc[s] \in {"stop", "drain"}

Quiet ==
  phase = "own" => /\ recorded = {}
                   /\ code_writes = {}
                   /\ \A s \in Slices : pc[s] = "idle" /\ own[s] = "no"

Typed ==
  /\ phase \in {"own", "round"}
  /\ code_writes \subseteq Pages
  /\ recorded \subseteq Pages
  /\ pc \in [Slices -> Labels]
  /\ rip \in [Slices -> Pages \cup {Thunk}]
  /\ left \in [Slices -> 0..Budget]
  /\ moved \in [Slices -> BOOLEAN]
  /\ wrote \in [Slices -> BOOLEAN]
  /\ pend \in [Slices -> Pages \cup {Thunk}]
  /\ after \in [Slices -> {"tail", "resolve", "stop", "return"}]
  /\ report \in [Slices -> SUBSET Pages]
  /\ exit \in [Slices -> {"CodeWrite", "Other"}]
  /\ own \in [Slices -> {"no", "store", "push"}]

(* The part of the invariant about the caches, and the part about the slices. *)
CacheInv == JitOK(jit) /\ Seen(jit) \subseteq recorded

SliceInv ==
  Typed /\ RecordedSomewhere /\ LogHasReader /\ PendIsPage /\ AfterPending /\ OwnStopped /\ Quiet

IInv == CacheInv /\ SliceInv

-----------------------------------------------------------------------------
(* The operations on the caches. *)

(* invalidate_block keeps the page set in step with the cache. *)
LEMMA InvalidateOK ==
  ASSUME NEW j, JitOK(j), NEW S
  PROVE  /\ JitOK(Invalidate(j, S))
         /\ SeenIn(Invalidate(j, S).block_cache) = SeenIn(j.block_cache) \ S
         /\ SeenIn(Invalidate(j, S).slice_block_cache) = SeenIn(j.slice_block_cache) \ S
BY DEF JitOK, Jit, Invalidate, SeenIn, Cached, Status

(* clear_slice_blocks touches nothing but the slice blocks. *)
LEMMA ClearOK ==
  ASSUME NEW j, JitOK(j)
  PROVE  /\ JitOK(ClearSliceBlocks(j))
         /\ ClearSliceBlocks(j).block_cache = j.block_cache
         /\ SeenIn(ClearSliceBlocks(j).slice_block_cache) = {}
BY DEF JitOK, Jit, ClearSliceBlocks, SeenIn, Cached, Status

(* invalidate_blocks_on_pages leaves no stale block of the dispatcher on a
   page of D, whether or not it returns early. *)
LEMMA OnPagesOK ==
  ASSUME NEW j, JitOK(j), NEW D
  PROVE  /\ JitOK(InvalidateBlocksOnPages(j, D))
         /\ SeenIn(InvalidateBlocksOnPages(j, D).block_cache) \subseteq SeenIn(j.block_cache) \ D
         /\ D \cap j.code_pages # {}
              => SeenIn(InvalidateBlocksOnPages(j, D).slice_block_cache) = {}
<1>1. CASE D \cap j.code_pages = {}
  <2>1. SeenIn(j.block_cache) \subseteq j.code_pages
    BY DEF JitOK, SeenIn, Cached
  <2> QED BY <1>1, <2>1 DEF InvalidateBlocksOnPages
<1>2. CASE D \cap j.code_pages # {}
  <2> DEFINE c == ClearSliceBlocks(j)
             S == D \cap Cached(j.block_cache)
  <2>1. JitOK(c) /\ c.block_cache = j.block_cache /\ SeenIn(c.slice_block_cache) = {}
    BY ClearOK
  <2>2. /\ JitOK(Invalidate(c, S))
        /\ SeenIn(Invalidate(c, S).block_cache) = SeenIn(c.block_cache) \ S
        /\ SeenIn(Invalidate(c, S).slice_block_cache) = SeenIn(c.slice_block_cache) \ S
    BY <2>1, InvalidateOK
  <2>3. SeenIn(j.block_cache) \subseteq Cached(j.block_cache)
    BY DEF SeenIn, Cached
  <2>4. InvalidateBlocksOnPages(j, D) = Invalidate(c, S)
    BY <1>2 DEF InvalidateBlocksOnPages
  <2> QED BY <2>1, <2>2, <2>3, <2>4
<1> QED BY <1>1, <1>2

(* Compiling a block enters its page before the oldest block may go. *)
LEMMA InsertOK ==
  ASSUME NEW j, JitOK(j), NEW p \in Pages
  PROVE  JitOK(Insert(j, p)) /\ Seen(Insert(j, p)) \subseteq Seen(j)
<1> DEFINE filled == Jit([j.block_cache EXCEPT ![p] = "fresh"], Append(j.block_access_order, p),
                         j.slice_block_cache, j.code_pages \cup {p})
           evicted == Invalidate(filled, {Head(filled.block_access_order)})
<1>1. JitOK(filled) /\ Seen(filled) \subseteq Seen(j)
  BY DEF JitOK, Jit, Seen, SeenIn, Cached, Status
<1>2. JitOK(evicted) /\ Seen(evicted) \subseteq Seen(filled)
  <2> HIDE DEF filled
  <2> QED BY <1>1, InvalidateOK DEF Seen
<1>3. Insert(j, p) = filled \/ Insert(j, p) = evicted
  BY DEF Insert, EvictIfNeeded
<1> QED
  <2> HIDE DEF filled, evicted
  <2> QED BY <1>1, <1>2, <1>3

(* A store makes blocks of one page stale. It may go unnoticed only where the
   dispatcher has no block. *)
LEMMA StaleOK ==
  ASSUME NEW j, JitOK(j), NEW q \in Pages, NEW how \in {"seen", "missed", "unseen"},
         how = "missed" => q \notin j.code_pages
  PROVE  /\ JitOK(StaleBoth(j, q, how))
         /\ StaleBoth(j, q, how).code_pages = j.code_pages
         /\ Seen(StaleBoth(j, q, how)) \subseteq Seen(j) \cup (IF how = "seen" THEN {q} ELSE {})
BY DEF JitOK, Jit, StaleBoth, Stale, Seen, SeenIn, Cached, Status

(* record_block_access only reorders. *)
LEMMA TouchOK ==
  ASSUME NEW j, JitOK(j), NEW p
  PROVE  JitOK(Touch(j, p)) /\ Seen(Touch(j, p)) = Seen(j)
BY DEF JitOK, Jit, Touch, Seen

(* ensure_slice_block makes no block stale and takes no page from the set. *)
LEMMA EnsureOK ==
  ASSUME NEW j, JitOK(j), NEW E \in SUBSET Pages, NEW missed
  PROVE  /\ JitOK(EnsureSliceBlocks(j, E, missed))
         /\ Seen(EnsureSliceBlocks(j, E, missed)) \subseteq Seen(j)
BY DEF JitOK, Jit, EnsureSliceBlocks, Seen, SeenIn, Cached, Status

-----------------------------------------------------------------------------
(* The inductive invariant. *)

(* When every slice is done, what was recorded has been drained by one. *)
LEMMA DrainedIsReported ==
  ASSUME SliceInv, \A s \in Slices : pc[s] \in {"idle", "done"}
  PROVE  recorded \subseteq ReportedPages
<1>1. code_writes = {}
  BY DEF SliceInv, LogHasReader
<1>2. SUFFICES ASSUME NEW p \in recorded PROVE p \in ReportedPages
  OBVIOUS
<1>3. PICK s \in Slices : p \in report[s]
  BY <1>1 DEF SliceInv, RecordedSomewhere
<1> QED BY <1>3 DEF ReportedPages

(* The caches start empty and no slice has a job. *)
LEMMA InitIInv == Init => IInv
<1> SUFFICES ASSUME Init PROVE IInv
  OBVIOUS
<1>1. CacheInv
  BY DEF Init, CacheInv, JitOK, Jit, Seen, SeenIn, Cached, Status
<1>2. SliceInv
  BY SliceCodeAssumption DEF Init, SliceInv, Typed, RecordedSomewhere, LogHasReader, PendIsPage,
     AfterPending, OwnStopped, Quiet, Labels
<1> QED BY <1>1, <1>2 DEF IInv

(* A step of the owner between two rounds. *)
OwnerStep(p) ==
  GetOrCompile(p) \/ NativeStore(p) \/ UnseenStore(p) \/ HelperStore(p)

(* The owner's steps keep the caches consistent. *)
LEMMA OwnerKeepsCache ==
  ASSUME IInv, NEW p \in Pages, OwnerStep(p)
  PROVE  CacheInv'
<1> USE DEF IInv, CacheInv
<1>0. recorded' = recorded /\ Seen(jit) = {} /\ recorded = {}
  BY DEF OwnerStep, GetOrCompile, NativeStore, UnseenStore, HelperStore, SliceInv, Quiet
<1>1. CASE GetOrCompile(p)
  <2>1. CASE jit' = Insert(jit, p)
    BY <2>1, <1>0, InsertOK
  <2>2. CASE jit' = Insert(Invalidate(jit, {p}), p)
    <3>1. JitOK(Invalidate(jit, {p})) /\ Seen(Invalidate(jit, {p})) = {}
      BY <1>0, InvalidateOK DEF Seen
    <3> QED BY Zenon, <2>2, <3>1, <1>0, InsertOK
  <2>3. CASE jit' = Touch(jit, p)
    BY <2>3, <1>0, TouchOK
  <2> QED BY <1>1, <2>1, <2>2, <2>3 DEF GetOrCompile
<1>2. CASE NativeStore(p)
  <2>1. CASE p \in jit.code_pages
    <3> DEFINE j == StaleBoth(jit, p, "seen")
    <3>1. JitOK(j) /\ j.code_pages = jit.code_pages /\ Seen(j) \subseteq {p}
      BY <1>0, StaleOK
    <3>2. jit' = InvalidateBlocksOnPages(j, {p})
      BY <1>2, <2>1 DEF NativeStore
    <3> HIDE DEF j
    <3>3. /\ JitOK(jit')
          /\ SeenIn(jit'.block_cache) \subseteq SeenIn(j.block_cache) \ {p}
          /\ SeenIn(jit'.slice_block_cache) = {}
      BY <2>1, <3>1, <3>2, OnPagesOK
    <3> QED BY <1>0, <3>1, <3>3 DEF Seen
  <2>2. CASE p \notin jit.code_pages
    <3>1. jit' = StaleBoth(jit, p, "missed")
      BY <1>2, <2>2 DEF NativeStore
    <3> QED BY <1>0, <2>2, <3>1, StaleOK
  <2> QED BY <2>1, <2>2
<1>3. CASE UnseenStore(p) \/ HelperStore(p)
  <2>1. jit' = StaleBoth(jit, p, "unseen")
    BY <1>3 DEF UnseenStore, HelperStore
  <2> QED BY <1>0, <2>1, StaleOK
<1> QED BY <1>1, <1>2, <1>3 DEF OwnerStep

(* So do the ends of a round. *)
LEMMA RoundKeepsCache ==
  ASSUME IInv, StartRound \/ FinishRound
  PROVE  CacheInv'
<1> USE DEF IInv, CacheInv
<1>1. CASE StartRound
  <2>1. PICK E \in SUBSET Pages, missed \in SUBSET Pages : jit' = EnsureSliceBlocks(jit, E, missed)
    BY <1>1 DEF StartRound
  <2>2. recorded' = recorded
    BY <1>1 DEF StartRound
  <2> QED BY <2>1, <2>2, EnsureOK
<1>2. CASE FinishRound
  <2>1. recorded \subseteq ReportedPages
    BY <1>2, DrainedIsReported DEF FinishRound
  <2>2. CASE ReportedPages = {}
    BY <1>2, <2>1, <2>2 DEF FinishRound
  <2>3. CASE ReportedPages # {}
    <3> DEFINE D == ReportedPages
               j == InvalidateBlocksOnPages(jit, D)
    <3>1. JitOK(j) /\ SeenIn(j.block_cache) \subseteq SeenIn(jit.block_cache) \ D
      BY OnPagesOK
    <3>2. jit' = ClearSliceBlocks(j)
      BY <1>2, <2>3 DEF FinishRound
    <3>3. SeenIn(jit.block_cache) \subseteq D
      BY <2>1 DEF Seen
    <3> HIDE DEF j, D
    <3>4. /\ JitOK(jit')
          /\ jit'.block_cache = j.block_cache
          /\ SeenIn(jit'.slice_block_cache) = {}
      BY <3>1, <3>2, ClearOK
    <3> QED BY <3>1, <3>3, <3>4 DEF Seen
  <2> QED BY <2>2, <2>3
<1> QED BY <1>1, <1>2

(* A slice changes the caches only by storing. *)
LEMMA SliceKeepsCache ==
  ASSUME IInv, NEW s \in Slices,
         Run(s) \/ \E q \in Pages : StoreWatched(s, q) \/ StoreUnwatched(s, q)
  PROVE  CacheInv'
<1> USE DEF IInv, CacheInv
<1>1. ASSUME NEW q \in Pages, StaleBoth(jit, q, "seen") = jit', recorded' = recorded \cup {q}
      PROVE  CacheInv'
  BY <1>1, StaleOK
<1>2. ASSUME NEW q \in Pages, StaleBoth(jit, q, "missed") = jit', q \notin jit.code_pages,
             recorded' = recorded
      PROVE  CacheInv'
  BY <1>2, StaleOK
<1>3. ASSUME NEW q \in Pages, StoreWatched(s, q) PROVE CacheInv'
  BY <1>1, <1>3 DEF StoreWatched, StoreSeen
<1>4. ASSUME NEW q \in Pages, StoreUnwatched(s, q) PROVE CacheInv'
  BY <1>2, <1>4 DEF StoreUnwatched
<1>5. ASSUME NEW q \in Pages \cup {Thunk}, NEW w \in Pages, EndWithCall(s, q, w) PROVE CacheInv'
  BY <1>1, <1>2, <1>5 DEF EndWithCall, StoreSeen
<1>6. ASSUME Run(s), ~ \E q \in Pages \cup {Thunk}, w \in Pages : EndWithCall(s, q, w)
      PROVE  CacheInv'
  BY Zenon, <1>6 DEF Run, Begin, Dispatch, Interrupt, PushWrite, BumpEpoch, Resolve, CallThunk,
     LeaveToOwner, Drain, Link, ThunkReturn, EndBlock, EnterBlock, Stop, roundVars
<1> QED BY <1>3, <1>4, <1>5, <1>6

(* Between rounds nothing but the caches changes; a round starts and ends with
   empty logs. *)
LEMMA OwnerKeepsSlices ==
  ASSUME IInv,
         \/ \E p \in Pages : OwnerStep(p)
         \/ StartRound
         \/ FinishRound
  PROVE  SliceInv'
<1> USE DEF IInv, SliceInv
<1>1. ASSUME NEW p \in Pages, OwnerStep(p) PROVE SliceInv'
  BY <1>1 DEF OwnerStep, GetOrCompile, NativeStore, UnseenStore, HelperStore, sliceVars, Typed, RecordedSomewhere,
     LogHasReader, PendIsPage, AfterPending, OwnStopped, Quiet
<1>2. CASE StartRound
  <2>1. Typed'
    BY <1>2 DEF StartRound, Typed, Labels
  <2>2. phase = "own" /\ phase' = "round"
        /\ UNCHANGED <<code_writes, recorded, pend, after, own>>
        /\ \A s \in Slices : pc'[s] \in {"queued", "idle"} /\ own[s] = "no"
    BY <1>2 DEF StartRound, Quiet
  <2>3. RecordedSomewhere' /\ LogHasReader'
    BY <1>2, <2>2 DEF Quiet, RecordedSomewhere, LogHasReader
  <2>4. PendIsPage' /\ OwnStopped' /\ Quiet'
    BY <2>2 DEF PendIsPage, OwnStopped, Quiet
  <2>5. AfterPending'
    <3>1. \A s \in Slices : after[s] = "tail"
      BY <2>2 DEF Quiet, AfterPending
    <3> QED BY <2>2, <3>1 DEF AfterPending
  <2> QED BY <2>1, <2>3, <2>4, <2>5
<1>3. CASE FinishRound
  <2>1. Typed'
    BY <1>3, SliceCodeAssumption DEF FinishRound, Typed, Labels
  <2>2. RecordedSomewhere' /\ LogHasReader' /\ PendIsPage' /\ AfterPending'
    BY <1>3 DEF FinishRound, RecordedSomewhere, LogHasReader, PendIsPage, AfterPending
  <2>3. OwnStopped' /\ Quiet'
    BY <1>3 DEF FinishRound, OwnStopped, Quiet
  <2> QED BY <2>1, <2>2, <2>3
<1> QED BY <1>1, <1>2, <1>3

(* Only in a round does a slice take steps. *)
LEMMA SliceInRound ==
  ASSUME SliceInv, NEW s \in Slices, pc[s] # "idle"
  PROVE  phase = "round"
BY DEF SliceInv, Quiet, Typed

(* A slice that stops takes the log with it. *)
LEMMA StopKeeps ==
  ASSUME SliceInv, NEW s \in Slices, pc[s] \in {"loop", "body", "tail", "resolve", "stop"},
         NEW label \in {"drain", "barrier"}, NEW why \in {"CodeWrite", "Other"},
         label = "barrier" => own[s] # "store",
         Stop(s, label, why), rip' \in [Slices -> Pages \cup {Thunk}]
  PROVE  SliceInv'
<1> USE DEF SliceInv, Stop, Goto, roundVars
<1>0. phase' = "round"
  BY SliceInRound
<1>1. Typed'
  BY Zenon DEF Typed, Labels
<1>2. RecordedSomewhere'
  BY SMTT(30) DEF Typed, RecordedSomewhere
<1>3. LogHasReader'
  BY DEF Typed, LogHasReader
<1>4. PendIsPage'
  BY DEF Typed, PendIsPage
<1>5. AfterPending'
  BY DEF Typed, AfterPending
<1>6. OwnStopped'
  BY DEF Typed, OwnStopped
<1> QED BY <1>0, <1>1, <1>2, <1>3, <1>4, <1>5, <1>6 DEF Quiet

(* A step of one slice that leaves both logs alone. *)
LEMMA MoveKeeps ==
  ASSUME SliceInv, NEW s \in Slices, pc[s] \notin {"idle", "push", "done"},
         NEW label \in Labels \ {"idle", "push", "done"}, Goto(s, label),
         UNCHANGED <<roundVars, code_writes, pend, report, own>>,
         Typed', AfterPending', OwnStopped'
  PROVE  SliceInv'
<1> USE DEF SliceInv, Goto, roundVars
<1>0. phase' = "round"
  BY SliceInRound
<1>1. RecordedSomewhere'
  BY DEF Typed, RecordedSomewhere
<1>2. LogHasReader' /\ PendIsPage'
  BY DEF Typed, LogHasReader, PendIsPage
<1> QED BY <1>0, <1>1, <1>2 DEF Quiet

(* The same when a slice with no recorded store of its own only changes place. *)
LEMMA PlaceKeeps ==
  ASSUME SliceInv, NEW s \in Slices, pc[s] \notin {"idle", "push", "bump", "done"},
         NEW label \in Labels \ {"idle", "push", "done"}, Goto(s, label),
         own[s] # "store" \/ label \in {"stop", "drain"},
         UNCHANGED <<roundVars, code_writes, left, moved, wrote, pend, after, report, exit, own>>,
         rip' \in [Slices -> Pages \cup {Thunk}]
  PROVE  SliceInv'
<1>1. Typed' /\ AfterPending' /\ OwnStopped'
  BY Zenon DEF SliceInv, Goto, Typed, AfterPending, OwnStopped, roundVars, Labels
<1> QED BY <1>1, MoveKeeps

(* The guard of a block ends the slice or lets it into the body. *)
LEMMA EnterKeeps ==
  ASSUME SliceInv, NEW s \in Slices, pc[s] \in {"loop", "body", "tail"},
         EnterBlock(s), rip' \in [Slices -> Pages \cup {Thunk}]
  PROVE  SliceInv'
<1>1. CASE Stop(s, "drain", "CodeWrite") \/ Stop(s, "drain", "Other")
  BY <1>1, StopKeeps
<1>2. CASE /\ ~ moved[s]
           /\ left[s] > 0
           /\ Goto(s, "body")
           /\ left' = [left EXCEPT ![s] = @ - 1]
           /\ UNCHANGED <<roundVars, code_writes, moved, wrote, pend, after, report, exit, own>>
  <2>1. Typed'
    BY <1>2, SliceCodeAssumption DEF SliceInv, Typed, Goto, roundVars, Labels
  <2>2. AfterPending' /\ OwnStopped'
    BY <1>2 DEF SliceInv, Typed, AfterPending, OwnStopped, Goto
  <2> QED BY <1>2, <2>1, <2>2, MoveKeeps DEF Labels
<1> QED BY <1>1, <1>2 DEF EnterBlock

(* The steps of a slice that do not touch the log. *)
LEMMA QuietStepKeeps ==
  ASSUME SliceInv, NEW s \in Slices,
         \/ Begin(s) \/ BumpEpoch(s) \/ CallThunk(s) \/ LeaveToOwner(s)
         \/ \E q \in Pages : ThunkReturn(s, q)
  PROVE  SliceInv'
<1>0. /\ rip \in [Slices -> Pages \cup {Thunk}]
      /\ own[s] = "store" => pc[s] \in {"push", "bump", "tail", "stop", "drain"}
  BY DEF SliceInv, Typed, OwnStopped
<1>1. CASE Begin(s) \/ CallThunk(s)
  BY <1>0, <1>1, PlaceKeeps DEF Begin, CallThunk, Labels
<1>2. CASE LeaveToOwner(s)
  BY <1>0, <1>2, PlaceKeeps DEF LeaveToOwner, Labels
<1>3. ASSUME NEW q \in Pages, ThunkReturn(s, q) PROVE SliceInv'
  <2>1. /\ rip' \in [Slices -> Pages \cup {Thunk}]
        /\ Goto(s, "drain") \/ Goto(s, "loop")
        /\ own[s] # "store"
        /\ UNCHANGED <<roundVars, code_writes, left, moved, wrote, pend, after, report, exit, own>>
    BY <1>0, <1>3 DEF ThunkReturn
  <2> QED BY <1>3, <2>1, PlaceKeeps DEF ThunkReturn, Labels
<1>4. CASE BumpEpoch(s)
  <2> USE DEF SliceInv
  <2>0. moved' \in [Slices -> BOOLEAN]
    BY <1>4 DEF BumpEpoch, InChain
  <2>1. Typed' /\ after[s] \in Labels \ {"idle", "push", "done"}
    BY <1>4, <2>0 DEF BumpEpoch, Goto, Typed, roundVars, Labels, AfterPending
  <2>2. AfterPending'
    BY <1>4 DEF BumpEpoch, Goto, Typed, AfterPending
  <2>3. InChain(s) /\ after[s] # "return"
    BY <1>4 DEF BumpEpoch, InChain, AfterPending
  <2>4. OwnStopped'
    <3> SUFFICES ASSUME NEW t \in Slices, own'[t] = "store"
                 PROVE  \/ pc'[t] \in {"push", "bump"} /\ after'[t] \in {"tail", "stop"}
                        \/ pc'[t] = "tail" /\ moved'[t] /\ wrote'[t]
                        \/ pc'[t] \in {"stop", "drain"}
      BY DEF OwnStopped
    <3>1. CASE t = s
      BY <1>4, <2>3, <3>1 DEF BumpEpoch, Goto, Typed, OwnStopped
    <3>2. CASE t # s
      <4>1. pc[t] = "tail" => InChain(t)
        BY DEF InChain, AfterPending
      <4> QED BY <1>4, <3>2, <4>1 DEF BumpEpoch, Goto, Typed, OwnStopped
    <3> QED BY <3>1, <3>2
  <2> QED BY <1>4, <2>1, <2>2, <2>4, MoveKeeps DEF BumpEpoch
<1> QED BY <1>1, <1>2, <1>3, <1>4

(* A recorded store waits in the slice until it is pushed, then in the log. *)
LEMMA StoreSeenKeeps ==
  ASSUME SliceInv, NEW s \in Slices, NEW q \in Pages, pc[s] \in {"body", "tail", "thunk"},
         NEW then \in {"tail", "resolve", "stop", "return"}, StoreSeen(s, q, then),
         rip' \in [Slices -> Pages \cup {Thunk}],
         NEW mine \in {"no", "store", "push"}, own' = [own EXCEPT ![s] = mine],
         mine = "store" => then \in {"tail", "stop"},
         UNCHANGED <<phase, code_writes, left, moved, wrote, report, exit>>
  PROVE  SliceInv'
<1> USE DEF SliceInv, StoreSeen, Goto
<1>0. phase' = "round"
  BY SliceInRound
<1>1. Typed'
  BY DEF Typed, Labels
<1>2. RecordedSomewhere'
  <2>1. /\ pc[s] # "push" /\ pc'[s] = "push" /\ pend'[s] = q
        /\ \A t \in Slices : t # s => pc'[t] = pc[t] /\ pend'[t] = pend[t]
    BY DEF Typed
  <2> QED BY <2>1 DEF RecordedSomewhere
<1>3. LogHasReader'
  BY DEF Typed, LogHasReader
<1>4. PendIsPage'
  BY DEF Typed, PendIsPage
<1>5. AfterPending'
  BY DEF Typed, AfterPending
<1>6. OwnStopped'
  BY DEF Typed, OwnStopped
<1> QED BY Zenon, <1>0, <1>1, <1>2, <1>3, <1>4, <1>5, <1>6 DEF Quiet

(* The two kinds of store of a block or thunk. *)
LEMMA StoreKeeps ==
  ASSUME SliceInv, NEW s \in Slices, NEW q \in Pages,
         StoreWatched(s, q) \/ StoreUnwatched(s, q)
  PROVE  SliceInv'
<1>0. Typed
  BY DEF SliceInv
<1>1. CASE pc[s] = "body" /\ StoreSeen(s, q, "tail") /\ own' = [own EXCEPT ![s] = "store"]
           /\ UNCHANGED <<phase, code_writes, rip, left, moved, wrote, report, exit>>
  BY Zenon, <1>0, <1>1, StoreSeenKeeps DEF Typed
<1>2. CASE pc[s] = "thunk" /\ StoreSeen(s, q, "return") /\ UNCHANGED own
           /\ UNCHANGED <<phase, code_writes, rip, left, moved, wrote, report, exit>>
  <2>1. own[s] \in {"no", "push"} /\ own' = [own EXCEPT ![s] = own[s]]
    BY <1>0, <1>2 DEF SliceInv, Typed, OwnStopped
  <2>2. rip' \in [Slices -> Pages \cup {Thunk}]
    BY <1>0, <1>2 DEF Typed
  <2> QED BY Zenon, <1>2, <2>1, <2>2, StoreSeenKeeps
<1>3. CASE StoreUnwatched(s, q)
  <2>1. /\ phase' = phase /\ code_writes' = code_writes /\ recorded' = recorded /\ pc' = pc
        /\ rip' = rip /\ left' = left /\ moved' = moved /\ wrote' = wrote /\ pend' = pend
        /\ after' = after /\ report' = report /\ exit' = exit /\ own' = own
    BY Zenon, <1>3 DEF StoreUnwatched, sliceVars
  <2>2. Typed'
    BY <1>0, <2>1 DEF Typed
  <2>3. RecordedSomewhere' /\ LogHasReader'
    BY <2>1 DEF SliceInv, RecordedSomewhere, LogHasReader
  <2>4. PendIsPage' /\ AfterPending'
    BY <2>1 DEF SliceInv, PendIsPage, AfterPending
  <2>5. OwnStopped' /\ Quiet'
    BY <2>1 DEF SliceInv, OwnStopped, Quiet
  <2> QED BY Zenon, <2>2, <2>3, <2>4, <2>5 DEF SliceInv
<1> QED BY <1>1, <1>2, <1>3 DEF StoreWatched

(* The entry in code_writes takes over from the pending store. *)
LEMMA PushKeeps ==
  ASSUME SliceInv, NEW s \in Slices, PushWrite(s)
  PROVE  SliceInv'
<1> USE DEF SliceInv, PushWrite, Goto, roundVars
<1>0. phase' = "round"
  BY SliceInRound
<1>1. Typed'
  BY DEF Typed, Labels, PendIsPage
<1>2. RecordedSomewhere'
  BY SMTT(30) DEF Typed, RecordedSomewhere
<1>3. LogHasReader' /\ PendIsPage'
  BY DEF Typed, LogHasReader, PendIsPage
<1>4. AfterPending' /\ OwnStopped'
  BY DEF Typed, AfterPending, OwnStopped
<1> QED BY Zenon, <1>0, <1>1, <1>2, <1>3, <1>4 DEF Quiet

(* The last drain of a slice empties the log. *)
LEMMA DrainKeeps ==
  ASSUME SliceInv, NEW s \in Slices, Drain(s)
  PROVE  SliceInv'
<1> USE DEF SliceInv, Drain, Goto, roundVars
<1>0. phase' = "round"
  BY SliceInRound
<1>1. Typed'
  BY SliceCodeAssumption, SMTT(30) DEF Typed, Labels
<1>2. RecordedSomewhere'
  BY SMTT(30) DEF Typed, RecordedSomewhere
<1>3. LogHasReader'
  BY DEF Typed, LogHasReader
<1>4. PendIsPage'
  BY DEF Typed, PendIsPage
<1>5. AfterPending'
  BY DEF Typed, AfterPending
<1>6. OwnStopped'
  BY DEF Typed, OwnStopped
<1> QED BY <1>0, <1>1, <1>2, <1>3, <1>4, <1>5, <1>6 DEF Quiet

(* The steps of run_slice that enter or leave a block. *)
LEMMA BlockKeeps ==
  ASSUME SliceInv, NEW s \in Slices,
         \/ Dispatch(s) \/ Interrupt(s) \/ Resolve(s)
         \/ \E q \in Pages : Link(s, q)
         \/ \E q \in Pages \cup {Thunk} : EndBlock(s, q)
  PROVE  SliceInv'
<1>0. /\ rip \in [Slices -> Pages \cup {Thunk}]
      /\ pc[s] \in {"loop", "resolve", "body"} => own[s] # "store"
      /\ pc[s] = "tail" /\ ~ wrote[s] => own[s] # "store"
  BY DEF SliceInv, Typed, OwnStopped
<1>1. CASE Dispatch(s) \/ Interrupt(s)
  <2>1. rip' \in [Slices -> Pages \cup {Thunk}] /\ pc[s] \in {"loop", "body", "tail"}
    BY <1>0, <1>1 DEF Dispatch, Interrupt
  <2>2. CASE Stop(s, "drain", "Other")
    BY <2>1, <2>2, StopKeeps
  <2>3. CASE pc[s] = "loop" /\ Stop(s, "barrier", "Other")
    BY <1>0, <2>1, <2>3, StopKeeps
  <2>4. CASE EnterBlock(s)
    BY <2>1, <2>4, EnterKeeps
  <2> QED BY Zenon, <1>1, <2>2, <2>3, <2>4 DEF Dispatch, Interrupt
<1>2. CASE Resolve(s)
  <2>1. rip' \in [Slices -> Pages \cup {Thunk}]
    BY Zenon, <1>0, <1>2 DEF Resolve
  <2>2. CASE pc[s] = "stop" /\ Stop(s, "drain", "CodeWrite")
    BY Zenon, <2>1, <2>2, StopKeeps
  <2>3. CASE pc[s] = "resolve" /\ Stop(s, "barrier", "Other")
    BY <1>0, <2>1, <2>3, StopKeeps
  <2>4. CASE /\ pc[s] = "resolve"
             /\ Goto(s, "loop")
             /\ UNCHANGED <<roundVars, code_writes, left, moved, wrote, pend, after, report, exit, own>>
    BY <1>0, <2>1, <2>4, PlaceKeeps DEF Labels
  <2> QED BY <1>2, <2>2, <2>3, <2>4 DEF Resolve
<1>3. ASSUME NEW q \in Pages, Link(s, q) PROVE SliceInv'
  <2>1. rip' \in [Slices -> Pages \cup {Thunk}]
    BY <1>0, <1>3 DEF Link
  <2> QED BY <1>3, <2>1, EnterKeeps DEF Link
<1>4. ASSUME NEW q \in Pages \cup {Thunk}, EndBlock(s, q) PROVE SliceInv'
  <2>1. rip' \in [Slices -> Pages \cup {Thunk}] /\ pc[s] \in {"body", "tail"}
    BY <1>0, <1>4 DEF EndBlock
  <2>2. CASE Stop(s, "drain", "CodeWrite")
    BY <2>1, <2>2, StopKeeps
  <2>3. CASE /\ ~ wrote[s]
             /\ Goto(s, "resolve")
             /\ UNCHANGED <<roundVars, code_writes, left, moved, wrote, pend, after, report, exit, own>>
    BY <1>0, <2>1, <2>3, PlaceKeeps DEF Labels
  <2> QED BY Zenon, <1>4, <2>2, <2>3 DEF EndBlock
<1> QED BY <1>1, <1>2, <1>3, <1>4

(* A call that ends a block: the flag decides before the return address is
   stored. *)
LEMMA CallKeeps ==
  ASSUME SliceInv, NEW s \in Slices, NEW q \in Pages \cup {Thunk}, NEW w \in Pages,
         EndWithCall(s, q, w)
  PROVE  SliceInv'
<1> DEFINE then == IF wrote[s] THEN "stop" ELSE "resolve"
           mine == IF own[s] = "no" THEN "push" ELSE own[s]
<1>0. /\ rip' \in [Slices -> Pages \cup {Thunk}]
      /\ pc[s] \in {"body", "tail"}
      /\ own[s] = "store" => wrote[s]
      /\ own \in [Slices -> {"no", "store", "push"}]
      /\ UNCHANGED <<phase, code_writes, left, moved, wrote, report, exit>>
  BY DEF EndWithCall, SliceInv, Typed, OwnStopped
<1>1. CASE StoreSeen(s, w, then) /\ own' = [own EXCEPT ![s] = mine]
  <2>1. mine \in {"no", "store", "push"} /\ (mine = "store" => then \in {"tail", "stop"})
    BY <1>0
  <2>2. then \in {"tail", "resolve", "stop", "return"}
    OBVIOUS
  <2> HIDE DEF then, mine
  <2> QED BY Zenon, <1>0, <1>1, <2>1, <2>2, StoreSeenKeeps
<1>2. CASE Goto(s, then) /\ UNCHANGED <<recorded, pend, after, own>>
  <2> USE <1>2 DEF SliceInv, Goto
  <2>0. phase' = "round"
    BY <1>0, SliceInRound
  <2>1. Typed'
    BY Zenon, <1>0 DEF Typed, Labels
  <2>2. RecordedSomewhere'
    BY <1>0 DEF Typed, RecordedSomewhere
  <2>3. LogHasReader' /\ PendIsPage' /\ AfterPending'
    BY <1>0 DEF Typed, LogHasReader, PendIsPage, AfterPending
  <2>4. OwnStopped'
    BY <1>0 DEF Typed, OwnStopped
  <2> QED BY <2>0, <2>1, <2>2, <2>3, <2>4 DEF Quiet
<1> QED BY <1>1, <1>2 DEF EndWithCall

(* Every step keeps the invariant. *)
LEMMA NextIInv == IInv /\ [Next]_vars => IInv'
<1> SUFFICES ASSUME IInv, [Next]_vars PROVE IInv'
  OBVIOUS
<1>1. ASSUME NEW p \in Pages, OwnerStep(p) PROVE IInv'
  BY <1>1, OwnerKeepsCache, OwnerKeepsSlices DEF IInv
<1>2. CASE StartRound \/ FinishRound
  BY <1>2, RoundKeepsCache, OwnerKeepsSlices DEF IInv
<1>3. ASSUME NEW s \in Slices, Run(s) PROVE IInv'
  <2>1. CacheInv'
    BY <1>3, SliceKeepsCache
  <2>2. SliceInv'
    <3>1. CASE PushWrite(s) \/ Drain(s)
      BY <3>1, PushKeeps, DrainKeeps DEF IInv
    <3>2. CASE \/ Dispatch(s) \/ Interrupt(s) \/ Resolve(s)
               \/ \E q \in Pages : Link(s, q)
               \/ \E q \in Pages \cup {Thunk} : EndBlock(s, q)
      BY <3>2, BlockKeeps DEF IInv
    <3>3. CASE \/ Begin(s) \/ BumpEpoch(s) \/ CallThunk(s) \/ LeaveToOwner(s)
               \/ \E q \in Pages : ThunkReturn(s, q)
      BY <3>3, QuietStepKeeps DEF IInv
    <3>4. CASE \E q \in Pages \cup {Thunk}, w \in Pages : EndWithCall(s, q, w)
      BY <3>4, CallKeeps DEF IInv
    <3> QED BY <1>3, <3>1, <3>2, <3>3, <3>4 DEF Run
  <2> QED BY <2>1, <2>2 DEF IInv
<1>4. ASSUME NEW s \in Slices, NEW q \in Pages, StoreWatched(s, q) \/ StoreUnwatched(s, q)
      PROVE IInv'
  BY <1>4, SliceKeepsCache, StoreKeeps DEF IInv
<1>5. CASE UNCHANGED vars
  BY <1>5 DEF vars, IInv, CacheInv, SliceInv, Typed, RecordedSomewhere, LogHasReader, PendIsPage,
     AfterPending, OwnStopped, Quiet
<1> QED BY <1>1, <1>2, <1>3, <1>4, <1>5 DEF Next, OwnerStep

-----------------------------------------------------------------------------
(* Whatever the order in which the slices of a round store, drain the common
   log and finish, dispatch_parallel_thread_contexts finds every recorded
   store in the completions. *)
THEOREM SliceCodeSafety == Spec => []WritesReported
<1>1. IInv => WritesReported
  BY DrainedIsReported DEF IInv, WritesReported
<1> QED BY InitIInv, NextIInv, <1>1, PTL DEF Spec

(* Once the round is over, no block of the dispatcher is left stale by a store
   some slice recorded, and none by a store of compiled code through
   jit_helper_store or jit_helper_lock_xadd.  The stores the tracking never
   sees (the interpreter, the thunks, the other helpers) are not covered. *)
THEOREM OwnerBlocksSafety == Spec => []OwnerBlocksCurrent
<1>1. IInv => RecordedWritesApplied
  BY DEF IInv, CacheInv, SliceInv, Quiet, Seen, SeenIn, RecordedWritesApplied
<1>2. IInv => TrackedStoresSeen
  BY DEF IInv, CacheInv, JitOK, TrackedStoresSeen
<1>3. IInv => OwnerBlocksCurrent
  BY <1>1, <1>2 DEF OwnerBlocksCurrent
<1> QED BY InitIInv, NextIInv, <1>3, PTL DEF Spec

(* A slice whose compiled code has stored to a code page enters no further
   block: code_written stops the loop of run_slice and the epoch guard the
   native links. *)
THEOREM OwnWriteSafety == Spec => OwnWriteStops
<1>1. IInv /\ [Next]_vars =>
        [\A s \in Slices : own[s] = "store" => left'[s] >= left[s]]_vars
  <2> SUFFICES ASSUME IInv, Next, NEW s \in Slices, own[s] = "store"
               PROVE  left'[s] >= left[s]
    OBVIOUS
  <2>0. /\ left \in [Slices -> 0..Budget] /\ Budget \in Nat
        /\ pc[s] \notin {"loop", "body"}
        /\ pc[s] = "tail" => moved[s]
        /\ phase = "round"
    BY SliceCodeAssumption DEF IInv, SliceInv, Typed, OwnStopped, Quiet
  <2>1. CASE left' = left
    BY <2>0, <2>1
  <2>2. CASE left' = [t \in Slices |-> Budget] \/ \E t \in Slices : left' = [left EXCEPT ![t] = Budget]
    BY <2>0, <2>2
  <2>3. ASSUME NEW t \in Slices, EnterBlock(t), pc[t] \in {"loop", "body", "tail"}
        PROVE left'[s] >= left[s]
    <3>1. CASE t = s
      <4>1. left' = left
        BY Zenon, <2>0, <2>3, <3>1 DEF EnterBlock, Stop
      <4> QED BY <2>0, <4>1
    <3>2. CASE t # s
      <4>1. left' = left \/ left' = [left EXCEPT ![t] = @ - 1]
        BY Zenon, <2>3 DEF EnterBlock, Stop
      <4> QED BY <2>0, <3>2, <4>1
    <3> QED BY <3>1, <3>2
  <2>4. ASSUME NEW t \in Slices, Run(t), ~ EnterBlock(t)
        PROVE  left' = left \/ left' = [left EXCEPT ![t] = Budget]
    BY Zenon, <2>4 DEF Run, Begin, Dispatch, Interrupt, PushWrite, BumpEpoch, Resolve, CallThunk,
       LeaveToOwner, Drain, Link, ThunkReturn, EndBlock, EndWithCall, Stop
  <2>5. ASSUME NEW t \in Slices, Run(t), EnterBlock(t)
        PROVE  left' = left \/ left' = [left EXCEPT ![t] = Budget] \/ pc[t] \in {"loop", "body", "tail"}
    BY Zenon, <2>5 DEF Run, Begin, Dispatch, Interrupt, PushWrite, BumpEpoch, Resolve, CallThunk,
       LeaveToOwner, Drain, Link, ThunkReturn, EndBlock, EndWithCall, Stop
  <2>6. Next => left' = left \/ left' = [t \in Slices |-> Budget] \/ \E t \in Slices : Run(t)
    BY Zenon DEF Next, GetOrCompile, NativeStore, UnseenStore, HelperStore, StartRound, FinishRound, StoreWatched,
       StoreUnwatched, sliceVars
  <2> QED BY <2>1, <2>2, <2>3, <2>4, <2>5, <2>6
<1> QED BY InitIInv, NextIInv, <1>1, PTL DEF Spec, OwnWriteStops
=============================================================================
