----------------------------- MODULE SliceCode ------------------------------
(***************************************************************************)
(* Compiled guest code under self-modification: the two block caches of    *)
(* JitRuntime (src/jit/code_cache.rs), the worker view GuestSliceMemory,   *)
(* the epoch guard of a native chain (src/jit/frontend.rs) and the round   *)
(* of worker slices that the runtime owner drives                          *)
(* (src/runtime/scheduler.rs, src/runtime/shared.rs).                      *)
(*                                                                         *)
(* A page holds one block per cache. What matters of a cached block is     *)
(* whether it still is a translation of the page: "fresh", or the page was *)
(* stored to after the compilation and the store was recorded ("seen"),    *)
(* went through the store helper, which records, and was not recorded      *)
(* ("missed"), or came from code that records nothing ("unseen"): the      *)
(* interpreter, a host thunk, or a helper that runs an instruction or an   *)
(* import for a compiled block of the owner.                               *)
(* The program of a round is the slice cache at its start: the owner waits *)
(* and changes neither cache until the round is over, so they are one      *)
(* variable here. JIT_CODE_EPOCH only ever is compared with the value a    *)
(* chain started from; moved says that the two differ.                     *)
(*                                                                         *)
(* Left out: the overflow of the dirty ring (4,096 stores of one block),   *)
(* on which the code drops the dispatcher's blocks and only the slice      *)
(* blocks at their addresses; and the predictors and inline caches of a    *)
(* slot, which only count.                                                 *)
(***************************************************************************)
EXTENDS Naturals, Sequences, FiniteSets

CONSTANTS
  Pages,                    \* guest pages with code on them
  Thunk,                    \* an instruction pointer at a host thunk
  Slices,                   \* guest threads that can be given a slice
  Budget,                   \* compiled blocks per slice (512 in the code)
  MaxBlocks,                \* JitRuntime.max_blocks
  AotCache                  \* aot_cache_dir.is_some()

ASSUME SliceCodeAssumption ==
  /\ Thunk \notin Pages
  /\ Budget \in Nat
  /\ MaxBlocks \in Nat
  /\ AotCache \in BOOLEAN

VARIABLES
  jit,                      \* block_cache, block_access_order, slice_block_cache, code_pages
  phase,                    \* the owner runs guest code itself, or waits for a round
  code_writes,              \* GuestSliceMemory.code_writes of the round's program
  recorded,                 \* history: pages with recorded stores of this round
  \* of each slice of the round:
  pc,                       \* where it is in run_thread and run_slice
  rip,                      \* the page its state.rip is on
  left,                     \* blocks left of its budget
  moved,                    \* JIT_CODE_EPOCH # chain.smc_epoch
  wrote,                    \* WORKER_SLICE_CODE_WRITTEN of its worker
  pend,                     \* the page of a store that is not pushed yet
  after,                    \* where it goes on after that store
  report,                   \* the code writes it has drained
  exit,                     \* whether it stopped with CodeWrite
  own                       \* history: whether a store of its compiled code, or of a
                            \* call in it, has been recorded

sliceVars == <<pc, rip, left, moved, wrote, pend, after, report, exit, own>>
roundVars == <<jit, phase, recorded>>
vars == <<jit, phase, code_writes, recorded, pc, rip, left, moved, wrote, pend, after, report,
          exit, own>>

Status == {"none", "fresh", "seen", "missed", "unseen"}

Labels == {"idle", "queued", "loop", "body", "push", "bump", "tail", "resolve", "stop",
           "barrier", "thunk", "return", "drain", "done"}

Cached(cache) == {p \in Pages : cache[p] # "none"}

Jit(blocks, order, slice_blocks, pages) ==
  [block_cache |-> blocks, block_access_order |-> order,
   slice_block_cache |-> slice_blocks, code_pages |-> pages]

Init ==
  /\ jit = Jit([p \in Pages |-> "none"], <<>>, [p \in Pages |-> "none"], {})
  /\ phase = "own"
  /\ code_writes = {}
  /\ recorded = {}
  /\ pc = [s \in Slices |-> "idle"]
  /\ rip = [s \in Slices |-> Thunk]
  /\ left = [s \in Slices |-> Budget]
  /\ moved = [s \in Slices |-> FALSE]
  /\ wrote = [s \in Slices |-> FALSE]
  /\ pend = [s \in Slices |-> Thunk]
  /\ after = [s \in Slices |-> "tail"]
  /\ report = [s \in Slices |-> {}]
  /\ exit = [s \in Slices |-> "Other"]
  /\ own = [s \in Slices |-> "no"]

-----------------------------------------------------------------------------
(* The caches. *)

(* A store to page p: every block compiled from it is stale from now on. *)
Stale(cache, p, how) ==
  [cache EXCEPT ![p] = IF @ \in {"none", "seen"} THEN @ ELSE how]

StaleBoth(j, p, how) ==
  Jit(Stale(j.block_cache, p, how), j.block_access_order,
      Stale(j.slice_block_cache, p, how), j.code_pages)

Without(order, S) == SelectSeq(order, LAMBDA p : p \notin S)

(* invalidate_block for every page of S, with rebuild_code_pages. *)
Invalidate(j, S) ==
  LET blocks == [p \in Pages |-> IF p \in S THEN "none" ELSE j.block_cache[p]] IN
  Jit(blocks, Without(j.block_access_order, S),
      [p \in Pages |-> IF p \in S THEN "none" ELSE j.slice_block_cache[p]],
      IF S \cap Cached(j.block_cache) = {} THEN j.code_pages ELSE Cached(blocks))

(* clear_slice_blocks *)
ClearSliceBlocks(j) ==
  Jit(j.block_cache, j.block_access_order, [p \in Pages |-> "none"], j.code_pages)

(* mutant: only the blocks of the dispatcher are dropped *)
KeepSliceBlocks(j, D) ==
  IF D \cap j.code_pages = {} THEN j
  ELSE LET kept == Invalidate(j, D \cap Cached(j.block_cache)) IN
       Jit(kept.block_cache, kept.block_access_order, j.slice_block_cache, kept.code_pages)

(* invalidate_blocks_on_pages *)
InvalidateBlocksOnPages(j, D) ==
  IF D \cap j.code_pages = {} THEN j
  ELSE Invalidate(ClearSliceBlocks(j), D \cap Cached(j.block_cache))

(* evict_if_needed: the block accessed longest ago goes. *)
EvictIfNeeded(j) ==
  IF Cardinality(Cached(j.block_cache)) > MaxBlocks
    THEN Invalidate(j, {Head(j.block_access_order)})
    ELSE j

(* mutant: the pages of a block that is compiled are not added *)
InsertUntracked(j, p) ==
  EvictIfNeeded(Jit([j.block_cache EXCEPT ![p] = "fresh"], Append(j.block_access_order, p),
                    j.slice_block_cache, j.code_pages))

(* The part of get_or_compile that compiles. *)
Insert(j, p) ==
  EvictIfNeeded(Jit([j.block_cache EXCEPT ![p] = "fresh"], Append(j.block_access_order, p),
                    j.slice_block_cache, j.code_pages \cup {p}))

(* record_block_access *)
Touch(j, p) ==
  Jit(j.block_cache, Append(Without(j.block_access_order, {p}), p),
      j.slice_block_cache, j.code_pages)

-----------------------------------------------------------------------------
(* The owner, between rounds. *)

(* get_or_compile: a block that is out of date by its hash, or is wanted at a
   higher tier, is invalidated and compiled again. *)
GetOrCompile(p) ==
  /\ phase = "own"
  /\ \/ jit.block_cache[p] = "none" /\ jit' = Insert(jit, p)
     \/ jit.block_cache[p] # "none" /\ jit' = Insert(Invalidate(jit, {p}), p)
     \/ jit.block_cache[p] = "fresh" /\ jit' = Touch(jit, p)
  /\ UNCHANGED <<phase, code_writes, recorded, sliceVars>>

(* A compiled block of the dispatcher stores to q through jit_helper_store or
   jit_helper_lock_xadd: note_guest_code_write marks the page if it is watched,
   and execute_block drains the marks when the block ends. *)
NativeStore(q) ==
  /\ phase = "own"
  /\ Cached(jit.block_cache) # {}
  /\ jit' = IF q \in jit.code_pages
              THEN InvalidateBlocksOnPages(StaleBoth(jit, q, "seen"), {q})
              ELSE StaleBoth(jit, q, "missed")
  /\ UNCHANGED <<phase, code_writes, recorded, sliceVars>>

(* A compiled block of the dispatcher has jit_helper_execute_insn run an
   instruction that was not compiled, or jit_helper_inline_api an import, and
   that writes q in the memory image: nobody takes note. *)
HelperStore(q) ==
  /\ phase = "own"
  /\ Cached(jit.block_cache) # {}
  /\ jit' = StaleBoth(jit, q, "unseen")
  /\ UNCHANGED <<phase, code_writes, recorded, sliceVars>>

(* The interpreter or a host thunk stores to q: the same. *)
UnseenStore(q) ==
  /\ phase = "own"
  /\ jit' = StaleBoth(jit, q, "unseen")
  /\ UNCHANGED <<phase, code_writes, recorded, sliceVars>>

(* ensure_slice_block for every page of E: a cached block is taken as it is,
   whatever happened to its page; a block compiled after a miss in the AOT
   cache is not entered in code_pages. *)
EnsureSliceBlocks(j, E, missed) ==
  Jit(j.block_cache, j.block_access_order,
      [p \in Pages |-> IF p \in E /\ j.slice_block_cache[p] = "none"
                         THEN "fresh" ELSE j.slice_block_cache[p]],
      j.code_pages \cup ((E \ Cached(j.slice_block_cache)) \ missed))

(* dispatch_parallel_thread_contexts up to the wait in run_thread_contexts:
   compile, publish the program, queue a job for each context. *)
StartRound ==
  /\ phase = "own"
  /\ phase' = "round"
  /\ \E E \in SUBSET Pages, J \in SUBSET Slices, missed \in SUBSET Pages :
       /\ J # {} /\ E # {}
       /\ missed \subseteq (IF AotCache THEN E ELSE {})
       /\ jit' = EnsureSliceBlocks(jit, E, missed)
       /\ pc' = [s \in Slices |-> IF s \in J THEN "queued" ELSE "idle"]
       /\ \E entry \in [J -> E] :
            rip' = [s \in Slices |-> IF s \in J THEN entry[s] ELSE Thunk]
  /\ UNCHANGED <<code_writes, recorded, left, moved, wrote, pend, after, report, exit, own>>

(* The pages that the completions of a round say were written; a slice that
   the epoch guard stopped and that brings no store names its own page. *)
ReportedPages ==
  UNION {report[s] : s \in Slices}
    \cup {rip[s] : s \in {t \in Slices : exit[t] = "CodeWrite" /\ report[t] = {}}}

(* dispatch_parallel_thread_contexts after the wait. *)
FinishRound ==
  /\ phase = "round"
  /\ \A s \in Slices : pc[s] \in {"idle", "done"}
  /\ jit' = IF ReportedPages = {} THEN jit
            ELSE ClearSliceBlocks(InvalidateBlocksOnPages(jit, ReportedPages))
  /\ phase' = "own"
  /\ code_writes' = {}
  /\ recorded' = {}
  /\ pc' = [s \in Slices |-> "idle"]
  /\ rip' = [s \in Slices |-> Thunk]
  /\ left' = [s \in Slices |-> Budget]
  /\ moved' = [s \in Slices |-> FALSE]
  /\ wrote' = [s \in Slices |-> FALSE]
  /\ pend' = [s \in Slices |-> Thunk]
  /\ after' = [s \in Slices |-> "tail"]
  /\ report' = [s \in Slices |-> {}]
  /\ exit' = [s \in Slices |-> "Other"]
  /\ own' = [s \in Slices |-> "no"]

-----------------------------------------------------------------------------
(* A slice on its worker. *)

Goto(s, label) == pc' = [pc EXCEPT ![s] = label]

(* run_slice ends with take_code_writes, whoever recorded the writes; the chain
   and the flag go with it. *)
Stop(s, label, why) ==
  /\ Goto(s, label)
  /\ exit' = [exit EXCEPT ![s] = why]
  /\ report' = [report EXCEPT ![s] = @ \cup code_writes]
  /\ code_writes' = {}
  /\ moved' = [moved EXCEPT ![s] = FALSE]
  /\ wrote' = [wrote EXCEPT ![s] = FALSE]
  /\ UNCHANGED <<roundVars, left, pend, after, own>>

(* A worker takes the job: run_thread starts run_slice on the program, which
   clears the flag and takes the present epoch. *)
Begin(s) ==
  /\ pc[s] = "queued"
  /\ Goto(s, "loop")
  /\ UNCHANGED <<roundVars, code_writes, rip, left, moved, wrote, pend, after, report, exit, own>>

(* The guard in the prologue of a block, before its body: an epoch that moved
   ends the slice, then the budget does. *)
EnterBlock(s) ==
  \/ moved[s] /\ Stop(s, "drain", "CodeWrite")
  \/ ~ moved[s] /\ left[s] = 0 /\ Stop(s, "drain", "Other")
  \/ /\ ~ moved[s]
     /\ left[s] > 0
     /\ Goto(s, "body")
     /\ left' = [left EXCEPT ![s] = @ - 1]
     /\ UNCHANGED <<roundVars, code_writes, moved, wrote, pend, after, report, exit, own>>

(* The head of the loop in run_slice: the budget, the lookup, the guard. *)
Dispatch(s) ==
  /\ pc[s] = "loop"
  /\ \/ left[s] = 0 /\ Stop(s, "drain", "Other")
     \/ /\ left[s] > 0
        /\ rip[s] \notin Cached(jit.slice_block_cache)
        /\ Stop(s, "barrier", "Other")
     \/ left[s] > 0 /\ rip[s] \in Cached(jit.slice_block_cache) /\ EnterBlock(s)
  /\ UNCHANGED rip

(* A shutdown, a safepoint, a guest fault, or a block without a successor that
   run_slice can resolve. *)
Interrupt(s) ==
  /\ pc[s] \in {"loop", "body", "tail"}
  /\ Stop(s, "drain", "Other")
  /\ UNCHANGED rip

(* GuestSliceMemory::store to a watched page: first the word, ... *)
StoreSeen(s, q, then) ==
  /\ q \in jit.code_pages
  /\ jit' = StaleBoth(jit, q, "seen")
  /\ recorded' = recorded \cup {q}
  /\ Goto(s, "push")
  /\ pend' = [pend EXCEPT ![s] = q]
  /\ after' = [after EXCEPT ![s] = then]

(* ... by a compiled block through jit_helper_store, or by a worker-safe thunk.
   Bound: one recorded store per block or thunk. *)
StoreWatched(s, q) ==
  /\ \/ pc[s] = "body" /\ StoreSeen(s, q, "tail") /\ own' = [own EXCEPT ![s] = "store"]
     \/ pc[s] = "thunk" /\ StoreSeen(s, q, "return") /\ UNCHANGED own
  /\ UNCHANGED <<phase, code_writes, rip, left, moved, wrote, report, exit>>

(* ... then the entry in code_writes ... *)
PushWrite(s) ==
  /\ pc[s] = "push"
  /\ code_writes' = code_writes \cup {pend[s]}
  /\ Goto(s, IF after[s] = "return" THEN "return" ELSE "bump")
  /\ pend' = [pend EXCEPT ![s] = Thunk]
  /\ after' = [after EXCEPT ![s] = IF @ = "return" THEN "tail" ELSE @]
  /\ UNCHANGED <<roundVars, rip, left, moved, wrote, report, exit, own>>

(* Inside run_slice, with a chain that has taken an epoch. *)
InChain(t) ==
  pc[t] \in {"loop", "body", "push", "bump", "tail", "resolve", "stop"} /\ after[t] # "return"

(* ... and, but for a thunk, the flag and the epoch. *)
BumpEpoch(s) ==
  /\ pc[s] = "bump"
  /\ Goto(s, after[s])
  /\ wrote' = [wrote EXCEPT ![s] = TRUE]
  /\ moved' = [t \in Slices |-> InChain(t)]
  /\ after' = [after EXCEPT ![s] = "tail"]
  /\ UNCHANGED <<roundVars, code_writes, rip, left, pend, report, exit, own>>

(* A store to a page that is not watched. *)
StoreUnwatched(s, q) ==
  /\ pc[s] \in {"body", "thunk"}
  /\ q \notin jit.code_pages
  /\ jit' = StaleBoth(jit, q, "missed")
  /\ UNCHANGED <<phase, code_writes, recorded, sliceVars>>

(* A block ends in a native link: the successor's guard comes next. *)
Link(s, q) ==
  /\ pc[s] \in {"body", "tail"}
  /\ q \in Cached(jit.slice_block_cache)
  /\ rip' = [rip EXCEPT ![s] = q]
  /\ EnterBlock(s)

(* mutant: the loop does not ask whether the block wrote code *)
EndBlockUnchecked(s, q) ==
  /\ pc[s] \in {"body", "tail"}
  /\ rip' = [rip EXCEPT ![s] = q]
  /\ Goto(s, "resolve")
  /\ UNCHANGED <<roundVars, code_writes, left, moved, wrote, pend, after, report, exit, own>>

(* A block ends in a jump or a return that the loop resolves. code_written
   comes before the lookup of the next block. *)
EndBlock(s, q) ==
  /\ pc[s] \in {"body", "tail"}
  /\ rip' = [rip EXCEPT ![s] = q]
  /\ \/ wrote[s] /\ Stop(s, "drain", "CodeWrite")
     \/ /\ ~ wrote[s]
        /\ Goto(s, "resolve")
        /\ UNCHANGED <<roundVars, code_writes, left, moved, wrote, pend, after, report, exit, own>>

(* A block ends in a call: slice_push_return stores the return address on page
   w. The flag has been read before that store. *)
EndWithCall(s, q, w) ==
  /\ pc[s] \in {"body", "tail"}
  /\ rip' = [rip EXCEPT ![s] = q]
  /\ \/ /\ StoreSeen(s, w, IF wrote[s] THEN "stop" ELSE "resolve")
        /\ own' = [own EXCEPT ![s] = IF @ = "no" THEN "push" ELSE @]
     \/ /\ w \notin jit.code_pages
        /\ jit' = StaleBoth(jit, w, "missed")
        /\ Goto(s, IF wrote[s] THEN "stop" ELSE "resolve")
        /\ UNCHANGED <<recorded, pend, after, own>>
  /\ UNCHANGED <<phase, code_writes, left, moved, wrote, report, exit>>

(* The end of the loop in run_slice. *)
Resolve(s) ==
  /\ \/ pc[s] = "stop" /\ Stop(s, "drain", "CodeWrite")
     \/ /\ pc[s] = "resolve"
        /\ rip[s] \notin Cached(jit.slice_block_cache)
        /\ Stop(s, "barrier", "Other")
     \/ /\ pc[s] = "resolve"
        /\ rip[s] \in Cached(jit.slice_block_cache)
        /\ Goto(s, "loop")
        /\ UNCHANGED <<roundVars, code_writes, left, moved, wrote, pend, after, report, exit, own>>
  /\ UNCHANGED rip

(* run_thread at a barrier: a worker-safe thunk runs here. *)
CallThunk(s) ==
  /\ pc[s] = "barrier"
  /\ rip[s] = Thunk
  /\ Goto(s, "thunk")
  /\ UNCHANGED <<roundVars, code_writes, rip, left, moved, wrote, pend, after, report, exit, own>>

(* The thunk returns to guest code: run_thread looks at the budget and calls
   run_slice again. *)
ThunkReturn(s, q) ==
  /\ pc[s] \in {"thunk", "return"}
  /\ rip' = [rip EXCEPT ![s] = q]
  /\ \/ left[s] = 0 /\ Goto(s, "drain")
     \/ left[s] > 0 /\ Goto(s, "loop")
  /\ UNCHANGED <<roundVars, code_writes, left, moved, wrote, pend, after, report, exit, own>>

(* No thunk, an owner-only thunk, or one that gave up half way: the barrier is
   for the owner. *)
LeaveToOwner(s) ==
  /\ pc[s] \in {"barrier", "thunk", "return"}
  /\ Goto(s, "drain")
  /\ UNCHANGED <<roundVars, code_writes, rip, left, moved, wrote, pend, after, report, exit, own>>

(* mutant: run_thread takes the writes of its own run_slice calls for all *)
DrainNothing(s) ==
  /\ pc[s] = "drain"
  /\ Goto(s, "done")
  /\ UNCHANGED <<roundVars, code_writes, rip, left, moved, wrote, pend, after, report, exit, own>>

(* run_thread ends: a thunk may have stored after the last drain. *)
Drain(s) ==
  /\ pc[s] = "drain"
  /\ Goto(s, "done")
  /\ report' = [report EXCEPT ![s] = @ \cup code_writes]
  /\ code_writes' = {}
  /\ left' = [left EXCEPT ![s] = Budget]
  /\ own' = [own EXCEPT ![s] = "no"]
  /\ UNCHANGED <<roundVars, rip, moved, wrote, pend, after, exit>>

-----------------------------------------------------------------------------
(* What a worker does as long as its slice is not over. *)
Run(s) ==
  \/ Begin(s)
  \/ Dispatch(s)
  \/ Interrupt(s)
  \/ PushWrite(s)
  \/ BumpEpoch(s)
  \/ Resolve(s)
  \/ CallThunk(s)
  \/ LeaveToOwner(s)
  \/ Drain(s)
  \/ \E q \in Pages : Link(s, q) \/ ThunkReturn(s, q)
  \/ \E q \in Pages \cup {Thunk} : EndBlock(s, q) \/ \E w \in Pages : EndWithCall(s, q, w)

Next ==
  \/ \E p \in Pages : GetOrCompile(p) \/ NativeStore(p) \/ HelperStore(p) \/ UnseenStore(p)
  \/ StartRound
  \/ FinishRound
  \/ \E s \in Slices : Run(s) \/ \E q \in Pages : StoreWatched(s, q) \/ StoreUnwatched(s, q)

Spec == Init /\ [][Next]_vars

(* A worker keeps running: compiled blocks and worker-safe thunks end. *)
FairSpec ==
  /\ Spec
  /\ \A s \in Slices : WF_vars(Run(s))
  /\ WF_vars(FinishRound)

-----------------------------------------------------------------------------
TypeOK ==
  /\ jit \in [block_cache : [Pages -> Status], block_access_order : Seq(Pages),
              slice_block_cache : [Pages -> Status], code_pages : SUBSET Pages]
  /\ phase \in {"own", "round"}
  /\ code_writes \subseteq Pages
  /\ recorded \subseteq Pages
  /\ pc \in [Slices -> Labels]
  /\ rip \in [Slices -> Pages \cup {Thunk}]
  /\ left \in [Slices -> 0..Budget]
  /\ moved \in [Slices -> BOOLEAN]
  /\ wrote \in [Slices -> BOOLEAN]
  /\ pend \in [Slices -> Pages \cup {Thunk}]
  /\ after \in [Slices -> {"tail", "resolve", "stop", "return"}]
  /\ report \in [Slices -> SUBSET Pages]
  /\ exit \in [Slices -> {"CodeWrite", "Other"}]
  /\ own \in [Slices -> {"no", "store", "push"}]

(* The log of code writes belongs to the program, not to a worker: a slice
   that stops takes what the others recorded, and its completion carries it.
   Still no recorded store of the round is missing when the owner looks at the
   completions, in whatever order the slices store, drain and finish. *)
WritesReported ==
  phase = "round" /\ (\A s \in Slices : pc[s] \in {"idle", "done"})
    => recorded \subseteq ReportedPages

(* A store that was recorded, by a slice or by the owner's native code, is
   acted on before the owner runs anything: neither the dispatcher nor the
   next round's program has a block from before the store. *)
RecordedWritesApplied ==
  phase = "own" => \A p \in Pages : /\ jit.block_cache[p] # "seen"
                                    /\ jit.slice_block_cache[p] # "seen"

(* No store through the store helper, of the owner's compiled code or of a
   slice, hits a page with a block of the dispatcher's cache unrecorded:
   eviction, promotion and invalidation keep code_pages and the cache in step. *)
TrackedStoresSeen ==
  \A p \in Pages : jit.block_cache[p] # "missed"

(* The owner's blocks are older than no store that the store helper made: what
   was recorded has been acted on, and nothing passes a page of a dispatcher
   block unrecorded. Stores that do not go through the helper are not
   covered (InterpreterStoresSeen). *)
OwnerBlocksCurrent == RecordedWritesApplied /\ TrackedStoresSeen

(* A thread sees its own code writes: once its compiled code has stored to a
   code page, it enters no other block of that program, not through a native
   link and not after a thunk that ran on the worker. *)
OwnWriteStops ==
  [][\A s \in Slices : own[s] = "store" => left'[s] >= left[s]]_vars

(* GuestSliceMemory::store says (src/jit/code_cache.rs:1087-1090) that after a
   store to a code page "the runtime owner must invalidate stale blocks before
   the next slice". After a return address pushed on such a page run_slice goes
   on, since it has read the flag before, and run_thread may start the next
   slice of the same program by itself. *)
PushStops ==
  [][\A s \in Slices : own[s] = "push" => left'[s] >= left[s]]_vars

(* Every round ends and its contexts come back to the owner: the budget bounds
   what links, calls and thunks can add to a slice. *)
RoundEnds == phase = "round" ~> phase = "own"

(* invalidate_blocks_on_pages says (src/jit/code_cache.rs:3482-3484) that a
   code write invalidates the slice blocks "just like dispatcher blocks", so
   no store of compiled code may pass a page with a slice block unnoticed.
   rebuild_code_pages keeps only the pages of the dispatcher's blocks. *)
SliceStoresSeen ==
  \A p \in Pages : jit.slice_block_cache[p] # "missed"

(* The entry check of execute_block says (src/jit/code_cache.rs:3663-3667) that
   "the interpreter may have written guest code pages between JIT executions.
   Drain those writes before running a stale block". The interpreter marks no
   page, and neither do the helpers that interpret for a compiled block. *)
InterpreterStoresSeen ==
  \A p \in Pages : jit.block_cache[p] # "unseen"
=============================================================================
