------------------------------ MODULE IrpCore -------------------------------
(***************************************************************************)
(* The IRP core of the CasaK I/O manager (src/casak/io.rs): every IRP and  *)
(* one FIFO of pending IRPs per device, behind one mutex.  Clones of the   *)
(* core complete and cancel IRPs from other threads; each operation is one *)
(* critical section.                                                       *)
(*                                                                         *)
(* Completion routines are called with the lock held.  What each of them   *)
(* returns is open, so of the stack locations only their devices matter,   *)
(* and whether any has a routine.                                          *)
(***************************************************************************)
EXTENDS CasaKDevices

CONSTANTS
  Statuses,                 \* what completions end with
  Cancelled,                \* STATUS_CANCELLED
  MoreProcessing,           \* STATUS_MORE_PROCESSING_REQUIRED
  MaxIrps                   \* bound: IRPs allocated

VARIABLES
  irps,                     \* IrpState.irps: IRP identifiers count from one
  queues,                   \* IrpState.queues
  completed, cancelled      \* the counters

irpVars == <<irps, queues, completed, cancelled>>

IrpInit ==
  /\ irps = << >>
  /\ queues = [d \in Devices |-> << >>]
  /\ completed = 0 /\ cancelled = 0

NewIrp(stack) ==
  [stack |-> stack, hooked |-> FALSE, status |-> "pending", pending |-> FALSE,
   pending_device |-> None, cancelled |-> FALSE, completed |-> FALSE]

Insert(stack) ==
  /\ Len(irps) < MaxIrps
  /\ irps' = Append(irps, NewIrp(stack))
  /\ UNCHANGED <<queues, completed, cancelled>>

Queue(d, i) ==
  /\ ~irps[i].completed /\ ~irps[i].pending
  /\ d \in irps[i].stack
  /\ queues' = [queues EXCEPT ![d] = Append(@, i)]
  /\ irps' = [irps EXCEPT ![i].pending = TRUE, ![i].pending_device = d,
                          ![i].status = "pending"]
  /\ UNCHANGED <<completed, cancelled>>

SetCompletionRoutine(i) ==
  /\ ~irps[i].completed /\ ~irps[i].hooked
  /\ irps' = [irps EXCEPT ![i].hooked = TRUE]
  /\ UNCHANGED <<queues, completed, cancelled>>

-----------------------------------------------------------------------------
(* run_completion with the given status: without a routine it stands, even *)
(* MoreProcessing, otherwise the last routine decides, and any of them may *)
(* stall the walk.                                                         *)
Outcomes(i, status) ==
  IF irps[i].hooked
    THEN {[status |-> s, stalled |-> FALSE] : s \in Statuses \cup {Cancelled}}
           \cup {[status |-> MoreProcessing, stalled |-> TRUE]}
    ELSE {[status |-> status, stalled |-> FALSE]}

RunCompletion(i, out, flag) ==
  irps' = [irps EXCEPT
    ![i].status = out.status, ![i].cancelled = flag,
    ![i].pending = out.stalled, ![i].pending_device = None,
    ![i].completed = ~out.stalled]

Unqueue(i) ==
  queues' = [d \in Devices |->
    IF d = irps[i].pending_device THEN SelectSeq(queues[d], LAMBDA q : q # i) ELSE queues[d]]

(* mutant: the IRP stays in the queue of its device *)
CompleteStillQueued(i, status) ==
  /\ ~irps[i].completed
  /\ \E out \in Outcomes(i, status) :
       /\ RunCompletion(i, out, FALSE)
       /\ completed' = IF out.stalled THEN completed ELSE completed + 1
  /\ UNCHANGED <<queues, cancelled>>

(* mutant: a completed IRP is completed again *)
CompleteTwice(i, status) ==
  /\ completed <= MaxIrps
  /\ \E out \in Outcomes(i, status) :
       /\ RunCompletion(i, out, FALSE)
       /\ completed' = IF out.stalled THEN completed ELSE completed + 1
  /\ Unqueue(i)
  /\ UNCHANGED cancelled

Complete(i, status) ==
  /\ ~irps[i].completed
  /\ \E out \in Outcomes(i, status) :
       /\ RunCompletion(i, out, FALSE)
       /\ completed' = IF out.stalled THEN completed ELSE completed + 1
  /\ Unqueue(i)
  /\ UNCHANGED cancelled

(* mutant: a routine can stall a cancellation *)
CancelMayStall(i) ==
  /\ ~irps[i].completed
  /\ \E out \in Outcomes(i, Cancelled) :
       LET n == IF out.stalled THEN 0 ELSE 1
       IN /\ RunCompletion(i, out, TRUE)
          /\ completed' = completed + n /\ cancelled' = cancelled + n
  /\ Unqueue(i)

(* A routine that stalls the walk does not stop a cancellation. *)
Cancel(i) ==
  /\ ~irps[i].completed
  /\ \E out \in Outcomes(i, Cancelled) :
       RunCompletion(i, IF out.stalled THEN [status |-> Cancelled, stalled |-> FALSE] ELSE out,
                     TRUE)
  /\ Unqueue(i)
  /\ completed' = completed + 1 /\ cancelled' = cancelled + 1

(* The first critical section of cancel_pending_for_device. *)
TakeQueue(d) ==
  /\ queues' = [queues EXCEPT ![d] = << >>]
  /\ UNCHANGED <<irps, completed, cancelled>>

-----------------------------------------------------------------------------
(* "exactly-once completion": every IRP is counted completed once, when it *)
(* reaches its final status, and counted cancelled if that is how it got   *)
(* there, whatever complete, cancel, stalled routines and repeated calls   *)
(* of several threads came before.                                         *)
CompletedOnce ==
  /\ completed = Cardinality({i \in DOMAIN irps : irps[i].completed})
  /\ cancelled = Cardinality({i \in DOMAIN irps : irps[i].completed /\ irps[i].cancelled})
=============================================================================
