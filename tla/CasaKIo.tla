------------------------------- MODULE CasaKIo ------------------------------
(***************************************************************************)
(* The I/O manager of src/casak/io.rs: device stacks and IRPs together.    *)
(* One thread owns the manager.  Other threads hold clones of the IRP core *)
(* and complete or cancel IRPs at any time, also while the owner deletes   *)
(* a device: cancel_pending_for_device takes the queue away in one critical*)
(* section and cancels its IRPs in later ones.                             *)
(*                                                                         *)
(* Completion ports, parameter validation, and the reference that deletion *)
(* drops in the object manager are left out.                               *)
(***************************************************************************)
EXTENDS IrpCore

VARIABLES
  deleting,                 \* the device that delete_device is draining, or None
  sweep,                    \* its IRPs, as cancel_pending_for_device took them
  swept,                    \* how many of them it has been through
  sending                   \* the IRP that send_synchronous has allocated, or 0

sweepVars == <<deleting, sweep, swept>>
vars == <<devVars, irpVars, sweepVars, sending>>

Init ==
  /\ DevInit /\ IrpInit
  /\ deleting = None /\ sweep = << >> /\ swept = 0
  /\ sending = 0

(* The owner is between two operations. *)
Idle == deleting = None /\ sending = 0

-----------------------------------------------------------------------------
(* The owner. *)
Link ==
  /\ Idle
  /\ \/ \E d \in Devices, r \in Drivers : CreateDevice(d, r)
     \/ \E d, target \in Devices : AttachDevice(d, target)
     \/ \E target \in Devices : DetachDevice(target)
  /\ UNCHANGED <<irpVars, sweepVars, sending>>

(* allocate_irp: the stack as it is now. *)
AllocateIrp(d) ==
  /\ Idle /\ Live(d)
  /\ Insert(StackDevices(d))
  /\ UNCHANGED <<devVars, sweepVars, sending>>

QueueIrp(d, i) ==
  /\ Idle /\ Live(d)
  /\ Queue(d, i)
  /\ UNCHANGED <<devVars, sweepVars, sending>>

(* send_synchronous: the IRP is allocated and, in a later critical section, *)
(* completed, unless another thread was quicker.                           *)
SendSynchronous(d) ==
  /\ Idle /\ Live(d)
  /\ Insert(StackDevices(d))
  /\ sending' = Len(irps')
  /\ UNCHANGED <<devVars, sweepVars>>

SendComplete ==
  /\ sending # 0
  /\ IF irps[sending].completed
       THEN UNCHANGED irpVars
       ELSE \E status \in Statuses : Complete(sending, status)
  /\ sending' = 0
  /\ UNCHANGED <<devVars, sweepVars>>

DeleteDevice(d) ==
  /\ Idle
  /\ UnlinkDevice(d)
  /\ deleting' = d /\ sweep' = queues[d] /\ swept' = 0
  /\ TakeQueue(d)
  /\ UNCHANGED sending

(* let _ = self.cancel(irp): an IRP that was completed meanwhile stays so. *)
SweepNext ==
  /\ deleting # None /\ swept < Len(sweep)
  /\ swept' = swept + 1
  /\ LET i == sweep[swept + 1]
     IN IF irps[i].completed THEN UNCHANGED irpVars ELSE Cancel(i)
  /\ UNCHANGED <<devVars, deleting, sweep, sending>>

SweepEnd ==
  /\ deleting # None /\ swept = Len(sweep)
  /\ deleting' = None /\ sweep' = << >> /\ swept' = 0
  /\ UNCHANGED <<devVars, irpVars, sending>>

(* Threads with a clone of the core, and the owner between two operations. *)
Drive(i) ==
  /\ \/ \E status \in Statuses \cup {MoreProcessing} : Complete(i, status)
     \/ Cancel(i)
     \/ SetCompletionRoutine(i)
  /\ UNCHANGED <<devVars, sweepVars, sending>>

Next ==
  \/ Link
  \/ \E d \in Devices :
       \/ AllocateIrp(d) \/ DeleteDevice(d) \/ SendSynchronous(d)
       \/ \E i \in DOMAIN irps : QueueIrp(d, i)
  \/ SweepNext \/ SweepEnd \/ SendComplete
  \/ \E i \in DOMAIN irps : Drive(i)

Spec == Init /\ [][Next]_vars

(* A thread with a clone of the core can also queue, on any device. *)
CoreQueue ==
  /\ \E d \in Devices, i \in DOMAIN irps : Queue(d, i)
  /\ UNCHANGED <<devVars, sweepVars, sending>>

SharedSpec == Init /\ [][Next \/ CoreQueue]_vars

-----------------------------------------------------------------------------
ToSweep == {sweep[k] : k \in swept + 1 .. Len(sweep)}

(* queue, complete, cancel and cancel_pending_for_device of IrpCore: an    *)
(* IRP waits in the queue of the device it names, once, and in no other;   *)
(* the only IRPs that name a device and are in no queue are the ones a     *)
(* deletion in progress still has to cancel.  No IRP waits on a deleted    *)
(* device, where nobody would look for it.                                 *)
QueueExact ==
  \A d \in Devices :
    /\ \A j, k \in DOMAIN queues[d] : queues[d][j] = queues[d][k] => j = k
    /\ \A i \in DOMAIN irps :
         (\E k \in DOMAIN queues[d] : queues[d][k] = i)
           <=> irps[i].pending_device = d /\ ~(deleting = d /\ i \in ToSweep)
    /\ deleted[d] => queues[d] = << >>

(* delete_device: "cancels its pending IRPs".  Once it returns, every IRP  *)
(* that was queued on the device has its final status, even if another     *)
(* thread's completion stalled in a routine meanwhile.                     *)
DeletionCompletes ==
  [][deleting # None /\ deleting' = None =>
       \A k \in DOMAIN sweep : irps[sweep[k]].completed]_vars
=============================================================================
