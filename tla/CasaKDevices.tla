---------------------------- MODULE CasaKDevices ----------------------------
(***************************************************************************)
(* Driver and device objects of the CasaK I/O manager (src/casak/io.rs):   *)
(* the chain of a driver's devices and the stacks of attached devices,     *)
(* both kept as links from device to device.  Names, flags and extensions  *)
(* are left out; drivers exist from the start and are never removed.       *)
(***************************************************************************)
EXTENDS Naturals, Sequences, FiniteSets

CONSTANTS Drivers, Devices, None

VARIABLES
  driver,                   \* DeviceObject.driver, None before create_device
  deleted,                  \* DeviceObject.deleted
  attached_device,          \* the device above
  lower_device,             \* the device below
  next_device,              \* the next device of the same driver
  first_device,             \* DriverObject.first_device
  device_count              \* DriverObject.device_count

devVars == <<driver, deleted, attached_device, lower_device, next_device,
             first_device, device_count>>

DevInit ==
  /\ driver = [d \in Devices |-> None]
  /\ deleted = [d \in Devices |-> FALSE]
  /\ attached_device = [d \in Devices |-> None]
  /\ lower_device = [d \in Devices |-> None]
  /\ next_device = [d \in Devices |-> None]
  /\ first_device = [r \in Drivers |-> None]
  /\ device_count = [r \in Drivers |-> 0]

Exists(d) == driver[d] # None
Live(d) == Exists(d) /\ ~deleted[d]

-----------------------------------------------------------------------------
(* The walk from d along the links f: device by device, then None. *)
Walk(f, d) ==
  LET step[k \in 0 .. Cardinality(Devices)] ==
        IF k = 0 THEN d ELSE IF step[k - 1] = None THEN None ELSE f[step[k - 1]]
  IN step

Visited(f, d) == {Walk(f, d)[k] : k \in 0 .. Cardinality(Devices)} \ {None}

(* A walk that meets a cycle does not end. *)
Ends(f, d) == Walk(f, d)[Cardinality(Devices)] = None

(* top_of_stack *)
TopOfStack(d) == CHOOSE t \in Visited(attached_device, d) : attached_device[t] = None

(* stack_devices: d and what is below it. *)
StackDevices(d) == Visited(lower_device, d)

-----------------------------------------------------------------------------
CreateDevice(d, r) ==
  /\ ~Exists(d)
  /\ driver' = [driver EXCEPT ![d] = r]
  /\ next_device' = [next_device EXCEPT ![d] = first_device[r]]
  /\ first_device' = [first_device EXCEPT ![r] = d]
  /\ device_count' = [device_count EXCEPT ![r] = @ + 1]
  /\ UNCHANGED <<deleted, attached_device, lower_device>>

(* mutant: only the device above is looked at *)
AttachUnchecked(d, target) ==
  /\ d # target /\ Live(target) /\ Live(d)
  /\ attached_device[d] = None
  /\ lower_device' = [lower_device EXCEPT ![d] = TopOfStack(target)]
  /\ attached_device' = [attached_device EXCEPT ![TopOfStack(target)] = d]
  /\ UNCHANGED <<driver, deleted, next_device, first_device, device_count>>

AttachDevice(d, target) ==
  /\ d # target /\ Live(target) /\ Live(d)
  /\ attached_device[d] = None /\ lower_device[d] = None
  /\ lower_device' = [lower_device EXCEPT ![d] = TopOfStack(target)]
  /\ attached_device' = [attached_device EXCEPT ![TopOfStack(target)] = d]
  /\ UNCHANGED <<driver, deleted, next_device, first_device, device_count>>

DetachDevice(target) ==
  /\ attached_device[target] # None
  /\ lower_device' = [lower_device EXCEPT ![attached_device[target]] = None]
  /\ attached_device' = [attached_device EXCEPT ![target] = None]
  /\ UNCHANGED <<driver, deleted, next_device, first_device, device_count>>

(* unlink_from_stack: the neighbours are connected with each other. *)
UnlinkFromStack(d) ==
  LET upper == attached_device[d]
      lower == lower_device[d]
  IN /\ attached_device' = [e \in Devices |->
          IF e = d THEN None ELSE IF e = lower THEN upper ELSE attached_device[e]]
     /\ lower_device' = [e \in Devices |->
          IF e = d THEN None ELSE IF e = upper THEN lower ELSE lower_device[e]]

(* mutant: only the head of the chain is moved on *)
UnlinkHeadOnly(d) ==
  LET r == driver[d]
  IN /\ first_device' = [first_device EXCEPT ![r] = IF @ = d THEN next_device[d] ELSE @]
     /\ next_device' = [next_device EXCEPT ![d] = None]
     /\ device_count' = [device_count EXCEPT ![r] = @ - 1]

(* The device leaves its driver's chain: the head moves on, or the device  *)
(* before it, found by walking from the head, skips it.                    *)
UnlinkFromDriver(d) ==
  LET r == driver[d]
  IN /\ first_device' = [first_device EXCEPT ![r] = IF @ = d THEN next_device[d] ELSE @]
     /\ next_device' = [e \in Devices |->
          IF e = d THEN None ELSE IF next_device[e] = d THEN next_device[d] ELSE next_device[e]]
     /\ device_count' = [device_count EXCEPT ![r] = IF @ > 0 THEN @ - 1 ELSE 0]

(* delete_device, up to the IRPs. *)
UnlinkDevice(d) ==
  /\ Live(d)
  /\ UnlinkFromStack(d) /\ UnlinkFromDriver(d)
  /\ deleted' = [deleted EXCEPT ![d] = TRUE]
  /\ UNCHANGED driver

-----------------------------------------------------------------------------
(* Attaching, detaching and deleting in any order keeps the stacks lists:  *)
(* what is above d has d below it and the other way round, only live       *)
(* devices are linked, and every walk up or down ends (top_of_stack and    *)
(* stack_devices terminate on every device).                               *)
StacksAreLists ==
  /\ \A d, e \in Devices : attached_device[d] = e <=> lower_device[e] = d
  /\ \A d \in Devices : Live(d) \/ (attached_device[d] = None /\ lower_device[d] = None)
  /\ \A d \in Devices : Ends(attached_device, d) /\ Ends(lower_device, d)

(* A driver's chain lists exactly its live devices, each once, and         *)
(* device_count is its length, whichever device was deleted.               *)
ChainExact ==
  \A r \in Drivers :
    LET mine == {d \in Devices : Live(d) /\ driver[d] = r}
    IN /\ device_count[r] = Cardinality(mine)
       /\ Ends(next_device, first_device[r])
       /\ Visited(next_device, first_device[r]) = mine
=============================================================================
