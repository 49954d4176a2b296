CONSTANTS
  Drivers = {r1}
  Devices = {d1, d2, d3}
  None = None
  Statuses = {"success"}
  Cancelled = "cancelled"
  MoreProcessing = "more"
  MaxIrps = 2
SYMMETRY DeviceSymmetry
SPECIFICATION Spec
INVARIANTS
  StacksAreLists
  ChainExact
  CompletedOnce
  QueueExact
PROPERTY DeletionCompletes
\* every IRP may be completed and every device deleted
CHECK_DEADLOCK FALSE
