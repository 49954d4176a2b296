CONSTANTS
  Drivers = {r1}
  Devices = {d1, d2, d3}
  None = None
  Statuses = {"success"}
  Cancelled = "cancelled"
  MoreProcessing = "more"
  MaxIrps = 2
SYMMETRY DeviceSymmetry
SPECIFICATION SharedSpec
INVARIANT QueueExact
CHECK_DEADLOCK FALSE
