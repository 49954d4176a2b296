\* Three readings of the docs that the code does not keep: run with -continue
\* to see each of them.
CONSTANTS
    n1 = n1
    NoName = NoName
    Names = {n1}
    MaxObjects = 2
    MaxHandles = 2
    MaxGeneration = 2
    MaxOpened = 2
SPECIFICATION Spec
CHECK_DEADLOCK FALSE
INVARIANT ClaimWhileOpen
INVARIANT OpenKeepsObject
INVARIANT ProtectionIsOfLiveHandle
