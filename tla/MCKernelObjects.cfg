CONSTANTS
    n1 = n1
    NoName = NoName
    Names = {n1}
    MaxObjects = 2
    MaxHandles = 3
    MaxGeneration = 2
    MaxOpened = 2
SPECIFICATION Spec
CHECK_DEADLOCK FALSE
INVARIANT TablesAgree
INVARIANT StaleRejected
PROPERTY HandleKeepsObject
