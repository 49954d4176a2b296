CONSTANTS
    n1 = n1
    NoName = NoName
    Names = {n1}
    MaxObjects = 3
    MaxHandles = 3
    MaxGeneration = 2
    MaxOpened = 2
SPECIFICATION Spec
CHECK_DEADLOCK FALSE
PROPERTY NewestKeepsName
