SPECIFICATION Spec
CONSTANTS
    Block = {b1, b2}
    Image = {0, 1}
    Zero = 0
    NoBlock = NoBlock
    capacity = 1
    MaxLog = 2
    MaxPins = 1
    MaxCrashes = 1
PROPERTIES
    UncommittedDropped
CHECK_DEADLOCK FALSE
