SPECIFICATION MCSpec
CONSTANTS
    Block = {b1, b2, b3}
    Image = {0, 1}
    Zero = 0
    NoBlock = NoBlock
    capacity = 2
    MaxLog = 3
    MaxPins = 1
    MaxCrashes = 1
    Keys = {1, 2, 3, 4, 5, 6}
    Values = {1}
    Capacity = 2
    MaxNodes = 9
SYMMETRY Symmetry
 
PROPERTIES WriteAhead 
CHECK_DEADLOCK FALSE
