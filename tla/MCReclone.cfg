SPECIFICATION GateSpec
CONSTANTS
    Paths = {1, 2}
    MaxShifts = 2
    MaxTampers = 0
    MaxInits = 3
INVARIANTS TearsDownItsOwn
CHECK_DEADLOCK FALSE
