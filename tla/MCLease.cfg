SPECIFICATION DeliverySpec
CONSTANTS
    FixBound = 0
    ActBound = 1
PROPERTY PushKeepsOthers
CHECK_DEADLOCK FALSE
