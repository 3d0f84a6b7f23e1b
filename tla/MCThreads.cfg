SPECIFICATION PartsSpec
CONSTANTS
    Connections = {1, 2, 3}
    Workers = 2
    MaxHanging = 1
    Thread = {a, b}
    Words = {0, 1}
    MaxOps = 2
    Spurious = TRUE
INVARIANTS
    NoWaiterLost
    DeliveredInOrder
PROPERTIES
    EveryRequestEnds
    TimersFire
    
CHECK_DEADLOCK FALSE
