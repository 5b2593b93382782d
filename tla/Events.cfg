SPECIFICATION Spec
CONSTANTS
    d1 = d1
    d2 = d2
    d3 = d3
    Deliveries = {d1, d2}
    RevOf <- TwoPushes
    MaxRequests = 2
    Coalesces = {TRUE, FALSE}
    MaxRetries = 1
    MaxFaults = 2
    MaxLost = 1
    MaxTasks = 9
CHECK_DEADLOCK FALSE
INVARIANTS ProcessedOnce NewPushIsPaired
PROPERTIES JobsSettle 
