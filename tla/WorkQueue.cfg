CONSTANTS
    Items = {i1, i2, i3}
    Consumers = {c1, c2}
    Capacities = {0, 1}
SPECIFICATION Spec
INVARIANTS TypeOK NoLostWakeup FirstInFirstOut
PROPERTIES AcceptedIsDelivered CancelledGetQuits ImplementsJobQueue
CHECK_DEADLOCK FALSE
