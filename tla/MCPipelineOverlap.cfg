CONSTANTS
    l1 = l1
    l2 = l2
    s1 = s1
    s2 = s2
    k1 = k1
    scheduler = scheduler
    manual = manual
    task = task
    request = request
    Location <- MCLocationTwo
    Slot <- MCSlotOne
    Ingester <- MCIngesterTwo
    MaxClock = 2
    Rule <- MCNoRule
    Level <- MCLevelOne
    Breaches <- MCBreaches
    Processor <- MCProcessorOne
    Scheduler = scheduler
    BatchLimit = 2
    MaxFaults = 0
SPECIFICATION Spec
INVARIANTS
    NeverSkipped
