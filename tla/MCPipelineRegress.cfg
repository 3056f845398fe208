CONSTANTS
    l1 = l1
    l2 = l2
    s1 = s1
    s2 = s2
    k1 = k1
    scheduler = scheduler
    manual = manual
    task = task
    request = request
    Location <- MCLocationTwo
    Slot <- MCSlotTwo
    Ingester <- MCIngesterOne
    MaxClock = 2
    Rule <- MCNoRule
    Level <- MCLevelOne
    Breaches <- MCBreaches
    Processor <- MCProcessorTwo
    Scheduler = scheduler
    BatchLimit = 1
    MaxFaults = 0
SPECIFICATION FairSpec
PROPERTIES
    CatchesUp
