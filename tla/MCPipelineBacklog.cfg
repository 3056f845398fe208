CONSTANTS
    l1 = l1
    l2 = l2
    s1 = s1
    s2 = s2
    k1 = k1
    scheduler = scheduler
    manual = manual
    task = task
    request = request
    Location <- MCLocationOne
    Slot <- MCSlotTwo
    Ingester <- MCIngesterOne
    MaxClock = 2
    Rule <- MCRuleOne
    Level <- MCLevelOne
    Breaches <- MCBreaches
    Processor <- MCProcessorTwo
    Scheduler = scheduler
    BatchLimit = 1
    MaxFaults = 2
SPECIFICATION FairSpec
INVARIANTS
    WatermarkExact
PROPERTIES
    ImplementsProcessing
    WatermarkMonotone
    EventuallyProcessed
