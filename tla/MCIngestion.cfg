CONSTANTS
    l1 = l1
    l2 = l2
    s1 = s1
    s2 = s2
    scheduler = scheduler
    manual = manual
    Location <- MCLocation
    Slot <- MCSlot
    Ingester <- MCIngester
    MaxClock = 3
SPECIFICATION FairSpec
INVARIANTS
    OneRowPerKey
    OneRowPerStamp
PROPERTIES
    TieGroupComplete
    CleanReport
    CycleEnds
