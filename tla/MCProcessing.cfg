CONSTANTS
    o1 = o1
    o2 = o2
    k1 = k1
    scheduler = scheduler
    manual = manual
    Obs <- MCObs
    Time <- MCTime
    Rule <- MCRule
    Level <- MCLevel
    Breaches <- MCBreaches
    Processor <- MCProcessor
    Scheduler = scheduler
    BatchLimit = 2
SPECIFICATION RSpec
INVARIANTS
    ExactlyOnce
    WatermarkJustified
    ScoreMatchesAlerts
    NoOrphanAlert
    IInv
PROPERTIES
    PageAtomic
    ImplementsLog
    CycleEnds
    ReportExact
