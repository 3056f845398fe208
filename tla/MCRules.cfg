SPECIFICATION LiveSpec
CONSTANTS
    q1 = q1
    q2 = q2
    c1 = c1
    k1 = k1
    Column <- TwoColumns
    Rule <- OneRule
    Request <- TwoRequests
    Cycle <- OneCycle
INVARIANTS AlertsKeepRules
PROPERTIES DeletedStaysDeleted UnnamedKept EditsAreAtomic UpdateEnds
