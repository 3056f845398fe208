SPECIFICATION Spec
CONSTANTS
    a1 = a1
    a2 = a2
    a3 = a3
    a4 = a4
    reader1 = reader1
    Item <- Items
    Chosen <- ChosenItems
    Time <- Times
    Since = 1
    Limit = 1
    MaxItems = 2
    Client <- Readers
INVARIANTS TotalCoversPage WalkComplete
SYMMETRY SameItems
