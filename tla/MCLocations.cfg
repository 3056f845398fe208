SPECIFICATION LiveSpec
CONSTANTS
    q1 = q1
    q2 = q2
    l1 = l1
    Column <- TwoColumns
    Location <- OneLocation
    Request <- TwoRequests
PROPERTIES QuietUpdate UnnamedKept NamedTakesEffect RequestEnds
