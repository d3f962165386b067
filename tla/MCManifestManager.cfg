CONSTANTS
    r1 = r1
    g1 = g1
    g2 = g2
    Key <- MCKey
    Reader <- MCReader
    Collector <- MCCollector
    ParseMax = 5
SPECIFICATION Spec
INVARIANTS
    RetainsNewestTwo
PROPERTIES
    EventuallyPruned
