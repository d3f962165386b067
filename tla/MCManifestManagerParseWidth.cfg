CONSTANTS
    r1 = r1
    g1 = g1
    g2 = g2
    Key <- MCKey
    Reader <- MCReader
    Collector <- MCCollector
    ParseMax = 2
SPECIFICATION Spec
PROPERTY
    EventuallyPruned
