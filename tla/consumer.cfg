CONSTANTS
    fun = fun
    s = s
    e = e
    v = v
    t = t
    Null = Null
    Nodes <- MCNodes
    ASTs <- Graphs
    Units <- MCUnits
    Thresholds <- MCThresholds
SPECIFICATION ConsumerSpec
INVARIANTS
    ConsumerTypeOK
    TopLevelNodesDumped
    RecordsClosed
    RecordsAreSnapshots
PROPERTIES
    ConsumerNodesComplete
    FatalErrorIsLast
    UnitEnds
