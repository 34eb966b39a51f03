CONSTANTS
    n1 = n1
    n2 = n2
    n3 = n3
    n4 = n4
    Null = Null
    Nodes <- MCNodes
    ASTs <- MCASTs
    Thresholds <- MCThresholds
SPECIFICATION FairSpec
INVARIANTS
    TypeOK
    SerializedOnce
    LevelBalanced
    ChildrenDecidedByDepth
    AllOrNothing
    StructuralDepthBounded
    GraphClosure
PROPERTIES
    RecordsAreFinal
    CallsReturn
    ImplementsNodeStream
