CONSTANTS
    Null = Null
    Nodes <- MCNodes
    ASTs <- OffsetASTs
    Thresholds = {1}
SPECIFICATION Spec
INVARIANT GraphClosure
