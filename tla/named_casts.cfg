CONSTANTS
    Null = Null
    Nodes <- MCNodes
    ASTs <- CastASTs
    Thresholds = {1}
SPECIFICATION Spec
INVARIANT GraphClosure
