CONSTANTS
    Null = Null
    Nodes <- MCNodes
    ASTs <- ClosedASTs
    Thresholds = {1}
SPECIFICATION Spec
INVARIANTS
    GraphClosure
    NoTruncatedRecord
