CONSTANTS
    Null = Null
    Nodes <- MCNodes
    ASTs <- AsmASTs
    Thresholds = {1}
SPECIFICATION Spec
INVARIANT GraphClosure
