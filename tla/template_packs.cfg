CONSTANTS
    Null = Null
    Nodes <- MCNodes
    ASTs <- PackASTs
    Thresholds = {1}
SPECIFICATION Spec
INVARIANT GraphClosure
