CONSTANTS
    Null = Null
    Nodes <- MCNodes
    ASTs <- DeclASTs
    Thresholds = {1}
SPECIFICATION Spec
INVARIANT GraphClosure
