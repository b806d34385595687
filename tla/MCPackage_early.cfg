SPECIFICATION PackageSpec
INVARIANT PackageVerifies
CHECK_DEADLOCK FALSE
CONSTANTS
    None = None
    Node <- MCNode
    Unparsable = {7, 8}
    MaxDepth = 4
    Input <- ForgedInput
