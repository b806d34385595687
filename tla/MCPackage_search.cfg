SPECIFICATION PackageSpec
INVARIANTS TypeOK WinnerIsLeast EveryPathRefused ProofCoversBranches MarkedBranchesAreDead PackageVerifies
PROPERTY VerifierEnds
CHECK_DEADLOCK FALSE
CONSTANTS
    None = None
    Node <- MCNode
    Unparsable = {7, 8}
    MaxDepth = 4
    Input <- SealedInput
