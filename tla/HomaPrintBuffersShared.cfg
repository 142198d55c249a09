CONSTANTS
    c1 = c1
    c2 = c2
    Cores <- MCTwoCores
    NumBufs <- MCNumBufs
    MaxHeld <- MCMaxHeldTwo
    Builds <- MCMergedBuild

SPECIFICATION Spec

INVARIANT ResultsIntact
