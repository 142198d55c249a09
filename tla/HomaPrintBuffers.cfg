CONSTANTS
    c1 = c1
    c2 = c2
    Cores <- MCOneCore
    NumBufs <- MCNumBufs
    MaxHeld <- MCMaxHeld
    Builds <- MCAllBuilds

SPECIFICATION Spec

INVARIANT ResultsIntact
