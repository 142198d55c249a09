CONSTANTS
    MaxPriorities <- MCMaxPriorities
    MaxMessageLength <- MCMaxMessageLength
    IntMax <- MCIntMax
    NumPrioInputs <- MCNumPrioInputs
    CutoffInputs <- MCCutoffInputs
    MaxReconfigs <- MCMaxReconfigs

SPECIFICATION Spec

INVARIANT SchedBelowUnsched
INVARIANT PeerTableCurrent
INVARIANT TypeOK

CHECK_DEADLOCK FALSE
