CONSTANTS
    MaxPriorities <- MCMaxPriorities
    MaxMessageLength <- MCMaxMessageLength
    IntMax <- MCIntMax
    NumPrioInputs <- MCNumPrioInputs
    CutoffInputs <- MCCutoffInputs
    MaxReconfigs <- MCMaxReconfigs
SPECIFICATION Spec
INVARIANT SentTableCoversMaxLength
CHECK_DEADLOCK FALSE
