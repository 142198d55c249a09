CONSTANTS
    NrCpus <- MCNrCpus
    MaxNumNodes <- MCMaxNumNodes
    Topologies <- MCTopologies
    MaxDestroys <- MCMaxDestroys

SPECIFICATION Spec

INVARIANT PacerStoppedBeforeTeardown
INVARIANT NothingLeaked
PROPERTY DestroyReturns
PROPERTY ImplementsAbstract

CHECK_DEADLOCK FALSE
