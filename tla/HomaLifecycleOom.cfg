CONSTANTS
    NrCpus <- MCNrCpus
    MaxNumNodes <- MCMaxNumNodes
    Topologies <- MCTopologies
    MaxDestroys <- MCMaxDestroys

SPECIFICATION Spec

INVARIANT AllocFailureReported


CHECK_DEADLOCK FALSE
