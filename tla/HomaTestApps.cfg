CONSTANTS
    Programs <- MCPrograms
    NumSockets <- MCNumSockets
    MaxEvents <- MCMaxEvents
    MaxConns <- MCMaxConns
    Faults <- MCFaults
    MaxFaults <- MCMaxFaults

SPECIFICATION Spec

PROPERTY ClientEnds

CHECK_DEADLOCK FALSE
