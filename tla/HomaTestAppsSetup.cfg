CONSTANTS
    Programs <- MCTcpClient
    NumSockets <- MCNumSockets
    MaxEvents <- MCMaxEvents
    MaxConns <- MCMaxConns
    Faults <- MCSetupFaults
    MaxFaults <- MCOneFault

SPECIFICATION Spec

INVARIANT MemorySafe

CHECK_DEADLOCK FALSE
