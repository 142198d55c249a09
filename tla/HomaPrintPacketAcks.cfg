CONSTANTS
    BufLen <- MCBufLen
    PieceLens <- MCPieceLens
    MaxAcks <- MCMaxAcks
    Packets <- MCBadAckPackets
    Variants <- MCFull

SPECIFICATION Spec
CHECK_DEADLOCK FALSE

INVARIANT AckReadsInBounds
