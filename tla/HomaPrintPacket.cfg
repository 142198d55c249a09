CONSTANTS
    BufLen <- MCBufLen
    PieceLens <- MCPieceLens
    MaxAcks <- MCMaxAcks
    Packets <- MCPackets
    Variants <- MCBothVariants

SPECIFICATION Spec
CHECK_DEADLOCK FALSE

INVARIANT UsedIsTextLength
INVARIANT SegmentsCoverData
