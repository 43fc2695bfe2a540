CONSTANTS
    BlockSizes <- MC_BlockSizes
    MacLengths <- MC_MacLengths
    Chunks <- MC_ChunksToLimit
    MaxWrites <- MC_MaxWrites
    ReadCounts <- MC_ReadCounts
    MaxReads <- MC_MaxReads
    Forged <- MC_Forged
SPECIFICATION Spec
INVARIANTS
    HonestPacketDelivered
