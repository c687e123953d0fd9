SPECIFICATION Spec
CONSTANTS
    IovMax = 2
    PipeCap = 5
    HdrLen = 2
    LebMax = 1
    PacketLens <- MC_PacketLens
    KeyLens <- MC_KeyLens
    ValueLens <- MC_ValueLens
    MaxShips = 2
    MaxFrames = 2
INVARIANTS
    TypeOK
    DeliveredInOrder
    PipeHoldsExactlyUnsent
    NoEmptySend
PROPERTY
    CompleteMeansDelivered
CHECK_DEADLOCK FALSE
