CONSTANTS
    Bits = 4
    Cidrs <- AllCidrs
    Peers = {p1, p2, p3}
    ManualLens <- HostLens
    NoNet = NoNet
SPECIFICATION Spec
INVARIANTS Disjoint ExhaustedWhenFull
PROPERTY AllocatesInOrder
