CONSTANTS
    Ifaces = {i1, i2}
    PeerIds = {1, 2}
    Keys = {k1, k2}
    Hosts = {2, 3}
    Workers = {w1, w2}
    Envs <- RequestEnvs
    Blank = Blank
    NoPeer = NoPeer
    NoLink = NoLink
SYMMETRY TaskSymmetry
SPECIFICATION Spec
INVARIANTS TypeOK KernelMatchesTable UniqueAddresses KeyPairsMatch NoOrphans
PROPERTY NoResurrection
