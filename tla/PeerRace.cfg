CONSTANTS
    Ifaces = {i1}
    PeerIds = {1}
    Keys = {k1, k2}
    Hosts = {2, 3}
    Workers = {w1, w2}
    Envs <- OnlyToggled
    Blank = Blank
    NoPeer = NoPeer
    NoLink = NoLink
SPECIFICATION Spec
INVARIANT NoStaleAccess
