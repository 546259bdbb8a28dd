CONSTANTS
    Wgs = {wg0}
    Gateways = {eth0}
    Calls = {c1}
    Families <- V4Only
    Faults <- NoFaults
    MaxCopies = 0
    Doubted = {}
    NoSnap = NoSnap
    Free = Free
SPECIFICATION Uninterrupted
INVARIANT ForwardingRestored
