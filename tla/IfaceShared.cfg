CONSTANTS
    Wgs = {wg0, wg1}
    Gateways = {eth0}
    Ids = {i1, i2}
    Requests = {r1, r2}
    Faults <- CallFaults
    Envs <- CalmV4
    MaxCopies = 0
    Doubted = {}
    NoSnap = NoSnap
    NoGw = NoGw
    NoRow = NoRow
SPECIFICATION Spec
INVARIANT NeverUpUnmasqueraded
