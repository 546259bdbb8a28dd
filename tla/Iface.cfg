CONSTANTS
    Wgs = {wg0}
    Gateways = {eth0, eth1}
    Ids = {i1, i2}
    Requests = {r1, r2}
    Faults <- CallFaults
    Envs <- AllEnvs
    MaxCopies = 0
    Doubted = {}
    NoSnap = NoSnap
    NoGw = NoGw
    NoRow = NoRow
SPECIFICATION Spec
SYMMETRY Tasks
CONSTRAINT Bounds
INVARIANTS TypeOK UpIsServed NoLeftoversV4 StartedIsServed UniqueNames
PROPERTY NoResurrection
