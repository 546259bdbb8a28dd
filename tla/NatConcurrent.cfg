CONSTANTS
    Wgs = {wg0, wg1}
    Gateways = {eth0}
    Calls = {c1, c2}
    Families <- V4Only
    Faults <- SysctlFaults
    MaxCopies = 0
    Doubted = {}
    NoSnap = NoSnap
    Free = Free
SYMMETRY Threads
SPECIFICATION Spec
INVARIANTS TypeOK BootForwardingKept RuleCopiesBounded
