CONSTANTS
    Wgs = {wg0}
    Gateways = {eth0}
    Calls = {c1}
    Families <- Either
    Faults <- AllFaults
    MaxCopies = 2
    Doubted = {"masq"}
    NoSnap = NoSnap
    Free = Free
SPECIFICATION HSpec
PROPERTY PortSpec
VIEW PortView
