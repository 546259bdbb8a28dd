CONSTANTS
    Ifaces = {i1}
    PeerIds = {1, 2}
    Keys = {k1, k2}
    Hosts = {2, 3}
    Workers = {w1}
    Envs <- BackgroundEnvs
    Quota = 2
    MaxBytes = 3
    Blank = Blank
    NoPeer = NoPeer
    NoLink = NoLink
SPECIFICATION FairSpec
INVARIANTS PollerTypeOK NotOvercounted
PROPERTIES QuotaEnforced ScheduleEnforced NoResurrection
