CONSTANTS
    Users = {u1, u2}
    Secrets = {k1, k2}
    Sessions = {s1, s2}
    Tokens = {t1, t2}
    Reqs = {r1, r2}
    None = None
    Envs <- AllEnvs
SPECIFICATION Spec
SYMMETRY Renaming
INVARIANTS TypeOK TotpUsable SetupClosed SecondFactor SpentTokenRefused LogoutSticks
