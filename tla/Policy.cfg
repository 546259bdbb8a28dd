CONSTANTS
    Savers = {a1, a2}
    Words = {w0, w1, q, p}
    Special = {q}
    Bare = w1
    Padded = p
    Trimmed <- TrimPadded
    Base = w0
    MaxDepth = 0
    Unset = Unset
    Logins = {l1, l2, l3}
    Limit <- TwoLimits
    MaxLimit = 3
    LockoutSecs = 2
    NoBan = NoBan
    Envs <- PolicyEnvs
SPECIFICATION LockoutSpec
SYMMETRY PolicySymmetry
INVARIANTS LockoutTypeOK CountIsExact LocksAtMax LiveWasCommitted
PROPERTIES LockNotShortened SoloSaveLands
