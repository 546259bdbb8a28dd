CONSTANTS
    Clis = {c1, c2}
    Files = {f1, f2}
    MasterKeys = {k1, k2}
    MaxVersion = 2
    MaxRestores = 2
    Torn = Torn
    Missing = Missing
SPECIFICATION Spec
SYMMETRY BackupSymmetry
INVARIANTS TypeOK NothingLost
PROPERTY BackupIsCurrent
