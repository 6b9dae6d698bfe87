SPECIFICATION Spec
CONSTANTS
    Files = {f1}
    Vals = {v1, v2}
    Seals = {s1, s2, s3}
    NoSeal = NoSeal
    MaxKey = 3
    MaxCrashes = 2
    LegacyFiles = {}
    Admit = {"write meets walk"}
INVARIANT ContentSurvives
SYMMETRY SealSymmetry
