SPECIFICATION FairSpec
CONSTANTS
    Files = {f1}
    Vals = {v1}
    Seals = {s1, s2, s3}
    NoSeal = NoSeal
    MaxKey = 3
    MaxCrashes = 1
    LegacyFiles = {}
    Admit = {}
PROPERTY RotationFinishes
INVARIANT Decidable
