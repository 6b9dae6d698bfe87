SPECIFICATION Spec
CONSTANTS
    Files = {f1}
    Vals = {v1, v2}
    Seals = {s1, s2, s3}
    NoSeal = NoSeal
    MaxKey = 3
    MaxCrashes = 2
    LegacyFiles = {f1}
    Admit = {"seal spans rotation", "prepare meets finish", "prepares race"}
INVARIANT TypeOK
INVARIANT ContentSurvives
INVARIANT ContentInv
INVARIANT CopiesAgree
PROPERTY ImplementsContentStore
SYMMETRY SealSymmetry
