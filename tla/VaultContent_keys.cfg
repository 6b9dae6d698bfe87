SPECIFICATION Spec
CONSTANTS
    Files = {f1}
    Vals = {v1}
    Seals = {s1, s2, s3}
    NoSeal = NoSeal
    MaxKey = 3
    MaxCrashes = 2
    LegacyFiles = {}
    Admit = {"write meets walk", "leftover unsettled", "commit in doubt", "emptying cut short", "repair cut short", "directory sync fails"}
INVARIANT KeyHeld
INVARIANT KeyInv
SYMMETRY SealSymmetry
