SPECIFICATION Spec
CONSTANTS
    rs = rs
    rt = rt
    rg = rg
    rw = rw
    rf = rf
    Nobody = Nobody
    NoLimit = NoLimit
    Policies = {1}
    Runs = {rs, rt, rw}
    Overrides = {1}
    Costs = {2}
    Issues = {{}}
    MaxTime = 2
    MaxEdits = 0
    Kind <- MCKind
    Applies <- MCApplies
    InitialRows <- MCMonthlyRows
    EditedRows <- MCEditedRows
    Admit = {"crash", "outlive", "overrun", "let off"}
SYMMETRY Passes
CHECK_DEADLOCK FALSE
INVARIANT OverrideBacked
INVARIANT GrantedOnce
PROPERTY OverrideLifecycle
