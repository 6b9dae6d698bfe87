SPECIFICATION FairSpec
CONSTANTS
    rs = rs
    rt = rt
    rg = rg
    rw = rw
    rf = rf
    Nobody = Nobody
    NoLimit = NoLimit
    Policies = {1, 2}
    Runs = {rs, rf}
    Overrides = {}
    Costs = {2, 3}
    Issues = {{}, {2}}
    MaxTime = 3
    MaxEdits = 1
    Kind <- MCKind
    Applies <- MCApplies
    InitialRows <- MCInitialRows
    EditedRows <- MCEditedRows
    Admit = {"crash", "unsettled"}
CHECK_DEADLOCK FALSE
INVARIANT TypeOK
INVARIANT SpendWithinLimit
PROPERTY PreflightDecides
