SPECIFICATION Spec
CONSTANTS
    Tasks = {t1, t2, t3, t4, t5}
    NoTask = NoTask
    Engines = {e1, e2}
    NoEngine = NoEngine
    Callers = {c1}
    Loop = Loop
    MaxCalls = 2
    S3 = TRUE
    Admit = {"pass fails", "start fails", "vault retires", "engine changes", "sync switched", "mark expires"}
INVARIANT TypeOK
INVARIANT OneLeaseHolder
INVARIANT InOnePlace
SYMMETRY Symmetric
