SPECIFICATION FairSpec
CONSTANTS
    Tasks = {t1, t2, t3}
    NoTask = NoTask
    Engines = {e1}
    NoEngine = NoEngine
    Callers = {c1}
    Loop = Loop
    MaxCalls = 2
    S3 = TRUE
    Admit = {"sync switched"}
PROPERTY RunNowServed
PROPERTY RegularPassRuns
