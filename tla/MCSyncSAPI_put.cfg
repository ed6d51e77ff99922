SPECIFICATION FairSpec
CONSTANTS
    Request = {r1, r2, r3}
    Thread = {t1, t2, t3}
    TasksLimits = {0, 1, 2, 4}
    LimitSize = 2
    IntMod = 8
    RacyEmpty = TRUE
    NoRequest = NoRequest
INVARIANT TypeOK
INVARIANT WorkersCounted
PROPERTY ImplementsChannel
INVARIANT ThreadPerMessage
PROPERTY UnlimitedPutAnswered
