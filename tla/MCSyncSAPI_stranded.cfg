SPECIFICATION FairSpec
CONSTANTS
    Request = {r1, r2}
    Thread = {t1, t2}
    TasksLimits = {1}
    LimitSize = 0
    IntMod = 8
    RacyEmpty = FALSE
    NoRequest = NoRequest
PROPERTY EveryPutAnswered
