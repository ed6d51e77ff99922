SPECIFICATION FairSpec
CONSTANTS
    Connection = {c1, c2}
    MaxListeners = 2
    Limit = 1
    Signals = {}
    Times = {1}
    CounterMod = 8
    MaxErrors = 0
    NoId = NoId
PROPERTY EveryListenerServed
\* The main thread may wait in accept() for a client that never comes.
CHECK_DEADLOCK FALSE
