SPECIFICATION FairSpec
CONSTANTS
    Connection = {c1, c2, c3}
    MaxListeners = 2
    Limit = 1
    Signals = {1, 3, 15}
    Times = {1, 2}
    CounterMod = 8
    MaxErrors = 1
    NoId = NoId
INVARIANT TypeOK
INVARIANT RouterOutlivesTasks
INVARIANT MsgIdUnique
INVARIANT AcceptNeverBlocks
PROPERTY OneListenerServed
PROPERTY StopHonoured
