SPECIFICATION Spec
CONSTANTS
    Request = {r1, r2, r3, r4, r5}
    Fd = {f1, f2, f3}
    Method = {"Get", "Post", "Put", "Head", "Other"}
    MaxOf <- Mix
    LimitSize = 2
    Manners = {TRUE, FALSE}
    NoRequest = NoRequest
    NoFd = NoFd
SYMMETRY Symmetry
INVARIANT TypeOK
INVARIANT Partition
INVARIANT ReplyToItsClient
INVARIANT PoliteOneReply
INVARIANT AckMeansForwarded
INVARIANT DeliveredOnce
INVARIANT NoConnectionLeak
INVARIANT PostSettlesClient
PROPERTY ImplementsChannel
