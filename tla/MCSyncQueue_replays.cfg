SPECIFICATION Spec
CONSTANTS
    Request = {r1, r2, r3, r4}
    Fd = {f1, f2, f3}
    Method = {"Get", "Post", "Put"}
    MaxOf <- Mix
    LimitSize = 0
    Manners = {FALSE}
    NoRequest = NoRequest
    NoFd = NoFd
SYMMETRY Symmetry
INVARIANT OneReplyPerClient
