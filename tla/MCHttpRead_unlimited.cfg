SPECIFICATION Spec
CONSTANTS
    Requests <- SomeRequests
    MaxLengths = {0, 6}
    PartLengths = {0, 4}
INVARIANT ZeroIsUnlimited
