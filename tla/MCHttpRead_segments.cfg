SPECIFICATION FairSpec
CONSTANTS
    Requests <- SomeRequests
    MaxLengths = {0, 3, 6}
    PartLengths = {0, 4}
INVARIANT TypeOK
INVARIANT ReadsPrefix
INVARIANT CompleteRequestParsed
PROPERTY ReadEnds
