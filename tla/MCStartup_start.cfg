CONSTANTS
    HashLength = 2
    Numeral <- MCNumeral
    IntMax <- MCIntMax
    ULongMax <- MCULongMax
    HttpProtocol <- MCHttp
    Cores = 2
    Uri <- MCUri
    DefaultFile = "fiber.config"
    Input <- MCInput
SPECIFICATION Spec
INVARIANTS
    SectionsResolve
    ConfigMatchesFile
    LookupMatchesPattern
    OwnEndpointServes
    ServingIsComplete
    ServesAsDeclared
