SPECIFICATION FairSpec
CONSTANTS
    Files <- Tree
    Dirs <- Directories
    Requests <- TestCases
    Clients = {c1, c2}
    NoClient = NoClient
    NoRequest = NoRequest
    NoAnswer = NoAnswer
    InitialCapacity = 1
    MaxFds = 3
    SureThreads = 1
INVARIANTS
    TypeOK
    AnswersAsSpecified
    LostForAReason
    ServedByOne
    AcceptDoesNotBlock
PROPERTIES
    ImplementsWebService
    AskedIsAnswered
    ArrivalIsNoticed
CHECK_DEADLOCK FALSE
