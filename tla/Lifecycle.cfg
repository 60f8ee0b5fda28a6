INIT Init
NEXT Next
CONSTANTS
    MaxStarts = 3
    MaxRuns = 2
    MaxEpochs = 2
    MaxTickets = 2
    Connections = {1, 2}
    Archives = 2
    FileRecords = 1
    WaitingCapacity = 2
    MaxRecords = 4
    MaxProcesses = 2
    Listeners = 3
    op = op
    inquirer = inquirer
    drainer = drainer
    w = w
    none = none
    login = login
    query = query
    Holders = {w}
    NoCommand = none
    Clients = {op, inquirer, drainer}
    Requests <- MCRequests
    Inquirer = inquirer
    Drainer = drainer
    MaxConnections = 2
    Readers = {r1}
    QueryScopes <- MCQueryScopes
    QueryLimit = 1
    Visitors = {1, 2}
    EventIds = {1, 2}
    LastInstant = 2
    MaxChanges = 4
    MaxDatasets = 2
    Categories = {login, query}
    RateKeys = {"a", "b", "c"}
    PerKey <- MCPerKey
    InAll <- MCInAll
    MaxKeys <- MCMaxKeys
    MinuteLength = 1
    LastReading = 1
    Uploads = {1, 2}
    MaxReaders = 1
    MaxBody = 2
CONSTRAINTS
    StartsRunsAndTickets
    LogsOrDrain
INVARIANTS
    EpochsHaveOneWriter
    ProcessClosesInOrder
    LogIsFaithful
    ListenerIsReached
    ExchangesAreHonest
    ListingsAreTrue
    AllowancesHold
    ReadersAreCounted
CHECK_DEADLOCK FALSE
