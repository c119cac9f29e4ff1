\* Two concurrent handlers, one authority change, six requests that collide.
CONSTANTS
    Actors = {"alice", "bob"}
    Roles = {"manager"}
    Grants = {"Read", "Write"}
    Bindings = {"store:t", "store:u"}
    Origins = {"web", "other"}
    NoOrigin = NoOrigin
    AccessFiles <- MCAccessFiles
    MaxGeneration = 1
    Handlers = {"h1", "h2"}
    Keys = {"k1", "k2"}
    Commands = {"submit", "approve", "amend"}
    CommandIds = {"submit", "approve", "amend", "ghost"}
    Records = {"o1", "o2"}
    RecordIds = {"o1", "o2", "o9"}
    States = {"draft", "submitted", "approved"}
    Vals = {1, 2, 3}
    NoInput = 0
    From <- MCFrom
    To <- MCTo
    Terminal = {"approved"}
    Guard <- MCGuard
    Inputs <- MCInputs
    CheckedVals = {1, 2}
    EventCount <- MCEventCount
    Owner <- MCOwner
    WriteRoles = {"manager"}
    BootFacts <- MCBootFacts
    StoreBinding = "store:t"
    Workload <- MCWorkload
    None = None
SPECIFICATION FairSpec
INVARIANTS
    Ledger
    AckDurable
    RefusalIsDefinite
    AuthorityAtCommit
    PolicyOnAudit
PROPERTIES
    ImplementsLog
    HandlersFinish
