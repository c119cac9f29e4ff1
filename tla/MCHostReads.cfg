\* Readers share nothing, so one will do: three changes of authority, two of the rows.
CONSTANTS
    Actors = {"alice", "bob"}
    Roles = {"auditor", "manager"}
    Grants = {"Read", "Write"}
    Bindings = {"store:t"}
    Origins = {}
    NoOrigin = NoOrigin
    AccessFiles <- MCAccessFiles
    MaxGeneration = 3
    Readers = {"h1"}
    Records = {"o1", "o2"}
    States = {"draft", "submitted"}
    Commands = {"submit", "approve"}
    From <- MCFrom
    Owner <- MCOwner
    ReadRoles = {"auditor"}
    WriteRoles = {"manager"}
    MaxRevision = 3
    None = None
SPECIFICATION Spec
INVARIANTS
    DisclosesWhatIsVisible
    OffersWhatIsAllowed
\* Every handler has answered and nothing changes any more.
CHECK_DEADLOCK FALSE
