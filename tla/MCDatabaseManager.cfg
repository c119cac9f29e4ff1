\* Every bootstrap may be dropped at any point, and the server restarts once.
CONSTANTS
    Bootstraps = {"b1", "b2", "b3", "b4"}
    Ids = {"default", "x", "y"}
    Databases = {"pd", "px"}
    DefaultId = "default"
    DefaultDatabase = "pd"
    Target <- MCTarget
    Policy <- MCPolicy
    Scripts <- MCScripts
    MaxRestarts = 1
    None = None
SPECIFICATION Spec
INVARIANTS
    NobodyRegistersTwice
    EntryTellsWhatRan
    FailPolicyBuildsAnew
\* Every bootstrap has been answered or dropped.
CHECK_DEADLOCK FALSE
