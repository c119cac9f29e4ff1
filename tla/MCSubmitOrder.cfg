\* Two orders, two keys for each actor, two revisions of the policy.
CONSTANTS
    Actors = {"alice", "bob"}
    Auditor = Auditor
    Operator = Operator
    NoRole = NoRole
    Orders = {1, 2}
    Lines = {1, 2, 3}
    Drafts <- MCDrafts
    Keys = {"k", "m"}
    BadKey = ""
    Notes = {"n", " n", "long"}
    Trim <- MCTrim
    Bounded = {"n", " n"}
    Kept = Kept
    Quantities = {1, 2}
    Ruled = {1}
    Typed = {0, 1, Unparsable}
    Unparsable = Unparsable
    MaxPatches = 2
    OtherRequests <- MCOther
    MaxRevision = 2
    None = None
SPECIFICATION Spec
INVARIANTS
    SandboxIsExplained
    RetryIsReplayed
    HiddenIsAbsent
