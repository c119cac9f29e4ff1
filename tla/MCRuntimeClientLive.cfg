\* One request: smaller, for liveness, and without symmetry.
CONSTANTS
    Pks <- MCPks
    Intents <- MCIntents
    Records = {"o1"}
    States = {"draft", "submitted"}
    Vals = {1}
    From <- MCFrom
    To <- MCTo
    Terminal = {}
    Guard <- MCGuard
    CheckedVals = {1}
    NoInput = 0
    BootFacts <- MCBootFacts
    Actors = {"alice", "bob"}
    NoCredential = NoCredential
    Keys = {k1}
    OtherPks <- MCOtherPks
    Tasks = {t1, t2}
    None = None
SPECIFICATION FairSpec
PROPERTIES
    Settles
