\* A window with two requests to make, retried and recovered under two credentials.
CONSTANTS
    Pks <- MCPks
    Intents <- MCIntents
    Records = {"o1"}
    States = {"draft", "submitted"}
    Vals = {1}
    From <- MCFrom
    To <- MCTo
    Terminal = {}
    Guard <- MCGuard
    CheckedVals = {1}
    NoInput = 0
    BootFacts <- MCBootFacts
    Actors = {"alice", "bob"}
    NoCredential = NoCredential
    Keys = {k1, k2}
    OtherPks <- MCOtherPks
    Tasks = {t1, t2}
    None = None
SYMMETRY Symmetry
SPECIFICATION Spec
INVARIANTS
    BusyIsOneCurrentTask
    NothingForgotten
    AtMostOnce
    ReceiptIsTrue
    NothingStale
