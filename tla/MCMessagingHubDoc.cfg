\* What the documentation says of a queued message.
CONSTANTS
    Users = {u1}
    Connections = {c1}
    Messages = {m1}
    None = None
    Ttl = 1
    MaxTime = 0
SPECIFICATION Spec
INVARIANTS
    ReplayedBeforeRemoved
