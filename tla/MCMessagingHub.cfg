\* One user, three connections: stale senders beside live ones.
CONSTANTS
    Users = {u1}
    Connections = {c1, c2, c3}
    Messages = {m1, m2}
    None = None
    Ttl = 1
    MaxTime = 1
SPECIFICATION FairSpec
INVARIANTS
    NobodyConnectedWaits
    Conserved
    OrderKept
PROPERTIES
    HandedOn
