\* Both buffers overflow, and three streams come and go.
CONSTANTS
    Streams = {s1, s2, s3}
    ChannelCapacity = 2
    QueueCapacity = 2
    MaxPublished = 5
SYMMETRY Symmetry
SPECIFICATION TopicSpec
INVARIANTS
    TypeOK
    NobodySubscribedWaits
    InOrder
    MissesOnlyOverwritten
\* A hub with no one publishing, subscribing or leaving rests.
CHECK_DEADLOCK FALSE
