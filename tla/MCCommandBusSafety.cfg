CONSTANTS
    p1 = p1
    p2 = p2
    t1 = t1
    t2 = t2
    NoTask = NoTask
    Publishers <- TwoPublishers
    StreamTasks <- TwoTasks
    QueueCapacity = 2
    ChannelCapacity = 2
    ProcessedCapacity = 3
    MaxSequence = 3
    MaxIncarnations = 2
    MaxDisruptions = 1
SPECIFICATION Spec
SYMMETRY Symmetry
INVARIANT NoUnexplainedLoss
INVARIANT AppliedAtMostOnce
CHECK_DEADLOCK FALSE
