CONSTANTS
    r1 = r1
    r2 = r2
    c1 = c1
    c2 = c2
    ReadTasks = {r1}
    Callers = {c1}
    DiscoverTask = discover
    TaskThread = taskThread
    PMThread = pmThread
    StopThread = stopThread
    NoTask = noTask
    NoThread = noThread
    QueueHead = queueHead
    MaxCalls = 1
    MaxSuspends = 0
    MayStop = FALSE
SPECIFICATION FairSpec
CHECK_DEADLOCK FALSE
PROPERTIES EveryReadProcessed
