\* Three coroutines with every mixture of operations: two sleepers on one
\* condition variable, a notified coroutine overtaken by a Try operation.
SPECIFICATION FairSpec
CONSTANTS
    Clients = {c1, c2, c3}
    Capacity = 2
    Nil = Nil
    MaxOps = 2
    Workloads <- MixedWorkloads
INVARIANTS
    TypeOK
    MutualExclusion
    FifoOrder
    NoLostFilledWakeup
    NoLostEmptyWakeup
PROPERTIES
    ImplementsFifo
    EventuallySettles
    AllServed
\* A Pop nobody pushes for waits for ever, and so does a Push nobody pops for.
CHECK_DEADLOCK FALSE
