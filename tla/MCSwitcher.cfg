\* Clients a and b may go away, the server may be stopped.
SPECIFICATION FairSpec
CONSTANTS
    Client = {"a", "b", "c", "d"}
    Topic = {"t", "u"}
    Value = {1, 2, 3}
    Plans <- AllPlans
    Leavers = {"a", "b"}
    MayStop = TRUE
    Nil = Nil
INVARIANTS
    TypeOK
    SocketsHaveOneOwner
    StreamsAligned
    NeverBothWaiting
PROPERTIES
    ImplementsRendezvous
    CallsSettle
\* The clients come to the end of their calls.
CHECK_DEADLOCK FALSE
