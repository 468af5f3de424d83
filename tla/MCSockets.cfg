\* Two SocketSinks for one SocketSource, with every fault.
SPECIFICATION FairSpec
CONSTANTS
    Sink = {"x", "y"}
    Loads <- MCLoads
    Retries = 2
    WireCapacity = 2
    Faults = {"abort", "listen", "break"}
    EOF = EOF
    Nil = Nil
INVARIANTS
    PipelinesOK
    EofMeansComplete
PROPERTIES
    StreamsEnd
    WaitReturns
\* A SocketSource that nobody connects to waits for ever.
CHECK_DEADLOCK FALSE
