\* All nets.  The abort channel holds less than there are exceptions.
SPECIFICATION FairSpec
CONSTANTS
    Node <- MCNode
    Channel = {1, 2, 3, 4, 5, 6}
    Pipeline = {"p", "q"}
    Nets <- AllNets
    AbortCapacity = 1
    EOF = EOF
    Nil = Nil
INVARIANTS
    TypeOK
    PortsInUseAreOpen
    EofAccounting
    NothingAfterLastEof
    AbortPersists
    AbortTokensFromThrows
    DeliveredInOrder
    DeliveredOnce
PROPERTIES
    RunReturns
\* A run comes to its end, and stops there.
CHECK_DEADLOCK FALSE
