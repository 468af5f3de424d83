\* The branches of a fork concatenated, with one item more than fits; the sink
\* may throw.
SPECIFICATION Spec
CONSTANTS
    Node <- MCNode
    Channel = {1, 2, 3, 4, 5, 6}
    Pipeline = {"p", "q"}
    Nets <- TightNet
    AbortCapacity = 1
    EOF = EOF
    Nil = Nil
INVARIANTS
    HostedNeverStuck
\* A run comes to its end, and stops there.
CHECK_DEADLOCK FALSE
