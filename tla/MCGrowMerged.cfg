\* A merged pipeline is extended.
SPECIFICATION Spec
CONSTANTS
    Pipelines = {"a", "b"}
    ChannelSize = 1
    MaxNodes = 6
    MaxBranches = 2
    Unusual = {"grow_merged"}
INVARIANTS
    QueuesHoldSomething
\* The bound on the processors ends every behaviour.
CHECK_DEADLOCK FALSE
