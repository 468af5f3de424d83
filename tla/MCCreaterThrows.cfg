\* The creater of AddTransform throws.
SPECIFICATION Spec
CONSTANTS
    Pipelines = {"a", "b"}
    ChannelSize = 1
    MaxNodes = 4
    MaxBranches = 2
    Unusual = {"creater_throws"}
INVARIANTS
    LeavesAreUnconnected
\* The bound on the processors ends every behaviour.
CHECK_DEADLOCK FALSE
