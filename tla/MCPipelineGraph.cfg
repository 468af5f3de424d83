\* Everything that can be assembled with five more processors, a MergePipeline
\* with two sinks and two sources included, or with four more after one.
SPECIFICATION MCSpec
CONSTANTS
    Pipelines = {"a", "b"}
    ChannelSize = 1
    MaxNodes = 9
    MaxBranches = 2
    Unusual = {"grow_merged"}
INVARIANTS
    TypeOK
    LeavesAreUnconnected
    EdgesAreQueues
    InputCountIsWriters
    OneReaderPerQueue
    CompletedCanRun
\* The bound on the processors ends every behaviour.
CHECK_DEADLOCK FALSE
