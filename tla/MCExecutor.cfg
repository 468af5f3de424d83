\* Two workers; a task that schedules another one and sets a timer; another
\* thread that calls schedule, before or after Stop.
SPECIFICATION FairSpec
CONSTANTS
    main = main
    other = other
    ThreadNum = 2
    QueueSize = 1
    Task = {"a", "b", "d", "x"}
    Spawns <- MCSpawns
    Delayed = {"d"}
    Caller = {main, other}
    Calls <- MCCalls
    Stopper = main
    Timer = timer
    Nil = Nil
INVARIANTS
    TypeOK
    NoTaskLostOrRepeated
    NoLostNotify
    StopRunsEverything
PROPERTIES
    TasksRunAndStopReturns
\* The threads come to their ends, and the executor rests.
CHECK_DEADLOCK FALSE
