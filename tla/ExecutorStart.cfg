\* The timer thread and three workers.
SPECIFICATION FairSpec
CONSTANTS
    Worker = {w1, w2, w3}
    Timer = timer
    Nil = Nil
PROPERTIES
    ConstructorReturns
\* The constructor returns and the threads go on elsewhere.
CHECK_DEADLOCK FALSE
