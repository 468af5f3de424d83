\* Which variables the threads use after the constructor has returned.
SPECIFICATION Spec
CONSTANTS
    Worker = {w1, w2}
    Timer = timer
    Nil = Nil
INVARIANTS
    InitFinished
CHECK_DEADLOCK FALSE
