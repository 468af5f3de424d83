\* Bytes arrive one by one, in threes, in hundreds, or all at once.
SPECIFICATION Spec
CONSTANTS
    Streams <- MCStreams
    Portions = {1, 3, 100, 1000}
    MayCut = TRUE
INVARIANTS
    RoundTrip
\* The reader comes to the end of the stream.
CHECK_DEADLOCK FALSE
