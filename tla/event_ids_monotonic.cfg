\* Three goroutines, two draws, two milliseconds.
SPECIFICATION Spec
CONSTANTS
    c1 = c1
    c2 = c2
    c3 = c3
    Callers = {c1, c2, c3}
    Draws <- SomeDraws
    FirstMs = 31
    LastMs = 32
    NoCaller = NoCaller
CHECK_DEADLOCK FALSE
INVARIANT Monotonic
