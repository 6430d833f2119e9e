SPECIFICATION NetSpec
CONSTANTS
    Threads = {t1, t2, t3}
    Racers = {}
    Blocks = {b1, b2}
    NULL = NULL
INVARIANT TornDownCanBeReinited
