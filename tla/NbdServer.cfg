SPECIFICATION Spec
CONSTANTS
    r1 = r1
    r2 = r2
    Reads = {r1, r2}
    Configure = Configure
    MaxErrors = 2
INVARIANTS
    AnswersHold
    InStep
PROPERTIES
    AnsweredOrEnded
    ServerEnds
