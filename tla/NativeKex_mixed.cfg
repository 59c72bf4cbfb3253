\* A debug build and a release build whose exchanges cross.
SPECIFICATION Spec
CONSTANTS
    Alice = Alice
    Bob = Bob
    Versions <- Mixed
    Modes = {"native"}
    Typists = {Alice, Bob}
    MaxMsg = 2
    MaxDisturb = 1
    Disturbances = {"init", "deinit", "mode", "restart", "status"}
    MaxKey = 6
INVARIANTS
    ContextFitsMode
CHECK_DEADLOCK FALSE
