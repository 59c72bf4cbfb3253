\* The user changes the mode while a message of the old session is on its way.
SPECIFICATION Spec
CONSTANTS
    Alice = Alice
    Bob = Bob
    Versions <- Same
    Modes = {"native"}
    Typists = {Alice, Bob}
    MaxMsg = 2
    MaxDisturb = 1
    Disturbances = {"init", "deinit", "mode", "restart", "status"}
    MaxKey = 6
INVARIANTS
    ContextFitsChosenMode
CHECK_DEADLOCK FALSE
