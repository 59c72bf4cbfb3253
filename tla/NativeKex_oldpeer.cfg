\* A contact in a session keeps its key when an older version begins anew.
SPECIFICATION Spec
CONSTANTS
    Alice = Alice
    Bob = Bob
    Versions <- Old
    Modes = {"native"}
    Typists = {Alice, Bob}
    MaxMsg = 2
    MaxDisturb = 1
    Disturbances = {"init", "deinit", "mode", "restart", "status"}
    MaxKey = 6
INVARIANTS
    KeysAgreeOld
CHECK_DEADLOCK FALSE
