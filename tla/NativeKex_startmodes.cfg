\* Two debug builds whose contacts start in different modes.
SPECIFICATION Spec
CONSTANTS
    Alice = Alice
    Bob = Bob
    Versions <- Newpg
    Modes = {"native", "rsa"}
    Typists = {Alice, Bob}
    MaxMsg = 3
    MaxDisturb = 1
    Disturbances = {"restart"}
    MaxKey = 7
INVARIANTS
    ModesAgree
CHECK_DEADLOCK FALSE
