\* Two contacts of the same version, or of which one has an older version; two
\* messages typed by either, and one disturbance at any time.
SPECIFICATION LiveSpec
CONSTANTS
    Alice = Alice
    Bob = Bob
    Versions <- Same
    Modes = {"native"}
    Typists = {Alice, Bob}
    MaxMsg = 2
    MaxDisturb = 1
    Disturbances = {"init", "deinit", "mode", "restart", "status"}
    MaxKey = 6
INVARIANTS
    TypeOK
    KeysAgree
    ModesAgree
    ContextFitsMode
PROPERTIES
    MessagesReturn
    ExchangeSucceeds
CHECK_DEADLOCK FALSE
