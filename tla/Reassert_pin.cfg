\* A deletion on an authenticator with a PIN.
SPECIFICATION Spec
CONSTANTS
    mail = mail
    bank = bank
    Ids = {mail}
    u1 = u1
    u2 = u2
    Unlockers = {u1}
    Reasserter = Reasserter
    Free = Free
    NoKey = NoKey
    VaultKey = VaultKey
    Keys = {VaultKey}
    Timeout = 1
    Prompts = 1
    Asked = {"delete", "pin"}
    MaxRequests = 1
    MaxEvents = 1
    PinRequired = TRUE
    BindOutcomes = {}
CHECK_DEADLOCK FALSE
INVARIANTS ReassertionGetsItsPin
