\* A portal that refuses the shortcut.
SPECIFICATION Spec
CONSTANTS
    mail = mail
    bank = bank
    Ids = {mail}
    u1 = u1
    u2 = u2
    Unlockers = {u1}
    Reasserter = Reasserter
    Free = Free
    NoKey = NoKey
    VaultKey = VaultKey
    Keys = {VaultKey}
    Timeout = 1
    Prompts = 1
    Asked = {"unlock"}
    MaxRequests = 1
    MaxEvents = 1
    PinRequired = FALSE
    BindOutcomes = {"refused"}
CHECK_DEADLOCK FALSE
INVARIANTS RefusedShortcutIsNotFatal
