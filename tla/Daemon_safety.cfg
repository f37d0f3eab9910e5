\* The mock build, which asks for no PIN: an assertion is one step shorter.
SPECIFICATION OpenSpec
CONSTANTS
    mail = mail
    bank = bank
    Ids = {mail, bank}
    u1 = u1
    u2 = u2
    Unlockers = {u1, u2}
    Reasserter = Reasserter
    Free = Free
    NoKey = NoKey
    VaultKey = VaultKey
    Keys = {VaultKey}
    Timeout = 1
    Prompts = 1
    Asked = {"unlock", "touch", "use", "edit", "save", "delete"}
    MaxRequests = 1
    MaxEvents = 9
    MaxAnswers = 0
    PinRequired = FALSE
    BindOutcomes = {"granted", "refused"}
CONSTRAINT JustInTime
ACTION_CONSTRAINTS TakenAtOnce RegisteredFirst
CHECK_DEADLOCK FALSE
SYMMETRY Symmetry
INVARIANTS OpenTypeOK ClaimHasOneOwner
PROPERTIES RevealsOnlyUnlocked DeleteNeedsItsAssertion
