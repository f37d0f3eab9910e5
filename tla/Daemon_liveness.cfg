\* A deletion stands for the three requests that reassert.  Two slots, so that an
\* unlock may start while the thread of the last one still reports.
SPECIFICATION FullSpec
CONSTANTS
    mail = mail
    bank = bank
    Ids = {mail}
    u1 = u1
    u2 = u2
    Unlockers = {u1, u2}
    Reasserter = Reasserter
    Free = Free
    NoKey = NoKey
    VaultKey = VaultKey
    Keys = {VaultKey}
    Timeout = 1
    Prompts = 1
    Asked = {"use", "delete", "pin"}
    MaxRequests = 1
    MaxEvents = 9
    MaxAnswers = 1
    PinRequired = TRUE
    BindOutcomes = {}
ACTION_CONSTRAINTS TakenAtOnce SentInTime FirstSlot SentAtOnce
CHECK_DEADLOCK FALSE
INVARIANTS OnePromptAtATime
PROPERTIES WorkerComesBack UnlockEnds IdleRelocks WaitingIsShownNoLonger
