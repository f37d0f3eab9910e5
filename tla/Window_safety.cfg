SPECIFICATION PromptWorkerSpec
CONSTANTS
    mail = mail
    bank = bank
    all = all
    some = some
    Ids = {mail, bank}
    Prompts = 1
    Asked = {"unlock", "touch", "use", "edit", "save", "delete", "pin"}
    MaxRequests = 1
    MaxEvents = 1
    Arrows = {"down"}
    Letters = {"n", "d"}
    MaxInput = 2
    Queries = {all, some}
    NoQuery = all
    Rank <- BestFirst
    Nothing = Nothing
CONSTRAINT OneForm
CHECK_DEADLOCK FALSE
INVARIANTS WindowTypeOK ListMatchesQuery RowIsSelected NoWindowOutlivesPopup StaleFrameIsOwed
PROPERTIES DeletionIsAskedFirst ImplementsPopup
