SPECIFICATION Spec
CONSTANTS
    mail = mail
    bank = bank
    Ids = {mail}
    Own = Own
    Foreign = Foreign
    None = None
    Retention = 2
    MaxTime = 3
INVARIANTS TypeOK WholeVaultOpens BackupIsASnapshot
PROPERTIES PreviousIsKept OnlySavesChange BackupSurvives
CONSTRAINT WholeOrNew
