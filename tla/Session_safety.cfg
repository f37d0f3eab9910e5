\* Two processes, a secret, an outer key that may be replaced, and two authenticators
\* besides the first, so that overlapping enrollments may add different ones.
SPECIFICATION Spec
CONSTANTS
    NoKey = NoKey
    Unopened = Unopened
    NoContent = NoContent
    VaultKey = VaultKey
    Keys = {VaultKey}
    MachineKey = MachineKey
    OtherMachine = OtherMachine
    OuterKeys = {MachineKey, OtherMachine}
    p1 = p1
    p2 = p2
    Procs = {p1, p2}
    id1 = id1
    id2 = id2
    Ids = {id1}
    old = old
    new = new
    Contents = {old, new}
    primary = primary
    backup = backup
    FirstCred = primary
    spare = spare
    Creds = {primary, backup, spare}
    Timeout = 2
INVARIANTS TypeOK KeysMatchVault RowsReadable EnrollmentsOpen
PROPERTIES PlaintextNeedsUnlock ImplementsStore
SYMMETRY Symmetry
