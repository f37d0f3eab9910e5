SPECIFICATION Spec
CONSTANTS
    Texts <- ThreeTexts
    Tokens = 2
    MaxTimers = 2
    NoToken = NoToken
INVARIANTS TypeOK AsWritten ConsentIsRemembered
PROPERTIES ClipboardEmpties
