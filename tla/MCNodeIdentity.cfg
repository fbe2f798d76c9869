SPECIFICATION Session
CONSTANTS
    Char <- MCChar
    Width <- MCWidth
    Fingerprint <- MCFingerprint
    NoSpan = NoSpan
    Parse <- MCParse
    MaxChars = 3
    MaxChanges = 2
    MaxInsert = 1
    MaxId = 8
INVARIANTS
    IdsForGood
PROPERTIES
    KeptUntouched
    UntouchedKept
