SPECIFICATION Spec
CONSTANTS
    note = note
    Name <- Names
    RootLabels <- AnyLabels
    ChildLabels <- AnyLabels
    MaxDocuments = 2
    MaxLevel = 3
    BlockDirectives = 1
    NoteDirectives = 1
INVARIANTS
    BindsAsWritten
    OwnKept
