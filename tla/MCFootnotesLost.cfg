SPECIFICATION Spec
CONSTANTS
    note = note
    Name <- Names
    RootLabels <- OneLabel
    ChildLabels <- OneLabel
    MaxDocuments = 1
    MaxLevel = 2
    BlockDirectives = 1
    NoteDirectives = 1
INVARIANTS
    NoNoteLost
