SPECIFICATION Spec
CONSTANTS
    r1 = r1
    r2 = r2
    Run = {r1, r2}
    Entries <- MCEntries
    Markdown <- MCMarkdown
    OutputOf <- MCOutputOf
    Report = "report"
    Inode = {1, 2, 3}
    MaxSwaps = 1
INVARIANTS
    PublishedWhole
    NothingLeft
    SameFile
PROPERTIES
    ForeignKept
