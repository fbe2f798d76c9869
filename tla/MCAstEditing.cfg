CONSTANTS
    Kinds = {"paragraph", "note"}
    Hints = {"x", "y"}
    Texts = {"t1", "t2", "t3", "t4"}
    Absent = Absent
    MaxPairings = 3
    Bases <- MCBases
    Insertions <- MCInsertions
    Rewrites = {"t3", "t4"}
    Answers = {"base", "ours", "theirs"}
    MaxEdits = 3
    MaxProposed = 2
    MaxReviews = 2

SPECIFICATION Spec

INVARIANTS
    NothingLost
    NothingBack
    OrderKept
    WritersAgree

PROPERTIES
    Turns
