SPECIFICATION Spec
CONSTANTS
    Name = {"intro"}
    AuthoredSuffix = {0, 2}
    MaxInclusions = 2
    MaxElements = 2
INVARIANTS
    CountsAreLive
    IdsApart
    NameKept
    NoMarkLeft
PROPERTIES
    RejectRestores
