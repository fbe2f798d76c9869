SPECIFICATION ReportSpec
CONSTANTS
    OtherRule = {"include-cycle", "include-unresolved"}
    MaxWarnings = 2
    MaxEvents = 6
INVARIANTS
    ToldAsNamed
    OthersSurvive
