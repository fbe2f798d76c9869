SPECIFICATION Spec
CONSTANTS
    plain = plain
    expanded = expanded
    Target = {plain, expanded}
    TextOf <- Texts
    ExpansionOf <- Expansions
    NameOf <- Names
    Cost = {400000}
    Length = {1000, 150000}
    MaxNested = 2
INVARIANTS
    WithinBudget
    RefusedForGood
    SpentForGood
    IndexWithinBudget
