CONSTANTS
    wa = wa
    wb = wb
    wk = wk
    Cite = Cite
    Ref = Ref
    Word <- MCWord
    Document <- MCDocument
    Inner <- MCInner
    Added <- MCAdded
    Plan <- MCPlan

SPECIFICATION Spec

INVARIANTS
    HandedApart
    ShownApart
    SeedForetells
    PassesAgree
    IndexAgrees

PROPERTIES
    NamespaceImplemented
