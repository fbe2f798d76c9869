------------------------------ MODULE MCAstEditing ------------------------------
(* Small documents for AstEditing: up to three blocks of two kinds.          *)
EXTENDS AstEditing

P(hint, text) == [kind |-> "paragraph", hint |-> hint, text |-> text]
N(hint, text) == [kind |-> "note", hint |-> hint, text |-> text]

MCBases == {<<P(Absent, "t1"), P(Absent, "t2"), P(Absent, "t3")>>,
            <<N("x", "t1"), P(Absent, "t1"), N("y", "t2")>>}
MCInsertions == {P(Absent, "t1"), N("x", "t4")}
===============================================================================
