------------------------------- MODULE AstEditing -------------------------------
(***************************************************************************)
(* Two writers edit copies of a document, the copies are merged            *)
(* (src/ast_merge.rs), and what the merge changes is offered to the first  *)
(* writer as a patch to accept or to reject (src/ast_patch.rs), while the  *)
(* copy it was made for may change again.                                  *)
(***************************************************************************)
EXTENDS AstMerge

CONSTANTS
    Bases,          \* the documents the writers start from
    Insertions,     \* the blocks the writers insert
    Rewrites,       \* the texts they write
    Answers,        \* what resolvers answer
    MaxEdits,       \* bound: how many edits the writers make before the merge
    MaxProposed,    \* bound: of how many edits a merge is put to review
    MaxReviews      \* bound: how many steps the review takes

ASSUME WritersAssumption ==
    Bases \subseteq Seq(Block) /\ Insertions \subseteq Block /\ Rewrites \subseteq Texts
ASSUME AnswersAssumption == Answers \subseteq Answer

VARIABLES
    base,           \* the document both started from
    ours, theirs,   \* the copies: blocks with the base block each began as, or 0
    edits,          \* the edits so far
    answer,         \* the resolver of the merge
    merged,         \* what the merge returned to the first writer
    mirrored,       \* and to the other one
    patch,          \* the patch under review
    copy,           \* the first writer's document during the review
    reviews         \* the steps of the review so far

Patches == INSTANCE AstPatch

vars == <<base, ours, theirs, edits, answer, merged, mirrored, patch, copy, reviews>>

Blocks(side) == [i \in DOMAIN side |-> side[i].block]
Nothing == [value |-> Absent, conflicts |-> {}]
Pending == merged = Nothing

Init ==
    /\ base \in Bases
    /\ ours = [i \in DOMAIN base |-> [from |-> i, block |-> base[i]]]
    /\ theirs = ours
    /\ edits = 0 /\ reviews = 0
    /\ answer = "none"
    /\ merged = Nothing /\ mirrored = Nothing
    /\ patch = Patches!NoPatch
    /\ copy = << >>

\* What one writer calls ours the other calls theirs.
Mirrored(with) == CASE with = "ours" -> "theirs" [] with = "theirs" -> "ours" [] OTHER -> with

\* A block with another text, or another hint.
Rewritten(block) ==
    {[block EXCEPT !.text = text] : text \in Rewrites}
        \cup {[block EXCEPT !.hint = hint] : hint \in Hints \cup {Absent}}

\* One edit of a copy: of a field, or a removal, an insertion or a move.
Edited(side) ==
    (UNION {{ReplaceAt(side, i, [from |-> side[i].from, block |-> block]) :
                 block \in Rewritten(side[i].block)} : i \in DOMAIN side})
    \cup {RemoveAt(side, i) : i \in DOMAIN side}
    \cup {InsertAt(side, i, [from |-> 0, block |-> block]) : i \in 1..(Len(side) + 1), block \in Insertions}
    \cup {InsertAt(RemoveAt(side, i), j, side[i]) : i, j \in DOMAIN side}

OursEdits ==
    /\ Pending /\ edits < MaxEdits
    /\ ours' \in Edited(ours) \ {ours}
    /\ edits' = edits + 1
    /\ UNCHANGED <<base, theirs, answer, merged, mirrored, patch, copy, reviews>>

TheirsEdits ==
    /\ Pending /\ edits < MaxEdits
    /\ theirs' \in Edited(theirs) \ {theirs}
    /\ edits' = edits + 1
    /\ UNCHANGED <<base, ours, answer, merged, mirrored, patch, copy, reviews>>

\* Both writers merge, each with its own copy as "ours", and answer alike.
MergeBoth(with) ==
    \E om \in {MatchSide(base, Blocks(ours))}, tm \in {MatchSide(base, Blocks(theirs))} :
        /\ merged' = MergeAst(base, Blocks(ours), Blocks(theirs), om, tm, with)
        /\ mirrored' = MergeAst(base, Blocks(theirs), Blocks(ours), tm, om, Mirrored(with))

Merge ==
    /\ Pending
    /\ MergeBoth("none")
    /\ UNCHANGED <<base, ours, theirs, edits, answer, patch, copy, reviews>>

\* Where there are conflicts, the caller merges again with a resolver.
MergeWithResolver ==
    /\ merged.conflicts # {}
    /\ answer' \in Answers
    /\ MergeBoth(answer')
    /\ UNCHANGED <<base, ours, theirs, edits, patch, copy, reviews>>

Propose ==
    /\ merged.value # Absent /\ patch = Patches!NoPatch /\ edits <= MaxProposed
    /\ patch' = Patches!Reversible(Blocks(ours), merged.value)
    /\ copy' = Blocks(ours)
    /\ UNCHANGED <<base, ours, theirs, edits, answer, merged, mirrored, reviews>>

\* A refused patch leaves the document as it is.
Review(inverse) ==
    /\ patch # Patches!NoPatch /\ reviews < MaxReviews
    /\ LET applied == Patches!ApplyReversible(copy, patch, inverse)
       IN  copy' = IF applied = Patches!Refused THEN copy ELSE applied
    /\ reviews' = reviews + 1
    /\ UNCHANGED <<base, ours, theirs, edits, answer, merged, mirrored, patch>>

\* The writer goes on while the patch is open.
Meanwhile ==
    /\ patch # Patches!NoPatch /\ reviews < MaxReviews
    /\ copy' \in {RemoveAt(copy, i) : i \in DOMAIN copy} \cup {Blocks(theirs)}
    /\ reviews' = reviews + 1
    /\ UNCHANGED <<base, ours, theirs, edits, answer, merged, mirrored, patch>>

Done == ~Pending /\ (patch = Patches!NoPatch \/ reviews = MaxReviews) /\ UNCHANGED vars

Next ==
    \/ OursEdits \/ TheirsEdits \/ Merge \/ MergeWithResolver
    \/ Propose \/ (\E inverse \in BOOLEAN : Review(inverse)) \/ Meanwhile \/ Done

Spec == Init /\ [][Next]_vars

-----------------------------------------------------------------------------
(* Properties *)

Unasked == ~Pending /\ answer = "none" /\ merged.conflicts = {}
All(doc, field) == {doc[i][field] : i \in DOMAIN doc} \ {Absent}
Copies(doc, block) == Cardinality({i \in DOMAIN doc : doc[i] = block})
PlaceOf(doc, block) == CHOOSE i \in DOMAIN doc : doc[i] = block
Ahead(doc, u, v) == PlaceOf(doc, u) < PlaceOf(doc, v)

\* Nothing new a writer wrote is lost without a conflict: a text or a hint that
\* one of the copies has and the base has nowhere is in the merge.
NothingLost ==
    Unasked => \A field \in {"hint", "text"} :
        (All(Blocks(ours), field) \cup All(Blocks(theirs), field)) \ All(base, field)
            \subseteq All(merged.value, field)

\* Nothing a writer took away comes back without a conflict: a text of the
\* base that one copy has no more, and the other only where it was.
NothingBack ==
    LET Left(side, text) == \A i \in DOMAIN side : side[i].block.text = text =>
                                side[i].from # 0 /\ side[i].block = base[side[i].from]
        Gone(side, other, text) == text \notin All(Blocks(side), "text") /\ Left(other, text)
    IN  Unasked => \A text \in All(base, "text") :
            Gone(ours, theirs, text) \/ Gone(theirs, ours, text) =>
                text \notin All(merged.value, "text")

\* Two blocks are in the order of the base, unless a writer turned them.
OrderKept ==
    Unasked => \A u, v \in ToSet(base) :
        (\A doc \in {base, Blocks(ours), Blocks(theirs), merged.value} :
             Copies(doc, u) = 1 /\ Copies(doc, v) = 1) =>
            Ahead(merged.value, u, v) =
                IF Ahead(Blocks(ours), u, v) # Ahead(base, u, v) THEN Ahead(Blocks(ours), u, v)
                ELSE Ahead(Blocks(theirs), u, v)

\* The two writers agree: they have the same conflicts and, when they answer
\* them alike or there are none, the same blocks; no answer leaves a conflict.
WritersAgree ==
    ~Pending =>
        /\ mirrored.conflicts = merged.conflicts
        /\ answer # "none" => merged.conflicts = {}
        /\ merged.conflicts = {} =>
               \A block \in ToSet(merged.value) \cup ToSet(mirrored.value) :
                   Copies(merged.value, block) = Copies(mirrored.value, block)

\* Accepting a patch turns the document it was made for into the merge, and
\* undoing it turns the merge back (docs/reversible-patches.md): neither is
\* refused there, and any other document, or the other direction, changes nothing.
Turns ==
    [][\A inverse \in BOOLEAN : Review(inverse) =>
         copy' = IF copy = Blocks(ours) /\ ~inverse THEN merged.value
                 ELSE IF copy = merged.value /\ inverse THEN Blocks(ours)
                 ELSE copy]_vars
===============================================================================
