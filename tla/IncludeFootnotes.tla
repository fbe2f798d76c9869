-------------------------- MODULE IncludeFootnotes --------------------------
(***************************************************************************)
(* The footnote definitions of an include expansion (src/includes.rs):     *)
(* every document being expanded keeps a map from labels to definitions, a *)
(* merged child adds its own under labels nobody has, and the bodies of    *)
(* the definitions are expanded after the blocks of their document.        *)
(*                                                                         *)
(* A document is the labels it defines, the directives in its blocks and   *)
(* in each definition's body, and a reference to each of its labels from   *)
(* its blocks and from each body.  Whether a directive is read is          *)
(* IncludeResolution; here it is entered or it stays literal text.         *)
(***************************************************************************)
EXTENDS Naturals, Sequences, FiniteSets

CONSTANTS
    Name,               \* what labels are made of, with numbers
    RootLabels,         \* sets of labels the root may define
    ChildLabels,        \* sets of labels an included document may define
    MaxDocuments,       \* bound: documents included in one expansion
    MaxLevel,           \* bound: documents on the stack
    BlockDirectives,    \* bound: directives in the blocks of one document
    NoteDirectives      \* bound: directives in the body of one definition

\* "note" is <<note>> and "note-2" is <<note, 2>>.
Label == Seq(Name \cup Nat)
NoLabel == <<>>

ASSUME LabelAssumption ==
    \A own \in RootLabels \cup ChildLabels :
      IsFiniteSet(own) /\ own \subseteq Label \ {NoLabel}
ASSUME BoundAssumption ==
    MaxDocuments \in Nat /\ MaxLevel \in Nat \ {0} /\ BlockDirectives \in Nat
      /\ NoteDirectives \in Nat

VARIABLES
    frames,     \* documents being expanded, the root first; empty when done
    defs,       \* the root's definitions, set aside while their bodies expand
    bodies,     \* every definition made so far: its literal directives, nested or not
    documents,  \* documents included so far
    merge,      \* the merge under way: labels to come, the map so far, the new labels
    refs        \* observer: references, where they stand and what they meant

vars == <<frames, defs, bodies, documents, merge, refs>>

Top == frames[Len(frames)]
Level == Len(frames)
Root == Level = 1

\* A definition is known by the document that wrote it and the label it had there.
Written(doc, own) == [l \in own |-> <<doc, l>>]

NoNotes == [l \in {} |-> <<0, NoLabel>>]
Notes(map) == {map[l] : l \in DOMAIN map}
With(map, label, d) == [l \in DOMAIN map \cup {label} |-> IF l = label THEN d ELSE map[l]]
Without(map, label) == [l \in DOMAIN map \ {label} |-> map[l]]
Over(map, other) ==
    [l \in DOMAIN map \cup DOMAIN other |-> IF l \in DOMAIN map THEN map[l] ELSE other[l]]

\* BTreeMap order, for one name and suffixes of one digit.
Before(k, l) ==
    \/ Len(k) < Len(l) /\ k = SubSeq(l, 1, Len(k))
    \/ \E i \in 2..Len(k) :
         i <= Len(l) /\ k[i] < l[i] /\ SubSeq(k, 1, i - 1) = SubSeq(l, 1, i - 1)
Foremost(labels) == {l \in labels : \A k \in labels : ~Before(k, l)}

InBlocks(level) == <<"blocks", level>>
InNote(d) == <<"note", d>>

-----------------------------------------------------------------------------
\* A document with the labels `own`: its frame, its definitions, its references.
Frame(doc, own, n, form) ==
    [doc |-> doc, own |-> own, notes |-> Written(doc, own), left |-> n, literal |-> 0,
     form |-> form, queue |-> {}, label |-> NoLabel, held |-> <<0, NoLabel>>, bodied |-> FALSE]

Bodies(doc, own, directives) ==
    [d \in Notes(Written(doc, own)) |-> [left |-> directives[d[2]], nested |-> FALSE]]

References(level, notes) ==
    {[at |-> at, label |-> l, def |-> notes[l]] :
        at \in {InBlocks(level)} \cup {InNote(d) : d \in Notes(notes)}, l \in DOMAIN notes}

NoMerge == [open |-> FALSE, left |-> {}, notes |-> NoNotes, final |-> [l \in {} |-> NoLabel]]

Init ==
    /\ \E own \in RootLabels, n \in 0..BlockDirectives :
         \E directives \in [own -> 0..NoteDirectives] :
           /\ frames = <<Frame(0, own, n, "block")>>
           /\ bodies = Bodies(0, own, directives)
           /\ refs = References(1, Written(0, own))
    /\ defs = NoNotes
    /\ documents = 0
    /\ merge = NoMerge

-----------------------------------------------------------------------------
Consumed(stack) == [stack EXCEPT ![Len(stack)].left = @ - 1]

\* Text that stays a directive, in the blocks or in the body being expanded.
LiteralIn(stack, n) ==
    /\ frames' = IF stack[Len(stack)].label = NoLabel
                 THEN [stack EXCEPT ![Len(stack)].literal = @ + n]
                 ELSE stack
    /\ bodies' = IF stack[Len(stack)].label = NoLabel
                 THEN bodies
                 ELSE [bodies EXCEPT ![stack[Len(stack)].held].left = @ + n]

AtDirective == frames # << >> /\ Top.left > 0

Refuse ==
    /\ AtDirective
    /\ LiteralIn(Consumed(frames), 1)
    /\ UNCHANGED <<defs, documents, merge, refs>>

Enter(own, n, directives, form) ==
    /\ AtDirective
    /\ documents < MaxDocuments /\ Level < MaxLevel
    /\ documents' = documents + 1
    /\ frames' = Append(Consumed(frames), Frame(documents', own, n, form))
    /\ bodies' = Over(bodies, Bodies(documents', own, directives))
    /\ refs' = refs \cup References(Level + 1, Written(documents', own))
    /\ UNCHANGED <<defs, merge>>

-----------------------------------------------------------------------------
BlocksDone == frames # << >> /\ ~Top.bodied /\ Top.left = 0

\* The labels as they are now; of the root's, those it defined itself.
BeginNotes ==
    /\ BlocksDone
    /\ frames' = [frames EXCEPT ![Level].bodied = TRUE,
                                ![Level].queue = IF Root THEN Top.own ELSE DOMAIN Top.notes,
                                ![Level].notes = IF Root THEN NoNotes ELSE @]
    /\ defs' = IF Root THEN Top.notes ELSE defs
    /\ UNCHANGED <<bodies, documents, merge, refs>>

\* A child's definition leaves the map while its body is expanded; the root's are
\* set aside, and what their bodies include meets an empty map.
NextNote ==
    /\ frames # << >> /\ Top.bodied /\ Top.label = NoLabel
    /\ \E label \in Foremost(Top.queue) :
         \E d \in {IF Root THEN defs[label] ELSE Top.notes[label]} :
           /\ frames' = [frames EXCEPT ![Level].queue = @ \ {label}, ![Level].label = label,
                                       ![Level].held = d, ![Level].left = bodies[d].left,
                                       ![Level].notes = IF Root THEN @ ELSE Without(@, label)]
           /\ bodies' = [bodies EXCEPT ![d].left = 0]
    /\ UNCHANGED <<defs, documents, merge, refs>>

EndNote ==
    /\ frames # << >> /\ Top.label # NoLabel /\ Top.left = 0
    /\ frames' = [frames EXCEPT ![Level].label = NoLabel, ![Level].held = <<0, NoLabel>>,
                                ![Level].notes = IF Root THEN @ ELSE With(@, Top.label, Top.held)]
    /\ UNCHANGED <<defs, bodies, documents, merge, refs>>

-----------------------------------------------------------------------------
\* Slip: a label of the child always stays what it was.
FinalUnchecked(notes, label) == label

\* The label a definition is inserted under: `label-N`, the least N free, if taken.
Final(notes, label) ==
    IF label \notin DOMAIN notes THEN label
    ELSE LET Free == {n \in 2..(Cardinality(DOMAIN notes) + 2) :
                        Append(label, n) \notin DOMAIN notes}
         IN  Append(label, CHOOSE n \in Free : \A m \in Free : n <= m)

\* Slip: only the references in the child's blocks follow their definition.
RenamedInBlocks(ref, final, child) ==
    IF ref.label \in DOMAIN final /\ ref.at = InBlocks(Level)
      THEN [ref EXCEPT !.label = final[@]] ELSE ref

\* rename_in_blocks, on the child's blocks and on the bodies it brought.
Renamed(ref, final, child) ==
    IF /\ ref.label \in DOMAIN final
       /\ ref.at \in {InBlocks(Level)} \cup {InNote(d) : d \in Notes(child)}
      THEN [ref EXCEPT !.label = final[@]] ELSE ref

ChildDone ==
    /\ Level > 1 /\ Top.bodied
    /\ Top.label = NoLabel /\ Top.queue = {}

Popped == SubSeq(frames, 1, Level - 1)
Parent == frames[Level - 1]

StartMerge ==
    /\ ChildDone /\ ~merge.open
    /\ merge' = [open |-> TRUE, left |-> DOMAIN Top.notes, notes |-> Parent.notes,
                 final |-> NoMerge.final]
    /\ UNCHANGED <<frames, defs, bodies, documents, refs>>

\* The child's definitions in label order, each seeing those inserted before it.
InsertNote ==
    /\ merge.open
    /\ \E label \in Foremost(merge.left) :
         \E final \in {Final(merge.notes, label)} :
           merge' = [merge EXCEPT !.left = @ \ {label}, !.final = With(@, label, final),
                                  !.notes = With(@, final, Top.notes[label])]
    /\ UNCHANGED <<frames, defs, bodies, documents, refs>>

\* The child's blocks take the place of the directive.
Place == IF Parent.label = NoLabel THEN InBlocks(Level - 1) ELSE InNote(Parent.held)
Placed(ref) == [ref EXCEPT !.at = IF @ = InBlocks(Level) THEN Place ELSE @]

Merge ==
    /\ merge.open /\ merge.left = {}
    /\ LET literal == IF Parent.label = NoLabel THEN 0 ELSE Top.literal
       IN /\ frames' = [Popped EXCEPT ![Level - 1].notes = merge.notes,
                                      ![Level - 1].literal = @ + Top.literal - literal]
          /\ bodies' = [d \in DOMAIN bodies |->
                          IF Parent.label = NoLabel THEN bodies[d]
                          ELSE IF d \in Notes(Top.notes) THEN [bodies[d] EXCEPT !.nested = TRUE]
                          ELSE IF d = Parent.held THEN [bodies[d] EXCEPT !.left = @ + literal]
                          ELSE bodies[d]]
          /\ refs' = {Placed(Renamed(r, merge.final, Top.notes)) : r \in refs}
    /\ merge' = NoMerge
    /\ UNCHANGED <<defs, documents>>

\* Block content in an inline position: its definitions go with it.
RejectInline ==
    /\ ChildDone /\ ~merge.open
    /\ Top.form = "inline"
    /\ LiteralIn(Popped, 1)
    /\ refs' = {r \in refs : /\ r.at # InBlocks(Level)
                             /\ r.at \notin {InNote(d) : d \in Notes(Top.notes)}}
    /\ UNCHANGED <<defs, documents, merge>>

\* What the bodies of the root's definitions brought fills the labels that are free.
Return ==
    /\ frames # << >> /\ Root
    /\ Top.bodied /\ Top.label = NoLabel /\ Top.queue = {}
    /\ defs' = Over(defs, Top.notes)
    /\ frames' = << >>
    /\ UNCHANGED <<bodies, documents, merge, refs>>

Done == frames = << >> /\ UNCHANGED vars

Next ==
    \/ Refuse
    \/ \E own \in ChildLabels, n \in 0..BlockDirectives, form \in {"block", "inline"} :
         \E directives \in [own -> 0..NoteDirectives] : Enter(own, n, directives, form)
    \/ BeginNotes \/ NextNote \/ EndNote
    \/ StartMerge \/ InsertNote \/ Merge \/ RejectInline \/ Return \/ Done

Spec == Init /\ [][Next]_vars

-----------------------------------------------------------------------------
\* A map from labels to the definitions made so far.
IsNotes(map) ==
    /\ IsFiniteSet(DOMAIN map) /\ DOMAIN map \subseteq Label \ {NoLabel}
    /\ \A l \in DOMAIN map : map[l] \in DOMAIN bodies

Fields == {"doc", "own", "notes", "left", "literal", "form", "queue", "label", "held", "bodied"}

IsFrame(f) ==
    /\ DOMAIN f = Fields
    /\ f.doc \in 0..documents /\ f.bodied \in BOOLEAN /\ f.form \in {"block", "inline"}
    /\ f.left \in Nat /\ f.literal \in Nat
    /\ IsNotes(f.notes) /\ f.label \in Label
    /\ f.label # NoLabel => f.bodied /\ f.held \in DOMAIN bodies

\* A reference stands in the blocks of a document under way or in a note.
IsReference(r) ==
    /\ DOMAIN r = {"at", "label", "def"} /\ r.label \in Label /\ r.def \in DOMAIN bodies
    /\ r.at \in {InBlocks(i) : i \in 1..MaxLevel} \cup {InNote(d) : d \in DOMAIN bodies}

TypeOK ==
    /\ documents \in Nat /\ Level <= MaxLevel /\ frames \in Seq({frames[i] : i \in DOMAIN frames})
    /\ \A i \in 1..Level : IsFrame(frames[i])
    /\ IsNotes(defs)
    /\ \A d \in DOMAIN bodies : bodies[d] \in [left : Nat, nested : BOOLEAN]
    /\ \A d \in DOMAIN bodies : d = <<d[1], d[2]>> /\ d[1] \in 0..documents
    /\ DOMAIN merge = DOMAIN NoMerge /\ merge.open \in BOOLEAN /\ IsNotes(merge.notes)
    /\ \A r \in refs : IsReference(r)

\* The definitions a reference in the document of a level can reach.
Bindings(level) ==
    IF level = 0 \/ (level = 1 /\ frames[1].bodied) THEN defs
    ELSE LET f == frames[level]
         IN  IF f.label = NoLabel THEN f.notes ELSE With(f.notes, f.label, f.held)

\* The levels of documents under way; level 0 is the result.
Levels == IF frames = << >> THEN {0} ELSE 1..Level

\* The reference stands in the document of the level.
StandsIn(r, level) ==
    IF r.at[1] = "note" THEN r.at[2] \in Notes(Bindings(level))
    ELSE r.at[2] = level \/ level = 0

\* A note that was included from inside the body of a note.
Nested(d) == bodies[d].nested

\* A reference to a note means, after every merge and rename, the definition its
\* author wrote (merge_footnotes renames definition and references together) -
\* unless one of them was included from inside the body of a note.
BindsAsWritten ==
    \A r \in refs, level \in Levels :
      /\ StandsIn(r, level)
      /\ ~Nested(r.def)
      /\ r.at[1] = "note" => ~Nested(r.at[2])
      => r.label \in DOMAIN Bindings(level) /\ Bindings(level)[r.label] = r.def

\* I5, "parent before child": a document keeps its own labels for its own
\* definitions whatever it includes, from its blocks or from its notes.
OwnKept ==
    /\ \A i \in 1..Level : \A l \in frames[i].own :
         l \in DOMAIN Bindings(i) /\ Bindings(i)[l] = <<frames[i].doc, l>>
    /\ frames = << >> => \A d \in DOMAIN bodies :
         d[1] = 0 => d[2] \in DOMAIN defs /\ defs[d[2]] = d

-----------------------------------------------------------------------------
\* What the documentation and the comments say and the code does not do.

\* docs/includes.md: "colliding ... footnote labels are renamed": no definition of
\* an accepted document is lost.
NoNoteLost ==
    \A r \in refs :
      \/ frames = << >> /\ r.def \in Notes(defs)
      \/ \E i \in 1..Level : r.def \in Notes(Bindings(i)) \cup Notes(frames[i].notes)
=============================================================================
