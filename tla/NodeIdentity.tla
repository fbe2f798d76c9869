----------------------------- MODULE NodeIdentity -----------------------------
(***************************************************************************)
(* A parse session with node identity: parse_snapshot_with_identity and    *)
(* any history of reparse (src/incremental.rs), which hands the ids of     *)
(* unchanged nodes on by retain_node_identity (src/ast_sidecars.rs).       *)
(*                                                                         *)
(* The parser is a parameter: any function of the source.  Changes are     *)
(* byte ranges, positions of nodes are code points, so a character has a   *)
(* width.  A node is known by its span and its print, which stands for the *)
(* fingerprint of the subtree without positions.                           *)
(*                                                                         *)
(* A session is one line of snapshots: a host that clones a snapshot and   *)
(* edits both copies has two sessions here.                                *)
(***************************************************************************)
EXTENDS Integers, Sequences, FiniteSets

CONSTANTS
    Char,           \* characters
    Width,          \* [Char -> bytes of its UTF-8 encoding]
    Fingerprint,    \* of subtrees, positions left out
    NoSpan,         \* a node without a position, or of another file
    Parse,          \* the nodes of every source in document order, the root first
    MaxChars,       \* bound: characters in a source
    MaxChanges,     \* bound: changes in one edit
    MaxInsert,      \* bound: characters in one replacement
    MaxId           \* bound: ids a session may give

Text(n) == UNION {[1..k -> Char] : k \in 0..n}
Source == Text(MaxChars)
Span == {NoSpan} \cup (0..MaxChars) \X (0..MaxChars)
Node == [span: Span, print: Fingerprint]

ASSUME WidthAssumption == Width \in [Char -> Nat \ {0}]
ASSUME NoSpanAssumption == NoSpan \notin (0..MaxChars) \X (0..MaxChars)
ASSUME BoundAssumption == MaxChars \in Nat /\ MaxId \in Nat
ASSUME ParseAssumption ==
    /\ Parse \in [Source -> Seq(Node) \ {<< >>}]
    /\ \A s \in Source : \A i \in 1..Len(Parse[s]) :
         LET span == Parse[s][i].span
         IN span # NoSpan => span[1] <= span[2] /\ span[2] <= Len(s)

VARIABLES
    source, document,   \* the snapshot's
    ids,        \* snapshot.identity: the id of every node, in document order
    next,       \* snapshot.next_identity_id
    retired,    \* observer: ids given in this session and not in use
    was         \* observer: for every character its index before the last edit, or 0

session == <<source, document, ids, next, retired, was>>

Given == {ids[i] : i \in DOMAIN ids}

TypeOK ==
    /\ source \in Source
    /\ document \in Seq(Node)
    /\ ids \in [1..Len(document) -> Nat]
    /\ next \in 0..MaxId
    /\ retired \subseteq Nat
    /\ was \in [1..Len(source) -> 0..MaxChars]

-----------------------------------------------------------------------------
\* codepoint_bytes: where every character begins, and the end of the text.
CodepointBytes(s) ==
    LET bytes[k \in 0..Len(s)] == IF k = 0 THEN 0 ELSE bytes[k - 1] + Width[s[k]]
    IN bytes
ByteLen(s) == CodepointBytes(s)[Len(s)]
Boundary(s) == {CodepointBytes(s)[k] : k \in 0..Len(s)}
CharsBefore(s, byte) == CHOOSE k \in 0..Len(s) : CodepointBytes(s)[k] = byte

\* The checks of reparse on a batch sorted by the start of its changes.
Accepted(batch) == \A i, j \in DOMAIN batch : i < j => batch[i].end <= batch[j].start

\* Changes within bounds, at character boundaries and the right way round.  One that
\* replaces nothing by nothing is left out: it would edit the node around it in name only.
Change(s) ==
    {c \in [start: Boundary(s), end: Boundary(s), with: Text(MaxInsert)] :
        c.start <= c.end /\ (c.start = c.end => c.with # << >>)}
Batch(s) ==
    {batch \in UNION {[1..n -> Change(s)] : n \in 0..MaxChanges} : Accepted(batch)}

\* The edit of reparse done to any sequence as long as the source; new[n] is what the
\* n-th change puts in.
Spliced(batch, old, new) ==
    LET cursor(n) == IF n = 0 THEN 0 ELSE CharsBefore(source, batch[n].end)
        done[n \in 0..Len(batch)] ==
          IF n = 0 THEN << >>
          ELSE done[n - 1]
                 \o SubSeq(old, cursor(n - 1) + 1, CharsBefore(source, batch[n].start)) \o new[n]
    IN done[Len(batch)] \o SubSeq(old, cursor(Len(batch)) + 1, Len(old))

-----------------------------------------------------------------------------
\* node_bytes.
Bytes(s, node) ==
    <<CodepointBytes(s)[node.span[1]], CodepointBytes(s)[node.span[2]]>>

\* partition_point: how many changes end at or before the start of the node.
Before(batch, start) == Cardinality({i \in DOMAIN batch : batch[i].end <= start})

\* Slip: a change that begins where the node does is not seen.
TouchedLater(batch, start, end) ==
    LET n == Before(batch, start) + 1
    IN n \in DOMAIN batch /\ batch[n].start < end /\ batch[n].start > start

\* Only the first change not before the node is looked at.
Touched(batch, start, end) ==
    LET n == Before(batch, start) + 1
    IN n \in DOMAIN batch /\ batch[n].start < end /\ batch[n].end > start

\* Slip: what the changes insert is not counted.
AdjustmentDeleted(batch, n) ==
    LET moved[k \in 0..n] ==
          IF k = 0 THEN 0 ELSE moved[k - 1] - (batch[k].end - batch[k].start)
    IN moved[n]

\* How far the first n changes move what follows them.
Adjustment(batch, n) ==
    LET moved[k \in 0..n] ==
          IF k = 0 THEN 0
          ELSE moved[k - 1] + ByteLen(batch[k].with) - (batch[k].end - batch[k].start)
    IN moved[n]

\* The old nodes no change touches, by where their bytes are now and what they are.
Untouched(batch) ==
    {p \in 2..Len(document) :
       LET bytes == Bytes(source, document[p])
       IN /\ document[p].span # NoSpan
          /\ ~Touched(batch, bytes[1], bytes[2])
          /\ bytes[1] + Adjustment(batch, Before(batch, bytes[1])) >= 0}
OldKey(batch, p) ==
    LET bytes == Bytes(source, document[p])
        adjustment == Adjustment(batch, Before(batch, bytes[1]))
    IN [node |-> p, print |-> document[p].print,
        at |-> <<bytes[1] + adjustment, bytes[2] + adjustment>>]
OldKeys(batch) == {OldKey(batch, p) : p \in Untouched(batch)}

\* The nodes of the edited source.
NewKey(q) ==
    [node |-> q, print |-> document'[q].print, at |-> Bytes(source', document'[q])]
NewKeys == {NewKey(q) : q \in {r \in 2..Len(document') : document'[r].span # NoSpan}}

\* A key that several nodes have identifies none of them.
Sole(keys) == {k \in keys : \A o \in keys : o.at = k.at /\ o.print = k.print => o = k}

\* Which new node takes the id of which old node.
Heirs(old, new) ==
    {h \in {<<p, q>> : p \in Sole(old), q \in Sole(new)} :
        h[1].at = h[2].at /\ h[1].print = h[2].print}

\* The first n nodes without an inheritance.
Fresh(heirs, n) == {r \in 2..n : \A h \in heirs : h[2].node # r}

\* The root keeps its id; the others inherit theirs or are numbered in document order.
NewIds(heirs, n) ==
    [q \in 1..n |->
        IF q = 1 THEN ids[1]
        ELSE IF \E h \in heirs : h[2].node = q
          THEN ids[(CHOOSE h \in heirs : h[2].node = q)[1].node]
        ELSE next + Cardinality(Fresh(heirs, q - 1))]

\* Slip: the counter starts over behind the nodes of the new tree.
NextIdAnew(heirs, n) == n
NextId(heirs, n) == next + Cardinality(Fresh(heirs, n))

-----------------------------------------------------------------------------
\* parse_snapshot_with_identity: a new session.
Open ==
    /\ source \in Source
    /\ document = Parse[source]
    /\ ids = [i \in 1..Len(document) |-> i - 1]
    /\ next = Len(document) /\ next <= MaxId
    /\ retired = {}
    /\ was = [k \in 1..Len(source) |-> 0]

\* reparse.  A batch that is refused leaves the host with the snapshot it cloned.
Reparse(batch) ==
    LET with == [n \in DOMAIN batch |-> batch[n].with]
        unknown == [n \in DOMAIN batch |-> [k \in 1..Len(batch[n].with) |-> 0]]
    IN /\ source' = Spliced(batch, source, with)
       /\ source' \in Source
       /\ document' = Parse[source']
       /\ \E heirs \in {Heirs(OldKeys(batch), NewKeys)} :
            /\ next' = NextId(heirs, Len(document'))
            /\ ids' = NewIds(heirs, Len(document'))
       /\ next' <= MaxId
       /\ retired' = retired \cup (Given \ Given')
       /\ was' = Spliced(batch, [k \in 1..Len(source) |-> k], unknown)

Edit == \E batch \in Batch(source) : Reparse(batch)

Session == Open /\ [][Edit]_session

-----------------------------------------------------------------------------
\* The identity is one that validate_identity_records accepts, so that reparse never
\* fails on it: ids are unique.  And an id whose node was edited or is gone never comes
\* back in the session, even if the text does ("edited_node_retires_its_id_within_session").
IdsForGood ==
    /\ \A i, j \in DOMAIN ids : ids[i] = ids[j] => i = j
    /\ Given \cap retired = {}
    /\ \A id \in Given \cup retired : id < next

\* Node q of the edited tree is made of exactly the characters of node p.
SameChars(p, q) ==
    LET old == document[p]
        new == document'[q]
    IN /\ old.span # NoSpan /\ new.span # NoSpan
       /\ new.span[2] - new.span[1] = old.span[2] - old.span[1]
       /\ \A k \in 1..(old.span[2] - old.span[1]) : was'[new.span[1] + k] = old.span[1] + k
       /\ new.print = old.print

\* An id is handed on only to a node that consists of the very characters of its old
\* node, wherever the changes moved them; typing the same text again is an edit.
KeptUntouched ==
    [][\A p \in 2..Len(ids), q \in 2..Len(ids') : ids'[q] = ids[p] => SameChars(p, q)]_session

\* And it is always handed on when nothing else could be meant: the node has text, no
\* change touched it, and no other node is where it was or is.
Alone(doc, p) ==
    \A o \in 2..Len(doc) : doc[o].span = doc[p].span /\ doc[o].print = doc[p].print => o = p
HasText(node) == node.span # NoSpan /\ node.span[1] < node.span[2]
UntouchedKept ==
    [][\A p \in 2..Len(ids), q \in 2..Len(ids') :
         HasText(document[p]) /\ SameChars(p, q) /\ Alone(document, p) /\ Alone(document', q)
           => ids'[q] = ids[p]]_session

=============================================================================
