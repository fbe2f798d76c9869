------------------------- MODULE IncludeReservations -------------------------
(***************************************************************************)
(* The element ids of an include expansion (spec rules I5 and I7): every   *)
(* id is claimed once per element that carries it, claims made while a     *)
(* child is expanded are journalled so that rejecting the child gives them *)
(* back, an id another inclusion owns is replaced by a placeholder, and    *)
(* the placeholders get their final name when everything is assembled.     *)
(*                                                                         *)
(* The documents are the environment: any elements, in any order, with     *)
(* authored ids or generated heading ids, any of them a paragraph that is  *)
(* an include directive.  What is read, and whether, is IncludeResolution. *)
(***************************************************************************)
EXTENDS Naturals, Sequences, FiniteSets, Bags

CONSTANTS
    Name,           \* base names of ids; a heading's slug is one too
    AuthoredSuffix, \* N of the ids written "name-N"; 0 is the bare name
    MaxInclusions,  \* bound: children entered in one expansion
    MaxElements     \* bound: elements with an id in one document

ASSUME NameAssumption == "mark" \notin Name
ASSUME SuffixAssumption == AuthoredSuffix \subseteq Nat \ {1}
ASSUME BoundAssumption ==
    MaxInclusions \in Nat /\ MaxElements \in Nat

\* "intro" is <<"intro", 0>>, "intro-2" is <<"intro", 2>>; placeholders are apart.
Authored == Name \X AuthoredSuffix
Placeholder(k) == <<"mark", k>>
IsPlaceholder(id) == id[1] = "mark"

VARIABLES
    used,       \* used_ids: [id -> [owner, n]]
    frames,     \* documents being expanded, the root first
    inclusions, \* the last inclusion number handed out
    pending,    \* pending_renames: the id each placeholder stands for
    elems,      \* the elements of all these documents that carry an id
    phase,      \* "expand", "finish", "done"
    next,       \* the placeholder finish_renames looks at
    names       \* observer: the name each placeholder got

vars == <<used, frames, inclusions, pending, elems, phase, next, names>>

Top == frames[Len(frames)]
Owner == Top.owner
Level == Len(frames)
NoElement == [id |-> <<"mark", 0>>, by |-> 0, key |-> 0, level |-> 0,
              directive |-> FALSE]

-----------------------------------------------------------------------------
\* reserve_id, release_id and rollback_reservations on the table of claims.
Reserve(table, id, owner) ==
    [i \in DOMAIN table \cup {id} |->
        IF i \notin DOMAIN table THEN [owner |-> owner, n |-> 1]
        ELSE IF i = id THEN [table[i] EXCEPT !.n = @ + 1]
        ELSE table[i]]

Copies(id, journal) == IF BagIn(id, journal) THEN journal[id] ELSE 0

Give(table, journal) ==
    [i \in {i \in DOMAIN table : table[i].n > Copies(i, journal)} |->
        [table[i] EXCEPT !.n = @ - Copies(i, journal)]]

\* Slip: every claim on the id is given back at once.
ReleaseAll(table, id) == [i \in DOMAIN table \ {id} |-> table[i]]
Release(table, id) == Give(table, SetToBag({id}))

\* The innermost frame journals; the root's own claims are permanent.
Journalled(id) ==
    IF Level = 1 THEN frames
    ELSE [frames EXCEPT ![Level].journal = @ (+) SetToBag({id})]

\* Slip: only the root document is asked.
OwnedByRoot(id) == id \in DOMAIN used /\ used[id].owner = 0
OwnedByOther(id) == id \in DOMAIN used /\ used[id].owner # Owner

\* The elements claimed so far, one key for each.
Element(id, directive) ==
    [id |-> id, by |-> Owner, key |-> Top.claimed, level |-> Level, directive |-> directive]

Claimed(id, directive) ==
    /\ elems' = elems \cup {Element(id, directive)}
    /\ used' = Reserve(used, id, Owner)
    /\ frames' = [Journalled(id) EXCEPT ![Level].claimed = @ + 1]

-----------------------------------------------------------------------------
Frame(owner, form, own, held, before) ==
    [owner |-> owner, form |-> form, own |-> own, held |-> held, journal |-> EmptyBag,
     renamed |-> {}, claimed |-> 1, claiming |-> TRUE, before |-> before]

Init ==
    /\ used = << >> /\ inclusions = 0 /\ pending = << >> /\ elems = {}
    /\ frames = <<Frame(0, "block", {}, NoElement, << >>)>>
    /\ phase = "expand" /\ next = 1 /\ names = << >>

Claiming == phase = "expand" /\ Top.claiming /\ Top.claimed <= MaxElements

\* Every authored id of the file is on an element of it, so there is room for the rest.
Unseen == Top.own \ (Top.renamed \cup {e.id : e \in {e \in elems : e.level = Level}})
Room(id) == Cardinality(Unseen \ {id}) <= MaxElements - Top.claimed

\* The root's ids are claimed first, as they stand.
ClaimRoot(id, directive) ==
    /\ Claiming /\ Level = 1
    /\ Claimed(id, directive)
    /\ UNCHANGED <<inclusions, pending, phase, next, names>>

\* An authored id nobody else owns and no copy of which was renamed in this file.
ClaimAuthored(id, directive) ==
    /\ Claiming /\ Level > 1
    /\ id \in Top.own \ Top.renamed /\ Room(id)
    /\ ~OwnedByOther(id)
    /\ Claimed(id, directive)
    /\ UNCHANGED <<inclusions, pending, phase, next, names>>

\* defer_rename: another inclusion has the id, this copy waits for its final name.
ClaimRenamed(id, directive) ==
    /\ Claiming /\ Level > 1
    /\ id \in Top.own /\ Room(id)
    /\ id \in Top.renamed \/ OwnedByOther(id)
    /\ LET mark == Placeholder(Len(pending) + 1)
       IN /\ elems' = elems \cup {Element(mark, directive)}
          /\ used' = Reserve(used, mark, Owner)
          /\ frames' = [Journalled(mark) EXCEPT ![Level].claimed = @ + 1,
                                                ![Level].renamed = @ \cup {id}]
    /\ pending' = Append(pending, id)
    /\ UNCHANGED <<inclusions, phase, next, names>>

\* A generated heading id: the slug, or its least suffix free here and above.
ClaimHeading(name, n) ==
    /\ Claiming /\ Level > 1
    /\ n # 1 /\ Room(<<name, n>>)
    /\ LET Taken(m) == <<name, m>> \in DOMAIN used \cup Top.own
       IN ~Taken(n) /\ \A m \in {0} \cup 2..n : m < n => Taken(m)
    /\ Claimed(<<name, n>>, FALSE)
    /\ UNCHANGED <<inclusions, pending, phase, next, names>>

EndClaims ==
    /\ phase = "expand" /\ Top.claiming
    /\ Unseen = {}
    /\ frames' = [frames EXCEPT ![Level].claiming = FALSE]
    /\ UNCHANGED <<used, inclusions, pending, elems, phase, next, names>>
-----------------------------------------------------------------------------
\* The directives of the document being expanded, in document order.
Expanding == phase = "expand" /\ ~Top.claiming
Directives == {e \in elems : e.level = Level /\ e.directive}
Reached(e) == e \in Directives /\ \A d \in Directives : e.key <= d.key
Passed(e) == (elems \ {e}) \cup {[e EXCEPT !.directive = FALSE]}
Handed == inclusions < MaxInclusions /\ inclusions' = inclusions + 1
Documents == {own \in SUBSET Authored : Cardinality(own) <= MaxElements}

\* The paragraph of a block directive gives its id back while the child claims.
EnterBlock(e, own) ==
    /\ Expanding /\ Handed
    /\ e = NoElement \/ Reached(e)
    /\ used' = IF e = NoElement THEN used ELSE Release(used, e.id)
    /\ elems' = elems \ {e}
    /\ frames' = Append(frames, Frame(inclusions', "block", own, e, used))
    /\ UNCHANGED <<pending, phase, next, names>>

\* The directive sits in a paragraph of its own text, which keeps its id.
EnterInline(own) ==
    /\ Expanding /\ Handed
    /\ frames' = Append(frames, Frame(inclusions', "inline", own, NoElement, used))
    /\ UNCHANGED <<used, pending, elems, phase, next, names>>

\* A code include has no ids; the paragraph's id moves onto the code block.
IncludeCode(e) ==
    /\ Expanding /\ Handed
    /\ Reached(e)
    /\ elems' = Passed(e)
    /\ UNCHANGED <<used, frames, pending, phase, next, names>>

\* Refused before the child is entered: the paragraph stays and claims its id again.
RefuseBlock(e) ==
    /\ Expanding /\ Reached(e)
    /\ used' = Reserve(Release(used, e.id), e.id, Owner)
    /\ frames' = Journalled(e.id)
    /\ elems' = Passed(e)
    /\ UNCHANGED <<inclusions, pending, phase, next, names>>

-----------------------------------------------------------------------------
ChildDone == Expanding /\ Level > 1 /\ Directives = {}
Popped == SubSeq(frames, 1, Level - 1)

\* Slip: the claims of a merged child are forgotten by the enclosing frame.
CommittedForgetting == Popped

\* commit_reservations: an outer rejection can still release the claims.
Committed ==
    IF Level = 2 THEN Popped
    ELSE [Popped EXCEPT ![Level - 1].journal = @ (+) Top.journal]

Assembled(set) == {[e EXCEPT !.level = IF @ = Level THEN Level - 1 ELSE @] : e \in set}

MergeBlock ==
    /\ ChildDone /\ Top.form = "block"
    /\ frames' = Committed
    /\ elems' = Assembled(elems)
    /\ UNCHANGED <<used, inclusions, pending, phase, next, names>>

\* A lone paragraph is spliced without its attributes: one that a nested include
\* contributed gives its id back.
MergeInline(dropped) ==
    /\ ChildDone /\ Top.form = "inline"
    /\ dropped = NoElement \/ (dropped \in elems /\ dropped.level = Level /\ dropped.by # Owner)
    /\ used' = IF dropped = NoElement THEN used ELSE Release(used, dropped.id)
    /\ frames' = Committed
    /\ elems' = Assembled(elems \ {dropped})
    /\ UNCHANGED <<inclusions, pending, phase, next, names>>

\* Block content in an inline position: the child and all it merged are dropped.
RejectInline ==
    /\ ChildDone /\ Top.form = "inline"
    /\ used' = Give(used, Top.journal)
    /\ frames' = Popped
    /\ elems' = {e \in elems : e.level # Level}
    /\ UNCHANGED <<inclusions, pending, phase, next, names>>

-----------------------------------------------------------------------------
\* finish_renames, one placeholder at a time in the order they were made.
StartFinish ==
    /\ Expanding /\ Level = 1 /\ Directives = {}
    /\ phase' = "finish"
    /\ UNCHANGED <<used, frames, inclusions, pending, elems, next, names>>

Finishing == phase = "finish" /\ next <= Len(pending) /\ next' = next + 1
Present(k) == \E e \in elems : e.id = Placeholder(k)
Taken == {id \in {e.id : e \in elems} : ~IsPlaceholder(id)}
Suffixed(id, n) == IF id[2] = 0 THEN <<id[1], n>> ELSE Append(id, n)
Named(k, id) == {[e EXCEPT !.id = IF @ = Placeholder(k) THEN id ELSE @] : e \in elems}

\* The renamed element never reached the output.
FinishAbsent ==
    /\ Finishing /\ ~Present(next)
    /\ names' = Append(names, pending[next])
    /\ UNCHANGED <<used, frames, inclusions, pending, elems, phase>>

\* Slip: a placeholder always gets a suffix.
FinishSuffixed(n) ==
    /\ Finishing /\ Present(next)
    /\ n >= 2
    /\ Suffixed(pending[next], n) \notin Taken
    /\ \A m \in 2..(n - 1) : Suffixed(pending[next], m) \in Taken
    /\ elems' = Named(next, Suffixed(pending[next], n))
    /\ names' = Append(names, Suffixed(pending[next], n))
    /\ UNCHANGED <<used, frames, inclusions, pending, phase>>

\* What it collided with did not survive, or its name has to be found.
FinishPresent(n) ==
    /\ Finishing /\ Present(next)
    /\ LET base == pending[next]
       IN \/ /\ n = 0 /\ base \notin Taken
             /\ elems' = Named(next, base) /\ names' = Append(names, base)
          \/ /\ n >= 2 /\ base \in Taken
             /\ Suffixed(base, n) \notin Taken
             /\ \A m \in 2..(n - 1) : Suffixed(base, m) \in Taken
             /\ elems' = Named(next, Suffixed(base, n))
             /\ names' = Append(names, Suffixed(base, n))
    /\ UNCHANGED <<used, frames, inclusions, pending, phase>>

\* Slip: the last placeholder is not looked at.
ReturnEarly ==
    /\ phase = "finish" /\ next >= Len(pending)
    /\ phase' = "done"
    /\ UNCHANGED <<used, frames, inclusions, pending, elems, next, names>>

Return ==
    /\ phase = "finish" /\ next > Len(pending)
    /\ phase' = "done"
    /\ UNCHANGED <<used, frames, inclusions, pending, elems, next, names>>

Done == phase = "done" /\ UNCHANGED vars

Suffix == 0..(MaxElements * (MaxInclusions + 1) + 2)

Claim ==
    \/ \E id \in Authored, directive \in BOOLEAN :
         ClaimRoot(id, directive) \/ ClaimAuthored(id, directive) \/ ClaimRenamed(id, directive)
    \/ \E name \in Name, n \in Suffix : ClaimHeading(name, n)
    \/ EndClaims

Expand ==
    \/ \E own \in Documents :
         EnterInline(own) \/ \E e \in elems \cup {NoElement} : EnterBlock(e, own)
    \/ \E e \in elems : IncludeCode(e) \/ RefuseBlock(e)
    \/ MergeBlock \/ RejectInline
    \/ \E dropped \in elems \cup {NoElement} : MergeInline(dropped)

Assemble == StartFinish \/ FinishAbsent \/ (\E n \in Suffix : FinishPresent(n)) \/ Return

Next == Claim \/ Expand \/ Assemble \/ Done

Spec == Init /\ [][Next]_vars

-----------------------------------------------------------------------------
TypeOK ==
    /\ \A id \in DOMAIN used : used[id].owner \in 0..inclusions /\ used[id].n \in Nat \ {0}
    /\ inclusions \in 0..MaxInclusions
    /\ pending \in Seq(Authored)
    /\ \A i \in 1..Level : /\ frames[i].owner \in 0..inclusions
                           /\ frames[i].form \in {"block", "inline"}
                           /\ IsABag(frames[i].journal)
    /\ \A e \in elems : e.level \in 1..Level /\ e.by \in 0..inclusions
    /\ phase \in {"expand", "finish", "done"} /\ next \in Nat

\* The count beside an id is the number of elements that carry it: an element that
\* never reaches the output gives its claim back, and only its own.
CountsAreLive ==
    phase = "expand" =>
      /\ DOMAIN used = {e.id : e \in elems}
      /\ \A id \in DOMAIN used : used[id].n = Cardinality({e \in elems : e.id = id})

\* I7: rejecting a child leaves every claim, count and owner as it was when its
\* directive was reached, whatever its own includes claimed, gave back and renamed.
RejectRestores ==
    [][RejectInline => used' = Top.before]_vars

\* I5: no id is on elements of two inclusions, neither while the document is being
\* assembled nor when the placeholders have their names.
IdsApart == \A e, f \in elems : e.id = f.id => e.by = f.by

\* A name is changed only while another element of the result keeps it: a collision
\* with something that never reached the output renames nothing.
NameKept ==
    phase = "done" =>
      \A k \in 1..Len(pending) : names[k] # pending[k] => pending[k] \in Taken

\* No placeholder is left in the result: every deferred rename that reached it got a name.
NoMarkLeft == phase = "done" => \A e \in elems : ~IsPlaceholder(e.id)
=============================================================================
