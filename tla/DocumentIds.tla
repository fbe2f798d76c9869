------------------------------ MODULE DocumentIds ------------------------------
(***************************************************************************)
(* The ids of a document from the parse to the HTML (src/document_ids.rs): *)
(* the parse numbers the headings that have no id and stamps the numbers   *)
(* on the tree, the index of cross-references numbers the headings on its  *)
(* own, and a render reserves the ids of its document before it hands out  *)
(* ids to extensions and citations.  A render that meets its placement     *)
(* marker in the author's text runs again, an extension may add a heading  *)
(* after the parse, and one may render another document in the middle.     *)
(*                                                                         *)
(* An id is a sequence of words and numbers: <<"a", 2>> is "a-2", whoever  *)
(* wrote it.  A document is its body (part 0) and its notes (parts 1, 2,   *)
(* .. in the order of their labels), each a sequence of sites: headings,   *)
(* blocks and inlines with an id of their own, widgets of extensions that  *)
(* ask for an id, citations, entries of the references list, and places    *)
(* where an extension renders another document.                            *)
(***************************************************************************)
EXTENDS Integers, FiniteSets, SequencesExt

CONSTANTS
    Word,           \* what ids are made of
    Cite, Ref,      \* the words the ids of citations begin with
    Document,       \* the documents a source may be parsed to
    Inner,          \* the documents an extension renders within another
    Added,          \* the headings an extension adds after the parse
    Plan            \* the orders of jobs the entry points run

VARIABLES
    document,       \* the document, with the ids stamped so far
    plan,           \* the jobs still to come
    stack,          \* the jobs under way, an inner render on top
    index,          \* the ids of the headings in the cross-reference index
    passes          \* what each whole render wrote

vars == <<document, plan, stack, index, passes>>

Id == Seq(Word \cup Nat)
NoId == << >>
Kind == {"heading", "block", "inline", "widget", "cite", "entry", "nest"}

\* Where a site is: every walk enters lists, quotes, divs and admonitions ("open").
\* Of a quote in a figure the index takes the headings and not the ids, and what a
\* section, a line block, a table cell, the fallback or the carrier of an extension holds
\* ("closed") only the seeder and the render see.
Container == {"open", "figure", "closed"}
Site == [kind : Kind, id : Id, authored : BOOLEAN, name : Id, use : Nat, within : Container]

-----------------------------------------------------------------------------
(* Documents: the parts, the order of the notes in the source, the used    *)
(* notes in the order of their first reference.                            *)

Parts(doc) == DOMAIN doc.parts
Used(doc) == {0} \cup ToSet(doc.refs)

\* The ids the author wrote or the parse stamped on nodes of these kinds, there.
IdsAt(doc, parts, kinds, containers) ==
    (UNION {{doc.parts[n][k].id : k \in {j \in DOMAIN doc.parts[n] :
                /\ doc.parts[n][j].kind \in kinds
                /\ doc.parts[n][j].within \in containers}} : n \in parts})
    \ {NoId}

\* Slip: the ids of inlines are not looked at.
ExplicitOfBlocks(job, doc) == IdsAt(doc, Parts(doc), {"heading", "block"}, Container)

\* The ids a heading's number must skip: the index looks at open headings and
\* paragraphs of the body and the used notes, everybody else at every node.
Explicit(job, doc) ==
    IF job = "index" THEN IdsAt(doc, Used(doc), {"heading", "block"}, {"open"})
    ELSE IdsAt(doc, Parts(doc), {"heading", "block", "inline"}, Container)

\* The order of a walk: the render takes the notes by reference, the stamping
\* puts its numbers back by label, the rest go by source.
Order(job, doc) ==
    CASE job = "render" -> <<0>> \o doc.refs
      [] job \in {"gather", "write"} -> [i \in 1..(Len(doc.source) + 1) |-> i - 1]
      [] OTHER -> <<0>> \o doc.source

\* The sites a walk stops at: only the seeder looks at citations, only the render at
\* the rest, and the stamping does not enter the closed containers.
Stops(job, site) ==
    CASE job = "seed" -> site.kind \in {"heading", "cite"}
      [] job = "render" -> TRUE
      [] job = "write" -> site.kind = "heading" /\ site.within # "closed"
      [] OTHER -> site.kind = "heading"

\* A note is defined at one place and takes its number at its first reference.
IsDoc(doc) ==
    /\ DOMAIN doc = {"parts", "source", "refs"}
    /\ doc.source \in Seq(1..Len(doc.source)) /\ ToSet(doc.source) = 1..Len(doc.source)
    /\ doc.refs \in Seq(1..Len(doc.source))
    /\ IsInjective(doc.source) /\ IsInjective(doc.refs)
    /\ doc.parts \in [0..Len(doc.source) -> Seq(Site)]
    /\ \A n \in Parts(doc) : \A k \in DOMAIN doc.parts[n] :
           doc.parts[n][k].kind \in {"block", "inline"} => doc.parts[n][k].id # NoId

\* The id of a heading is the author's until the parse has stamped one.
Unstamped(doc) ==
    \A n \in Parts(doc) : \A k \in DOMAIN doc.parts[n] :
        doc.parts[n][k].kind = "heading" => doc.parts[n][k].authored = (doc.parts[n][k].id # NoId)

Places(doc) == UNION {{<<n, k>> : k \in DOMAIN doc.parts[n]} : n \in Used(doc)}
SiteAt(doc, place) == doc.parts[place[1]][place[2]]
Naming(doc, kind, key) == {p \in Places(doc) : SiteAt(doc, p).kind = kind /\ SiteAt(doc, p).name = key}

\* The uses of a key are numbered 1, 2, .. where they are numbered at all, and the
\* references list has one entry for each key that is cited.
Annotated(doc) ==
    \A p \in Places(doc) : LET site == SiteAt(doc, p) IN
        /\ site.kind = "cite" => \A use \in 1..site.use :
               \E q \in Naming(doc, "cite", site.name) : SiteAt(doc, q).use = use
        /\ site.kind = "cite" /\ site.use > 0 =>
               \A q \in Naming(doc, "cite", site.name) : SiteAt(doc, q).use = site.use => q = p
        /\ site.kind = "entry" =>
               Naming(doc, "entry", site.name) = {p} /\ Naming(doc, "cite", site.name) # {}

\* No heading is in a closed container.  The parse puts none there: sections and
\* fallbacks are read from a tree, cells and carriers are filled by extensions, and the
\* lines of a line block are paragraphs.
Open(doc) ==
    \A n \in Parts(doc) : \A k \in DOMAIN doc.parts[n] :
        doc.parts[n][k].kind = "heading" => doc.parts[n][k].within # "closed"

\* The slug of a heading is never empty: one without a letter or a digit gets "s".
Titled(doc) ==
    \A n \in Parts(doc) : \A k \in DOMAIN doc.parts[n] :
        doc.parts[n][k].kind = "heading" => doc.parts[n][k].name # NoId

ASSUME DocumentsTyped ==
    /\ Cite \in Word /\ Ref \in Word
    /\ \A doc \in Document \cup Inner : IsDoc(doc)
    /\ Added \subseteq {site \in Site : site.kind = "heading"}
    /\ Plan \subseteq Seq({"stamp", "extend", "index", "render"})

ASSUME DocumentsParsed ==
    /\ Cite # Ref
    /\ \A doc \in Document \cup Inner : Unstamped(doc) /\ Annotated(doc)
    /\ \A site \in Added : site.id = NoId /\ ~site.authored

\* A render reads its document: the passes come last, one after the other.
ASSUME RendersLast ==
    \A jobs \in Plan : \A i, j \in DOMAIN jobs : i < j /\ jobs[i] = "render" => jobs[j] = "render"

ASSUME HeadingsTitled ==
    /\ \A doc \in Document : Titled(doc)
    /\ \A site \in Added : site.name # NoId

\* The parse stamps the ids before an extension has the tree.
StampFirst(jobs) ==
    \A i, j \in DOMAIN jobs : i < j /\ jobs[i] = "extend" => jobs[j] # "stamp"
ASSUME StampedFirst == \A jobs \in Plan : StampFirst(jobs)

\* "After every extension has had its say": an index made before an extension changes
\* the document is made again after it.
IndexLast(jobs) ==
    \A j \in DOMAIN jobs :
        jobs[j] = "extend" /\ (\E i \in DOMAIN jobs : i < j /\ jobs[i] = "index") =>
            \E k \in DOMAIN jobs : k > j /\ jobs[k] = "index"
ASSUME IndexRemade == \A jobs \in Plan : IndexLast(jobs)

-----------------------------------------------------------------------------
(* Numbering *)

Suffixed(base, n) == Append(base, n)

\* The next suffix whose id is free; one of the first 1 + Cardinality(taken) is.
NextFree(base, from, taken) ==
    LET Free == {n \in (from + 1)..(from + 1 + Cardinality(taken)) :
                     Suffixed(base, n) \notin taken}
    IN  CHOOSE n \in Free : \A m \in Free : n <= m

With(f, x, v) == [y \in DOMAIN f \cup {x} |-> IF y = x THEN v ELSE f[y]]
Kept(f, x) == IF x \in DOMAIN f THEN f ELSE With(f, x, 1)

\* The id and the counts after allocating for `base`.
Allocation(base, explicit, counts, reserved) ==
    IF explicit THEN [id |-> base, counts |-> Kept(counts, base)]
    ELSE IF base \notin DOMAIN counts \cup reserved
    THEN [id |-> base, counts |-> With(counts, base, 1)]
    ELSE LET from == IF base \in DOMAIN counts THEN counts[base] ELSE 1
             n == NextFree(base, from, DOMAIN counts \cup reserved)
         IN  [id |-> Suffixed(base, n),
              counts |-> Kept(With(counts, base, n), Suffixed(base, n))]

Heading(site, counts, reserved) ==
    Allocation(IF site.id = NoId THEN site.name ELSE site.id,
               site.id # NoId, counts, reserved)

\* The index does not see the headings in closed containers and has no id for them.
Number(job, site, counts, reserved) ==
    IF job = "index" /\ site.within = "closed" THEN [id |-> NoId, counts |-> counts]
    ELSE Heading(site, counts, reserved)

Unique(base, used) == Allocation(base, FALSE, used, {})

CiteName(key, n) == <<Cite>> \o Append(key, n)
RefName(key) == <<Ref>> \o key

-----------------------------------------------------------------------------
(* The jobs: each walks the parts of its document, one site at a time.     *)

NoCounts == [x \in {} |-> 1]
NoGiven == [x \in {} |-> NoId]

\* Slip: a render starts with nothing reserved.
FrameUnreserved(job, doc) ==
    [job |-> job, doc |-> doc, parts |-> Order(job, doc), next |-> 1,
     explicit |-> Explicit(job, doc), counts |-> NoCounts, used |-> NoCounts,
     slots |-> [n \in Parts(doc) |-> << >>], ids |-> << >>, cited |-> << >>,
     asked |-> FALSE, given |-> NoGiven, handed |-> << >>, shown |-> << >>]

Frame(job, doc) ==
    [job |-> job, doc |-> doc, parts |-> Order(job, doc), next |-> 1,
     explicit |-> Explicit(job, doc), counts |-> NoCounts,
     used |-> IF job = "seed" THEN [x \in Explicit(job, doc) |-> 1] ELSE NoCounts,
     slots |-> [n \in Parts(doc) |-> << >>], ids |-> << >>, cited |-> << >>,
     asked |-> FALSE, given |-> NoGiven, handed |-> << >>, shown |-> << >>]

Depth == Len(stack)
Top == stack[Depth]
Part == Head(Top.parts)
Site1 == Top.doc.parts[Part][Top.next]
AtSite == Top.parts # << >> /\ Top.next <= Len(Top.doc.parts[Part])
Skipped == Top.job \in {"index", "seed"} /\ Part \notin Used(Top.doc)

At(jobs, kinds) ==
    Depth > 0 /\ Top.job \in jobs /\ AtSite /\ ~Skipped /\ Site1.kind \in kinds
Ended(job) == Depth > 0 /\ Top.job = job /\ Top.parts = << >>
Continue(frame) == stack' = [stack EXCEPT ![Depth] = frame]
Return == stack' = SubSeq(stack, 1, Depth - 1)
Walk(job) == [Top EXCEPT !.job = job, !.parts = Order(job, Top.doc), !.next = 1]

Init ==
    /\ document \in Document
    /\ plan \in Plan
    /\ "stamp" \in ToSet(plan) => Open(document)
    /\ stack = << >>
    /\ index = << >>
    /\ passes = << >>

\* Slip: a pass starts with the ids of the passes before it in use.
BeginContinued ==
    /\ Depth = 0 /\ plan # << >> /\ Head(plan) # "extend"
    /\ LET frame == Frame(IF Head(plan) = "render" THEN "seed" ELSE Head(plan), document)
           old == UNION {{passes[i][j].id : j \in DOMAIN passes[i]} : i \in DOMAIN passes}
       IN  stack' = <<[frame EXCEPT !.used = [x \in DOMAIN @ \cup old |-> 1]]>>
    /\ plan' = Tail(plan)
    /\ UNCHANGED <<document, index, passes>>

Begin ==
    /\ Depth = 0 /\ plan # << >> /\ Head(plan) # "extend"
    /\ stack' = <<Frame(IF Head(plan) = "render" THEN "seed" ELSE Head(plan), document)>>
    /\ plan' = Tail(plan)
    /\ UNCHANGED <<document, index, passes>>

\* An extension changes the parsed document: it adds a heading to the body, or puts what
\* is there into a carrier of its own.
Extend ==
    /\ Depth = 0 /\ plan # << >> /\ Head(plan) = "extend"
    /\ \/ \E site \in Added :
            \/ document' = [document EXCEPT !.parts[0] = <<site>> \o @]
            \/ document' = [document EXCEPT !.parts[0] = Append(@, site)]
       \/ \E k \in DOMAIN document.parts[0] :
            document' = [document EXCEPT !.parts[0][k].within = "closed"]
    /\ plan' = Tail(plan)
    /\ UNCHANGED <<stack, index, passes>>

\* On to the next part, or past a site this job does not look at.
Pass ==
    /\ Depth > 0 /\ Top.parts # << >> /\ Top.job # "gather"
    /\ \/ /\ Skipped \/ ~AtSite
          /\ Continue([Top EXCEPT !.parts = Tail(@), !.next = 1])
       \/ /\ ~Skipped /\ AtSite /\ ~Stops(Top.job, Site1)
          /\ Continue([Top EXCEPT !.next = @ + 1])
    /\ UNCHANGED <<document, plan, index, passes>>

\* Slip: the stamping keeps no slot for a heading of an unused note.
NumberHeadingUnslotted ==
    /\ At({"stamp", "index", "seed"}, {"heading"})
    /\ IF Part \notin Used(Top.doc)
       THEN Continue([Top EXCEPT !.next = @ + 1])
       ELSE \E new \in {Number(Top.job, Site1, Top.counts, Top.explicit)} :
            Continue([Top EXCEPT !.next = @ + 1, !.counts = new.counts,
                                 !.slots[Part] = Append(@, new.id),
                                 !.used = IF Top.job = "seed" THEN Kept(@, new.id) ELSE @])
    /\ UNCHANGED <<document, plan, index, passes>>

\* The stamping keeps a slot, and no id, for a heading of an unused note.
NumberHeading ==
    /\ At({"stamp", "index", "seed"}, {"heading"})
    /\ IF Part \notin Used(Top.doc)
       THEN Continue([Top EXCEPT !.next = @ + 1, !.slots[Part] = Append(@, NoId)])
       ELSE \E new \in {Number(Top.job, Site1, Top.counts, Top.explicit)} :
            Continue([Top EXCEPT !.next = @ + 1, !.counts = new.counts,
                                 !.slots[Part] = Append(@, new.id),
                                 !.used = IF Top.job = "seed" THEN Kept(@, new.id) ELSE @])
    /\ UNCHANGED <<document, plan, index, passes>>

\* A use of a citation is counted under its key, keys by first citation.
CollectCitation ==
    /\ At({"seed"}, {"cite"})
    /\ LET Same == {i \in DOMAIN Top.cited : Top.cited[i].key = Site1.name}
           more == IF Site1.use > 0 THEN 1 ELSE 0
       IN  Continue([Top EXCEPT !.next = @ + 1, !.cited =
               IF Same = {} THEN Append(@, [key |-> Site1.name, count |-> more])
               ELSE [i \in DOMAIN @ |->
                       [key |-> @[i].key,
                        count |-> @[i].count + IF i \in Same THEN more ELSE 0]]])
    /\ UNCHANGED <<document, plan, index, passes>>

FinishIndex ==
    /\ Ended("index")
    /\ index' = Top.slots
    /\ Return
    /\ UNCHANGED <<document, plan, passes>>

\* The numbers of the parts are put in one list, body first and then by label.
GatherSlots ==
    /\ \/ Ended("stamp") /\ Continue(Walk("gather"))
       \/ /\ Depth > 0 /\ Top.job = "gather" /\ Top.parts # << >>
          /\ Continue([Top EXCEPT !.ids = @ \o Top.slots[Part], !.parts = Tail(@)])
       \/ Ended("gather") /\ Continue(Walk("write"))
    /\ UNCHANGED <<document, plan, index, passes>>

\* Each heading, in the order of that list, takes the next number; it is
\* stamped where it is rendered and has no id.
StampHeading ==
    /\ At({"write"}, {"heading"}) /\ Stops("write", Site1)
    /\ IF Top.ids # << >> /\ Part \in Used(Top.doc) /\ Site1.id = NoId
       THEN Continue([Top EXCEPT !.next = @ + 1, !.ids = Tail(@),
                                 !.doc.parts[Part][Top.next].id = Head(Top.ids)])
       ELSE Continue([Top EXCEPT !.next = @ + 1,
                                 !.ids = IF @ = << >> THEN @ ELSE Tail(@)])
    /\ UNCHANGED <<document, plan, index, passes>>

FinishStamp ==
    /\ Ended("write")
    /\ document' = Top.doc
    /\ Return
    /\ UNCHANGED <<plan, index, passes>>

\* The seeded registry is installed, and the pass starts to write.
FinishSeed ==
    /\ Ended("seed")
    /\ Continue([Walk("render") EXCEPT !.counts = NoCounts])
    /\ UNCHANGED <<document, plan, index, passes>>

-----------------------------------------------------------------------------
(* The render *)

Shown(id, how) ==
    [part |-> Part, at |-> Top.next, kind |-> Site1.kind, id |-> id, how |-> how]

\* Slip: the pass numbers headings without the author's ids.
ShowHeadingUnreserved ==
    /\ At({"render"}, {"heading"})
    /\ IF Site1.id # NoId /\ ~Site1.authored
       THEN Continue([Top EXCEPT !.next = @ + 1,
                                 !.shown = Append(@, Shown(Site1.id, "stamped"))])
       ELSE \E new \in {Heading(Site1, Top.counts, {})} :
            Continue([Top EXCEPT !.next = @ + 1, !.counts = new.counts,
                !.shown = Append(@, Shown(new.id,
                              IF Site1.id # NoId THEN "authored" ELSE "numbered"))])
    /\ UNCHANGED <<document, plan, index, passes>>

\* A stamped id is written as it is, without a look at the counts.
ShowHeading ==
    /\ At({"render"}, {"heading"})
    /\ IF Site1.id # NoId /\ ~Site1.authored
       THEN Continue([Top EXCEPT !.next = @ + 1,
                                 !.shown = Append(@, Shown(Site1.id, "stamped"))])
       ELSE \E new \in {Heading(Site1, Top.counts, Top.explicit)} :
            Continue([Top EXCEPT !.next = @ + 1, !.counts = new.counts,
                !.shown = Append(@, Shown(new.id,
                              IF Site1.id # NoId THEN "authored" ELSE "numbered"))])
    /\ UNCHANGED <<document, plan, index, passes>>

ShowElement ==
    /\ At({"render"}, {"block", "inline"})
    /\ Continue([Top EXCEPT !.next = @ + 1, !.shown = Append(@, Shown(Site1.id, "authored"))])
    /\ UNCHANGED <<document, plan, index, passes>>

\* An extension asks for an id.
Generate ==
    /\ At({"render"}, {"widget"})
    /\ \E new \in {Unique(Site1.name, Top.used)} :
         Continue([Top EXCEPT !.next = @ + 1, !.used = new.counts,
                              !.handed = Append(@, new.id),
                              !.shown = Append(@, Shown(new.id, "generated"))])
    /\ UNCHANGED <<document, plan, index, passes>>

\* The names still to reserve: a turn is <<1, i, n>> for the n-th use of the
\* i-th key, <<2, i, 0>> for its entry, and turns come in that order.
Name(turn) ==
    IF turn[1] = 1 THEN CiteName(Top.cited[turn[2]].key, turn[3])
    ELSE RefName(Top.cited[turn[2]].key)
Turns ==
    UNION {{<<1, i, n>> : n \in 1..Top.cited[i].count} \cup {<<2, i, 0>>} : i \in DOMAIN Top.cited}
Due == {turn \in Turns : Name(turn) \notin DOMAIN Top.given}
Before(t, u) ==
    \/ t[1] < u[1]
    \/ t[1] = u[1] /\ t[2] < u[2]
    \/ t[1] = u[1] /\ t[2] = u[2] /\ t[3] < u[3]

\* The first citation or entry has the ids of all of them reserved first.
AskCitations ==
    /\ At({"render"}, {"cite", "entry"}) /\ ~Top.asked
    /\ Continue([Top EXCEPT !.asked = TRUE])
    /\ UNCHANGED <<document, plan, index, passes>>

ReserveCitation ==
    /\ At({"render"}, {"cite", "entry"}) /\ Top.asked
    /\ \E turn \in Due :
         /\ \A other \in Due : ~Before(other, turn)
         /\ \E new \in {Unique(Name(turn), Top.used)} :
              Continue([Top EXCEPT !.used = new.counts, !.handed = Append(@, new.id),
                                   !.given = [x \in DOMAIN @ \cup {Name(turn)} |->
                                       IF x = Name(turn) THEN new.id ELSE @[x]]])
    /\ UNCHANGED <<document, plan, index, passes>>

Given(name) == IF name \in DOMAIN Top.given THEN Top.given[name] ELSE name

\* A use without an index only links to the entry and has no id of its own.
ShowCitation ==
    /\ At({"render"}, {"cite", "entry"}) /\ Top.asked /\ Due = {}
    /\ LET name == IF Site1.kind = "entry" THEN RefName(Site1.name)
                   ELSE CiteName(Site1.name, Site1.use)
       IN  Continue([Top EXCEPT !.next = @ + 1, !.shown =
               IF Site1.kind = "cite" /\ Site1.use = 0 THEN @
               ELSE Append(@, Shown(Given(name), "generated"))])
    /\ UNCHANGED <<document, plan, index, passes>>

\* An extension renders another document here; its namespace is its own.
Nest ==
    /\ At({"render"}, {"nest"})
    /\ \E doc \in Inner :
         stack' = Append([stack EXCEPT ![Depth].next = @ + 1], Frame("seed", doc))
    /\ UNCHANGED <<document, plan, index, passes>>

\* Slip: the namespace of the render that ends stays in place of the outer one.
EndRenderLeaking ==
    /\ Ended("render")
    /\ stack' = IF Depth = 1 THEN << >>
                ELSE [SubSeq(stack, 1, Depth - 1) EXCEPT ![Depth - 1].used = Top.used]
    /\ passes' = IF Depth = 1 THEN Append(passes, Top.shown) ELSE passes
    /\ UNCHANGED <<document, plan, index>>

EndRender ==
    /\ Ended("render")
    /\ Return
    /\ passes' = IF Depth = 1 THEN Append(passes, Top.shown) ELSE passes
    /\ UNCHANGED <<document, plan, index>>

Done == Depth = 0 /\ plan = << >> /\ UNCHANGED vars

Next ==
    \/ Begin \/ Extend \/ Pass \/ NumberHeading \/ CollectCitation
    \/ FinishIndex \/ GatherSlots \/ StampHeading \/ FinishStamp \/ FinishSeed
    \/ ShowHeading \/ ShowElement \/ Generate
    \/ AskCitations \/ ReserveCitation \/ ShowCitation \/ Nest \/ EndRender
    \/ Done

Spec == Init /\ [][Next]_vars

-----------------------------------------------------------------------------
(* Properties *)

\* The renders under way: a job on top of them may be no render yet.
Renders == IF Depth > 0 /\ Top.job # "render" THEN Depth - 1 ELSE Depth
Ids(shown, how) == {shown[i].id : i \in {j \in DOMAIN shown : shown[j].how \in how}}

\* The notes are used in the order of the source, so that every walk over the
\* document takes its headings in one order.
InOrder(doc) ==
    \A i, j \in DOMAIN doc.refs, a, b \in DOMAIN doc.source :
        i < j /\ doc.source[a] = doc.refs[i] /\ doc.source[b] = doc.refs[j] => a < b
Named(doc) == \A n \in Used(doc) : \A k \in DOMAIN doc.parts[n] :
                  doc.parts[n][k].kind = "heading" => doc.parts[n][k].id # NoId

\* The headings among the first k sites of a part, and those of them that were written.
Rank(doc, n, k) == Cardinality({j \in 1..k : doc.parts[n][j].kind = "heading"})
HeadingsOf(shown, n) == {e \in DOMAIN shown : shown[e].kind = "heading" /\ shown[e].part = n}

\* Each heading written has the id that these numbers have at its place in its part.
Foretold(doc, shown, slots) ==
    \A e \in DOMAIN shown : shown[e].kind = "heading" =>
        LET n == shown[e].part
            rank == Rank(doc, n, shown[e].at)
        IN  rank \in DOMAIN slots[n] /\ slots[n][rank] = shown[e].id

\* The index has the id of every heading a whole render wrote, but of those in closed
\* containers, and it has no more.
ClosedAt(n, k) == document.parts[n][k].within = "closed"
Indexed(shown) ==
    /\ \A e \in DOMAIN shown : shown[e].kind = "heading" =>
           LET n == shown[e].part
               rank == Rank(document, n, shown[e].at)
           IN  /\ rank \in DOMAIN index[n]
               /\ index[n][rank] = IF ClosedAt(n, shown[e].at) THEN NoId ELSE shown[e].id
    /\ \A n \in Used(document) : Cardinality(HeadingsOf(shown, n)) = Len(index[n])

\* The ids the index overlooks when it numbers this heading: those of other nodes that it
\* does not skip, and those a render gave to headings in closed containers.
Overlooked(shown, n, k) ==
    ((UNION {{document.parts[m][j].id : j \in {i \in DOMAIN document.parts[m] :
                /\ document.parts[m][i].kind \in {"heading", "block", "inline"}
                /\ <<m, i>> # <<n, k>>}} : m \in Parts(document)})
     \ (Explicit("index", document) \cup {NoId}))
    \cup {shown[e].id : e \in {d \in DOMAIN shown :
              shown[d].kind = "heading" /\ ClosedAt(shown[d].part, shown[d].at)}}

\* The index gave a heading an id that something else has which it overlooks.
Clashes(shown) ==
    \E e \in DOMAIN shown :
        /\ shown[e].kind = "heading" /\ ~ClosedAt(shown[e].part, shown[e].at)
        /\ LET n == shown[e].part
               rank == Rank(document, n, shown[e].at)
           IN  rank \in DOMAIN index[n] /\ index[n][rank] \in Overlooked(shown, n, shown[e].at)

IsCounts(c) ==
    /\ IsFiniteSet(DOMAIN c) /\ DOMAIN c \subseteq Id
    /\ \A x \in DOMAIN c : c[x] \in Nat \ {0}

Fields == {"job", "doc", "parts", "next", "explicit", "counts", "used", "slots",
           "ids", "cited", "asked", "given", "handed", "shown"}

IsFrame(f) ==
    /\ DOMAIN f = Fields
    /\ f.job \in {"stamp", "gather", "write", "index", "seed", "render"}
    /\ IsDoc(f.doc)
    /\ f.parts \in Seq(Parts(f.doc)) /\ f.next \in Nat \ {0}
    /\ f.explicit \subseteq Id /\ IsFiniteSet(f.explicit)
    /\ IsCounts(f.counts) /\ IsCounts(f.used)
    /\ f.slots \in [Parts(f.doc) -> Seq(Id)] /\ f.ids \in Seq(Id)
    /\ f.cited \in Seq([key : Id, count : Nat]) /\ f.asked \in BOOLEAN
    /\ \A name \in DOMAIN f.given : f.given[name] \in Id
    /\ f.handed \in Seq(DOMAIN f.used)
    /\ f.shown \in Seq([part : Parts(f.doc), at : Nat, kind : Kind, id : Id,
                        how : {"authored", "stamped", "numbered", "generated"}])

\* Jobs and documents are what they should be, a job under another one is a
\* render, and what a render handed out is in use.
TypeOK ==
    /\ IsDoc(document)
    /\ plan \in Seq({"stamp", "extend", "index", "render"})
    /\ stack \in Seq(ToSet(stack))
    /\ \A i \in 1..Depth : IsFrame(stack[i]) /\ (i < Depth => stack[i].job = "render")

\* "so ids reserved during the render can never collide with them"
\* (document_ids.rs:14-16): an id a render hands out was never handed out
\* before in that render, and is the id of no element of the author's and of
\* no stamped heading.
HandedApart ==
    \A i \in 1..Renders :
        /\ IsInjective(stack[i].handed)
        /\ ToSet(stack[i].handed) \cap Ids(stack[i].shown, {"authored", "stamped"}) = {}

\* No two elements of a render have one id, except where the author wrote the
\* same id twice: so for the headings too, where the parse has numbered them
\* or where all walks take them in one order.
ShownApart ==
    \A i \in 1..Renders :
        LET shown == stack[i].shown IN
        InOrder(stack[i].doc) \/ Named(stack[i].doc) =>
            \A j, k \in DOMAIN shown :
                j # k /\ shown[j].id = shown[k].id =>
                    shown[j].how = "authored" /\ shown[k].how = "authored"

\* What the seeder reserved for a heading is what the pass writes for it
\* (document_ids.rs:208-215), stamped or not.
SeedForetells ==
    \A i \in 1..Renders :
        InOrder(stack[i].doc) => Foretold(stack[i].doc, stack[i].shown, stack[i].slots)

\* A second pass writes the ids of the first (render.rs:249-253).
PassesAgree ==
    \A i, j \in DOMAIN passes : passes[i] = passes[j]

\* "Same numbering the renderer uses" (parse/inline_resolution.rs:404-408): a heading
\* has the id in the index that a render writes for it, before and after the stamping,
\* and the headings of closed containers alone are not found -- unless the index
\* gave a heading an id that something it overlooks has.
IndexAgrees ==
    index # << >> /\ InOrder(document) =>
        \A i \in DOMAIN passes : Clashes(passes[i]) \/ Indexed(passes[i])


\* The renders under way and what they handed out, as IdNamespace has them.
Namespace == INSTANCE IdNamespace WITH
    taken <- [i \in 1..Renders |-> DOMAIN stack[i].used],
    handed <- [i \in 1..Renders |-> stack[i].handed]
NamespaceImplemented == Namespace!Spec
===============================================================================
