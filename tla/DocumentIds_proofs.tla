-------------------------- MODULE DocumentIds_proofs --------------------------
(***************************************************************************)
(* What a render hands out is apart from what the document has, for any    *)
(* documents, any words and any nesting, and the renders under way         *)
(* implement IdNamespace.                                                  *)
(*                                                                         *)
(* The one numeric fact is that a free suffix exists among the first       *)
(* 1 + Cardinality(taken) ones (NextFreeIsFree).  From it, Unique hands    *)
(* out an id that was not in use and puts just that id to use, and the     *)
(* rest is about one frame at a time: Apart says what holds of a render.   *)
(***************************************************************************)
EXTENDS DocumentIds, SequenceTheorems, FiniteSetTheorems, WellFoundedInduction, TLAPS

-----------------------------------------------------------------------------
\* The values of a function on a finite set are finitely many.
LEMMA ImageFinite ==
    ASSUME NEW S, IsFiniteSet(S), NEW f, S = DOMAIN f
    PROVE  IsFiniteSet({f[x] : x \in S})
<1> DEFINE T == {f[x] : x \in S}
           g == [x \in S |-> f[x]]
<1>1. g \in Surjection(S, T)
  BY DEF Surjection
<1>2. IsFiniteSet(T)
  <2> HIDE DEF T, g
  <2> QED BY <1>1, FS_Surjection
<1>3. QED  BY <1>2

\* A set of numbers that is not empty has a least one.
LEMMA LeastExists ==
    ASSUME NEW S \in SUBSET Nat, S # {}
    PROVE  \E n \in S : \A m \in S : n <= m
<1> DEFINE R == {pair \in Nat \X Nat : pair[1] < pair[2]}
<1>1. IsWellFoundedOn(R, Nat)
  <2>1. OpToRel(<, Nat) = R
    BY Zenon DEF OpToRel
  <2> HIDE DEF R
  <2>2. QED  BY <2>1, NatLessThanWellFounded
<1>2. \E n \in S : \A m \in S : <<m, n>> \notin R
  <2> HIDE DEF R
  <2> QED  BY <1>1, WFMin
<1>3. \A m, n \in Nat : <<m, n>> \notin R => ~(m < n)
  BY Zenon
<1>4. QED
  <2> HIDE DEF R
  <2>1. PICK n \in S : \A m \in S : <<m, n>> \notin R
    BY <1>2
  <2>2. \A m \in S : ~(m < n)
    BY <1>3, <2>1
  <2>3. QED  BY <2>2

\* Two suffixes of one base are two ids.
LEMMA SuffixInjective ==
    ASSUME NEW base \in Id, NEW m \in Nat, NEW n \in Nat, Suffixed(base, m) = Suffixed(base, n)
    PROVE  m = n
<1> DEFINE S == Word \cup Nat
<1>1. base \in Seq(S) /\ m \in S /\ n \in S
  BY DEF Id
<1>2. Append(base, m)[Len(base) + 1] = m /\ Append(base, n)[Len(base) + 1] = n
  <2> HIDE DEF S
  <2> QED BY <1>1, AppendProperties
<1>3. QED  BY <1>2 DEF Suffixed

LEMMA SuffixedIsId ==
    ASSUME NEW base \in Id, NEW n \in Nat
    PROVE  Suffixed(base, n) \in Id
BY DEF Suffixed, Id

\* There is a free suffix where NextFree looks for it, and it takes the first.
LEMMA NextFreeIsFree ==
    ASSUME NEW base \in Id, NEW from \in Nat, NEW taken, IsFiniteSet(taken)
    PROVE  /\ NextFree(base, from, taken) \in Nat \ {0}
           /\ Suffixed(base, NextFree(base, from, taken)) \notin taken
           /\ from < NextFree(base, from, taken)
           /\ \A m \in Nat : from < m /\ m < NextFree(base, from, taken) => Suffixed(base, m) \in taken
<1> DEFINE last == from + 1 + Cardinality(taken)
           range == (from + 1)..last
           Free == {n \in range : Suffixed(base, n) \notin taken}
           f == [n \in range |-> Suffixed(base, n)]
<1>1. Cardinality(taken) \in Nat
  BY FS_CardinalityType
<1>2. IsFiniteSet(range) /\ Cardinality(range) = Cardinality(taken) + 1
  <2>1. from + 1 \in Int /\ last \in Int /\ from + 1 <= last
    BY <1>1
  <2>2. /\ IsFiniteSet(range)
        /\ Cardinality(range) = IF from + 1 > last THEN 0 ELSE last - (from + 1) + 1
    <3> HIDE DEF last
    <3> QED  BY <2>1, FS_Interval
  <2>3. QED  BY <1>1, <2>1, <2>2
<1>3. Free # {}
  <2>1. SUFFICES ASSUME Free = {} PROVE FALSE
    OBVIOUS
  <2>2. f \in [range -> taken]
    BY <2>1
  <2>3. Cardinality(taken) < Cardinality(range)
    <3> HIDE DEF range
    <3> QED BY <1>1, <1>2
  <2>4. \E x, y \in range : x # y /\ f[x] = f[y]
    <3> HIDE DEF range, f
    <3> QED  BY <1>2, <2>2, <2>3, FS_PigeonHole
  <2>5. PICK x \in range, y \in range : x # y /\ Suffixed(base, x) = Suffixed(base, y)
    BY <2>4
  <2>6. x \in Nat /\ y \in Nat
    BY <1>1
  <2>7. QED  BY <2>5, <2>6, SuffixInjective
<1>4. Free \in SUBSET Nat
  BY <1>1
<1>5. \E n \in Free : \A m \in Free : n <= m
  <2> HIDE DEF Free
  <2> QED BY <1>3, <1>4, LeastExists
<1>6. NextFree(base, from, taken) \in Free /\ \A m \in Free : NextFree(base, from, taken) <= m
  BY <1>5 DEF NextFree
<1>7. ASSUME NEW n, n = NextFree(base, from, taken), NEW m \in Nat, from < m, m < n
      PROVE  Suffixed(base, m) \in taken
  <2>1. n \in (from + 1)..last /\ n \in Nat
    BY <1>1, <1>6, <1>7
  <2>2. m \in range /\ ~(n <= m)
    BY <1>1, <1>7, <2>1
  <2> QED BY <1>6, <1>7, <2>2
<1>8. QED  BY <1>1, <1>6, <1>7

\* The first free suffix is the only one with all those before it taken.
LEMMA NextFreeIsFirst ==
    ASSUME NEW base \in Id, NEW from \in Nat, NEW taken, IsFiniteSet(taken),
           NEW n \in Nat, from < n, Suffixed(base, n) \notin taken,
           \A m \in Nat : from < m /\ m < n => Suffixed(base, m) \in taken
    PROVE  NextFree(base, from, taken) = n
<1>1. PICK first : first = NextFree(base, from, taken)
  OBVIOUS
<1>2. /\ first \in Nat /\ Suffixed(base, first) \notin taken /\ from < first
      /\ \A m \in Nat : from < m /\ m < first => Suffixed(base, m) \in taken
  BY <1>1, NextFreeIsFree
<1>3. ~(first < n) /\ ~(n < first)
  BY <1>2
<1> QED BY <1>1, <1>2, <1>3

-----------------------------------------------------------------------------
\* Counts stay counts, and gain just the id they are given.
LEMMA WithIsCounts ==
    ASSUME NEW c, IsCounts(c), NEW x \in Id, NEW v \in Nat \ {0}
    PROVE  /\ IsCounts(With(c, x, v)) /\ DOMAIN With(c, x, v) = DOMAIN c \cup {x}
           /\ IsCounts(Kept(c, x)) /\ DOMAIN Kept(c, x) = DOMAIN c \cup {x}
<1>1. ASSUME NEW w \in Nat \ {0}
      PROVE  IsCounts(With(c, x, w)) /\ DOMAIN With(c, x, w) = DOMAIN c \cup {x}
  <2>1. IsFiniteSet(DOMAIN c \cup {x})
    BY FS_AddElement DEF IsCounts
  <2>2. DOMAIN With(c, x, w) = DOMAIN c \cup {x}
    BY DEF With
  <2>3. \A y \in DOMAIN c \cup {x} : With(c, x, w)[y] = IF y = x THEN w ELSE c[y]
    BY DEF With
  <2>4. QED  BY <2>1, <2>2, <2>3 DEF IsCounts
<1>2. IsCounts(Kept(c, x)) /\ DOMAIN Kept(c, x) = DOMAIN c \cup {x}
  <2>1. CASE x \in DOMAIN c
    BY <2>1 DEF Kept
  <2>2. CASE x \notin DOMAIN c
    BY <1>1, <2>2 DEF Kept
  <2>3. QED  BY <2>1, <2>2
<1>3. QED  BY <1>1, <1>2

\* The id Unique hands out was free, and is the only one put to use.
LEMMA UniqueIsFree ==
    ASSUME NEW base \in Id, NEW used, IsCounts(used)
    PROVE  /\ Unique(base, used).id \in Id
           /\ Unique(base, used).id \notin DOMAIN used
           /\ IsCounts(Unique(base, used).counts)
           /\ DOMAIN Unique(base, used).counts = DOMAIN used \cup {Unique(base, used).id}
<1>1. CASE base \notin DOMAIN used
  <2>1. Unique(base, used) = [id |-> base, counts |-> With(used, base, 1)]
    BY <1>1 DEF Unique, Allocation
  <2>2. 1 \in Nat \ {0}
    OBVIOUS
  <2>3. IsCounts(With(used, base, 1)) /\ DOMAIN With(used, base, 1) = DOMAIN used \cup {base}
    BY <2>2, WithIsCounts
  <2>4. QED  BY <1>1, <2>1, <2>3
<1>2. CASE base \in DOMAIN used
  <2> DEFINE n == NextFree(base, used[base], DOMAIN used)
             id == Suffixed(base, n)
  <2>1. n \in Nat \ {0} /\ id \notin DOMAIN used
    <3>1. used[base] \in Nat /\ IsFiniteSet(DOMAIN used)
      BY <1>2 DEF IsCounts
    <3>2. QED  BY <3>1, NextFreeIsFree
  <2>2. id \in Id
    BY <2>1, SuffixedIsId
  <2>3. DOMAIN used \cup {} = DOMAIN used
    OBVIOUS
  <2>4. Unique(base, used) = [id |-> id, counts |-> Kept(With(used, base, n), id)]
    BY <1>2, <2>3 DEF Unique, Allocation
  <2> HIDE DEF n, id
  <2>5. IsCounts(With(used, base, n)) /\ DOMAIN With(used, base, n) = DOMAIN used
    <3>1. IsCounts(With(used, base, n)) /\ DOMAIN With(used, base, n) = DOMAIN used \cup {base}
      BY <2>1, WithIsCounts
    <3>2. QED  BY <1>2, <3>1
  <2>6. /\ IsCounts(Kept(With(used, base, n), id))
        /\ DOMAIN Kept(With(used, base, n), id) = DOMAIN used \cup {id}
    <3>1. 1 \in Nat \ {0}
      OBVIOUS
    <3>2. QED  BY <2>2, <2>5, <3>1, WithIsCounts
  <2>7. QED  BY <2>1, <2>2, <2>4, <2>6
<1>3. QED  BY <1>1, <1>2

\* A heading's number is an id, and its counts are counts.
LEMMA HeadingIsId ==
    ASSUME NEW site \in Site, NEW counts, IsCounts(counts),
           NEW reserved \in SUBSET Id, IsFiniteSet(reserved)
    PROVE  /\ Heading(site, counts, reserved).id \in Id
           /\ IsCounts(Heading(site, counts, reserved).counts)
           /\ site.id # NoId => Heading(site, counts, reserved).id = site.id
<1> DEFINE base == IF site.id = NoId THEN site.name ELSE site.id
           from == IF base \in DOMAIN counts THEN counts[base] ELSE 1
           n == NextFree(base, from, DOMAIN counts \cup reserved)
<1>1. base \in Id
  BY DEF Site
<1>2. CASE site.id # NoId
  <2>1. Heading(site, counts, reserved) = [id |-> site.id, counts |-> Kept(counts, site.id)]
    BY <1>2 DEF Heading, Allocation
  <2>2. 1 \in Nat \ {0} /\ site.id \in Id
    BY DEF Site
  <2>3. IsCounts(Kept(counts, site.id))
    BY <2>2, WithIsCounts
  <2>4. QED  BY <1>2, <2>1, <2>2, <2>3
<1>3. CASE site.id = NoId /\ base \notin DOMAIN counts \cup reserved
  <2>1. Heading(site, counts, reserved) = [id |-> base, counts |-> With(counts, base, 1)]
    BY <1>3 DEF Heading, Allocation
  <2> HIDE DEF base
  <2>2. 1 \in Nat \ {0}
    OBVIOUS
  <2>3. IsCounts(With(counts, base, 1))
    BY <1>1, <2>2, WithIsCounts
  <2>4. QED  BY <1>1, <1>3, <2>1, <2>3
<1>4. CASE site.id = NoId /\ base \in DOMAIN counts \cup reserved
  <2>1. Heading(site, counts, reserved) =
            [id |-> Suffixed(base, n),
             counts |-> Kept(With(counts, base, n), Suffixed(base, n))]
    BY <1>4 DEF Heading, Allocation
  <2> HIDE DEF base
  <2>2. n \in Nat \ {0}
    <3>1. from \in Nat /\ IsFiniteSet(DOMAIN counts \cup reserved)
      BY FS_Union DEF IsCounts
    <3> HIDE DEF from
    <3>2. QED  BY <1>1, <3>1, NextFreeIsFree
  <2> HIDE DEF n
  <2>3. Suffixed(base, n) \in Id
    BY <1>1, <2>2, SuffixedIsId
  <2>4. IsCounts(With(counts, base, n))
    BY <1>1, <2>2, WithIsCounts
  <2>5. IsCounts(Kept(With(counts, base, n), Suffixed(base, n)))
    <3>1. 1 \in Nat \ {0}
      OBVIOUS
    <3>2. QED  BY <2>3, <2>4, <3>1, WithIsCounts
  <2>6. QED  BY <1>4, <2>1, <2>3, <2>5
<1>5. QED  BY <1>2, <1>3, <1>4

\* Every job but the index numbers every heading.
LEMMA NumberOfOther ==
    ASSUME NEW job, job # "index"
    PROVE  \A site, counts, reserved :
               Number(job, site, counts, reserved) = Heading(site, counts, reserved)
BY DEF Number

\* What a walk numbers a heading with is an id and counts again.
LEMMA NumberIsId ==
    ASSUME NEW job, NEW site \in Site, NEW counts, IsCounts(counts),
           NEW reserved \in SUBSET Id, IsFiniteSet(reserved)
    PROVE  /\ Number(job, site, counts, reserved).id \in Id
           /\ IsCounts(Number(job, site, counts, reserved).counts)
<1>1. CASE job = "index" /\ site.within = "closed"
  <2>1. Number(job, site, counts, reserved) = [id |-> NoId, counts |-> counts]
    BY <1>1 DEF Number
  <2>2. NoId \in Id
    BY DEF NoId, Id
  <2> QED BY <1>1, <2>1, <2>2
<1>2. CASE ~(job = "index" /\ site.within = "closed")
  <2>1. Number(job, site, counts, reserved) = Heading(site, counts, reserved)
    BY <1>2 DEF Number
  <2> QED BY <2>1, HeadingIsId
<1> QED BY <1>1, <1>2

-----------------------------------------------------------------------------
\* What holds of a frame: its document's ids are in use, what it handed out is
\* none of them and no two are the same, and the author's and the stamped ids
\* it has written are its document's.
Apart(f) ==
    /\ f.job \in {"seed", "render"} => f.explicit = Explicit("seed", f.doc)
                                        /\ f.explicit \subseteq DOMAIN f.used
    /\ f.job # "render" => f.handed = << >> /\ f.shown = << >>
    /\ IsInjective(f.handed)
    /\ ToSet(f.handed) \cap f.explicit = {}
    /\ Ids(f.shown, {"authored", "stamped"}) \subseteq f.explicit

IInv ==
    /\ TypeOK
    /\ \A i \in 1..Depth : Apart(stack[i])

\* The ids on the nodes of a document are finitely many ids.
LEMMA IdsAtFinite ==
    ASSUME NEW doc, IsDoc(doc), NEW parts \in SUBSET Parts(doc), NEW kinds,
           NEW containers
    PROVE  /\ IsFiniteSet(IdsAt(doc, parts, kinds, containers))
           /\ IdsAt(doc, parts, kinds, containers) \subseteq Id
<1> DEFINE Of(n) == {j \in DOMAIN doc.parts[n] : /\ doc.parts[n][j].kind \in kinds
                                                   /\ doc.parts[n][j].within \in containers}
           At1(n) == {doc.parts[n][k].id : k \in Of(n)}
           Sets == {At1(n) : n \in parts}
<1>1. /\ Len(doc.source) \in Nat
      /\ Parts(doc) = 0..Len(doc.source)
      /\ doc.parts \in [0..Len(doc.source) -> Seq(Site)]
  BY DEF IsDoc, Parts
<1>2. IsFiniteSet(parts)
  <2>1. IsFiniteSet(0..Len(doc.source))
    BY <1>1, FS_Interval
  <2>2. QED  BY <1>1, <2>1, FS_Subset
<1>3. ASSUME NEW n \in parts
      PROVE  IsFiniteSet(At1(n)) /\ At1(n) \subseteq Id
  <2>1. doc.parts[n] \in Seq(Site)
    BY <1>1
  <2>2. IsFiniteSet(Of(n))
    <3>1. DOMAIN doc.parts[n] = 1..Len(doc.parts[n]) /\ Len(doc.parts[n]) \in Nat
      BY <2>1
    <3>2. IsFiniteSet(1..Len(doc.parts[n]))
      BY <3>1, FS_Interval
    <3>3. QED  BY <3>1, <3>2, FS_Subset
  <2>3. ASSUME NEW k \in Of(n) PROVE doc.parts[n][k].id \in Id
    <3>1. doc.parts[n][k] \in Site
      BY <2>1
    <3>2. QED  BY <3>1 DEF Site
  <2> DEFINE g == [k \in Of(n) |-> doc.parts[n][k].id]
  <2>4. At1(n) = {g[k] : k \in Of(n)}
    OBVIOUS
  <2>5. IsFiniteSet({g[k] : k \in Of(n)})
    <3>1. DOMAIN g = Of(n)
      OBVIOUS
    <3> HIDE DEF g, Of
    <3> QED BY <2>2, <3>1, ImageFinite
  <2>6. QED  BY <2>3, <2>4, <2>5
<1>4. IsFiniteSet(Sets)
  <2> DEFINE g == [n \in parts |-> At1(n)]
  <2>1. Sets = {g[n] : n \in parts} /\ DOMAIN g = parts
    OBVIOUS
  <2> HIDE DEF g, Sets
  <2>2. QED  BY <1>2, <2>1, ImageFinite
<1>5. IsFiniteSet(UNION Sets) /\ UNION Sets \subseteq Id
  <2>1. \A T \in Sets : IsFiniteSet(T) /\ T \subseteq Id
    BY <1>3
  <2> HIDE DEF Sets
  <2>2. QED  BY <1>4, <2>1, FS_UNION
<1>6. IdsAt(doc, parts, kinds, containers) = (UNION Sets) \ {NoId}
  BY DEF IdsAt
<1>7. QED
  <2> HIDE DEF Sets
  <2> QED BY <1>5, <1>6, FS_Subset

\* An id on a node is one of the ids of the document.
LEMMA IdIsExplicit ==
    ASSUME NEW doc, IsDoc(doc), NEW n \in Parts(doc), NEW k \in DOMAIN doc.parts[n],
           doc.parts[n][k].kind \in {"heading", "block", "inline"},
           doc.parts[n][k].id # NoId
    PROVE  doc.parts[n][k].id \in Explicit("seed", doc)
<1> DEFINE Of(m) == {j \in DOMAIN doc.parts[m] :
                        /\ doc.parts[m][j].kind \in {"heading", "block", "inline"}
                        /\ doc.parts[m][j].within \in Container}
<1>1. doc.parts[n][k].id \in {doc.parts[n][j].id : j \in Of(n)}
  <2>1. doc.parts[n] \in Seq(Site)
    BY DEF IsDoc, Parts
  <2>2. doc.parts[n][k] \in Site
    BY <2>1
  <2>3. doc.parts[n][k].within \in Container
    BY <2>2 DEF Site
  <2> QED BY <2>3
<1>2. doc.parts[n][k].id \in UNION {{doc.parts[m][j].id : j \in Of(m)} : m \in Parts(doc)}
  BY <1>1
<1>3. QED  BY <1>2 DEF Explicit, IdsAt

LEMMA ExplicitFinite ==
    ASSUME NEW doc, IsDoc(doc), NEW job
    PROVE  IsFiniteSet(Explicit(job, doc)) /\ Explicit(job, doc) \subseteq Id
<1>1. Used(doc) \subseteq Parts(doc)
  BY DEF IsDoc, Used, Parts, ToSet
<1>2. QED  BY <1>1, IdsAtFinite DEF Explicit

\* A frame that begins is a frame, and nothing is handed out yet.
LEMMA FrameBegins ==
    ASSUME NEW doc, IsDoc(doc), NEW job \in {"stamp", "index", "seed"}
    PROVE  IsFrame(Frame(job, doc)) /\ Apart(Frame(job, doc))
<1>1. IsFiniteSet(Explicit(job, doc)) /\ Explicit(job, doc) \subseteq Id
  BY ExplicitFinite
<1>2. Order(job, doc) \in Seq(Parts(doc))
  <2>1. Order(job, doc) = << 0 >> \o doc.source
    BY DEF Order
  <2>2. << 0 >> \in Seq(Parts(doc)) /\ doc.source \in Seq(Parts(doc))
    BY DEF IsDoc, Parts
  <2>3. QED  BY <2>1, <2>2, ConcatProperties
<1>3. IsCounts(NoCounts) /\ IsCounts([x \in Explicit(job, doc) |-> 1])
  BY <1>1, FS_EmptySet DEF NoCounts, IsCounts
<1> DEFINE f == Frame(job, doc)
<1>4. /\ DOMAIN f = Fields /\ f.job = job /\ f.doc = doc /\ f.parts = Order(job, doc)
      /\ f.next = 1 /\ f.explicit = Explicit(job, doc) /\ f.counts = NoCounts
      /\ f.used = IF job = "seed" THEN [x \in Explicit(job, doc) |-> 1] ELSE NoCounts
      /\ f.slots = [n \in Parts(doc) |-> << >>] /\ f.ids = << >> /\ f.cited = << >>
      /\ f.asked = FALSE /\ f.given = NoGiven /\ f.handed = << >> /\ f.shown = << >>
  BY DEF Frame, Fields
<1> HIDE DEF f
<1>5. DOMAIN f.given = {}
  BY <1>4 DEF NoGiven
<1>6. IsFrame(f)
  <2>1. f.parts \in Seq(Parts(f.doc)) /\ f.next \in Nat \ {0}
    BY <1>2, <1>4
  <2>2. IsCounts(f.counts) /\ IsCounts(f.used)
    BY <1>3, <1>4
  <2>3. f.slots \in [Parts(f.doc) -> Seq(Id)] /\ f.ids \in Seq(Id)
    BY <1>4
  <2>4. /\ f.cited \in Seq([key : Id, count : Nat]) /\ f.handed \in Seq(DOMAIN f.used)
        /\ f.shown \in Seq([part : Parts(f.doc), at : Nat, kind : Kind, id : Id,
                            how : {"authored", "stamped", "numbered", "generated"}])
    BY <1>4
  <2>5. QED  BY <1>1, <1>4, <1>5, <2>1, <2>2, <2>3, <2>4 DEF IsFrame
<1>7. Apart(f)
  <2>1. IsInjective(f.handed) /\ ToSet(f.handed) = {} /\ Ids(f.shown, {"authored", "stamped"}) = {}
    BY <1>4 DEF IsInjective, ToSet, Ids
  <2>2. job = "seed" => DOMAIN f.used = f.explicit
    BY <1>4
  <2>3. QED  BY <1>4, <2>1, <2>2 DEF Apart
<1>8. QED  BY <1>6, <1>7 DEF f

-----------------------------------------------------------------------------
\* A sequence of anything is one of its own elements.
LEMMA OwnElements ==
    ASSUME NEW S, NEW s \in Seq(S)
    PROVE  /\ s \in Seq(ToSet(s)) /\ Len(s) \in Nat /\ DOMAIN s = 1..Len(s)
           /\ ToSet(s) \subseteq S
BY DEF ToSet

\* What a step of the job on top finds.
LEMMA OnTop ==
    ASSUME IInv, Depth > 0
    PROVE  /\ stack \in Seq(ToSet(stack)) /\ Depth \in Nat /\ Depth \in 1..Depth
           /\ IsFrame(Top) /\ Apart(Top)
BY OwnElements DEF IInv, TypeOK, Depth, Top

LEMMA SiteOnTop ==
    ASSUME NEW f, IsFrame(f), f.parts # << >>,
           f.next <= Len(f.doc.parts[Head(f.parts)])
    PROVE  /\ Head(f.parts) \in Parts(f.doc)
           /\ f.next \in DOMAIN f.doc.parts[Head(f.parts)]
           /\ f.doc.parts[Head(f.parts)] \in Seq(Site)
           /\ f.doc.parts[Head(f.parts)][f.next] \in Site
<1>1. Head(f.parts) \in Parts(f.doc)
  BY HeadTailProperties DEF IsFrame
<1>2. f.doc.parts[Head(f.parts)] \in Seq(Site)
  BY <1>1 DEF IsFrame, IsDoc, Parts
<1>3. f.next \in 1..Len(f.doc.parts[Head(f.parts)])
  BY <1>2 DEF IsFrame
<1>4. QED  BY <1>1, <1>2, <1>3

\* A new record for the job on top keeps the invariant if it is what it should be.
LEMMA TopStep ==
    ASSUME IInv, Depth > 0, NEW new, IsFrame(new), Apart(new),
           Continue(new), UNCHANGED <<document, plan>>
    PROVE  IInv'
<1>1. /\ stack \in Seq(ToSet(stack)) /\ Depth \in Nat /\ Depth \in 1..Len(stack)
  BY OnTop DEF Depth
<1>2. stack' = [stack EXCEPT ![Depth] = new]
  BY DEF Continue
<1>3. stack' \in Seq(ToSet(stack) \cup {new}) /\ Len(stack') = Len(stack)
  BY <1>1, <1>2
<1>4. stack' \in Seq(ToSet(stack'))
  BY <1>3, OwnElements
<1>5. /\ stack'[Depth] = new
      /\ \A i \in 1..Len(stack) : i # Depth => stack'[i] = stack[i]
  BY <1>1, <1>2
<1>6. \A i \in 1..Len(stack) : /\ IsFrame(stack'[i]) /\ Apart(stack'[i])
                               /\ i < Depth => stack'[i].job = "render"
  BY <1>1, <1>5 DEF IInv, TypeOK, Depth
<1>7. QED  BY <1>3, <1>4, <1>6 DEF IInv, TypeOK, Depth

LEMMA PassStep == IInv /\ Pass => IInv'
<1> SUFFICES ASSUME IInv, Pass PROVE IInv'
  OBVIOUS
<1>1. Depth > 0 /\ Top.parts # << >> /\ UNCHANGED <<document, plan>>
  BY DEF Pass
<1>2. PICK f : f = Top
  OBVIOUS
<1>3. IsFrame(f) /\ Apart(f)
  BY <1>1, <1>2, OnTop
<1>4. CASE Continue([f EXCEPT !.parts = Tail(@), !.next = 1])
  <2>1. PICK new : new = [f EXCEPT !.parts = Tail(@), !.next = 1]
    OBVIOUS
  <2>2. IsFrame(new)
    <3>1. Tail(f.parts) \in Seq(Parts(f.doc))
      BY <1>1, <1>2, <1>3, HeadTailProperties DEF IsFrame
    <3>2. QED  BY <1>3, <2>1, <3>1 DEF IsFrame, Fields
  <2>3. Apart(new)
    BY <1>3, <2>1 DEF Apart, IsFrame, Fields
  <2>4. QED  BY <1>1, <1>4, <2>1, <2>2, <2>3, TopStep
<1>5. CASE Continue([f EXCEPT !.next = @ + 1])
  <2>1. PICK new : new = [f EXCEPT !.next = @ + 1]
    OBVIOUS
  <2>2. IsFrame(new)
    BY <1>3, <2>1 DEF IsFrame, Fields
  <2>3. Apart(new)
    BY <1>3, <2>1 DEF Apart, IsFrame, Fields
  <2>4. QED  BY <1>1, <1>5, <2>1, <2>2, <2>3, TopStep
<1>6. QED  BY <1>2, <1>4, <1>5 DEF Pass

LEMMA NumberHeadingStep == IInv /\ NumberHeading => IInv'
<1> SUFFICES ASSUME IInv, NumberHeading PROVE IInv'
  OBVIOUS
<1>1. /\ Depth > 0 /\ Top.job \in {"stamp", "index", "seed"} /\ Top.parts # << >>
      /\ Top.next <= Len(Top.doc.parts[Head(Top.parts)]) /\ UNCHANGED <<document, plan>>
  BY DEF NumberHeading, At, AtSite, Part
<1>2. PICK f : f = Top
  OBVIOUS
<1>3. IsFrame(f) /\ Apart(f)
  BY <1>1, <1>2, OnTop
<1> DEFINE part == Head(f.parts)
           site == f.doc.parts[part][f.next]
<1>4. /\ part \in Parts(f.doc) /\ f.next \in DOMAIN f.doc.parts[part]
      /\ f.doc.parts[part] \in Seq(Site) /\ site \in Site
  BY <1>1, <1>2, <1>3, SiteOnTop
<1>5. part = Part /\ site = Site1
  BY <1>2 DEF Part, Site1
<1> HIDE DEF part, site
<1>6. CASE part \notin Used(f.doc)
  <2>1. PICK new : new = [f EXCEPT !.next = @ + 1, !.slots[part] = Append(@, NoId)]
    OBVIOUS
  <2>2. IsFrame(new)
    <3>1. Append(f.slots[part], NoId) \in Seq(Id)
      BY <1>3, <1>4 DEF IsFrame, NoId, Id
    <3>2. PICK slots : slots = [f.slots EXCEPT ![part] = Append(@, NoId)]
      OBVIOUS
    <3>3. slots \in [Parts(f.doc) -> Seq(Id)]
      BY <1>3, <1>4, <3>1, <3>2 DEF IsFrame
    <3>4. new = [f EXCEPT !.next = @ + 1, !.slots = slots]
      BY <2>1, <3>2
    <3>5. QED  BY <1>3, <3>3, <3>4 DEF IsFrame, Fields
  <2>3. Apart(new)
    BY <1>3, <2>1 DEF Apart, IsFrame, Fields
  <2>4. Continue(new)
    BY <1>2, <1>5, <1>6, <2>1 DEF NumberHeading
  <2>5. QED  BY <1>1, <2>2, <2>3, <2>4, TopStep
<1>7. CASE part \in Used(f.doc)
  <2>1. PICK number : number = Number(f.job, site, f.counts, f.explicit)
    OBVIOUS
  <2>2. number.id \in Id /\ IsCounts(number.counts)
    BY <1>3, <1>4, <2>1, NumberIsId DEF IsFrame
  <2>3. PICK used : used = IF f.job = "seed" THEN Kept(f.used, number.id) ELSE f.used
    OBVIOUS
  <2>4. IsCounts(used) /\ DOMAIN f.used \subseteq DOMAIN used
    <3>1. 1 \in Nat \ {0} /\ IsCounts(f.used)
      BY <1>3 DEF IsFrame
    <3>2. IsCounts(Kept(f.used, number.id))
          /\ DOMAIN Kept(f.used, number.id) = DOMAIN f.used \cup {number.id}
      BY <2>2, <3>1, WithIsCounts
    <3>3. QED  BY <2>3, <3>1, <3>2
  <2>5. PICK slots : slots = [f.slots EXCEPT ![part] = Append(@, number.id)]
    OBVIOUS
  <2>6. slots \in [Parts(f.doc) -> Seq(Id)]
    <3>1. Append(f.slots[part], number.id) \in Seq(Id)
      BY <1>3, <1>4, <2>2 DEF IsFrame
    <3>2. QED  BY <1>3, <1>4, <2>5, <3>1 DEF IsFrame
  <2>7. PICK new : new = [f EXCEPT !.next = @ + 1, !.counts = number.counts,
                                   !.slots = slots, !.used = used]
    OBVIOUS
  <2>8. IsFrame(new)
    <3>1. f.handed \in Seq(DOMAIN used)
      BY <1>3, <2>4 DEF IsFrame
    <3>2. QED  BY <1>3, <2>2, <2>4, <2>6, <2>7, <3>1 DEF IsFrame, Fields
  <2>9. Apart(new)
    BY <1>3, <2>4, <2>7 DEF Apart, IsFrame, Fields
  <2>10. Continue(new)
    <3>1. Continue([Top EXCEPT !.next = @ + 1, !.counts = number.counts,
                               !.slots[Part] = Append(@, number.id),
                               !.used = IF Top.job = "seed" THEN Kept(@, number.id) ELSE @])
      BY <1>2, <1>5, <1>7, <2>1 DEF NumberHeading
    <3>2. new = [Top EXCEPT !.next = @ + 1, !.counts = number.counts,
                            !.slots[Part] = Append(@, number.id),
                            !.used = IF Top.job = "seed" THEN Kept(@, number.id) ELSE @]
      BY <1>2, <1>5, <2>3, <2>5, <2>7
    <3>3. QED  BY <3>1, <3>2
  <2>11. QED  BY <1>1, <2>8, <2>9, <2>10, TopStep
<1>8. QED  BY <1>6, <1>7

LEMMA CollectCitationStep == IInv /\ CollectCitation => IInv'
<1> SUFFICES ASSUME IInv, CollectCitation PROVE IInv'
  OBVIOUS
<1>1. /\ Depth > 0 /\ Top.job \in {"seed"} /\ Top.parts # << >>
      /\ Top.next <= Len(Top.doc.parts[Head(Top.parts)]) /\ UNCHANGED <<document, plan>>
  BY DEF CollectCitation, At, AtSite, Part
<1>2. PICK f : f = Top
  OBVIOUS
<1>3. IsFrame(f) /\ Apart(f)
  BY <1>1, <1>2, OnTop
<1> DEFINE part == Head(f.parts)
           site == f.doc.parts[part][f.next]
<1>4. /\ part \in Parts(f.doc) /\ f.next \in DOMAIN f.doc.parts[part]
      /\ f.doc.parts[part] \in Seq(Site) /\ site \in Site
  BY <1>1, <1>2, <1>3, SiteOnTop
<1>5. part = Part /\ site = Site1
  BY <1>2 DEF Part, Site1
<1> HIDE DEF part, site
<1> DEFINE Same == {i \in DOMAIN f.cited : f.cited[i].key = site.name}
           more == IF site.use > 0 THEN 1 ELSE 0
<1>6. PICK cited : cited = IF Same = {} THEN Append(f.cited, [key |-> site.name, count |-> more])
               ELSE [i \in DOMAIN f.cited |->
                       [key |-> f.cited[i].key,
                        count |-> f.cited[i].count + IF i \in Same THEN more ELSE 0]]
  OBVIOUS
<1>7. cited \in Seq([key : Id, count : Nat])
  <2>1. f.cited \in Seq([key : Id, count : Nat]) /\ more \in Nat /\ site.name \in Id
    BY <1>3, <1>4 DEF IsFrame, Site
  <2> HIDE DEF Same, more
  <2>2. CASE Same = {}
    BY <1>6, <2>1, <2>2
  <2>3. CASE Same # {}
    <3>1. cited = [i \in 1..Len(f.cited) |->
                       [key |-> f.cited[i].key,
                        count |-> f.cited[i].count + IF i \in Same THEN more ELSE 0]]
      <4>1. DOMAIN f.cited = 1..Len(f.cited)
        BY <2>1
      <4>2. QED  BY <1>6, <2>3, <4>1
    <3>2. ASSUME NEW i \in 1..Len(f.cited)
          PROVE  f.cited[i].key \in Id /\ f.cited[i].count \in Nat
      <4>1. f.cited[i] \in [key : Id, count : Nat]
        BY <2>1, ElementOfSeq
      <4>2. QED  BY <4>1
    <3>3. \A i \in 1..Len(f.cited) : cited[i] \in [key : Id, count : Nat]
      BY <2>1, <3>1, <3>2
    <3>4. QED  BY <2>1, <3>1, <3>3
  <2>4. QED  BY <2>2, <2>3
<1>8. PICK new : new = [f EXCEPT !.next = @ + 1, !.cited = cited]
  OBVIOUS
<1>9. IsFrame(new)
  BY <1>3, <1>7, <1>8 DEF IsFrame, Fields
<1>10. Apart(new)
  BY <1>3, <1>8 DEF Apart, IsFrame, Fields
<1>11. Continue(new)
  BY <1>2, <1>5, <1>6, <1>8 DEF CollectCitation
<1>12. QED  BY <1>1, <1>9, <1>10, <1>11, TopStep

\* The order of a walk is an order of the parts of the document.
LEMMA OrderOfParts ==
    ASSUME NEW doc, IsDoc(doc), NEW job
    PROVE  Order(job, doc) \in Seq(Parts(doc))
<1>1. /\ Parts(doc) = 0..Len(doc.source) /\ Len(doc.source) \in Nat
      /\ doc.source \in Seq(Parts(doc)) /\ doc.refs \in Seq(Parts(doc)) /\ << 0 >> \in Seq(Parts(doc))
  BY DEF IsDoc, Parts
<1>2. CASE job = "render"
  BY <1>1, <1>2, ConcatProperties DEF Order
<1>3. CASE job \in {"gather", "write"}
  <2>1. Order(job, doc) = [i \in 1..(Len(doc.source) + 1) |-> i - 1]
    BY <1>3 DEF Order
  <2>2. QED  BY <1>1, <2>1
<1>4. CASE job \notin {"render", "gather", "write"}
  BY <1>1, <1>4, ConcatProperties DEF Order
<1>5. QED  BY <1>2, <1>3, <1>4

\* Starting another walk over the same document.
LEMMA WalkStep ==
    ASSUME IInv, Depth > 0, UNCHANGED <<document, plan>>,
           NEW job \in {"gather", "write"}, Continue(Walk(job)), Top.job # "render"
    PROVE  IInv'
<1>1. PICK f : f = Top
  OBVIOUS
<1>2. IsFrame(f) /\ Apart(f)
  BY <1>1, OnTop
<1>3. PICK order : order = Order(job, f.doc)
  OBVIOUS
<1>4. order \in Seq(Parts(f.doc))
  BY <1>2, <1>3, OrderOfParts DEF IsFrame
<1>5. PICK new : new = [f EXCEPT !.job = job, !.parts = order, !.next = 1]
  OBVIOUS
<1>6. IsFrame(new)
  BY <1>2, <1>4, <1>5 DEF IsFrame, Fields
<1>7. Apart(new)
  BY <1>1, <1>2, <1>5 DEF Apart, IsFrame, Fields
<1>8. Continue(new)
  BY <1>1, <1>3, <1>5 DEF Walk
<1>9. QED  BY <1>6, <1>7, <1>8, TopStep

LEMMA GatherSlotsStep == IInv /\ GatherSlots => IInv'
<1> SUFFICES ASSUME IInv, GatherSlots PROVE IInv'
  OBVIOUS
<1>1. UNCHANGED <<document, plan>>
  BY DEF GatherSlots
<1>2. CASE Ended("stamp") /\ Continue(Walk("gather"))
  BY <1>1, <1>2, WalkStep DEF Ended
<1>3. CASE Ended("gather") /\ Continue(Walk("write"))
  BY <1>1, <1>3, WalkStep DEF Ended
<1>4. CASE /\ Depth > 0 /\ Top.job = "gather" /\ Top.parts # << >>
           /\ Continue([Top EXCEPT !.ids = @ \o Top.slots[Part], !.parts = Tail(@)])
  <2>1. PICK f : f = Top
    OBVIOUS
  <2>2. IsFrame(f) /\ Apart(f)
    BY <1>4, <2>1, OnTop
  <2>3. Part = Head(f.parts) /\ f.parts # << >>
    BY <1>4, <2>1 DEF Part
  <2>4. PICK ids, parts : ids = f.ids \o f.slots[Part] /\ parts = Tail(f.parts)
    OBVIOUS
  <2>5. ids \in Seq(Id) /\ parts \in Seq(Parts(f.doc))
    <3>1. Part \in Parts(f.doc) /\ Tail(f.parts) \in Seq(Parts(f.doc))
      BY <2>2, <2>3, HeadTailProperties DEF IsFrame
    <3>2. f.slots[Part] \in Seq(Id) /\ f.ids \in Seq(Id)
      BY <2>2, <3>1 DEF IsFrame
    <3>3. QED  BY <2>4, <3>1, <3>2, ConcatProperties
  <2>6. PICK new : new = [f EXCEPT !.ids = ids, !.parts = parts]
    OBVIOUS
  <2>7. IsFrame(new)
    BY <2>2, <2>5, <2>6 DEF IsFrame, Fields
  <2>8. Apart(new)
    BY <2>2, <2>6 DEF Apart, IsFrame, Fields
  <2>9. Continue(new)
    BY <1>4, <2>1, <2>4, <2>6
  <2>10. QED  BY <1>1, <1>4, <2>7, <2>8, <2>9, TopStep
<1>5. QED  BY <1>2, <1>3, <1>4 DEF GatherSlots

LEMMA FinishSeedStep == IInv /\ FinishSeed => IInv'
<1> SUFFICES ASSUME IInv, FinishSeed PROVE IInv'
  OBVIOUS
<1>1. UNCHANGED <<document, plan>> /\ Depth > 0 /\ Top.job = "seed"
  BY DEF FinishSeed, Ended
<1>2. PICK f : f = Top
  OBVIOUS
<1>3. IsFrame(f) /\ Apart(f)
  BY <1>1, <1>2, OnTop
<1>4. PICK order : order = Order("render", f.doc)
  OBVIOUS
<1>5. order \in Seq(Parts(f.doc))
  BY <1>3, <1>4, OrderOfParts DEF IsFrame
<1>6. PICK new : new = [f EXCEPT !.job = "render", !.parts = order, !.next = 1, !.counts = NoCounts]
  OBVIOUS
<1>7. IsFrame(new)
  <2>1. IsCounts(NoCounts)
    BY FS_EmptySet DEF NoCounts, IsCounts
  <2>2. QED  BY <1>3, <1>5, <1>6, <2>1 DEF IsFrame, Fields
<1>8. Apart(new)
  BY <1>1, <1>2, <1>3, <1>6 DEF Apart, IsFrame, Fields
<1>9. Continue(new)
  <2>1. Continue([Walk("render") EXCEPT !.counts = NoCounts])
    BY DEF FinishSeed
  <2>2. Walk("render") = [f EXCEPT !.job = "render", !.parts = order, !.next = 1]
    BY <1>2, <1>4 DEF Walk
  <2>3. [[f EXCEPT !.job = "render", !.parts = order, !.next = 1] EXCEPT !.counts = NoCounts] = new
    BY <1>3, <1>6 DEF IsFrame, Fields
  <2>4. QED  BY <2>1, <2>2, <2>3
<1>10. QED  BY <1>1, <1>7, <1>8, <1>9, TopStep

LEMMA StampHeadingStep == IInv /\ StampHeading => IInv'
<1> SUFFICES ASSUME IInv, StampHeading PROVE IInv'
  OBVIOUS
<1>1. /\ Depth > 0 /\ Top.job \in {"write"} /\ Top.parts # << >>
      /\ Top.next <= Len(Top.doc.parts[Head(Top.parts)]) /\ UNCHANGED <<document, plan>>
  BY DEF StampHeading, At, AtSite, Part
<1>2. PICK f : f = Top
  OBVIOUS
<1>3. IsFrame(f) /\ Apart(f)
  BY <1>1, <1>2, OnTop
<1> DEFINE part == Head(f.parts)
           site == f.doc.parts[part][f.next]
<1>4. /\ part \in Parts(f.doc) /\ f.next \in DOMAIN f.doc.parts[part]
      /\ f.doc.parts[part] \in Seq(Site) /\ site \in Site
  BY <1>1, <1>2, <1>3, SiteOnTop
<1>5. part = Part /\ site = Site1
  BY <1>2 DEF Part, Site1
<1> HIDE DEF part, site
<1>6. CASE f.ids # << >> /\ site.id = NoId
  <2>1. PICK old : old = f.doc
    OBVIOUS
  <2>2. PICK sites : sites = [old.parts[part] EXCEPT ![f.next].id = Head(f.ids)]
    OBVIOUS
  <2>3. PICK id : id = Head(f.ids)
    OBVIOUS
  <2>4. id \in Id /\ Tail(f.ids) \in Seq(Id)
    BY <1>3, <1>6, <2>3, HeadTailProperties DEF IsFrame
  <2>5. PICK mark : mark = [site EXCEPT !.id = id]
    OBVIOUS
  <2>6. mark \in Site /\ mark.kind = site.kind
    BY <1>4, <2>4, <2>5 DEF Site
  <2>7. sites = [old.parts[part] EXCEPT ![f.next] = mark]
    BY <2>1, <2>2, <2>3, <2>5 DEF site
  <2>8. sites \in Seq(Site) /\ \A k \in DOMAIN sites :
            k \in DOMAIN old.parts[part] /\ sites[k] = IF k = f.next THEN mark ELSE old.parts[part][k]
    BY <1>4, <2>1, <2>6, <2>7
  <2>9. PICK doc : doc = [old EXCEPT !.parts[part] = sites]
    OBVIOUS
  <2>10. /\ DOMAIN doc = DOMAIN old /\ doc.source = old.source /\ doc.refs = old.refs
         /\ doc.parts = [old.parts EXCEPT ![part] = sites]
    BY <1>3, <2>1, <2>9 DEF IsFrame, IsDoc
  <2>11. site.kind = "heading"
    BY <1>5 DEF StampHeading, At
  <2>12. /\ Parts(doc) = Parts(old) /\ \A n \in Parts(old) :
                doc.parts[n] = IF n = part THEN sites ELSE old.parts[n]
    BY <1>3, <1>4, <2>1, <2>10 DEF Parts, IsFrame, IsDoc
  <2>13. IsDoc(doc)
    <3>1. doc.parts \in [0..Len(doc.source) -> Seq(Site)]
      <4>1. old.parts \in [0..Len(old.source) -> Seq(Site)]
        BY <1>3, <2>1 DEF IsFrame, IsDoc
      <4>2. part \in 0..Len(old.source)
        BY <1>4, <2>1, <4>1 DEF Parts
      <4>3. doc.parts = [old.parts EXCEPT ![part] = sites] /\ sites \in Seq(Site)
        BY <2>8, <2>10
      <4>4. QED  BY <2>10, <4>1, <4>2, <4>3
    <3>2. ASSUME NEW n \in Parts(doc), NEW k \in DOMAIN doc.parts[n],
                 doc.parts[n][k].kind \in {"block", "inline"}
          PROVE  doc.parts[n][k].id # NoId
      <4>1. n \in Parts(old) /\ k \in DOMAIN old.parts[n]
            /\ doc.parts[n][k] = IF n = part /\ k = f.next THEN mark ELSE old.parts[n][k]
        BY <2>8, <2>12, <3>2
      <4>2. QED  BY <1>3, <2>1, <2>6, <2>11, <3>2, <4>1 DEF IsFrame, IsDoc
    <3>3. QED  BY <1>3, <2>1, <2>10, <3>1, <3>2 DEF IsFrame, IsDoc
  <2>14. PICK ids : ids = Tail(f.ids)
    OBVIOUS
  <2>15. PICK new : new = [f EXCEPT !.next = @ + 1, !.ids = ids, !.doc = doc]
    OBVIOUS
  <2>16. IsFrame(new)
    BY <1>3, <2>1, <2>4, <2>12, <2>13, <2>14, <2>15 DEF IsFrame, Fields
  <2>17. Apart(new)
    BY <1>1, <1>2, <1>3, <2>15 DEF Apart, IsFrame, Fields
  <2>18. CASE part \in Used(f.doc)
    <3>1. Continue([Top EXCEPT !.next = @ + 1, !.ids = Tail(@),
                               !.doc.parts[Part][Top.next].id = Head(Top.ids)])
      BY <1>2, <1>5, <1>6, <2>18 DEF StampHeading
    <3>2. new = [Top EXCEPT !.next = @ + 1, !.ids = Tail(@),
                            !.doc.parts[Part][Top.next].id = Head(Top.ids)]
      BY <1>2, <1>5, <2>1, <2>2, <2>9, <2>14, <2>15
    <3>3. QED  BY <1>1, <2>16, <2>17, <3>1, <3>2, TopStep
  <2>19. CASE part \notin Used(f.doc)
    <3>1. PICK other : other = [f EXCEPT !.next = @ + 1, !.ids = ids]
      OBVIOUS
    <3>2. IsFrame(other)
      BY <1>3, <2>4, <2>14, <3>1 DEF IsFrame, Fields
    <3>3. Apart(other)
      BY <1>3, <3>1 DEF Apart, IsFrame, Fields
    <3>4. Continue(other)
      BY <1>2, <1>5, <1>6, <2>14, <2>19, <3>1 DEF StampHeading
    <3>5. QED  BY <1>1, <3>2, <3>3, <3>4, TopStep
  <2>20. QED  BY <2>18, <2>19
<1>7. CASE f.ids = << >> \/ site.id # NoId
  <2>1. PICK ids : ids = IF f.ids = << >> THEN f.ids ELSE Tail(f.ids)
    OBVIOUS
  <2>2. ids \in Seq(Id)
    BY <1>3, <2>1, HeadTailProperties DEF IsFrame
  <2>3. PICK new : new = [f EXCEPT !.next = @ + 1, !.ids = ids]
    OBVIOUS
  <2>4. IsFrame(new)
    BY <1>3, <2>2, <2>3 DEF IsFrame, Fields
  <2>5. Apart(new)
    BY <1>3, <2>3 DEF Apart, IsFrame, Fields
  <2>6. Continue(new)
    BY <1>2, <1>5, <1>7, <2>1, <2>3 DEF StampHeading
  <2>7. QED  BY <1>1, <2>4, <2>5, <2>6, TopStep
<1>8. QED  BY <1>6, <1>7

-----------------------------------------------------------------------------
\* Writing an element: what it is, and that an id of the author's or of the
\* stamping is one of the document's.
ShownSet(doc) == [part : Parts(doc), at : Nat, kind : Kind, id : Id,
                  how : {"authored", "stamped", "numbered", "generated"}]

LEMMA ShownMore ==
    ASSUME NEW f, IsFrame(f), Apart(f), NEW s \in ShownSet(f.doc),
           s.how \in {"authored", "stamped"} => s.id \in f.explicit
    PROVE  /\ Append(f.shown, s) \in Seq(ShownSet(f.doc))
           /\ Ids(Append(f.shown, s), {"authored", "stamped"}) \subseteq f.explicit
<1>1. f.shown \in Seq(ShownSet(f.doc))
  BY DEF IsFrame, ShownSet
<1>2. PICK more : more = Append(f.shown, s)
  OBVIOUS
<1>3. /\ more \in Seq(ShownSet(f.doc)) /\ Len(more) = Len(f.shown) + 1
      /\ \A i \in 1..Len(f.shown) : more[i] = f.shown[i]
      /\ more[Len(f.shown) + 1] = s
  BY <1>1, <1>2, AppendProperties
<1>4. Len(f.shown) \in Nat /\ DOMAIN more = 1..(Len(f.shown) + 1) /\ DOMAIN f.shown = 1..Len(f.shown)
  BY <1>1, <1>3
<1>5. ASSUME NEW i \in DOMAIN more, more[i].how \in {"authored", "stamped"}
      PROVE  more[i].id \in f.explicit
  <2>1. CASE i = Len(f.shown) + 1
    BY <1>3, <1>5, <2>1
  <2>2. CASE i # Len(f.shown) + 1
    <3>1. i \in DOMAIN f.shown /\ more[i] = f.shown[i]
      BY <1>3, <1>4, <2>2
    <3>2. f.shown[i].id \in Ids(f.shown, {"authored", "stamped"})
      BY <1>5, <3>1 DEF Ids
    <3>3. QED  BY <3>1, <3>2 DEF Apart
  <2>3. QED  BY <2>1, <2>2
<1>6. Ids(more, {"authored", "stamped"}) \subseteq f.explicit
  BY <1>5 DEF Ids
<1>7. QED  BY <1>2, <1>3, <1>6

\* Handing out an id that was free.
LEMMA HandedMore ==
    ASSUME NEW f, IsFrame(f), Apart(f), f.job = "render", NEW id \in Id, id \notin DOMAIN f.used
    PROVE  /\ Append(f.handed, id) \in Seq(DOMAIN f.used \cup {id})
           /\ IsInjective(Append(f.handed, id))
           /\ ToSet(Append(f.handed, id)) \cap f.explicit = {}
<1>1. f.handed \in Seq(DOMAIN f.used) /\ f.handed \in Seq(DOMAIN f.used \cup {id})
  BY DEF IsFrame
<1>2. PICK more : more = Append(f.handed, id)
  OBVIOUS
<1>3. /\ more \in Seq(DOMAIN f.used \cup {id}) /\ Len(more) = Len(f.handed) + 1
      /\ \A i \in 1..Len(f.handed) : more[i] = f.handed[i]
      /\ more[Len(f.handed) + 1] = id
  BY <1>1, <1>2, AppendProperties
<1>4. Len(f.handed) \in Nat /\ DOMAIN more = 1..(Len(f.handed) + 1) /\ DOMAIN f.handed = 1..Len(f.handed)
  BY <1>1, <1>3
<1>5. \A i \in 1..Len(f.handed) : f.handed[i] \in DOMAIN f.used /\ f.handed[i] # id
  BY <1>1
<1>6. IsInjective(more)
  <2>1. SUFFICES ASSUME NEW i \in DOMAIN more, NEW j \in DOMAIN more, more[i] = more[j] PROVE i = j
    BY DEF IsInjective
  <2>2. CASE i \in 1..Len(f.handed) /\ j \in 1..Len(f.handed)
    BY <1>3, <1>4, <2>1, <2>2 DEF IsInjective, Apart
  <2>3. CASE i = Len(f.handed) + 1 \/ j = Len(f.handed) + 1
    BY <1>3, <1>4, <1>5, <2>1, <2>3
  <2>4. QED  BY <1>4, <2>2, <2>3
<1>7. id \notin f.explicit
  BY DEF Apart
<1>8. \A i \in DOMAIN more : more[i] \notin f.explicit
  <2>1. \A i \in 1..Len(f.handed) : f.handed[i] \notin f.explicit
    BY <1>4 DEF Apart, ToSet
  <2>2. QED  BY <1>3, <1>4, <1>7, <2>1
<1>9. ToSet(more) \cap f.explicit = {}
  BY <1>8 DEF ToSet
<1>10. QED  BY <1>2, <1>3, <1>6, <1>9

LEMMA ShowElementStep == IInv /\ ShowElement => IInv'
<1> SUFFICES ASSUME IInv, ShowElement PROVE IInv'
  OBVIOUS
<1>1. /\ Depth > 0 /\ Top.job \in {"render"} /\ Top.parts # << >>
      /\ Top.next <= Len(Top.doc.parts[Head(Top.parts)]) /\ UNCHANGED <<document, plan>>
  BY DEF ShowElement, At, AtSite, Part
<1>2. PICK f : f = Top
  OBVIOUS
<1>3. IsFrame(f) /\ Apart(f)
  BY <1>1, <1>2, OnTop
<1> DEFINE part == Head(f.parts)
           site == f.doc.parts[part][f.next]
<1>4. /\ part \in Parts(f.doc) /\ f.next \in DOMAIN f.doc.parts[part]
      /\ f.doc.parts[part] \in Seq(Site) /\ site \in Site
  BY <1>1, <1>2, <1>3, SiteOnTop
<1>5. part = Part /\ site = Site1
  BY <1>2 DEF Part, Site1
<1> HIDE DEF part, site
<1>6. site.kind \in {"block", "inline"}
  BY <1>5 DEF ShowElement, At
<1>7. PICK s : s = [part |-> part, at |-> f.next, kind |-> site.kind, id |-> site.id, how |-> "authored"]
  OBVIOUS
<1>8. s \in ShownSet(f.doc)
  BY <1>4, <1>7 DEF ShownSet, Site
<1>9. site.id \in f.explicit
  <2>1. site.id # NoId
    BY <1>3, <1>4, <1>6 DEF site, IsFrame, IsDoc
  <2>2. f.explicit = Explicit("seed", f.doc)
    BY <1>1, <1>2, <1>3 DEF Apart
  <2>3. IsDoc(f.doc)
    BY <1>3 DEF IsFrame
  <2>4. QED  BY <1>4, <1>6, <2>1, <2>2, <2>3, IdIsExplicit DEF site
<1>10. PICK shown : shown = Append(f.shown, s)
  OBVIOUS
<1>11. shown \in Seq(ShownSet(f.doc)) /\ Ids(shown, {"authored", "stamped"}) \subseteq f.explicit
  BY <1>3, <1>7, <1>8, <1>9, <1>10, ShownMore
<1>12. PICK new : new = [f EXCEPT !.next = @ + 1, !.shown = shown]
  OBVIOUS
<1>13. IsFrame(new)
  BY <1>3, <1>11, <1>12 DEF IsFrame, Fields, ShownSet
<1>14. Apart(new)
  BY <1>1, <1>2, <1>3, <1>11, <1>12 DEF Apart, IsFrame, Fields
<1>15. Continue(new)
  BY <1>2, <1>5, <1>7, <1>10, <1>12 DEF ShowElement, Shown
<1>16. QED  BY <1>1, <1>13, <1>14, <1>15, TopStep

LEMMA ShowHeadingStep == IInv /\ ShowHeading => IInv'
<1> SUFFICES ASSUME IInv, ShowHeading PROVE IInv'
  OBVIOUS
<1>1. /\ Depth > 0 /\ Top.job \in {"render"} /\ Top.parts # << >>
      /\ Top.next <= Len(Top.doc.parts[Head(Top.parts)]) /\ UNCHANGED <<document, plan>>
  BY DEF ShowHeading, At, AtSite, Part
<1>2. PICK f : f = Top
  OBVIOUS
<1>3. IsFrame(f) /\ Apart(f)
  BY <1>1, <1>2, OnTop
<1> DEFINE part == Head(f.parts)
           site == f.doc.parts[part][f.next]
<1>4. /\ part \in Parts(f.doc) /\ f.next \in DOMAIN f.doc.parts[part]
      /\ f.doc.parts[part] \in Seq(Site) /\ site \in Site
  BY <1>1, <1>2, <1>3, SiteOnTop
<1>5. part = Part /\ site = Site1
  BY <1>2 DEF Part, Site1
<1> HIDE DEF part, site
<1>6. site.kind = "heading"
  BY <1>5 DEF ShowHeading, At
<1>7. site.id # NoId => site.id \in f.explicit
  <2>1. f.explicit = Explicit("seed", f.doc)
    BY <1>1, <1>2, <1>3 DEF Apart
  <2>2. IsDoc(f.doc)
    BY <1>3 DEF IsFrame
  <2>3. QED  BY <1>4, <1>6, <2>1, <2>2, IdIsExplicit DEF site
<1>8. CASE site.id # NoId /\ ~site.authored
  <2>1. PICK s : s = [part |-> part, at |-> f.next, kind |-> site.kind, id |-> site.id, how |-> "stamped"]
    OBVIOUS
  <2>2. s \in ShownSet(f.doc)
    BY <1>4, <2>1 DEF ShownSet, Site
  <2>3. PICK shown : shown = Append(f.shown, s)
    OBVIOUS
  <2>4. shown \in Seq(ShownSet(f.doc)) /\ Ids(shown, {"authored", "stamped"}) \subseteq f.explicit
    BY <1>3, <1>7, <1>8, <2>1, <2>2, <2>3, ShownMore
  <2>5. PICK new : new = [f EXCEPT !.next = @ + 1, !.shown = shown]
    OBVIOUS
  <2>6. IsFrame(new)
    BY <1>3, <2>4, <2>5 DEF IsFrame, Fields, ShownSet
  <2>7. Apart(new)
    BY <1>1, <1>2, <1>3, <2>4, <2>5 DEF Apart, IsFrame, Fields
  <2>8. Continue(new)
    BY <1>2, <1>5, <1>8, <2>1, <2>3, <2>5 DEF ShowHeading, Shown
  <2>9. QED  BY <1>1, <2>6, <2>7, <2>8, TopStep
<1>9. CASE ~(site.id # NoId /\ ~site.authored)
  <2>1. PICK number : number = Heading(site, f.counts, f.explicit)
    OBVIOUS
  <2>2. number.id \in Id /\ IsCounts(number.counts) /\ (site.id # NoId => number.id = site.id)
    BY <1>3, <1>4, <2>1, HeadingIsId DEF IsFrame
  <2>3. PICK s : s = [part |-> part, at |-> f.next, kind |-> site.kind, id |-> number.id,
                      how |-> IF site.id # NoId THEN "authored" ELSE "numbered"]
    OBVIOUS
  <2>4. s \in ShownSet(f.doc) /\ (s.how \in {"authored", "stamped"} => s.id \in f.explicit)
    BY <1>4, <1>7, <2>2, <2>3 DEF ShownSet, Site
  <2>5. PICK shown : shown = Append(f.shown, s)
    OBVIOUS
  <2>6. shown \in Seq(ShownSet(f.doc)) /\ Ids(shown, {"authored", "stamped"}) \subseteq f.explicit
    BY <1>3, <2>4, <2>5, ShownMore
  <2>7. PICK new : new = [f EXCEPT !.next = @ + 1, !.counts = number.counts, !.shown = shown]
    OBVIOUS
  <2>8. IsFrame(new)
    BY <1>3, <2>2, <2>6, <2>7 DEF IsFrame, Fields, ShownSet
  <2>9. Apart(new)
    BY <1>1, <1>2, <1>3, <2>6, <2>7 DEF Apart, IsFrame, Fields
  <2>10. Continue(new)
    <3>1. Continue([Top EXCEPT !.next = @ + 1, !.counts = number.counts,
                !.shown = Append(@, Shown(number.id,
                              IF Site1.id # NoId THEN "authored" ELSE "numbered"))])
      BY <1>2, <1>5, <1>9, <2>1 DEF ShowHeading
    <3>2. QED  BY <1>2, <1>5, <2>3, <2>5, <2>7, <3>1 DEF Shown
  <2>11. QED  BY <1>1, <2>8, <2>9, <2>10, TopStep
<1>10. QED  BY <1>8, <1>9

LEMMA GenerateStep == IInv /\ Generate => IInv'
<1> SUFFICES ASSUME IInv, Generate PROVE IInv'
  OBVIOUS
<1>1. /\ Depth > 0 /\ Top.job \in {"render"} /\ Top.parts # << >>
      /\ Top.next <= Len(Top.doc.parts[Head(Top.parts)]) /\ UNCHANGED <<document, plan>>
  BY DEF Generate, At, AtSite, Part
<1>2. PICK f : f = Top
  OBVIOUS
<1>3. IsFrame(f) /\ Apart(f)
  BY <1>1, <1>2, OnTop
<1> DEFINE part == Head(f.parts)
           site == f.doc.parts[part][f.next]
<1>4. /\ part \in Parts(f.doc) /\ f.next \in DOMAIN f.doc.parts[part]
      /\ f.doc.parts[part] \in Seq(Site) /\ site \in Site
  BY <1>1, <1>2, <1>3, SiteOnTop
<1>5. part = Part /\ site = Site1
  BY <1>2 DEF Part, Site1
<1> HIDE DEF part, site
<1>6. PICK number : number = Unique(site.name, f.used)
  OBVIOUS
<1>7. /\ number.id \in Id /\ number.id \notin DOMAIN f.used
      /\ IsCounts(number.counts) /\ DOMAIN number.counts = DOMAIN f.used \cup {number.id}
  <2>1. site.name \in Id /\ IsCounts(f.used)
    BY <1>3, <1>4 DEF Site, IsFrame
  <2>2. QED  BY <1>6, <2>1, UniqueIsFree
<1>8. PICK handed : handed = Append(f.handed, number.id)
  OBVIOUS
<1>9. /\ handed \in Seq(DOMAIN number.counts)
      /\ IsInjective(handed) /\ ToSet(handed) \cap f.explicit = {}
  BY <1>1, <1>2, <1>3, <1>7, <1>8, HandedMore
<1>10. PICK s : s = [part |-> part, at |-> f.next, kind |-> site.kind, id |-> number.id, how |-> "generated"]
  OBVIOUS
<1>11. s \in ShownSet(f.doc)
  BY <1>4, <1>7, <1>10 DEF ShownSet, Site
<1>12. PICK shown : shown = Append(f.shown, s)
  OBVIOUS
<1>13. shown \in Seq(ShownSet(f.doc)) /\ Ids(shown, {"authored", "stamped"}) \subseteq f.explicit
  BY <1>3, <1>10, <1>11, <1>12, ShownMore
<1>14. PICK new : new = [f EXCEPT !.next = @ + 1, !.used = number.counts,
                                  !.handed = handed, !.shown = shown]
  OBVIOUS
<1>15. IsFrame(new)
  BY <1>3, <1>7, <1>9, <1>13, <1>14 DEF IsFrame, Fields, ShownSet
<1>16. Apart(new)
  BY <1>1, <1>2, <1>3, <1>7, <1>9, <1>13, <1>14 DEF Apart, IsFrame, Fields
<1>17. Continue(new)
  BY <1>2, <1>5, <1>6, <1>8, <1>10, <1>12, <1>14 DEF Generate, Shown
<1>18. QED  BY <1>1, <1>15, <1>16, <1>17, TopStep

-----------------------------------------------------------------------------
\* The names citations and entries ask for are ids.
LEMMA NamesAreIds ==
    ASSUME NEW key \in Id, NEW n \in Nat
    PROVE  CiteName(key, n) \in Id /\ RefName(key) \in Id
<1>1. Append(key, n) \in Id /\ <<Cite>> \in Id /\ <<Ref>> \in Id
  BY DocumentsTyped DEF Id
<1>2. \A x \in Id, y \in Id : x \o y \in Id
  BY ConcatProperties DEF Id
<1>3. QED  BY <1>1, <1>2 DEF CiteName, RefName

LEMMA TurnNames ==
    ASSUME Depth > 0, IsFrame(Top), NEW turn \in Turns
    PROVE  Name(turn) \in Id
<1>1. PICK i \in DOMAIN Top.cited :
          turn \in {<<1, i, n>> : n \in 1..Top.cited[i].count} \cup {<<2, i, 0>>}
  BY DEF Turns
<1>2. Top.cited[i].key \in Id /\ Top.cited[i].count \in Nat
  <2>1. PICK cited : cited = Top.cited
    OBVIOUS
  <2>2. PICK R : R = [key : Id, count : Nat]
    OBVIOUS
  <2>3. cited \in Seq(R) /\ i \in DOMAIN cited
    BY <1>1, <2>1, <2>2 DEF IsFrame
  <2>4. cited[i] \in R
    BY <2>3
  <2>5. QED  BY <2>1, <2>2, <2>4
<1>3. CASE turn \in {<<1, i, n>> : n \in 1..Top.cited[i].count}
  <2>1. PICK n \in 1..Top.cited[i].count : turn = <<1, i, n>>
    BY <1>3
  <2>2. n \in Nat
    BY <1>2
  <2>3. QED  BY <1>2, <2>1, <2>2, NamesAreIds DEF Name
<1>4. CASE turn = <<2, i, 0>>
  BY <1>2, <1>4, NamesAreIds DEF Name
<1>5. QED  BY <1>1, <1>3, <1>4

LEMMA AskCitationsStep == IInv /\ AskCitations => IInv'
<1> SUFFICES ASSUME IInv, AskCitations PROVE IInv'
  OBVIOUS
<1>1. Depth > 0 /\ UNCHANGED <<document, plan>>
  BY DEF AskCitations, At
<1>2. PICK f : f = Top
  OBVIOUS
<1>3. IsFrame(f) /\ Apart(f)
  BY <1>1, <1>2, OnTop
<1>4. PICK new : new = [f EXCEPT !.asked = TRUE]
  OBVIOUS
<1>5. IsFrame(new)
  BY <1>3, <1>4 DEF IsFrame, Fields
<1>6. Apart(new)
  BY <1>3, <1>4 DEF Apart, IsFrame, Fields
<1>7. Continue(new)
  BY <1>2, <1>4 DEF AskCitations
<1>8. QED  BY <1>1, <1>5, <1>6, <1>7, TopStep

LEMMA ReserveCitationStep == IInv /\ ReserveCitation => IInv'
<1> SUFFICES ASSUME IInv, ReserveCitation PROVE IInv'
  OBVIOUS
<1>1. Depth > 0 /\ Top.job = "render" /\ UNCHANGED <<document, plan>>
  BY DEF ReserveCitation, At
<1>2. PICK f : f = Top
  OBVIOUS
<1>3. IsFrame(f) /\ Apart(f)
  BY <1>1, <1>2, OnTop
<1>4. PICK turn \in Due :
        Continue([Top EXCEPT !.used = Unique(Name(turn), Top.used).counts,
                             !.handed = Append(@, Unique(Name(turn), Top.used).id),
                             !.given = [x \in DOMAIN @ \cup {Name(turn)} |->
                                 IF x = Name(turn) THEN Unique(Name(turn), Top.used).id ELSE @[x]]])
  BY DEF ReserveCitation
<1>5. PICK name : name = Name(turn)
  OBVIOUS
<1>6. name \in Id
  BY <1>1, <1>2, <1>3, <1>4, <1>5, TurnNames DEF Due
<1>7. PICK number : number = Unique(name, f.used)
  OBVIOUS
<1>8. /\ number.id \in Id /\ number.id \notin DOMAIN f.used
      /\ IsCounts(number.counts) /\ DOMAIN number.counts = DOMAIN f.used \cup {number.id}
  BY <1>3, <1>6, <1>7, UniqueIsFree DEF IsFrame
<1>9. PICK handed : handed = Append(f.handed, number.id)
  OBVIOUS
<1>10. /\ handed \in Seq(DOMAIN number.counts)
       /\ IsInjective(handed) /\ ToSet(handed) \cap f.explicit = {}
  BY <1>1, <1>2, <1>3, <1>8, <1>9, HandedMore
<1>11. PICK given : given = [x \in DOMAIN f.given \cup {name} |->
                                 IF x = name THEN number.id ELSE f.given[x]]
  OBVIOUS
<1>12. \A x \in DOMAIN given : given[x] \in Id
  BY <1>3, <1>8, <1>11 DEF IsFrame
<1>13. PICK new : new = [f EXCEPT !.used = number.counts, !.handed = handed, !.given = given]
  OBVIOUS
<1>14. IsFrame(new)
  BY <1>3, <1>8, <1>10, <1>12, <1>13 DEF IsFrame, Fields
<1>15. Apart(new)
  BY <1>1, <1>2, <1>3, <1>8, <1>10, <1>13 DEF Apart, IsFrame, Fields
<1>16. Continue(new)
  BY <1>2, <1>4, <1>5, <1>7, <1>9, <1>11, <1>13
<1>17. QED  BY <1>1, <1>14, <1>15, <1>16, TopStep

LEMMA ShowCitationStep == IInv /\ ShowCitation => IInv'
<1> SUFFICES ASSUME IInv, ShowCitation PROVE IInv'
  OBVIOUS
<1>1. /\ Depth > 0 /\ Top.job \in {"render"} /\ Top.parts # << >>
      /\ Top.next <= Len(Top.doc.parts[Head(Top.parts)]) /\ UNCHANGED <<document, plan>>
  BY DEF ShowCitation, At, AtSite, Part
<1>2. PICK f : f = Top
  OBVIOUS
<1>3. IsFrame(f) /\ Apart(f)
  BY <1>1, <1>2, OnTop
<1> DEFINE part == Head(f.parts)
           site == f.doc.parts[part][f.next]
<1>4. /\ part \in Parts(f.doc) /\ f.next \in DOMAIN f.doc.parts[part]
      /\ f.doc.parts[part] \in Seq(Site) /\ site \in Site
  BY <1>1, <1>2, <1>3, SiteOnTop
<1>5. part = Part /\ site = Site1
  BY <1>2 DEF Part, Site1
<1> HIDE DEF part, site
<1>6. PICK name : name = IF site.kind = "entry" THEN RefName(site.name)
                         ELSE CiteName(site.name, site.use)
  OBVIOUS
<1>7. Given(name) \in Id
  <2>1. site.name \in Id /\ site.use \in Nat
    BY <1>4 DEF Site
  <2>2. name \in Id
    BY <1>6, <2>1, NamesAreIds
  <2>3. QED  BY <1>2, <1>3, <2>2 DEF Given, IsFrame
<1>8. PICK s : s = [part |-> part, at |-> f.next, kind |-> site.kind, id |-> Given(name), how |-> "generated"]
  OBVIOUS
<1>9. s \in ShownSet(f.doc)
  BY <1>4, <1>7, <1>8 DEF ShownSet, Site
<1>10. PICK shown : shown = IF site.kind = "cite" /\ site.use = 0 THEN f.shown ELSE Append(f.shown, s)
  OBVIOUS
<1>11. shown \in Seq(ShownSet(f.doc)) /\ Ids(shown, {"authored", "stamped"}) \subseteq f.explicit
  <2>1. /\ Append(f.shown, s) \in Seq(ShownSet(f.doc))
        /\ Ids(Append(f.shown, s), {"authored", "stamped"}) \subseteq f.explicit
    BY <1>3, <1>8, <1>9, ShownMore
  <2>2. f.shown \in Seq(ShownSet(f.doc)) /\ Ids(f.shown, {"authored", "stamped"}) \subseteq f.explicit
    BY <1>3 DEF IsFrame, Apart, ShownSet
  <2>3. QED  BY <1>10, <2>1, <2>2
<1>12. PICK new : new = [f EXCEPT !.next = @ + 1, !.shown = shown]
  OBVIOUS
<1>13. IsFrame(new)
  BY <1>3, <1>11, <1>12 DEF IsFrame, Fields, ShownSet
<1>14. Apart(new)
  BY <1>1, <1>2, <1>3, <1>11, <1>12 DEF Apart, IsFrame, Fields
<1>15. Continue(new)
  BY <1>2, <1>5, <1>6, <1>8, <1>10, <1>12 DEF ShowCitation, Shown
<1>16. QED  BY <1>1, <1>13, <1>14, <1>15, TopStep

LEMMA NestStep == IInv /\ Nest => IInv'
<1> SUFFICES ASSUME IInv, Nest PROVE IInv'
  OBVIOUS
<1>1. Depth > 0 /\ Top.job = "render" /\ UNCHANGED <<document, plan>>
  BY DEF Nest, At
<1>2. PICK f : f = Top
  OBVIOUS
<1>3. /\ stack \in Seq(ToSet(stack)) /\ Depth \in Nat /\ Depth \in 1..Depth
      /\ IsFrame(f) /\ Apart(f)
  BY <1>1, <1>2, OnTop
<1>4. PICK doc \in Inner :
        stack' = Append([stack EXCEPT ![Depth].next = @ + 1], Frame("seed", doc))
  BY DEF Nest
<1>5. PICK new : new = [f EXCEPT !.next = @ + 1]
  OBVIOUS
<1>6. IsFrame(new)
  BY <1>3, <1>5 DEF IsFrame, Fields
<1>7. Apart(new)
  BY <1>3, <1>5 DEF Apart, IsFrame, Fields
<1>8. PICK inner : inner = Frame("seed", doc)
  OBVIOUS
<1>9. IsFrame(inner) /\ Apart(inner)
  BY <1>8, FrameBegins, DocumentsTyped
<1>10. PICK below : below = [stack EXCEPT ![Depth] = new]
  OBVIOUS
<1>11. /\ below \in Seq(ToSet(stack) \cup {new}) /\ Len(below) = Depth
       /\ \A i \in 1..Depth : below[i] = IF i = Depth THEN new ELSE stack[i]
  BY <1>3, <1>10 DEF Depth
<1>12. stack' = Append(below, inner)
  BY <1>2, <1>4, <1>5, <1>8, <1>10 DEF Top
<1>13. /\ stack' \in Seq(ToSet(stack) \cup {new, inner}) /\ Len(stack') = Depth + 1
       /\ \A i \in 1..Depth : stack'[i] = below[i]
       /\ stack'[Depth + 1] = inner
  <2>1. below \in Seq(ToSet(stack) \cup {new, inner}) /\ inner \in ToSet(stack) \cup {new, inner}
    BY <1>11
  <2>2. QED  BY <1>11, <1>12, <2>1, AppendProperties
<1>14. stack' \in Seq(ToSet(stack'))
  BY <1>13, OwnElements
<1>15. new.job = "render"
  BY <1>1, <1>2, <1>3, <1>5 DEF IsFrame, Fields
<1>16. \A i \in 1..(Depth + 1) : /\ IsFrame(stack'[i]) /\ Apart(stack'[i])
                                 /\ i < Depth + 1 => stack'[i].job = "render"
  BY SMTT(30), <1>3, <1>6, <1>7, <1>9, <1>11, <1>13, <1>15 DEF IInv, TypeOK
<1>17. QED  BY <1>1, <1>13, <1>14, <1>16 DEF IInv, TypeOK, Depth

\* The job below goes on when the one on top is done.
LEMMA ReturnStep ==
    ASSUME IInv, Depth > 0, Return
    PROVE  /\ stack' \in Seq(ToSet(stack')) /\ Depth' = Depth - 1
           /\ \A i \in 1..(Depth - 1) : stack'[i] = stack[i]
           /\ \A i \in 1..Depth' : /\ IsFrame(stack'[i]) /\ Apart(stack'[i])
                                   /\ i < Depth' => stack'[i].job = "render"
<1>1. stack \in Seq(ToSet(stack)) /\ Depth \in Nat /\ Depth = Len(stack)
  BY OnTop DEF Depth
<1>2. PICK S : S = ToSet(stack)
  OBVIOUS
<1>3. /\ stack' \in Seq(S) /\ Len(stack') = Depth - 1
      /\ \A i \in 1..(Depth - 1) : stack'[i] = stack[i]
  <2>1. stack \in Seq(S) /\ 1 \in 1..(Len(stack) + 1) /\ Depth - 1 \in 0..Len(stack)
    BY <1>1, <1>2
  <2>2. stack' = SubSeq(stack, 1, Depth - 1)
    BY DEF Return
  <2>3. QED  BY <1>1, <2>1, <2>2
<1>4. stack' \in Seq(ToSet(stack')) /\ Depth' = Depth - 1
  BY <1>3, OwnElements DEF Depth
<1>5. ASSUME NEW i \in 1..Depth'
      PROVE  IsFrame(stack'[i]) /\ Apart(stack'[i]) /\ stack'[i].job = "render"
  <2>1. i \in 1..Depth /\ i < Depth /\ stack'[i] = stack[i]
    BY <1>1, <1>3, <1>4
  <2>2. QED  BY <2>1 DEF IInv, TypeOK
<1>6. QED  BY <1>3, <1>4, <1>5

LEMMA EndingSteps == IInv /\ (EndRender \/ FinishIndex \/ FinishStamp) => IInv'
<1> SUFFICES ASSUME IInv, EndRender \/ FinishIndex \/ FinishStamp PROVE IInv'
  OBVIOUS
<1>1. Depth > 0 /\ Return /\ plan' = plan
  BY DEF EndRender, FinishIndex, FinishStamp, Ended
<1>2. IsDoc(document)'
  <2>1. IsDoc(document) /\ IsDoc(Top.doc)
    BY <1>1, OnTop DEF IInv, TypeOK, IsFrame
  <2>2. document' = document \/ document' = Top.doc
    BY DEF EndRender, FinishIndex, FinishStamp
  <2>3. QED  BY <2>1, <2>2
<1>3. plan' \in Seq({"stamp", "extend", "index", "render"})
  BY <1>1 DEF IInv, TypeOK
<1>4. QED  BY <1>1, <1>2, <1>3, ReturnStep DEF IInv, TypeOK

LEMMA BeginStep == IInv /\ Begin => IInv'
<1> SUFFICES ASSUME IInv, Begin PROVE IInv'
  OBVIOUS
<1>1. /\ plan # << >> /\ plan \in Seq({"stamp", "extend", "index", "render"})
      /\ Head(plan) # "extend" /\ plan' = Tail(plan) /\ document' = document
      /\ IsDoc(document)
  BY DEF Begin, IInv, TypeOK
<1>2. /\ Head(plan) \in {"stamp", "extend", "index", "render"}
      /\ plan' \in Seq({"stamp", "extend", "index", "render"})
  BY <1>1, HeadTailProperties
<1>3. PICK job : job = IF Head(plan) = "render" THEN "seed" ELSE Head(plan)
  OBVIOUS
<1>4. PICK f : f = Frame(job, document)
  OBVIOUS
<1>5. IsFrame(f) /\ Apart(f)
  BY <1>1, <1>2, <1>3, <1>4, FrameBegins
<1>6. stack' = <<f>>
  BY <1>3, <1>4 DEF Begin
<1>7. stack' \in Seq(ToSet(stack')) /\ Len(stack') = 1 /\ stack'[1] = f
  BY <1>6 DEF ToSet
<1>8. QED  BY <1>1, <1>2, <1>5, <1>7 DEF IInv, TypeOK, Depth

LEMMA ExtendStep == IInv /\ Extend => IInv'
<1> SUFFICES ASSUME IInv, Extend PROVE IInv'
  OBVIOUS
<1>1. /\ plan # << >> /\ plan \in Seq({"stamp", "extend", "index", "render"})
      /\ plan' = Tail(plan) /\ stack' = stack /\ IsDoc(document)
  BY DEF Extend, IInv, TypeOK
<1>2. plan' \in Seq({"stamp", "extend", "index", "render"})
  BY <1>1, HeadTailProperties
<1>3. \/ \E site \in Added :
            \/ document' = [document EXCEPT !.parts[0] = <<site>> \o @]
            \/ document' = [document EXCEPT !.parts[0] = Append(@, site)]
      \/ \E k \in DOMAIN document.parts[0] :
            document' = [document EXCEPT !.parts[0][k].within = "closed"]
  BY DEF Extend
<1>4. \A site \in Added : site \in Site /\ site.kind = "heading"
  BY DocumentsTyped
<1>5. PICK old : old = document
  OBVIOUS
<1>6. PICK body : body = old.parts[0]
  OBVIOUS
<1>7. old.parts \in [0..Len(old.source) -> Seq(Site)] /\ 0 \in 0..Len(old.source)
  BY <1>1, <1>5 DEF IsDoc
<1>8. body \in Seq(Site) /\ Len(body) \in Nat /\ DOMAIN body = 1..Len(body)
  BY <1>6, <1>7
<1>9. \A k \in DOMAIN body : body[k].kind \in {"block", "inline"} => body[k].id # NoId
  BY <1>1, <1>5, <1>6, <1>7 DEF IsDoc, Parts
<1>10. ASSUME NEW more \in Seq(Site), document' = [old EXCEPT !.parts[0] = more],
              \A k \in DOMAIN more : more[k].kind \in {"block", "inline"} => more[k].id # NoId
       PROVE  IsDoc(document')
  <2>1. PICK doc : doc = [old EXCEPT !.parts[0] = more]
    OBVIOUS
  <2>2. /\ DOMAIN doc = DOMAIN old /\ doc.source = old.source /\ doc.refs = old.refs
        /\ doc.parts = [old.parts EXCEPT ![0] = more]
    BY <1>1, <1>5, <2>1 DEF IsDoc
  <2>3. doc.parts \in [0..Len(doc.source) -> Seq(Site)]
    BY <1>7, <2>2
  <2>4. \A n \in Parts(doc) : doc.parts[n] = IF n = 0 THEN more ELSE old.parts[n]
    BY <1>7, <2>2 DEF Parts
  <2>5. Parts(doc) = Parts(old)
    BY <1>7, <2>3, <2>2 DEF Parts
  <2>6. ASSUME NEW n \in Parts(doc), NEW k \in DOMAIN doc.parts[n],
               doc.parts[n][k].kind \in {"block", "inline"}
        PROVE  doc.parts[n][k].id # NoId
    <3>1. CASE n = 0
      <4>1. doc.parts[n] = more
        BY <2>4, <3>1
      <4>2. QED  BY <1>10, <2>6, <4>1
    <3>2. CASE n # 0
      <4>1. doc.parts[n] = old.parts[n] /\ n \in Parts(old)
        BY <2>4, <2>5, <3>2
      <4>2. QED  BY <1>1, <1>5, <2>6, <4>1 DEF IsDoc
    <3>3. QED  BY <3>1, <3>2
  <2>7. IsDoc(doc)
    BY <1>1, <1>5, <2>2, <2>3, <2>6 DEF IsDoc
  <2>8. QED  BY <1>10, <2>1, <2>7
<1>11. IsDoc(document')
  <2>1. ASSUME NEW site \in Added, document' = [old EXCEPT !.parts[0] = <<site>> \o @]
        PROVE  IsDoc(document')
    <3>1. PICK more : more = <<site>> \o body
      OBVIOUS
    <3>2. <<site>> \in Seq(Site) /\ Len(<<site>>) = 1 /\ <<site>>[1] = site
      BY <1>4
    <3>3. /\ more \in Seq(Site) /\ Len(more) = 1 + Len(body)
          /\ \A k \in 1..Len(more) : more[k] = IF k <= 1 THEN site ELSE body[k - 1]
      BY <1>8, <3>1, <3>2, ConcatProperties
    <3>4. ASSUME NEW k \in DOMAIN more
          PROVE  more[k] = site \/ (k - 1 \in DOMAIN body /\ more[k] = body[k - 1])
      <4>1. k \in 1..(1 + Len(body)) /\ more[k] = IF k <= 1 THEN site ELSE body[k - 1]
        BY <3>3
      <4>2. CASE k <= 1
        BY <4>1, <4>2
      <4>3. CASE ~(k <= 1)
        BY <1>8, <4>1, <4>3
      <4>4. QED  BY <4>2, <4>3
    <3>5. \A k \in DOMAIN more : more[k].kind \in {"block", "inline"} => more[k].id # NoId
      BY <1>4, <1>9, <3>4
    <3>6. document' = [old EXCEPT !.parts[0] = more]
      BY <1>6, <2>1, <3>1
    <3>7. QED  BY <1>10, <3>3, <3>5, <3>6
  <2>2. ASSUME NEW site \in Added, document' = [old EXCEPT !.parts[0] = Append(@, site)]
        PROVE  IsDoc(document')
    <3>1. PICK more : more = Append(body, site)
      OBVIOUS
    <3>2. /\ more \in Seq(Site)
          /\ \A k \in DOMAIN more : more[k] = site \/ (k \in DOMAIN body /\ more[k] = body[k])
      <4>1. /\ more \in Seq(Site) /\ Len(more) = Len(body) + 1
            /\ \A k \in 1..Len(body) : more[k] = body[k]
            /\ more[Len(body) + 1] = site
        BY <1>4, <1>8, <3>1, AppendProperties
      <4>2. DOMAIN more = 1..(Len(body) + 1)
        BY <4>1
      <4>3. QED  BY <1>8, <4>1, <4>2
    <3>3. \A k \in DOMAIN more : more[k].kind \in {"block", "inline"} => more[k].id # NoId
      BY <1>4, <1>9, <3>2
    <3>4. document' = [old EXCEPT !.parts[0] = more]
      BY <1>6, <2>2, <3>1
    <3>5. QED  BY <1>10, <3>2, <3>3, <3>4
  <2>3. ASSUME NEW k \in DOMAIN body, document' = [old EXCEPT !.parts[0][k].within = "closed"]
        PROVE  IsDoc(document')
    <3>1. PICK mark : mark = [body[k] EXCEPT !.within = "closed"]
      OBVIOUS
    <3>2. mark \in Site /\ mark.kind = body[k].kind /\ mark.id = body[k].id
      <4>1. body[k] \in Site
        BY <1>8
      <4> QED BY <3>1, <4>1 DEF Site, Container
    <3>3. PICK more : more = [body EXCEPT ![k] = mark]
      OBVIOUS
    <3>4. /\ more \in Seq(Site)
          /\ \A j \in DOMAIN more : j \in DOMAIN body /\ more[j] = IF j = k THEN mark ELSE body[j]
      BY <1>8, <3>2, <3>3
    <3>5. \A j \in DOMAIN more : more[j].kind \in {"block", "inline"} => more[j].id # NoId
      BY <1>9, <3>2, <3>4
    <3>6. document' = [old EXCEPT !.parts[0] = more]
      BY <1>6, <2>3, <3>1, <3>3
    <3>7. QED  BY <1>10, <3>4, <3>5, <3>6
  <2>4. QED  BY <1>3, <1>5, <1>6, <2>1, <2>2, <2>3
<1>12. QED  BY <1>1, <1>2, <1>11 DEF IInv, TypeOK, Depth

-----------------------------------------------------------------------------
LEMMA InvInit == Init => IInv
<1> SUFFICES ASSUME Init PROVE IInv
  OBVIOUS
<1>1. IsDoc(document) /\ plan \in Seq({"stamp", "extend", "index", "render"})
  BY DocumentsTyped DEF Init
<1>2. stack = << >> /\ Depth = 0 /\ stack \in Seq(ToSet(stack))
  BY DEF Init, Depth
<1>3. QED  BY <1>1, <1>2 DEF IInv, TypeOK

LEMMA InvStep == IInv /\ [Next]_vars => IInv'
<1> SUFFICES ASSUME IInv, [Next]_vars PROVE IInv'
  OBVIOUS
<1>1. CASE UNCHANGED vars
  BY <1>1 DEF IInv, TypeOK, Depth, vars
<1>2. CASE Done
  BY <1>1, <1>2 DEF Done
<1>3. CASE Next /\ ~Done
  BY <1>3, BeginStep, ExtendStep, PassStep, NumberHeadingStep, CollectCitationStep,
     EndingSteps, GatherSlotsStep, StampHeadingStep, FinishSeedStep, ShowHeadingStep,
     ShowElementStep, GenerateStep, AskCitationsStep, ReserveCitationStep,
     ShowCitationStep, NestStep
     DEF Next
<1>4. QED  BY <1>1, <1>2, <1>3

\* The inductive invariant, for any documents and any plan: jobs are well formed,
\* and in every render the document's ids are in use and apart from those it
\* handed out.
THEOREM InvHolds == Spec => []IInv
BY InvInit, InvStep, PTL DEF Spec

\* The jobs, their documents and their counts are what they should be, and only
\* renders have jobs on top of them, for any documents and any plan.
THEOREM TypeCorrect == Spec => []TypeOK
<1>1. IInv => TypeOK
  BY DEF IInv
<1>2. QED  BY <1>1, InvHolds, PTL

\* An id a render hands out for a widget, a citation or an entry is no id of
\* the document's and none it has handed out, for any documents and any plan.
THEOREM HandedApartHolds == Spec => []HandedApart
<1>1. IInv => HandedApart
  <2> SUFFICES ASSUME IInv, NEW i \in 1..Renders
               PROVE  /\ IsInjective(stack[i].handed)
                      /\ ToSet(stack[i].handed) \cap Ids(stack[i].shown, {"authored", "stamped"}) = {}
    BY DEF HandedApart
  <2>1. Depth \in Nat
    BY OwnElements DEF IInv, TypeOK, Depth
  <2>2. i \in 1..Depth
    BY <2>1 DEF Renders
  <2>3. Apart(stack[i])
    BY <2>2 DEF IInv
  <2>4. QED  BY <2>3 DEF Apart
<1>2. QED  BY <1>1, InvHolds, PTL

-----------------------------------------------------------------------------
(* The refinement: a job on top that is no render yet does not show.       *)

Taken == [i \in 1..Renders |-> DOMAIN stack[i].used]
Handed == [i \in 1..Renders |-> stack[i].handed]

\* A function on the first n numbers is a sequence of its values.
LEMMA AsSequence ==
    ASSUME NEW n \in Nat, NEW f, f = [i \in 1..n |-> f[i]]
    PROVE  f \in Seq({f[i] : i \in 1..n}) /\ Len(f) = n
<1>1. PICK S : S = {f[i] : i \in 1..n}
  OBVIOUS
<1>2. f \in [1..n -> S]
  BY <1>1
<1>3. f \in Seq(S) /\ Len(f) = n
  BY <1>2
<1>4. QED  BY <1>1, <1>3

LEMMA RendersType ==
    ASSUME IInv
    PROVE  /\ Depth \in Nat /\ Renders \in Nat
           /\ Depth > 0 => Renders = IF Top.job = "render" THEN Depth ELSE Depth - 1
           /\ Depth = 0 => Renders = 0
           /\ Len(Taken) = Renders /\ Len(Handed) = Renders
<1>1. Depth \in Nat
  BY OwnElements DEF IInv, TypeOK, Depth
<1>2. /\ Renders \in Nat
      /\ Depth > 0 => Renders = IF Top.job = "render" THEN Depth ELSE Depth - 1
      /\ Depth = 0 => Renders = 0
  BY <1>1 DEF Renders
<1>3. Taken = [i \in 1..Renders |-> Taken[i]] /\ Handed = [i \in 1..Renders |-> Handed[i]]
  BY DEF Taken, Handed
<1>4. QED  BY <1>1, <1>2, <1>3, AsSequence

\* The stack after a new record for the job on top.
LEMMA AfterContinue ==
    ASSUME IInv, Depth > 0, NEW new, Continue(new)
    PROVE  /\ Depth \in Nat /\ Depth' = Depth /\ Top' = new
           /\ stack'[Depth] = new /\ \A i \in 1..Depth : i # Depth => stack'[i] = stack[i]
<1>1. stack \in Seq(ToSet(stack)) /\ Depth \in Nat /\ Depth \in 1..Len(stack)
  BY OnTop DEF Depth
<1>2. stack' = [stack EXCEPT ![Depth] = new]
  BY DEF Continue
<1>3. Len(stack') = Len(stack)
  BY <1>1, <1>2
<1>4. stack'[Depth] = new /\ \A i \in 1..Depth : i # Depth => stack'[i] = stack[i]
  BY <1>1, <1>2 DEF Depth
<1>5. Depth' = Depth
  BY <1>3 DEF Depth
<1>6. Top' = new
  BY <1>4, <1>5 DEF Top
<1>7. QED  BY <1>1, <1>4, <1>5, <1>6

\* A step of the job on top that hands out nothing does not show.
LEMMA Still ==
    ASSUME IInv, Depth > 0, NEW new, Continue(new),
           new.job = "render" <=> Top.job = "render",
           Top.job = "render" => new.used = Top.used /\ new.handed = Top.handed
    PROVE  Taken' = Taken /\ Handed' = Handed
<1>1. /\ Depth \in Nat /\ Depth' = Depth /\ Top' = new
      /\ stack'[Depth] = new /\ \A i \in 1..Depth : i # Depth => stack'[i] = stack[i]
  BY AfterContinue
<1>2. Renders' = Renders
  BY <1>1 DEF Renders
<1>3. ASSUME NEW i \in 1..Renders
      PROVE  stack'[i].used = stack[i].used /\ stack'[i].handed = stack[i].handed
  <2>1. CASE i = Depth
    <3>1. Top.job = "render"
      BY <1>1, <2>1 DEF Renders
    <3>2. QED  BY <1>1, <2>1, <3>1 DEF Top
  <2>2. CASE i # Depth
    BY <1>1, <2>2 DEF Renders
  <2>3. QED  BY <2>1, <2>2
<1>4. QED  BY <1>2, <1>3 DEF Taken, Handed

\* A step that hands out a free id is the abstract one.
LEMMA Takes ==
    ASSUME IInv, Depth > 0, NEW new, Continue(new), Top.job = "render", new.job = "render",
           NEW id, id \notin DOMAIN Top.used,
           DOMAIN new.used = DOMAIN Top.used \cup {id}, new.handed = Append(Top.handed, id)
    PROVE  Namespace!Take
<1>1. /\ Depth \in Nat /\ Depth' = Depth /\ Top' = new
      /\ stack'[Depth] = new /\ \A i \in 1..Depth : i # Depth => stack'[i] = stack[i]
  BY AfterContinue
<1>2. Renders = Depth /\ Renders' = Depth
  BY <1>1 DEF Renders
<1>3. Len(Taken) = Depth /\ Len(Handed) = Depth
  BY <1>2, RendersType
<1>4. Taken' = [i \in 1..Depth |-> IF i = Depth THEN DOMAIN Top.used \cup {id} ELSE DOMAIN stack[i].used]
  BY <1>1, <1>2 DEF Taken
<1>5. Handed' = [i \in 1..Depth |-> IF i = Depth THEN Append(Top.handed, id) ELSE stack[i].handed]
  BY <1>1, <1>2 DEF Handed
<1>6. /\ Taken = [i \in 1..Depth |-> DOMAIN stack[i].used]
      /\ Handed = [i \in 1..Depth |-> stack[i].handed]
  BY <1>2 DEF Taken, Handed
<1>7. Depth \in 1..Depth /\ Taken[Depth] = DOMAIN Top.used /\ Handed[Depth] = Top.handed
  BY <1>1, <1>6 DEF Top
<1>8. Len(Taken') = Depth
  <2>1. PICK g : g = Taken'
    OBVIOUS
  <2>2. g = [i \in 1..Depth |-> g[i]]
    BY <1>4, <2>1
  <2>3. QED  BY <1>1, <2>1, <2>2, AsSequence
<1>9. Taken' = [Taken EXCEPT ![Depth] = @ \cup {id}]
  BY <1>4, <1>6, <1>7
<1>10. Handed' = [Handed EXCEPT ![Depth] = Append(@, id)]
  BY <1>5, <1>6, <1>7
<1>11. id \in Taken'[Depth] \ Taken[Depth]
  BY <1>4, <1>7
<1>12. QED
  BY <1>3, <1>8, <1>9, <1>10, <1>11 DEF Namespace!Take, Namespace!Innermost, Taken, Handed

\* A seeded render joins the ones under way, and has handed out nothing.
LEMMA FinishSeedOpens == IInv /\ FinishSeed => Namespace!Open
<1> SUFFICES ASSUME IInv, FinishSeed PROVE Namespace!Open
  OBVIOUS
<1>1. Depth > 0 /\ Top.job = "seed"
  BY DEF FinishSeed, Ended
<1>2. PICK f : f = Top
  OBVIOUS
<1>3. IsFrame(f) /\ Apart(f)
  BY <1>1, <1>2, OnTop
<1>4. PICK new : /\ Continue(new)
                 /\ new = [[f EXCEPT !.job = "render", !.parts = Order("render", f.doc), !.next = 1]
                              EXCEPT !.counts = NoCounts]
  BY <1>2 DEF FinishSeed, Walk
<1>5. new.job = "render" /\ new.handed = << >>
  BY <1>1, <1>2, <1>3, <1>4 DEF IsFrame, Apart, Fields
<1>6. /\ Depth \in Nat /\ Depth' = Depth /\ Top' = new
      /\ stack'[Depth] = new /\ \A i \in 1..Depth : i # Depth => stack'[i] = stack[i]
  BY <1>1, <1>4, AfterContinue
<1>7. Renders = Depth - 1 /\ Renders' = Depth
  BY <1>1, <1>5, <1>6 DEF Renders
<1>8. Len(Taken) = Depth - 1 /\ Len(Handed) = Depth - 1
  BY <1>7, RendersType
<1>9. Len(Taken') = Depth
  <2>1. PICK g : g = Taken'
    OBVIOUS
  <2>2. g = [i \in 1..Depth |-> g[i]]
    BY <1>7, <2>1 DEF Taken
  <2>3. QED  BY <1>6, <2>1, <2>2, AsSequence
<1>10. \A i \in 1..(Depth - 1) : Taken'[i] = Taken[i] /\ stack'[i] = stack[i]
  BY <1>6, <1>7 DEF Taken
<1>11. Handed' = Append(Handed, << >>)
  <2>1. Handed' = [i \in 1..Depth |-> IF i = Depth THEN << >> ELSE stack[i].handed]
    BY <1>5, <1>6, <1>7 DEF Handed
  <2>2. Handed = [i \in 1..(Depth - 1) |-> stack[i].handed]
    BY <1>7 DEF Handed
  <2>3. QED  BY <1>1, <1>6, <1>8, <2>1, <2>2
<1>12. Len(Taken') = Len(Taken) + 1 /\ \A i \in 1..Len(Taken) : Taken'[i] = Taken[i]
  BY <1>6, <1>8, <1>9, <1>10
<1>13. Namespace!Open <=> /\ Len(Taken') = Len(Taken) + 1
                          /\ \A i \in 1..Len(Taken) : Taken'[i] = Taken[i]
                          /\ Handed' = Append(Handed, << >>)
  BY DEF Namespace!Open, Namespace!Innermost, Taken, Handed
<1>14. QED  BY <1>11, <1>12, <1>13

\* The innermost render ends; the one below goes on.
LEMMA EndRenderCloses == IInv /\ EndRender => Namespace!Close
<1> SUFFICES ASSUME IInv, EndRender PROVE Namespace!Close
  OBVIOUS
<1>1. Depth > 0 /\ Top.job = "render" /\ Return
  BY DEF EndRender, Ended
<1>2. /\ Depth \in Nat /\ Depth' = Depth - 1
      /\ \A i \in 1..(Depth - 1) : stack'[i] = stack[i]
  BY <1>1, ReturnStep, RendersType
<1>3. Renders = Depth /\ Renders' = Depth - 1
  <2>1. CASE Depth' = 0
    BY <1>1, <1>2, <2>1 DEF Renders
  <2>2. CASE Depth' > 0
    <3>1. Depth - 1 \in 1..Depth /\ Depth - 1 < Depth /\ stack'[Depth - 1] = stack[Depth - 1]
      BY <1>2, <2>2
    <3>2. stack[Depth - 1].job = "render"
      BY <3>1 DEF IInv, TypeOK
    <3>3. Top'.job = "render"
      BY <1>2, <3>1, <3>2 DEF Top
    <3>4. QED  BY <1>1, <1>2, <3>3 DEF Renders
  <2>3. QED  BY <1>1, <1>2, <2>1, <2>2
<1>4. /\ Taken = [i \in 1..Depth |-> DOMAIN stack[i].used]
      /\ Handed = [i \in 1..Depth |-> stack[i].handed]
      /\ Taken' = [i \in 1..(Depth - 1) |-> DOMAIN stack[i].used]
      /\ Handed' = [i \in 1..(Depth - 1) |-> stack[i].handed]
  BY <1>2, <1>3 DEF Taken, Handed
<1>5. Len(Taken) = Depth
  BY <1>3, RendersType
<1>6. /\ Taken' = SubSeq(Taken, 1, Depth - 1)
      /\ Handed' = SubSeq(Handed, 1, Depth - 1)
  BY <1>1, <1>2, <1>4 DEF SubSeq
<1>7. QED
  BY <1>1, <1>2, <1>5, <1>6 DEF Namespace!Close, Namespace!Innermost, Taken, Handed

\* Jobs that are no render number, gather and stamp in the dark.
LEMMA OtherJobsAreStill ==
    ASSUME IInv, NumberHeading \/ CollectCitation \/ GatherSlots \/ StampHeading
    PROVE  Taken' = Taken /\ Handed' = Handed
<1>1. Depth > 0 /\ Top.job # "render"
  BY DEF NumberHeading, CollectCitation, GatherSlots, StampHeading, At, Ended
<1>2. PICK f : f = Top
  OBVIOUS
<1>3. DOMAIN f = Fields
  BY <1>1, <1>2, OnTop DEF IsFrame
<1>4. \E new : Continue(new) /\ new.job # "render"
  <2>1. CASE NumberHeading
    <3>1. CASE Part \notin Used(Top.doc)
      <4>1. PICK new : new = [f EXCEPT !.next = @ + 1, !.slots[Part] = Append(@, NoId)]
        OBVIOUS
      <4>2. new.job = f.job
        BY <1>3, <4>1 DEF Fields
      <4>3. QED  BY <1>1, <1>2, <2>1, <3>1, <4>1, <4>2 DEF NumberHeading
    <3>2. CASE Part \in Used(Top.doc)
      <4>1. PICK number : Continue([Top EXCEPT !.next = @ + 1, !.counts = number.counts,
                                 !.slots[Part] = Append(@, number.id),
                                 !.used = IF Top.job = "seed" THEN Kept(@, number.id) ELSE @])
        BY <2>1, <3>2 DEF NumberHeading
      <4>2. PICK new : new = [f EXCEPT !.next = @ + 1, !.counts = number.counts,
                                 !.slots[Part] = Append(@, number.id),
                                 !.used = IF Top.job = "seed" THEN Kept(@, number.id) ELSE @]
        OBVIOUS
      <4>3. new.job = f.job
        BY <1>3, <4>2 DEF Fields
      <4>4. QED  BY <1>1, <1>2, <4>1, <4>2, <4>3
    <3>3. QED  BY <3>1, <3>2
  <2>2. CASE CollectCitation
    <3>1. PICK cited : Continue([Top EXCEPT !.next = @ + 1, !.cited = cited])
      BY <2>2 DEF CollectCitation
    <3>2. PICK new : new = [f EXCEPT !.next = @ + 1, !.cited = cited]
      OBVIOUS
    <3>3. new.job = f.job
      BY <1>3, <3>2 DEF Fields
    <3>4. QED  BY <1>1, <1>2, <3>1, <3>2, <3>3
  <2>3. CASE GatherSlots
    <3>1. CASE Continue(Walk("gather"))
      <4>1. PICK new : new = [f EXCEPT !.job = "gather", !.parts = Order("gather", f.doc), !.next = 1]
        OBVIOUS
      <4>2. new.job # "render"
        BY <1>3, <4>1 DEF Fields
      <4>3. QED  BY <1>1, <1>2, <3>1, <4>1, <4>2 DEF Walk
    <3>2. CASE Continue([Top EXCEPT !.ids = @ \o Top.slots[Part], !.parts = Tail(@)])
      <4>1. PICK new : new = [f EXCEPT !.ids = @ \o f.slots[Part], !.parts = Tail(@)]
        OBVIOUS
      <4>2. new.job = f.job
        BY <1>3, <4>1 DEF Fields
      <4>3. QED  BY <1>1, <1>2, <3>2, <4>1, <4>2
    <3>3. CASE Continue(Walk("write"))
      <4>1. PICK new : new = [f EXCEPT !.job = "write", !.parts = Order("write", f.doc), !.next = 1]
        OBVIOUS
      <4>2. new.job # "render"
        BY <1>3, <4>1 DEF Fields
      <4>3. QED  BY <1>1, <1>2, <3>3, <4>1, <4>2 DEF Walk
    <3>4. QED  BY <2>3, <3>1, <3>2, <3>3 DEF GatherSlots
  <2>4. CASE StampHeading
    <3>1. CASE Continue([Top EXCEPT !.next = @ + 1, !.ids = Tail(@),
                                    !.doc.parts[Part][Top.next].id = Head(Top.ids)])
      <4>1. PICK new : new = [f EXCEPT !.next = @ + 1, !.ids = Tail(@),
                                       !.doc.parts[Part][Top.next].id = Head(Top.ids)]
        OBVIOUS
      <4>2. new.job = f.job
        BY <1>3, <4>1 DEF Fields
      <4>3. QED  BY <1>1, <1>2, <3>1, <4>1, <4>2
    <3>2. CASE Continue([Top EXCEPT !.next = @ + 1, !.ids = IF @ = << >> THEN @ ELSE Tail(@)])
      <4>1. PICK new : new = [f EXCEPT !.next = @ + 1, !.ids = IF @ = << >> THEN @ ELSE Tail(@)]
        OBVIOUS
      <4>2. new.job = f.job
        BY <1>3, <4>1 DEF Fields
      <4>3. QED  BY <1>1, <1>2, <3>2, <4>1, <4>2
    <3>3. QED  BY <2>4, <3>1, <3>2 DEF StampHeading
  <2>5. QED  BY <2>1, <2>2, <2>3, <2>4
<1>5. QED  BY <1>1, <1>4, Still

\* A render that walks on, or writes what it has, hands out nothing.
LEMMA WritingIsStill ==
    ASSUME IInv, Pass \/ ShowHeading \/ ShowElement \/ AskCitations \/ ShowCitation
    PROVE  Taken' = Taken /\ Handed' = Handed
<1>1. Depth > 0
  BY DEF Pass, ShowHeading, ShowElement, AskCitations, ShowCitation, At
<1>2. PICK f : f = Top
  OBVIOUS
<1>3. DOMAIN f = Fields
  BY <1>1, <1>2, OnTop DEF IsFrame
<1>4. \E new : Continue(new) /\ new.job = f.job /\ new.used = f.used /\ new.handed = f.handed
  <2>1. CASE Pass
    <3>1. CASE Continue([Top EXCEPT !.parts = Tail(@), !.next = 1])
      <4>1. PICK new : new = [f EXCEPT !.parts = Tail(@), !.next = 1]
        OBVIOUS
      <4>2. new.job = f.job /\ new.used = f.used /\ new.handed = f.handed
        BY <1>3, <4>1 DEF Fields
      <4>3. QED  BY <1>1, <1>2, <3>1, <4>1, <4>2
    <3>2. CASE Continue([Top EXCEPT !.next = @ + 1])
      <4>1. PICK new : new = [f EXCEPT !.next = @ + 1]
        OBVIOUS
      <4>2. new.job = f.job /\ new.used = f.used /\ new.handed = f.handed
        BY <1>3, <4>1 DEF Fields
      <4>3. QED  BY <1>1, <1>2, <3>2, <4>1, <4>2
    <3>3. QED  BY <2>1, <3>1, <3>2 DEF Pass
  <2>2. CASE ShowHeading
    <3>1. CASE Continue([Top EXCEPT !.next = @ + 1,
                                    !.shown = Append(@, Shown(Site1.id, "stamped"))])
      <4>1. PICK new : new = [f EXCEPT !.next = @ + 1, !.shown = Append(@, Shown(Site1.id, "stamped"))]
        OBVIOUS
      <4>2. new.job = f.job /\ new.used = f.used /\ new.handed = f.handed
        BY <1>3, <4>1 DEF Fields
      <4>3. QED  BY <1>1, <1>2, <3>1, <4>1, <4>2
    <3>2. CASE \E new : Continue([Top EXCEPT !.next = @ + 1, !.counts = new.counts,
                !.shown = Append(@, Shown(new.id,
                              IF Site1.id # NoId THEN "authored" ELSE "numbered"))])
      <4>1. PICK number : Continue([Top EXCEPT !.next = @ + 1, !.counts = number.counts,
                !.shown = Append(@, Shown(number.id,
                              IF Site1.id # NoId THEN "authored" ELSE "numbered"))])
        BY <3>2
      <4>2. PICK new : new = [f EXCEPT !.next = @ + 1, !.counts = number.counts,
                !.shown = Append(@, Shown(number.id,
                              IF Site1.id # NoId THEN "authored" ELSE "numbered"))]
        OBVIOUS
      <4>3. new.job = f.job /\ new.used = f.used /\ new.handed = f.handed
        BY <1>3, <4>2 DEF Fields
      <4>4. QED  BY <1>2, <4>1, <4>2, <4>3
    <3>3. QED  BY <2>2, <3>1, <3>2 DEF ShowHeading
  <2>3. CASE ShowElement
    <3>1. PICK new : new = [f EXCEPT !.next = @ + 1, !.shown = Append(@, Shown(Site1.id, "authored"))]
      OBVIOUS
    <3>2. new.job = f.job /\ new.used = f.used /\ new.handed = f.handed
      BY <1>3, <3>1 DEF Fields
    <3>3. QED  BY <1>1, <1>2, <2>3, <3>1, <3>2 DEF ShowElement
  <2>4. CASE AskCitations
    <3>1. PICK new : new = [f EXCEPT !.asked = TRUE]
      OBVIOUS
    <3>2. new.job = f.job /\ new.used = f.used /\ new.handed = f.handed
      BY <1>3, <3>1 DEF Fields
    <3>3. QED  BY <1>1, <1>2, <2>4, <3>1, <3>2 DEF AskCitations
  <2>5. CASE ShowCitation
    <3>1. PICK shown : Continue([Top EXCEPT !.next = @ + 1, !.shown = shown])
      BY <2>5 DEF ShowCitation
    <3>2. PICK new : new = [f EXCEPT !.next = @ + 1, !.shown = shown]
      OBVIOUS
    <3>3. new.job = f.job /\ new.used = f.used /\ new.handed = f.handed
      BY <1>3, <3>2 DEF Fields
    <3>4. QED  BY <1>2, <3>1, <3>2, <3>3
  <2>6. QED  BY <2>1, <2>2, <2>3, <2>4, <2>5
<1>5. QED  BY <1>1, <1>2, <1>4, Still

LEMMA GenerateTakes == IInv /\ Generate => Namespace!Take
<1> SUFFICES ASSUME IInv, Generate PROVE Namespace!Take
  OBVIOUS
<1>1. /\ Depth > 0 /\ Top.job = "render" /\ Top.parts # << >>
      /\ Top.next <= Len(Top.doc.parts[Head(Top.parts)])
  BY DEF Generate, At, AtSite, Part
<1>2. PICK f : f = Top
  OBVIOUS
<1>3. IsFrame(f)
  BY <1>1, <1>2, OnTop
<1>4. Site1 \in Site
  BY <1>1, <1>2, <1>3, SiteOnTop DEF Site1, Part
<1>5. PICK number : number = Unique(Site1.name, f.used)
  OBVIOUS
<1>6. /\ number.id \notin DOMAIN f.used
      /\ DOMAIN number.counts = DOMAIN f.used \cup {number.id}
  <2>1. Site1.name \in Id /\ IsCounts(f.used)
    BY <1>3, <1>4 DEF Site, IsFrame
  <2>2. QED  BY <1>5, <2>1, UniqueIsFree
<1>7. PICK new : new = [f EXCEPT !.next = @ + 1, !.used = number.counts,
                                 !.handed = Append(@, number.id),
                                 !.shown = Append(@, Shown(number.id, "generated"))]
  OBVIOUS
<1>8. /\ new.job = f.job /\ new.used = number.counts
      /\ new.handed = Append(f.handed, number.id)
  BY <1>3, <1>7 DEF IsFrame, Fields
<1>9. Continue(new)
  BY <1>2, <1>5, <1>7 DEF Generate
<1>10. QED  BY <1>1, <1>2, <1>6, <1>8, <1>9, Takes

LEMMA ReserveCitationTakes == IInv /\ ReserveCitation => Namespace!Take
<1> SUFFICES ASSUME IInv, ReserveCitation PROVE Namespace!Take
  OBVIOUS
<1>1. Depth > 0 /\ Top.job = "render"
  BY DEF ReserveCitation, At
<1>2. PICK f : f = Top
  OBVIOUS
<1>3. IsFrame(f)
  BY <1>1, <1>2, OnTop
<1>4. PICK turn \in Due :
        Continue([Top EXCEPT !.used = Unique(Name(turn), Top.used).counts,
                             !.handed = Append(@, Unique(Name(turn), Top.used).id),
                             !.given = [x \in DOMAIN @ \cup {Name(turn)} |->
                                 IF x = Name(turn) THEN Unique(Name(turn), Top.used).id ELSE @[x]]])
  BY DEF ReserveCitation
<1>5. Name(turn) \in Id
  BY <1>1, <1>2, <1>3, <1>4, TurnNames DEF Due
<1>6. PICK number : number = Unique(Name(turn), f.used)
  OBVIOUS
<1>7. /\ number.id \notin DOMAIN f.used
      /\ DOMAIN number.counts = DOMAIN f.used \cup {number.id}
  BY <1>3, <1>5, <1>6, UniqueIsFree DEF IsFrame
<1>8. PICK new : new = [f EXCEPT !.used = number.counts, !.handed = Append(@, number.id),
                                 !.given = [x \in DOMAIN @ \cup {Name(turn)} |->
                                     IF x = Name(turn) THEN number.id ELSE @[x]]]
  OBVIOUS
<1>9. /\ new.job = f.job /\ new.used = number.counts
      /\ new.handed = Append(f.handed, number.id)
  BY <1>3, <1>8 DEF IsFrame, Fields
<1>10. Continue(new)
  BY <1>2, <1>4, <1>6, <1>8
<1>11. QED  BY <1>1, <1>2, <1>7, <1>9, <1>10, Takes

\* The steps that change how many jobs there are, but no render.
LEMMA JobsAreStill ==
    ASSUME IInv, Begin \/ Extend \/ FinishIndex \/ FinishStamp \/ Nest \/ UNCHANGED vars
    PROVE  Taken' = Taken /\ Handed' = Handed
<1>1. CASE UNCHANGED stack
  BY <1>1 DEF Taken, Handed, Renders, Depth, Top
<1>2. CASE Begin
  <2>1. PICK job, doc : stack' = <<Frame(job, doc)>> /\ job # "render" /\ Depth = 0
    BY <1>2 DEF Begin
  <2>2. Depth' = 1 /\ Top' = Frame(job, doc)
    BY <2>1 DEF Depth, Top
  <2>3. Frame(job, doc).job = job
    BY DEF Frame
  <2>4. Renders = 0 /\ Renders' = 0
    BY <2>1, <2>2, <2>3 DEF Renders
  <2>5. 1..Renders = {} /\ (1..Renders)' = {}
    BY <2>4
  <2>6. QED  BY <2>4, <2>5 DEF Taken, Handed
<1>3. CASE FinishIndex \/ FinishStamp
  <2>1. Depth > 0 /\ Top.job # "render" /\ Return
    BY <1>3 DEF FinishIndex, FinishStamp, Ended
  <2>2. /\ Depth \in Nat /\ Depth' = Depth - 1
        /\ \A i \in 1..(Depth - 1) : stack'[i] = stack[i]
    BY <2>1, ReturnStep, RendersType
  <2>3. Renders = Depth - 1
    BY <2>1 DEF Renders
  <2>4. Renders' = Depth - 1
    <3>1. CASE Depth' = 0
      BY <2>2, <3>1 DEF Renders
    <3>2. CASE Depth' > 0
      <4>1. Depth - 1 \in 1..Depth /\ Depth - 1 < Depth /\ stack'[Depth - 1] = stack[Depth - 1]
        BY <2>2, <3>2
      <4>2. stack[Depth - 1].job = "render"
        BY <4>1 DEF IInv, TypeOK
      <4>3. Top'.job = "render"
        BY <2>2, <4>1, <4>2 DEF Top
      <4>4. QED  BY <2>2, <4>3 DEF Renders
    <3>3. QED  BY <2>1, <2>2, <3>1, <3>2
  <2>5. QED  BY <2>2, <2>3, <2>4 DEF Taken, Handed
<1>4. CASE Nest
  <2>1. Depth > 0 /\ Top.job = "render"
    BY <1>4 DEF Nest, At
  <2>2. PICK f : f = Top
    OBVIOUS
  <2>3. /\ stack \in Seq(ToSet(stack)) /\ Depth \in Nat /\ Depth \in 1..Depth
        /\ DOMAIN f = Fields
    BY <2>1, <2>2, OnTop DEF IsFrame
  <2>4. PICK doc : stack' = Append([stack EXCEPT ![Depth].next = @ + 1], Frame("seed", doc))
    BY <1>4 DEF Nest
  <2>5. PICK new : new = [f EXCEPT !.next = @ + 1]
    OBVIOUS
  <2>6. new.used = f.used /\ new.handed = f.handed
    BY <2>3, <2>5 DEF Fields
  <2>7. PICK inner : inner = Frame("seed", doc)
    OBVIOUS
  <2>8. inner.job = "seed"
    BY <2>7 DEF Frame
  <2>9. PICK below : below = [stack EXCEPT ![Depth] = new]
    OBVIOUS
  <2>10. /\ below \in Seq(ToSet(stack) \cup {new}) /\ Len(below) = Depth
         /\ \A i \in 1..Depth : below[i] = IF i = Depth THEN new ELSE stack[i]
    BY <2>3, <2>9 DEF Depth
  <2>11. stack' = Append(below, inner)
    BY <2>2, <2>4, <2>5, <2>7, <2>9 DEF Top
  <2>12. /\ Len(stack') = Depth + 1 /\ stack'[Depth + 1] = inner
         /\ \A i \in 1..Depth : stack'[i] = below[i]
    <3>1. below \in Seq(ToSet(stack) \cup {new, inner}) /\ inner \in ToSet(stack) \cup {new, inner}
      BY <2>10
    <3>2. QED  BY <2>10, <2>11, <3>1, AppendProperties
  <2>13. Depth' = Depth + 1
    BY <2>12 DEF Depth
  <2>14. Top' = inner
    BY <2>12, <2>13 DEF Top
  <2>15. Renders = Depth /\ Renders' = Depth
    BY <2>1, <2>3, <2>8, <2>13, <2>14 DEF Renders
  <2>16. ASSUME NEW i \in 1..Depth
         PROVE  stack'[i].used = stack[i].used /\ stack'[i].handed = stack[i].handed
    BY <2>2, <2>6, <2>10, <2>12 DEF Top
  <2>17. QED  BY <2>15, <2>16 DEF Taken, Handed
<1>5. QED  BY <1>1, <1>2, <1>3, <1>4 DEF Extend, vars

LEMMA NamespaceStep == IInv /\ [Next]_vars => [Namespace!Next]_(Namespace!vars)
<1> SUFFICES ASSUME IInv, [Next]_vars PROVE [Namespace!Next]_(Namespace!vars)
  OBVIOUS
<1>1. CASE FinishSeed
  BY <1>1, FinishSeedOpens DEF Namespace!Next
<1>2. CASE Generate \/ ReserveCitation
  BY <1>2, GenerateTakes, ReserveCitationTakes DEF Namespace!Next
<1>3. CASE EndRender
  BY <1>3, EndRenderCloses DEF Namespace!Next
<1>4. CASE Taken' = Taken /\ Handed' = Handed
  BY <1>4 DEF Namespace!vars, Taken, Handed
<1>5. QED
  BY <1>1, <1>2, <1>3, <1>4, OtherJobsAreStill, WritingIsStill, JobsAreStill DEF Next, Done

\* The renders under way implement IdNamespace: they nest, only the innermost
\* hands out ids, an id was free when it was handed out, and the render below
\* finds its namespace as it left it.
THEOREM ImplementsNamespace == Spec => NamespaceImplemented
<1>1. Init => Namespace!Init
  <2> SUFFICES ASSUME Init PROVE Namespace!Init
    OBVIOUS
  <2>1. Renders = 0
    BY DEF Init, Renders, Depth
  <2>2. 1..Renders = {}
    BY <2>1
  <2>3. Taken = << >> /\ Handed = << >>
    BY <2>2 DEF Taken, Handed
  <2>4. QED  BY <2>3 DEF Namespace!Init, Taken, Handed
<1>2. QED
  BY <1>1, NamespaceStep, InvHolds, PTL DEF Spec, NamespaceImplemented, Namespace!Spec

-----------------------------------------------------------------------------
(* Frames by themselves: what a step does to the job on top, as a relation *)
(* between its record before and after.                                    *)

PartOf(f) == Head(f.parts)
SiteOf(f) == f.doc.parts[PartOf(f)][f.next]
On(f) == f.parts # << >> /\ f.next <= Len(f.doc.parts[PartOf(f)])
Skips(f) == f.job \in {"index", "seed"} /\ PartOf(f) \notin Used(f.doc)
Stands(f, jobs, kinds) == f.job \in jobs /\ On(f) /\ ~Skips(f) /\ SiteOf(f).kind \in kinds
ShownAt(f, id, how) == [part |-> PartOf(f), at |-> f.next, kind |-> SiteOf(f).kind,
                        id |-> id, how |-> how]

\* To the next part, to the next site.
Leaves(f, new) ==
    /\ f.parts # << >> /\ f.job # "gather" /\ (Skips(f) \/ ~On(f))
    /\ new = [f EXCEPT !.parts = Tail(@), !.next = 1]
Passes(f, new) ==
    /\ f.job # "gather" /\ On(f) /\ ~Skips(f) /\ ~Stops(f.job, SiteOf(f))
    /\ new = [f EXCEPT !.next = @ + 1]

\* The numbering jobs.
Numbers(f, new) ==
    /\ Stands(f, {"stamp", "index", "seed"}, {"heading"})
    /\ IF PartOf(f) \notin Used(f.doc)
       THEN new = [f EXCEPT !.next = @ + 1, !.slots[PartOf(f)] = Append(@, NoId)]
       ELSE \E number \in {Number(f.job, SiteOf(f), f.counts, f.explicit)} :
              new = [f EXCEPT !.next = @ + 1, !.counts = number.counts,
                              !.slots[PartOf(f)] = Append(@, number.id),
                              !.used = IF f.job = "seed" THEN Kept(@, number.id) ELSE @]

Same(f) == {i \in DOMAIN f.cited : f.cited[i].key = SiteOf(f).name}
More(f) == IF SiteOf(f).use > 0 THEN 1 ELSE 0
Recited(f) ==
    IF Same(f) = {} THEN Append(f.cited, [key |-> SiteOf(f).name, count |-> More(f)])
    ELSE [i \in DOMAIN f.cited |->
             [key |-> f.cited[i].key, count |-> f.cited[i].count + IF i \in Same(f) THEN More(f) ELSE 0]]
Collects(f, new) ==
    /\ Stands(f, {"seed"}, {"cite"})
    /\ new = [f EXCEPT !.next = @ + 1, !.cited = Recited(f)]

\* The stamping.
Turns2(f, job) == [f EXCEPT !.job = job, !.parts = Order(job, f.doc), !.next = 1]
Gathers(f, new) ==
    \/ f.job = "stamp" /\ f.parts = << >> /\ new = Turns2(f, "gather")
    \/ /\ f.job = "gather" /\ f.parts # << >>
       /\ new = [f EXCEPT !.ids = @ \o f.slots[PartOf(f)], !.parts = Tail(@)]
    \/ f.job = "gather" /\ f.parts = << >> /\ new = Turns2(f, "write")
Stamps(f, new) ==
    /\ Stands(f, {"write"}, {"heading"}) /\ Stops("write", SiteOf(f))
    /\ IF f.ids # << >> /\ PartOf(f) \in Used(f.doc) /\ SiteOf(f).id = NoId
       THEN new = [f EXCEPT !.next = @ + 1, !.ids = Tail(@),
                            !.doc.parts[PartOf(f)][f.next].id = Head(f.ids)]
       ELSE new = [f EXCEPT !.next = @ + 1, !.ids = IF @ = << >> THEN @ ELSE Tail(@)]

\* The render.
Installs(f, new) ==
    /\ f.job = "seed" /\ f.parts = << >>
    /\ new = [Turns2(f, "render") EXCEPT !.counts = NoCounts]
ShowsHeading(f, new) ==
    /\ Stands(f, {"render"}, {"heading"})
    /\ IF SiteOf(f).id # NoId /\ ~SiteOf(f).authored
       THEN new = [f EXCEPT !.next = @ + 1, !.shown = Append(@, ShownAt(f, SiteOf(f).id, "stamped"))]
       ELSE \E number \in {Heading(SiteOf(f), f.counts, f.explicit)} :
              new = [f EXCEPT !.next = @ + 1, !.counts = number.counts,
                  !.shown = Append(@, ShownAt(f, number.id,
                                IF SiteOf(f).id # NoId THEN "authored" ELSE "numbered"))]
ShowsElement(f, new) ==
    /\ Stands(f, {"render"}, {"block", "inline"})
    /\ new = [f EXCEPT !.next = @ + 1, !.shown = Append(@, ShownAt(f, SiteOf(f).id, "authored"))]
Generates(f, new) ==
    /\ Stands(f, {"render"}, {"widget"})
    /\ \E number \in {Unique(SiteOf(f).name, f.used)} :
         new = [f EXCEPT !.next = @ + 1, !.used = number.counts,
                         !.handed = Append(@, number.id),
                         !.shown = Append(@, ShownAt(f, number.id, "generated"))]

NameIn(f, turn) ==
    IF turn[1] = 1 THEN CiteName(f.cited[turn[2]].key, turn[3]) ELSE RefName(f.cited[turn[2]].key)
TurnsIn(f) ==
    UNION {{<<1, i, n>> : n \in 1..f.cited[i].count} \cup {<<2, i, 0>>} : i \in DOMAIN f.cited}
DueIn(f) == {turn \in TurnsIn(f) : NameIn(f, turn) \notin DOMAIN f.given}
Asks(f, new) ==
    /\ Stands(f, {"render"}, {"cite", "entry"}) /\ ~f.asked
    /\ new = [f EXCEPT !.asked = TRUE]
Reserves(f, new) ==
    /\ Stands(f, {"render"}, {"cite", "entry"}) /\ f.asked
    /\ \E turn \in DueIn(f) :
         /\ \A other \in DueIn(f) : ~Before(other, turn)
         /\ \E number \in {Unique(NameIn(f, turn), f.used)} :
              new = [f EXCEPT !.used = number.counts, !.handed = Append(@, number.id),
                              !.given = [x \in DOMAIN @ \cup {NameIn(f, turn)} |->
                                  IF x = NameIn(f, turn) THEN number.id ELSE @[x]]]
GivenIn(f, name) == IF name \in DOMAIN f.given THEN f.given[name] ELSE name
CitedAs(site) == IF site.kind = "entry" THEN RefName(site.name) ELSE CiteName(site.name, site.use)
ShowsCitation(f, new) ==
    /\ Stands(f, {"render"}, {"cite", "entry"}) /\ f.asked /\ DueIn(f) = {}
    /\ new = [f EXCEPT !.next = @ + 1, !.shown =
           IF SiteOf(f).kind = "cite" /\ SiteOf(f).use = 0 THEN @
           ELSE Append(@, ShownAt(f, GivenIn(f, CitedAs(SiteOf(f))), "generated"))]
Hosts(f, new) ==
    /\ Stands(f, {"render"}, {"nest"})
    /\ new = [f EXCEPT !.next = @ + 1]

Moves(f, new) ==
    \/ Leaves(f, new) \/ Passes(f, new) \/ Numbers(f, new) \/ Collects(f, new)
    \/ Gathers(f, new) \/ Stamps(f, new) \/ Installs(f, new)
    \/ ShowsHeading(f, new) \/ ShowsElement(f, new) \/ Generates(f, new)
    \/ Asks(f, new) \/ Reserves(f, new) \/ ShowsCitation(f, new) \/ Hosts(f, new)

\* A step of the program moves the job on top, starts one, or ends one.
LEMMA TopMoves ==
    ASSUME Depth > 0,
           Pass \/ NumberHeading \/ CollectCitation \/ GatherSlots \/ StampHeading \/ FinishSeed
           \/ ShowHeading \/ ShowElement \/ Generate \/ AskCitations \/ ReserveCitation \/ ShowCitation
    PROVE  \E new : Continue(new) /\ Moves(Top, new)
<1>1. CASE Pass
  BY <1>1 DEF Pass, AtSite, Skipped, Site1, Part, Leaves, Passes, On, Skips, SiteOf, PartOf, Moves
<1>2. CASE NumberHeading
  <2>1. Stands(Top, {"stamp", "index", "seed"}, {"heading"}) /\ PartOf(Top) = Part /\ SiteOf(Top) = Site1
    BY <1>2 DEF NumberHeading, At, AtSite, Skipped, Site1, Part, On, Skips, SiteOf, PartOf, Stands
  <2>2. \E new : Continue(new) /\ Numbers(Top, new)
    BY <1>2, <2>1 DEF NumberHeading, Numbers, Part, PartOf
  <2> QED BY <2>2 DEF Moves
<1>3. CASE CollectCitation
  <2>1. Stands(Top, {"seed"}, {"cite"}) /\ PartOf(Top) = Part /\ SiteOf(Top) = Site1
    BY <1>3 DEF CollectCitation, At, AtSite, Skipped, Site1, Part, On, Skips, SiteOf, PartOf, Stands
  <2>2. \E new : Continue(new) /\ Collects(Top, new)
    BY <1>3, <2>1 DEF CollectCitation, Collects, Recited, Same, More
  <2> QED BY <2>2 DEF Moves
<1>4. CASE GatherSlots
  BY <1>4 DEF GatherSlots, Ended, Walk, Gathers, Turns2, Part, PartOf, Moves
<1>5. CASE StampHeading
  <2>1. Stands(Top, {"write"}, {"heading"}) /\ PartOf(Top) = Part /\ SiteOf(Top) = Site1
    BY <1>5 DEF StampHeading, At, AtSite, Skipped, Site1, Part, On, Skips, SiteOf, PartOf, Stands
  <2>2. \E new : Continue(new) /\ Stamps(Top, new)
    BY <1>5, <2>1 DEF StampHeading, Stamps
  <2> QED BY <2>2 DEF Moves
<1>6. CASE FinishSeed
  BY <1>6 DEF FinishSeed, Ended, Walk, Installs, Turns2, Moves
<1>7. ASSUME NEW kinds, At({"render"}, kinds)
      PROVE  Stands(Top, {"render"}, kinds) /\ PartOf(Top) = Part /\ SiteOf(Top) = Site1
  BY <1>7 DEF At, AtSite, Skipped, Site1, Part, On, Skips, SiteOf, PartOf, Stands
<1>8. \A id, how : PartOf(Top) = Part /\ SiteOf(Top) = Site1 => ShownAt(Top, id, how) = Shown(id, how)
  BY DEF ShownAt, Shown
<1>9. CASE ShowHeading
  <2>1. Stands(Top, {"render"}, {"heading"}) /\ PartOf(Top) = Part /\ SiteOf(Top) = Site1
    BY <1>7, <1>9 DEF ShowHeading
  <2>2. \E new : Continue(new) /\ ShowsHeading(Top, new)
    BY <1>8, <1>9, <2>1 DEF ShowHeading, ShowsHeading
  <2> QED BY <2>2 DEF Moves
<1>10. CASE ShowElement
  <2>1. Stands(Top, {"render"}, {"block", "inline"}) /\ PartOf(Top) = Part /\ SiteOf(Top) = Site1
    BY <1>7, <1>10 DEF ShowElement
  <2>2. \E new : Continue(new) /\ ShowsElement(Top, new)
    BY <1>8, <1>10, <2>1 DEF ShowElement, ShowsElement
  <2> QED BY <2>2 DEF Moves
<1>11. CASE Generate
  <2>1. Stands(Top, {"render"}, {"widget"}) /\ PartOf(Top) = Part /\ SiteOf(Top) = Site1
    BY <1>7, <1>11 DEF Generate
  <2>2. \E new : Continue(new) /\ Generates(Top, new)
    BY <1>8, <1>11, <2>1 DEF Generate, Generates
  <2> QED BY <2>2 DEF Moves
<1>12. CASE AskCitations
  <2>1. Stands(Top, {"render"}, {"cite", "entry"})
    BY <1>7, <1>12 DEF AskCitations
  <2> QED BY <1>12, <2>1 DEF AskCitations, Asks, Moves
<1>13. Due = DueIn(Top) /\ \A turn : Name(turn) = NameIn(Top, turn)
  BY DEF Due, DueIn, Turns, TurnsIn, Name, NameIn
<1>14. CASE ReserveCitation
  <2>1. Stands(Top, {"render"}, {"cite", "entry"})
    BY <1>7, <1>14 DEF ReserveCitation
  <2>2. \E new : Continue(new) /\ Reserves(Top, new)
    BY <1>13, <1>14, <2>1 DEF ReserveCitation, Reserves
  <2> QED BY <2>2 DEF Moves
<1>15. CASE ShowCitation
  <2>1. Stands(Top, {"render"}, {"cite", "entry"}) /\ PartOf(Top) = Part /\ SiteOf(Top) = Site1
    BY <1>7, <1>15 DEF ShowCitation
  <2>2. \A name : Given(name) = GivenIn(Top, name)
    BY DEF Given, GivenIn
  <2>3. \E new : Continue(new) /\ ShowsCitation(Top, new)
    BY <1>8, <1>13, <1>15, <2>1, <2>2 DEF ShowCitation, ShowsCitation, CitedAs
  <2> QED BY <2>3 DEF Moves
<1> QED BY <1>1, <1>2, <1>3, <1>4, <1>5, <1>6, <1>9, <1>10, <1>11, <1>12, <1>14, <1>15

\* The first and the rest of a sequence.
LEMMA RestOf ==
    ASSUME NEW S, NEW s \in Seq(S), s # << >>
    PROVE  /\ Tail(s) \in Seq(S) /\ Len(s) \in Nat \ {0} /\ Head(s) = s[1] /\ s[1] \in S
           /\ Len(Tail(s)) = Len(s) - 1
           /\ \A i \in 1..(Len(s) - 1) : Tail(s)[i] = s[i + 1]
OBVIOUS

\* Every job after a step is one of before, untouched or moved, or has just begun.
LEMMA FrameSteps ==
    ASSUME IInv, [Next]_vars, NEW i \in 1..Depth'
    PROVE  \/ i \in 1..Depth /\ stack'[i] = stack[i]
           \/ i \in 1..Depth /\ Moves(stack[i], stack'[i])
           \/ Depth = 0 /\ i = 1 /\ \E job \in {"stamp", "index", "seed"} :
                  /\ stack'[i] = Frame(job, document)
                  /\ job = "stamp" => "stamp" \in ToSet(plan)
           \/ i = Depth + 1 /\ i > 1 /\ \E doc \in Inner : stack'[i] = Frame("seed", doc)
<1>1. CASE stack' = stack
  BY <1>1 DEF Depth
<1>2. CASE Begin
  <2>1. plan # << >> /\ Head(plan) # "extend" /\ plan \in Seq({"stamp", "extend", "index", "render"})
    BY <1>2 DEF Begin, IInv, TypeOK
  <2>2. Head(plan) \in {"stamp", "index", "render"}
    BY <2>1, HeadTailProperties
  <2>3. PICK job : job = IF Head(plan) = "render" THEN "seed" ELSE Head(plan)
    OBVIOUS
  <2>4. stack' = <<Frame(job, document)>> /\ job \in {"stamp", "index", "seed"}
    BY <1>2, <2>2, <2>3 DEF Begin
  <2>5. i = 1 /\ Depth = 0
    BY <1>2, <2>4 DEF Begin, Depth
  <2>6. job = "stamp" => "stamp" \in ToSet(plan)
    BY <2>1, <2>3, RestOf DEF ToSet
  <2> QED BY <2>4, <2>5, <2>6
<1>3. CASE \E new : Depth > 0 /\ Continue(new) /\ Moves(Top, new)
  <2>1. PICK new : Depth > 0 /\ Continue(new) /\ Moves(Top, new)
    BY <1>3
  <2>2. stack \in Seq(ToSet(stack)) /\ Depth \in Nat /\ Depth \in 1..Depth
    BY <2>1, OnTop
  <2>3. stack' = [stack EXCEPT ![Depth] = new]
    BY <2>1 DEF Continue
  <2>4. DOMAIN stack = 1..Depth
    BY <2>2 DEF Depth
  <2>5. Depth' = Depth
    <3>1. stack' \in Seq(ToSet(stack) \cup {new}) /\ Len(stack') = Len(stack)
      <4>1. stack \in Seq(ToSet(stack)) /\ Depth \in 1..Len(stack)
        BY <2>2 DEF Depth
      <4> QED BY <2>3, <4>1
    <3> QED BY <3>1 DEF Depth
  <2>6. stack'[i] = IF i = Depth THEN new ELSE stack[i]
    BY <2>3, <2>4, <2>5
  <2> QED BY <2>1, <2>5, <2>6 DEF Top
<1>4. CASE Nest
  <2>1. Depth > 0 /\ Top.job = "render" /\ Stands(Top, {"render"}, {"nest"})
    BY <1>4 DEF Nest, At, AtSite, Skipped, Site1, Part, On, Skips, SiteOf, PartOf, Stands
  <2>2. stack \in Seq(ToSet(stack)) /\ Depth \in Nat /\ Depth \in 1..Depth
    BY <2>1, OnTop
  <2>3. PICK doc \in Inner :
          stack' = Append([stack EXCEPT ![Depth].next = @ + 1], Frame("seed", doc))
    BY <1>4 DEF Nest
  <2>4. PICK new, below, inner : /\ new = [Top EXCEPT !.next = @ + 1] /\ inner = Frame("seed", doc)
                                 /\ below = [stack EXCEPT ![Depth] = new]
    OBVIOUS
  <2>5. stack' = Append(below, inner)
    BY <2>3, <2>4 DEF Top
  <2>6. /\ below \in Seq(ToSet(stack) \cup {new}) /\ Len(below) = Depth
        /\ \A j \in 1..Depth : below[j] = IF j = Depth THEN new ELSE stack[j]
    BY <2>2, <2>4 DEF Depth
  <2>7. /\ Len(stack') = Depth + 1 /\ stack'[Depth + 1] = inner
        /\ \A j \in 1..Depth : stack'[j] = below[j]
    <3>1. below \in Seq(ToSet(stack) \cup {new, inner}) /\ inner \in ToSet(stack) \cup {new, inner}
      BY <2>6
    <3> QED BY <2>5, <2>6, <3>1, AppendProperties
  <2>8. i \in 1..(Depth + 1)
    BY <2>7 DEF Depth
  <2>9. Moves(Top, new)
    BY <2>1, <2>4 DEF Moves, Hosts
  <2>10. CASE i = Depth + 1
    BY <2>2, <2>4, <2>7, <2>10
  <2>11. CASE i # Depth + 1
    <3>1. i \in 1..Depth
      BY <2>2, <2>8, <2>11
    <3> QED BY <2>6, <2>7, <2>9, <3>1 DEF Top
  <2> QED BY <2>10, <2>11
<1>5. CASE EndRender \/ FinishIndex \/ FinishStamp
  <2>1. Depth > 0 /\ Return
    BY <1>5 DEF EndRender, FinishIndex, FinishStamp, Ended
  <2>2. Depth' = Depth - 1 /\ \A j \in 1..(Depth - 1) : stack'[j] = stack[j]
    BY <2>1, ReturnStep
  <2>3. Depth \in Nat
    BY <2>1, OnTop
  <2> QED BY <2>2, <2>3
<1>6. CASE Extend \/ Done \/ UNCHANGED vars
  BY <1>1, <1>6 DEF Extend, Done, vars
<1>7. CASE Pass \/ NumberHeading \/ CollectCitation \/ GatherSlots \/ StampHeading \/ FinishSeed
           \/ ShowHeading \/ ShowElement \/ Generate \/ AskCitations \/ ReserveCitation \/ ShowCitation
  <2>1. Depth > 0
    BY <1>7 DEF Pass, NumberHeading, CollectCitation, GatherSlots, StampHeading, FinishSeed,
                ShowHeading, ShowElement, Generate, AskCitations, ReserveCitation, ShowCitation, At, Ended
  <2> QED BY <1>3, <1>7, <2>1, TopMoves
<1> QED BY <1>2, <1>4, <1>5, <1>6, <1>7 DEF Next

-----------------------------------------------------------------------------
(* How far a walk is: the parts left are the last of its order, and each   *)
(* part has been walked to some site.                                      *)

Ord(f) == Order(f.job, f.doc)
Behind(f) == Len(Ord(f)) - Len(f.parts)

OnWalk(f) ==
    /\ Len(f.parts) <= Len(Ord(f))
    /\ \A i \in 1..Len(f.parts) : f.parts[i] = Ord(f)[Behind(f) + i]
    /\ f.parts # << >> => f.next <= Len(f.doc.parts[PartOf(f)]) + 1
    /\ f.job = "gather" => f.next = 1

Progress(f, n) ==
    IF \E a \in 1..Behind(f) : Ord(f)[a] = n THEN Len(f.doc.parts[n])
    ELSE IF f.parts # << >> /\ PartOf(f) = n THEN f.next - 1 ELSE 0

\* An order has every part at most once, the body first.
LEMMA OrderInjective ==
    ASSUME NEW doc, IsDoc(doc), NEW job
    PROVE  /\ Order(job, doc) \in Seq(Parts(doc)) /\ IsInjective(Order(job, doc))
           /\ Len(Order(job, doc)) \in Nat \ {0} /\ Order(job, doc)[1] = 0
           /\ DOMAIN Order(job, doc) = 1..Len(Order(job, doc))
<1>1. /\ Parts(doc) = 0..Len(doc.source) /\ Len(doc.source) \in Nat
      /\ \A i \in DOMAIN doc.source : doc.source[i] # 0
      /\ \A i \in DOMAIN doc.refs : doc.refs[i] # 0
  BY DEF IsDoc, Parts
<1>2. ASSUME NEW s \in Seq(1..Len(doc.source)), IsInjective(s), NEW t, t = << 0 >> \o s
      PROVE  IsInjective(t) /\ Len(t) \in Nat \ {0} /\ t[1] = 0
  <2>1. /\ Len(t) = Len(s) + 1 /\ DOMAIN t = 1..(Len(s) + 1) /\ t[1] = 0
        /\ \A i \in 2..(Len(s) + 1) : t[i] = s[i - 1] /\ i - 1 \in DOMAIN s /\ s[i - 1] # 0
    BY <1>2
  <2>2. \A i, j \in DOMAIN t : t[i] = t[j] => i = j
    BY <1>2, <2>1 DEF IsInjective
  <2> QED BY <1>2, <2>1, <2>2 DEF IsInjective
<1>3. /\ doc.source \in Seq(1..Len(doc.source)) /\ IsInjective(doc.source)
      /\ doc.refs \in Seq(1..Len(doc.source)) /\ IsInjective(doc.refs)
  BY DEF IsDoc
<1>4. Order(job, doc) \in Seq(Parts(doc))
  BY OrderOfParts
<1>5. CASE job = "render"
  <2>1. PICK t : t = << 0 >> \o doc.refs
    OBVIOUS
  <2>2. t = Order(job, doc)
    BY <1>5, <2>1 DEF Order
  <2>3. IsInjective(t) /\ Len(t) \in Nat \ {0} /\ t[1] = 0
    BY <1>2, <1>3, <2>1
  <2> QED BY <1>4, <2>2, <2>3
<1>6. CASE job \in {"gather", "write"}
  <2>1. Order(job, doc) = [i \in 1..(Len(doc.source) + 1) |-> i - 1]
    BY <1>6 DEF Order
  <2>2. Len(Order(job, doc)) = Len(doc.source) + 1
    BY <1>1, <2>1
  <2> QED BY <1>1, <1>4, <2>1, <2>2 DEF IsInjective
<1>7. CASE job \notin {"render", "gather", "write"}
  <2>1. PICK t : t = << 0 >> \o doc.source
    OBVIOUS
  <2>2. t = Order(job, doc)
    BY <1>7, <2>1 DEF Order
  <2>3. IsInjective(t) /\ Len(t) \in Nat \ {0} /\ t[1] = 0
    BY <1>2, <1>3, <2>1
  <2> QED BY <1>4, <2>2, <2>3
<1> QED BY <1>4, <1>5, <1>6, <1>7

\* Facts about a frame on its way.
LEMMA WalkFacts ==
    ASSUME NEW f, IsFrame(f), OnWalk(f)
    PROVE  /\ Ord(f) \in Seq(Parts(f.doc)) /\ IsInjective(Ord(f)) /\ DOMAIN Ord(f) = 1..Len(Ord(f))
           /\ Len(Ord(f)) \in Nat \ {0} /\ Behind(f) \in 0..Len(Ord(f)) /\ Ord(f)[1] = 0
           /\ f.next \in Nat \ {0}
           /\ f.parts = << >> <=> Behind(f) = Len(Ord(f))
           /\ f.parts # << >> =>
                /\ Behind(f) + 1 \in DOMAIN Ord(f) /\ PartOf(f) = Ord(f)[Behind(f) + 1]
                /\ PartOf(f) \in Parts(f.doc) /\ f.doc.parts[PartOf(f)] \in Seq(Site)
                /\ Len(f.doc.parts[PartOf(f)]) \in Nat
                /\ ~\E a \in 1..Behind(f) : Ord(f)[a] = PartOf(f)
           /\ \A n \in Parts(f.doc) : f.doc.parts[n] \in Seq(Site) /\ Len(f.doc.parts[n]) \in Nat
<1>1. /\ IsDoc(f.doc) /\ f.parts \in Seq(Parts(f.doc)) /\ f.next \in Nat \ {0}
  BY DEF IsFrame
<1>2. /\ Ord(f) \in Seq(Parts(f.doc)) /\ IsInjective(Ord(f))
      /\ Len(Ord(f)) \in Nat \ {0} /\ Ord(f)[1] = 0
      /\ DOMAIN Ord(f) = 1..Len(Ord(f))
  BY <1>1, OrderInjective DEF Ord
<1>3. \A n \in Parts(f.doc) : f.doc.parts[n] \in Seq(Site) /\ Len(f.doc.parts[n]) \in Nat
  <2>1. f.doc.parts \in [0..Len(f.doc.source) -> Seq(Site)]
    BY <1>1 DEF IsDoc
  <2> QED BY <2>1 DEF Parts
<1>4. Len(f.parts) \in Nat /\ (f.parts = << >> <=> Len(f.parts) = 0)
  BY <1>1
<1>5. Behind(f) \in 0..Len(Ord(f)) /\ (f.parts = << >> <=> Behind(f) = Len(Ord(f)))
  <2>1. Len(f.parts) <= Len(Ord(f)) /\ Behind(f) = Len(Ord(f)) - Len(f.parts)
    BY DEF OnWalk, Behind
  <2>2. Len(Ord(f)) \in Nat /\ Len(f.parts) \in Nat
    BY <1>2, <1>4
  <2>3. Behind(f) \in 0..Len(Ord(f)) /\ (Len(f.parts) = 0 <=> Behind(f) = Len(Ord(f)))
    BY <2>1, <2>2
  <2> QED BY <1>4, <2>3
<1>6. ASSUME f.parts # << >>
      PROVE  /\ Behind(f) + 1 \in DOMAIN Ord(f) /\ PartOf(f) = Ord(f)[Behind(f) + 1]
             /\ PartOf(f) \in Parts(f.doc)
             /\ ~\E a \in 1..Behind(f) : Ord(f)[a] = PartOf(f)
  <2>1. 1 \in 1..Len(f.parts) /\ Head(f.parts) = f.parts[1] /\ f.parts[1] \in Parts(f.doc)
    BY <1>1, <1>4, <1>6
  <2>2. Behind(f) + 1 \in 1..Len(Ord(f))
    BY <1>2, <1>5, <1>6
  <2>3. PartOf(f) = Ord(f)[Behind(f) + 1]
    BY <2>1 DEF OnWalk, PartOf
  <2>4. ASSUME NEW a \in 1..Behind(f), Ord(f)[a] = PartOf(f)
        PROVE  FALSE
    <3>1. a \in DOMAIN Ord(f) /\ a # Behind(f) + 1
      BY <1>2, <1>5
    <3> QED BY <1>2, <2>2, <2>3, <2>4, <3>1 DEF IsInjective
  <2> QED BY <1>2, <2>1, <2>2, <2>3, <2>4 DEF PartOf
<1> QED BY <1>1, <1>2, <1>3, <1>5, <1>6

\* On to the next part: every part stays where it is, or it was skipped.
LEMMA LeavingKeeps ==
    ASSUME NEW f, IsFrame(f), OnWalk(f), NEW new, Leaves(f, new)
    PROVE  /\ OnWalk(new) /\ Behind(new) = Behind(f) + 1 /\ Ord(new) = Ord(f)
           /\ \A n \in Parts(f.doc) : (Skips(f) /\ n = PartOf(f)) \/ Progress(new, n) = Progress(f, n)
<1>1. /\ f.parts # << >> /\ f.job # "gather" /\ (Skips(f) \/ ~On(f))
      /\ new.parts = Tail(f.parts) /\ new.next = 1 /\ new.job = f.job /\ new.doc = f.doc
  BY DEF Leaves, IsFrame, Fields
<1>2. /\ f.parts \in Seq(Parts(f.doc))
      /\ Len(new.parts) = Len(f.parts) - 1 /\ Len(f.parts) \in Nat \ {0}
      /\ \A i \in 1..(Len(f.parts) - 1) : new.parts[i] = f.parts[i + 1]
      /\ new.parts \in Seq(Parts(f.doc))
  <2>1. f.parts \in Seq(Parts(f.doc))
    BY DEF IsFrame
  <2> QED BY <1>1, <2>1, RestOf
<1>3. Ord(new) = Ord(f) /\ Behind(new) = Behind(f) + 1
  <2>1. Ord(new) = Ord(f)
    BY <1>1 DEF Ord
  <2> QED BY <1>2, <2>1, WalkFacts DEF Behind
<1>4. OnWalk(new)
  <2>1. \A i \in 1..Len(new.parts) : new.parts[i] = Ord(new)[Behind(new) + i]
    <3>1. \A i \in 1..Len(new.parts) : i + 1 \in 1..Len(f.parts) /\ Behind(f) + (i + 1) = Behind(new) + i
      <4>1. Behind(f) \in Nat
        BY WalkFacts
      <4>2. Behind(new) = Behind(f) + 1 /\ Len(new.parts) = Len(f.parts) - 1 /\ Len(f.parts) \in Nat \ {0}
        BY <1>2, <1>3
      <4> QED BY <4>1, <4>2
    <3> QED BY <1>2, <1>3, <3>1 DEF OnWalk
  <2>2. new.parts # << >> => Len(new.doc.parts[PartOf(new)]) \in Nat
    <3>1. new.parts # << >> => PartOf(new) \in Parts(f.doc)
      BY <1>2 DEF PartOf
    <3> QED BY <1>1, <3>1, WalkFacts
  <2>3. Len(new.parts) <= Len(Ord(new))
    BY <1>2, <1>3, WalkFacts DEF OnWalk
  <2> QED BY <1>1, <2>1, <2>2, <2>3 DEF OnWalk
<1>5. ASSUME NEW n \in Parts(f.doc), ~(Skips(f) /\ n = PartOf(f))
      PROVE  Progress(new, n) = Progress(f, n)
  <2>1. Behind(f) \in Nat /\ PartOf(f) = Ord(f)[Behind(f) + 1]
        /\ ~\E a \in 1..Behind(f) : Ord(f)[a] = PartOf(f)
    BY <1>1, WalkFacts
  <2>2. (\E a \in 1..Behind(new) : Ord(new)[a] = n)
            <=> (n = PartOf(f) \/ \E a \in 1..Behind(f) : Ord(f)[a] = n)
    BY <1>3, <2>1
  <2>3. CASE n = PartOf(f)
    <3>1. f.next = Len(f.doc.parts[n]) + 1
      <4>1. ~On(f)
        BY <1>1, <1>5, <2>3
      <4> QED BY SMTT(30), <1>1, <2>3, <4>1, WalkFacts DEF On, OnWalk
    <3>2. Progress(new, n) = Len(f.doc.parts[n])
      BY <1>1, <2>2, <2>3 DEF Progress
    <3>3. Progress(f, n) = f.next - 1
      BY <1>1, <2>1, <2>3 DEF Progress
    <3>4. Len(f.doc.parts[n]) \in Nat
      BY WalkFacts
    <3> QED BY <3>1, <3>2, <3>3, <3>4
  <2>4. CASE n # PartOf(f)
    <3>1. ~(\E a \in 1..Behind(f) : Ord(f)[a] = n) => Progress(new, n) = 0 /\ Progress(f, n) = 0
      BY <1>1, <2>2, <2>4 DEF Progress
    <3>2. (\E a \in 1..Behind(f) : Ord(f)[a] = n) => Progress(new, n) = Progress(f, n)
      BY <1>1, <2>2 DEF Progress
    <3> QED BY <3>1, <3>2
  <2> QED BY <2>3, <2>4
<1> QED BY <1>3, <1>4, <1>5

\* Past one site: its part is one further, the others stay.
LEMMA AdvancingMoves ==
    ASSUME NEW f, IsFrame(f), OnWalk(f), On(f), f.job # "gather",
           NEW new, new.job = f.job, new.parts = f.parts, new.next = f.next + 1,
           new.doc.source = f.doc.source, new.doc.refs = f.doc.refs,
           \A n \in Parts(f.doc) : Len(new.doc.parts[n]) = Len(f.doc.parts[n])
    PROVE  /\ OnWalk(new) /\ Behind(new) = Behind(f) /\ Ord(new) = Ord(f)
           /\ PartOf(f) \in Parts(f.doc)
           /\ Progress(f, PartOf(f)) = f.next - 1
           /\ f.next \in DOMAIN f.doc.parts[PartOf(f)]
           /\ \A n \in Parts(f.doc) :
                Progress(new, n) = IF n = PartOf(f) THEN f.next ELSE Progress(f, n)
<1>1. Ord(new) = Ord(f) /\ Behind(new) = Behind(f) /\ PartOf(new) = PartOf(f)
  BY DEF Ord, Behind, Order, PartOf
<1>2. f.parts # << >> /\ f.next <= Len(f.doc.parts[PartOf(f)]) /\ f.next \in Nat \ {0}
  BY WalkFacts DEF On
<1>3. PartOf(f) \in Parts(f.doc) /\ f.next \in DOMAIN f.doc.parts[PartOf(f)]
  BY <1>2, WalkFacts
<1>4. OnWalk(new)
  BY <1>1, <1>2, <1>3, WalkFacts DEF OnWalk
<1>5. ~\E a \in 1..Behind(f) : Ord(f)[a] = PartOf(f)
  BY <1>2, WalkFacts
<1>6. Progress(f, PartOf(f)) = f.next - 1 /\ Progress(new, PartOf(f)) = (f.next + 1) - 1
  BY <1>1, <1>2, <1>5 DEF Progress
<1>7. \A n \in Parts(f.doc) : n # PartOf(f) => Progress(new, n) = Progress(f, n)
  BY <1>1 DEF Progress
<1> QED BY <1>1, <1>2, <1>3, <1>4, <1>6, <1>7

\* At the beginning nothing is walked.
LEMMA AtStart ==
    ASSUME NEW f, IsFrame(f), f.parts = Ord(f), f.next = 1
    PROVE  /\ OnWalk(f) /\ Behind(f) = 0 /\ f.parts # << >> /\ PartOf(f) = 0
           /\ \A n \in Parts(f.doc) : Progress(f, n) = 0
<1>1. /\ IsDoc(f.doc) /\ f.parts \in Seq(Parts(f.doc))
  BY DEF IsFrame
<1>2. /\ Ord(f) \in Seq(Parts(f.doc)) /\ Len(Ord(f)) \in Nat \ {0} /\ Ord(f)[1] = 0
  BY <1>1, OrderInjective DEF Ord
<1>3. Behind(f) = 0 /\ f.parts # << >> /\ PartOf(f) = 0
  BY <1>2 DEF Behind, PartOf
<1>4. 0 \in Parts(f.doc) /\ Len(f.doc.parts[0]) \in Nat
  BY <1>1 DEF IsDoc, Parts
<1>5. OnWalk(f)
  BY <1>2, <1>3, <1>4 DEF OnWalk
<1>6. \A n : ~\E a \in 1..Behind(f) : Ord(f)[a] = n
  BY <1>3
<1>7. \A n \in Parts(f.doc) : Progress(f, n) = 0
  BY <1>6, f.next - 1 = 0 DEF Progress
<1> QED BY <1>3, <1>5, <1>7

\* At the end every part of the order is walked to its end.
LEMMA AtEnd ==
    ASSUME NEW f, IsFrame(f), OnWalk(f), f.parts = << >>
    PROVE  \A a \in DOMAIN Ord(f) : Progress(f, Ord(f)[a]) = Len(f.doc.parts[Ord(f)[a]])
<1>1. Behind(f) = Len(Ord(f)) /\ DOMAIN Ord(f) = 1..Len(Ord(f))
  BY WalkFacts
<1> QED BY <1>1 DEF Progress

-----------------------------------------------------------------------------
(* The headings of a part, counted. *)

Heads(doc, n, k) == {j \in 1..k : doc.parts[n][j].kind = "heading"}

LEMMA RankFacts ==
    ASSUME NEW doc, NEW n, NEW k \in Nat
    PROVE  /\ IsFiniteSet(Heads(doc, n, k)) /\ Rank(doc, n, k) \in Nat
           /\ Rank(doc, n, 0) = 0
           /\ doc.parts[n][k + 1].kind = "heading" => Rank(doc, n, k + 1) = Rank(doc, n, k) + 1
           /\ doc.parts[n][k + 1].kind # "heading" => Rank(doc, n, k + 1) = Rank(doc, n, k)
           /\ \A j \in 0..k : Rank(doc, n, j) <= Rank(doc, n, k)
<1>1. ASSUME NEW j \in Nat
      PROVE  IsFiniteSet(Heads(doc, n, j)) /\ Rank(doc, n, j) \in Nat
  <2>1. IsFiniteSet(1..j)
    BY FS_Interval
  <2>2. Heads(doc, n, j) \subseteq 1..j
    BY DEF Heads
  <2> QED BY <2>1, <2>2, FS_Subset, FS_CardinalityType DEF Rank, Heads
<1>2. Rank(doc, n, 0) = 0
  <2>1. Heads(doc, n, 0) = {}
    BY DEF Heads
  <2> QED BY <2>1, FS_EmptySet DEF Rank, Heads
<1>3. ASSUME doc.parts[n][k + 1].kind = "heading"
      PROVE  Rank(doc, n, k + 1) = Rank(doc, n, k) + 1
  <2>1. Heads(doc, n, k + 1) = Heads(doc, n, k) \cup {k + 1} /\ k + 1 \notin Heads(doc, n, k)
    BY <1>3 DEF Heads
  <2> QED BY <1>1, <2>1, FS_AddElement DEF Rank, Heads
<1>4. ASSUME doc.parts[n][k + 1].kind # "heading"
      PROVE  Rank(doc, n, k + 1) = Rank(doc, n, k)
  <2>1. Heads(doc, n, k + 1) = Heads(doc, n, k)
    BY <1>4 DEF Heads
  <2> QED BY <2>1 DEF Rank, Heads
<1>5. ASSUME NEW j \in 0..k
      PROVE  Rank(doc, n, j) <= Rank(doc, n, k)
  <2>1. Heads(doc, n, j) \subseteq Heads(doc, n, k)
    BY DEF Heads
  <2> QED BY <1>1, <2>1, FS_Subset DEF Rank, Heads
<1> QED BY <1>1, <1>2, <1>3, <1>4, <1>5

\* Two headings of a part have two places in its list of numbers.
LEMMA RankOfHeading ==
    ASSUME NEW doc, NEW n, NEW k \in Nat \ {0}, NEW p \in Nat, k <= p,
           doc.parts[n][k].kind = "heading"
    PROVE  /\ Rank(doc, n, k) \in 1..Rank(doc, n, p)
           /\ \A j \in 1..p : doc.parts[n][j].kind = "heading" /\ Rank(doc, n, j) = Rank(doc, n, k) => j = k
<1>1. ASSUME NEW i \in Nat \ {0}, doc.parts[n][i].kind = "heading"
      PROVE  Rank(doc, n, i) = Rank(doc, n, i - 1) + 1 /\ Rank(doc, n, i - 1) \in Nat
  <2>1. i - 1 \in Nat /\ (i - 1) + 1 = i
    OBVIOUS
  <2> QED BY <1>1, <2>1, RankFacts
<1>2. \A i, j \in Nat : j <= i => Rank(doc, n, j) <= Rank(doc, n, i)
  <2> TAKE i, j \in Nat
  <2>1. j <= i => j \in 0..i
    OBVIOUS
  <2> QED BY <2>1, RankFacts
<1>3. \A i \in Nat : Rank(doc, n, i) \in Nat
  BY RankFacts
<1>4. Rank(doc, n, k) \in 1..Rank(doc, n, p)
  BY <1>1, <1>2, <1>3
<1>5. ASSUME NEW i \in Nat \ {0}, NEW j \in Nat \ {0}, i < j,
             doc.parts[n][j].kind = "heading"
      PROVE  Rank(doc, n, i) < Rank(doc, n, j)
  <2>1. i <= j - 1 /\ j - 1 \in Nat
    BY <1>5
  <2>2. Rank(doc, n, i) <= Rank(doc, n, j - 1)
    BY <1>2, <2>1
  <2>3. Rank(doc, n, i) \in Nat /\ Rank(doc, n, j - 1) \in Nat
        /\ Rank(doc, n, j) = Rank(doc, n, j - 1) + 1
    BY <1>1, <1>3, <1>5
  <2> QED BY <2>2, <2>3
<1>6. ASSUME NEW j \in 1..p, doc.parts[n][j].kind = "heading", Rank(doc, n, j) = Rank(doc, n, k)
      PROVE  j = k
  <2>1. ~(j < k) /\ ~(k < j)
    BY <1>3, <1>5, <1>6
  <2> QED BY <2>1
<1> QED BY <1>4, <1>6

-----------------------------------------------------------------------------
(* Two counts that number alike: one may lack ids the author or the parse  *)
(* wrote that the other has counted once.                                  *)

Agree(explicit, few, many) ==
    /\ DOMAIN few \subseteq DOMAIN many
    /\ \A x \in DOMAIN few : few[x] = many[x]
    /\ \A x \in DOMAIN many \ DOMAIN few : x \in explicit /\ many[x] = 1

LEMMA WithAgrees ==
    ASSUME NEW explicit, NEW few, NEW many, Agree(explicit, few, many), NEW x, NEW v
    PROVE  Agree(explicit, With(few, x, v), With(many, x, v))
<1>1. /\ DOMAIN With(few, x, v) = DOMAIN few \cup {x} /\ DOMAIN With(many, x, v) = DOMAIN many \cup {x}
      /\ \A y \in DOMAIN few \cup {x} : With(few, x, v)[y] = IF y = x THEN v ELSE few[y]
      /\ \A y \in DOMAIN many \cup {x} : With(many, x, v)[y] = IF y = x THEN v ELSE many[y]
  BY DEF With
<1> HIDE DEF With
<1> QED BY <1>1 DEF Agree

LEMMA KeptAgrees ==
    ASSUME NEW explicit, NEW few, NEW many, Agree(explicit, few, many), NEW x
    PROVE  /\ Agree(explicit, Kept(few, x), Kept(many, x))
           /\ x \in explicit => Agree(explicit, few, Kept(many, x))
<1>1. \A c : /\ DOMAIN With(c, x, 1) = DOMAIN c \cup {x}
             /\ \A y \in DOMAIN c \cup {x} : With(c, x, 1)[y] = IF y = x THEN 1 ELSE c[y]
  BY DEF With
<1>2. \A c : /\ DOMAIN Kept(c, x) = DOMAIN c \cup {x}
             /\ \A y \in DOMAIN c : Kept(c, x)[y] = c[y]
             /\ x \notin DOMAIN c => Kept(c, x)[x] = 1
  BY <1>1 DEF Kept
<1>6. PICK f, g : f = Kept(few, x) /\ g = Kept(many, x)
  OBVIOUS
<1>7. /\ DOMAIN f = DOMAIN few \cup {x} /\ \A y \in DOMAIN few : f[y] = few[y]
      /\ x \notin DOMAIN few => f[x] = 1
      /\ DOMAIN g = DOMAIN many \cup {x} /\ \A y \in DOMAIN many : g[y] = many[y]
      /\ x \notin DOMAIN many => g[x] = 1
  BY <1>2, <1>6
<1> HIDE DEF Kept
<1>3. /\ DOMAIN few \subseteq DOMAIN many /\ \A y \in DOMAIN few : few[y] = many[y]
      /\ \A y \in DOMAIN many \ DOMAIN few : y \in explicit /\ many[y] = 1
  BY DEF Agree
<1>4. Agree(explicit, f, g)
  <2>1. DOMAIN f \subseteq DOMAIN g
    BY <1>3, <1>7
  <2>2. \A y \in DOMAIN f : f[y] = g[y]
    BY <1>3, <1>7
  <2>3. \A y \in DOMAIN g \ DOMAIN f : y \in explicit /\ g[y] = 1
    BY <1>3, <1>7
  <2> QED BY <2>1, <2>2, <2>3 DEF Agree
<1>5. ASSUME x \in explicit
      PROVE  Agree(explicit, few, g)
  BY <1>3, <1>5, <1>7 DEF Agree
<1> QED BY <1>4, <1>5, <1>6

\* Counts that agree number a heading alike and still agree; they also do when only
\* the larger one counts a heading that has its id.
LEMMA HeadingAgrees ==
    ASSUME NEW explicit, NEW few, NEW many, Agree(explicit, few, many), NEW site,
           site.id # NoId => site.id \in explicit
    PROVE  /\ Heading(site, few, explicit).id = Heading(site, many, explicit).id
           /\ Agree(explicit, Heading(site, few, explicit).counts, Heading(site, many, explicit).counts)
           /\ site.id # NoId => Agree(explicit, few, Heading(site, many, explicit).counts)
<1>1. CASE site.id # NoId
  <2>1. \A c : Heading(site, c, explicit) = [id |-> site.id, counts |-> Kept(c, site.id)]
    BY <1>1 DEF Heading, Allocation
  <2> QED BY <1>1, <2>1, KeptAgrees
<1>2. CASE site.id = NoId
  <2> DEFINE base == site.name
             from(c) == IF base \in DOMAIN c THEN c[base] ELSE 1
             next(c) == NextFree(base, from(c), DOMAIN c \cup explicit)
  <2>1. DOMAIN few \cup explicit = DOMAIN many \cup explicit
    BY DEF Agree
  <2>2. CASE base \notin DOMAIN few \cup explicit
    <3>1. \A c : base \notin DOMAIN c \cup explicit =>
             Heading(site, c, explicit) = [id |-> base, counts |-> With(c, base, 1)]
      BY <1>2 DEF Heading, Allocation
    <3> QED BY <1>2, <2>1, <2>2, <3>1, WithAgrees
  <2>3. CASE base \in DOMAIN few \cup explicit
    <3>1. \A c : base \in DOMAIN c \cup explicit =>
             Heading(site, c, explicit) =
                 [id |-> Suffixed(base, next(c)),
                  counts |-> Kept(With(c, base, next(c)), Suffixed(base, next(c)))]
      BY <1>2 DEF Heading, Allocation
    <3>2. from(few) = from(many)
      BY DEF Agree
    <3>3. next(few) = next(many)
      BY <2>1, <3>2
    <3>4. PICK n : n = next(few) /\ n = next(many)
      BY <3>3
    <3>5. /\ Heading(site, few, explicit) =
                 [id |-> Suffixed(base, n), counts |-> Kept(With(few, base, n), Suffixed(base, n))]
          /\ Heading(site, many, explicit) =
                 [id |-> Suffixed(base, n), counts |-> Kept(With(many, base, n), Suffixed(base, n))]
      <4>1. base \in DOMAIN few \cup explicit /\ base \in DOMAIN many \cup explicit
        BY <2>1, <2>3
      <4> HIDE DEF next, base
      <4> QED BY <3>1, <3>4, <4>1
    <3>6. Agree(explicit, Kept(With(few, base, n), Suffixed(base, n)),
                          Kept(With(many, base, n), Suffixed(base, n)))
      BY WithAgrees, KeptAgrees
    <3> QED BY <1>2, <3>5, <3>6
  <2> QED BY <2>2, <2>3
<1> QED BY <1>1, <1>2

-----------------------------------------------------------------------------
(* A trace of a numbering: the counts in front of and behind each site.    *)

\* The jobs that number the headings, in the order of the source.
Numbering == {"seed", "index", "stamp"}

LEMMA SourceOrder ==
    ASSUME NEW doc, NEW job \in Numbering
    PROVE  Order(job, doc) = Order("seed", doc)
BY DEF Numbering, Order

Walked(doc, n) == IF n \in Used(doc) THEN Len(doc.parts[n]) ELSE 0

Traced(f, T, n, k) ==
    LET site == f.doc.parts[n][k]
        number == Number(f.job, site, T[<<n, k - 1>>], f.explicit)
    IN  /\ site.kind = "heading" =>
               T[<<n, k>>] = number.counts /\ f.slots[n][Rank(f.doc, n, k)] = number.id
        /\ site.kind # "heading" => T[<<n, k>>] = T[<<n, k - 1>>]

Chained(doc, T, upto) ==
    LET order == Order("seed", doc) IN
    /\ T[<<0, 0>>] = NoCounts
    /\ \A a \in 1..upto : a + 1 \in DOMAIN order =>
           T[<<order[a + 1], 0>>] = T[<<order[a], Walked(doc, order[a])>>]

\* Where the counts of the trace are those of the job: the sites of an unused part are
\* not numbered, though the stamping walks them.
Here(f) == IF PartOf(f) \in Used(f.doc) THEN f.next - 1 ELSE 0

Tracing(f, T) ==
    /\ DOMAIN T = Parts(f.doc) \X Nat
    /\ Chained(f.doc, T, Behind(f))
    /\ \A n \in Used(f.doc) : \A k \in 1..Progress(f, n) : Traced(f, T, n, k)
    /\ f.parts # << >> => f.counts = T[<<PartOf(f), Here(f)>>]

Slotted(f) == \A n \in Used(f.doc) : Len(f.slots[n]) = Rank(f.doc, n, Progress(f, n))

Seeding(f) ==
    /\ OnWalk(f)
    /\ Skips(f) => f.next = 1
    /\ Slotted(f)
    /\ \E T : Tracing(f, T)

LEMMA UsedParts ==
    ASSUME NEW doc, IsDoc(doc)
    PROVE  /\ Used(doc) \subseteq Parts(doc) /\ 0 \in Used(doc) /\ Parts(doc) = 0..Len(doc.source)
           /\ Len(doc.source) \in Nat
           /\ \A n \in Parts(doc) : doc.parts[n] \in Seq(Site) /\ Len(doc.parts[n]) \in Nat
                                     /\ DOMAIN doc.parts[n] = 1..Len(doc.parts[n])
<1>1. /\ doc.refs \in Seq(1..Len(doc.source)) /\ Len(doc.source) \in Nat
      /\ doc.parts \in [0..Len(doc.source) -> Seq(Site)]
  BY DEF IsDoc
<1>2. ToSet(doc.refs) \subseteq 1..Len(doc.source)
  BY <1>1 DEF ToSet
<1> QED BY <1>1, <1>2 DEF Used, Parts

\* A numbering begins with nothing counted.
LEMMA SeedingBegins ==
    ASSUME NEW doc, NEW job \in Numbering, NEW f, f = Frame(job, doc), IsFrame(f)
    PROVE  Seeding(f)
<1>1. /\ f.job = job /\ f.doc = doc /\ f.parts = Ord(f) /\ f.next = 1 /\ f.counts = NoCounts
      /\ f.slots = [n \in Parts(doc) |-> << >>]
  BY DEF Frame, Ord
<1>2. /\ IsDoc(doc) /\ Used(doc) \subseteq Parts(doc) /\ 0 \in Used(doc)
  BY <1>1, UsedParts DEF IsFrame
<1>3. /\ OnWalk(f) /\ Behind(f) = 0 /\ f.parts # << >> /\ PartOf(f) = 0
      /\ \A n \in Parts(f.doc) : Progress(f, n) = 0
  BY <1>1, AtStart
<1>4. Slotted(f)
  <2>1. \A n \in Parts(doc) : Len(f.slots[n]) = 0
    BY <1>1
  <2>2. \A n : Rank(doc, n, 0) = 0
    BY RankFacts, 0 \in Nat
  <2> QED BY <1>1, <1>2, <1>3, <2>1, <2>2 DEF Slotted
<1>5. PICK T : T = [place \in Parts(doc) \X Nat |-> NoCounts]
  OBVIOUS
<1>6. Tracing(f, T)
  <2>1. DOMAIN T = Parts(doc) \X Nat /\ T[<<0, 0>>] = NoCounts
    BY <1>2, <1>5
  <2>2. Chained(doc, T, 0)
    BY <2>1 DEF Chained
  <2>3. Here(f) = 0
    BY <1>1, 1 - 1 = 0 DEF Here
  <2> QED BY <1>1, <1>2, <1>3, <2>1, <2>2, <2>3 DEF Tracing
<1> QED BY <1>1, <1>3, <1>4, <1>6 DEF Seeding

\* On to the next part: its trace begins where this one's ends.
LEMMA SeedingLeaves ==
    ASSUME NEW f, IsFrame(f), f.job \in Numbering, Seeding(f), NEW new, IsFrame(new), Leaves(f, new)
    PROVE  Seeding(new)
<1>1. /\ f.parts # << >> /\ new.job = f.job /\ new.doc = f.doc /\ new.next = 1
      /\ new.slots = f.slots /\ new.counts = f.counts /\ new.explicit = f.explicit
      /\ new.parts = Tail(f.parts) /\ (Skips(f) \/ ~On(f))
  BY DEF Leaves, IsFrame, Fields
<1>2. OnWalk(f) /\ (Skips(f) => f.next = 1) /\ Slotted(f)
  BY DEF Seeding
<1>3. /\ OnWalk(new) /\ Behind(new) = Behind(f) + 1 /\ Ord(new) = Ord(f)
      /\ \A n \in Parts(f.doc) : (Skips(f) /\ n = PartOf(f)) \/ Progress(new, n) = Progress(f, n)
  BY <1>2, LeavingKeeps
<1>4. \A n \in Used(f.doc) : Progress(new, n) = Progress(f, n)
  BY <1>3, UsedParts DEF IsFrame, Skips
<1>5. Slotted(new)
  BY <1>1, <1>2, <1>4 DEF Slotted
<1>6. PICK T : Tracing(f, T)
  BY DEF Seeding
<1>7. /\ DOMAIN T = Parts(f.doc) \X Nat /\ f.counts = T[<<PartOf(f), Here(f)>>]
      /\ Chained(f.doc, T, Behind(f))
      /\ \A n \in Used(f.doc) : \A k \in 1..Progress(f, n) : Traced(f, T, n, k)
  BY <1>1, <1>6 DEF Tracing
<1>8. PICK order : order = Ord(f)
  OBVIOUS
<1>9. order = Order("seed", f.doc)
  BY <1>8, SourceOrder DEF Ord
<1>10. PICK b : b = Behind(f)
  OBVIOUS
<1>11. /\ order \in Seq(Parts(f.doc)) /\ DOMAIN order = 1..Len(order) /\ Len(order) \in Nat
       /\ order[1] = 0 /\ b \in Nat
       /\ b + 1 \in DOMAIN order /\ PartOf(f) = order[b + 1] /\ PartOf(f) \in Parts(f.doc)
       /\ \A i, j \in DOMAIN order : order[i] = order[j] => i = j
       /\ f.next \in Nat \ {0}
       /\ new.parts # << >> <=> b + 2 \in DOMAIN order
       /\ new.parts # << >> => PartOf(new) = order[b + 2]
  <2>2. /\ order \in Seq(Parts(f.doc)) /\ DOMAIN order = 1..Len(order) /\ Len(order) \in Nat
        /\ order[1] = 0 /\ b \in 0..Len(order) /\ IsInjective(order) /\ f.next \in Nat \ {0}
        /\ b + 1 \in DOMAIN order /\ PartOf(f) = order[b + 1] /\ PartOf(f) \in Parts(f.doc)
    BY <1>1, <1>2, <1>8, <1>10, WalkFacts
  <2>3. /\ new.parts = << >> <=> b + 1 = Len(order)
        /\ new.parts # << >> => PartOf(new) = order[(b + 1) + 1]
    BY <1>3, <1>8, <1>10, WalkFacts
  <2>4. b + 1 = Len(order) <=> b + 2 \notin DOMAIN order
    <3>1. DOMAIN order = 1..Len(order) /\ Len(order) \in Int /\ b \in Int /\ b + 1 \in 1..Len(order)
      BY <2>2
    <3>2. PICK m \in Int : m = Len(order)
      BY <3>1
    <3>3. b + 1 \in 1..m /\ b \in Int /\ b + 1 >= 1
      BY <3>1, <3>2
    <3>4. b + 1 = m <=> ~(b + 2 \in 1..m)
      BY <3>3
    <3> QED BY <3>1, <3>2, <3>4
  <2>5. (b + 1) + 1 = b + 2
    BY <2>2
  <2>6. \A i, j \in DOMAIN order : order[i] = order[j] => i = j
    BY <2>2 DEF IsInjective
  <2>7. new.parts # << >> <=> b + 2 \in DOMAIN order
    BY <2>3, <2>4
  <2>8. new.parts # << >> => PartOf(new) = order[b + 2]
    BY <2>3, <2>5
  <2>9. b \in Nat
    BY <2>2
  <2> QED BY <2>2, <2>6, <2>7, <2>8, <2>9
<1>12. Here(f) = Walked(f.doc, PartOf(f))
  <2>1. CASE PartOf(f) \notin Used(f.doc)
    BY <2>1 DEF Here, Walked
  <2>2. CASE PartOf(f) \in Used(f.doc)
    <3>1. ~On(f) /\ PartOf(f) \in Used(f.doc) /\ Len(f.doc.parts[PartOf(f)]) \in Nat
      BY <1>1, <1>2, <2>2, WalkFacts DEF Skips
    <3>2. f.next <= Len(f.doc.parts[PartOf(f)]) + 1 /\ ~(f.next <= Len(f.doc.parts[PartOf(f)]))
      BY <1>1, <1>2, <3>1 DEF On, OnWalk
    <3>3. f.next \in Nat /\ Len(f.doc.parts[PartOf(f)]) \in Nat
      BY <1>11, <3>1
    <3>4. f.next - 1 = Len(f.doc.parts[PartOf(f)])
      BY <3>2, <3>3
    <3> QED BY <3>1, <3>4 DEF Here, Walked
  <2> QED BY <2>1, <2>2
<1>13. CASE new.parts = << >>
  <2>1. Chained(f.doc, T, b + 1)
    <3>1. ASSUME NEW a \in 1..(b + 1), a + 1 \in DOMAIN order
          PROVE  a \in 1..b
      BY <1>11, <1>13, <3>1
    <3> QED BY <1>7, <1>9, <1>10, <1>11, <3>1 DEF Chained
  <2>2. ASSUME NEW n \in Used(f.doc), NEW k \in 1..Progress(new, n)
        PROVE  Traced(new, T, n, k)
    <3>1. Traced(f, T, n, k)
      BY <1>4, <1>7
    <3> QED BY <1>1, <3>1 DEF Traced
  <2>3. Behind(new) = b + 1
    BY <1>3, <1>10
  <2>4. Tracing(new, T)
    BY <1>1, <1>7, <1>13, <2>1, <2>2, <2>3 DEF Tracing
  <2> QED BY <1>1, <1>3, <1>5, <2>4 DEF Seeding
<1>14. CASE new.parts # << >>
  <2>1. PICK p : p = order[b + 2]
    OBVIOUS
  <2>2. p \in Parts(f.doc) /\ b + 2 \in DOMAIN order /\ PartOf(new) = p
    BY <1>11, <1>14, <2>1
  <2>3. PICK T2 : T2 = [T EXCEPT ![<<p, 0>>] = f.counts]
    OBVIOUS
  <2>4. /\ DOMAIN T2 = Parts(f.doc) \X Nat
        /\ T2[<<p, 0>>] = f.counts
        /\ \A n \in Parts(f.doc), k \in Nat : ~(n = p /\ k = 0) => T2[<<n, k>>] = T[<<n, k>>]
    BY <1>7, <2>2, <2>3
  <2>5. Chained(f.doc, T2, b + 1)
    <3>1. T2[<<0, 0>>] = NoCounts
      <4>1. p # 0 /\ 0 \in Parts(f.doc)
        BY <1>11, <2>1, <2>2
      <4> QED BY <1>7, <2>4, <4>1 DEF Chained
    <3>2. ASSUME NEW a \in 1..(b + 1), a + 1 \in DOMAIN order
          PROVE  T2[<<order[a + 1], 0>>] = T2[<<order[a], Walked(f.doc, order[a])>>]
      <4>1. /\ a \in DOMAIN order /\ order[a] # p /\ order[a] \in Parts(f.doc) /\ order[a + 1] \in Parts(f.doc)
        BY <1>11, <2>1, <2>2, <3>2
      <4>2. Walked(f.doc, order[a]) \in Nat
        BY <4>1, UsedParts DEF IsFrame, Walked
      <4>3. T2[<<order[a], Walked(f.doc, order[a])>>] = T[<<order[a], Walked(f.doc, order[a])>>]
        BY <2>4, <4>1, <4>2
      <4>4. CASE a = b + 1
        <5>1. T[<<order[a], Walked(f.doc, order[a])>>] = f.counts
          BY <1>7, <1>11, <1>12, <4>4
        <5>2. order[a + 1] = p
          BY <1>11, <2>1, <4>4
        <5> QED BY <2>4, <4>3, <5>1, <5>2
      <4>5. CASE a # b + 1
        <5>1. a \in 1..b /\ order[a + 1] # p
          BY <1>11, <2>1, <2>2, <3>2, <4>5
        <5>2. T[<<order[a + 1], 0>>] = T[<<order[a], Walked(f.doc, order[a])>>]
          BY <1>7, <1>9, <1>10, <3>2, <5>1 DEF Chained
        <5> QED BY <2>4, <4>1, <4>3, <5>1, <5>2
      <4> QED BY <4>4, <4>5
    <3> QED BY <1>9, <3>1, <3>2 DEF Chained
  <2>6. Progress(f, p) = 0
    <3>1. ~\E a \in 1..b : order[a] = p
      BY <1>11, <2>1, <2>2
    <3>2. PartOf(f) # p
      BY <1>11, <2>1, <2>2
    <3> QED BY <1>8, <1>10, <3>1, <3>2 DEF Progress
  <2>7. ASSUME NEW n \in Used(f.doc), NEW k \in 1..Progress(new, n)
        PROVE  Traced(new, T2, n, k)
    <3>1. n \in Parts(f.doc) /\ k \in 1..Progress(f, n)
      BY <1>4, UsedParts DEF IsFrame
    <3>2. n # p /\ k \in Nat /\ k - 1 \in Nat
      <4>1. k \in Int /\ k >= 1
        BY <3>1, <1>4, <2>6
      <4>2. n # p
        BY <2>6, <3>1
      <4> QED BY <4>1, <4>2
    <3>3. T2[<<n, k>>] = T[<<n, k>>] /\ T2[<<n, k - 1>>] = T[<<n, k - 1>>]
      BY <2>4, <3>1, <3>2
    <3>4. Traced(f, T, n, k)
      BY <1>7, <3>1
    <3> QED BY <1>1, <3>3, <3>4 DEF Traced
  <2>8. Tracing(new, T2)
    <3>1. new.counts = T2[<<PartOf(new), Here(new)>>]
      <4>1. Here(new) = 0
        BY <1>1, 1 - 1 = 0 DEF Here
      <4> QED BY <1>1, <2>2, <2>4, <4>1
    <3> QED BY <1>1, <1>3, <1>10, <2>4, <2>5, <2>7, <3>1 DEF Tracing
  <2> QED BY <1>1, <1>3, <1>5, <2>8 DEF Seeding
<1> QED BY <1>13, <1>14

\* Past a site of a used part: a heading takes the next count and slot, any other site
\* none.
LEMMA SeedingAdvances ==
    ASSUME NEW f, IsFrame(f), f.job \in Numbering, Seeding(f), On(f), PartOf(f) \in Used(f.doc),
           NEW new, IsFrame(new), new.job = f.job, new.doc = f.doc, new.parts = f.parts,
           new.next = f.next + 1, new.explicit = f.explicit,
           SiteOf(f).kind # "heading" => new.slots = f.slots /\ new.counts = f.counts,
           NEW number, number = Number(f.job, SiteOf(f), f.counts, f.explicit),
           SiteOf(f).kind = "heading" =>
               new.slots = [f.slots EXCEPT ![PartOf(f)] = Append(@, number.id)]
               /\ new.counts = number.counts
    PROVE  Seeding(new)
<1>1. OnWalk(f) /\ Slotted(f)
  BY DEF Seeding
<1>2. PICK p, q : p = PartOf(f) /\ q = f.next
  OBVIOUS
<1>3. /\ OnWalk(new) /\ Behind(new) = Behind(f) /\ Ord(new) = Ord(f)
      /\ p \in Parts(f.doc) /\ Progress(f, p) = q - 1 /\ q \in DOMAIN f.doc.parts[p]
      /\ \A n \in Parts(f.doc) : Progress(new, n) = IF n = p THEN q ELSE Progress(f, n)
  BY <1>1, <1>2, f.job # "gather", AdvancingMoves DEF Numbering
<1>4. /\ p \in Used(f.doc) /\ q \in Nat \ {0} /\ f.parts # << >> /\ PartOf(new) = p
      /\ new.parts # << >>
      /\ \A a \in 1..Behind(f) : Ord(f)[a] # p
      /\ Ord(f) \in Seq(Parts(f.doc)) /\ DOMAIN Ord(f) = 1..Len(Ord(f)) /\ Behind(f) \in 0..Len(Ord(f))
      /\ Len(Ord(f)) \in Nat
      /\ Used(f.doc) \subseteq Parts(f.doc) /\ SiteOf(f) = f.doc.parts[p][q]
  BY <1>1, <1>2, WalkFacts, UsedParts DEF On, IsFrame, PartOf, SiteOf
<1>5. /\ Rank(f.doc, p, q - 1) \in Nat /\ Rank(f.doc, p, q) \in Nat
      /\ SiteOf(f).kind = "heading" => Rank(f.doc, p, q) = Rank(f.doc, p, q - 1) + 1
      /\ SiteOf(f).kind # "heading" => Rank(f.doc, p, q) = Rank(f.doc, p, q - 1)
      /\ \A k \in 1..(q - 1) : Rank(f.doc, p, k) <= Rank(f.doc, p, q - 1) /\ Rank(f.doc, p, k) \in Nat
  <2>1. q - 1 \in Nat /\ (q - 1) + 1 = q /\ \A k \in 1..(q - 1) : k \in Nat /\ k \in 0..(q - 1)
    BY <1>4
  <2>2. /\ f.doc.parts[p][(q - 1) + 1].kind = "heading" =>
               Rank(f.doc, p, (q - 1) + 1) = Rank(f.doc, p, q - 1) + 1
        /\ f.doc.parts[p][(q - 1) + 1].kind # "heading" =>
               Rank(f.doc, p, (q - 1) + 1) = Rank(f.doc, p, q - 1)
        /\ \A j \in 0..(q - 1) : Rank(f.doc, p, j) <= Rank(f.doc, p, q - 1)
    BY <2>1, RankFacts
  <2>3. \A k \in Nat : Rank(f.doc, p, k) \in Nat
    BY RankFacts
  <2> QED BY <1>4, <2>1, <2>2, <2>3
<1>6. f.slots \in [Parts(f.doc) -> Seq(Id)] /\ Len(f.slots[p]) = Rank(f.doc, p, q - 1)
  BY <1>1, <1>3, <1>4 DEF IsFrame, Slotted
<1>7. /\ \A n \in Parts(f.doc) : n # p => new.slots[n] = f.slots[n]
      /\ SiteOf(f).kind # "heading" => new.slots[p] = f.slots[p]
      /\ SiteOf(f).kind = "heading" => new.slots[p] = Append(f.slots[p], number.id)
  BY <1>2, <1>3, <1>6
<1>8. /\ Len(new.slots[p]) = Rank(f.doc, p, q)
      /\ SiteOf(f).kind = "heading" => new.slots[p][Rank(f.doc, p, q)] = number.id
      /\ \A i \in 1..Rank(f.doc, p, q - 1) : new.slots[p][i] = f.slots[p][i]
  <2>1. CASE SiteOf(f).kind # "heading"
    BY <1>5, <1>6, <1>7, <2>1
  <2>2. CASE SiteOf(f).kind = "heading"
    <3>1. PICK s \in Seq(Id) : s = f.slots[p]
      BY <1>3, <1>6
    <3>2. /\ Len(Append(s, number.id)) = Len(s) + 1 /\ Append(s, number.id)[Len(s) + 1] = number.id
          /\ \A i \in 1..Len(s) : Append(s, number.id)[i] = s[i]
      BY <3>1
    <3> QED BY ZenonT(50), <1>5, <1>6, <1>7, <2>2, <3>1, <3>2
  <2> QED BY <2>1, <2>2
<1>9. Slotted(new)
  BY <1>1, <1>3, <1>4, <1>7, <1>8 DEF Slotted
<1>10. PICK T : Tracing(f, T)
  BY DEF Seeding
<1>11. /\ DOMAIN T = Parts(f.doc) \X Nat /\ f.counts = T[<<p, q - 1>>]
       /\ Chained(f.doc, T, Behind(f))
       /\ \A n \in Used(f.doc) : \A k \in 1..Progress(f, n) : Traced(f, T, n, k)
  BY <1>2, <1>4, <1>10 DEF Tracing, Here
<1>12. PICK T2 : T2 = [T EXCEPT ![<<p, q>>] = new.counts]
  OBVIOUS
<1>13. /\ DOMAIN T2 = Parts(f.doc) \X Nat /\ T2[<<p, q>>] = new.counts
       /\ \A n \in Parts(f.doc), k \in Nat : ~(n = p /\ k = q) => T2[<<n, k>>] = T[<<n, k>>]
  BY <1>3, <1>4, <1>11, <1>12
<1>14. Chained(f.doc, T2, Behind(f))
  <2>1. PICK order : order = Ord(f)
    OBVIOUS
  <2>2. order = Order("seed", f.doc)
    BY <2>1, SourceOrder DEF Ord
  <2>3. 0 \in Parts(f.doc) /\ T2[<<0, 0>>] = NoCounts
    BY <1>4, <1>11, <1>13, UsedParts DEF Chained, IsFrame
  <2>4. ASSUME NEW a \in 1..Behind(f), a + 1 \in DOMAIN order
        PROVE  T2[<<order[a + 1], 0>>] = T2[<<order[a], Walked(f.doc, order[a])>>]
    <3>1. a \in DOMAIN order /\ order[a] # p /\ order[a] \in Parts(f.doc) /\ order[a + 1] \in Parts(f.doc)
      BY <1>4, <2>1, <2>4
    <3>2. Walked(f.doc, order[a]) \in Nat
      BY <3>1, UsedParts DEF IsFrame, Walked
    <3>3. T[<<order[a + 1], 0>>] = T[<<order[a], Walked(f.doc, order[a])>>]
      BY <1>11, <2>2, <2>4 DEF Chained
    <3> QED BY <1>4, <1>13, <3>1, <3>2, <3>3
  <2> QED BY <2>2, <2>3, <2>4 DEF Chained
<1>15. ASSUME NEW n \in Used(f.doc), NEW k \in 1..Progress(new, n)
       PROVE  Traced(new, T2, n, k)
  <2>1. CASE n # p
    <3>1. n \in Parts(f.doc) /\ k \in 1..Progress(f, n) /\ new.slots[n] = f.slots[n]
      BY <1>3, <1>4, <1>7, <2>1
    <3>2. k \in Nat /\ k - 1 \in Nat
      <4>1. k \in Int /\ k >= 1
        BY <3>1
      <4> QED BY <4>1
    <3>3. T2[<<n, k>>] = T[<<n, k>>] /\ T2[<<n, k - 1>>] = T[<<n, k - 1>>]
      BY <1>13, <2>1, <3>1, <3>2
    <3>4. Traced(f, T, n, k)
      BY <1>11, <3>1
    <3> QED BY <3>1, <3>3, <3>4 DEF Traced
  <2>2. CASE n = p /\ k # q
    <3>1. k \in 1..(q - 1) /\ k \in 1..Progress(f, p) /\ k \in Nat /\ k - 1 \in Nat /\ k - 1 # q
      BY <1>3, <1>4, <2>2
    <3>2. T2[<<n, k>>] = T[<<n, k>>] /\ T2[<<n, k - 1>>] = T[<<n, k - 1>>]
      BY <1>3, <1>13, <2>2, <3>1
    <3>3. Traced(f, T, p, k)
      BY <1>4, <1>11, <3>1
    <3>4. ASSUME f.doc.parts[p][k].kind = "heading"
          PROVE  new.slots[p][Rank(f.doc, p, k)] = f.slots[p][Rank(f.doc, p, k)]
      <4>1. Rank(f.doc, p, k) \in 1..Rank(f.doc, p, q - 1)
        <5>1. q - 1 \in Nat /\ k <= q - 1 /\ k \in Nat \ {0}
          BY <1>4, <3>1
        <5> QED BY <3>4, <5>1, RankOfHeading
      <4> QED BY <1>8, <4>1
    <3> QED BY <2>2, <3>2, <3>3, <3>4 DEF Traced
  <2>3. CASE n = p /\ k = q
    <3>1. T2[<<p, q - 1>>] = f.counts
      <4>1. q - 1 \in Nat /\ q - 1 # q
        BY <1>4
      <4> QED BY <1>3, <1>11, <1>13, <4>1
    <3>2. number = Number(f.job, f.doc.parts[p][q], T2[<<p, q - 1>>], f.explicit)
      BY <1>4, <3>1
    <3>3. CASE SiteOf(f).kind = "heading"
      BY <1>4, <1>8, <1>13, <2>3, <3>2, <3>3 DEF Traced
    <3>4. CASE SiteOf(f).kind # "heading"
      BY <1>4, <1>13, <2>3, <3>1, <3>4 DEF Traced
    <3> QED BY <3>3, <3>4
  <2> QED BY <2>1, <2>2, <2>3
<1>16. Tracing(new, T2)
  <2>1. Here(new) = q
    BY <1>2, <1>4, (q + 1) - 1 = q DEF Here
  <2>2. new.counts = T2[<<PartOf(new), Here(new)>>]
    BY <1>4, <1>13, <2>1
  <2> QED BY <1>3, <1>13, <1>14, <1>15, <2>2 DEF Tracing
<1>17. ~Skips(new)
  BY <1>4 DEF Skips
<1> QED BY <1>3, <1>9, <1>16, <1>17 DEF Seeding

\* Past a site of an unused part, which only the stamping walks: nothing is numbered.
LEMMA SeedingIdles ==
    ASSUME NEW f, IsFrame(f), f.job = "stamp", Seeding(f), On(f), PartOf(f) \notin Used(f.doc),
           NEW new, IsFrame(new), new.job = f.job, new.doc = f.doc, new.parts = f.parts,
           new.next = f.next + 1, new.explicit = f.explicit, new.counts = f.counts,
           \A n \in Used(f.doc) : new.slots[n] = f.slots[n]
    PROVE  Seeding(new)
<1>1. OnWalk(f) /\ Slotted(f)
  BY DEF Seeding
<1>2. PICK p : p = PartOf(f)
  OBVIOUS
<1>3. /\ OnWalk(new) /\ Behind(new) = Behind(f)
      /\ \A n \in Parts(f.doc) : Progress(new, n) = IF n = p THEN f.next ELSE Progress(f, n)
  BY <1>1, <1>2, AdvancingMoves
<1>4. Used(f.doc) \subseteq Parts(f.doc) /\ p \notin Used(f.doc) /\ PartOf(new) = p
  BY <1>2, UsedParts DEF IsFrame, PartOf
<1>5. \A n \in Used(f.doc) : Progress(new, n) = Progress(f, n)
  BY <1>3, <1>4
<1>6. Slotted(new)
  BY <1>1, <1>5 DEF Slotted
<1>7. PICK T : Tracing(f, T)
  BY DEF Seeding
<1>8. \A n \in Used(f.doc) : \A k \in 1..Progress(new, n) : Traced(new, T, n, k)
  <2> TAKE n \in Used(f.doc)
  <2> TAKE k \in 1..Progress(new, n)
  <2>1. Traced(f, T, n, k)
    BY <1>5, <1>7 DEF Tracing
  <2> QED BY <2>1 DEF Traced
<1>9. Here(new) = 0 /\ Here(f) = 0
  BY <1>2, <1>4 DEF Here
<1>10. Tracing(new, T)
  BY <1>2, <1>3, <1>4, <1>7, <1>8, <1>9 DEF Tracing
<1>11. ~Skips(new)
  BY DEF Skips
<1> QED BY <1>3, <1>6, <1>10, <1>11 DEF Seeding

\* A numbering goes on as one, until it is done.
LEMMA SeedingMoves ==
    ASSUME NEW f, IsFrame(f), f.job \in Numbering, Seeding(f), NEW new, IsFrame(new), Moves(f, new),
           new.job = f.job
    PROVE  Seeding(new)
<1>0. f.job \in {"seed", "index"} => (Skips(f) <=> PartOf(f) \notin Used(f.doc))
  BY DEF Skips
<1>1. CASE Leaves(f, new)
  BY <1>1, SeedingLeaves
<1>2. ASSUME On(f), ~Skips(f), SiteOf(f).kind # "heading", new.doc = f.doc, new.parts = f.parts,
             new.next = f.next + 1, new.explicit = f.explicit, new.slots = f.slots, new.counts = f.counts
      PROVE  Seeding(new)
  <2>1. CASE PartOf(f) \in Used(f.doc)
    BY <1>2, <2>1, SeedingAdvances
  <2>2. CASE PartOf(f) \notin Used(f.doc)
    <3>1. f.job = "stamp"
      BY <1>0, <1>2, <2>2 DEF Numbering
    <3> QED BY <1>2, <2>2, <3>1, SeedingIdles
  <2> QED BY <2>1, <2>2
<1>3. CASE Passes(f, new)
  <2>1. /\ On(f) /\ ~Skips(f) /\ SiteOf(f).kind # "heading" /\ new.doc = f.doc /\ new.parts = f.parts
        /\ new.next = f.next + 1 /\ new.explicit = f.explicit /\ new.slots = f.slots
        /\ new.counts = f.counts
    BY <1>3 DEF Passes, Stops, Numbering, IsFrame, Fields
  <2> QED BY <1>2, <2>1
<1>4. CASE Numbers(f, new)
  <2>1. On(f) /\ ~Skips(f) /\ SiteOf(f).kind = "heading"
    BY <1>4 DEF Numbers, Stands
  <2>2. CASE PartOf(f) \in Used(f.doc)
    <3>1. PICK number, used : /\ number = Number(f.job, SiteOf(f), f.counts, f.explicit)
                              /\ new = [f EXCEPT !.next = @ + 1, !.counts = number.counts,
                                         !.slots[PartOf(f)] = Append(@, number.id), !.used = used]
      BY <1>4, <2>2 DEF Numbers
    <3>2. /\ new.doc = f.doc /\ new.parts = f.parts /\ new.next = f.next + 1
          /\ new.explicit = f.explicit /\ new.counts = number.counts
          /\ new.slots = [f.slots EXCEPT ![PartOf(f)] = Append(@, number.id)]
      BY <3>1 DEF IsFrame, Fields
    <3>3. number = Number(f.job, SiteOf(f), f.counts, f.explicit)
      BY <3>1
    <3> QED BY <2>1, <2>2, <3>2, <3>3, SeedingAdvances
  <2>3. CASE PartOf(f) \notin Used(f.doc)
    <3>1. f.job = "stamp"
      BY <1>0, <2>1, <2>3 DEF Numbering
    <3>2. new = [f EXCEPT !.next = @ + 1, !.slots[PartOf(f)] = Append(@, NoId)]
      BY <1>4, <2>3 DEF Numbers
    <3>3. /\ new.doc = f.doc /\ new.parts = f.parts /\ new.next = f.next + 1
          /\ new.explicit = f.explicit /\ new.counts = f.counts
          /\ new.slots = [f.slots EXCEPT ![PartOf(f)] = Append(@, NoId)]
      BY <3>2 DEF IsFrame, Fields
    <3>4. DOMAIN f.slots = Parts(f.doc) /\ Used(f.doc) \subseteq Parts(f.doc)
      BY UsedParts DEF IsFrame
    <3>5. \A n \in Used(f.doc) : new.slots[n] = f.slots[n]
      BY <2>3, <3>3, <3>4
    <3> QED BY <2>1, <2>3, <3>1, <3>3, <3>5, SeedingIdles
  <2> QED BY <2>2, <2>3
<1>5. CASE Collects(f, new)
  <2>1. /\ On(f) /\ ~Skips(f) /\ SiteOf(f).kind # "heading" /\ new.doc = f.doc /\ new.parts = f.parts
        /\ new.next = f.next + 1 /\ new.explicit = f.explicit /\ new.slots = f.slots
        /\ new.counts = f.counts
    BY <1>5 DEF Collects, Stands, IsFrame, Fields
  <2> QED BY <1>2, <2>1
<1>6. CASE Installs(f, new) \/ Gathers(f, new)
  BY <1>6 DEF Installs, Gathers, Turns2, Numbering, IsFrame, Fields
<1> QED BY <1>1, <1>3, <1>4, <1>5, <1>6
    DEF Moves, Numbering, Stamps, ShowsHeading, ShowsElement, Generates, Asks, Reserves, ShowsCitation,
        Hosts, Stands

-----------------------------------------------------------------------------
(* The pass over a document whose seeding is done: its counts follow the   *)
(* trace of the seeding, without the ids of stamped headings.              *)

Complete(f, T) ==
    /\ DOMAIN T = Parts(f.doc) \X Nat
    /\ Chained(f.doc, T, Len(Order("seed", f.doc)))
    /\ \A n \in Used(f.doc) : \A k \in 1..Len(f.doc.parts[n]) : Traced(f, T, n, k)

Filled(f) == \A n \in Used(f.doc) : Len(f.slots[n]) = Rank(f.doc, n, Len(f.doc.parts[n]))
Counted(f) == \A n \in Used(f.doc) :
    Cardinality(HeadingsOf(f.shown, n)) = Rank(f.doc, n, Progress(f, n))

Follows(f, T) ==
    /\ Complete(f, T)
    /\ f.parts # << >> => Agree(f.explicit, f.counts, T[<<PartOf(f), f.next - 1>>])

Rendering(f) ==
    /\ OnWalk(f) /\ Filled(f) /\ Counted(f)
    /\ InOrder(f.doc) => Foretold(f.doc, f.shown, f.slots) /\ \E T : Follows(f, T)

LEMMA BodyFirst ==
    ASSUME NEW S, NEW s \in Seq(S), NEW t, t = << 0 >> \o s
    PROVE  /\ Len(s) \in Nat /\ Len(t) = Len(s) + 1 /\ DOMAIN t = 1..(Len(s) + 1) /\ t[1] = 0
           /\ \A i \in 2..(Len(s) + 1) : t[i] = s[i - 1] /\ i - 1 \in DOMAIN s
           /\ \A i \in DOMAIN s : t[i + 1] = s[i]
OBVIOUS

\* The parts between two used ones that follow each other are not used: the second
\* begins with the counts the first ends with.
LEMMA ChainOfUsed ==
    ASSUME NEW doc, IsDoc(doc), InOrder(doc), NEW T, Chained(doc, T, Len(Order("seed", doc))),
           NEW ro, ro = Order("render", doc), NEW b \in Nat \ {0}, b + 1 \in DOMAIN ro
    PROVE  /\ ro[b] \in Used(doc) /\ ro[b + 1] \in Used(doc)
           /\ T[<<ro[b + 1], 0>>] = T[<<ro[b], Len(doc.parts[ro[b]])>>]
<1>1. PICK so : so = Order("seed", doc)
  OBVIOUS
<1>2. PICK N \in Nat : N = Len(doc.source)
  BY DEF IsDoc
<1>3. PICK M \in Nat : M = Len(doc.refs)
  BY DEF IsDoc
<1>4. /\ doc.source \in Seq(1..N) /\ doc.refs \in Seq(1..N) /\ ToSet(doc.source) = 1..N
      /\ DOMAIN doc.source = 1..N /\ DOMAIN doc.refs = 1..M
  BY <1>2, <1>3 DEF IsDoc
<1>5. /\ so = << 0 >> \o doc.source /\ ro = << 0 >> \o doc.refs
  BY <1>1 DEF Order
<1>6. /\ DOMAIN so = 1..(N + 1) /\ Len(so) = N + 1 /\ so[1] = 0
      /\ \A z \in 2..(N + 1) : so[z] = doc.source[z - 1]
      /\ DOMAIN ro = 1..(M + 1) /\ ro[1] = 0
      /\ \A z \in 2..(M + 1) : ro[z] = doc.refs[z - 1]
  <2>1. /\ DOMAIN so = 1..(N + 1) /\ Len(so) = N + 1 /\ so[1] = 0
        /\ \A z \in 2..(N + 1) : so[z] = doc.source[z - 1]
    BY <1>2, <1>4, <1>5, BodyFirst
  <2>2. /\ DOMAIN ro = 1..(M + 1) /\ ro[1] = 0
        /\ \A z \in 2..(M + 1) : ro[z] = doc.refs[z - 1]
    BY SMTT(30), <1>3, <1>4, <1>5, BodyFirst
  <2> QED BY <2>1, <2>2
<1>7. /\ \A i, j \in 1..(N + 1) : so[i] = so[j] => i = j
      /\ \A i, j \in 1..(M + 1) : ro[i] = ro[j] => i = j
      /\ 1 \in 1..(N + 1) /\ 1 \in 1..(M + 1)
  BY <1>1, <1>6, OrderInjective DEF IsInjective
<1>8. \A i \in 1..(M + 1) : \E x \in 1..(N + 1) : so[x] = ro[i]
  <2> TAKE i \in 1..(M + 1)
  <2>1. CASE i = 1
    BY <1>6, <2>1
  <2>2. CASE i # 1
    <3>1. i - 1 \in 1..M /\ ro[i] = doc.refs[i - 1]
      BY <1>6, <2>2
    <3>2. ro[i] \in 1..N
      BY SMTT(30), <1>4, <3>1
    <3>3. PICK y \in 1..N : doc.source[y] = ro[i]
      BY <1>4, <3>2 DEF ToSet
    <3>4. y + 1 \in 2..(N + 1) /\ (y + 1) - 1 = y
      OBVIOUS
    <3>5. so[y + 1] = ro[i]
      BY <1>6, <3>3, <3>4
    <3> QED BY <3>4, <3>5
  <2> QED BY <2>1, <2>2
<1>9. \A i, j \in 1..(M + 1), x, y \in 1..(N + 1) :
          i < j /\ so[x] = ro[i] /\ so[y] = ro[j] => x < y
  <2> SUFFICES ASSUME NEW i \in 1..(M + 1), NEW j \in 1..(M + 1), NEW x \in 1..(N + 1), NEW y \in 1..(N + 1),
                      i < j, so[x] = ro[i], so[y] = ro[j]
               PROVE  x < y
    OBVIOUS
  <2>1. y # 1
    BY <1>6, <1>7
  <2>2. CASE i = 1
    <3>1. x = 1
      BY <1>6, <1>7, <2>2
    <3> QED BY <2>1, <3>1
  <2>3. CASE i # 1
    <3>1. x # 1
      BY <1>6, <1>7, <2>3
    <3>2. /\ i - 1 \in DOMAIN doc.refs /\ j - 1 \in DOMAIN doc.refs /\ i - 1 < j - 1
          /\ x - 1 \in DOMAIN doc.source /\ y - 1 \in DOMAIN doc.source
      BY <1>4, <2>1, <2>3, <3>1
    <3>3. /\ doc.source[x - 1] = doc.refs[i - 1] /\ doc.source[y - 1] = doc.refs[j - 1]
      BY <1>6, <2>1, <2>3, <3>1
    <3>4. x - 1 < y - 1
      BY <3>2, <3>3 DEF InOrder
    <3> QED BY <3>4
  <2> QED BY <2>2, <2>3
<1>10. b \in 1..(M + 1) /\ b + 1 \in 1..(M + 1)
  BY <1>6
<1>11. PICK x \in 1..(N + 1), y \in 1..(N + 1) : so[x] = ro[b] /\ so[y] = ro[b + 1]
  BY <1>8, <1>10
<1>12. x < y
  BY <1>9, <1>10, <1>11
<1>13. \A i \in 1..(M + 1) : ro[i] \in Used(doc)
  <2> TAKE i \in 1..(M + 1)
  <2>1. i # 1 => i - 1 \in 1..M /\ ro[i] = doc.refs[i - 1]
    <3>1. i # 1 => i \in 2..(M + 1) /\ i - 1 \in 1..M
      OBVIOUS
    <3> QED BY <1>6, <3>1
  <2> QED BY <1>4, <1>6, <2>1 DEF Used, ToSet
<1>14. \A m \in Used(doc) : \E i \in 1..(M + 1) : ro[i] = m
  <2>1. \A i \in 1..M : i + 1 \in 2..(M + 1) /\ i + 1 \in 1..(M + 1) /\ (i + 1) - 1 = i
    OBVIOUS
  <2>2. \A i \in 1..M : ro[i + 1] = doc.refs[i]
    <3> TAKE i \in 1..M
    <3>1. ro[i + 1] = doc.refs[(i + 1) - 1]
      BY <1>6, <2>1
    <3> QED BY <2>1, <3>1
  <2>3. \A m \in Used(doc) : m = 0 \/ \E i \in 1..M : m = doc.refs[i]
    BY <1>4 DEF Used, ToSet
  <2> SUFFICES ASSUME NEW m \in Used(doc)
               PROVE  \E i \in 1..(M + 1) : ro[i] = m
    OBVIOUS
  <2>4. CASE m = 0
    BY <1>6, <1>7, <2>4
  <2>5. CASE \E i \in 1..M : m = doc.refs[i]
    BY <2>1, <2>2, <2>5
  <2> QED BY <2>3, <2>4, <2>5
<1>15. ASSUME NEW z \in 1..(N + 1), x < z, z < y, so[z] \in Used(doc)
       PROVE  FALSE
  <2>1. PICK i \in 1..(M + 1) : ro[i] = so[z]
    BY <1>14, <1>15
  <2>2. i > b
    <3>1. ~(i < b)
      BY <1>9, <1>10, <1>11, <1>15, <2>1
    <3>2. i # b
      BY <1>7, <1>11, <1>15, <2>1
    <3> QED BY <3>1, <3>2
  <2>3. i < b + 1
    <3>1. ~(i > b + 1)
      BY <1>9, <1>10, <1>11, <1>15, <2>1
    <3>2. i # b + 1
      <4>1. z # y
        BY <1>15
      <4> QED BY <1>7, <1>11, <2>1, <4>1
    <3> QED BY <3>1, <3>2
  <2> QED BY <2>2, <2>3
<1>16. PICK c : c = T[<<so[x], Walked(doc, so[x])>>]
  OBVIOUS
<1>17. \A z \in 1..N : T[<<so[z + 1], 0>>] = T[<<so[z], Walked(doc, so[z])>>]
  <2> TAKE z \in 1..N
  <2>1. z \in 1..Len(so) /\ z + 1 \in DOMAIN so
    BY <1>6
  <2> QED BY <1>1, <2>1 DEF Chained
<1>18. T[<<so[y], 0>>] = c
  <2> DEFINE S == {z \in Nat : x < z /\ z <= y /\ T[<<so[z], 0>>] # c}
  <2>1. ASSUME S # {}
        PROVE  FALSE
    <3>1. PICK z \in S : \A w \in S : z <= w
      <4>1. S \in SUBSET Nat
        OBVIOUS
      <4> HIDE DEF S
      <4> QED BY <2>1, <4>1, LeastExists
    <3>2. z \in Nat /\ x < z /\ z <= y /\ T[<<so[z], 0>>] # c /\ z - 1 \in 1..N /\ (z - 1) + 1 = z
      BY <3>1
    <3>3. T[<<so[z], 0>>] = T[<<so[z - 1], Walked(doc, so[z - 1])>>]
      BY <1>17, <3>2
    <3>4. z - 1 # x
      BY <1>16, <3>2, <3>3
    <3>5. x < z - 1 /\ z - 1 < y /\ z - 1 \in Nat /\ z - 1 \in 1..(N + 1) /\ ~(z <= z - 1)
      BY <3>2, <3>4
    <3>6. T[<<so[z - 1], 0>>] = c
      <4>1. z - 1 \notin S
        BY <3>1, <3>5
      <4> QED BY <3>5, <4>1
    <3>7. Walked(doc, so[z - 1]) = 0
      BY <1>15, <3>5 DEF Walked
    <3> QED BY <3>2, <3>3, <3>6, <3>7
  <2>2. y \notin S
    BY <2>1
  <2>3. y \in Nat /\ x < y /\ y <= y
    BY <1>12
  <2> QED BY <2>2, <2>3
<1> QED BY <1>10, <1>11, <1>13, <1>16, <1>18 DEF Walked

\* One element more: its part has one heading more if it is one, and the others stay.
LEMMA HeadingsMore ==
    ASSUME NEW S, NEW shown \in Seq(S), NEW e, NEW new, new = Append(shown, e)
    PROVE  /\ e.kind = "heading" =>
                  Cardinality(HeadingsOf(new, e.part)) = Cardinality(HeadingsOf(shown, e.part)) + 1
           /\ \A n : ~(e.kind = "heading" /\ e.part = n) =>
                  HeadingsOf(new, n) = HeadingsOf(shown, n)
<1>1. /\ Len(new) = Len(shown) + 1 /\ Len(shown) \in Nat /\ new[Len(shown) + 1] = e
      /\ \A i \in 1..Len(shown) : new[i] = shown[i]
      /\ DOMAIN shown = 1..Len(shown) /\ DOMAIN new = 1..(Len(shown) + 1)
  <2>1. shown \in Seq(S \cup {e}) /\ e \in S \cup {e}
    OBVIOUS
  <2> QED BY <2>1, AppendProperties
<1>3. ASSUME NEW n, e.kind = "heading", e.part = n
      PROVE  Cardinality(HeadingsOf(new, n)) = Cardinality(HeadingsOf(shown, n)) + 1
  <2>1. IsFiniteSet(HeadingsOf(shown, n))
    <3>1. HeadingsOf(shown, n) \subseteq 1..Len(shown) /\ IsFiniteSet(1..Len(shown))
      BY <1>1, FS_Interval DEF HeadingsOf
    <3> QED BY <3>1, FS_Subset
  <2>2. /\ HeadingsOf(new, n) = HeadingsOf(shown, n) \cup {Len(shown) + 1}
        /\ Len(shown) + 1 \notin HeadingsOf(shown, n)
    BY <1>1, <1>3 DEF HeadingsOf
  <2> QED BY <2>1, <2>2, FS_AddElement
<1>4. ASSUME NEW n, ~(e.kind = "heading" /\ e.part = n)
      PROVE  HeadingsOf(new, n) = HeadingsOf(shown, n)
  BY <1>1, <1>4 DEF HeadingsOf
<1> QED BY <1>3, <1>4

\* The pass begins where the seeding began.
LEMMA RenderingBegins ==
    ASSUME NEW f, IsFrame(f), Apart(f), f.job = "seed", Seeding(f), NEW new, IsFrame(new), Installs(f, new)
    PROVE  Rendering(new)
<1>1. /\ f.parts = << >> /\ new.job = "render" /\ new.parts = Order("render", f.doc) /\ new.next = 1
      /\ new.counts = NoCounts /\ new.doc = f.doc /\ new.slots = f.slots /\ new.explicit = f.explicit
      /\ new.shown = << >>
  BY DEF Installs, Turns2, IsFrame, Fields, Apart
<1>2. OnWalk(f) /\ Slotted(f)
  BY DEF Seeding
<1>3. Behind(f) = Len(Order("seed", f.doc)) /\ DOMAIN Ord(f) = 1..Behind(f) /\ Ord(f) = Order("seed", f.doc)
  BY <1>1, <1>2, WalkFacts DEF Ord
<1>4. \A n \in Used(f.doc) : Progress(f, n) = Len(f.doc.parts[n])
  <2> TAKE n \in Used(f.doc)
  <2>1. IsDoc(f.doc)
    BY DEF IsFrame
  <2>2. \E a \in DOMAIN Ord(f) : Ord(f)[a] = n
    <3>1. /\ f.doc.source \in Seq(1..Len(f.doc.source)) /\ ToSet(f.doc.source) = 1..Len(f.doc.source)
          /\ Used(f.doc) \subseteq 0..Len(f.doc.source)
      BY <2>1, UsedParts DEF IsDoc
    <3>2. Ord(f) = << 0 >> \o f.doc.source
      BY <1>3 DEF Order
    <3>3. /\ DOMAIN Ord(f) = 1..(Len(f.doc.source) + 1) /\ Ord(f)[1] = 0 /\ Len(f.doc.source) \in Nat
          /\ \A i \in DOMAIN f.doc.source : Ord(f)[i + 1] = f.doc.source[i]
      BY <3>1, <3>2, BodyFirst
    <3>4. n = 0 \/ \E i \in DOMAIN f.doc.source : f.doc.source[i] = n
      BY <3>1 DEF ToSet
    <3>5. DOMAIN f.doc.source = 1..Len(f.doc.source)
      BY <3>1
    <3>6. 1 \in DOMAIN Ord(f) /\ \A i \in DOMAIN f.doc.source : i + 1 \in DOMAIN Ord(f)
      BY <3>3, <3>5
    <3> QED BY <3>3, <3>4, <3>6
  <2> QED BY <1>1, <1>2, <2>2, AtEnd
<1>5. Filled(new)
  BY <1>1, <1>2, <1>4 DEF Filled, Slotted
<1>6. /\ OnWalk(new) /\ new.parts # << >> /\ PartOf(new) = 0
      /\ \A n \in Parts(new.doc) : Progress(new, n) = 0
  BY <1>1, AtStart DEF Ord
<1>7. Counted(new)
  <2> SUFFICES ASSUME NEW n \in Used(new.doc)
               PROVE  Cardinality(HeadingsOf(new.shown, n)) = Rank(new.doc, n, 0)
    BY <1>6, UsedParts DEF Counted, IsFrame
  <2>1. HeadingsOf(new.shown, n) = {}
    BY <1>1 DEF HeadingsOf
  <2> QED BY <2>1, FS_EmptySet, RankFacts, 0 \in Nat
<1>8. Foretold(new.doc, new.shown, new.slots)
  BY <1>1 DEF Foretold
<1>9. PICK T : Tracing(f, T)
  BY DEF Seeding
<1>10. Complete(new, T)
  <2>1. ASSUME NEW n \in Used(f.doc), NEW k \in 1..Len(f.doc.parts[n])
        PROVE  Traced(new, T, n, k)
    <3>1. Traced(f, T, n, k)
      BY <1>4, <1>9 DEF Tracing
    <3>2. f.job # "index" /\ new.job # "index"
      BY <1>1
    <3>3. \A site, c, r : Number(f.job, site, c, r) = Number(new.job, site, c, r)
      BY <3>2, NumberOfOther
    <3> QED BY <1>1, <3>1, <3>3 DEF Traced
  <2> QED BY <1>1, <1>3, <1>9, <2>1 DEF Complete, Tracing
<1>11. Agree(new.explicit, new.counts, T[<<PartOf(new), new.next - 1>>])
  <2>1. T[<<0, 0>>] = NoCounts
    BY <1>10 DEF Complete, Chained
  <2>2. new.counts = T[<<PartOf(new), new.next - 1>>]
    BY <1>1, <1>6, <2>1
  <2> QED BY <2>2 DEF Agree
<1> QED BY <1>5, <1>6, <1>7, <1>8, <1>10, <1>11 DEF Rendering, Follows

\* On to the next used part.
LEMMA RenderingLeaves ==
    ASSUME NEW f, IsFrame(f), f.job = "render", Rendering(f), NEW new, IsFrame(new), Leaves(f, new)
    PROVE  Rendering(new)
<1>1. /\ f.parts # << >> /\ new.job = "render" /\ new.doc = f.doc /\ new.next = 1
      /\ new.slots = f.slots /\ new.counts = f.counts /\ new.explicit = f.explicit
      /\ new.parts = Tail(f.parts) /\ ~Skips(f) /\ ~On(f) /\ new.shown = f.shown
  BY DEF Leaves, IsFrame, Fields, Skips
<1>2. OnWalk(f) /\ Filled(f) /\ Counted(f)
  BY DEF Rendering
<1>3. /\ OnWalk(new) /\ Behind(new) = Behind(f) + 1 /\ Ord(new) = Ord(f)
      /\ \A n \in Parts(f.doc) : Progress(new, n) = Progress(f, n)
  BY <1>1, <1>2, LeavingKeeps
<1>4. Filled(new) /\ Counted(new)
  BY <1>1, <1>2, <1>3, UsedParts DEF Filled, Counted, IsFrame
<1>5. ASSUME InOrder(f.doc)
      PROVE  Foretold(new.doc, new.shown, new.slots) /\ \E T : Follows(new, T)
  <2>1. PICK T : Foretold(f.doc, f.shown, f.slots) /\ Follows(f, T)
    BY <1>5 DEF Rendering
  <2>2. Complete(new, T)
    BY <1>1, <2>1 DEF Follows, Complete, Traced
  <2>3. ASSUME new.parts # << >>
        PROVE  Agree(new.explicit, new.counts, T[<<PartOf(new), new.next - 1>>])
    <3>1. PICK ro, b : ro = Ord(f) /\ b = Behind(f) + 1
      OBVIOUS
    <3>2. ro = Order("render", f.doc)
      BY <3>1 DEF Ord
    <3>3. PartOf(f) = ro[b] /\ PartOf(new) = ro[b + 1] /\ b \in Nat \ {0} /\ b + 1 \in DOMAIN ro
      <4>1. /\ PartOf(f) = ro[b] /\ Behind(f) \in Nat /\ Behind(f) + 1 = b
        BY <1>1, <1>2, <3>1, WalkFacts
      <4>2. Behind(new) = b /\ Ord(new) = ro
        BY <1>3, <3>1
      <4>3. b + 1 \in DOMAIN ro /\ PartOf(new) = ro[b + 1]
        BY <1>3, <2>3, <4>2, WalkFacts
      <4> QED BY <4>1, <4>3
    <3>4. IsDoc(f.doc) /\ Chained(f.doc, T, Len(Order("seed", f.doc)))
      BY <2>1 DEF Follows, Complete, IsFrame
    <3>5. /\ T[<<PartOf(new), 0>>] = T[<<PartOf(f), Len(f.doc.parts[PartOf(f)])>>]
      BY <1>5, <3>2, <3>3, <3>4, ChainOfUsed
    <3>6. f.next - 1 = Len(f.doc.parts[PartOf(f)])
      <4>1. f.next \in Nat /\ Len(f.doc.parts[PartOf(f)]) \in Nat
        BY <1>1, <1>2, WalkFacts
      <4>2. f.next <= Len(f.doc.parts[PartOf(f)]) + 1 /\ ~(f.next <= Len(f.doc.parts[PartOf(f)]))
        BY <1>1, <1>2 DEF On, OnWalk
      <4> QED BY <4>1, <4>2
    <3>7. Agree(f.explicit, f.counts, T[<<PartOf(f), f.next - 1>>])
      BY <1>1, <2>1 DEF Follows
    <3>8. new.next - 1 = 0
      BY <1>1
    <3> QED BY <1>1, <3>5, <3>6, <3>7, <3>8
  <2> QED BY <1>1, <2>1, <2>2, <2>3 DEF Follows
<1> QED BY <1>1, <1>3, <1>4, <1>5 DEF Rendering

\* Past a site: a heading is written with its slot's id, the rest are no headings.
LEMMA RenderingAdvances ==
    ASSUME NEW f, IsFrame(f), f.job = "render", f.explicit = Explicit("seed", f.doc), Rendering(f), On(f),
           NEW new, IsFrame(new), new.job = "render", new.doc = f.doc, new.parts = f.parts,
           new.next = f.next + 1, new.explicit = f.explicit, new.slots = f.slots,
           NEW e,
           SiteOf(f).kind # "heading" =>
               /\ new.counts = f.counts
               /\ new.shown = f.shown \/ (new.shown = Append(f.shown, e) /\ e.kind # "heading"),
           NEW number, number = Heading(SiteOf(f), f.counts, f.explicit),
           SiteOf(f).kind = "heading" =>
               /\ new.shown = Append(f.shown, e) /\ e.kind = "heading" /\ e.part = PartOf(f)
               /\ e.at = f.next /\ e.id = number.id
               /\ new.counts = number.counts \/ (SiteOf(f).id # NoId /\ new.counts = f.counts)
    PROVE  Rendering(new)
<1>1. OnWalk(f) /\ Filled(f) /\ Counted(f)
  BY DEF Rendering
<1>2. PICK p, q : p = PartOf(f) /\ q = f.next
  OBVIOUS
<1>3. /\ OnWalk(new) /\ Behind(new) = Behind(f) /\ Ord(new) = Ord(f)
      /\ p \in Parts(f.doc) /\ Progress(f, p) = q - 1 /\ q \in DOMAIN f.doc.parts[p]
      /\ \A n \in Parts(f.doc) : Progress(new, n) = IF n = p THEN q ELSE Progress(f, n)
  BY <1>1, <1>2, AdvancingMoves
<1>4. /\ q \in Nat \ {0} /\ f.parts # << >> /\ PartOf(new) = p /\ new.parts # << >>
      /\ Used(f.doc) \subseteq Parts(f.doc) /\ SiteOf(f) = f.doc.parts[p][q]
      /\ DOMAIN f.doc.parts[p] = 1..Len(f.doc.parts[p]) /\ Len(f.doc.parts[p]) \in Nat
  BY <1>1, <1>2, <1>3, WalkFacts, UsedParts DEF On, IsFrame, PartOf, SiteOf
<1>5. p \in Used(f.doc)
  <2>1. IsDoc(f.doc) /\ p = Ord(f)[Behind(f) + 1] /\ Behind(f) + 1 \in DOMAIN Ord(f)
    BY <1>1, <1>2, <1>4, WalkFacts DEF IsFrame
  <2>2. Ord(f) = << 0 >> \o f.doc.refs /\ f.doc.refs \in Seq(1..Len(f.doc.source))
    BY <2>1 DEF Ord, Order, IsDoc
  <2>3. PICK a \in DOMAIN Ord(f) : p = Ord(f)[a]
    BY <2>1
  <2>4. a \in 1..(Len(f.doc.refs) + 1) /\ Ord(f)[1] = 0 /\ Len(f.doc.refs) \in Nat
        /\ \A i \in 2..(Len(f.doc.refs) + 1) : Ord(f)[i] = f.doc.refs[i - 1] /\ i - 1 \in DOMAIN f.doc.refs
    BY <2>2, <2>3, BodyFirst
  <2>5. a = 1 \/ a \in 2..(Len(f.doc.refs) + 1)
    BY <2>4
  <2> QED BY <2>3, <2>4, <2>5 DEF Used, ToSet
<1>6. /\ Rank(f.doc, p, q - 1) \in Nat /\ Rank(f.doc, p, q) \in Nat
      /\ SiteOf(f).kind = "heading" => Rank(f.doc, p, q) = Rank(f.doc, p, q - 1) + 1
      /\ SiteOf(f).kind # "heading" => Rank(f.doc, p, q) = Rank(f.doc, p, q - 1)
  <2>1. q - 1 \in Nat /\ (q - 1) + 1 = q
    BY <1>4
  <2>2. /\ f.doc.parts[p][(q - 1) + 1].kind = "heading" =>
               Rank(f.doc, p, (q - 1) + 1) = Rank(f.doc, p, q - 1) + 1
        /\ f.doc.parts[p][(q - 1) + 1].kind # "heading" =>
               Rank(f.doc, p, (q - 1) + 1) = Rank(f.doc, p, q - 1)
    BY <2>1, RankFacts
  <2>3. \A k \in Nat : Rank(f.doc, p, k) \in Nat
    BY RankFacts
  <2> QED BY <1>4, <2>1, <2>2, <2>3
<1>7. PICK S : f.shown \in Seq(S)
  BY DEF IsFrame
<1>8. Cardinality(HeadingsOf(f.shown, p)) = Rank(f.doc, p, q - 1)
  BY <1>1, <1>3, <1>5 DEF Counted
<1>9. \A n \in Used(f.doc) : n # p => Cardinality(HeadingsOf(f.shown, n)) = Rank(f.doc, n, Progress(new, n))
  BY <1>1, <1>3, <1>4 DEF Counted
<1>10. Counted(new)
  <2>1. CASE SiteOf(f).kind = "heading"
    <3>1. \A n : n # p => HeadingsOf(new.shown, n) = HeadingsOf(f.shown, n)
      BY <1>2, <1>7, <2>1, HeadingsMore
    <3>2. Cardinality(HeadingsOf(new.shown, p)) = Cardinality(HeadingsOf(f.shown, p)) + 1
      <4>1. new.shown = Append(f.shown, e) /\ e.kind = "heading" /\ e.part = p
        BY <1>2, <2>1
      <4> QED BY <1>7, <4>1, HeadingsMore
    <3>3. Cardinality(HeadingsOf(new.shown, p)) = Rank(f.doc, p, q)
      BY <1>6, <1>8, <2>1, <3>2
    <3> QED BY <1>3, <1>9, <3>1, <3>3 DEF Counted
  <2>2. CASE SiteOf(f).kind # "heading"
    <3>1. \A n : HeadingsOf(new.shown, n) = HeadingsOf(f.shown, n)
      BY <1>7, <2>2, HeadingsMore
    <3> QED BY <1>3, <1>6, <1>8, <1>9, <2>2, <3>1 DEF Counted
  <2> QED BY <2>1, <2>2
<1>11. Filled(new)
  BY <1>1 DEF Filled
<1>12. ASSUME InOrder(f.doc)
       PROVE  Foretold(new.doc, new.shown, new.slots) /\ \E T : Follows(new, T)
  <2>1. PICK T : Foretold(f.doc, f.shown, f.slots) /\ Follows(f, T)
    BY <1>12 DEF Rendering
  <2>2. Complete(new, T)
    <3>1. Complete(f, T) /\ new.job = f.job
      BY <2>1 DEF Follows
    <3>2. \A n, k : Traced(f, T, n, k) <=> Traced(new, T, n, k)
      BY <3>1 DEF Traced
    <3> QED BY <3>1, <3>2 DEF Complete
  <2>3. Agree(f.explicit, f.counts, T[<<p, q - 1>>])
    BY <1>2, <1>4, <2>1 DEF Follows
  <2>4. Traced(f, T, p, q)
    BY <1>3, <1>4, <1>5, <2>1 DEF Follows, Complete
  <2>5. new.next - 1 = q
    BY <1>2, <1>4
  <2>6. CASE SiteOf(f).kind # "heading"
    <3>1. T[<<p, q>>] = T[<<p, q - 1>>]
      BY <1>4, <2>4, <2>6 DEF Traced
    <3>2. Follows(new, T)
      BY <1>4, <2>2, <2>3, <2>5, <2>6, <3>1 DEF Follows
    <3>3. CASE new.shown = f.shown
      BY <2>1, <3>2, <3>3
    <3>4. CASE new.shown = Append(f.shown, e) /\ e.kind # "heading"
      <4>1. /\ Len(new.shown) = Len(f.shown) + 1 /\ Len(f.shown) \in Nat /\ new.shown[Len(f.shown) + 1] = e
            /\ \A i \in 1..Len(f.shown) : new.shown[i] = f.shown[i]
            /\ DOMAIN new.shown = 1..(Len(f.shown) + 1) /\ DOMAIN f.shown = 1..Len(f.shown)
        BY <1>7, <3>4
      <4>2. Foretold(new.doc, new.shown, new.slots)
        BY SMTT(30), <2>1, <3>4, <4>1 DEF Foretold
      <4> QED BY <3>2, <4>2
    <3> QED BY <2>6, <3>3, <3>4
  <2>7. CASE SiteOf(f).kind = "heading"
    <3>1. PICK number2 : number2 = Heading(SiteOf(f), T[<<p, q - 1>>], f.explicit)
      OBVIOUS
    <3>2. T[<<p, q>>] = number2.counts /\ f.slots[p][Rank(f.doc, p, q)] = number2.id
      BY <1>4, <2>4, <2>7, <3>1, f.job # "index", NumberOfOther DEF Traced
    <3>3. SiteOf(f).id # NoId => SiteOf(f).id \in f.explicit
      <4>1. IsDoc(f.doc)
        BY DEF IsFrame
      <4> QED BY <1>3, <1>4, <2>7, <4>1, IdIsExplicit
    <3>4. /\ number.id = number2.id /\ Agree(f.explicit, number.counts, number2.counts)
          /\ SiteOf(f).id # NoId => Agree(f.explicit, f.counts, number2.counts)
      BY <2>3, <3>1, <3>3, HeadingAgrees
    <3>5. Follows(new, T)
      BY <1>4, <2>2, <2>5, <2>7, <3>2, <3>4 DEF Follows
    <3>6. /\ Len(new.shown) = Len(f.shown) + 1 /\ Len(f.shown) \in Nat /\ new.shown[Len(f.shown) + 1] = e
          /\ \A i \in 1..Len(f.shown) : new.shown[i] = f.shown[i]
          /\ DOMAIN new.shown = 1..(Len(f.shown) + 1) /\ DOMAIN f.shown = 1..Len(f.shown)
      BY <1>7, <2>7
    <3>8. Rank(f.doc, p, q) \in DOMAIN f.slots[p]
      <4>1. Rank(f.doc, p, q) \in 1..Rank(f.doc, p, Len(f.doc.parts[p]))
        <5>1. q <= Len(f.doc.parts[p]) /\ f.doc.parts[p][q].kind = "heading"
          BY <1>3, <1>4, <2>7
        <5> QED BY <1>4, <5>1, RankOfHeading
      <4>2. f.slots[p] \in Seq(Id)
        BY <1>3 DEF IsFrame
      <4> QED BY <1>1, <1>5, <4>1, <4>2 DEF Filled
    <3>9. Foretold(new.doc, new.shown, new.slots)
      <4> SUFFICES ASSUME NEW i \in DOMAIN new.shown, new.shown[i].kind = "heading"
                   PROVE  LET n == new.shown[i].part
                              rank == Rank(new.doc, n, new.shown[i].at)
                          IN  rank \in DOMAIN new.slots[n] /\ new.slots[n][rank] = new.shown[i].id
        BY DEF Foretold
      <4>1. CASE i \in 1..Len(f.shown)
        <5>1. new.shown[i] = f.shown[i] /\ i \in DOMAIN f.shown
          BY <3>6, <4>1
        <5> QED BY <2>1, <5>1 DEF Foretold
      <4>2. CASE i = Len(f.shown) + 1
        <5>1. new.shown[i] = e /\ e.part = p /\ e.at = q /\ e.id = number.id
          BY <1>2, <2>7, <3>6, <4>2
        <5> QED BY <3>2, <3>4, <3>8, <5>1
      <4> QED BY <3>6, <4>1, <4>2
    <3> QED BY <3>5, <3>9
  <2> QED BY <2>6, <2>7
<1> QED BY <1>3, <1>10, <1>11, <1>12 DEF Rendering

\* Where the job on top only looks at its site, all stays.
LEMMA RenderingStays ==
    ASSUME NEW f, Rendering(f),
           NEW new, new.job = f.job, new.doc = f.doc, new.parts = f.parts, new.next = f.next,
           new.explicit = f.explicit, new.slots = f.slots, new.counts = f.counts, new.shown = f.shown
    PROVE  Rendering(new)
<1>1. /\ Ord(new) = Ord(f) /\ Behind(new) = Behind(f) /\ PartOf(new) = PartOf(f)
      /\ OnWalk(new) /\ \A n : Progress(new, n) = Progress(f, n)
  <2>1. Ord(new) = Ord(f) /\ Behind(new) = Behind(f) /\ PartOf(new) = PartOf(f)
    BY DEF Ord, Behind, PartOf
  <2>2. OnWalk(f)
    BY DEF Rendering
  <2> QED BY <2>1, <2>2 DEF OnWalk, Progress
<1>2. Filled(new) /\ Counted(new)
  BY <1>1 DEF Rendering, Filled, Counted
<1>3. ASSUME InOrder(f.doc)
      PROVE  Foretold(new.doc, new.shown, new.slots) /\ \E T : Follows(new, T)
  <2>1. PICK T : Foretold(f.doc, f.shown, f.slots) /\ Follows(f, T)
    BY <1>3 DEF Rendering
  <2>2. Complete(new, T)
    BY <2>1 DEF Follows, Complete, Traced
  <2>3. Follows(new, T)
    BY <1>1, <2>1, <2>2 DEF Follows
  <2> QED BY <2>1, <2>3
<1> QED BY <1>1, <1>2, <1>3 DEF Rendering

\* A pass goes on as one.
LEMMA RenderingMoves ==
    ASSUME NEW f, IsFrame(f), Apart(f), f.job = "render", Rendering(f), NEW new, IsFrame(new), Moves(f, new)
    PROVE  Rendering(new)
<1>1. f.explicit = Explicit("seed", f.doc) /\ IsDoc(f.doc)
  BY DEF Apart, IsFrame
<1>2. ASSUME On(f)
      PROVE  SiteOf(f) \in Site
  <2>1. OnWalk(f) /\ f.parts # << >> /\ f.next <= Len(f.doc.parts[PartOf(f)])
    BY <1>2 DEF Rendering, On
  <2>2. PartOf(f) \in Parts(f.doc) /\ f.next \in Nat \ {0}
    BY <2>1, WalkFacts
  <2>3. f.doc.parts[PartOf(f)] \in Seq(Site) /\ f.next \in 1..Len(f.doc.parts[PartOf(f)])
    BY <1>1, <2>1, <2>2, UsedParts
  <2> QED BY <2>3 DEF SiteOf
<1>3. PICK number : number = Heading(SiteOf(f), f.counts, f.explicit)
  OBVIOUS
<1>4. CASE Leaves(f, new)
  BY <1>4, RenderingLeaves
<1>5. CASE Passes(f, new)
  BY <1>2, <1>5 DEF Passes, Stops, Site
<1>6. CASE ShowsHeading(f, new)
  <2>1. On(f) /\ SiteOf(f).kind = "heading"
    BY <1>6 DEF ShowsHeading, Stands
  <2>2. PICK e : /\ e.kind = "heading" /\ e.part = PartOf(f) /\ e.at = f.next /\ e.id = number.id
                 /\ new = IF SiteOf(f).id # NoId /\ ~SiteOf(f).authored
                          THEN [f EXCEPT !.next = @ + 1, !.shown = Append(@, e)]
                          ELSE [f EXCEPT !.next = @ + 1, !.counts = number.counts, !.shown = Append(@, e)]
    <3>1. CASE SiteOf(f).id # NoId /\ ~SiteOf(f).authored
      <4>1. new = [f EXCEPT !.next = @ + 1, !.shown = Append(@, ShownAt(f, SiteOf(f).id, "stamped"))]
        BY <1>6, <3>1 DEF ShowsHeading
      <4>2. number.id = SiteOf(f).id
        BY <1>3, <3>1 DEF Heading, Allocation
      <4> QED BY <2>1, <3>1, <4>1, <4>2 DEF ShownAt
    <3>2. CASE ~(SiteOf(f).id # NoId /\ ~SiteOf(f).authored)
      <4>1. PICK how : new = [f EXCEPT !.next = @ + 1, !.counts = number.counts,
                                       !.shown = Append(@, ShownAt(f, number.id, how))]
        BY <1>3, <1>6, <3>2 DEF ShowsHeading
      <4> QED BY <2>1, <3>2, <4>1 DEF ShownAt
    <3> QED BY <3>1, <3>2
  <2>3. /\ new.job = "render" /\ new.doc = f.doc /\ new.parts = f.parts /\ new.next = f.next + 1
        /\ new.explicit = f.explicit /\ new.slots = f.slots /\ new.shown = Append(f.shown, e)
        /\ new.counts = number.counts \/ (SiteOf(f).id # NoId /\ new.counts = f.counts)
    BY <2>2 DEF IsFrame, Fields
  <2>4. e.kind = "heading" /\ e.part = PartOf(f) /\ e.at = f.next /\ e.id = number.id
    BY <2>2
  <2> QED BY <1>1, <1>3, <2>1, <2>3, <2>4, RenderingAdvances
<1>7. ASSUME On(f), SiteOf(f).kind # "heading",
             NEW e, e.kind # "heading",
             new.job = "render", new.doc = f.doc, new.parts = f.parts, new.next = f.next + 1,
             new.explicit = f.explicit, new.slots = f.slots, new.counts = f.counts,
             new.shown = f.shown \/ new.shown = Append(f.shown, e)
      PROVE  Rendering(new)
  BY <1>1, <1>3, <1>7, RenderingAdvances
<1>8. CASE ShowsElement(f, new)
  <2>1. On(f) /\ SiteOf(f).kind \in {"block", "inline"}
    BY <1>8 DEF ShowsElement, Stands
  <2>2. PICK e : e = ShownAt(f, SiteOf(f).id, "authored")
    OBVIOUS
  <2>3. e.kind # "heading" /\ SiteOf(f).kind # "heading"
    BY <2>1, <2>2 DEF ShownAt
  <2>4. /\ new.job = "render" /\ new.doc = f.doc /\ new.parts = f.parts /\ new.next = f.next + 1
        /\ new.explicit = f.explicit /\ new.slots = f.slots /\ new.counts = f.counts
        /\ new.shown = Append(f.shown, e)
    BY <1>8, <2>2 DEF ShowsElement, IsFrame, Fields
  <2> QED BY <1>7, <2>1, <2>3, <2>4
<1>9. CASE Generates(f, new)
  <2>1. On(f) /\ SiteOf(f).kind = "widget"
    BY <1>9 DEF Generates, Stands
  <2>2. PICK given : /\ given = Unique(SiteOf(f).name, f.used)
                     /\ new = [f EXCEPT !.next = @ + 1, !.used = given.counts,
                                 !.handed = Append(@, given.id),
                                 !.shown = Append(@, ShownAt(f, given.id, "generated"))]
    BY <1>9 DEF Generates
  <2>3. PICK e : e = ShownAt(f, given.id, "generated")
    OBVIOUS
  <2>4. e.kind # "heading" /\ SiteOf(f).kind # "heading"
    BY <2>1, <2>3 DEF ShownAt
  <2>5. /\ new.job = "render" /\ new.doc = f.doc /\ new.parts = f.parts /\ new.next = f.next + 1
        /\ new.explicit = f.explicit /\ new.slots = f.slots /\ new.counts = f.counts
        /\ new.shown = Append(f.shown, e)
    BY <2>2, <2>3 DEF IsFrame, Fields
  <2> QED BY <1>7, <2>1, <2>4, <2>5
<1>10. CASE Asks(f, new)
  BY <1>10, RenderingStays DEF Asks, IsFrame, Fields
<1>11. CASE Reserves(f, new)
  <2>1. PICK counts, handed, given :
          new = [f EXCEPT !.used = counts, !.handed = handed, !.given = given]
    BY <1>11 DEF Reserves
  <2>2. /\ new.job = f.job /\ new.doc = f.doc /\ new.parts = f.parts /\ new.next = f.next
        /\ new.explicit = f.explicit /\ new.slots = f.slots /\ new.counts = f.counts /\ new.shown = f.shown
    BY <2>1 DEF IsFrame, Fields
  <2> QED BY <2>2, RenderingStays
<1>12. CASE ShowsCitation(f, new)
  <2>1. On(f) /\ SiteOf(f).kind \in {"cite", "entry"}
    BY <1>12 DEF ShowsCitation, Stands
  <2>2. PICK e : e = ShownAt(f, GivenIn(f, CitedAs(SiteOf(f))), "generated")
    OBVIOUS
  <2>3. e.kind # "heading" /\ SiteOf(f).kind # "heading"
    BY <2>1, <2>2 DEF ShownAt
  <2>4. /\ new.job = "render" /\ new.doc = f.doc /\ new.parts = f.parts /\ new.next = f.next + 1
        /\ new.explicit = f.explicit /\ new.slots = f.slots /\ new.counts = f.counts
        /\ new.shown = f.shown \/ new.shown = Append(f.shown, e)
    BY <1>12, <2>2 DEF ShowsCitation, IsFrame, Fields
  <2> QED BY <1>7, <2>1, <2>3, <2>4
<1>13. CASE Hosts(f, new)
  <2>1. /\ On(f) /\ SiteOf(f).kind = "nest"
        /\ new.job = "render" /\ new.doc = f.doc /\ new.parts = f.parts /\ new.next = f.next + 1
        /\ new.explicit = f.explicit /\ new.slots = f.slots /\ new.counts = f.counts
        /\ new.shown = f.shown
    BY <1>13 DEF Hosts, Stands, IsFrame, Fields
  <2>2. PICK e : e = ShownAt(f, NoId, "generated")
    OBVIOUS
  <2>3. e.kind # "heading"
    BY <2>1, <2>2 DEF ShownAt
  <2> QED BY <1>7, <2>1, <2>3
<1> QED BY <1>4, <1>5, <1>6, <1>8, <1>9, <1>10, <1>11, <1>12, <1>13
    DEF Moves, Numbers, Collects, Gathers, Stamps, Installs, Stands

-----------------------------------------------------------------------------
\* What holds of the jobs that number headings, and of the pass.
Foretelling(f) ==
    /\ f.job \in Numbering => Seeding(f)
    /\ f.job = "render" => Rendering(f)

LEMMA ForetellingMoves ==
    ASSUME NEW f, IsFrame(f), Apart(f), Foretelling(f), NEW new, IsFrame(new), Moves(f, new)
    PROVE  Foretelling(new)
<1>1. CASE f.job = "seed"
  <2>1. CASE Installs(f, new)
    <3>1. Seeding(f)
      BY <1>1 DEF Foretelling, Numbering
    <3>2. Rendering(new) /\ new.job = "render"
      BY <1>1, <2>1, <3>1, RenderingBegins DEF Installs, Turns2, IsFrame, Fields
    <3> QED BY <3>2 DEF Foretelling, Numbering
  <2>2. CASE ~Installs(f, new)
    <3>1. new.job = "seed"
      BY <1>1, <2>2 DEF Moves, Leaves, Passes, Numbers, Collects, Gathers, Stamps, ShowsHeading, ShowsElement,
                        Generates, Asks, Reserves, ShowsCitation, Hosts, Stands, IsFrame, Fields
    <3> QED BY <1>1, <3>1, SeedingMoves DEF Foretelling, Numbering
  <2> QED BY <2>1, <2>2
<1>2. CASE f.job = "render"
  <2>1. new.job = "render"
    BY <1>2 DEF Moves, Leaves, Passes, Numbers, Collects, Gathers, Stamps, Installs, ShowsHeading, ShowsElement,
                Generates, Asks, Reserves, ShowsCitation, Hosts, Stands, IsFrame, Fields
  <2> QED BY <1>2, <2>1, RenderingMoves DEF Foretelling, Numbering
<1>3. CASE f.job \in {"index", "stamp"}
  <2>1. new.job = f.job \/ new.job = "gather"
    BY <1>3 DEF Moves, Leaves, Passes, Numbers, Collects, Gathers, Stamps, Installs, Turns2, ShowsHeading, ShowsElement,
                Generates, Asks, Reserves, ShowsCitation, Hosts, Stands, IsFrame, Fields
  <2> QED BY <1>3, <2>1, SeedingMoves DEF Foretelling, Numbering
<1>4. CASE f.job \in {"gather", "write"}
  <2>1. new.job \in {"gather", "write"}
    BY ZenonT(50), <1>4 DEF Moves, Leaves, Passes, Numbers, Collects, Gathers, Stamps, Installs, Turns2, ShowsHeading,
                ShowsElement, Generates, Asks, Reserves, ShowsCitation, Hosts, Stands, IsFrame, Fields
  <2> QED BY <2>1 DEF Foretelling, Numbering
<1> QED BY <1>1, <1>2, <1>3, <1>4 DEF IsFrame

NumbersForetold == \A i \in 1..Depth : Foretelling(stack[i])

LEMMA NumbersForetoldStep ==
    ASSUME IInv, NumbersForetold, [Next]_vars
    PROVE  NumbersForetold'
<1>1. IInv'
  BY InvStep
<1>2. ASSUME NEW i \in 1..Depth'
      PROVE  Foretelling(stack'[i])
  <2>1. IsFrame(stack'[i])
    BY <1>1 DEF IInv, TypeOK
  <2>2. CASE i \in 1..Depth /\ stack'[i] = stack[i]
    BY <2>2 DEF NumbersForetold
  <2>3. CASE i \in 1..Depth /\ Moves(stack[i], stack'[i])
    <3>1. IsFrame(stack[i]) /\ Apart(stack[i]) /\ Foretelling(stack[i])
      BY <2>3 DEF IInv, TypeOK, NumbersForetold
    <3> QED BY <2>1, <2>3, <3>1, ForetellingMoves
  <2>4. ASSUME NEW job \in {"stamp", "index", "seed"}, NEW doc, stack'[i] = Frame(job, doc)
        PROVE  Foretelling(stack'[i])
    <3>1. stack'[i].job = job
      BY <2>4 DEF Frame
    <3>2. Seeding(stack'[i])
      BY <2>1, <2>4, SeedingBegins DEF Numbering
    <3> QED BY <3>1, <3>2 DEF Foretelling
  <2> QED BY <2>2, <2>3, <2>4, FrameSteps
<1> QED BY <1>2 DEF NumbersForetold, Depth

\* "What the seeder reserved for a heading is what the pass writes for it": in every
\* reachable state, wherever the notes are used in the order of the source.
THEOREM SeedForetellsHolds == Spec => []SeedForetells
<1>1. Init => NumbersForetold
  BY DEF Init, NumbersForetold, Depth
<1>2. IInv /\ NumbersForetold /\ [Next]_vars => NumbersForetold'
  BY NumbersForetoldStep
<1>3. IInv /\ NumbersForetold => SeedForetells
  <2> SUFFICES ASSUME IInv, NumbersForetold, NEW i \in 1..Renders, InOrder(stack[i].doc)
               PROVE  Foretold(stack[i].doc, stack[i].shown, stack[i].slots)
    BY DEF SeedForetells
  <2>1. i \in 1..Depth /\ stack[i].job = "render"
    <3>1. Depth \in Nat
      BY DEF IInv, TypeOK, Depth
    <3>2. CASE Depth > 0 /\ Top.job # "render"
      BY <3>1, <3>2 DEF Renders, IInv, TypeOK
    <3>3. CASE ~(Depth > 0 /\ Top.job # "render")
      BY <3>1, <3>3 DEF Renders, Top, IInv, TypeOK
    <3> QED BY <3>2, <3>3
  <2> QED BY <2>1 DEF NumbersForetold, Foretelling, Rendering
<1> QED BY <1>1, <1>2, <1>3, InvHolds, PTL DEF Spec

-----------------------------------------------------------------------------
(* A seeding and its pass do the same whenever they are run.               *)

\* Of the turns due one comes first.
LEMMA FirstTurn ==
    ASSUME NEW f, IsFrame(f), NEW t \in DueIn(f), NEW u \in DueIn(f), ~Before(t, u), ~Before(u, t)
    PROVE  t = u
<1>1. \A i \in DOMAIN f.cited : i \in Nat /\ f.cited[i].count \in Nat
  <2>1. PICK C : C = [key : Id, count : Nat]
    OBVIOUS
  <2>2. PICK s \in Seq(C) : s = f.cited
    BY <2>1 DEF IsFrame
  <2>3. DOMAIN s = 1..Len(s) /\ Len(s) \in Nat /\ \A i \in 1..Len(s) : s[i] \in C
    BY <2>2
  <2>4. \A i \in DOMAIN s : i \in Nat /\ s[i] \in C
    BY <2>3
  <2>5. \A c \in C : c.count \in Nat
    BY <2>1
  <2> QED BY <2>2, <2>4, <2>5
<1>2. ASSUME NEW v \in TurnsIn(f)
      PROVE  \/ \E i, n \in Nat : v = <<1, i, n>>
             \/ \E i \in Nat : v = <<2, i, 0>>
  <2>1. PICK i \in DOMAIN f.cited : v \in {<<1, i, n>> : n \in 1..f.cited[i].count} \cup {<<2, i, 0>>}
    BY <1>2 DEF TurnsIn
  <2> QED BY <1>1, <2>1
<1>3. t \in TurnsIn(f) /\ u \in TurnsIn(f)
  BY DEF DueIn
<1>4. PICK a, i, n \in Nat : t = <<a, i, n>>
  BY <1>2, <1>3
<1>5. PICK b, j, m \in Nat : u = <<b, j, m>>
  BY <1>2, <1>3
<1>6. a = b
  BY <1>4, <1>5 DEF Before
<1>7. i = j
  BY <1>4, <1>5, <1>6 DEF Before
<1>8. n = m
  BY <1>4, <1>5, <1>6, <1>7 DEF Before
<1> QED BY <1>4, <1>5, <1>6, <1>7, <1>8

\* A job has one next step.
LEMMA MovesOnce ==
    ASSUME NEW f, IsFrame(f), f.job \in {"seed", "render"}, NEW a, NEW b, Moves(f, a), Moves(f, b)
    PROVE  a = b
<1>1. CASE f.parts = << >>
  <2>1. \A x : Moves(f, x) => x = [Turns2(f, "render") EXCEPT !.counts = NoCounts]
    BY <1>1 DEF Moves, Leaves, Passes, Numbers, Collects, Gathers, Stamps, Installs, ShowsHeading, ShowsElement,
                Generates, Asks, Reserves, ShowsCitation, Hosts, Stands, On
  <2> QED BY <2>1
<1>2. CASE f.parts # << >> /\ (Skips(f) \/ ~On(f))
  <2>1. \A x : Moves(f, x) => x = [f EXCEPT !.parts = Tail(@), !.next = 1]
    BY <1>2 DEF Moves, Leaves, Passes, Numbers, Collects, Gathers, Stamps, Installs, ShowsHeading, ShowsElement,
                Generates, Asks, Reserves, ShowsCitation, Hosts, Stands
  <2> QED BY <2>1
<1>3. CASE On(f) /\ ~Skips(f) /\ f.job = "seed"
  <2>1. CASE SiteOf(f).kind = "heading"
    <3>1. \A x : Moves(f, x) => Numbers(f, x)
      BY <1>3, <2>1 DEF Moves, Leaves, Passes, Collects, Gathers, Stamps, Installs, ShowsHeading, ShowsElement,
                  Generates, Asks, Reserves, ShowsCitation, Hosts, Stands, On, Stops
    <3> QED BY <3>1 DEF Numbers
  <2>2. CASE SiteOf(f).kind = "cite"
    <3>1. \A x : Moves(f, x) => Collects(f, x)
      BY <1>3, <2>2 DEF Moves, Leaves, Passes, Numbers, Gathers, Stamps, Installs, ShowsHeading, ShowsElement,
                  Generates, Asks, Reserves, ShowsCitation, Hosts, Stands, On, Stops
    <3> QED BY <3>1 DEF Collects
  <2>3. CASE SiteOf(f).kind \notin {"heading", "cite"}
    <3>1. \A x : Moves(f, x) => Passes(f, x)
      BY <1>3, <2>3 DEF Moves, Leaves, Collects, Numbers, Gathers, Stamps, Installs, ShowsHeading, ShowsElement,
                  Generates, Asks, Reserves, ShowsCitation, Hosts, Stands, On
    <3> QED BY <3>1 DEF Passes
  <2> QED BY <2>1, <2>2, <2>3
<1>4. CASE On(f) /\ ~Skips(f) /\ f.job = "render"
  <2>0. /\ \A x : Moves(f, x) => \/ Passes(f, x) \/ ShowsHeading(f, x) \/ ShowsElement(f, x) \/ Generates(f, x)
                                 \/ Asks(f, x) \/ Reserves(f, x) \/ ShowsCitation(f, x) \/ Hosts(f, x)
        /\ \A x : Passes(f, x) => SiteOf(f).kind \notin Kind
    BY <1>4 DEF Moves, Leaves, Numbers, Collects, Gathers, Stamps, Installs, Stands, Passes, Stops, On
  <2>1. CASE SiteOf(f).kind = "heading"
    <3>1. \A x : Moves(f, x) => ShowsHeading(f, x)
      BY <2>0, <2>1 DEF ShowsElement, Generates, Asks, Reserves, ShowsCitation, Hosts, Stands, Kind
    <3> QED BY <3>1 DEF ShowsHeading
  <2>2. CASE SiteOf(f).kind \in {"block", "inline"}
    <3>1. \A x : Moves(f, x) => ShowsElement(f, x)
      BY <2>0, <2>2 DEF ShowsHeading, Generates, Asks, Reserves, ShowsCitation, Hosts, Stands, Kind
    <3> QED BY <3>1 DEF ShowsElement
  <2>3. CASE SiteOf(f).kind = "widget"
    <3>1. \A x : Moves(f, x) => Generates(f, x)
      BY <2>0, <2>3 DEF ShowsHeading, ShowsElement, Asks, Reserves, ShowsCitation, Hosts, Stands, Kind
    <3> QED BY <3>1 DEF Generates
  <2>4. CASE SiteOf(f).kind \in {"cite", "entry"}
    <3>1. \A x : Moves(f, x) => Asks(f, x) \/ Reserves(f, x) \/ ShowsCitation(f, x)
      BY <2>0, <2>4 DEF ShowsHeading, ShowsElement, Generates, Hosts, Stands, Kind
    <3>2. CASE ~f.asked
      BY <3>1, <3>2 DEF Asks, Reserves, ShowsCitation
    <3>3. CASE f.asked /\ DueIn(f) = {}
      BY <3>1, <3>3 DEF Asks, Reserves, ShowsCitation
    <3>4. CASE f.asked /\ DueIn(f) # {}
      <4>1. Reserves(f, a) /\ Reserves(f, b)
        BY <3>1, <3>4 DEF Asks, ShowsCitation
      <4>2. PICK t \in DueIn(f) :
              /\ \A other \in DueIn(f) : ~Before(other, t)
              /\ \E number \in {Unique(NameIn(f, t), f.used)} :
                   a = [f EXCEPT !.used = number.counts, !.handed = Append(@, number.id),
                                 !.given = [x \in DOMAIN @ \cup {NameIn(f, t)} |->
                                     IF x = NameIn(f, t) THEN number.id ELSE @[x]]]
        BY <4>1 DEF Reserves
      <4>3. PICK u \in DueIn(f) :
              /\ \A other \in DueIn(f) : ~Before(other, u)
              /\ \E number \in {Unique(NameIn(f, u), f.used)} :
                   b = [f EXCEPT !.used = number.counts, !.handed = Append(@, number.id),
                                 !.given = [x \in DOMAIN @ \cup {NameIn(f, u)} |->
                                     IF x = NameIn(f, u) THEN number.id ELSE @[x]]]
        BY <4>1 DEF Reserves
      <4>4. t = u
        BY <4>2, <4>3, FirstTurn
      <4> QED BY <4>2, <4>3, <4>4
    <3> QED BY <3>2, <3>3, <3>4
  <2>5. CASE SiteOf(f).kind = "nest"
    <3>1. \A x : Moves(f, x) => Hosts(f, x)
      BY <2>0, <2>5 DEF ShowsHeading, ShowsElement, Generates, Asks, Reserves, ShowsCitation, Stands, Kind
    <3> QED BY <3>1 DEF Hosts
  <2>6. CASE SiteOf(f).kind \notin Kind
    <3>1. \A x : Moves(f, x) => Passes(f, x)
      BY <2>0, <2>6 DEF ShowsHeading, ShowsElement, Generates, Asks, Reserves, ShowsCitation, Hosts, Stands, Kind
    <3> QED BY <3>1 DEF Passes
  <2> QED BY <2>1, <2>2, <2>3, <2>4, <2>5, <2>6 DEF Kind
<1>5. f.parts = << >> \/ (f.parts # << >> /\ (Skips(f) \/ ~On(f))) \/ (On(f) /\ ~Skips(f))
  OBVIOUS
<1> QED BY <1>1, <1>2, <1>3, <1>4, <1>5

\* A pass at its end has no next step.
LEMMA EndStays ==
    ASSUME NEW f, f.job = "render", f.parts = << >>, NEW new, Moves(f, new)
    PROVE  FALSE
BY DEF Moves, Leaves, Passes, Numbers, Collects, Gathers, Stamps, Installs, ShowsHeading, ShowsElement,
       Generates, Asks, Reserves, ShowsCitation, Hosts, Stands, On

Passing == {"seed", "render"}

LEMMA JobStays ==
    ASSUME NEW f, IsFrame(f), NEW new, Moves(f, new)
    PROVE  new.job \in Passing <=> f.job \in Passing
<1>1. CASE f.job = "seed"
  BY <1>1 DEF Passing, Moves, Leaves, Passes, Numbers, Collects, Gathers, Stamps, Installs, Turns2, ShowsHeading,
              ShowsElement, Generates, Asks, Reserves, ShowsCitation, Hosts, Stands, IsFrame, Fields
<1>2. CASE f.job = "render"
  BY <1>2 DEF Passing, Moves, Leaves, Passes, Numbers, Collects, Gathers, Stamps, Installs, ShowsHeading,
              ShowsElement, Generates, Asks, Reserves, ShowsCitation, Hosts, Stands, IsFrame, Fields
<1>3. CASE f.job \notin Passing
  BY <1>3 DEF Passing, Moves, Leaves, Passes, Numbers, Collects, Gathers, Stamps, Installs, Turns2, ShowsHeading,
              ShowsElement, Generates, Asks, Reserves, ShowsCitation, Hosts, Stands, IsFrame, Fields
<1> QED BY <1>1, <1>2, <1>3 DEF Passing

\* A run of the seeding and the pass over a document, up to some step.
Runs(doc, S, k) ==
    /\ S[0] = Frame("seed", doc)
    /\ \A j \in 0..k : IsFrame(S[j]) /\ S[j].job \in Passing
    /\ \A j \in 0..(k - 1) : Moves(S[j], S[j + 1])

\* Two runs are the same run.
LEMMA OneRun ==
    ASSUME NEW doc, NEW S, NEW k \in Nat, Runs(doc, S, k), NEW R, NEW m \in Nat, Runs(doc, R, m)
    PROVE  \A j \in Nat : j <= k /\ j <= m => S[j] = R[j]
<1> DEFINE Apart2 == {j \in Nat : j <= k /\ j <= m /\ S[j] # R[j]}
<1>1. SUFFICES ASSUME Apart2 # {}
               PROVE  FALSE
  OBVIOUS
<1>2. PICK j \in Apart2 : \A i \in Apart2 : j <= i
  <2>1. Apart2 \in SUBSET Nat
    OBVIOUS
  <2> HIDE DEF Apart2
  <2> QED BY <1>1, <2>1, LeastExists
<1>3. j \in Nat /\ j <= k /\ j <= m /\ S[j] # R[j]
  BY <1>2
<1>4. j # 0
  BY <1>3 DEF Runs
<1>5. /\ j - 1 \in Nat /\ j - 1 \in 0..(k - 1) /\ j - 1 \in 0..(m - 1) /\ j - 1 \in 0..k
      /\ (j - 1) + 1 = j /\ j - 1 <= k /\ j - 1 <= m /\ ~(j <= j - 1)
  BY <1>3, <1>4
<1>6. S[j - 1] = R[j - 1]
  <2>1. j - 1 \notin Apart2
    BY <1>2, <1>5
  <2> QED BY <1>5, <2>1
<1>7. Moves(S[j - 1], S[j]) /\ Moves(R[j - 1], R[j]) /\ IsFrame(S[j - 1]) /\ S[j - 1].job \in Passing
  BY <1>5 DEF Runs
<1> QED BY <1>3, <1>6, <1>7, MovesOnce DEF Passing

LEMMA OneEnd ==
    ASSUME NEW doc, NEW S, NEW k \in Nat, Runs(doc, S, k), NEW R, NEW m \in Nat, Runs(doc, R, m),
           S[k].job = "render", S[k].parts = << >>, R[m].job = "render", R[m].parts = << >>
    PROVE  S[k] = R[m]
<1>1. CASE k = m
  BY <1>1, OneRun
<1>2. CASE k < m
  <2>0. k \in 0..(m - 1) /\ k <= k /\ k <= m
    BY <1>2
  <2>1. S[k] = R[k]
    BY <2>0, OneRun
  <2>2. Moves(R[k], R[k + 1])
    BY <2>0 DEF Runs
  <2> QED BY <2>1, <2>2, EndStays
<1>3. CASE m < k
  <2>0. m \in 0..(k - 1) /\ m <= k /\ m <= m
    BY <1>3
  <2>1. S[m] = R[m]
    BY <2>0, OneRun
  <2>2. Moves(S[m], S[m + 1])
    BY <2>0 DEF Runs
  <2> QED BY <2>1, <2>2, EndStays
<1> QED BY <1>1, <1>2, <1>3

\* A run goes on.
LEMMA RunGoesOn ==
    ASSUME NEW doc, NEW S, NEW k \in Nat, DOMAIN S = Nat, Runs(doc, S, k),
           NEW new, IsFrame(new), new.job \in Passing, Moves(S[k], new)
    PROVE  \E R : DOMAIN R = Nat /\ Runs(doc, R, k + 1) /\ R[k + 1] = new
<1>1. PICK R : R = [S EXCEPT ![k + 1] = new]
  OBVIOUS
<1>2. DOMAIN R = Nat /\ R[k + 1] = new /\ \A j \in Nat : j # k + 1 => R[j] = S[j]
  BY <1>1
<1>3. \A j \in 0..(k + 1) : IsFrame(R[j]) /\ R[j].job \in Passing
  <2> TAKE j \in 0..(k + 1)
  <2>1. j = k + 1 \/ (j \in 0..k /\ j \in Nat /\ j # k + 1)
    OBVIOUS
  <2> QED BY <1>2, <2>1 DEF Runs
<1>4. \A j \in 0..((k + 1) - 1) : Moves(R[j], R[j + 1])
  <2> TAKE j \in 0..((k + 1) - 1)
  <2>1. j \in Nat /\ j # k + 1 /\ (j = k \/ (j \in 0..(k - 1) /\ j + 1 \in Nat /\ j + 1 # k + 1))
    OBVIOUS
  <2> QED BY <1>2, <2>1 DEF Runs
<1>5. R[0] = S[0]
  BY <1>2
<1> QED BY <1>2, <1>3, <1>4, <1>5 DEF Runs

-----------------------------------------------------------------------------
OnlyRenders == \A i \in DOMAIN plan : plan[i] = "render"
Replays ==
    /\ passes \in Seq(ToSet(passes))
    /\ \A i \in 2..Depth : stack[i].job \in Passing
    /\ \A i, j \in DOMAIN plan : i < j /\ plan[i] = "render" => plan[j] = "render"
    /\ Depth > 0 /\ stack[1].job \in Passing =>
           /\ OnlyRenders
           /\ \E S, k : k \in Nat /\ DOMAIN S = Nat /\ Runs(document, S, k) /\ S[k] = stack[1]
    /\ passes # << >> => OnlyRenders /\ (Depth > 0 => stack[1].job \in Passing)
    /\ \A p \in DOMAIN passes : \E S, k :
           /\ k \in Nat /\ DOMAIN S = Nat /\ Runs(document, S, k)
           /\ S[k].job = "render" /\ S[k].parts = << >> /\ S[k].shown = passes[p]

LEMMA ReplaysStep ==
    ASSUME IInv, Replays, [Next]_vars
    PROVE  Replays'
<1>0. IInv'
  BY InvStep
<1>1. /\ stack \in Seq(ToSet(stack)) /\ Depth \in Nat /\ \A i \in 1..Depth : IsFrame(stack[i])
      /\ plan \in Seq({"stamp", "extend", "index", "render"})
      /\ Depth' \in Nat /\ \A i \in 1..Depth' : IsFrame(stack'[i])
  BY <1>0 DEF IInv, TypeOK, Depth
<1>2. \A i \in 2..Depth' : stack'[i].job \in Passing
  <2> TAKE i \in 2..Depth'
  <2>1. i \in 1..Depth' /\ i # 1
    BY <1>1
  <2>2. CASE i \in 1..Depth /\ stack'[i] = stack[i]
    BY <1>1, <2>1, <2>2 DEF Replays
  <2>3. CASE i \in 1..Depth /\ Moves(stack[i], stack'[i])
    <3>1. stack[i].job \in Passing /\ IsFrame(stack[i])
      BY <1>1, <2>1, <2>3 DEF Replays
    <3> QED BY <2>3, <3>1, JobStays
  <2>4. CASE \E doc \in Inner : stack'[i] = Frame("seed", doc)
    BY <2>4 DEF Frame, Passing
  <2> QED BY <2>1, <2>2, <2>3, <2>4, FrameSteps
<1>3. plan' = plan \/ (plan # << >> /\ plan' = Tail(plan))
  BY DEF Next, vars, Begin, Extend, Pass, NumberHeading, CollectCitation, FinishIndex, GatherSlots, StampHeading,
         FinishStamp, FinishSeed, ShowHeading, ShowElement, Generate, AskCitations, ReserveCitation, ShowCitation,
         Nest, EndRender, Done
<1>4. /\ \A i, j \in DOMAIN plan' : i < j /\ plan'[i] = "render" => plan'[j] = "render"
      /\ OnlyRenders => OnlyRenders'
      /\ plan # << >> /\ plan' = Tail(plan) /\ Head(plan) = "render" => OnlyRenders'
  <2>1. CASE plan # << >> /\ plan' = Tail(plan)
    <3>1. /\ Head(plan) = plan[1] /\ Len(plan) \in Nat \ {0} /\ DOMAIN plan = 1..Len(plan)
          /\ plan' \in Seq({"stamp", "extend", "index", "render"}) /\ Len(plan') = Len(plan) - 1
          /\ \A i \in 1..(Len(plan) - 1) : plan'[i] = plan[i + 1]
      BY <1>1, <2>1, RestOf
    <3>2. DOMAIN plan' = 1..(Len(plan) - 1) /\ 1 \in DOMAIN plan
      BY <3>1
    <3>3. \A i \in DOMAIN plan' : i + 1 \in DOMAIN plan /\ plan'[i] = plan[i + 1] /\ i \in Nat /\ 1 < i + 1
      BY <3>1, <3>2
    <3> QED BY <3>1, <3>2, <3>3 DEF Replays, OnlyRenders
  <2>2. CASE plan' = plan /\ ~(plan # << >> /\ plan' = Tail(plan))
    BY <2>2 DEF Replays, OnlyRenders
  <2> QED BY <1>3, <2>1, <2>2
<1>5. CASE Begin
  <2>1. /\ Depth = 0 /\ plan # << >> /\ plan' = Tail(plan) /\ document' = document /\ passes' = passes
        /\ stack' = <<Frame(IF Head(plan) = "render" THEN "seed" ELSE Head(plan), document)>>
    BY <1>5 DEF Begin
  <2>2. PICK f : f = Frame(IF Head(plan) = "render" THEN "seed" ELSE Head(plan), document)
    OBVIOUS
  <2>3. Depth' = 1 /\ stack'[1] = f
    BY <2>1, <2>2 DEF Depth
  <2>4. Head(plan) \in {"stamp", "extend", "index", "render"} /\ Head(plan) = plan[1] /\ 1 \in DOMAIN plan
    BY <1>1, <2>1
  <2>5. CASE Head(plan) = "render"
    <3>1. f = Frame("seed", document) /\ f.job = "seed" /\ IsFrame(f)
      BY <1>1, <2>2, <2>3, <2>5 DEF Frame
    <3>2. PICK S : S = [j \in Nat |-> f]
      OBVIOUS
    <3>3. DOMAIN S = Nat /\ Runs(document, S, 0) /\ S[0] = stack'[1]
      BY <2>3, <3>1, <3>2 DEF Runs, Passing
    <3>4. OnlyRenders'
      BY <1>4, <2>1, <2>5
    <3>5. stack'[1].job \in Passing
      BY <2>3, <3>1 DEF Passing
    <3>6. \E T, k : k \in Nat /\ DOMAIN T = Nat /\ Runs(document', T, k) /\ T[k] = stack'[1]
      BY <2>1, <3>3, 0 \in Nat
    <3>7. ASSUME NEW p \in DOMAIN passes'
          PROVE  \E T, k : /\ k \in Nat /\ DOMAIN T = Nat /\ Runs(document', T, k)
                           /\ T[k].job = "render" /\ T[k].parts = << >> /\ T[k].shown = passes'[p]
      BY <2>1 DEF Replays
    <3>8. passes' \in Seq(ToSet(passes'))
      BY <2>1 DEF Replays
    <3> QED BY <1>2, <1>4, <3>4, <3>5, <3>6, <3>7, <3>8 DEF Replays
  <2>6. CASE Head(plan) # "render"
    <3>1. f.job \notin Passing
      BY <2>2, <2>4, <2>6 DEF Frame, Passing
    <3>2. passes = << >>
      BY <2>4, <2>6 DEF Replays, OnlyRenders
    <3> QED BY <1>2, <1>4, <2>1, <2>3, <3>1, <3>2 DEF Replays
  <2> QED BY <2>5, <2>6
<1>6. CASE Extend
  <2>1. /\ Depth = 0 /\ plan # << >> /\ Head(plan) = "extend" /\ stack' = stack /\ passes' = passes
    BY <1>6 DEF Extend
  <2>2. 1 \in DOMAIN plan /\ Head(plan) = plan[1]
    BY <1>1, <2>1
  <2>3. passes = << >>
    BY <2>1, <2>2 DEF Replays, OnlyRenders
  <2>4. Depth' = 0
    BY <2>1 DEF Depth
  <2> QED BY <1>2, <1>4, <2>1, <2>3, <2>4 DEF Replays
<1>7. CASE FinishStamp
  <2>1. /\ Depth > 0 /\ Top.job = "write" /\ Return /\ plan' = plan /\ passes' = passes
    BY <1>7 DEF FinishStamp, Ended
  <2>2. Depth = 1
    BY SMTT(30), <1>1, <2>1 DEF Replays, Passing, Top
  <2>3. Depth' = 0 /\ passes = << >>
    BY <2>1, <2>2, ReturnStep DEF Replays, Passing, Top
  <2> QED BY <1>2, <1>4, <2>1, <2>3 DEF Replays
<1>8. ASSUME document' = document, plan' = plan,
             Depth' > 0 /\ stack'[1].job \in Passing => Depth > 0
      PROVE  /\ Depth' > 0 /\ stack'[1].job \in Passing =>
                   /\ OnlyRenders'
                   /\ \E S, k : k \in Nat /\ DOMAIN S = Nat /\ Runs(document', S, k) /\ S[k] = stack'[1]
             /\ Depth' > 0 /\ Depth > 0 => (stack'[1].job \in Passing <=> stack[1].job \in Passing)
  <2>1. ASSUME Depth' > 0, Depth > 0
        PROVE  stack'[1] = stack[1] \/ Moves(stack[1], stack'[1])
    BY <1>1, <2>1, FrameSteps
  <2>2. Depth' > 0 /\ Depth > 0 => (stack'[1].job \in Passing <=> stack[1].job \in Passing)
    BY <1>1, <2>1, JobStays
  <2>3. ASSUME Depth' > 0, stack'[1].job \in Passing
        PROVE  /\ OnlyRenders'
               /\ \E S, k : k \in Nat /\ DOMAIN S = Nat /\ Runs(document', S, k) /\ S[k] = stack'[1]
    <3>1. PICK S, k : k \in Nat /\ DOMAIN S = Nat /\ Runs(document, S, k) /\ S[k] = stack[1]
      BY <1>8, <2>2, <2>3 DEF Replays
    <3>2. OnlyRenders'
      BY <1>4, <1>8, <2>2, <2>3 DEF Replays
    <3>3. CASE stack'[1] = stack[1]
      BY <1>8, <3>1, <3>2, <3>3
    <3>4. CASE Moves(stack[1], stack'[1])
      <4>1. IsFrame(stack'[1])
        BY <1>1, <2>3
      <4>2. \E R : DOMAIN R = Nat /\ Runs(document, R, k + 1) /\ R[k + 1] = stack'[1]
        BY <2>3, <3>1, <3>4, <4>1, RunGoesOn
      <4> QED BY <1>8, <3>1, <3>2, <4>2
    <3> QED BY <1>8, <2>1, <2>3, <3>3, <3>4
  <2> QED BY <2>2, <2>3
<1>9. CASE EndRender
  <2>1. /\ Depth > 0 /\ Top.job = "render" /\ Top.parts = << >> /\ Return /\ plan' = plan
        /\ document' = document
        /\ passes' = IF Depth = 1 THEN Append(passes, Top.shown) ELSE passes
    BY <1>9 DEF EndRender, Ended
  <2>2. Depth' = Depth - 1
    BY <2>1, ReturnStep
  <2>3. CASE Depth = 1
    <3>1. Depth' = 0 /\ stack[1].job \in Passing /\ stack[1] = Top
      BY <2>1, <2>2, <2>3 DEF Top, Passing
    <3>2. OnlyRenders'
      BY <1>4, <2>1, <3>1 DEF Replays
    <3>3. PICK shown : shown = Top.shown
      OBVIOUS
    <3>4. passes' = Append(passes, shown) /\ passes \in Seq(ToSet(passes))
      BY <2>1, <2>3, <3>3 DEF Replays
    <3>5. /\ passes' \in Seq(ToSet(passes) \cup {shown})
          /\ \A p \in DOMAIN passes' : (p \in DOMAIN passes /\ passes'[p] = passes[p]) \/ passes'[p] = shown
      BY <3>4
    <3>6. passes' \in Seq(ToSet(passes'))
      BY <3>5, OwnElements
    <3>7. \E S, k : /\ k \in Nat /\ DOMAIN S = Nat /\ Runs(document, S, k)
                    /\ S[k].job = "render" /\ S[k].parts = << >> /\ S[k].shown = shown
      BY <2>1, <3>1, <3>3 DEF Replays
    <3>8. ASSUME NEW p \in DOMAIN passes'
          PROVE  \E S, k : /\ k \in Nat /\ DOMAIN S = Nat /\ Runs(document, S, k)
                           /\ S[k].job = "render" /\ S[k].parts = << >> /\ S[k].shown = passes'[p]
      BY <3>5, <3>7 DEF Replays
    <3> QED BY <1>2, <1>4, <2>1, <3>1, <3>2, <3>6, <3>8 DEF Replays
  <2>4. CASE Depth # 1
    <3>1. Depth > 0 /\ passes' = passes
      BY <2>1, <2>4
    <3> QED BY <1>2, <1>4, <1>8, <2>1, <3>1 DEF Replays
  <2> QED BY <2>3, <2>4
<1>10. CASE Pass \/ NumberHeading \/ CollectCitation \/ FinishIndex \/ GatherSlots \/ StampHeading \/ FinishSeed
           \/ ShowHeading \/ ShowElement \/ Generate \/ AskCitations \/ ReserveCitation \/ ShowCitation \/ Nest
  <2>1. document' = document /\ plan' = plan /\ passes' = passes /\ Depth > 0
    BY <1>10 DEF Pass, NumberHeading, CollectCitation, FinishIndex, GatherSlots, StampHeading, FinishSeed,
                 ShowHeading, ShowElement, Generate, AskCitations, ReserveCitation, ShowCitation, Nest, At, Ended
  <2> QED BY <1>2, <1>4, <1>8, <2>1 DEF Replays
<1>11. CASE Done \/ UNCHANGED vars
  BY <1>11 DEF Done, vars, Replays, OnlyRenders, Depth
<1> QED BY <1>5, <1>6, <1>7, <1>9, <1>10, <1>11 DEF Next

\* "EVERY guard here is installed PER PASS, and that is what makes a retry free of
\* consequences": every whole render of a document writes the same.
THEOREM PassesAgreeHolds == Spec => []PassesAgree
<1>1. Init => Replays
  <2> SUFFICES ASSUME Init
               PROVE  Replays
    OBVIOUS
  <2>1. stack = << >> /\ passes = << >> /\ plan \in Plan
    BY DEF Init
  <2>2. Depth = 0 /\ passes \in Seq(ToSet(passes)) /\ \A p \in DOMAIN passes : FALSE
    BY <2>1 DEF Depth
  <2> QED BY <2>1, <2>2, RendersLast DEF Replays
<1>2. IInv /\ Replays /\ [Next]_vars => Replays'
  BY ReplaysStep
<1>3. Replays => PassesAgree
  BY OneEnd DEF Replays, PassesAgree
<1> QED BY <1>1, <1>2, <1>3, InvHolds, PTL DEF Spec

-----------------------------------------------------------------------------
(* No two elements of a render have one id.  Each element written is put   *)
(* down to its place in the document, so that two elements are two places. *)

\* The stamped headings of a document: in used parts, no two with one id, none with an
\* id the author wrote.
StampedAt(doc, n, k) ==
    doc.parts[n][k].kind = "heading" /\ doc.parts[n][k].id # NoId /\ ~doc.parts[n][k].authored
AuthoredAt(doc, n, k) ==
    /\ doc.parts[n][k].kind \in {"heading", "block", "inline"} /\ doc.parts[n][k].id # NoId
    /\ ~StampedAt(doc, n, k)
StampedOnce(doc) ==
    \A n \in Parts(doc) : \A k \in DOMAIN doc.parts[n] : StampedAt(doc, n, k) =>
        \A m \in Parts(doc) : \A j \in DOMAIN doc.parts[m] :
            /\ AuthoredAt(doc, m, j) => doc.parts[m][j].id # doc.parts[n][k].id
            /\ StampedAt(doc, m, j) /\ doc.parts[m][j].id = doc.parts[n][k].id => m = n /\ j = k
Sound(doc) == Annotated(doc) /\ StampedOnce(doc)

\* The places a walk over the used parts is past.
Walks(f) == UNION {{<<n, k>> : k \in 1..Progress(f, n)} : n \in Used(f.doc)}

\* The names of citations: each is given once, and every one the document has is due.
CitesCovered(f) ==
    \A p \in Places(f.doc) : LET site == SiteAt(f.doc, p) IN
        /\ site.kind = "cite" => \E i \in DOMAIN f.cited :
               f.cited[i].key = site.name /\ site.use <= f.cited[i].count
        /\ site.kind = "entry" => \E i \in DOMAIN f.cited : f.cited[i].key = site.name
SlotIds(f) == UNION {ToSet(f.slots[n]) : n \in Used(f.doc)}
Gives(f) ==
    /\ \A name \in DOMAIN f.given : f.given[name] \in ToSet(f.handed)
    /\ \A x, y \in DOMAIN f.given : f.given[x] = f.given[y] => x = y
    /\ SlotIds(f) \subseteq DOMAIN f.used
    /\ ToSet(f.handed) \cap SlotIds(f) = {}

\* What an element shows of the site at its place.
Shows(f, element, place) ==
    LET site == SiteAt(f.doc, place) IN
    /\ element.kind = site.kind /\ element.part = place[1] /\ element.at = place[2]
    /\ element.how = "authored" => AuthoredAt(f.doc, place[1], place[2]) /\ element.id = site.id
    /\ element.how = "stamped" => StampedAt(f.doc, place[1], place[2]) /\ element.id = site.id
    /\ element.how = "numbered" =>
           site.kind = "heading" /\ site.id = NoId /\ element.id \in DOMAIN f.counts \ f.explicit
    /\ element.how = "generated" =>
           /\ element.id \in ToSet(f.handed)
           /\ site.kind \in {"widget", "cite", "entry"}
           /\ site.kind \in {"cite", "entry"} =>
                  /\ CitedAs(site) \in DOMAIN f.given /\ element.id = f.given[CitedAs(site)]
                  /\ site.kind = "cite" => site.use > 0

PutDown(f, P) ==
    /\ DOMAIN P = DOMAIN f.shown
    /\ \A e \in DOMAIN P : P[e] \in Walks(f) /\ Shows(f, f.shown[e], P[e])
    /\ \A d, e \in DOMAIN P : P[d] = P[e] => d = e
    /\ \A d, e \in DOMAIN P :
           f.shown[d].id = f.shown[e].id /\ f.shown[d].how = f.shown[e].how =>
               /\ f.shown[e].how = "numbered" => d = e
               /\ f.shown[d].kind = "widget" /\ f.shown[e].kind = "widget" => d = e
    /\ \A e \in DOMAIN P, name \in DOMAIN f.given :
           f.shown[e].kind = "widget" => f.shown[e].id # f.given[name]

Showing(f) == Sound(f.doc) /\ CitesCovered(f) /\ Gives(f) /\ \E P : PutDown(f, P)

\* No part is walked past its end.
LEMMA ProgressBounded ==
    ASSUME NEW f, IsFrame(f), OnWalk(f), NEW n \in Parts(f.doc)
    PROVE  Progress(f, n) \in 0..Len(f.doc.parts[n])
<1>1. Len(f.doc.parts[n]) \in Nat /\ f.next \in Nat \ {0}
  BY WalkFacts
<1>2. CASE \E a \in 1..Behind(f) : Ord(f)[a] = n
  BY <1>1, <1>2 DEF Progress
<1>3. CASE ~(\E a \in 1..Behind(f) : Ord(f)[a] = n)
  <2>1. f.parts # << >> /\ PartOf(f) = n => f.next <= Len(f.doc.parts[n]) + 1
    BY DEF OnWalk
  <2>2. f.parts # << >> /\ PartOf(f) = n => f.next - 1 \in 0..Len(f.doc.parts[n])
    BY <1>1, <2>1
  <2>3. 0 \in 0..Len(f.doc.parts[n])
    BY <1>1
  <2> QED BY <1>3, <2>2, <2>3 DEF Progress
<1> QED BY <1>2, <1>3

\* Words, keys and uses make the names of citations one to one.
LEMMA CitedOnce ==
    ASSUME NEW doc, IsDoc(doc), Annotated(doc), NEW p \in Places(doc), NEW q \in Places(doc),
           SiteAt(doc, p).kind \in {"cite", "entry"}, SiteAt(doc, q).kind \in {"cite", "entry"},
           SiteAt(doc, p).kind = "cite" => SiteAt(doc, p).use > 0,
           SiteAt(doc, q).kind = "cite" => SiteAt(doc, q).use > 0,
           CitedAs(SiteAt(doc, p)) = CitedAs(SiteAt(doc, q))
    PROVE  p = q
<1>1. PICK s, t : s = SiteAt(doc, p) /\ t = SiteAt(doc, q)
  OBVIOUS
<1>2. s \in Site /\ t \in Site
  <2>1. \A x \in Places(doc) : \E n \in Used(doc) : \E k \in DOMAIN doc.parts[n] : x = <<n, k>>
    BY DEF Places
  <2>2. \A n \in Used(doc) : \A k \in DOMAIN doc.parts[n] : doc.parts[n][k] \in Site
    BY UsedParts
  <2> QED BY <1>1, <2>1, <2>2 DEF SiteAt
<1>3. PICK W : W = Word \cup Nat
  OBVIOUS
<1>4. s.name \in Seq(W) /\ t.name \in Seq(W) /\ s.use \in Nat /\ t.use \in Nat
      /\ s.use \in W /\ t.use \in W /\ Cite \in W /\ Ref \in W /\ Cite # Ref
  BY <1>2, <1>3, DocumentsTyped, DocumentsParsed DEF Site, Id
<1>5. \A w \in W, x, y \in Seq(W) : <<w>> \o x = <<w>> \o y => x = y
  <2> TAKE w \in W, x, y \in Seq(W)
  <2>1. SUFFICES ASSUME <<w>> \o x = <<w>> \o y
                 PROVE  x = y
    OBVIOUS
  <2>2. /\ Len(<<w>> \o x) = Len(x) + 1 /\ Len(<<w>> \o y) = Len(y) + 1
        /\ \A i \in 1..Len(x) : (<<w>> \o x)[i + 1] = x[i]
        /\ \A i \in 1..Len(y) : (<<w>> \o y)[i + 1] = y[i]
    OBVIOUS
  <2>3. Len(x) = Len(y) /\ \A i \in 1..Len(x) : x[i] = y[i]
    BY <2>1, <2>2
  <2> QED BY <2>3, SeqEqual
<1>6. \A x, y \in Seq(W) : <<Cite>> \o x # <<Ref>> \o y
  <2> TAKE x, y \in Seq(W)
  <2>1. (<<Cite>> \o x)[1] = Cite /\ (<<Ref>> \o y)[1] = Ref
    BY <1>4
  <2> QED BY <1>4, <2>1
<1>7. Append(s.name, s.use) \in Seq(W) /\ Append(t.name, t.use) \in Seq(W)
  BY <1>4
<1>8. CASE s.kind = "entry" /\ t.kind = "entry"
  <2>1. s.name = t.name
    BY <1>1, <1>4, <1>5, <1>8 DEF CitedAs, RefName
  <2>2. Naming(doc, "entry", s.name) = {p} /\ q \in Naming(doc, "entry", s.name)
    BY <1>1, <1>8, <2>1 DEF Annotated, Naming
  <2> QED BY <2>2
<1>9. CASE s.kind = "cite" /\ t.kind = "cite"
  <2>1. Append(s.name, s.use) = Append(t.name, t.use)
    BY <1>1, <1>4, <1>5, <1>7, <1>9 DEF CitedAs, CiteName
  <2>2. s.name = t.name /\ s.use = t.use
    <3>1. /\ Len(Append(s.name, s.use)) = Len(s.name) + 1 /\ Len(Append(t.name, t.use)) = Len(t.name) + 1
          /\ Len(s.name) \in Nat /\ Len(t.name) \in Nat
          /\ Append(s.name, s.use)[Len(s.name) + 1] = s.use /\ Append(t.name, t.use)[Len(t.name) + 1] = t.use
          /\ \A i \in 1..Len(s.name) : Append(s.name, s.use)[i] = s.name[i]
          /\ \A i \in 1..Len(t.name) : Append(t.name, t.use)[i] = t.name[i]
      BY <1>4
    <3>2. Len(s.name) = Len(t.name)
      BY <2>1, <3>1
    <3> QED BY <1>4, <2>1, <3>1, <3>2, SeqEqual
  <2>3. p \in Naming(doc, "cite", t.name) /\ q \in Naming(doc, "cite", s.name)
    BY <1>1, <1>9, <2>2 DEF Naming
  <2>4. s.use > 0 => \A r \in Naming(doc, "cite", s.name) : SiteAt(doc, r).use = s.use => r = p
    BY <1>1, <1>9 DEF Annotated
  <2> QED BY <1>1, <1>9, <2>2, <2>3, <2>4
<1>10. CASE s.kind # t.kind
  BY <1>1, <1>4, <1>6, <1>7, <1>10 DEF CitedAs, CiteName, RefName
<1> QED BY <1>1, <1>8, <1>9, <1>10

\* The elements of a render, then, have ids of their own.
LEMMA ShowingIsApart ==
    ASSUME NEW f, IsFrame(f), Apart(f), Rendering(f), f.job = "render", Showing(f),
           InOrder(f.doc) \/ Named(f.doc), NEW d \in DOMAIN f.shown, NEW e \in DOMAIN f.shown,
           d # e, f.shown[d].id = f.shown[e].id
    PROVE  f.shown[d].how = "authored" /\ f.shown[e].how = "authored"
<1>1. PICK P : PutDown(f, P)
  BY DEF Showing
<1>2. /\ Sound(f.doc) /\ Gives(f) /\ IsDoc(f.doc)
  BY DEF Showing, IsFrame
<1>3. \A x \in DOMAIN f.shown : f.shown[x].how \in {"authored", "stamped", "numbered", "generated"}
  <2>1. PICK R : R = [part : Parts(f.doc), at : Nat, kind : Kind, id : Id,
                      how : {"authored", "stamped", "numbered", "generated"}]
    OBVIOUS
  <2>2. f.shown \in Seq(R)
    BY <2>1 DEF IsFrame
  <2>3. \A x \in DOMAIN f.shown : f.shown[x] \in R
    BY <2>2
  <2> QED BY <2>1, <2>3
<1>4. /\ \A x \in DOMAIN f.shown : P[x] \in Walks(f) /\ Shows(f, f.shown[x], P[x])
      /\ P[d] # P[e]
  BY <1>1 DEF PutDown
<1>5. \A x \in DOMAIN f.shown : \E n \in Used(f.doc) : \E k \in DOMAIN f.doc.parts[n] : P[x] = <<n, k>>
  <2> TAKE x \in DOMAIN f.shown
  <2>1. PICK n \in Used(f.doc) : \E k \in 1..Progress(f, n) : P[x] = <<n, k>>
    BY <1>4 DEF Walks
  <2>2. n \in Parts(f.doc) /\ DOMAIN f.doc.parts[n] = 1..Len(f.doc.parts[n]) /\ Len(f.doc.parts[n]) \in Nat
    BY <1>2, UsedParts
  <2>3. Progress(f, n) \in 0..Len(f.doc.parts[n])
    BY <2>2, ProgressBounded DEF Rendering
  <2> QED BY <2>1, <2>2, <2>3
<1>12. \A x \in DOMAIN f.shown : \A n, k : P[x] = <<n, k>> =>
          /\ SiteAt(f.doc, P[x]) = f.doc.parts[n][k]
          /\ f.shown[x].kind = f.doc.parts[n][k].kind /\ f.shown[x].part = n
          /\ f.shown[x].how = "authored" => AuthoredAt(f.doc, n, k) /\ f.shown[x].id = f.doc.parts[n][k].id
          /\ f.shown[x].how = "stamped" => StampedAt(f.doc, n, k) /\ f.shown[x].id = f.doc.parts[n][k].id
          /\ f.shown[x].how = "numbered" => /\ f.doc.parts[n][k].kind = "heading" /\ f.doc.parts[n][k].id = NoId
                                           /\ f.shown[x].id \notin f.explicit
  <2> TAKE x \in DOMAIN f.shown
  <2> TAKE n, k
  <2>1. SUFFICES ASSUME P[x] = <<n, k>>
                 PROVE  /\ SiteAt(f.doc, P[x]) = f.doc.parts[n][k]
                        /\ P[x][1] = n /\ P[x][2] = k
    BY <1>4 DEF Shows
  <2> QED BY <2>1 DEF SiteAt
<1>13. \A x \in DOMAIN f.shown : P[x] \in Places(f.doc)
  <2> TAKE x \in DOMAIN f.shown
  <2>1. PICK n, k : n \in Used(f.doc) /\ k \in DOMAIN f.doc.parts[n] /\ P[x] = <<n, k>>
    BY <1>5
  <2>2. <<n, k>> \in {<<n, j>> : j \in DOMAIN f.doc.parts[n]}
    BY <2>1
  <2> QED BY <2>1, <2>2 DEF Places
<1>6. \A x \in DOMAIN f.shown : f.shown[x].how \in {"authored", "stamped"} => f.shown[x].id \in f.explicit
  BY DEF Apart, Ids
<1>7. \A x \in DOMAIN f.shown : f.shown[x].how = "numbered" =>
         f.shown[x].id \notin f.explicit /\ f.shown[x].id \in SlotIds(f)
  <2> SUFFICES ASSUME NEW x \in DOMAIN f.shown, f.shown[x].how = "numbered"
               PROVE  f.shown[x].id \notin f.explicit /\ f.shown[x].id \in SlotIds(f)
    OBVIOUS
  <2>1. PICK n, k : n \in Used(f.doc) /\ k \in DOMAIN f.doc.parts[n] /\ P[x] = <<n, k>>
    BY <1>5
  <2>2. /\ f.doc.parts[n][k].kind = "heading" /\ f.doc.parts[n][k].id = NoId
        /\ f.shown[x].id \notin f.explicit /\ f.shown[x].part = n /\ f.shown[x].kind = "heading"
    BY <1>12, <2>1
  <2>3. InOrder(f.doc)
    BY <2>1, <2>2 DEF Named
  <2>4. Foretold(f.doc, f.shown, f.slots)
    BY <2>3 DEF Rendering
  <2>5. \E r \in DOMAIN f.slots[n] : f.slots[n][r] = f.shown[x].id
    BY <2>2, <2>4 DEF Foretold
  <2>6. f.shown[x].id \in ToSet(f.slots[n])
    BY <2>5 DEF ToSet
  <2> QED BY <2>1, <2>2, <2>6 DEF SlotIds
<1>8. \A x \in DOMAIN f.shown : f.shown[x].how = "generated" =>
         f.shown[x].id \notin f.explicit /\ f.shown[x].id \notin SlotIds(f)
  BY <1>2, <1>4 DEF Apart, Gives, Shows
<1>9. ASSUME f.shown[d].how = "numbered" \/ f.shown[e].how = "numbered"
      PROVE  FALSE
  <2>1. f.shown[d].how = "numbered" /\ f.shown[e].how = "numbered"
    BY <1>3, <1>6, <1>7, <1>8, <1>9
  <2> QED BY <1>1, <2>1 DEF PutDown
<1>10. ASSUME f.shown[d].how = "generated" \/ f.shown[e].how = "generated"
       PROVE  FALSE
  <2>1. f.shown[d].how = "generated" /\ f.shown[e].how = "generated"
    BY <1>3, <1>6, <1>8, <1>9, <1>10
  <2>2. PICK s, t : s = SiteAt(f.doc, P[d]) /\ t = SiteAt(f.doc, P[e])
    OBVIOUS
  <2>3. /\ f.shown[d].kind = s.kind /\ f.shown[e].kind = t.kind
        /\ s.kind \in {"widget", "cite", "entry"} /\ t.kind \in {"widget", "cite", "entry"}
        /\ s.kind \in {"cite", "entry"} =>
             CitedAs(s) \in DOMAIN f.given /\ f.shown[d].id = f.given[CitedAs(s)]
             /\ (s.kind = "cite" => s.use > 0)
        /\ t.kind \in {"cite", "entry"} =>
             CitedAs(t) \in DOMAIN f.given /\ f.shown[e].id = f.given[CitedAs(t)]
             /\ (t.kind = "cite" => t.use > 0)
    BY <1>4, <2>1, <2>2 DEF Shows
  <2>4. CASE s.kind = "widget" \/ t.kind = "widget"
    <3>1. s.kind = "widget" /\ t.kind = "widget"
      BY <1>1, <2>3, <2>4 DEF PutDown
    <3> QED BY <1>1, <2>1, <2>3, <3>1 DEF PutDown
  <2>5. CASE s.kind # "widget" /\ t.kind # "widget"
    <3>1. CitedAs(s) = CitedAs(t)
      BY <1>2, <2>3, <2>5 DEF Gives
    <3>2. P[d] \in Places(f.doc) /\ P[e] \in Places(f.doc)
      BY <1>13
    <3>3. Annotated(f.doc)
      BY <1>2 DEF Sound
    <3> QED BY <1>2, <1>4, <2>2, <2>3, <2>5, <3>1, <3>2, <3>3, CitedOnce
  <2> QED BY <2>4, <2>5
<1>11. ASSUME f.shown[d].how = "stamped" \/ f.shown[e].how = "stamped"
       PROVE  FALSE
  <2>1. PICK n, k : n \in Used(f.doc) /\ k \in DOMAIN f.doc.parts[n] /\ P[d] = <<n, k>>
    BY <1>5
  <2>2. PICK m, j : m \in Used(f.doc) /\ j \in DOMAIN f.doc.parts[m] /\ P[e] = <<m, j>>
    BY <1>5
  <2>3. /\ f.shown[d].how \in {"authored", "stamped"} /\ f.shown[e].how \in {"authored", "stamped"}
    BY <1>3, <1>9, <1>10
  <2>4. /\ f.shown[d].id = f.doc.parts[n][k].id /\ f.shown[e].id = f.doc.parts[m][j].id
        /\ f.shown[d].how = "authored" => AuthoredAt(f.doc, n, k)
        /\ f.shown[d].how = "stamped" => StampedAt(f.doc, n, k)
        /\ f.shown[e].how = "authored" => AuthoredAt(f.doc, m, j)
        /\ f.shown[e].how = "stamped" => StampedAt(f.doc, m, j)
    BY <1>12, <2>1, <2>2, <2>3
  <2>5. n \in Parts(f.doc) /\ m \in Parts(f.doc) /\ ~(n = m /\ k = j)
    BY <1>2, <1>4, <2>1, <2>2, UsedParts
  <2>6. StampedOnce(f.doc)
    BY <1>2 DEF Sound
  <2>7. CASE f.shown[d].how = "stamped"
    <3>1. /\ AuthoredAt(f.doc, m, j) => f.doc.parts[m][j].id # f.doc.parts[n][k].id
          /\ StampedAt(f.doc, m, j) /\ f.doc.parts[m][j].id = f.doc.parts[n][k].id => m = n /\ j = k
      BY <2>1, <2>2, <2>4, <2>5, <2>6, <2>7 DEF StampedOnce
    <3> QED BY <2>3, <2>4, <2>5, <3>1
  <2>8. CASE f.shown[e].how = "stamped"
    <3>1. /\ AuthoredAt(f.doc, n, k) => f.doc.parts[n][k].id # f.doc.parts[m][j].id
          /\ StampedAt(f.doc, n, k) /\ f.doc.parts[n][k].id = f.doc.parts[m][j].id => n = m /\ k = j
      BY <2>1, <2>2, <2>4, <2>5, <2>6, <2>8 DEF StampedOnce
    <3> QED BY <2>3, <2>4, <2>5, <3>1
  <2> QED BY <1>11, <2>7, <2>8
<1> QED BY <1>3, <1>9, <1>10, <1>11

-----------------------------------------------------------------------------
\* A heading's number is new to the counts, and the counts have it from then on.
LEMMA HeadingIsFree ==
    ASSUME NEW site \in Site, NEW counts, IsCounts(counts),
           NEW reserved \in SUBSET Id, IsFiniteSet(reserved), NEW number,
           number = Heading(site, counts, reserved)
    PROVE  /\ DOMAIN counts \subseteq DOMAIN number.counts
           /\ site.id = NoId => /\ number.id \notin DOMAIN counts \cup reserved
                                /\ number.id \in DOMAIN number.counts
<1>1. PICK base : base = IF site.id = NoId THEN site.name ELSE site.id
  OBVIOUS
<1>2. base \in Id
  BY <1>1 DEF Site
<1>3. CASE site.id # NoId
  <2>1. number.counts = Kept(counts, site.id)
    BY <1>3 DEF Heading, Allocation
  <2> QED BY <1>3, <2>1 DEF Kept, With
<1>4. CASE site.id = NoId /\ base \notin DOMAIN counts \cup reserved
  <2>1. number = [id |-> base, counts |-> With(counts, base, 1)]
    BY <1>1, <1>4 DEF Heading, Allocation
  <2>2. DOMAIN With(counts, base, 1) = DOMAIN counts \cup {base}
    BY DEF With
  <2> QED BY <1>4, <2>1, <2>2
<1>5. CASE site.id = NoId /\ base \in DOMAIN counts \cup reserved
  <2>1. PICK from : from = IF base \in DOMAIN counts THEN counts[base] ELSE 1
    OBVIOUS
  <2>2. PICK n : n = NextFree(base, from, DOMAIN counts \cup reserved)
    OBVIOUS
  <2>3. number = [id |-> Suffixed(base, n), counts |-> Kept(With(counts, base, n), Suffixed(base, n))]
    BY <1>1, <1>5, <2>1, <2>2 DEF Heading, Allocation
  <2>4. from \in Nat /\ IsFiniteSet(DOMAIN counts \cup reserved)
    BY <2>1, FS_Union DEF IsCounts
  <2>5. Suffixed(base, n) \notin DOMAIN counts \cup reserved
    BY <1>2, <2>2, <2>4, NextFreeIsFree
  <2>6. DOMAIN counts \cup {base} = DOMAIN With(counts, base, n)
    BY DEF With
  <2>7. DOMAIN Kept(With(counts, base, n), Suffixed(base, n)) =
            DOMAIN With(counts, base, n) \cup {Suffixed(base, n)}
    BY DEF Kept, With
  <2> QED BY <2>3, <2>5, <2>6, <2>7
<1> QED BY <1>3, <1>4, <1>5

\* A walk is past no place of its own before it takes it.
LEMMA WalkSteps ==
    ASSUME NEW f, IsFrame(f), f.job # "gather", OnWalk(f), On(f),
           NEW new, new.job = f.job, new.parts = f.parts, new.next = f.next + 1,
           new.doc.source = f.doc.source, new.doc.refs = f.doc.refs,
           \A n \in Parts(f.doc) : Len(new.doc.parts[n]) = Len(f.doc.parts[n]),
           NEW place, place = <<PartOf(f), f.next>>
    PROVE  /\ place \notin Walks(f) /\ OnWalk(new)
           /\ Walks(new) = IF PartOf(f) \in Used(f.doc) THEN Walks(f) \cup {place} ELSE Walks(f)
           /\ PartOf(f) \in Parts(f.doc) /\ f.next \in DOMAIN f.doc.parts[PartOf(f)]
           /\ SiteAt(f.doc, place) = SiteOf(f) /\ SiteOf(f) \in Site
           /\ PartOf(f) \in Used(f.doc) => place \in Places(f.doc)
<1>1. PICK p, q : p = PartOf(f) /\ q = f.next
  OBVIOUS
<1>2. /\ OnWalk(new) /\ p \in Parts(f.doc) /\ Progress(f, p) = q - 1 /\ q \in DOMAIN f.doc.parts[p]
      /\ \A n \in Parts(f.doc) : Progress(new, n) = IF n = p THEN q ELSE Progress(f, n)
  BY <1>1, AdvancingMoves
<1>3. /\ q \in Nat \ {0} /\ Used(f.doc) \subseteq Parts(f.doc) /\ Used(new.doc) = Used(f.doc)
      /\ SiteOf(f) = f.doc.parts[p][q] /\ IsDoc(f.doc)
      /\ f.doc.parts[p] \in Seq(Site)
  BY <1>1, <1>2, WalkFacts, UsedParts DEF IsFrame, PartOf, SiteOf, Used
<1>5. \A n \in Used(f.doc) : Progress(f, n) \in Nat
  BY <1>3, ProgressBounded
<1>6. \A x : x \in Walks(f) <=> \E n \in Used(f.doc) : \E k \in 1..Progress(f, n) : x = <<n, k>>
  BY DEF Walks
<1>7. \A x : x \in Walks(new) <=> \E n \in Used(f.doc) : \E k \in 1..Progress(new, n) : x = <<n, k>>
  BY <1>3 DEF Walks
<1>8. place \notin Walks(f)
  <2>1. SUFFICES ASSUME NEW n \in Used(f.doc), NEW k \in 1..Progress(f, n), place = <<n, k>>
                 PROVE  FALSE
    BY <1>6
  <2>2. n = p /\ k = q
    BY <1>1, <2>1
  <2> QED BY <1>2, <1>3, <2>2
<1>9. \A n \in Used(f.doc) : \A k : k \in 1..Progress(new, n) <=> k \in 1..Progress(f, n) \/ (n = p /\ k = q)
  <2> TAKE n \in Used(f.doc)
  <2> TAKE k
  <2>1. CASE n = p
    BY <1>2, <1>3, <2>1
  <2>2. CASE n # p
    BY <1>2, <1>3, <2>2
  <2> QED BY <2>1, <2>2
<1>10. \A x : x \in Walks(new) <=> x \in Walks(f) \/ (p \in Used(f.doc) /\ x = <<p, q>>)
  BY SMTT(30), <1>6, <1>7, <1>9
<1>13. Walks(new) = IF p \in Used(f.doc) THEN Walks(f) \cup {place} ELSE Walks(f)
  BY <1>1, <1>10
<1>11. p \in Used(f.doc) => place \in Places(f.doc)
  <2>1. <<p, q>> \in {<<p, k>> : k \in DOMAIN f.doc.parts[p]}
    BY <1>2
  <2> QED BY <1>1, <2>1 DEF Places
<1>12. SiteAt(f.doc, place) = SiteOf(f) /\ SiteOf(f) \in Site
  <2>1. place[1] = p /\ place[2] = q
    BY <1>1
  <2> QED BY <1>2, <1>3, <2>1 DEF SiteAt
<1> QED BY <1>1, <1>2, <1>8, <1>11, <1>12, <1>13

\* The seeding and the render walk the used parts alone.
LEMMA WalkGrows ==
    ASSUME NEW f, IsFrame(f), f.job \in {"seed", "render"}, OnWalk(f), On(f), ~Skips(f),
           NEW new, IsFrame(new), new.job = f.job, new.doc = f.doc, new.parts = f.parts,
           new.next = f.next + 1, NEW place, place = <<PartOf(f), f.next>>
    PROVE  /\ place \notin Walks(f) /\ Walks(new) = Walks(f) \cup {place}
           /\ place \in Places(f.doc) /\ SiteAt(f.doc, place) = SiteOf(f) /\ SiteOf(f) \in Site
           /\ PartOf(f) \in Used(f.doc) /\ f.next \in DOMAIN f.doc.parts[PartOf(f)]
           /\ OnWalk(new)
<1>1. PICK p : p = PartOf(f)
  OBVIOUS
<1>2. p \in Used(f.doc)
  <2>1. f.job = "seed" => p \in Used(f.doc)
    BY <1>1 DEF Skips
  <2> SUFFICES ASSUME f.job = "render"
               PROVE  p \in Used(f.doc)
    BY <2>1
  <2>2. IsDoc(f.doc) /\ p = Ord(f)[Behind(f) + 1] /\ Behind(f) + 1 \in DOMAIN Ord(f)
    BY <1>1, WalkFacts DEF IsFrame, On
  <2>3. Ord(f) = << 0 >> \o f.doc.refs /\ f.doc.refs \in Seq(1..Len(f.doc.source))
    BY <2>2 DEF Ord, Order, IsDoc
  <2>4. PICK a \in DOMAIN Ord(f) : p = Ord(f)[a]
    BY <2>2
  <2>5. a \in 1..(Len(f.doc.refs) + 1) /\ Ord(f)[1] = 0 /\ Len(f.doc.refs) \in Nat
        /\ \A i \in 2..(Len(f.doc.refs) + 1) : Ord(f)[i] = f.doc.refs[i - 1] /\ i - 1 \in DOMAIN f.doc.refs
    BY <2>3, <2>4, BodyFirst
  <2>6. a = 1 \/ a \in 2..(Len(f.doc.refs) + 1)
    BY <2>5
  <2> QED BY <2>4, <2>5, <2>6 DEF Used, ToSet
<1> QED BY <1>1, <1>2, WalkSteps

\* An extension's own element has an id that was handed out.
LEMMA WidgetsHanded ==
    ASSUME NEW f, IsFrame(f), NEW e \in DOMAIN f.shown, NEW place, Shows(f, f.shown[e], place),
           f.shown[e].kind = "widget"
    PROVE  f.shown[e].how = "generated" /\ f.shown[e].id \in ToSet(f.handed)
<1>1. f.shown[e].how \in {"authored", "stamped", "numbered", "generated"}
  <2>1. PICK R : R = [part : Parts(f.doc), at : Nat, kind : Kind, id : Id,
                      how : {"authored", "stamped", "numbered", "generated"}]
    OBVIOUS
  <2>2. f.shown \in Seq(R)
    BY <2>1 DEF IsFrame
  <2>3. f.shown[e] \in R
    BY <2>2
  <2> QED BY <2>1, <2>3
<1>2. f.shown[e].how # "authored" /\ f.shown[e].how # "stamped" /\ f.shown[e].how # "numbered"
  BY DEF Shows, AuthoredAt, StampedAt, SiteAt
<1> QED BY <1>1, <1>2 DEF Shows

\* What was put down stays where it is while the render goes on.
LEMMA PutDownStays ==
    ASSUME NEW f, IsFrame(f), NEW P, PutDown(f, P), Gives(f), NEW new,
           new.doc = f.doc, new.shown = f.shown, new.explicit = f.explicit,
           Walks(f) \subseteq Walks(new), DOMAIN f.counts \subseteq DOMAIN new.counts,
           ToSet(f.handed) \subseteq ToSet(new.handed), DOMAIN f.given \subseteq DOMAIN new.given,
           \A name \in DOMAIN f.given : new.given[name] = f.given[name],
           \A name \in DOMAIN new.given \ DOMAIN f.given : new.given[name] \notin ToSet(f.handed)
    PROVE  PutDown(new, P)
<1>1. \A e \in DOMAIN P : Shows(new, new.shown[e], P[e])
  <2> TAKE e \in DOMAIN P
  <2>1. Shows(f, f.shown[e], P[e])
    BY DEF PutDown
  <2> QED BY <2>1 DEF Shows
<1>2. \A e \in DOMAIN P, name \in DOMAIN new.given : new.shown[e].kind = "widget" =>
          new.shown[e].id # new.given[name]
  <2> TAKE e \in DOMAIN P, name \in DOMAIN new.given
  <2>1. SUFFICES ASSUME new.shown[e].kind = "widget"
                 PROVE  new.shown[e].id # new.given[name]
    OBVIOUS
  <2>2. f.shown[e].id \in ToSet(f.handed)
    BY <2>1, WidgetsHanded DEF PutDown
  <2> QED BY <2>1, <2>2 DEF PutDown
<1> QED BY <1>1, <1>2 DEF PutDown

\* One more element is put down at the place the render takes.
LEMMA PutDownMore ==
    ASSUME NEW f, IsFrame(f), f.job = "render", OnWalk(f), On(f), NEW P, PutDown(f, P), Gives(f),
           NEW new, IsFrame(new), new.job = "render", new.doc = f.doc, new.parts = f.parts,
           new.next = f.next + 1, new.explicit = f.explicit, new.given = f.given,
           DOMAIN f.counts \subseteq DOMAIN new.counts, ToSet(f.handed) \subseteq ToSet(new.handed),
           NEW e, new.shown = Append(f.shown, e), Shows(new, e, <<PartOf(f), f.next>>),
           e.how = "numbered" => e.id \notin DOMAIN f.counts,
           e.kind = "widget" => e.how = "generated" /\ e.id \notin ToSet(f.handed)
    PROVE  \E Q : PutDown(new, Q)
<1>1. PICK place : place = <<PartOf(f), f.next>>
  OBVIOUS
<1>2. place \notin Walks(f) /\ Walks(new) = Walks(f) \cup {place}
  <2>1. ~Skips(f)
    BY DEF Skips
  <2> QED BY <1>1, <2>1, WalkGrows
<1>3. PICK L : L = Len(f.shown) + 1
  OBVIOUS
<1>4. /\ DOMAIN f.shown = 1..Len(f.shown) /\ Len(f.shown) \in Nat /\ DOMAIN new.shown = 1..L
      /\ \A i \in DOMAIN f.shown : new.shown[i] = f.shown[i]
      /\ new.shown[L] = e
  <2>1. PICK R : f.shown \in Seq(R)
    BY DEF IsFrame
  <2> QED BY <1>3, <2>1
<1>5. DOMAIN new.shown = DOMAIN f.shown \cup {L} /\ L \notin DOMAIN f.shown
  BY <1>3, <1>4
<1>6. PICK Q : Q = [x \in DOMAIN new.shown |-> IF x = L THEN place ELSE P[x]]
  OBVIOUS
<1>7. DOMAIN Q = DOMAIN new.shown /\ Q[L] = place /\ \A x \in DOMAIN f.shown : Q[x] = P[x]
  BY <1>5, <1>6
<1>8. DOMAIN P = DOMAIN f.shown /\ \A x \in DOMAIN P : P[x] \in Walks(f) /\ Shows(f, f.shown[x], P[x])
  BY DEF PutDown
<1>9. \A x \in DOMAIN Q : Q[x] \in Walks(new) /\ Shows(new, new.shown[x], Q[x])
  <2> TAKE x \in DOMAIN Q
  <2>1. CASE x = L
    BY <1>1, <1>2, <1>4, <1>7, <2>1
  <2>2. CASE x \in DOMAIN f.shown
    <3>1. Shows(f, f.shown[x], P[x])
      BY <1>8, <2>2
    <3>2. Shows(new, f.shown[x], P[x])
      BY <3>1 DEF Shows
    <3> QED BY <1>2, <1>4, <1>7, <1>8, <2>2, <3>2
  <2> QED BY <1>5, <1>7, <2>1, <2>2
<1>10. \A x, y \in DOMAIN Q : Q[x] = Q[y] => x = y
  <2>1. \A x \in DOMAIN f.shown : Q[x] # place
    BY <1>2, <1>7, <1>8
  <2>2. \A x, y \in DOMAIN f.shown : Q[x] = Q[y] => x = y
    BY <1>7, <1>8 DEF PutDown
  <2> QED BY <1>5, <1>7, <2>1, <2>2
<1>11. \A x \in DOMAIN f.shown : e.id = f.shown[x].id /\ e.how = f.shown[x].how =>
           e.how # "numbered" /\ ~(e.kind = "widget" /\ f.shown[x].kind = "widget")
  <2> TAKE x \in DOMAIN f.shown
  <2>1. Shows(f, f.shown[x], P[x])
    BY <1>8
  <2>2. f.shown[x].how = "numbered" => f.shown[x].id \in DOMAIN f.counts
    BY <2>1 DEF Shows
  <2>3. f.shown[x].kind = "widget" => f.shown[x].id \in ToSet(f.handed)
    BY <2>1, WidgetsHanded
  <2> QED BY <2>2, <2>3
<1>12. \A x, y \in DOMAIN Q :
          new.shown[x].id = new.shown[y].id /\ new.shown[x].how = new.shown[y].how =>
               /\ new.shown[y].how = "numbered" => x = y
               /\ new.shown[x].kind = "widget" /\ new.shown[y].kind = "widget" => x = y
  <2> TAKE x, y \in DOMAIN Q
  <2>1. CASE x = L /\ y = L
    BY <2>1
  <2>2. CASE x = L /\ y \in DOMAIN f.shown
    BY <1>4, <1>11, <2>2
  <2>3. CASE x \in DOMAIN f.shown /\ y = L
    BY <1>4, <1>11, <2>3
  <2>4. CASE x \in DOMAIN f.shown /\ y \in DOMAIN f.shown
    BY <1>4, <1>8, <2>4 DEF PutDown
  <2> QED BY <1>5, <1>7, <2>1, <2>2, <2>3, <2>4
<1>13. \A x \in DOMAIN Q, name \in DOMAIN new.given :
           new.shown[x].kind = "widget" => new.shown[x].id # new.given[name]
  <2> TAKE x \in DOMAIN Q, name \in DOMAIN new.given
  <2>1. CASE x = L
    <3>1. new.given[name] \in ToSet(f.handed)
      BY DEF Gives
    <3> QED BY <1>4, <2>1, <3>1
  <2>2. CASE x \in DOMAIN f.shown
    BY <1>4, <1>8, <2>2 DEF PutDown
  <2> QED BY <1>5, <1>7, <2>1, <2>2
<1>14. PutDown(new, Q)
  BY <1>7, <1>9, <1>10, <1>12, <1>13 DEF PutDown
<1> QED BY <1>14

LEMMA ElementsMore ==
    ASSUME NEW S, NEW s \in Seq(S), NEW x
    PROVE  ToSet(Append(s, x)) = ToSet(s) \cup {x}
<1>1. PICK more : more = Append(s, x)
  OBVIOUS
<1>2. /\ DOMAIN more = 1..(Len(s) + 1) /\ DOMAIN s = 1..Len(s) /\ Len(s) \in Nat
      /\ \A i \in 1..Len(s) : more[i] = s[i]
      /\ more[Len(s) + 1] = x
  BY <1>1
<1>3. DOMAIN more = DOMAIN s \cup {Len(s) + 1}
  BY <1>2
<1> QED BY <1>1, <1>2, <1>3 DEF ToSet

LEMMA CountedKeys ==
    ASSUME NEW f, IsFrame(f)
    PROVE  \A i \in DOMAIN f.cited : f.cited[i].key \in Id /\ f.cited[i].count \in Nat
<1>1. PICK R : R = [key : Id, count : Nat]
  OBVIOUS
<1>2. f.cited \in Seq(R)
  BY <1>1 DEF IsFrame
<1>3. \A i \in DOMAIN f.cited : f.cited[i] \in R
  BY <1>2
<1> QED BY <1>1, <1>3

\* Of all the names the seeder counted, the one a citation wants is given by now.
LEMMA CitationGiven ==
    ASSUME NEW f, IsFrame(f), CitesCovered(f), DueIn(f) = {}, NEW place \in Places(f.doc),
           SiteAt(f.doc, place) \in Site,
           SiteAt(f.doc, place).kind = "entry"
               \/ (SiteAt(f.doc, place).kind = "cite" /\ SiteAt(f.doc, place).use > 0)
    PROVE  CitedAs(SiteAt(f.doc, place)) \in DOMAIN f.given
<1>1. PICK s : s = SiteAt(f.doc, place)
  OBVIOUS
<1>2. \A turn \in TurnsIn(f) : NameIn(f, turn) \in DOMAIN f.given
  BY DEF DueIn
<1>3. PICK i \in DOMAIN f.cited : f.cited[i].key = s.name /\ (s.kind = "cite" => s.use <= f.cited[i].count)
  BY <1>1 DEF CitesCovered
<1>4. CASE s.kind = "entry"
  <2>1. <<2, i, 0>> \in TurnsIn(f)
    BY DEF TurnsIn
  <2>2. NameIn(f, <<2, i, 0>>) = RefName(s.name)
    BY <1>3 DEF NameIn
  <2> QED BY <1>1, <1>2, <1>4, <2>1, <2>2 DEF CitedAs
<1>5. CASE s.kind = "cite"
  <2>1. s.use > 0 /\ s.use \in Nat
    BY <1>1, <1>5 DEF Site
  <2>2. f.cited[i].count \in Nat
    BY CountedKeys
  <2>3. s.use \in 1..f.cited[i].count
    BY <1>3, <1>5, <2>1, <2>2
  <2>4. <<1, i, s.use>> \in TurnsIn(f)
    BY <2>3 DEF TurnsIn
  <2>5. NameIn(f, <<1, i, s.use>>) = CiteName(s.name, s.use)
    BY <1>3 DEF NameIn
  <2> QED BY <1>1, <1>2, <1>5, <2>4, <2>5 DEF CitedAs
<1> QED BY <1>1, <1>4, <1>5

\* A render goes on with its elements apart.
LEMMA ShowingMoves ==
    ASSUME NEW f, IsFrame(f), Apart(f), f.job = "render", Rendering(f), Showing(f),
           NEW new, IsFrame(new), Moves(f, new)
    PROVE  Showing(new)
<1>1. OnWalk(f) /\ Sound(f.doc) /\ CitesCovered(f) /\ Gives(f) /\ IsDoc(f.doc)
  BY DEF Rendering, Showing, IsFrame
<1>2. PICK P : PutDown(f, P)
  BY DEF Showing
<1>3. PICK place : place = <<PartOf(f), f.next>>
  OBVIOUS
<1>4. ASSUME On(f), new.job = "render", new.doc = f.doc, new.parts = f.parts, new.next = f.next + 1
      PROVE  /\ place \in Places(f.doc) /\ SiteAt(f.doc, place) = SiteOf(f) /\ SiteOf(f) \in Site
             /\ Walks(f) \subseteq Walks(new) /\ place[1] = PartOf(f) /\ place[2] = f.next
             /\ SiteOf(f) = f.doc.parts[place[1]][place[2]]
  <2>2. ~Skips(f)
    BY DEF Skips
  <2>1. /\ Walks(new) = Walks(f) \cup {place}
        /\ place \in Places(f.doc) /\ SiteAt(f.doc, place) = SiteOf(f) /\ SiteOf(f) \in Site
    BY <1>1, <1>3, <1>4, <2>2, WalkGrows
  <2> QED BY <1>3, <2>1 DEF SiteOf
<1>5. ASSUME new.doc = f.doc, new.cited = f.cited, Gives(new), \E Q : PutDown(new, Q)
      PROVE  Showing(new)
  BY <1>1, <1>5 DEF Showing, CitesCovered
<1>6. ASSUME new.doc = f.doc, new.given = f.given, new.handed = f.handed, new.slots = f.slots,
             new.used = f.used
      PROVE  Gives(new)
  BY <1>1, <1>6 DEF Gives, SlotIds
<1>7. ASSUME new.doc = f.doc, new.shown = f.shown, new.explicit = f.explicit,
             new.handed = f.handed, new.given = f.given, new.counts = f.counts,
             Walks(f) \subseteq Walks(new)
      PROVE  PutDown(new, P)
  <2>1. ToSet(f.handed) \subseteq ToSet(new.handed) /\ DOMAIN f.counts \subseteq DOMAIN new.counts
    BY <1>7
  <2>2. /\ DOMAIN f.given \subseteq DOMAIN new.given
        /\ \A name \in DOMAIN f.given : new.given[name] = f.given[name]
        /\ \A name \in DOMAIN new.given \ DOMAIN f.given : new.given[name] \notin ToSet(f.handed)
    BY <1>7
  <2> QED BY <1>1, <1>2, <1>7, <2>1, <2>2, PutDownStays
<1>8. ASSUME NEW e, On(f), new.job = "render", new.doc = f.doc, new.parts = f.parts,
             new.next = f.next + 1, new.explicit = f.explicit, new.given = f.given,
             DOMAIN f.counts \subseteq DOMAIN new.counts, ToSet(f.handed) \subseteq ToSet(new.handed),
             new.shown = Append(f.shown, e), Shows(new, e, place),
             e.how = "numbered" => e.id \notin DOMAIN f.counts,
             e.kind = "widget" => e.how = "generated" /\ e.id \notin ToSet(f.handed)
      PROVE  \E Q : PutDown(new, Q)
  BY <1>1, <1>2, <1>3, <1>8, PutDownMore
<1>9. CASE Leaves(f, new)
  <2>1. /\ new.doc = f.doc /\ new.shown = f.shown /\ new.explicit = f.explicit
        /\ new.handed = f.handed /\ new.given = f.given /\ new.counts = f.counts
        /\ new.slots = f.slots /\ new.used = f.used /\ new.cited = f.cited
    BY <1>9 DEF Leaves, IsFrame, Fields
  <2>2. ~Skips(f)
    BY DEF Skips
  <2>3. \A n \in Used(f.doc) : Progress(new, n) = Progress(f, n)
    BY <1>1, <1>9, <2>2, LeavingKeeps, UsedParts
  <2>4. Walks(new) = Walks(f)
    BY <2>1, <2>3 DEF Walks
  <2> QED BY <1>5, <1>6, <1>7, <2>1, <2>4
<1>10. CASE Passes(f, new)
  <2>1. /\ On(f) /\ new.job = "render" /\ new.doc = f.doc /\ new.parts = f.parts /\ new.next = f.next + 1
        /\ SiteOf(f).kind \notin Kind
    BY <1>10 DEF Passes, Stops, IsFrame, Fields
  <2> QED BY <1>4, <2>1 DEF Site
<1>11. CASE ShowsHeading(f, new)
  <2>1. On(f) /\ SiteOf(f).kind = "heading"
    BY <1>11 DEF ShowsHeading, Stands
  <2>2. CASE SiteOf(f).id # NoId /\ ~SiteOf(f).authored
    <3>1. PICK e : e = ShownAt(f, SiteOf(f).id, "stamped")
      OBVIOUS
    <3>2. new = [f EXCEPT !.next = @ + 1, !.shown = Append(@, e)]
      BY <1>11, <2>2, <3>1 DEF ShowsHeading
    <3>3. /\ new.job = "render" /\ new.doc = f.doc /\ new.parts = f.parts /\ new.next = f.next + 1
          /\ new.explicit = f.explicit /\ new.handed = f.handed /\ new.given = f.given
          /\ new.counts = f.counts /\ new.slots = f.slots /\ new.used = f.used /\ new.cited = f.cited
          /\ new.shown = Append(f.shown, e)
      BY <3>2 DEF IsFrame, Fields
    <3>4. e.kind = SiteOf(f).kind /\ e.part = PartOf(f) /\ e.at = f.next /\ e.id = SiteOf(f).id
          /\ e.how = "stamped"
      BY <3>1 DEF ShownAt
    <3>5. StampedAt(f.doc, place[1], place[2])
      BY <1>4, <2>1, <2>2, <3>3 DEF StampedAt
    <3>6. Shows(new, e, place)
      BY <1>4, <2>1, <3>3, <3>4, <3>5 DEF Shows
    <3>7. \E Q : PutDown(new, Q)
      BY <1>8, <2>1, <3>3, <3>4, <3>6
    <3> QED BY <1>5, <1>6, <3>3, <3>7
  <2>3. CASE ~(SiteOf(f).id # NoId /\ ~SiteOf(f).authored)
    <3>1. PICK number : number = Heading(SiteOf(f), f.counts, f.explicit)
      OBVIOUS
    <3>2. PICK e : e = ShownAt(f, number.id, IF SiteOf(f).id # NoId THEN "authored" ELSE "numbered")
      OBVIOUS
    <3>3. new = [f EXCEPT !.next = @ + 1, !.counts = number.counts, !.shown = Append(@, e)]
      BY <1>11, <2>3, <3>1, <3>2 DEF ShowsHeading
    <3>4. /\ new.job = "render" /\ new.doc = f.doc /\ new.parts = f.parts /\ new.next = f.next + 1
          /\ new.explicit = f.explicit /\ new.handed = f.handed /\ new.given = f.given
          /\ new.counts = number.counts /\ new.slots = f.slots /\ new.used = f.used /\ new.cited = f.cited
          /\ new.shown = Append(f.shown, e)
      BY <3>3 DEF IsFrame, Fields
    <3>5. SiteOf(f) \in Site /\ SiteAt(f.doc, place) = SiteOf(f) /\ place[1] = PartOf(f) /\ place[2] = f.next
          /\ SiteOf(f) = f.doc.parts[place[1]][place[2]]
      BY <1>4, <2>1, <3>4
    <3>6. /\ DOMAIN f.counts \subseteq DOMAIN number.counts
          /\ SiteOf(f).id = NoId => /\ number.id \notin DOMAIN f.counts \cup f.explicit
                                    /\ number.id \in DOMAIN number.counts
          /\ SiteOf(f).id # NoId => number.id = SiteOf(f).id
      <4>1. IsCounts(f.counts) /\ f.explicit \in SUBSET Id /\ IsFiniteSet(f.explicit)
        BY DEF IsFrame
      <4>2. PICK site \in Site : site = SiteOf(f)
        BY <3>5
      <4>3. PICK counts : counts = f.counts
        OBVIOUS
      <4>4. PICK taken \in SUBSET Id : taken = f.explicit
        BY <4>1
      <4>5. IsCounts(counts) /\ IsFiniteSet(taken) /\ number = Heading(site, counts, taken)
        BY <3>1, <4>1, <4>2, <4>3, <4>4
      <4>6. /\ DOMAIN counts \subseteq DOMAIN number.counts
            /\ site.id = NoId => /\ number.id \notin DOMAIN counts \cup taken
                                 /\ number.id \in DOMAIN number.counts
        BY <4>5, HeadingIsFree
      <4>7. site.id # NoId => number.id = site.id
        BY <4>5, HeadingIsId
      <4> QED BY <4>2, <4>3, <4>4, <4>6, <4>7
    <3>7. e.kind = "heading" /\ e.part = PartOf(f) /\ e.at = f.next /\ e.id = number.id
          /\ e.how = IF SiteOf(f).id # NoId THEN "authored" ELSE "numbered"
      BY <2>1, <3>2 DEF ShownAt
    <3>8. SiteOf(f).id # NoId => AuthoredAt(f.doc, place[1], place[2])
      BY <2>1, <2>3, <3>5 DEF AuthoredAt, StampedAt
    <3>9. Shows(new, e, place)
      BY <2>1, <3>4, <3>5, <3>6, <3>7, <3>8 DEF Shows
    <3>10. \E Q : PutDown(new, Q)
      BY <1>8, <2>1, <3>4, <3>6, <3>7, <3>9
    <3> QED BY <1>5, <1>6, <3>4, <3>10
  <2> QED BY <2>2, <2>3
<1>12. CASE ShowsElement(f, new)
  <2>1. On(f) /\ SiteOf(f).kind \in {"block", "inline"}
    BY <1>12 DEF ShowsElement, Stands
  <2>2. PICK e : e = ShownAt(f, SiteOf(f).id, "authored")
    OBVIOUS
  <2>3. /\ new.job = "render" /\ new.doc = f.doc /\ new.parts = f.parts /\ new.next = f.next + 1
        /\ new.explicit = f.explicit /\ new.handed = f.handed /\ new.given = f.given
        /\ new.counts = f.counts /\ new.slots = f.slots /\ new.used = f.used /\ new.cited = f.cited
        /\ new.shown = Append(f.shown, e)
    BY <1>12, <2>2 DEF ShowsElement, IsFrame, Fields
  <2>4. /\ SiteAt(f.doc, place) = SiteOf(f) /\ place[1] = PartOf(f) /\ place[2] = f.next /\ place \in Places(f.doc)
        /\ SiteOf(f) = f.doc.parts[place[1]][place[2]]
    BY <1>4, <2>1, <2>3
  <2>5. SiteOf(f).id # NoId
    <3>3. ~Skips(f)
      BY DEF Skips
    <3>1. PartOf(f) \in Used(f.doc) /\ f.next \in DOMAIN f.doc.parts[PartOf(f)]
      BY <1>1, <2>1, <2>3, <3>3, WalkGrows
    <3>2. PartOf(f) \in Parts(f.doc)
      BY <1>1, <3>1, UsedParts
    <3> QED BY <1>1, <2>1, <3>1, <3>2 DEF IsDoc, SiteOf
  <2>6. AuthoredAt(f.doc, place[1], place[2])
    BY <2>1, <2>4, <2>5 DEF AuthoredAt, StampedAt
  <2>7. e.kind = SiteOf(f).kind /\ e.part = PartOf(f) /\ e.at = f.next /\ e.id = SiteOf(f).id /\ e.how = "authored"
    BY <2>2 DEF ShownAt
  <2>8. Shows(new, e, place)
    BY <2>3, <2>4, <2>6, <2>7 DEF Shows
  <2>9. \E Q : PutDown(new, Q)
    BY <1>8, <2>1, <2>3, <2>7, <2>8
  <2> QED BY <1>5, <1>6, <2>3, <2>9
<1>13. CASE Generates(f, new)
  <2>1. On(f) /\ SiteOf(f).kind = "widget"
    BY <1>13 DEF Generates, Stands
  <2>2. PICK number : number = Unique(SiteOf(f).name, f.used)
    OBVIOUS
  <2>3. PICK e : e = ShownAt(f, number.id, "generated")
    OBVIOUS
  <2>4. new = [f EXCEPT !.next = @ + 1, !.used = number.counts, !.handed = Append(@, number.id),
                        !.shown = Append(@, e)]
    BY <1>13, <2>2, <2>3 DEF Generates
  <2>5. /\ new.job = "render" /\ new.doc = f.doc /\ new.parts = f.parts /\ new.next = f.next + 1
        /\ new.explicit = f.explicit /\ new.handed = Append(f.handed, number.id) /\ new.given = f.given
        /\ new.counts = f.counts /\ new.slots = f.slots /\ new.used = number.counts /\ new.cited = f.cited
        /\ new.shown = Append(f.shown, e)
    BY <2>4 DEF IsFrame, Fields
  <2>6. SiteOf(f) \in Site /\ SiteAt(f.doc, place) = SiteOf(f) /\ place[1] = PartOf(f) /\ place[2] = f.next
    BY <1>4, <2>1, <2>5
  <2>7. number.id \notin DOMAIN f.used /\ DOMAIN number.counts = DOMAIN f.used \cup {number.id}
    BY <2>2, <2>6, UniqueIsFree DEF IsFrame, Site
  <2>8. f.handed \in Seq(DOMAIN f.used) /\ ToSet(f.handed) \subseteq DOMAIN f.used
    BY OwnElements DEF IsFrame
  <2>9. ToSet(new.handed) = ToSet(f.handed) \cup {number.id}
    BY <2>5, <2>8, ElementsMore
  <2>10. e.kind = "widget" /\ e.part = PartOf(f) /\ e.at = f.next /\ e.id = number.id /\ e.how = "generated"
    BY <2>1, <2>3 DEF ShownAt
  <2>11. Shows(new, e, place)
    BY <2>1, <2>5, <2>6, <2>9, <2>10 DEF Shows
  <2>12. Gives(new)
    <3>1. SlotIds(new) = SlotIds(f)
      BY <2>5 DEF SlotIds
    <3> QED BY <1>1, <2>5, <2>7, <2>9, <3>1 DEF Gives
  <2>13. \E Q : PutDown(new, Q)
    BY <1>8, <2>1, <2>5, <2>7, <2>8, <2>9, <2>10, <2>11
  <2> QED BY <1>5, <2>5, <2>12, <2>13
<1>14. CASE Asks(f, new)
  <2>1. /\ new.doc = f.doc /\ new.shown = f.shown /\ new.explicit = f.explicit
        /\ new.handed = f.handed /\ new.given = f.given /\ new.counts = f.counts
        /\ new.slots = f.slots /\ new.used = f.used /\ new.cited = f.cited
        /\ new.job = f.job /\ new.parts = f.parts /\ new.next = f.next
    BY <1>14 DEF Asks, IsFrame, Fields
  <2>2. Walks(new) = Walks(f)
    BY <2>1 DEF Walks, Progress, Behind, Ord, PartOf
  <2> QED BY <1>5, <1>6, <1>7, <2>1, <2>2
<1>15. CASE Reserves(f, new)
  <2>1. PICK turn \in DueIn(f) : \E number \in {Unique(NameIn(f, turn), f.used)} :
               new = [f EXCEPT !.used = number.counts, !.handed = Append(@, number.id),
                               !.given = [x \in DOMAIN @ \cup {NameIn(f, turn)} |->
                                   IF x = NameIn(f, turn) THEN number.id ELSE @[x]]]
    BY <1>15 DEF Reserves
  <2>2. PICK name : name = NameIn(f, turn)
    OBVIOUS
  <2>3. PICK number : number = Unique(name, f.used)
    OBVIOUS
  <2>4. new = [f EXCEPT !.used = number.counts, !.handed = Append(@, number.id),
                        !.given = [x \in DOMAIN @ \cup {name} |-> IF x = name THEN number.id ELSE @[x]]]
    BY <2>1, <2>2, <2>3
  <2>5. /\ new.doc = f.doc /\ new.shown = f.shown /\ new.explicit = f.explicit
        /\ new.handed = Append(f.handed, number.id) /\ new.counts = f.counts
        /\ new.given = [x \in DOMAIN f.given \cup {name} |-> IF x = name THEN number.id ELSE f.given[x]]
        /\ new.slots = f.slots /\ new.used = number.counts /\ new.cited = f.cited
        /\ new.job = f.job /\ new.parts = f.parts /\ new.next = f.next
    BY <2>4 DEF IsFrame, Fields
  <2>6. Walks(new) = Walks(f)
    BY <2>5 DEF Walks, Progress, Behind, Ord, PartOf
  <2>7. name \notin DOMAIN f.given /\ name \in Id
    <3>1. turn \in TurnsIn(f) /\ name \notin DOMAIN f.given
      BY <2>2 DEF DueIn
    <3>2. PICK i \in DOMAIN f.cited :
              turn \in {<<1, i, n>> : n \in 1..f.cited[i].count} \cup {<<2, i, 0>>}
      BY <3>1 DEF TurnsIn
    <3>3. f.cited[i].key \in Id /\ f.cited[i].count \in Nat
      BY CountedKeys
    <3>4. CASE turn = <<2, i, 0>>
      <4>1. 0 \in Nat
        OBVIOUS
      <4> QED BY <2>2, <3>1, <3>3, <3>4, <4>1, NamesAreIds DEF NameIn
    <3>5. CASE turn \in {<<1, i, n>> : n \in 1..f.cited[i].count}
      <4>1. PICK n \in 1..f.cited[i].count : turn = <<1, i, n>>
        BY <3>5
      <4>2. n \in Nat
        BY <3>3
      <4> QED BY <2>2, <3>1, <3>3, <4>1, <4>2, NamesAreIds DEF NameIn
    <3> QED BY <3>2, <3>4, <3>5
  <2>8. number.id \notin DOMAIN f.used /\ DOMAIN number.counts = DOMAIN f.used \cup {number.id}
    BY <2>3, <2>7, UniqueIsFree DEF IsFrame
  <2>9. f.handed \in Seq(DOMAIN f.used) /\ ToSet(f.handed) \subseteq DOMAIN f.used
    BY OwnElements DEF IsFrame
  <2>10. ToSet(new.handed) = ToSet(f.handed) \cup {number.id} /\ number.id \notin ToSet(f.handed)
    BY <2>5, <2>8, <2>9, ElementsMore
  <2>11. DOMAIN new.given = DOMAIN f.given \cup {name} /\ new.given[name] = number.id
         /\ \A x \in DOMAIN f.given : new.given[x] = f.given[x]
    BY <2>5, <2>7
  <2>12. Gives(new)
    <3>1. SlotIds(new) = SlotIds(f)
      BY <2>5 DEF SlotIds
    <3>2. \A x \in DOMAIN new.given : new.given[x] \in ToSet(new.handed)
      BY <1>1, <2>10, <2>11 DEF Gives
    <3>3. \A x, y \in DOMAIN new.given : new.given[x] = new.given[y] => x = y
      <4>1. \A x \in DOMAIN f.given : new.given[x] # number.id
        BY <1>1, <2>10, <2>11 DEF Gives
      <4>2. \A x, y \in DOMAIN f.given : new.given[x] = new.given[y] => x = y
        BY <1>1, <2>11 DEF Gives
      <4> QED BY <2>11, <4>1, <4>2
    <3>4. SlotIds(new) \subseteq DOMAIN new.used /\ ToSet(new.handed) \cap SlotIds(new) = {}
      BY <1>1, <2>5, <2>8, <2>10, <3>1 DEF Gives
    <3> QED BY <3>2, <3>3, <3>4 DEF Gives
  <2>13. PutDown(new, P)
    <3>1. /\ ToSet(f.handed) \subseteq ToSet(new.handed) /\ DOMAIN f.counts \subseteq DOMAIN new.counts
          /\ Walks(f) \subseteq Walks(new)
      BY <2>5, <2>6, <2>10
    <3>2. /\ DOMAIN f.given \subseteq DOMAIN new.given
          /\ \A x \in DOMAIN f.given : new.given[x] = f.given[x]
          /\ \A x \in DOMAIN new.given \ DOMAIN f.given : new.given[x] \notin ToSet(f.handed)
      BY <2>10, <2>11
    <3> QED BY <1>1, <1>2, <2>5, <3>1, <3>2, PutDownStays
  <2> QED BY <1>5, <2>5, <2>12, <2>13
<1>16. CASE ShowsCitation(f, new)
  <2>1. On(f) /\ SiteOf(f).kind \in {"cite", "entry"} /\ DueIn(f) = {}
    BY <1>16 DEF ShowsCitation, Stands
  <2>2. PICK e : e = ShownAt(f, GivenIn(f, CitedAs(SiteOf(f))), "generated")
    OBVIOUS
  <2>3. new = [f EXCEPT !.next = @ + 1, !.shown =
                  IF SiteOf(f).kind = "cite" /\ SiteOf(f).use = 0 THEN @ ELSE Append(@, e)]
    BY <1>16, <2>2 DEF ShowsCitation
  <2>4. /\ new.job = "render" /\ new.doc = f.doc /\ new.parts = f.parts /\ new.next = f.next + 1
        /\ new.explicit = f.explicit /\ new.handed = f.handed /\ new.given = f.given
        /\ new.counts = f.counts /\ new.slots = f.slots /\ new.used = f.used /\ new.cited = f.cited
        /\ new.shown = IF SiteOf(f).kind = "cite" /\ SiteOf(f).use = 0 THEN f.shown ELSE Append(f.shown, e)
    BY <2>3 DEF IsFrame, Fields
  <2>5. /\ place \in Places(f.doc) /\ SiteAt(f.doc, place) = SiteOf(f) /\ SiteOf(f) \in Site
        /\ Walks(f) \subseteq Walks(new) /\ place[1] = PartOf(f) /\ place[2] = f.next
    BY <1>4, <2>1, <2>4
  <2>6. CASE SiteOf(f).kind = "cite" /\ SiteOf(f).use = 0
    BY <1>5, <1>6, <1>7, <2>4, <2>5, <2>6
  <2>7. CASE ~(SiteOf(f).kind = "cite" /\ SiteOf(f).use = 0)
    <3>1. SiteOf(f).kind = "cite" => SiteOf(f).use > 0
      BY <2>5, <2>7 DEF Site
    <3>2. CitedAs(SiteOf(f)) \in DOMAIN f.given
      BY <1>1, <2>1, <2>5, <3>1, CitationGiven
    <3>3. e.kind = SiteOf(f).kind /\ e.part = PartOf(f) /\ e.at = f.next /\ e.how = "generated"
          /\ e.id = f.given[CitedAs(SiteOf(f))]
      BY <2>2, <3>2 DEF ShownAt, GivenIn
    <3>4. e.id \in ToSet(f.handed)
      BY <1>1, <3>2, <3>3 DEF Gives
    <3>5. Shows(new, e, place)
      BY <2>1, <2>4, <2>5, <3>1, <3>2, <3>3, <3>4 DEF Shows
    <3>6. new.shown = Append(f.shown, e)
      BY <2>4, <2>7
    <3>7. \E Q : PutDown(new, Q)
      BY <1>8, <2>1, <2>4, <3>3, <3>5, <3>6
    <3> QED BY <1>5, <1>6, <2>4, <3>7
  <2> QED BY <2>6, <2>7
<1>17. CASE Hosts(f, new)
  <2>1. On(f)
    BY <1>17 DEF Hosts, Stands
  <2>2. /\ new.job = "render" /\ new.doc = f.doc /\ new.parts = f.parts /\ new.next = f.next + 1
        /\ new.explicit = f.explicit /\ new.handed = f.handed /\ new.given = f.given
        /\ new.counts = f.counts /\ new.slots = f.slots /\ new.used = f.used /\ new.cited = f.cited
        /\ new.shown = f.shown
    BY <1>17 DEF Hosts, IsFrame, Fields
  <2> QED BY <1>4, <1>5, <1>6, <1>7, <2>1, <2>2
<1> QED BY <1>9, <1>10, <1>11, <1>12, <1>13, <1>14, <1>15, <1>16, <1>17
    DEF Moves, Numbers, Collects, Gathers, Stamps, Installs, Stands

-----------------------------------------------------------------------------
(* The seeding: the ids it foretells are in use, and it counts the uses of *)
(* each key that is cited.                                                 *)

Uses(f, key) == {p \in Walks(f) : /\ SiteAt(f.doc, p).kind = "cite" /\ SiteAt(f.doc, p).name = key
                                  /\ SiteAt(f.doc, p).use > 0}
Citing(f) ==
    /\ f.given = NoGiven
    /\ SlotIds(f) \subseteq DOMAIN f.used
    /\ IsFiniteSet(Walks(f))
    /\ \A i \in DOMAIN f.cited : f.cited[i].count = Cardinality(Uses(f, f.cited[i].key))
    /\ \A p \in Walks(f) : SiteAt(f.doc, p).kind = "cite" =>
           \E i \in DOMAIN f.cited : f.cited[i].key = SiteAt(f.doc, p).name

LEMMA CitingBegins ==
    ASSUME NEW doc, NEW f, f = Frame("seed", doc), IsFrame(f)
    PROVE  Citing(f)
<1>1. /\ f.parts = Ord(f) /\ f.next = 1 /\ f.given = NoGiven /\ f.cited = << >> /\ f.doc = doc
      /\ f.slots = [n \in Parts(doc) |-> << >>]
  BY DEF Frame, Ord
<1>2. IsDoc(f.doc) /\ Used(f.doc) \subseteq Parts(f.doc)
  BY UsedParts DEF IsFrame
<1>3. \A n \in Used(f.doc) : Progress(f, n) = 0
  BY <1>1, <1>2, AtStart
<1>4. Walks(f) = {}
  BY <1>3 DEF Walks
<1>5. SlotIds(f) = {}
  <2>1. \A n \in Used(f.doc) : f.slots[n] = << >>
    BY <1>1, <1>2
  <2>2. ToSet(<< >>) = {}
    BY DEF ToSet
  <2> QED BY <2>1, <2>2 DEF SlotIds
<1> QED BY <1>1, <1>4, <1>5, FS_EmptySet DEF Citing

\* A step over a site counts it if it is a use of a citation, and nothing else.
LEMMA CitingAdvances ==
    ASSUME NEW f, IsFrame(f), f.job = "seed", OnWalk(f), Citing(f), On(f), ~Skips(f),
           NEW new, IsFrame(new), new.job = "seed", new.doc = f.doc, new.parts = f.parts,
           new.next = f.next + 1, new.given = f.given, SlotIds(new) \subseteq DOMAIN new.used,
           SiteOf(f).kind = "cite" => new.cited = Recited(f),
           SiteOf(f).kind # "cite" => new.cited = f.cited
    PROVE  Citing(new)
<1>1. PICK place, s : place = <<PartOf(f), f.next>> /\ s = SiteOf(f)
  OBVIOUS
<1>2. /\ place \notin Walks(f) /\ Walks(new) = Walks(f) \cup {place}
      /\ SiteAt(f.doc, place) = s /\ s \in Site
  BY <1>1, WalkGrows
<1>3. IsFiniteSet(Walks(f)) /\ IsFiniteSet(Walks(new))
  BY <1>2, FS_AddElement DEF Citing
<1>4. \A key : /\ IsFiniteSet(Uses(f, key)) /\ Cardinality(Uses(f, key)) \in Nat
               /\ place \notin Uses(f, key)
               /\ Uses(new, key) = IF s.kind = "cite" /\ s.name = key /\ s.use > 0
                                   THEN Uses(f, key) \cup {place} ELSE Uses(f, key)
  <2> TAKE key
  <2>1. Uses(f, key) \subseteq Walks(f)
    BY DEF Uses
  <2>2. IsFiniteSet(Uses(f, key)) /\ Cardinality(Uses(f, key)) \in Nat
    BY <1>3, <2>1, FS_Subset, FS_CardinalityType
  <2> QED BY <1>2, <2>1, <2>2 DEF Uses
<1>5. \A key : Cardinality(Uses(new, key)) =
          IF s.kind = "cite" /\ s.name = key /\ s.use > 0 THEN Cardinality(Uses(f, key)) + 1
          ELSE Cardinality(Uses(f, key))
  BY <1>4, FS_AddElement
<1>6. PICK C : f.cited \in Seq(C)
  BY DEF IsFrame
<1>7. /\ \A i \in DOMAIN f.cited : f.cited[i].count = Cardinality(Uses(f, f.cited[i].key))
      /\ \A p \in Walks(f) : SiteAt(f.doc, p).kind = "cite" =>
             \E i \in DOMAIN f.cited : f.cited[i].key = SiteAt(f.doc, p).name
  BY DEF Citing
<1>8. CASE s.kind # "cite"
  <2>1. new.cited = f.cited
    BY <1>1, <1>8
  <2>2. \A i \in DOMAIN new.cited : new.cited[i].count = Cardinality(Uses(new, new.cited[i].key))
    BY <1>5, <1>7, <1>8, <2>1
  <2>3. \A p \in Walks(new) : SiteAt(new.doc, p).kind = "cite" =>
            \E i \in DOMAIN new.cited : new.cited[i].key = SiteAt(new.doc, p).name
    BY <1>2, <1>7, <1>8, <2>1
  <2> QED BY <1>3, <2>2, <2>3 DEF Citing
<1>9. CASE s.kind = "cite" /\ Same(f) = {}
  <2>1. PICK entry : entry = [key |-> s.name, count |-> More(f)]
    OBVIOUS
  <2>2. new.cited = Append(f.cited, entry)
    BY <1>1, <1>9, <2>1 DEF Recited
  <2>3. PICK L : L = Len(f.cited) + 1
    OBVIOUS
  <2>4. /\ DOMAIN new.cited = DOMAIN f.cited \cup {L}
        /\ \A i \in DOMAIN f.cited : new.cited[i] = f.cited[i]
        /\ new.cited[L] = entry
    <3>1. /\ DOMAIN new.cited = 1..L /\ DOMAIN f.cited = 1..Len(f.cited) /\ Len(f.cited) \in Nat
          /\ \A i \in 1..Len(f.cited) : new.cited[i] = f.cited[i]
          /\ new.cited[L] = entry
      BY <1>6, <2>2, <2>3
    <3> QED BY <2>3, <3>1
  <2>5. \A i \in DOMAIN f.cited : f.cited[i].key # s.name
    BY <1>1, <1>9 DEF Same
  <2>6. Uses(f, s.name) = {}
    <3>1. SUFFICES ASSUME NEW p \in Walks(f), SiteAt(f.doc, p).kind = "cite", SiteAt(f.doc, p).name = s.name
                   PROVE  FALSE
      BY DEF Uses
    <3> QED BY <1>7, <2>5, <3>1
  <2>7. Cardinality(Uses(new, s.name)) = More(f)
    <3>1. Cardinality(Uses(f, s.name)) = 0
      BY <2>6, FS_EmptySet
    <3>2. Cardinality(Uses(new, s.name)) = IF s.use > 0 THEN 0 + 1 ELSE 0
      BY <1>5, <1>9, <3>1
    <3> QED BY <1>1, <3>2 DEF More
  <2>8. \A i \in DOMAIN new.cited : new.cited[i].count = Cardinality(Uses(new, new.cited[i].key))
    <3> TAKE i \in DOMAIN new.cited
    <3>1. CASE i \in DOMAIN f.cited
      BY <1>5, <1>7, <2>4, <2>5, <3>1
    <3>2. CASE i = L
      BY <2>1, <2>4, <2>7, <3>2
    <3> QED BY <2>4, <3>1, <3>2
  <2>9. \A p \in Walks(new) : SiteAt(new.doc, p).kind = "cite" =>
            \E i \in DOMAIN new.cited : new.cited[i].key = SiteAt(new.doc, p).name
    <3> TAKE p \in Walks(new)
    <3>1. CASE p \in Walks(f)
      BY <1>7, <2>4, <3>1
    <3>2. CASE p = place
      BY <1>2, <2>1, <2>4, <3>2
    <3> QED BY <1>2, <3>1, <3>2
  <2> QED BY <1>3, <2>8, <2>9 DEF Citing
<1>10. CASE s.kind = "cite" /\ Same(f) # {}
  <2>1. new.cited = [i \in DOMAIN f.cited |->
            [key |-> f.cited[i].key, count |-> f.cited[i].count + IF i \in Same(f) THEN More(f) ELSE 0]]
    BY <1>1, <1>10 DEF Recited
  <2>2. DOMAIN new.cited = DOMAIN f.cited
        /\ \A i \in DOMAIN f.cited :
             /\ new.cited[i].key = f.cited[i].key
             /\ new.cited[i].count = f.cited[i].count + IF i \in Same(f) THEN More(f) ELSE 0
    BY <2>1
  <2>3. \A i \in DOMAIN new.cited : new.cited[i].count = Cardinality(Uses(new, new.cited[i].key))
    <3> TAKE i \in DOMAIN new.cited
    <3>1. f.cited[i].count = Cardinality(Uses(f, f.cited[i].key)) /\ f.cited[i].count \in Nat
      BY <1>4, <1>7, <2>2
    <3>2. CASE f.cited[i].key = s.name
      <4>1. i \in Same(f)
        BY <1>1, <2>2, <3>2 DEF Same
      <4>2. Cardinality(Uses(new, s.name)) = f.cited[i].count + IF s.use > 0 THEN 1 ELSE 0
        BY <1>5, <1>10, <3>1, <3>2
      <4> QED BY <1>1, <2>2, <3>2, <4>1, <4>2 DEF More
    <3>3. CASE f.cited[i].key # s.name
      <4>1. i \notin Same(f)
        BY <1>1, <3>3 DEF Same
      <4> QED BY <1>5, <2>2, <3>1, <3>3, <4>1
    <3> QED BY <3>2, <3>3
  <2>4. \A p \in Walks(new) : SiteAt(new.doc, p).kind = "cite" =>
            \E i \in DOMAIN new.cited : new.cited[i].key = SiteAt(new.doc, p).name
    <3> TAKE p \in Walks(new)
    <3>1. CASE p \in Walks(f)
      BY <1>7, <2>2, <3>1
    <3>2. CASE p = place
      BY <1>1, <1>2, <1>10, <2>2, <3>2 DEF Same
    <3> QED BY <1>2, <3>1, <3>2
  <2> QED BY <1>3, <2>3, <2>4 DEF Citing
<1> QED BY <1>8, <1>9, <1>10

LEMMA CitingMoves ==
    ASSUME NEW f, IsFrame(f), f.job = "seed", OnWalk(f), Citing(f), NEW new, IsFrame(new), Moves(f, new),
           new.job = "seed"
    PROVE  Citing(new)
<1>1. SlotIds(f) \subseteq DOMAIN f.used
  BY DEF Citing
<1>2. CASE Leaves(f, new)
  <2>1. /\ new.doc = f.doc /\ new.given = f.given /\ new.cited = f.cited
        /\ new.slots = f.slots /\ new.used = f.used
    BY <1>2 DEF Leaves, IsFrame, Fields
  <2>2. \A n \in Used(f.doc) : Progress(new, n) = Progress(f, n)
    <3> TAKE n \in Used(f.doc)
    <3>1. n \in Parts(f.doc)
      BY UsedParts DEF IsFrame
    <3>2. ~(Skips(f) /\ n = PartOf(f))
      BY DEF Skips
    <3> QED BY <1>2, <3>1, <3>2, LeavingKeeps
  <2>3. Walks(new) = Walks(f) /\ SlotIds(new) = SlotIds(f)
    BY <2>1, <2>2 DEF Walks, SlotIds
  <2>4. \A key : Uses(new, key) = Uses(f, key)
    BY <2>1, <2>3 DEF Uses
  <2> QED BY <2>1, <2>3, <2>4 DEF Citing
<1>3. CASE Passes(f, new)
  <2>1. /\ On(f) /\ ~Skips(f) /\ SiteOf(f).kind # "cite" /\ new.doc = f.doc /\ new.parts = f.parts
        /\ new.next = f.next + 1 /\ new.given = f.given /\ new.cited = f.cited
        /\ new.slots = f.slots /\ new.used = f.used
    BY <1>3 DEF Passes, Stops, IsFrame, Fields
  <2>2. SlotIds(new) \subseteq DOMAIN new.used
    BY <1>1, <2>1 DEF SlotIds
  <2> QED BY <2>1, <2>2, CitingAdvances
<1>4. CASE Numbers(f, new)
  <2>1. On(f) /\ ~Skips(f) /\ SiteOf(f).kind = "heading" /\ PartOf(f) \in Used(f.doc)
    BY <1>4 DEF Numbers, Stands, Skips
  <2>2. PICK number : /\ number = Number(f.job, SiteOf(f), f.counts, f.explicit)
                      /\ new = [f EXCEPT !.next = @ + 1, !.counts = number.counts,
                                 !.slots[PartOf(f)] = Append(@, number.id),
                                 !.used = Kept(@, number.id)]
    BY <1>4, <2>1 DEF Numbers
  <2>3. /\ new.doc = f.doc /\ new.parts = f.parts /\ new.next = f.next + 1
        /\ new.given = f.given /\ new.cited = f.cited /\ new.used = Kept(f.used, number.id)
        /\ new.slots = [f.slots EXCEPT ![PartOf(f)] = Append(@, number.id)]
    BY <2>2 DEF IsFrame, Fields
  <2>4. DOMAIN new.used = DOMAIN f.used \cup {number.id}
    BY <2>3 DEF Kept, With
  <2>5. DOMAIN f.slots = Parts(f.doc) /\ \A n \in Parts(f.doc) : f.slots[n] \in Seq(Id)
    BY DEF IsFrame
  <2>6. \A n \in Used(f.doc) : ToSet(new.slots[n]) \subseteq ToSet(f.slots[n]) \cup {number.id}
    <3> TAKE n \in Used(f.doc)
    <3>1. n \in Parts(f.doc)
      BY UsedParts DEF IsFrame
    <3>2. new.slots[n] = f.slots[n] \/ new.slots[n] = Append(f.slots[n], number.id)
      BY <2>3, <2>5, <3>1
    <3> QED BY <2>5, <3>1, <3>2, ElementsMore
  <2>7. SlotIds(new) \subseteq DOMAIN new.used
    <3>1. SlotIds(new) \subseteq SlotIds(f) \cup {number.id}
      BY <2>3, <2>6 DEF SlotIds
    <3> QED BY <1>1, <2>4, <3>1
  <2> QED BY <2>1, <2>3, <2>7, CitingAdvances
<1>5. CASE Collects(f, new)
  <2>1. /\ On(f) /\ ~Skips(f) /\ SiteOf(f).kind = "cite" /\ new.doc = f.doc /\ new.parts = f.parts
        /\ new.next = f.next + 1 /\ new.given = f.given /\ new.cited = Recited(f)
        /\ new.slots = f.slots /\ new.used = f.used
    BY <1>5 DEF Collects, Stands, IsFrame, Fields
  <2>2. SlotIds(new) \subseteq DOMAIN new.used
    BY <1>1, <2>1 DEF SlotIds
  <2> QED BY <2>1, <2>2, CitingAdvances
<1>6. CASE Installs(f, new)
  BY <1>6 DEF Installs, Turns2, IsFrame, Fields
<1> QED BY <1>2, <1>3, <1>4, <1>5, <1>6
    DEF Moves, Gathers, Stamps, ShowsHeading, ShowsElement, Generates, Asks, Reserves, ShowsCitation,
        Hosts, Stands

\* A walk in the order of the source ends past every place.
LEMMA SourceWalked ==
    ASSUME NEW f, IsFrame(f), f.job \in {"stamp", "index", "seed"}, OnWalk(f), f.parts = << >>,
           NEW n \in Parts(f.doc)
    PROVE  Progress(f, n) = Len(f.doc.parts[n])
<1>1. IsDoc(f.doc)
  BY DEF IsFrame
<1>2. /\ f.doc.source \in Seq(1..Len(f.doc.source)) /\ ToSet(f.doc.source) = 1..Len(f.doc.source)
      /\ Parts(f.doc) = 0..Len(f.doc.source)
  BY <1>1, UsedParts DEF IsDoc
<1>3. Ord(f) = << 0 >> \o f.doc.source
  BY DEF Ord, Order
<1>4. /\ DOMAIN Ord(f) = 1..(Len(f.doc.source) + 1) /\ Ord(f)[1] = 0 /\ Len(f.doc.source) \in Nat
      /\ \A i \in DOMAIN f.doc.source : Ord(f)[i + 1] = f.doc.source[i]
  BY <1>2, <1>3, BodyFirst
<1>5. n = 0 \/ \E i \in DOMAIN f.doc.source : f.doc.source[i] = n
  BY <1>2, <1>4 DEF ToSet
<1>6. DOMAIN f.doc.source = 1..Len(f.doc.source)
  BY <1>2
<1>7. 1 \in DOMAIN Ord(f) /\ \A i \in DOMAIN f.doc.source : i + 1 \in DOMAIN Ord(f)
  BY <1>4, <1>6
<1>8. \E a \in DOMAIN Ord(f) : Ord(f)[a] = n
  BY <1>4, <1>5, <1>7
<1> QED BY <1>8, AtEnd

\* As many uses of a key as its highest number says.
LEMMA UsesOf ==
    ASSUME NEW f, IsFrame(f), Annotated(f.doc), IsFiniteSet(Walks(f)), Walks(f) = Places(f.doc),
           NEW p \in Places(f.doc), SiteAt(f.doc, p).kind = "cite", SiteAt(f.doc, p) \in Site
    PROVE  SiteAt(f.doc, p).use <= Cardinality(Uses(f, SiteAt(f.doc, p).name))
<1>1. PICK s : s = SiteAt(f.doc, p)
  OBVIOUS
<1>2. PICK U : U = Uses(f, s.name)
  OBVIOUS
<1>3. IsFiniteSet(U) /\ Cardinality(U) \in Nat
  <2>1. U \subseteq Walks(f)
    BY <1>2 DEF Uses
  <2> QED BY <2>1, FS_Subset, FS_CardinalityType
<1>4. \A use \in 1..s.use : \E q \in U : SiteAt(f.doc, q).use = use
  <2> TAKE use \in 1..s.use
  <2>1. PICK q \in Naming(f.doc, "cite", s.name) : SiteAt(f.doc, q).use = use
    BY <1>1 DEF Annotated
  <2>2. q \in Places(f.doc) /\ SiteAt(f.doc, q).kind = "cite" /\ SiteAt(f.doc, q).name = s.name
    BY <2>1 DEF Naming
  <2>3. use > 0
    OBVIOUS
  <2> QED BY <1>2, <2>1, <2>2, <2>3 DEF Uses
<1>5. PICK g : g = [use \in 1..s.use |-> CHOOSE q \in U : SiteAt(f.doc, q).use = use]
  OBVIOUS
<1>6. \A use \in 1..s.use : g[use] \in U /\ SiteAt(f.doc, g[use]).use = use
  BY <1>4, <1>5
<1>7. g \in Injection(1..s.use, U)
  <2>1. g \in [1..s.use -> U]
    BY <1>5, <1>6
  <2>2. \A a, b \in 1..s.use : g[a] = g[b] => a = b
    BY <1>6
  <2> QED BY <2>1, <2>2 DEF Injection, IsInjective
<1>8. Cardinality(1..s.use) <= Cardinality(U)
  BY <1>3, <1>7, FS_Injection
<1>9. s.use \in Nat
  BY <1>1 DEF Site
<1>10. Cardinality(1..s.use) = s.use
  BY <1>9, FS_Interval
<1> QED BY <1>1, <1>2, <1>8, <1>10

\* The render begins with every name counted, and with nothing shown.
LEMMA ShowingBegins ==
    ASSUME NEW f, IsFrame(f), Apart(f), f.job = "seed", OnWalk(f), Citing(f), Sound(f.doc),
           NEW new, IsFrame(new), Installs(f, new)
    PROVE  Showing(new)
<1>1. /\ f.parts = << >> /\ new.doc = f.doc /\ new.slots = f.slots /\ new.used = f.used /\ new.cited = f.cited
      /\ new.given = f.given /\ new.handed = << >> /\ new.shown = << >>
  BY DEF Installs, Turns2, IsFrame, Fields, Apart
<1>2. IsDoc(f.doc) /\ Annotated(f.doc)
  BY DEF IsFrame, Sound
<1>3. Walks(f) = Places(f.doc)
  <2>1. \A n \in Used(f.doc) : 1..Progress(f, n) = DOMAIN f.doc.parts[n]
    BY <1>1, <1>2, SourceWalked, UsedParts
  <2> QED BY <2>1 DEF Walks, Places
<1>4. CitesCovered(f)
  <2>1. SUFFICES ASSUME NEW p \in Places(f.doc)
                 PROVE  LET site == SiteAt(f.doc, p) IN
                        /\ site.kind = "cite" => \E i \in DOMAIN f.cited :
                               f.cited[i].key = site.name /\ site.use <= f.cited[i].count
                        /\ site.kind = "entry" => \E i \in DOMAIN f.cited : f.cited[i].key = site.name
    BY DEF CitesCovered
  <2>2. \A q \in Places(f.doc) : SiteAt(f.doc, q).kind = "cite" =>
            \E i \in DOMAIN f.cited : f.cited[i].key = SiteAt(f.doc, q).name
    BY <1>3 DEF Citing
  <2>3. SiteAt(f.doc, p) \in Site
    <3>1. PICK n \in Used(f.doc) : \E k \in DOMAIN f.doc.parts[n] : p = <<n, k>>
      BY DEF Places
    <3>2. PICK k \in DOMAIN f.doc.parts[n] : p = <<n, k>>
      BY <3>1
    <3>3. f.doc.parts[n] \in Seq(Site)
      BY <1>2, UsedParts
    <3>4. f.doc.parts[n][k] \in Site
      BY <3>3
    <3> QED BY <3>2, <3>4 DEF SiteAt
  <2>4. SiteAt(f.doc, p).kind = "cite" => \E i \in DOMAIN f.cited :
            f.cited[i].key = SiteAt(f.doc, p).name /\ SiteAt(f.doc, p).use <= f.cited[i].count
    <3>1. SUFFICES ASSUME SiteAt(f.doc, p).kind = "cite"
                   PROVE  \E i \in DOMAIN f.cited :
                          f.cited[i].key = SiteAt(f.doc, p).name /\ SiteAt(f.doc, p).use <= f.cited[i].count
      OBVIOUS
    <3>2. PICK i \in DOMAIN f.cited : f.cited[i].key = SiteAt(f.doc, p).name
      BY <2>2, <3>1
    <3>3. f.cited[i].count = Cardinality(Uses(f, SiteAt(f.doc, p).name))
      BY <3>2 DEF Citing
    <3>4. SiteAt(f.doc, p).use <= Cardinality(Uses(f, SiteAt(f.doc, p).name))
      BY <1>2, <1>3, <2>3, <3>1, UsesOf DEF Citing
    <3> QED BY <3>2, <3>3, <3>4
  <2>5. SiteAt(f.doc, p).kind = "entry" =>
            \E i \in DOMAIN f.cited : f.cited[i].key = SiteAt(f.doc, p).name
    <3>1. SUFFICES ASSUME SiteAt(f.doc, p).kind = "entry"
                   PROVE  \E i \in DOMAIN f.cited : f.cited[i].key = SiteAt(f.doc, p).name
      OBVIOUS
    <3>2. PICK q \in Naming(f.doc, "cite", SiteAt(f.doc, p).name) : TRUE
      BY <1>2, <3>1 DEF Annotated
    <3>3. q \in Places(f.doc) /\ SiteAt(f.doc, q).kind = "cite" /\ SiteAt(f.doc, q).name = SiteAt(f.doc, p).name
      BY <3>2 DEF Naming
    <3> QED BY <2>2, <3>3
  <2> QED BY <2>4, <2>5
<1>5. CitesCovered(new)
  BY <1>1, <1>4 DEF CitesCovered
<1>6. DOMAIN new.given = {} /\ ToSet(new.handed) = {}
  BY <1>1 DEF Citing, NoGiven, ToSet
<1>7. Gives(new)
  <2>1. SlotIds(new) \subseteq DOMAIN new.used
    BY <1>1 DEF SlotIds, Citing
  <2> QED BY <1>6, <2>1 DEF Gives
<1>8. PutDown(new, << >>)
  <2>1. DOMAIN new.shown = {}
    BY <1>1
  <2> QED BY <1>1, <2>1 DEF PutDown
<1> QED BY <1>1, <1>5, <1>7, <1>8 DEF Showing

-----------------------------------------------------------------------------
(* The document: its stamped ids stay apart while an extension adds        *)
(* headings and the parse stamps more of them.                             *)

\* What is true of the citations of a document is true of any other that has them at
\* places of its own.
LEMMA AnnotatedMoves ==
    ASSUME NEW doc, Annotated(doc), NEW new, NEW h, DOMAIN h = Places(doc),
           \A p, q \in Places(doc) : h[p] = h[q] => p = q,
           \A p \in Places(doc) : /\ h[p] \in Places(new)
                                  /\ SiteAt(new, h[p]).kind = SiteAt(doc, p).kind
                                  /\ SiteAt(new, h[p]).name = SiteAt(doc, p).name
                                  /\ SiteAt(new, h[p]).use = SiteAt(doc, p).use,
           \A q \in Places(new) : SiteAt(new, q).kind # "heading" => \E p \in Places(doc) : q = h[p]
    PROVE  Annotated(new)
<1>1. \A kind \in {"cite", "entry"} : \A key :
          Naming(new, kind, key) = {h[p] : p \in Naming(doc, kind, key)}
  <2> TAKE kind \in {"cite", "entry"}
  <2> TAKE key
  <2>1. ASSUME NEW q \in Naming(new, kind, key)
        PROVE  q \in {h[p] : p \in Naming(doc, kind, key)}
    <3>1. q \in Places(new) /\ SiteAt(new, q).kind = kind /\ SiteAt(new, q).name = key
      BY <2>1 DEF Naming
    <3>2. PICK p \in Places(doc) : q = h[p]
      BY <3>1
    <3>3. p \in Naming(doc, kind, key)
      BY <3>1, <3>2 DEF Naming
    <3> QED BY <3>2, <3>3
  <2>2. ASSUME NEW p \in Naming(doc, kind, key)
        PROVE  h[p] \in Naming(new, kind, key)
    BY <2>2 DEF Naming
  <2> QED BY <2>1, <2>2
<1>2. SUFFICES ASSUME NEW q \in Places(new)
               PROVE  LET site == SiteAt(new, q) IN
                      /\ site.kind = "cite" => \A use \in 1..site.use :
                             \E r \in Naming(new, "cite", site.name) : SiteAt(new, r).use = use
                      /\ site.kind = "cite" /\ site.use > 0 =>
                             \A r \in Naming(new, "cite", site.name) : SiteAt(new, r).use = site.use => r = q
                      /\ site.kind = "entry" =>
                             Naming(new, "entry", site.name) = {q} /\ Naming(new, "cite", site.name) # {}
  BY DEF Annotated
<1>3. CASE SiteAt(new, q).kind \notin {"cite", "entry"}
  BY <1>3
<1>4. CASE SiteAt(new, q).kind \in {"cite", "entry"}
  <2>1. PICK p \in Places(doc) : q = h[p]
    BY <1>4
  <2>2. PICK s, t : s = SiteAt(new, q) /\ t = SiteAt(doc, p)
    OBVIOUS
  <2>3. s.kind = t.kind /\ s.name = t.name /\ s.use = t.use
    BY <2>1, <2>2
  <2>4. \A key : \A r \in Naming(doc, "cite", key) : r \in Places(doc) /\ h[r] \in Naming(new, "cite", key)
    BY <1>1 DEF Naming
  <2>5. ASSUME t.kind = "cite", NEW use \in 1..t.use
        PROVE  \E r \in Naming(new, "cite", s.name) : SiteAt(new, r).use = use
    <3>1. PICK r \in Naming(doc, "cite", t.name) : SiteAt(doc, r).use = use
      BY <2>2, <2>5 DEF Annotated
    <3> QED BY <2>3, <2>4, <3>1
  <2>6. ASSUME t.kind = "cite", t.use > 0, NEW r \in Naming(new, "cite", s.name), SiteAt(new, r).use = s.use
        PROVE  r = q
    <3>1. PICK x \in Naming(doc, "cite", t.name) : r = h[x]
      BY <1>1, <2>3, <2>6
    <3>2. x \in Places(doc) /\ SiteAt(doc, x).use = t.use
      BY <2>3, <2>4, <2>6, <3>1
    <3>3. x = p
      BY <2>2, <2>6, <3>1, <3>2 DEF Annotated
    <3> QED BY <2>1, <3>1, <3>3
  <2>7. ASSUME t.kind = "entry"
        PROVE  Naming(new, "entry", s.name) = {q} /\ Naming(new, "cite", s.name) # {}
    <3>1. Naming(doc, "entry", t.name) = {p} /\ Naming(doc, "cite", t.name) # {}
      BY <2>2, <2>7 DEF Annotated
    <3>2. Naming(new, "entry", s.name) = {h[x] : x \in {p}}
      BY <1>1, <2>3, <3>1
    <3>3. Naming(new, "cite", s.name) = {h[x] : x \in Naming(doc, "cite", t.name)}
      BY <1>1, <2>3
    <3> QED BY <2>1, <3>1, <3>2, <3>3
  <2> QED BY <2>2, <2>3, <2>5, <2>6, <2>7
<1> QED BY <1>3, <1>4

\* Headings without an id, and a body that starts so much later, change nothing.
Later(n, s) == IF n = 0 THEN s ELSE 0

Shifts(doc, new, s) ==
    /\ Parts(new) = Parts(doc) /\ Used(new) = Used(doc)
    /\ \A n \in Parts(doc) : \A k \in DOMAIN doc.parts[n] :
           /\ k + Later(n, s) \in DOMAIN new.parts[n]
           /\ new.parts[n][k + Later(n, s)] = doc.parts[n][k]
    /\ \A n \in Parts(doc) : \A k \in DOMAIN new.parts[n] :
           \/ new.parts[n][k].kind = "heading" /\ new.parts[n][k].id = NoId
           \/ \E j \in DOMAIN doc.parts[n] : k = j + Later(n, s)

LEMMA SoundShifts ==
    ASSUME NEW doc, IsDoc(doc), Sound(doc), NEW new, NEW s \in Nat,
           Shifts(doc, new, s)
    PROVE  Sound(new)
<1>12. /\ Parts(new) = Parts(doc) /\ Used(new) = Used(doc)
       /\ \A n \in Parts(doc) : \A k \in DOMAIN doc.parts[n] :
              /\ k + Later(n, s) \in DOMAIN new.parts[n]
              /\ new.parts[n][k + Later(n, s)] = doc.parts[n][k]
       /\ \A n \in Parts(doc) : \A k \in DOMAIN new.parts[n] :
              \/ new.parts[n][k].kind = "heading" /\ new.parts[n][k].id = NoId
              \/ \E j \in DOMAIN doc.parts[n] : k = j + Later(n, s)
  BY DEF Shifts
<1>1. PICK h : h = [p \in Places(doc) |-> <<p[1], p[2] + Later(p[1], s)>>]
  OBVIOUS
<1>2. Used(doc) \subseteq Parts(doc) /\ \A n \in Parts(doc) : \A k \in DOMAIN doc.parts[n] : k \in Nat
  <2>1. /\ Used(doc) \subseteq Parts(doc)
        /\ \A n \in Parts(doc) : DOMAIN doc.parts[n] = 1..Len(doc.parts[n]) /\ Len(doc.parts[n]) \in Nat
    BY UsedParts
  <2> QED BY <2>1
<1>3. \A p \in Places(doc) : \E n \in Used(doc) : \E k \in DOMAIN doc.parts[n] :
          p = <<n, k>> /\ h[p] = <<n, k + Later(n, s)>>
  <2> TAKE p \in Places(doc)
  <2>1. PICK n \in Used(doc) : \E k \in DOMAIN doc.parts[n] : p = <<n, k>>
    BY DEF Places
  <2>2. PICK k \in DOMAIN doc.parts[n] : p = <<n, k>>
    BY <2>1
  <2>3. p[1] = n /\ p[2] = k
    BY <2>2
  <2> QED BY <1>1, <2>2, <2>3
<1>4. \A n \in Used(doc) : \A k \in DOMAIN doc.parts[n] : <<n, k>> \in Places(doc)
  <2> TAKE n \in Used(doc)
  <2> TAKE k \in DOMAIN doc.parts[n]
  <2>1. <<n, k>> \in {<<n, j>> : j \in DOMAIN doc.parts[n]}
    OBVIOUS
  <2> QED BY <2>1 DEF Places
<1>5. \A n \in Used(doc) : \A k \in DOMAIN new.parts[n] : <<n, k>> \in Places(new)
  <2> TAKE n \in Used(doc)
  <2> TAKE k \in DOMAIN new.parts[n]
  <2>1. <<n, k>> \in {<<n, j>> : j \in DOMAIN new.parts[n]}
    OBVIOUS
  <2> QED BY <1>12, <2>1 DEF Places
<1>6. \A p, q \in Places(doc) : h[p] = h[q] => p = q
  <2> TAKE p, q \in Places(doc)
  <2>1. SUFFICES ASSUME h[p] = h[q]
                 PROVE  p = q
    OBVIOUS
  <2>2. PICK n \in Used(doc) : \E k \in DOMAIN doc.parts[n] : p = <<n, k>> /\ h[p] = <<n, k + Later(n, s)>>
    BY <1>3
  <2>3. PICK k \in DOMAIN doc.parts[n] : p = <<n, k>> /\ h[p] = <<n, k + Later(n, s)>>
    BY <2>2
  <2>4. PICK m \in Used(doc) : \E j \in DOMAIN doc.parts[m] : q = <<m, j>> /\ h[q] = <<m, j + Later(m, s)>>
    BY <1>3
  <2>5. PICK j \in DOMAIN doc.parts[m] : q = <<m, j>> /\ h[q] = <<m, j + Later(m, s)>>
    BY <2>4
  <2>6. n = m /\ k + Later(n, s) = j + Later(n, s) /\ Later(n, s) \in Nat /\ j \in Nat /\ k \in Nat
    BY <1>2, <2>1, <2>3, <2>5 DEF Later
  <2> QED BY <2>3, <2>5, <2>6
<1>7. \A p \in Places(doc) : h[p] \in Places(new) /\ SiteAt(new, h[p]) = SiteAt(doc, p)
  <2> TAKE p \in Places(doc)
  <2>1. PICK n \in Used(doc) : \E k \in DOMAIN doc.parts[n] : p = <<n, k>> /\ h[p] = <<n, k + Later(n, s)>>
    BY <1>3
  <2>2. PICK k \in DOMAIN doc.parts[n] : p = <<n, k>> /\ h[p] = <<n, k + Later(n, s)>>
    BY <2>1
  <2>3. k + Later(n, s) \in DOMAIN new.parts[n] /\ new.parts[n][k + Later(n, s)] = doc.parts[n][k]
    BY <1>12, <1>2
  <2>4. h[p][1] = n /\ h[p][2] = k + Later(n, s) /\ p[1] = n /\ p[2] = k
    BY <2>2
  <2>5. SiteAt(new, h[p]) = new.parts[n][k + Later(n, s)] /\ SiteAt(doc, p) = doc.parts[n][k]
    BY <2>4 DEF SiteAt
  <2> QED BY <1>5, <2>2, <2>3, <2>5
<1>8. \A q \in Places(new) : SiteAt(new, q).kind # "heading" => \E p \in Places(doc) : q = h[p]
  <2> TAKE q \in Places(new)
  <2>1. SUFFICES ASSUME SiteAt(new, q).kind # "heading"
                 PROVE  \E p \in Places(doc) : q = h[p]
    OBVIOUS
  <2>2. PICK n \in Used(doc) : \E k \in DOMAIN new.parts[n] : q = <<n, k>>
    BY <1>12 DEF Places
  <2>3. PICK k \in DOMAIN new.parts[n] : q = <<n, k>>
    BY <2>2
  <2>4. new.parts[n][k].kind # "heading"
    BY <2>1, <2>3 DEF SiteAt
  <2>5. PICK j \in DOMAIN doc.parts[n] : k = j + Later(n, s)
    BY <1>12, <1>2, <2>4
  <2>6. PICK p : p = <<n, j>>
    OBVIOUS
  <2>7. p \in Places(doc) /\ p[1] = n /\ p[2] = j
    BY <1>4, <2>6
  <2> QED BY <1>1, <2>3, <2>5, <2>7
<1>9. Annotated(new)
  <2>1. DOMAIN h = Places(doc) /\ Annotated(doc)
    BY <1>1 DEF Sound
  <2>2. \A p \in Places(doc) : /\ h[p] \in Places(new)
                               /\ SiteAt(new, h[p]).kind = SiteAt(doc, p).kind
                               /\ SiteAt(new, h[p]).name = SiteAt(doc, p).name
                               /\ SiteAt(new, h[p]).use = SiteAt(doc, p).use
    BY <1>7
  <2> QED BY <1>6, <1>8, <2>1, <2>2, AnnotatedMoves
<1>10. \A n \in Parts(doc) : \A k \in DOMAIN new.parts[n] : StampedAt(new, n, k) \/ AuthoredAt(new, n, k) =>
           \E j \in DOMAIN doc.parts[n] :
               /\ k = j + Later(n, s) /\ new.parts[n][k] = doc.parts[n][j]
               /\ StampedAt(new, n, k) => StampedAt(doc, n, j)
               /\ AuthoredAt(new, n, k) => AuthoredAt(doc, n, j)
  <2> TAKE n \in Parts(doc)
  <2> TAKE k \in DOMAIN new.parts[n]
  <2>1. SUFFICES ASSUME StampedAt(new, n, k) \/ AuthoredAt(new, n, k)
                 PROVE  \E j \in DOMAIN doc.parts[n] :
                            /\ k = j + Later(n, s) /\ new.parts[n][k] = doc.parts[n][j]
                            /\ StampedAt(new, n, k) => StampedAt(doc, n, j)
                            /\ AuthoredAt(new, n, k) => AuthoredAt(doc, n, j)
    OBVIOUS
  <2>2. new.parts[n][k].id # NoId
    BY <2>1 DEF StampedAt, AuthoredAt
  <2>3. PICK j \in DOMAIN doc.parts[n] : k = j + Later(n, s)
    BY <1>12, <2>2
  <2>4. new.parts[n][k] = doc.parts[n][j]
    BY <1>12, <2>3
  <2> QED BY <2>3, <2>4 DEF StampedAt, AuthoredAt
<1>11. StampedOnce(new)
  <2>1. SUFFICES ASSUME NEW n \in Parts(doc), NEW k \in DOMAIN new.parts[n], StampedAt(new, n, k),
                        NEW m \in Parts(doc), NEW j \in DOMAIN new.parts[m]
                 PROVE  /\ AuthoredAt(new, m, j) => new.parts[m][j].id # new.parts[n][k].id
                        /\ StampedAt(new, m, j) /\ new.parts[m][j].id = new.parts[n][k].id => m = n /\ j = k
    BY <1>12 DEF StampedOnce
  <2>2. PICK a \in DOMAIN doc.parts[n] :
            k = a + Later(n, s) /\ new.parts[n][k] = doc.parts[n][a] /\ StampedAt(doc, n, a)
    BY <1>10, <2>1
  <2>3. SUFFICES ASSUME StampedAt(new, m, j) \/ AuthoredAt(new, m, j)
                 PROVE  /\ AuthoredAt(new, m, j) => new.parts[m][j].id # new.parts[n][k].id
                        /\ StampedAt(new, m, j) /\ new.parts[m][j].id = new.parts[n][k].id => m = n /\ j = k
    OBVIOUS
  <2>4. PICK b \in DOMAIN doc.parts[m] :
            /\ j = b + Later(m, s) /\ new.parts[m][j] = doc.parts[m][b]
            /\ StampedAt(new, m, j) => StampedAt(doc, m, b)
            /\ AuthoredAt(new, m, j) => AuthoredAt(doc, m, b)
    BY <1>10, <2>3
  <2>5. /\ AuthoredAt(doc, m, b) => doc.parts[m][b].id # doc.parts[n][a].id
        /\ StampedAt(doc, m, b) /\ doc.parts[m][b].id = doc.parts[n][a].id => m = n /\ b = a
    BY <2>2 DEF Sound, StampedOnce
  <2> QED BY <2>2, <2>4, <2>5
<1> QED BY <1>9, <1>11 DEF Sound

\* A stamp that is the id of nothing yet.
LEMMA SoundStamps ==
    ASSUME NEW doc, IsDoc(doc), Sound(doc), NEW n \in Parts(doc), NEW k \in DOMAIN doc.parts[n],
           doc.parts[n][k].kind = "heading", NEW id, id \notin Explicit("seed", doc),
           NEW new, new = [doc EXCEPT !.parts[n][k].id = id]
    PROVE  Sound(new)
<1>1. /\ Parts(new) = Parts(doc) /\ Used(new) = Used(doc)
      /\ \A m \in Parts(doc) : DOMAIN new.parts[m] = DOMAIN doc.parts[m]
      /\ \A m \in Parts(doc) : \A j \in DOMAIN doc.parts[m] :
             ~(m = n /\ j = k) => new.parts[m][j] = doc.parts[m][j]
      /\ new.parts[n][k] = [doc.parts[n][k] EXCEPT !.id = id]
  BY DEF IsDoc, Parts, Used
<1>2. doc.parts[n][k] \in Site
  <2>1. doc.parts[n] \in Seq(Site)
    BY UsedParts
  <2> QED BY <2>1
<1>3. /\ new.parts[n][k].kind = doc.parts[n][k].kind /\ new.parts[n][k].name = doc.parts[n][k].name
      /\ new.parts[n][k].use = doc.parts[n][k].use /\ new.parts[n][k].id = id
      /\ new.parts[n][k].authored = doc.parts[n][k].authored
  BY <1>1, <1>2 DEF Site
<1>4. Used(doc) \subseteq Parts(doc)
  BY UsedParts
<1>5. Places(new) = Places(doc)
  BY <1>1, <1>4 DEF Places
<1>6. \A p \in Places(doc) : /\ SiteAt(new, p).kind = SiteAt(doc, p).kind
                             /\ SiteAt(new, p).name = SiteAt(doc, p).name
                             /\ SiteAt(new, p).use = SiteAt(doc, p).use
  <2> TAKE p \in Places(doc)
  <2>1. PICK m \in Used(doc) : \E j \in DOMAIN doc.parts[m] : p = <<m, j>>
    BY DEF Places
  <2>2. PICK j \in DOMAIN doc.parts[m] : p = <<m, j>>
    BY <2>1
  <2>3. SiteAt(new, p) = new.parts[m][j] /\ SiteAt(doc, p) = doc.parts[m][j]
    BY <2>2 DEF SiteAt
  <2> QED BY <1>1, <1>3, <1>4, <2>3
<1>7. Annotated(new)
  <2>1. PICK h : h = [p \in Places(doc) |-> p]
    OBVIOUS
  <2>2. DOMAIN h = Places(doc) /\ \A p \in Places(doc) : h[p] = p
    BY <2>1
  <2> QED BY <1>5, <1>6, <2>2, AnnotatedMoves DEF Sound
<1>8. \A m \in Parts(doc) : \A j \in DOMAIN doc.parts[m] : ~(m = n /\ j = k) =>
          /\ StampedAt(new, m, j) <=> StampedAt(doc, m, j)
          /\ AuthoredAt(new, m, j) <=> AuthoredAt(doc, m, j)
          /\ StampedAt(doc, m, j) \/ AuthoredAt(doc, m, j) => new.parts[m][j].id # id
  <2> TAKE m \in Parts(doc)
  <2> TAKE j \in DOMAIN doc.parts[m]
  <2>1. SUFFICES ASSUME ~(m = n /\ j = k)
                 PROVE  /\ StampedAt(new, m, j) <=> StampedAt(doc, m, j)
                        /\ AuthoredAt(new, m, j) <=> AuthoredAt(doc, m, j)
                        /\ StampedAt(doc, m, j) \/ AuthoredAt(doc, m, j) => new.parts[m][j].id # id
    OBVIOUS
  <2>2. new.parts[m][j] = doc.parts[m][j]
    BY <1>1, <2>1
  <2>3. StampedAt(doc, m, j) \/ AuthoredAt(doc, m, j) => doc.parts[m][j].id \in Explicit("seed", doc)
    BY IdIsExplicit DEF StampedAt, AuthoredAt
  <2> QED BY <2>2, <2>3 DEF StampedAt, AuthoredAt
<1>9. StampedOnce(new)
  <2> SUFFICES ASSUME NEW a \in Parts(new), NEW b \in DOMAIN new.parts[a], StampedAt(new, a, b),
                      NEW m \in Parts(new), NEW j \in DOMAIN new.parts[m]
               PROVE  /\ AuthoredAt(new, m, j) => new.parts[m][j].id # new.parts[a][b].id
                      /\ StampedAt(new, m, j) /\ new.parts[m][j].id = new.parts[a][b].id => m = a /\ j = b
    BY DEF StampedOnce
  <2>6. /\ a \in Parts(doc) /\ b \in DOMAIN doc.parts[a]
        /\ m \in Parts(doc) /\ j \in DOMAIN doc.parts[m]
    BY <1>1
  <2>1. SUFFICES ASSUME StampedAt(new, m, j) \/ AuthoredAt(new, m, j)
                 PROVE  /\ AuthoredAt(new, m, j) => new.parts[m][j].id # new.parts[a][b].id
                        /\ StampedAt(new, m, j) /\ new.parts[m][j].id = new.parts[a][b].id => m = a /\ j = b
    OBVIOUS
  <2>2. CASE ~(a = n /\ b = k) /\ ~(m = n /\ j = k)
    <3>1. StampedAt(doc, a, b) /\ (StampedAt(doc, m, j) <=> StampedAt(new, m, j))
          /\ (AuthoredAt(doc, m, j) <=> AuthoredAt(new, m, j))
          /\ new.parts[m][j] = doc.parts[m][j] /\ new.parts[a][b] = doc.parts[a][b]
      BY <1>1, <1>8, <2>2, <2>6
    <3>2. /\ AuthoredAt(doc, m, j) => doc.parts[m][j].id # doc.parts[a][b].id
          /\ StampedAt(doc, m, j) /\ doc.parts[m][j].id = doc.parts[a][b].id => m = a /\ j = b
      BY <2>6, <3>1 DEF Sound, StampedOnce
    <3> QED BY <3>1, <3>2
  <2>3. CASE a = n /\ b = k /\ ~(m = n /\ j = k)
    BY <1>3, <1>8, <2>1, <2>3, <2>6
  <2>4. CASE ~(a = n /\ b = k) /\ m = n /\ j = k
    BY <1>3, <1>8, <2>1, <2>4, <2>6
  <2>5. CASE a = n /\ b = k /\ m = n /\ j = k
    BY <2>1, <2>5 DEF AuthoredAt
  <2> QED BY <2>2, <2>3, <2>4, <2>5
<1> QED BY <1>7, <1>9 DEF Sound

\* A document as it is parsed.
LEMMA ParsedIsSound ==
    ASSUME NEW doc \in Document \cup Inner
    PROVE  Sound(doc)
<1>1. Unstamped(doc) /\ Annotated(doc)
  BY DocumentsParsed
<1>2. \A n \in Parts(doc) : \A k \in DOMAIN doc.parts[n] : ~StampedAt(doc, n, k)
  BY <1>1 DEF Unstamped, StampedAt
<1> QED BY <1>1, <1>2 DEF Sound, StampedOnce

\* What a carrier around a site changes: nothing but where the site is.
Wrapped(doc, new) ==
    /\ Parts(new) = Parts(doc) /\ Used(new) = Used(doc)
    /\ \A m \in Parts(doc) : DOMAIN new.parts[m] = DOMAIN doc.parts[m]
    /\ \A m \in Parts(doc) : \A j \in DOMAIN doc.parts[m] :
           /\ new.parts[m][j].kind = doc.parts[m][j].kind /\ new.parts[m][j].id = doc.parts[m][j].id
           /\ new.parts[m][j].name = doc.parts[m][j].name /\ new.parts[m][j].use = doc.parts[m][j].use
           /\ new.parts[m][j].authored = doc.parts[m][j].authored

LEMMA WrapChanges ==
    ASSUME NEW doc, IsDoc(doc), NEW k \in DOMAIN doc.parts[0],
           NEW new, new = [doc EXCEPT !.parts[0][k].within = "closed"]
    PROVE  Wrapped(doc, new)
<1>1. 0 \in Parts(doc) /\ doc.parts[0] \in Seq(Site)
  BY UsedParts
<1>2. /\ Parts(new) = Parts(doc) /\ Used(new) = Used(doc)
      /\ \A m \in Parts(doc) : DOMAIN new.parts[m] = DOMAIN doc.parts[m]
      /\ \A m \in Parts(doc) : \A j \in DOMAIN doc.parts[m] :
             ~(m = 0 /\ j = k) => new.parts[m][j] = doc.parts[m][j]
      /\ new.parts[0][k] = [doc.parts[0][k] EXCEPT !.within = "closed"]
  BY <1>1 DEF IsDoc, Parts, Used
<1>3. doc.parts[0][k] \in Site
  BY <1>1
<1>4. /\ new.parts[0][k].kind = doc.parts[0][k].kind /\ new.parts[0][k].id = doc.parts[0][k].id
      /\ new.parts[0][k].name = doc.parts[0][k].name /\ new.parts[0][k].use = doc.parts[0][k].use
      /\ new.parts[0][k].authored = doc.parts[0][k].authored
  BY <1>2, <1>3 DEF Site
<1> QED BY <1>2, <1>4 DEF Wrapped

\* A carrier leaves citations and ids alone.
LEMMA SoundWraps ==
    ASSUME NEW doc, IsDoc(doc), Sound(doc), NEW new, Wrapped(doc, new)
    PROVE  Sound(new)
<1>1. Used(doc) \subseteq Parts(doc)
  BY UsedParts
<1>2. Places(new) = Places(doc)
  BY <1>1 DEF Places, Wrapped
<1>3. \A p \in Places(doc) : /\ SiteAt(new, p).kind = SiteAt(doc, p).kind
                             /\ SiteAt(new, p).name = SiteAt(doc, p).name
                             /\ SiteAt(new, p).use = SiteAt(doc, p).use
  <2> TAKE p \in Places(doc)
  <2>1. PICK m \in Used(doc) : \E j \in DOMAIN doc.parts[m] : p = <<m, j>>
    BY DEF Places
  <2>2. PICK j \in DOMAIN doc.parts[m] : p = <<m, j>>
    BY <2>1
  <2>3. SiteAt(new, p) = new.parts[m][j] /\ SiteAt(doc, p) = doc.parts[m][j] /\ m \in Parts(doc)
    BY <1>1, <2>2 DEF SiteAt
  <2> QED BY <2>3 DEF Wrapped
<1>4. Annotated(new)
  <2>1. PICK h : h = [p \in Places(doc) |-> p]
    OBVIOUS
  <2>2. DOMAIN h = Places(doc) /\ \A p \in Places(doc) : h[p] = p
    BY <2>1
  <2> QED BY <1>2, <1>3, <2>2, AnnotatedMoves DEF Sound
<1>5. StampedOnce(new)
  BY DEF Sound, StampedOnce, StampedAt, AuthoredAt, Wrapped
<1> QED BY <1>4, <1>5 DEF Sound

\* An extension's heading has no id, and its carrier changes none.
LEMMA ExtendIsSound ==
    ASSUME IInv, Sound(document), Extend
    PROVE  Sound(document')
<1>20. CASE \E k \in DOMAIN document.parts[0] :
               document' = [document EXCEPT !.parts[0][k].within = "closed"]
  <2>1. IsDoc(document)
    BY DEF IInv, TypeOK
  <2>2. PICK new : new = document'
    OBVIOUS
  <2>3. Wrapped(document, new)
    BY <1>20, <2>1, <2>2, WrapChanges
  <2>4. Sound(new)
    BY <2>1, <2>3, SoundWraps
  <2> QED BY <2>2, <2>4
<1>21. SUFFICES ASSUME \E site \in Added : \/ document' = [document EXCEPT !.parts[0] = <<site>> \o @]
                                          \/ document' = [document EXCEPT !.parts[0] = Append(@, site)]
                PROVE  Sound(document')
  BY <1>20 DEF Extend
<1>1. PICK site \in Added : \/ document' = [document EXCEPT !.parts[0] = <<site>> \o @]
                            \/ document' = [document EXCEPT !.parts[0] = Append(@, site)]
  BY <1>21
<1>2. IsDoc(document) /\ site.kind = "heading" /\ site.id = NoId
  BY DocumentsTyped, DocumentsParsed DEF IInv, TypeOK
<1>3. 0 \in Parts(document) /\ document.parts[0] \in Seq(Site)
      /\ \A n \in Parts(document) : DOMAIN document.parts[n] = 1..Len(document.parts[n])
                                    /\ Len(document.parts[n]) \in Nat
  BY <1>2, UsedParts
<1>4. PICK body : body = document.parts[0]
  OBVIOUS
<1>5. PICK L : L = Len(body)
  OBVIOUS
<1>6. body \in Seq(Site) /\ L \in Nat /\ DOMAIN body = 1..L
  BY <1>3, <1>4, <1>5
<1>11. PICK new : new = document'
  OBVIOUS
<1>7. PICK more : new = [document EXCEPT !.parts[0] = more]
                  /\ (more = <<site>> \o body \/ more = Append(body, site))
  BY <1>1, <1>4, <1>11
<1>8. /\ Parts(new) = Parts(document) /\ Used(new) = Used(document)
      /\ new.parts[0] = more
      /\ \A n \in Parts(document) : n # 0 => new.parts[n] = document.parts[n]
  BY <1>2, <1>3, <1>7 DEF IsDoc, Parts, Used
<1>9. CASE more = <<site>> \o body
  <2>1. /\ DOMAIN more = 1..(L + 1) /\ more[1] = site
        /\ \A k \in 1..L : more[k + 1] = body[k]
    BY <1>5, <1>6, <1>9
  <2>6. PICK s : s = 1
    OBVIOUS
  <2>2. \A n \in Parts(document) : \A k \in DOMAIN document.parts[n] :
            /\ k + Later(n, s) \in DOMAIN new.parts[n]
            /\ new.parts[n][k + Later(n, s)] = document.parts[n][k]
    <3> TAKE n \in Parts(document)
    <3> TAKE k \in DOMAIN document.parts[n]
    <3>1. CASE n = 0
      <4>1. k \in 1..L /\ k + 1 \in 1..(L + 1)
        BY <1>4, <1>6, <3>1
      <4> QED BY <1>4, <1>8, <2>1, <3>1, <2>6, <4>1 DEF Later
    <3>2. CASE n # 0
      <4>1. k \in Nat /\ k + 0 = k
        BY <1>3
      <4> QED BY <1>8, <3>2, <2>6, <4>1 DEF Later
    <3> QED BY <3>1, <3>2
  <2>3. \A n \in Parts(document) : \A k \in DOMAIN new.parts[n] :
            \/ new.parts[n][k].kind = "heading" /\ new.parts[n][k].id = NoId
            \/ \E j \in DOMAIN document.parts[n] : k = j + Later(n, s)
    <3> TAKE n \in Parts(document)
    <3> TAKE k \in DOMAIN new.parts[n]
    <3>1. CASE n = 0 /\ k = 1
      BY <1>2, <1>8, <2>1, <3>1
    <3>2. CASE n = 0 /\ k # 1
      <4>1. k \in 1..(L + 1)
        BY <1>8, <2>1, <3>2
      <4>2. k - 1 \in 1..L /\ (k - 1) + 1 = k
        BY <1>6, <3>2, <4>1
      <4> QED BY <1>4, <1>6, <3>2, <2>6, <4>2 DEF Later
    <3>3. CASE n # 0
      <4>1. k \in DOMAIN document.parts[n] /\ k \in Nat /\ k + 0 = k
        BY <1>3, <1>8, <3>3
      <4> QED BY <3>3, <2>6, <4>1 DEF Later
    <3> QED BY <3>1, <3>2, <3>3
  <2>4. s \in Nat
    BY <2>6
  <2>9. Shifts(document, new, s)
    BY <1>8, <2>2, <2>3 DEF Shifts
  <2>5. Sound(new)
    BY <1>2, <2>4, <2>9, SoundShifts
  <2> QED BY <1>11, <2>5
<1>10. CASE more = Append(body, site)
  <2>1. /\ DOMAIN more = 1..(L + 1) /\ more[L + 1] = site
        /\ \A k \in 1..L : more[k] = body[k]
    BY <1>5, <1>6, <1>10
  <2>8. PICK s : s = 0
    OBVIOUS
  <2>2. \A n : Later(n, s) = 0
    BY <2>8 DEF Later
  <2>3. \A n \in Parts(document) : \A k \in DOMAIN document.parts[n] : k \in Nat /\ k + 0 = k
    BY <1>3
  <2>4. \A n \in Parts(document) : \A k \in DOMAIN document.parts[n] :
            /\ k + Later(n, s) \in DOMAIN new.parts[n]
            /\ new.parts[n][k + Later(n, s)] = document.parts[n][k]
    <3> TAKE n \in Parts(document)
    <3> TAKE k \in DOMAIN document.parts[n]
    <3>1. CASE n = 0
      <4>1. k \in 1..L /\ k \in 1..(L + 1)
        BY <1>4, <1>6, <3>1
      <4> QED BY <1>4, <1>8, <2>1, <2>2, <2>3, <3>1, <4>1
    <3>2. CASE n # 0
      BY <1>8, <2>2, <2>3, <3>2
    <3> QED BY <3>1, <3>2
  <2>5. \A n \in Parts(document) : \A k \in DOMAIN new.parts[n] :
            \/ new.parts[n][k].kind = "heading" /\ new.parts[n][k].id = NoId
            \/ \E j \in DOMAIN document.parts[n] : k = j + Later(n, s)
    <3> TAKE n \in Parts(document)
    <3> TAKE k \in DOMAIN new.parts[n]
    <3>1. CASE n = 0 /\ k = L + 1
      BY <1>2, <1>8, <2>1, <3>1
    <3>2. CASE n = 0 /\ k # L + 1
      <4>1. k \in 1..(L + 1)
        BY <1>8, <2>1, <3>2
      <4>2. k \in DOMAIN document.parts[n] /\ k + 0 = k
        BY <1>4, <1>6, <3>2, <4>1
      <4> QED BY <2>2, <4>2
    <3>3. CASE n # 0
      <4>1. k \in DOMAIN document.parts[n] /\ k + 0 = k
        BY <1>8, <2>3, <3>3
      <4> QED BY <2>2, <4>1
    <3> QED BY <3>1, <3>2, <3>3
  <2>6. s \in Nat
    BY <2>8
  <2>9. Shifts(document, new, s)
    BY <1>8, <2>4, <2>5 DEF Shifts
  <2>7. Sound(new)
    BY <1>2, <2>6, <2>9, SoundShifts
  <2> QED BY <1>11, <2>7
<1> QED BY <1>7, <1>9, <1>10, <1>11

-----------------------------------------------------------------------------
(* The stamping: it numbers the headings part by part, puts the numbers in *)
(* one list, and hands them back in the order of the labels.  A heading    *)
(* gets the number that was made for it, so that no stamp is an id twice.  *)

Blanks(doc) == {p \in Places(doc) : SiteAt(doc, p).kind = "heading" /\ SiteAt(doc, p).id = NoId}
Slot(f, p) == f.slots[p[1]][Rank(f.doc, p[1], p[2])]
Fresh(f, S) ==
    /\ \A p \in S : Slot(f, p) \notin Explicit("seed", f.doc)
    /\ \A p, q \in S : Slot(f, p) = Slot(f, q) => p = q

Stamping(f) ==
    /\ OnWalk(f) /\ Sound(f.doc) /\ Open(f.doc)
    /\ f.explicit = Explicit("seed", f.doc) /\ f.ids = << >>
    /\ \A n \in Parts(f.doc) : Len(f.slots[n]) = Rank(f.doc, n, Progress(f, n))
    /\ Fresh(f, Blanks(f.doc) \cap Walks(f))
    /\ \A p \in Blanks(f.doc) \cap Walks(f) : Slot(f, p) \in DOMAIN f.counts

\* The place of the numbers of a part in the list.
Full(f) == \A n \in Parts(f.doc) : Len(f.slots[n]) = Rank(f.doc, n, Len(f.doc.parts[n]))
Offsets(f, Off, upto) ==
    /\ Off \in [Nat -> Nat] /\ Off[0] = 0
    /\ \A n \in 0..(upto - 1) : Off[n + 1] = Off[n] + Len(f.slots[n])
Gathered(f, Off) ==
    \A n \in 0..(Behind(f) - 1) : \A r \in 1..Len(f.slots[n]) :
        Off[n] + r <= Len(f.ids) /\ f.ids[Off[n] + r] = f.slots[n][r]
Reached(f, Off) == Off[PartOf(f)] + Rank(f.doc, PartOf(f), f.next - 1)
Remaining(f, Off) ==
    \A n \in Parts(f.doc) : \A r \in 1..Len(f.slots[n]) : Off[n] + r > Reached(f, Off) =>
        /\ (Off[n] + r) - Reached(f, Off) <= Len(f.ids)
        /\ f.ids[(Off[n] + r) - Reached(f, Off)] = f.slots[n][r]

Gathering(f) ==
    /\ OnWalk(f) /\ Sound(f.doc) /\ Open(f.doc) /\ Full(f) /\ Fresh(f, Blanks(f.doc))
    /\ \E Off : Offsets(f, Off, Behind(f)) /\ Len(f.ids) = Off[Behind(f)] /\ Gathered(f, Off)
Writing(f) ==
    /\ OnWalk(f) /\ Sound(f.doc) /\ Open(f.doc) /\ Full(f) /\ Fresh(f, Blanks(f.doc) \ Walks(f))
    /\ \E Off : Offsets(f, Off, Len(Ord(f))) /\ (f.parts # << >> => Remaining(f, Off))

LEMMA WalkedPlaces ==
    ASSUME NEW f, IsFrame(f), OnWalk(f), NEW p \in Walks(f)
    PROVE  \E n \in Used(f.doc) : \E k \in 1..Progress(f, n) :
               /\ p = <<n, k>> /\ p[1] = n /\ p[2] = k /\ n \in Parts(f.doc)
               /\ k \in Nat \ {0} /\ Progress(f, n) \in Nat
<1>1. PICK n \in Used(f.doc) : \E k \in 1..Progress(f, n) : p = <<n, k>>
  BY DEF Walks
<1>2. PICK k \in 1..Progress(f, n) : p = <<n, k>>
  BY <1>1
<1>3. n \in Parts(f.doc)
  BY UsedParts DEF IsFrame
<1>4. Progress(f, n) \in Nat
  BY <1>3, ProgressBounded
<1>5. k \in Nat \ {0}
  BY <1>4
<1> QED BY <1>2, <1>3, <1>4, <1>5

LEMMA StampingBegins ==
    ASSUME NEW doc, Sound(doc), Open(doc), NEW f, f = Frame("stamp", doc), IsFrame(f)
    PROVE  Stamping(f)
<1>1. /\ f.parts = Ord(f) /\ f.next = 1 /\ f.ids = << >> /\ f.doc = doc
      /\ f.slots = [n \in Parts(doc) |-> << >>] /\ f.explicit = Explicit("stamp", doc)
  BY DEF Frame, Ord
<1>2. IsDoc(f.doc) /\ Used(f.doc) \subseteq Parts(f.doc)
  BY UsedParts DEF IsFrame
<1>3. OnWalk(f) /\ \A n \in Parts(f.doc) : Progress(f, n) = 0
  BY <1>1, <1>2, AtStart
<1>4. Walks(f) = {}
  BY <1>2, <1>3 DEF Walks
<1>5. f.explicit = Explicit("seed", f.doc)
  BY <1>1 DEF Explicit
<1>6. \A n \in Parts(f.doc) : Len(f.slots[n]) = Rank(f.doc, n, Progress(f, n))
  <2> TAKE n \in Parts(f.doc)
  <2>1. f.slots[n] = << >> /\ Len(<< >>) = 0
    BY <1>1
  <2>2. 0 \in Nat
    OBVIOUS
  <2>3. Rank(f.doc, n, 0) = 0
    BY <2>2, RankFacts
  <2> QED BY <1>3, <2>1, <2>3
<1> QED BY <1>1, <1>3, <1>4, <1>5, <1>6 DEF Stamping, Fresh

\* The stamping numbers one more heading, or passes a site that is none.
LEMMA StampingAdvances ==
    ASSUME NEW f, IsFrame(f), f.job = "stamp", Stamping(f), On(f),
           NEW new, IsFrame(new), new.job = "stamp", new.doc = f.doc, new.parts = f.parts,
           new.next = f.next + 1, new.explicit = f.explicit, new.ids = f.ids,
           NEW number,
           SiteOf(f).kind # "heading" => new.slots = f.slots /\ new.counts = f.counts,
           SiteOf(f).kind = "heading" => new.slots = [f.slots EXCEPT ![PartOf(f)] = Append(@, number)],
           DOMAIN f.counts \subseteq DOMAIN new.counts,
           SiteOf(f).kind = "heading" /\ SiteOf(f).id = NoId /\ PartOf(f) \in Used(f.doc) =>
               number \notin DOMAIN f.counts \cup f.explicit /\ number \in DOMAIN new.counts
    PROVE  Stamping(new)
<1>17. Open(new.doc)
  BY DEF Stamping
<1>1. PICK p, q, place : p = PartOf(f) /\ q = f.next /\ place = <<p, q>>
  OBVIOUS
<1>2. OnWalk(f) /\ f.explicit = Explicit("seed", f.doc) /\ f.ids = << >> /\ Sound(f.doc) /\ IsDoc(f.doc)
  BY DEF Stamping, IsFrame
<1>3. /\ place \notin Walks(f) /\ OnWalk(new)
      /\ Walks(new) \subseteq Walks(f) \cup {place} /\ Walks(f) \subseteq Walks(new)
      /\ p \notin Used(f.doc) => Walks(new) = Walks(f)
      /\ p \in Parts(f.doc) /\ q \in DOMAIN f.doc.parts[p]
      /\ SiteAt(f.doc, place) = SiteOf(f) /\ SiteOf(f) = f.doc.parts[p][q]
  BY <1>1, <1>2, WalkSteps DEF SiteOf
<1>4. \A n \in Parts(f.doc) : Progress(new, n) = IF n = p THEN q ELSE Progress(f, n)
  BY <1>1, <1>2, AdvancingMoves
<1>5. Progress(f, p) = q - 1 /\ q \in Nat \ {0}
  BY <1>1, <1>2, AdvancingMoves DEF IsFrame
<1>6. DOMAIN f.slots = Parts(f.doc) /\ \A n \in Parts(f.doc) : f.slots[n] \in Seq(Id)
  BY DEF IsFrame
<1>7. PICK r : r = Rank(f.doc, p, q - 1)
  OBVIOUS
<1>8. /\ r \in Nat /\ Len(f.slots[p]) = r
      /\ SiteOf(f).kind = "heading" => Rank(f.doc, p, q) = r + 1
      /\ SiteOf(f).kind # "heading" => Rank(f.doc, p, q) = r
  <2>1. q - 1 \in Nat /\ (q - 1) + 1 = q
    BY <1>5
  <2>2. /\ Rank(f.doc, p, q - 1) \in Nat
        /\ f.doc.parts[p][(q - 1) + 1].kind = "heading" =>
               Rank(f.doc, p, (q - 1) + 1) = Rank(f.doc, p, q - 1) + 1
        /\ f.doc.parts[p][(q - 1) + 1].kind # "heading" =>
               Rank(f.doc, p, (q - 1) + 1) = Rank(f.doc, p, q - 1)
    BY <2>1, RankFacts
  <2>3. Len(f.slots[p]) = Rank(f.doc, p, Progress(f, p))
    BY <1>3 DEF Stamping
  <2> QED BY <1>3, <1>5, <1>7, <2>1, <2>2, <2>3
<1>9. /\ \A n \in Parts(f.doc) : n # p => new.slots[n] = f.slots[n]
      /\ SiteOf(f).kind # "heading" => new.slots[p] = f.slots[p]
      /\ SiteOf(f).kind = "heading" =>
             /\ new.slots[p] = Append(f.slots[p], number)
             /\ Len(new.slots[p]) = r + 1 /\ new.slots[p][r + 1] = number
             /\ \A i \in 1..r : new.slots[p][i] = f.slots[p][i]
  <2>1. CASE SiteOf(f).kind # "heading"
    BY <2>1
  <2>2. CASE SiteOf(f).kind = "heading"
    <3>1. new.slots = [f.slots EXCEPT ![p] = Append(@, number)]
      BY <1>1, <2>2
    <3>2. new.slots[p] = Append(f.slots[p], number)
          /\ \A n \in Parts(f.doc) : n # p => new.slots[n] = f.slots[n]
      BY <1>3, <1>6, <3>1
    <3>3. f.slots[p] \in Seq(Id) /\ Len(f.slots[p]) = r
      BY <1>3, <1>6, <1>8
    <3> QED BY <2>2, <3>2, <3>3
  <2> QED BY <2>1, <2>2
<1>10. \A n \in Parts(f.doc) : Len(new.slots[n]) = Rank(f.doc, n, Progress(new, n))
  <2> TAKE n \in Parts(f.doc)
  <2>1. CASE n = p
    BY <1>4, <1>8, <1>9, <2>1
  <2>2. CASE n # p
    BY <1>4, <1>9, <2>2 DEF Stamping
  <2> QED BY <2>1, <2>2
<1>11. \A x \in Blanks(f.doc) \cap Walks(f) : Slot(new, x) = Slot(f, x)
  <2> TAKE x \in Blanks(f.doc) \cap Walks(f)
  <2>4. PICK n \in Used(f.doc) : \E k \in 1..Progress(f, n) :
            /\ x = <<n, k>> /\ x[1] = n /\ x[2] = k /\ n \in Parts(f.doc)
            /\ k \in Nat \ {0} /\ Progress(f, n) \in Nat
    BY <1>2, WalkedPlaces
  <2>1. PICK k \in 1..Progress(f, n) :
            /\ x = <<n, k>> /\ x[1] = n /\ x[2] = k /\ n \in Parts(f.doc)
            /\ k \in Nat \ {0} /\ Progress(f, n) \in Nat
    BY <2>4
  <2>2. CASE n # p
    BY <1>9, <2>1, <2>2 DEF Slot
  <2>3. CASE n = p
    <3>1. f.doc.parts[p][k].kind = "heading" /\ k \in Nat \ {0} /\ q - 1 \in Nat /\ k <= q - 1
      BY <1>5, <2>1, <2>3 DEF Blanks, SiteAt
    <3>2. Rank(f.doc, p, k) \in 1..r
      BY <1>7, <3>1, RankOfHeading
    <3> QED BY <1>9, <2>1, <2>3, <3>2 DEF Slot
  <2> QED BY <2>2, <2>3
<1>12. Blanks(f.doc) \cap Walks(new) \subseteq (Blanks(f.doc) \cap Walks(f)) \cup {place}
  BY <1>3
<1>13. place \in Blanks(f.doc) \cap Walks(new) =>
           /\ Slot(new, place) = number
           /\ number \notin DOMAIN f.counts \cup f.explicit /\ number \in DOMAIN new.counts
  <2>1. SUFFICES ASSUME place \in Blanks(f.doc) \cap Walks(new)
                 PROVE  /\ Slot(new, place) = number
                        /\ number \notin DOMAIN f.counts \cup f.explicit /\ number \in DOMAIN new.counts
    OBVIOUS
  <2>2. SiteOf(f).kind = "heading" /\ SiteOf(f).id = NoId
    BY <1>3, <2>1 DEF Blanks
  <2>3. p \in Used(f.doc)
    BY <1>3, <2>1
  <2>4. place[1] = p /\ place[2] = q
    BY <1>1
  <2>5. Slot(new, place) = new.slots[p][Rank(f.doc, p, q)]
    BY <2>4 DEF Slot
  <2> QED BY <1>1, <1>8, <1>9, <2>2, <2>3, <2>5
<1>14. /\ \A x \in Blanks(f.doc) \cap Walks(f) :
              Slot(f, x) \in DOMAIN f.counts /\ Slot(f, x) \notin Explicit("seed", f.doc)
       /\ \A x, y \in Blanks(f.doc) \cap Walks(f) : Slot(f, x) = Slot(f, y) => x = y
  BY DEF Stamping, Fresh
<1>15. \A x \in Blanks(f.doc) \cap Walks(new) :
           Slot(new, x) \in DOMAIN new.counts /\ Slot(new, x) \notin Explicit("seed", f.doc)
  <2> TAKE x \in Blanks(f.doc) \cap Walks(new)
  <2>1. CASE x \in Blanks(f.doc) \cap Walks(f)
    BY <1>11, <1>14, <2>1
  <2>2. CASE x = place
    BY <1>2, <1>13, <2>2
  <2> QED BY <1>12, <2>1, <2>2
<1>16. \A x, y \in Blanks(f.doc) \cap Walks(new) : Slot(new, x) = Slot(new, y) => x = y
  <2> TAKE x, y \in Blanks(f.doc) \cap Walks(new)
  <2>1. CASE x \in Blanks(f.doc) \cap Walks(f) /\ y \in Blanks(f.doc) \cap Walks(f)
    BY <1>11, <1>14, <2>1
  <2>2. CASE x = place /\ y = place
    BY <2>2
  <2>3. CASE x = place /\ y \in Blanks(f.doc) \cap Walks(f)
    BY <1>11, <1>13, <1>14, <2>3
  <2>4. CASE x \in Blanks(f.doc) \cap Walks(f) /\ y = place
    BY <1>11, <1>13, <1>14, <2>4
  <2> QED BY <1>12, <2>1, <2>2, <2>3, <2>4
<1> QED BY <1>2, <1>3, <1>10, <1>15, <1>16, <1>17 DEF Stamping, Fresh

LEMMA StampingMoves ==
    ASSUME NEW f, IsFrame(f), f.job = "stamp", Stamping(f), NEW new, IsFrame(new), Moves(f, new),
           new.job = "stamp"
    PROVE  Stamping(new)
<1>1. OnWalk(f) /\ IsDoc(f.doc) /\ f.explicit = Explicit("seed", f.doc)
  BY DEF Stamping, IsFrame
<1>2. ASSUME On(f)
      PROVE  SiteOf(f) \in Site
  <2>1. f.parts # << >> /\ f.next <= Len(f.doc.parts[PartOf(f)])
    BY <1>2 DEF On
  <2> QED BY <2>1, SiteOnTop DEF SiteOf, PartOf
<1>3. CASE Leaves(f, new)
  <2>1. /\ new.doc = f.doc /\ new.explicit = f.explicit /\ new.ids = f.ids /\ new.slots = f.slots
        /\ new.counts = f.counts
    BY <1>3 DEF Leaves, IsFrame, Fields
  <2>2. ~Skips(f)
    BY DEF Skips
  <2>3. OnWalk(new) /\ \A n \in Parts(f.doc) : Progress(new, n) = Progress(f, n)
    BY <1>1, <1>3, <2>2, LeavingKeeps
  <2>4. Walks(new) = Walks(f)
    BY <1>1, <2>1, <2>3, UsedParts DEF Walks
  <2>5. \A p : Slot(new, p) = Slot(f, p)
    BY <2>1 DEF Slot
  <2>6. \A S : Fresh(f, S) => Fresh(new, S)
    BY <2>1, <2>5 DEF Fresh
  <2>7. \A n \in Parts(new.doc) : Len(new.slots[n]) = Rank(new.doc, n, Progress(new, n))
    BY <2>1, <2>3 DEF Stamping
  <2>8. Fresh(new, Blanks(new.doc) \cap Walks(new))
    BY <2>1, <2>4, <2>6 DEF Stamping
  <2>9. \A p \in Blanks(new.doc) \cap Walks(new) : Slot(new, p) \in DOMAIN new.counts
    BY <2>1, <2>4, <2>5 DEF Stamping
  <2>10. Sound(new.doc) /\ Open(new.doc) /\ new.explicit = Explicit("seed", new.doc) /\ new.ids = << >>
    BY <2>1 DEF Stamping
  <2> QED BY <2>3, <2>7, <2>8, <2>9, <2>10 DEF Stamping
<1>4. CASE Passes(f, new)
  <2>1. /\ On(f) /\ SiteOf(f).kind # "heading" /\ new.doc = f.doc /\ new.parts = f.parts
        /\ new.next = f.next + 1 /\ new.explicit = f.explicit /\ new.slots = f.slots
        /\ new.counts = f.counts /\ new.ids = f.ids
    BY <1>4 DEF Passes, Stops, IsFrame, Fields
  <2> QED BY <2>1, StampingAdvances
<1>5. CASE Numbers(f, new)
  <2>1. On(f) /\ SiteOf(f).kind = "heading" /\ SiteOf(f) \in Site
    BY <1>2, <1>5 DEF Numbers, Stands
  <2>2. CASE PartOf(f) \notin Used(f.doc)
    <3>1. new = [f EXCEPT !.next = @ + 1, !.slots[PartOf(f)] = Append(@, NoId)]
      BY <1>5, <2>2 DEF Numbers
    <3>2. /\ new.doc = f.doc /\ new.parts = f.parts /\ new.next = f.next + 1
          /\ new.explicit = f.explicit /\ new.counts = f.counts /\ new.ids = f.ids
          /\ new.slots = [f.slots EXCEPT ![PartOf(f)] = Append(@, NoId)]
      BY <3>1 DEF IsFrame, Fields
    <3> QED BY <2>1, <2>2, <3>2, StampingAdvances
  <2>3. CASE PartOf(f) \in Used(f.doc)
    <3>4. Number(f.job, SiteOf(f), f.counts, f.explicit) = Heading(SiteOf(f), f.counts, f.explicit)
      BY NumberOfOther
    <3>1. PICK number : /\ number = Heading(SiteOf(f), f.counts, f.explicit)
                        /\ new = [f EXCEPT !.next = @ + 1, !.counts = number.counts,
                                   !.slots[PartOf(f)] = Append(@, number.id),
                                   !.used = @]
      BY <1>5, <2>3, <3>4 DEF Numbers
    <3>2. /\ new.doc = f.doc /\ new.parts = f.parts /\ new.next = f.next + 1
          /\ new.explicit = f.explicit /\ new.counts = number.counts /\ new.ids = f.ids
          /\ new.slots = [f.slots EXCEPT ![PartOf(f)] = Append(@, number.id)]
      BY <3>1 DEF IsFrame, Fields
    <3>3. /\ DOMAIN f.counts \subseteq DOMAIN number.counts
          /\ SiteOf(f).id = NoId => number.id \notin DOMAIN f.counts \cup f.explicit
                                    /\ number.id \in DOMAIN number.counts
      <4>1. IsCounts(f.counts) /\ f.explicit \in SUBSET Id /\ IsFiniteSet(f.explicit)
        BY DEF IsFrame
      <4> QED BY <2>1, <3>1, <4>1, HeadingIsFree
    <3> QED BY <2>1, <3>2, <3>3, StampingAdvances
  <2> QED BY <2>2, <2>3
<1>6. CASE Gathers(f, new)
  BY <1>6 DEF Gathers, Turns2, IsFrame, Fields
<1> QED BY <1>3, <1>4, <1>5, <1>6
    DEF Moves, Collects, Stamps, Installs, ShowsHeading, ShowsElement, Generates, Asks, Reserves,
        ShowsCitation, Hosts, Stands

\* The numbers go into the list, and back, in the order of the labels.
LEMMA ByLabel ==
    ASSUME NEW f, IsFrame(f), f.job \in {"gather", "write"}, OnWalk(f)
    PROVE  /\ Parts(f.doc) = 0..(Len(Ord(f)) - 1) /\ Len(Ord(f)) \in Nat \ {0}
           /\ Behind(f) \in 0..Len(Ord(f))
           /\ f.parts = << >> <=> Behind(f) = Len(Ord(f))
           /\ f.parts # << >> => PartOf(f) = Behind(f) /\ PartOf(f) \in Parts(f.doc)
<1>1. IsDoc(f.doc)
  BY DEF IsFrame
<1>2. Ord(f) = [i \in 1..(Len(f.doc.source) + 1) |-> i - 1]
  BY DEF Ord, Order
<1>3. Parts(f.doc) = 0..Len(f.doc.source) /\ Len(f.doc.source) \in Nat
  BY <1>1, UsedParts
<1>4. Len(Ord(f)) = Len(f.doc.source) + 1
  <2>1. DOMAIN Ord(f) = 1..(Len(f.doc.source) + 1) /\ DOMAIN Ord(f) = 1..Len(Ord(f)) /\ Len(Ord(f)) \in Nat
    BY <1>2, WalkFacts
  <2> QED BY <1>3, <2>1
<1>5. /\ Behind(f) \in 0..Len(Ord(f)) /\ (f.parts = << >> <=> Behind(f) = Len(Ord(f)))
      /\ f.parts # << >> => Behind(f) + 1 \in DOMAIN Ord(f) /\ PartOf(f) = Ord(f)[Behind(f) + 1]
                            /\ PartOf(f) \in Parts(f.doc)
  BY WalkFacts
<1>6. f.parts # << >> => PartOf(f) = Behind(f)
  BY <1>2, <1>3, <1>5
<1> QED BY <1>3, <1>4, <1>5, <1>6

LEMMA SlotLengths ==
    ASSUME NEW f, IsFrame(f), NEW n \in Parts(f.doc)
    PROVE  f.slots[n] \in Seq(Id) /\ Len(f.slots[n]) \in Nat /\ DOMAIN f.slots[n] = 1..Len(f.slots[n])
<1>1. f.slots[n] \in Seq(Id)
  BY DEF IsFrame
<1> QED BY <1>1

\* One list after the other.
Joined(all, s, t) ==
    /\ Len(all) = Len(s) + Len(t)
    /\ \A i \in 1..Len(s) : all[i] = s[i]
    /\ \A i \in 1..Len(t) : all[Len(s) + i] = t[i]

LEMMA JoinedOf ==
    ASSUME NEW s \in Seq(Id), NEW t \in Seq(Id)
    PROVE  Joined(s \o t, s, t)
BY DEF Joined

LEMMA GatheringBegins ==
    ASSUME NEW f, IsFrame(f), f.job = "stamp", Stamping(f), f.parts = << >>,
           NEW new, IsFrame(new), new = Turns2(f, "gather")
    PROVE  Gathering(new)
<1>1. /\ new.doc = f.doc /\ new.slots = f.slots /\ new.ids = << >> /\ new.job = "gather"
      /\ new.parts = Ord(new) /\ new.next = 1
  BY DEF Turns2, IsFrame, Fields, Stamping, Ord
<1>2. OnWalk(new) /\ Behind(new) = 0
  BY <1>1, AtStart
<1>3. IsDoc(f.doc) /\ OnWalk(f)
  BY DEF IsFrame, Stamping
<1>4. \A n \in Parts(f.doc) : Progress(f, n) = Len(f.doc.parts[n])
  BY <1>3, SourceWalked
<1>5. Full(new)
  BY <1>1, <1>4 DEF Full, Stamping
<1>6. Walks(f) = Places(f.doc)
  <2>1. \A n \in Used(f.doc) : 1..Progress(f, n) = DOMAIN f.doc.parts[n]
    BY <1>3, <1>4, UsedParts
  <2> QED BY ZenonT(50), <2>1 DEF Walks, Places
<1>7. Fresh(new, Blanks(new.doc))
  <2>1. Blanks(f.doc) \cap Walks(f) = Blanks(f.doc)
    BY <1>6 DEF Blanks
  <2>2. Fresh(f, Blanks(f.doc))
    BY <2>1 DEF Stamping
  <2> QED BY <1>1, <2>2 DEF Fresh, Slot
<1>8. PICK Off : Off = [n \in Nat |-> 0]
  OBVIOUS
<1>9. Offsets(new, Off, Behind(new)) /\ Len(new.ids) = Off[Behind(new)] /\ Gathered(new, Off)
  BY <1>1, <1>2, <1>8 DEF Offsets, Gathered
<1> QED BY <1>1, <1>2, <1>5, <1>7, <1>9 DEF Gathering, Stamping

\* The numbers of one more part.
LEMMA GatheringGoesOn ==
    ASSUME NEW f, IsFrame(f), f.job = "gather", Gathering(f), f.parts # << >>,
           NEW new, IsFrame(new), new.job = "gather", new.doc = f.doc, new.slots = f.slots,
           new.next = f.next, new.parts = Tail(f.parts), Joined(new.ids, f.ids, f.slots[PartOf(f)])
    PROVE  Gathering(new)
<1>1. /\ new.doc = f.doc /\ new.slots = f.slots /\ new.job = "gather" /\ new.next = f.next
      /\ new.parts = Tail(f.parts) /\ Joined(new.ids, f.ids, f.slots[PartOf(f)])
  OBVIOUS
<1>2. OnWalk(f) /\ IsDoc(f.doc) /\ Full(f) /\ Sound(f.doc) /\ Open(f.doc) /\ Fresh(f, Blanks(f.doc))
  BY DEF Gathering, IsFrame
<1>3. PICK b : b = Behind(f)
  OBVIOUS
<1>4. /\ Parts(f.doc) = 0..(Len(Ord(f)) - 1) /\ Len(Ord(f)) \in Nat \ {0}
      /\ b \in 0..Len(Ord(f)) /\ PartOf(f) = b /\ b \in Parts(f.doc)
  BY <1>2, <1>3, ByLabel
<1>19. b \in Nat /\ b + 1 \in Nat
  BY <1>4
<1>20. \A n \in 0..b : n \in Nat /\ (n # b => n \in 0..(b - 1))
  BY <1>19
<1>5. f.parts \in Seq(Parts(f.doc))
  BY DEF IsFrame
<1>6. /\ Tail(f.parts) \in Seq(Parts(f.doc)) /\ Len(f.parts) \in Nat \ {0}
      /\ Len(Tail(f.parts)) = Len(f.parts) - 1
      /\ \A i \in 1..(Len(f.parts) - 1) : Tail(f.parts)[i] = f.parts[i + 1]
  BY <1>5, RestOf
<1>7. Ord(new) = Ord(f) /\ Behind(new) = b + 1
  <2>1. Ord(new) = Ord(f)
    BY <1>1 DEF Ord
  <2>2. Behind(new) = Len(Ord(f)) - (Len(f.parts) - 1)
    BY <1>1, <1>6, <2>1 DEF Behind
  <2>3. b = Len(Ord(f)) - Len(f.parts)
    BY <1>3 DEF Behind
  <2>4. Len(Ord(f)) \in Nat /\ Len(f.parts) \in Nat
    BY <1>4, <1>6
  <2> QED BY <2>1, <2>2, <2>3, <2>4
<1>8. OnWalk(new)
  <2>1. Len(f.parts) <= Len(Ord(f)) /\ f.next = 1
        /\ \A i \in 1..Len(f.parts) : f.parts[i] = Ord(f)[b + i]
    BY <1>2, <1>3 DEF OnWalk
  <2>2. \A i \in 1..(Len(f.parts) - 1) : Tail(f.parts)[i] = Ord(f)[(b + 1) + i]
    <3> TAKE i \in 1..(Len(f.parts) - 1)
    <3>1. i + 1 \in 1..Len(f.parts) /\ b + (i + 1) = (b + 1) + i
      BY <1>4, <1>6
    <3> QED BY <1>6, <2>1, <3>1
  <2>3. new.parts # << >> => new.next <= Len(new.doc.parts[PartOf(new)]) + 1
    <3>1. SUFFICES ASSUME new.parts # << >>
                   PROVE  new.next <= Len(new.doc.parts[PartOf(new)]) + 1
      OBVIOUS
    <3>2. PartOf(new) \in Parts(f.doc)
      <4>1. Tail(f.parts) \in Seq(Parts(f.doc)) /\ Tail(f.parts) # << >>
        BY <1>1, <1>6, <3>1
      <4>2. PICK rest, P : rest = Tail(f.parts) /\ P = Parts(f.doc)
        OBVIOUS
      <4>3. rest \in Seq(P) /\ rest # << >>
        BY <4>1, <4>2
      <4>4. Head(rest) \in P
        BY <4>3
      <4> QED BY <1>1, <4>2, <4>4 DEF PartOf
    <3>3. Len(f.doc.parts[PartOf(new)]) \in Nat
      BY <1>2, <3>2, UsedParts
    <3> QED BY <1>1, <2>1, <3>3
  <2> QED BY <1>1, <1>4, <1>6, <1>7, <2>1, <2>2, <2>3 DEF OnWalk
<1>9. PICK Off : Offsets(f, Off, b) /\ Len(f.ids) = Off[b] /\ Gathered(f, Off)
  BY <1>3 DEF Gathering
<1>10. PICK L, s : L = Len(f.ids) /\ s = f.slots[b]
  OBVIOUS
<1>11. /\ f.ids \in Seq(Id) /\ s \in Seq(Id) /\ L \in Nat /\ Len(s) \in Nat
       /\ Joined(new.ids, f.ids, s)
  <2>1. f.ids \in Seq(Id)
    BY DEF IsFrame
  <2>2. s \in Seq(Id) /\ Len(s) \in Nat
    BY <1>4, <1>10, SlotLengths
  <2> QED BY <1>1, <1>4, <1>10, <2>1, <2>2
<1>12. /\ Len(new.ids) = L + Len(s)
       /\ \A i \in 1..L : new.ids[i] = f.ids[i]
       /\ \A i \in 1..Len(s) : new.ids[L + i] = s[i]
  BY <1>10, <1>11 DEF Joined
<1>21. Off \in [Nat -> Nat] /\ L + Len(s) \in Nat
  <2>1. Off \in [Nat -> Nat]
    BY <1>9 DEF Offsets
  <2> QED BY SMTT(30), <1>11, <2>1
<1>13. PICK Next2 : Next2 = [Off EXCEPT ![b + 1] = L + Len(s)]
  OBVIOUS
<1>14. /\ Next2 \in [Nat -> Nat] /\ Next2[b + 1] = L + Len(s)
       /\ \A n \in 0..b : Next2[n] = Off[n]
  <2>1. \A n \in 0..b : n \in Nat /\ n # b + 1
    BY <1>19
  <2> QED BY <1>13, <1>19, <1>21, <2>1
<1>15. Offsets(new, Next2, b + 1)
  <2>1. Next2[0] = 0
    BY <1>4, <1>9, <1>14 DEF Offsets
  <2>2. \A n \in 0..b : Next2[n + 1] = Next2[n] + Len(new.slots[n])
    <3> TAKE n \in 0..b
    <3>1. CASE n = b
      BY <1>1, <1>4, <1>9, <1>10, <1>14, <3>1
    <3>2. CASE n # b
      <4>1. n \in 0..(b - 1) /\ n + 1 \in 0..b
        BY <1>4, <3>2
      <4> QED BY <1>1, <1>9, <1>14, <4>1 DEF Offsets
    <3> QED BY <3>1, <3>2
  <2>3. 0..((b + 1) - 1) = 0..b
    BY <1>4
  <2> QED BY <1>14, <2>1, <2>2, <2>3 DEF Offsets
<1>16. Gathered(new, Next2)
  <2>1. SUFFICES ASSUME NEW n \in 0..b, NEW r \in 1..Len(f.slots[n])
                 PROVE  Next2[n] + r <= Len(new.ids) /\ new.ids[Next2[n] + r] = f.slots[n][r]
    <3>1. 0..(Behind(new) - 1) = 0..b
      BY <1>4, <1>7
    <3> QED BY ZenonT(50), <1>1, <3>1 DEF Gathered
  <2>2. CASE n = b
    <3>1. r \in 1..Len(s) /\ Next2[n] = L
      BY <1>9, <1>10, <1>14, <2>1, <2>2
    <3> QED BY <1>10, <1>11, <1>12, <2>2, <3>1
  <2>3. CASE n # b
    <3>1. n \in 0..(b - 1) /\ Next2[n] = Off[n]
      BY <1>14, <1>20, <2>3
    <3>2. Off[n] + r <= L /\ f.ids[Off[n] + r] = f.slots[n][r]
      BY <1>3, <1>9, <1>10, <3>1 DEF Gathered
    <3>3. Off[n] \in Nat /\ r \in Nat \ {0}
      <4>1. n \in Parts(f.doc)
        BY <1>4, <3>1
      <4>2. Len(f.slots[n]) \in Nat
        BY <4>1, SlotLengths
      <4>3. Off[n] \in Nat
        BY <1>20, <1>21
      <4> QED BY <4>2, <4>3
    <3>4. Off[n] + r \in 1..L
      BY <1>11, <3>2, <3>3
    <3> QED BY <1>11, <1>12, <3>1, <3>2, <3>4
  <2> QED BY <2>2, <2>3
<1>17. Full(new) /\ Fresh(new, Blanks(new.doc))
  BY <1>1, <1>2 DEF Full, Fresh, Slot
<1>18. \E O : Offsets(new, O, Behind(new)) /\ Len(new.ids) = O[Behind(new)] /\ Gathered(new, O)
  BY <1>7, <1>10, <1>12, <1>14, <1>15, <1>16
<1> QED BY <1>1, <1>2, <1>8, <1>17, <1>18 DEF Gathering

LEMMA WritingBegins ==
    ASSUME NEW f, IsFrame(f), f.job = "gather", Gathering(f), f.parts = << >>,
           NEW new, IsFrame(new), new = Turns2(f, "write")
    PROVE  Writing(new)
<1>1. /\ new.doc = f.doc /\ new.slots = f.slots /\ new.ids = f.ids /\ new.job = "write"
      /\ new.parts = Ord(new) /\ new.next = 1
  BY DEF Turns2, IsFrame, Fields, Ord
<1>2. OnWalk(f) /\ IsDoc(f.doc) /\ Full(f) /\ Sound(f.doc) /\ Open(f.doc) /\ Fresh(f, Blanks(f.doc))
  BY DEF Gathering, IsFrame
<1>3. OnWalk(new) /\ PartOf(new) = 0
  BY <1>1, AtStart
<1>4. /\ Parts(f.doc) = 0..(Len(Ord(f)) - 1) /\ Len(Ord(f)) \in Nat \ {0} /\ Behind(f) = Len(Ord(f))
  BY <1>2, ByLabel
<1>5. Ord(new) = Ord(f)
  BY <1>1 DEF Ord, Order
<1>6. PICK Off : Offsets(f, Off, Behind(f)) /\ Gathered(f, Off)
  BY DEF Gathering
<1>7. Reached(new, Off) = 0
  <2>1. Rank(new.doc, 0, 0) = 0 /\ new.next - 1 = 0
    BY <1>1, RankFacts
  <2> QED BY <1>3, <1>6, <2>1 DEF Reached, Offsets
<1>8. Remaining(new, Off)
  <2>1. SUFFICES ASSUME NEW n \in Parts(f.doc), NEW r \in 1..Len(f.slots[n])
                 PROVE  (Off[n] + r) - 0 <= Len(f.ids) /\ f.ids[(Off[n] + r) - 0] = f.slots[n][r]
    BY <1>1, <1>7 DEF Remaining
  <2>2. n \in 0..(Behind(f) - 1)
    BY <1>4
  <2>3. Off[n] \in Nat /\ r \in Nat
    <3>1. Off \in [Nat -> Nat]
      BY <1>6 DEF Offsets
    <3>3. n \in Nat
      BY <1>4
    <3>2. Len(f.slots[n]) \in Nat
      BY SlotLengths
    <3> QED BY <3>1, <3>2, <3>3
  <2>4. Off[n] + r <= Len(f.ids) /\ f.ids[Off[n] + r] = f.slots[n][r]
    BY <1>6, <2>2 DEF Gathered
  <2>5. (Off[n] + r) - 0 = Off[n] + r
    BY <2>3
  <2> QED BY <2>4, <2>5
<1>9. Offsets(new, Off, Len(Ord(new)))
  BY <1>1, <1>4, <1>5, <1>6 DEF Offsets
<1>10. Full(new) /\ Fresh(new, Blanks(new.doc) \ Walks(new))
  BY <1>1, <1>2 DEF Full, Fresh, Slot
<1> QED BY <1>1, <1>2, <1>3, <1>8, <1>9, <1>10 DEF Writing

-----------------------------------------------------------------------------
\* What a stamp changes of a document.
Restamped(doc, new, n, k, id) ==
    /\ new.source = doc.source /\ new.refs = doc.refs /\ Parts(new) = Parts(doc)
    /\ Used(new) = Used(doc) /\ Places(new) = Places(doc)
    /\ \A m \in Parts(doc) : Len(new.parts[m]) = Len(doc.parts[m])
    /\ \A m \in Parts(doc) : \A j \in Nat : j <= Len(doc.parts[m]) => Rank(new, m, j) = Rank(doc, m, j)
    /\ Explicit("seed", new) \subseteq Explicit("seed", doc) \cup {id}
    /\ doc.parts[n][k].id = NoId => Blanks(new) \subseteq Blanks(doc)
    /\ Open(doc) => Open(new)

LEMMA StampChanges ==
    ASSUME NEW doc, IsDoc(doc), NEW n \in Parts(doc), NEW k \in DOMAIN doc.parts[n],
           doc.parts[n][k].kind = "heading", NEW id,
           NEW new, new = [doc EXCEPT !.parts[n][k].id = id]
    PROVE  Restamped(doc, new, n, k, id)
<1>1. /\ new.source = doc.source /\ new.refs = doc.refs
      /\ Parts(new) = Parts(doc) /\ Used(new) = Used(doc)
      /\ \A m \in Parts(doc) : DOMAIN new.parts[m] = DOMAIN doc.parts[m]
      /\ \A m \in Parts(doc) : m # n => new.parts[m] = doc.parts[m]
      /\ new.parts[n] = [doc.parts[n] EXCEPT ![k].id = id]
      /\ \A m \in Parts(doc) : \A j \in DOMAIN doc.parts[m] :
             ~(m = n /\ j = k) => new.parts[m][j] = doc.parts[m][j]
      /\ new.parts[n][k] = [doc.parts[n][k] EXCEPT !.id = id]
  BY DEF IsDoc, Parts, Used
<1>2. doc.parts[n][k] \in Site /\ doc.parts[n] \in Seq(Site) /\ Used(doc) \subseteq Parts(doc)
  <2>1. doc.parts[n] \in Seq(Site) /\ Used(doc) \subseteq Parts(doc)
    BY UsedParts
  <2> QED BY <2>1
<1>3. /\ new.parts[n][k].kind = "heading" /\ new.parts[n][k].id = id
      /\ new.parts[n][k].within = doc.parts[n][k].within
  BY <1>1, <1>2 DEF Site
<1>4. \A m \in Parts(doc) : \A j \in DOMAIN doc.parts[m] : new.parts[m][j].kind = doc.parts[m][j].kind
  BY <1>1, <1>3
<1>5. \A m \in Parts(doc) : Len(new.parts[m]) = Len(doc.parts[m])
  <2>1. Len([doc.parts[n] EXCEPT ![k].id = id]) = Len(doc.parts[n])
    BY <1>2
  <2> QED BY <1>1, <2>1
<1>6. Places(new) = Places(doc)
  BY <1>1, <1>2 DEF Places
<1>7. \A m \in Parts(doc) : \A j \in Nat : j <= Len(doc.parts[m]) => Rank(new, m, j) = Rank(doc, m, j)
  <2> TAKE m \in Parts(doc)
  <2> TAKE j \in Nat
  <2>1. SUFFICES ASSUME j <= Len(doc.parts[m])
                 PROVE  {i \in 1..j : new.parts[m][i].kind = "heading"}
                        = {i \in 1..j : doc.parts[m][i].kind = "heading"}
    BY DEF Rank
  <2>2. DOMAIN doc.parts[m] = 1..Len(doc.parts[m]) /\ Len(doc.parts[m]) \in Nat
    BY UsedParts
  <2>3. \A i \in 1..j : i \in DOMAIN doc.parts[m]
    BY <2>1, <2>2
  <2> QED BY <1>4, <2>3
<1>8. Explicit("seed", new) \subseteq Explicit("seed", doc) \cup {id}
  <2>1. SUFFICES ASSUME NEW x \in Explicit("seed", new), x # id
                 PROVE  x \in Explicit("seed", doc)
    OBVIOUS
  <2>2. PICK m \in Parts(doc) : \E j \in DOMAIN new.parts[m] :
            new.parts[m][j].kind \in {"heading", "block", "inline"} /\ x = new.parts[m][j].id /\ x # NoId
    <3>1. PICK kinds : kinds = {"heading", "block", "inline"}
      OBVIOUS
    <3>2. x \in IdsAt(new, Parts(new), kinds, Container)
      BY <2>1, <3>1 DEF Explicit
    <3>3. PICK m \in Parts(new) : \E j \in DOMAIN new.parts[m] :
              new.parts[m][j].kind \in kinds /\ x = new.parts[m][j].id /\ x # NoId
      BY <3>2 DEF IdsAt
    <3> QED BY <1>1, <3>1, <3>3
  <2>3. PICK j \in DOMAIN doc.parts[m] :
            new.parts[m][j].kind \in {"heading", "block", "inline"} /\ x = new.parts[m][j].id /\ x # NoId
    BY <1>1, <2>2
  <2>4. new.parts[m][j] = doc.parts[m][j]
    BY <1>1, <1>3, <2>1, <2>3
  <2> QED BY <2>3, <2>4, IdIsExplicit
<1>9. doc.parts[n][k].id = NoId => Blanks(new) \subseteq Blanks(doc)
  <2>1. SUFFICES ASSUME doc.parts[n][k].id = NoId, NEW p \in Places(doc),
                        SiteAt(new, p).kind = "heading", SiteAt(new, p).id = NoId
                 PROVE  SiteAt(doc, p).kind = "heading" /\ SiteAt(doc, p).id = NoId
    BY <1>6 DEF Blanks
  <2>2. PICK m \in Used(doc) : \E j \in DOMAIN doc.parts[m] : p = <<m, j>>
    BY DEF Places
  <2>3. PICK j \in DOMAIN doc.parts[m] : p = <<m, j>>
    BY <2>2
  <2>4. SiteAt(new, p) = new.parts[m][j] /\ SiteAt(doc, p) = doc.parts[m][j] /\ m \in Parts(doc)
    BY <1>2, <2>3 DEF SiteAt
  <2> QED BY <1>1, <2>1, <2>4
<1>10. Open(doc) => Open(new)
  <2>1. SUFFICES ASSUME Open(doc), NEW m \in Parts(doc), NEW j \in DOMAIN doc.parts[m],
                        new.parts[m][j].kind = "heading"
                 PROVE  new.parts[m][j].within # "closed"
    BY <1>1 DEF Open
  <2>2. doc.parts[m][j].kind = "heading" /\ new.parts[m][j].within = doc.parts[m][j].within
    BY <1>1, <1>3, <1>4, <2>1
  <2> QED BY <2>1, <2>2 DEF Open
<1> QED BY <1>1, <1>5, <1>6, <1>7, <1>8, <1>9, <1>10 DEF Restamped

\* What a walk at a heading is about to hand back is its own number.
OwnNext(f, Off, p, q) ==
    /\ Rank(f.doc, p, q) = Rank(f.doc, p, q - 1) + 1
    /\ Reached(f, Off) \in Nat /\ Off[p] + Rank(f.doc, p, q) = Reached(f, Off) + 1
    /\ f.ids # << >> /\ Head(f.ids) = f.slots[p][Rank(f.doc, p, q)]

LEMMA OwnNumberNext ==
    ASSUME NEW f, IsFrame(f), f.job = "write", OnWalk(f), Full(f), On(f),
           SiteOf(f).kind = "heading", NEW Off, Off \in [Nat -> Nat], Remaining(f, Off),
           NEW p, NEW q, p = PartOf(f), q = f.next
    PROVE  OwnNext(f, Off, p, q)
<1>1. /\ p \in Parts(f.doc) /\ q \in DOMAIN f.doc.parts[p] /\ q \in Nat \ {0}
      /\ f.doc.parts[p] \in Seq(Site) /\ Len(f.doc.parts[p]) \in Nat
      /\ DOMAIN f.doc.parts[p] = 1..Len(f.doc.parts[p]) /\ Parts(f.doc) = 0..Len(f.doc.source)
      /\ Len(f.doc.source) \in Nat
  <2>1. IsDoc(f.doc) /\ f.next \in Nat \ {0}
    BY DEF IsFrame
  <2>2. f.parts # << >> /\ q <= Len(f.doc.parts[p])
    BY DEF On
  <2>3. p \in Parts(f.doc)
    BY <2>2, WalkFacts
  <2>4. /\ f.doc.parts[p] \in Seq(Site) /\ Len(f.doc.parts[p]) \in Nat
        /\ DOMAIN f.doc.parts[p] = 1..Len(f.doc.parts[p]) /\ Parts(f.doc) = 0..Len(f.doc.source)
        /\ Len(f.doc.source) \in Nat
    BY <2>1, <2>3, UsedParts
  <2>5. q \in 1..Len(f.doc.parts[p])
    BY SMTT(30), <2>1, <2>2, <2>4
  <2> QED BY <2>1, <2>3, <2>4, <2>5
<1>2. f.doc.parts[p][q].kind = "heading"
  BY DEF SiteOf
<1>3. PICK r, s, R : /\ r = Rank(f.doc, p, q) /\ s = Rank(f.doc, p, q - 1) /\ R = Reached(f, Off)
  OBVIOUS
<1>4. r = s + 1 /\ s \in Nat
  <2>3. q \in Nat \ {0}
    BY <1>1
  <2>1. q - 1 \in Nat /\ (q - 1) + 1 = q
    BY <2>3
  <2>2. /\ Rank(f.doc, p, q - 1) \in Nat
        /\ f.doc.parts[p][(q - 1) + 1].kind = "heading" =>
               Rank(f.doc, p, (q - 1) + 1) = Rank(f.doc, p, q - 1) + 1
    BY <2>1, RankFacts
  <2> QED BY <1>2, <1>3, <2>1, <2>2
<1>5. r \in 1..Len(f.slots[p])
  <2>1. Rank(f.doc, p, q) \in 1..Rank(f.doc, p, Len(f.doc.parts[p]))
    <3>1. q <= Len(f.doc.parts[p])
      BY <1>1
    <3> QED BY <1>1, <1>2, <3>1, RankOfHeading
  <2> QED BY <1>1, <1>3, <2>1 DEF Full
<1>6. R = Off[p] + s
  BY <1>3 DEF Reached
<1>7. Off[p] \in Nat /\ R \in Nat
  <2>1. p \in Nat
    BY <1>1
  <2>2. Off[p] \in Nat
    BY <2>1
  <2> QED BY <1>4, <1>6, <2>2
<1>8. Off[p] + r = R + 1 /\ Off[p] + r > R /\ (Off[p] + r) - R = 1
  BY <1>4, <1>6, <1>7
<1>9. (Off[p] + r) - R <= Len(f.ids) /\ f.ids[(Off[p] + r) - R] = f.slots[p][r]
  BY <1>1, <1>3, <1>5, <1>8 DEF Remaining
<1>10. f.ids \in Seq(Id)
  BY DEF IsFrame
<1>11. f.ids # << >> /\ Head(f.ids) = f.slots[p][r]
  <2>1. 1 <= Len(f.ids) /\ f.ids[1] = f.slots[p][r]
    BY <1>8, <1>9
  <2> QED BY <1>10, <2>1
<1> QED BY <1>3, <1>4, <1>7, <1>8, <1>11 DEF OwnNext

\* A list without its first.
Dropped(rest, s) == Len(rest) = Len(s) - 1 /\ \A i \in 1..(Len(s) - 1) : rest[i] = s[i + 1]

LEMMA DroppedOf ==
    ASSUME NEW s \in Seq(Id), s # << >>
    PROVE  Dropped(Tail(s), s)
BY RestOf DEF Dropped

\* Some arithmetic of places in a list.
LEMMA PlaceInList ==
    ASSUME NEW o \in Nat, NEW len \in Nat, NEW r \in 1..len, NEW R \in Nat, o + r > R + 1
    PROVE  /\ o + r > R /\ ((o + r) - (R + 1)) + 1 = (o + r) - R
           /\ \A all \in Nat : (o + r) - R <= all =>
                 (o + r) - (R + 1) \in 1..(all - 1) /\ (o + r) - (R + 1) <= all - 1
OBVIOUS

\* The numbers still to come move up by one.
LEMMA RemainingShifts ==
    ASSUME NEW f, IsFrame(f), NEW Off, Off \in [Nat -> Nat], Remaining(f, Off), Reached(f, Off) \in Nat,
           NEW new, IsFrame(new), new.slots = f.slots, Parts(new.doc) = Parts(f.doc),
           Reached(new, Off) = Reached(f, Off) + 1, f.ids # << >>, Dropped(new.ids, f.ids)
    PROVE  Remaining(new, Off)
<1>1. PICK R : R = Reached(f, Off)
  OBVIOUS
<1>2. f.ids \in Seq(Id)
  BY DEF IsFrame
<1>3. /\ Len(f.ids) \in Nat \ {0} /\ Len(new.ids) = Len(f.ids) - 1
      /\ \A i \in 1..(Len(f.ids) - 1) : new.ids[i] = f.ids[i + 1]
  <2>1. Len(f.ids) \in Nat \ {0}
    BY SMTT(30), <1>2
  <2> QED BY <2>1 DEF Dropped
<1>4. SUFFICES ASSUME NEW n \in Parts(f.doc), NEW r \in 1..Len(f.slots[n]), Off[n] + r > R + 1
               PROVE  /\ (Off[n] + r) - (R + 1) <= Len(new.ids)
                      /\ new.ids[(Off[n] + r) - (R + 1)] = f.slots[n][r]
  <2>1. Remaining(new, Off) <=> \A n \in Parts(f.doc) : \A r \in 1..Len(f.slots[n]) :
            Off[n] + r > Reached(new, Off) =>
            /\ (Off[n] + r) - Reached(new, Off) <= Len(new.ids)
            /\ new.ids[(Off[n] + r) - Reached(new, Off)] = f.slots[n][r]
    BY DEF Remaining
  <2>2. Reached(new, Off) = R + 1
    BY <1>1
  <2> QED BY <1>4, <2>1, <2>2
<1>5. PICK o, len : o = Off[n] /\ len = Len(f.slots[n])
  OBVIOUS
<1>6. o \in Nat /\ len \in Nat /\ r \in 1..len /\ R \in Nat
  <2>1. IsDoc(f.doc)
    BY DEF IsFrame
  <2>2. Parts(f.doc) = 0..Len(f.doc.source) /\ Len(f.doc.source) \in Nat
    BY <2>1, UsedParts
  <2>3. n \in Nat
    BY <2>2
  <2>4. Off[n] \in Nat
    BY <2>3
  <2>5. Len(f.slots[n]) \in Nat
    BY SlotLengths
  <2> QED BY <1>1, <1>5, <2>4, <2>5
<1>7. /\ o + r > R /\ ((o + r) - (R + 1)) + 1 = (o + r) - R
      /\ \A all \in Nat : (o + r) - R <= all =>
            (o + r) - (R + 1) \in 1..(all - 1) /\ (o + r) - (R + 1) <= all - 1
  <2>1. o + r > R + 1
    BY <1>4, <1>5
  <2> QED BY <1>6, <2>1, PlaceInList
<1>8. (o + r) - R <= Len(f.ids) /\ f.ids[(o + r) - R] = f.slots[n][r]
  BY <1>1, <1>5, <1>7 DEF Remaining
<1>9. (o + r) - (R + 1) \in 1..(Len(f.ids) - 1) /\ (o + r) - (R + 1) <= Len(f.ids) - 1
  BY <1>3, <1>7, <1>8
<1>10. new.ids[(o + r) - (R + 1)] = f.ids[(o + r) - R]
  BY <1>3, <1>7, <1>9
<1> QED BY <1>3, <1>5, <1>8, <1>9, <1>10

\* Nothing of the list is taken at a site that is no heading.
LEMMA RemainingStays ==
    ASSUME NEW f, NEW Off, Remaining(f, Off), NEW new, new.slots = f.slots, new.doc = f.doc,
           new.ids = f.ids, Reached(new, Off) = Reached(f, Off)
    PROVE  Remaining(new, Off)
BY DEF Remaining

\* To the next part: its numbers come next in the list.
LEMMA WritingLeaves ==
    ASSUME NEW f, IsFrame(f), f.job = "write", Writing(f), NEW new, IsFrame(new), Leaves(f, new)
    PROVE  Writing(new)
<1>1. /\ new.doc = f.doc /\ new.ids = f.ids /\ new.slots = f.slots /\ new.job = "write"
      /\ new.parts = Tail(f.parts) /\ new.next = 1 /\ f.parts # << >>
  BY DEF Leaves, IsFrame, Fields
<1>2. OnWalk(f) /\ IsDoc(f.doc) /\ Full(f) /\ Sound(f.doc) /\ Open(f.doc) /\ Fresh(f, Blanks(f.doc) \ Walks(f))
  BY DEF Writing, IsFrame
<1>3. ~Skips(f)
  BY DEF Skips
<1>4. /\ OnWalk(new) /\ Behind(new) = Behind(f) + 1 /\ Ord(new) = Ord(f)
      /\ \A n \in Parts(f.doc) : Progress(new, n) = Progress(f, n)
  BY <1>2, <1>3, LeavingKeeps
<1>5. Walks(new) = Walks(f)
  BY <1>1, <1>2, <1>4, UsedParts DEF Walks
<1>6. Full(new) /\ Fresh(new, Blanks(new.doc) \ Walks(new))
  BY <1>1, <1>2, <1>5 DEF Full, Fresh, Slot
<1>7. PICK Off : Offsets(f, Off, Len(Ord(f))) /\ Remaining(f, Off)
  BY <1>1 DEF Writing
<1>8. Offsets(new, Off, Len(Ord(new)))
  BY <1>1, <1>4, <1>7 DEF Offsets
<1>9. PICK b : b = Behind(f)
  OBVIOUS
<1>10. /\ b \in 0..(Len(Ord(f)) - 1) /\ b \in Nat /\ b \in Parts(f.doc) /\ PartOf(f) = b
  <2>1. /\ Parts(f.doc) = 0..(Len(Ord(f)) - 1) /\ PartOf(f) = Behind(f) /\ PartOf(f) \in Parts(f.doc)
        /\ Len(Ord(f)) \in Nat \ {0}
    BY <1>1, <1>2, ByLabel
  <2> QED BY <1>9, <2>1
<1>11. Reached(f, Off) = Off[b + 1]
  <2>1. f.next - 1 = Len(f.doc.parts[b])
    <3>1. ~On(f) /\ f.next <= Len(f.doc.parts[b]) + 1 /\ f.next \in Nat
      BY <1>1, <1>2, <1>3, <1>10 DEF Leaves, OnWalk, IsFrame
    <3>2. Len(f.doc.parts[b]) \in Nat
      BY <1>2, <1>10, UsedParts
    <3>3. ~(f.next <= Len(f.doc.parts[b]))
      BY <1>1, <1>10, <3>1 DEF On
    <3> QED BY <3>1, <3>2, <3>3
  <2>2. Len(f.slots[b]) = Rank(f.doc, b, Len(f.doc.parts[b]))
    BY <1>2, <1>10 DEF Full
  <2>3. Off[b + 1] = Off[b] + Len(f.slots[b])
    BY <1>7, <1>10 DEF Offsets
  <2> QED BY <1>10, <2>1, <2>2, <2>3 DEF Reached
<1>12. new.parts # << >> => Reached(new, Off) = Off[b + 1]
  <2>1. SUFFICES ASSUME new.parts # << >>
                 PROVE  Reached(new, Off) = Off[b + 1]
    OBVIOUS
  <2>2. PartOf(new) = b + 1
    BY <1>1, <1>4, <1>9, <2>1, ByLabel
  <2>3. PICK z : z = 0
    OBVIOUS
  <2>4. z \in Nat /\ new.next - 1 = z
    BY <1>1, <2>3
  <2>5. Rank(new.doc, b + 1, 0) = 0
    BY <2>4, RankFacts
  <2>6. b + 1 \in Nat /\ Off \in [Nat -> Nat]
    BY SMTT(30), <1>7, <1>10 DEF Offsets
  <2>7. Off[b + 1] \in Nat
    BY <2>6
  <2> QED BY <2>2, <2>3, <2>4, <2>5, <2>7 DEF Reached
<1>13. new.parts # << >> => Remaining(new, Off)
  BY <1>1, <1>7, <1>11, <1>12, RemainingStays
<1>14. \E O : Offsets(new, O, Len(Ord(new))) /\ (new.parts # << >> => Remaining(new, O))
  BY <1>8, <1>13
<1> QED BY <1>1, <1>2, <1>4, <1>6, <1>14 DEF Writing

\* Where no heading is in a closed container, a walk meets none there.
LEMMA OpenOnTop ==
    ASSUME NEW f, IsFrame(f), Open(f.doc), On(f), SiteOf(f).kind = "heading"
    PROVE  SiteOf(f).within # "closed"
<1>1. IsDoc(f.doc) /\ f.parts # << >> /\ f.next <= Len(f.doc.parts[PartOf(f)]) /\ f.next \in Nat \ {0}
  BY DEF IsFrame, On
<1>2. PartOf(f) \in Parts(f.doc)
  BY <1>1, RestOf DEF IsFrame, PartOf
<1>3. DOMAIN f.doc.parts[PartOf(f)] = 1..Len(f.doc.parts[PartOf(f)]) /\ Len(f.doc.parts[PartOf(f)]) \in Nat
  BY <1>1, <1>2, UsedParts
<1>4. f.next \in DOMAIN f.doc.parts[PartOf(f)]
  BY <1>1, <1>3
<1> QED BY <1>2, <1>4 DEF Open, SiteOf

\* Past a site that is no heading.
LEMMA WritingPasses ==
    ASSUME NEW f, IsFrame(f), f.job = "write", Writing(f), NEW new, IsFrame(new), Passes(f, new)
    PROVE  Writing(new)
<1>11. /\ On(f) /\ ~Stops("write", SiteOf(f)) /\ new.doc = f.doc /\ new.ids = f.ids
       /\ new.slots = f.slots /\ new.job = "write" /\ new.parts = f.parts /\ new.next = f.next + 1
  BY DEF Passes, IsFrame, Fields
<1>12. SiteOf(f).kind # "heading"
  BY <1>11, OpenOnTop DEF Writing, Stops
<1>1. /\ On(f) /\ SiteOf(f).kind # "heading" /\ new.doc = f.doc /\ new.ids = f.ids
      /\ new.slots = f.slots /\ new.job = "write" /\ new.parts = f.parts /\ new.next = f.next + 1
  BY <1>11, <1>12
<1>2. OnWalk(f) /\ IsDoc(f.doc) /\ Full(f) /\ Sound(f.doc) /\ Open(f.doc) /\ Fresh(f, Blanks(f.doc) \ Walks(f))
  BY DEF Writing, IsFrame
<1>3. PICK place : place = <<PartOf(f), f.next>>
  OBVIOUS
<1>4. /\ OnWalk(new) /\ Walks(f) \subseteq Walks(new)
  BY <1>1, <1>2, <1>3, WalkSteps
<1>5. Full(new) /\ Fresh(new, Blanks(new.doc) \ Walks(new))
  BY <1>1, <1>2, <1>4 DEF Full, Fresh, Slot
<1>6. PICK Off : Offsets(f, Off, Len(Ord(f))) /\ (f.parts # << >> => Remaining(f, Off))
  BY DEF Writing
<1>7. Offsets(new, Off, Len(Ord(new)))
  BY <1>1, <1>6 DEF Offsets, Ord
<1>8. Reached(new, Off) = Reached(f, Off)
  <2>1. PICK p, q : p = PartOf(f) /\ q = f.next
    OBVIOUS
  <2>2. q \in Nat \ {0} /\ PartOf(new) = p /\ f.doc.parts[p][q].kind # "heading"
    BY <1>1, <2>1 DEF IsFrame, PartOf, SiteOf
  <2>3. q - 1 \in Nat /\ (q - 1) + 1 = q /\ (q + 1) - 1 = q
    BY <2>2
  <2>4. f.doc.parts[p][(q - 1) + 1].kind # "heading" =>
            Rank(f.doc, p, (q - 1) + 1) = Rank(f.doc, p, q - 1)
    BY <2>3, RankFacts
  <2>5. Rank(f.doc, p, q) = Rank(f.doc, p, q - 1)
    BY <2>2, <2>3, <2>4
  <2> QED BY <1>1, <2>1, <2>2, <2>3, <2>5 DEF Reached
<1>9. new.parts # << >> => Remaining(new, Off)
  BY <1>1, <1>6, <1>8, RemainingStays
<1>10. \E O : Offsets(new, O, Len(Ord(new))) /\ (new.parts # << >> => Remaining(new, O))
  BY <1>7, <1>9
<1> QED BY <1>1, <1>2, <1>4, <1>5, <1>10 DEF Writing

\* A heading takes its own number, or leaves it.
LEMMA WritingStamps ==
    ASSUME NEW f, IsFrame(f), f.job = "write", Writing(f), NEW new, IsFrame(new), Stamps(f, new)
    PROVE  Writing(new)
<1>1. On(f) /\ SiteOf(f).kind = "heading" /\ f.parts # << >>
  BY DEF Stamps, Stands, On
<1>2. OnWalk(f) /\ IsDoc(f.doc) /\ Full(f) /\ Sound(f.doc) /\ Open(f.doc) /\ Fresh(f, Blanks(f.doc) \ Walks(f))
  BY DEF Writing, IsFrame
<1>3. PICK p, q, place : p = PartOf(f) /\ q = f.next /\ place = <<p, q>>
  OBVIOUS
<1>13. p = PartOf(f) /\ q = f.next /\ place = <<PartOf(f), f.next>>
  BY <1>3
<1>4. PICK Off : Offsets(f, Off, Len(Ord(f))) /\ Remaining(f, Off)
  BY <1>1 DEF Writing
<1>5. Off \in [Nat -> Nat]
  BY <1>4 DEF Offsets
<1>6. /\ Rank(f.doc, p, q) = Rank(f.doc, p, q - 1) + 1
      /\ Reached(f, Off) \in Nat /\ Off[p] + Rank(f.doc, p, q) = Reached(f, Off) + 1
      /\ f.ids # << >> /\ Head(f.ids) = f.slots[p][Rank(f.doc, p, q)]
  <2>1. OwnNext(f, Off, p, q)
    BY <1>1, <1>2, <1>13, <1>4, <1>5, OwnNumberNext
  <2> QED BY <2>1 DEF OwnNext
<1>7. p \in Parts(f.doc) /\ q \in DOMAIN f.doc.parts[p] /\ f.doc.parts[p][q].kind = "heading" /\ q \in Nat
      /\ q <= Len(f.doc.parts[p])
  <2>1. p \in Parts(f.doc)
    BY <1>1, <1>2, <1>13, WalkFacts
  <2>2. DOMAIN f.doc.parts[p] = 1..Len(f.doc.parts[p]) /\ Len(f.doc.parts[p]) \in Nat
    BY <1>2, <2>1, UsedParts
  <2>3. q \in Nat \ {0} /\ q <= Len(f.doc.parts[p])
    BY <1>1, <1>3 DEF On, IsFrame
  <2> QED BY <1>1, <1>3, <2>1, <2>2, <2>3 DEF SiteOf
<1>8. Slot(f, place) = Head(f.ids) /\ SiteAt(f.doc, place) = f.doc.parts[p][q]
  BY <1>3, <1>6 DEF Slot, SiteAt
<1>9. Dropped(Tail(f.ids), f.ids)
  BY <1>6, DroppedOf DEF IsFrame
\* What any stamping step leaves the way it is.
<1>10. ASSUME new.job = "write", new.parts = f.parts, new.next = f.next + 1, new.slots = f.slots,
              new.ids = Tail(f.ids), new.doc.source = f.doc.source, new.doc.refs = f.doc.refs,
              Parts(new.doc) = Parts(f.doc), Used(new.doc) = Used(f.doc),
              \A m \in Parts(f.doc) : Len(new.doc.parts[m]) = Len(f.doc.parts[m]),
              \A m \in Parts(f.doc) : \A j \in Nat : j <= Len(f.doc.parts[m]) =>
                  Rank(new.doc, m, j) = Rank(f.doc, m, j),
              Sound(new.doc), Open(new.doc), Fresh(new, Blanks(new.doc) \ Walks(new))
       PROVE  Writing(new)
  <2>1. OnWalk(new)
    BY <1>1, <1>2, <1>3, <1>10, WalkSteps
  <2>2. Full(new)
    <3>1. \A m \in Parts(f.doc) : Len(f.doc.parts[m]) \in Nat
      BY <1>2, UsedParts
    <3>2. \A m \in Parts(f.doc) :
              Rank(new.doc, m, Len(f.doc.parts[m])) = Rank(f.doc, m, Len(f.doc.parts[m]))
      <4> TAKE m \in Parts(f.doc)
      <4>1. Len(f.doc.parts[m]) \in Nat /\ Len(f.doc.parts[m]) <= Len(f.doc.parts[m])
        BY <3>1
      <4> QED BY <1>10, <4>1
    <3> QED BY <1>2, <1>10, <3>2 DEF Full
  <2>3. Ord(new) = Ord(f)
    BY <1>10 DEF Ord, Order
  <2>4. Offsets(new, Off, Len(Ord(new)))
    BY <1>4, <1>10, <2>3 DEF Offsets
  <2>5. Reached(new, Off) = Reached(f, Off) + 1
    <3>1. PartOf(new) = p /\ new.next - 1 = q
      BY <1>3, <1>7, <1>10 DEF PartOf
    <3>2. Rank(new.doc, p, q) = Rank(f.doc, p, q)
      BY <1>7, <1>10
    <3> QED BY <1>6, <3>1, <3>2 DEF Reached
  <2>6. Remaining(new, Off)
    BY <1>4, <1>5, <1>6, <1>9, <1>10, <2>5, RemainingShifts
  <2>7. \E O : Offsets(new, O, Len(Ord(new))) /\ (new.parts # << >> => Remaining(new, O))
    BY <2>4, <2>6
  <2> QED BY <1>10, <2>1, <2>2, <2>7 DEF Writing
<1>11. CASE f.ids # << >> /\ PartOf(f) \in Used(f.doc) /\ SiteOf(f).id = NoId
  <2>1. new = [f EXCEPT !.next = @ + 1, !.ids = Tail(@), !.doc.parts[PartOf(f)][f.next].id = Head(f.ids)]
    BY <1>11 DEF Stamps
  <2>2. PICK id : id = Head(f.ids)
    OBVIOUS
  <2>3. /\ new.job = "write" /\ new.parts = f.parts /\ new.next = f.next + 1 /\ new.slots = f.slots
        /\ new.ids = Tail(f.ids) /\ new.doc = [f.doc EXCEPT !.parts[p][q].id = id]
    BY <1>3, <2>1, <2>2 DEF IsFrame, Fields
  <2>4. p \in Used(f.doc) /\ f.doc.parts[p][q].id = NoId
    BY <1>3, <1>11 DEF SiteOf
  <2>5. /\ new.doc.source = f.doc.source /\ new.doc.refs = f.doc.refs /\ Parts(new.doc) = Parts(f.doc)
        /\ Used(new.doc) = Used(f.doc) /\ Places(new.doc) = Places(f.doc)
        /\ \A m \in Parts(f.doc) : Len(new.doc.parts[m]) = Len(f.doc.parts[m])
        /\ \A m \in Parts(f.doc) : \A j \in Nat : j <= Len(f.doc.parts[m]) =>
               Rank(new.doc, m, j) = Rank(f.doc, m, j)
        /\ Explicit("seed", new.doc) \subseteq Explicit("seed", f.doc) \cup {id}
        /\ f.doc.parts[p][q].id = NoId => Blanks(new.doc) \subseteq Blanks(f.doc)
        /\ Open(new.doc)
    <3>1. PICK doc, d : doc = f.doc /\ d = new.doc
      OBVIOUS
    <3>2. /\ IsDoc(doc) /\ p \in Parts(doc) /\ q \in DOMAIN doc.parts[p]
          /\ doc.parts[p][q].kind = "heading" /\ d = [doc EXCEPT !.parts[p][q].id = id]
      BY <1>2, <1>7, <2>3, <3>1
    <3>3. Restamped(doc, d, p, q, id)
      BY <3>2, StampChanges
    <3> QED BY <1>2, <3>1, <3>3 DEF Restamped
  <2>6. /\ place \notin Walks(f) /\ Walks(new) = Walks(f) \cup {place} /\ place \in Places(f.doc)
    <3>1. new.job = f.job /\ new.parts = f.parts /\ new.next = f.next + 1 /\ f.job # "gather"
      BY <2>3
    <3>2. /\ new.doc.source = f.doc.source /\ new.doc.refs = f.doc.refs
          /\ \A m \in Parts(f.doc) : Len(new.doc.parts[m]) = Len(f.doc.parts[m])
      BY <2>5
    <3>3. /\ place \notin Walks(f)
          /\ Walks(new) = IF PartOf(f) \in Used(f.doc) THEN Walks(f) \cup {place} ELSE Walks(f)
          /\ PartOf(f) \in Used(f.doc) => place \in Places(f.doc)
      BY <1>1, <1>2, <1>13, <3>1, <3>2, WalkSteps
    <3> QED BY <1>13, <2>4, <3>3
  <2>7. place \in Blanks(f.doc) \ Walks(f)
    BY <1>7, <1>8, <2>4, <2>6 DEF Blanks
  <2>8. id \notin Explicit("seed", f.doc)
    BY <1>2, <1>8, <2>2, <2>7 DEF Fresh
  <2>9. Sound(new.doc)
    BY <1>2, <1>7, <2>3, <2>8, SoundStamps
  <2>10. \A x \in Blanks(new.doc) \ Walks(new) :
             /\ x \in Blanks(f.doc) \ Walks(f) /\ x # place /\ Slot(new, x) = Slot(f, x)
    <3> TAKE x \in Blanks(new.doc) \ Walks(new)
    <3>1. x \in Blanks(f.doc) \ Walks(f) /\ x # place
      BY <2>4, <2>5, <2>6
    <3>2. x \in Places(f.doc)
      BY <3>1 DEF Blanks
    <3>3. PICK n \in Used(f.doc) : \E k \in DOMAIN f.doc.parts[n] : x = <<n, k>>
      BY <3>2 DEF Places
    <3>4. PICK k \in DOMAIN f.doc.parts[n] : x = <<n, k>>
      BY <3>3
    <3>5. x[1] = n /\ x[2] = k /\ n \in Parts(f.doc)
      BY <1>2, <3>4, UsedParts
    <3>6. k \in Nat /\ k <= Len(f.doc.parts[n])
      <4>1. DOMAIN f.doc.parts[n] = 1..Len(f.doc.parts[n]) /\ Len(f.doc.parts[n]) \in Nat
        BY <1>2, <3>5, UsedParts
      <4> QED BY <4>1
    <3>7. Rank(new.doc, n, k) = Rank(f.doc, n, k)
      BY <2>5, <3>5, <3>6
    <3> QED BY <2>3, <3>1, <3>5, <3>7 DEF Slot
  <2>11. /\ \A x \in Blanks(f.doc) \ Walks(f) : Slot(f, x) \notin Explicit("seed", f.doc)
         /\ \A x, y \in Blanks(f.doc) \ Walks(f) : Slot(f, x) = Slot(f, y) => x = y
    BY <1>2 DEF Fresh
  <2>12. \A x \in Blanks(new.doc) \ Walks(new) : Slot(new, x) \notin Explicit("seed", new.doc)
    <3> TAKE x \in Blanks(new.doc) \ Walks(new)
    <3>1. Slot(f, x) # id
      BY <1>8, <2>2, <2>7, <2>10, <2>11
    <3> QED BY <2>5, <2>10, <2>11, <3>1
  <2>13. \A x, y \in Blanks(new.doc) \ Walks(new) : Slot(new, x) = Slot(new, y) => x = y
    BY <2>10, <2>11
  <2>14. Fresh(new, Blanks(new.doc) \ Walks(new))
    BY <2>12, <2>13 DEF Fresh
  <2> QED BY <1>10, <2>3, <2>5, <2>9, <2>14
<1>12. CASE ~(f.ids # << >> /\ PartOf(f) \in Used(f.doc) /\ SiteOf(f).id = NoId)
  <2>1. new = [f EXCEPT !.next = @ + 1, !.ids = IF @ = << >> THEN @ ELSE Tail(@)]
    BY <1>12 DEF Stamps
  <2>2. /\ new.job = "write" /\ new.parts = f.parts /\ new.next = f.next + 1 /\ new.slots = f.slots
        /\ new.ids = Tail(f.ids) /\ new.doc = f.doc
    BY <1>6, <2>1 DEF IsFrame, Fields
  <2>3. Walks(f) \subseteq Walks(new)
    BY <1>1, <1>2, <1>3, <2>2, WalkSteps
  <2>4. Fresh(new, Blanks(new.doc) \ Walks(new))
    BY <1>2, <2>2, <2>3 DEF Fresh, Slot
  <2> QED BY <1>2, <1>10, <2>2, <2>4
<1> QED BY <1>11, <1>12

LEMMA WritingMoves ==
    ASSUME NEW f, IsFrame(f), f.job = "write", Writing(f), NEW new, IsFrame(new), Moves(f, new)
    PROVE  Writing(new) /\ new.job = "write"
<1>1. Leaves(f, new) \/ Passes(f, new) \/ Stamps(f, new)
  BY DEF Moves, Numbers, Collects, Gathers, Installs, ShowsHeading, ShowsElement, Generates, Asks, Reserves,
         ShowsCitation, Hosts, Stands
<1>2. new.job = "write"
  BY <1>1 DEF Leaves, Passes, Stamps, IsFrame, Fields
<1> QED BY <1>1, <1>2, WritingLeaves, WritingPasses, WritingStamps

-----------------------------------------------------------------------------
(* The job of every moment keeps the elements apart. *)

Sounding(f) ==
    /\ f.job = "seed" => Sound(f.doc) /\ Citing(f)
    /\ f.job = "render" => Showing(f)
    /\ f.job = "stamp" => Stamping(f)
    /\ f.job = "gather" => Gathering(f)
    /\ f.job = "write" => Writing(f)

LEMMA SoundingBegins ==
    ASSUME NEW doc, Sound(doc), NEW job \in {"stamp", "index", "seed"}, job = "stamp" => Open(doc),
           NEW f, f = Frame(job, doc), IsFrame(f)
    PROVE  Sounding(f)
<1>1. f.job = job /\ f.doc = doc
  BY DEF Frame
<1>2. job = "seed" => Citing(f)
  BY CitingBegins
<1>3. job = "stamp" => Stamping(f)
  BY StampingBegins
<1> QED BY <1>1, <1>2, <1>3 DEF Sounding

LEMMA SoundingMoves ==
    ASSUME NEW f, IsFrame(f), Apart(f), Foretelling(f), Sounding(f), NEW new, IsFrame(new), Moves(f, new)
    PROVE  Sounding(new)
<1>1. CASE f.job = "seed"
  <2>1. OnWalk(f) /\ Citing(f) /\ Sound(f.doc)
    BY <1>1 DEF Foretelling, Numbering, Seeding, Sounding
  <2>2. CASE Installs(f, new)
    <3>1. new.job = "render"
      BY <2>2 DEF Installs, Turns2, IsFrame, Fields
    <3>2. Showing(new)
      BY <1>1, <2>1, <2>2, ShowingBegins
    <3> QED BY <3>1, <3>2 DEF Sounding
  <2>3. CASE ~Installs(f, new)
    <3>1. new.job = "seed" /\ new.doc = f.doc
      BY <1>1, <2>3 DEF Moves, Leaves, Passes, Numbers, Collects, Gathers, Stamps, ShowsHeading, ShowsElement,
                        Generates, Asks, Reserves, ShowsCitation, Hosts, Stands, IsFrame, Fields
    <3>2. Citing(new)
      BY <1>1, <2>1, <3>1, CitingMoves
    <3> QED BY <2>1, <3>1, <3>2 DEF Sounding
  <2> QED BY <2>2, <2>3
<1>2. CASE f.job = "render"
  <2>1. new.job = "render"
    BY ZenonT(50), <1>2 DEF Moves, Leaves, Passes, Numbers, Collects, Gathers, Stamps, Installs, ShowsHeading, ShowsElement,
                Generates, Asks, Reserves, ShowsCitation, Hosts, Stands, IsFrame, Fields
  <2>2. Rendering(f) /\ Showing(f)
    BY <1>2 DEF Foretelling, Sounding
  <2>3. Showing(new)
    BY <1>2, <2>2, ShowingMoves
  <2> QED BY <2>1, <2>3 DEF Sounding
<1>3. CASE f.job = "stamp"
  <2>1. Stamping(f)
    BY <1>3 DEF Sounding
  <2>2. CASE Gathers(f, new)
    <3>1. f.parts = << >> /\ new = Turns2(f, "gather")
      BY <1>3, <2>2 DEF Gathers
    <3>2. new.job = "gather"
      BY <3>1 DEF Turns2, IsFrame, Fields
    <3>3. Gathering(new)
      BY <1>3, <2>1, <3>1, GatheringBegins
    <3> QED BY <3>2, <3>3 DEF Sounding
  <2>3. CASE ~Gathers(f, new)
    <3>1. new.job = "stamp"
      BY <1>3, <2>3 DEF Moves, Leaves, Passes, Numbers, Collects, Stamps, Installs, ShowsHeading, ShowsElement,
                        Generates, Asks, Reserves, ShowsCitation, Hosts, Stands, IsFrame, Fields
    <3>2. Stamping(new)
      BY <1>3, <2>1, <3>1, StampingMoves
    <3> QED BY <3>1, <3>2 DEF Sounding
  <2> QED BY <2>2, <2>3
<1>4. CASE f.job = "gather"
  <2>1. Gathering(f)
    BY <1>4 DEF Sounding
  <2>2. Gathers(f, new)
    BY <1>4 DEF Moves, Leaves, Passes, On, Numbers, Collects, Stamps, Installs, ShowsHeading, ShowsElement,
                Generates, Asks, Reserves, ShowsCitation, Hosts, Stands, Skips, Stops
  <2>3. CASE f.parts = << >>
    <3>1. new = Turns2(f, "write")
      BY <1>4, <2>2, <2>3 DEF Gathers
    <3>2. new.job = "write"
      BY <3>1 DEF Turns2, IsFrame, Fields
    <3>3. Writing(new)
      BY <1>4, <2>1, <2>3, <3>1, WritingBegins
    <3> QED BY <3>2, <3>3 DEF Sounding
  <2>4. CASE f.parts # << >>
    <3>1. new = [f EXCEPT !.ids = @ \o f.slots[PartOf(f)], !.parts = Tail(@)]
      BY <1>4, <2>2, <2>4 DEF Gathers
    <3>2. /\ new.job = "gather" /\ new.doc = f.doc /\ new.slots = f.slots /\ new.next = f.next
          /\ new.parts = Tail(f.parts) /\ new.ids = f.ids \o f.slots[PartOf(f)]
      BY <1>4, <3>1 DEF IsFrame, Fields
    <3>3. PartOf(f) \in Parts(f.doc) /\ f.ids \in Seq(Id)
      BY <2>1, <2>4, WalkFacts DEF IsFrame, Gathering
    <3>4. f.slots[PartOf(f)] \in Seq(Id)
      BY <3>3, SlotLengths
    <3>5. Joined(new.ids, f.ids, f.slots[PartOf(f)])
      BY <3>2, <3>3, <3>4, JoinedOf
    <3>6. Gathering(new)
      BY <1>4, <2>1, <2>4, <3>2, <3>5, GatheringGoesOn
    <3> QED BY <3>2, <3>6 DEF Sounding
  <2> QED BY <2>3, <2>4
<1>5. CASE f.job = "write"
  BY <1>5, WritingMoves DEF Sounding
<1>6. CASE f.job = "index"
  <2>1. new.job = "index"
    BY <1>6 DEF Moves, Leaves, Passes, Numbers, Collects, Gathers, Stamps, Installs, ShowsHeading, ShowsElement,
                Generates, Asks, Reserves, ShowsCitation, Hosts, Stands, IsFrame, Fields
  <2> QED BY <2>1 DEF Sounding
<1> QED BY <1>1, <1>2, <1>3, <1>4, <1>5, <1>6 DEF IsFrame

\* No heading is closed in before the parse has stamped the ids.
StillOpen == StampFirst(plan) /\ ("stamp" \in ToSet(plan) => Open(document))
ElementsApart == Sound(document) /\ StillOpen /\ \A i \in 1..Depth : Sounding(stack[i])

LEMMA StillOpenStep ==
    ASSUME IInv, StillOpen, [Next]_vars, FinishStamp => Open(Top.doc)
    PROVE  StillOpen'
<1>1. plan \in Seq({"stamp", "extend", "index", "render"})
  BY DEF IInv, TypeOK
<1>2. ASSUME plan # << >>, plan' = Tail(plan)
      PROVE  /\ StampFirst(plan')
             /\ "stamp" \in ToSet(plan') => "stamp" \in ToSet(plan) /\ Head(plan) # "extend"
  <2>1. /\ Head(plan) = plan[1] /\ Len(plan) \in Nat \ {0} /\ Len(plan') = Len(plan) - 1
        /\ plan' \in Seq({"stamp", "extend", "index", "render"})
        /\ \A i \in 1..(Len(plan) - 1) : plan'[i] = plan[i + 1]
    BY <1>1, <1>2, RestOf
  <2>2. DOMAIN plan' = 1..(Len(plan) - 1) /\ DOMAIN plan = 1..Len(plan)
    BY <1>1, <2>1
  <2>3. \A i \in DOMAIN plan' : i + 1 \in DOMAIN plan /\ plan'[i] = plan[i + 1] /\ 1 < i + 1
    BY <2>1, <2>2
  <2>4. \A i, j \in DOMAIN plan' : i < j => i + 1 < j + 1
    BY <2>2
  <2>5. StampFirst(plan')
    BY <2>3, <2>4 DEF StillOpen, StampFirst
  <2>6. "stamp" \in ToSet(plan') => "stamp" \in ToSet(plan) /\ Head(plan) # "extend"
    <3>1. SUFFICES ASSUME NEW i \in DOMAIN plan', plan'[i] = "stamp"
                   PROVE  "stamp" \in ToSet(plan) /\ Head(plan) # "extend"
      BY DEF ToSet
    <3>2. 1 \in DOMAIN plan
      BY <2>1, <2>2
    <3> QED BY <2>1, <2>3, <3>1, <3>2 DEF StillOpen, StampFirst, ToSet
  <2> QED BY <2>5, <2>6
<1>3. CASE Begin
  <2>1. plan # << >> /\ plan' = Tail(plan) /\ document' = document
    BY <1>3 DEF Begin
  <2> QED BY <1>2, <2>1 DEF StillOpen
<1>4. CASE Extend
  <2>1. plan # << >> /\ plan' = Tail(plan) /\ Head(plan) = "extend"
    BY <1>4 DEF Extend
  <2> QED BY <1>2, <2>1 DEF StillOpen
<1>5. CASE FinishStamp
  <2>1. plan' = plan /\ document' = Top.doc
    BY <1>5 DEF FinishStamp
  <2> QED BY <1>5, <2>1 DEF StillOpen
<1>6. CASE plan' = plan /\ document' = document
  BY <1>6 DEF StillOpen
<1> QED BY <1>3, <1>4, <1>5, <1>6
    DEF Next, vars, Pass, NumberHeading, CollectCitation, FinishIndex, GatherSlots, StampHeading,
        FinishSeed, ShowHeading, ShowElement, Generate, AskCitations, ReserveCitation, ShowCitation,
        Nest, EndRender, Done

LEMMA ElementsApartStep ==
    ASSUME IInv, NumbersForetold, ElementsApart, [Next]_vars
    PROVE  ElementsApart'
<1>1. IInv'
  BY InvStep
<1>2. ASSUME NEW i \in 1..Depth'
      PROVE  Sounding(stack'[i])
  <2>1. IsFrame(stack'[i])
    BY <1>1 DEF IInv, TypeOK
  <2>2. CASE i \in 1..Depth /\ stack'[i] = stack[i]
    BY <2>2 DEF ElementsApart
  <2>3. CASE i \in 1..Depth /\ Moves(stack[i], stack'[i])
    <3>1. IsFrame(stack[i]) /\ Apart(stack[i]) /\ Foretelling(stack[i]) /\ Sounding(stack[i])
      BY <2>3 DEF IInv, TypeOK, NumbersForetold, ElementsApart
    <3> QED BY <2>1, <2>3, <3>1, SoundingMoves
  <2>4. ASSUME NEW job \in {"stamp", "index", "seed"}, NEW doc, Sound(doc), job = "stamp" => Open(doc),
               stack'[i] = Frame(job, doc)
        PROVE  Sounding(stack'[i])
    BY <2>1, <2>4, SoundingBegins
  <2>5. CASE \E job \in {"stamp", "index", "seed"} :
                 stack'[i] = Frame(job, document) /\ (job = "stamp" => "stamp" \in ToSet(plan))
    BY <2>4, <2>5 DEF ElementsApart, StillOpen
  <2>6. CASE \E doc \in Inner : stack'[i] = Frame("seed", doc)
    <3>1. PICK doc \in Inner : stack'[i] = Frame("seed", doc)
      BY <2>6
    <3>2. Sound(doc)
      BY <3>1, ParsedIsSound
    <3> QED BY <2>4, <3>1, <3>2
  <2> QED BY <2>2, <2>3, <2>5, <2>6, FrameSteps
<1>4. FinishStamp => document' = Top.doc /\ Sound(Top.doc) /\ Open(Top.doc)
  <2> SUFFICES ASSUME FinishStamp
               PROVE  document' = Top.doc /\ Sound(Top.doc) /\ Open(Top.doc)
    OBVIOUS
  <2>1. Depth > 0 /\ document' = Top.doc /\ Top.job = "write"
    BY DEF FinishStamp, Ended
  <2>2. Depth \in 1..Depth
    BY <2>1, OnTop
  <2>3. Sounding(Top)
    BY <2>2 DEF ElementsApart, Top
  <2> QED BY <2>1, <2>3 DEF Sounding, Writing
<1>5. StillOpen'
  BY <1>4, StillOpenStep DEF ElementsApart
<1>3. Sound(document')
  <2>1. CASE Extend
    BY <2>1, ExtendIsSound DEF ElementsApart
  <2>2. CASE FinishStamp
    BY <1>4, <2>2
  <2>3. CASE document' = document
    BY <2>3 DEF ElementsApart
  <2> QED BY <2>1, <2>2, <2>3
      DEF Next, vars, Begin, Pass, NumberHeading, CollectCitation, FinishIndex, GatherSlots, StampHeading,
          FinishSeed, ShowHeading, ShowElement, Generate, AskCitations, ReserveCitation, ShowCitation,
          Nest, EndRender, Done
<1> QED BY <1>2, <1>3, <1>5 DEF ElementsApart, Depth

\* No two elements of a render have one id, except where the author wrote the same id
\* twice: in every reachable state, wherever the notes are used in the order of the
\* source or the parse has numbered the headings of the document.
THEOREM ShownApartHolds == Spec => []ShownApart
<1>1. Init => ElementsApart
  <2> SUFFICES ASSUME Init
               PROVE  ElementsApart
    OBVIOUS
  <2>1. document \in Document \cup Inner /\ stack = << >> /\ plan \in Plan
    BY DEF Init
  <2>2. Sound(document)
    BY <2>1, ParsedIsSound
  <2>3. StillOpen
    BY <2>1, StampedFirst DEF StillOpen, Init
  <2> QED BY <2>1, <2>2, <2>3 DEF ElementsApart, Depth
<1>2. Init => NumbersForetold
  BY DEF Init, NumbersForetold, Depth
<1>3. IInv /\ NumbersForetold /\ [Next]_vars => NumbersForetold'
  BY NumbersForetoldStep
<1>4. IInv /\ NumbersForetold /\ ElementsApart /\ [Next]_vars => ElementsApart'
  BY ElementsApartStep
<1>5. IInv /\ NumbersForetold /\ ElementsApart => ShownApart
  <2> SUFFICES ASSUME IInv, NumbersForetold, ElementsApart, NEW i \in 1..Renders,
                      InOrder(stack[i].doc) \/ Named(stack[i].doc),
                      NEW j \in DOMAIN stack[i].shown, NEW k \in DOMAIN stack[i].shown,
                      j # k, stack[i].shown[j].id = stack[i].shown[k].id
               PROVE  stack[i].shown[j].how = "authored" /\ stack[i].shown[k].how = "authored"
    BY DEF ShownApart
  <2>1. i \in 1..Depth /\ stack[i].job = "render"
    <3>1. Depth \in Nat
      BY DEF IInv, TypeOK, Depth
    <3>2. CASE Depth > 0 /\ Top.job # "render"
      BY <3>1, <3>2 DEF Renders, IInv, TypeOK
    <3>3. CASE ~(Depth > 0 /\ Top.job # "render")
      BY <3>1, <3>3 DEF Renders, Top, IInv, TypeOK
    <3> QED BY <3>2, <3>3
  <2>2. IsFrame(stack[i]) /\ Apart(stack[i]) /\ Rendering(stack[i]) /\ Showing(stack[i])
    BY <2>1 DEF IInv, TypeOK, NumbersForetold, Foretelling, ElementsApart, Sounding
  <2> QED BY <2>1, <2>2, ShowingIsApart
<1> QED BY <1>1, <1>2, <1>3, <1>4, <1>5, InvHolds, PTL DEF Spec

===============================================================================
