---------------------- MODULE IncludeReservations_proofs ----------------------
(***************************************************************************)
(* The table of claims says who carries which id, for any documents and    *)
(* any nesting, and a rejection restores it.                               *)
(*                                                                         *)
(* A table is live for a set of elements if it counts the elements that    *)
(* carry an id and names their owner; a set of elements has one table that *)
(* is live for it.  So the table after a rejection is the one before the   *)
(* child if both are live for the elements that stay, and that needs two   *)
(* facts about a journal: it has as many copies of an id as elements at    *)
(* its level carry it, and none of an id that an element below carries.    *)
(***************************************************************************)
EXTENDS IncludeReservations, FiniteSetTheorems, SequenceTheorems, TLAPS

Bearing(S, id) == {e \in S : e.id = id}

IsTable(table) == table \in [DOMAIN table -> [owner : Nat, n : Nat \ {0}]]

\* The table says of these elements who owns their ids and how many carry each.
Live(table, S) ==
    /\ IsTable(table)
    /\ \A e \in S : e.id \in DOMAIN table /\ table[e.id].owner = e.by
    /\ \A id \in DOMAIN table : table[id].n = Cardinality(Bearing(S, id))

IsElement(e) ==
    /\ e = [id |-> e.id, by |-> e.by, key |-> e.key, level |-> e.level, directive |-> e.directive]
    /\ e.by \in 0..inclusions /\ e.key \in Nat /\ e.level \in 1..Level
    /\ e.directive \in BOOLEAN

IsFrame(f) ==
    /\ f = [owner |-> f.owner, form |-> f.form, own |-> f.own, held |-> f.held,
            journal |-> f.journal, renamed |-> f.renamed, claimed |-> f.claimed,
            claiming |-> f.claiming, before |-> f.before]
    /\ f.owner \in 0..inclusions /\ f.form \in {"block", "inline"}
    /\ IsABag(f.journal) /\ f.own \subseteq Authored
    /\ f.claimed \in Nat /\ f.claiming \in BOOLEAN

Pieces(s) == {s[i] : i \in DOMAIN s}
Mark(id, first) == IsPlaceholder(id) => \E k \in first..Len(pending) : id = Placeholder(k)

Shape ==
    /\ inclusions \in 0..MaxInclusions
    /\ pending \in Seq(Authored)
    /\ phase \in {"expand", "finish", "done"}
    /\ next \in 1..(Len(pending) + 1)
    /\ frames \in Seq(Pieces(frames)) /\ frames # << >>
    /\ \A i \in 1..Level : IsFrame(frames[i])
    /\ IsFiniteSet(elems) /\ \A e \in elems : IsElement(e)
    /\ IsTable(used) /\ \A id \in DOMAIN used : used[id].owner <= inclusions
    /\ phase = "expand" => next = 1 /\ names = << >>

\* Owners grow with the level; the root claims before anything is included.
Owners ==
    /\ frames[1].owner = 0
    /\ \A i, j \in 1..Level : i < j => frames[i].owner < frames[j].owner
    /\ frames[1].claiming => inclusions = 0 /\ Level = 1

\* An element is by the frame at its level or by one merged into it.
Places ==
    /\ \A e, f \in elems : e.by = f.by /\ e.key = f.key => e = f
    /\ \A e \in elems : frames[e.level].owner <= e.by
    /\ \A e \in elems : \A i \in 1..Level :
         /\ e.level < i => e.by < frames[i].owner
         /\ e.by = frames[i].owner => e.level = i /\ e.key < frames[i].claimed
    /\ \A e \in elems : e.directive => e.by = frames[e.level].owner
    /\ \A e \in elems : Mark(e.id, 1)

Below(i) == {e \in elems : e.level < i}

\* What a journal gives back is all there is at its level and nothing below.
Journals ==
    /\ \A e \in elems : e.level > 1 => used[e.id].n <= Copies(e.id, frames[e.level].journal)
    /\ \A i \in 2..Level : \A e \in Below(i) : Copies(e.id, frames[i].journal) = 0

Expansion ==
    phase = "expand" =>
      /\ Owners /\ Places /\ Journals
      /\ Live(used, elems)
      /\ \A i \in 2..Level : frames[i].form = "inline" => Live(frames[i].before, Below(i))

\* The names given so far, and the placeholders still to come.
Naming ==
    phase # "expand" =>
      /\ Level = 1 /\ IdsApart
      /\ \A e \in elems : Mark(e.id, next)
      /\ names \in Seq(Pieces(names)) /\ Len(names) = next - 1
      /\ \A k \in 1..(next - 1) : names[k] # pending[k] => pending[k] \in Taken
      /\ phase = "done" => next = Len(pending) + 1

IInv == Shape /\ Expansion /\ Naming

-----------------------------------------------------------------------------
(* Bags of ids *)

LEMMA CopiesType ==
    ASSUME NEW B, IsABag(B), NEW x
    PROVE  Copies(x, B) \in Nat
  BY DEF Copies, IsABag, BagIn, BagToSet

LEMMA EmptyCopies ==
    ASSUME NEW x
    PROVE  Copies(x, EmptyBag) = 0 /\ IsABag(EmptyBag)
  BY DEF Copies, IsABag, BagIn, BagToSet, EmptyBag, SetToBag

LEMMA OneCopy ==
    ASSUME NEW x, NEW y
    PROVE  Copies(x, SetToBag({y})) = IF x = y THEN 1 ELSE 0
  BY DEF Copies, BagIn, BagToSet, SetToBag

LEMMA OneMore ==
    ASSUME NEW B, IsABag(B), NEW y
    PROVE  /\ IsABag(B (+) SetToBag({y}))
           /\ \A x : Copies(x, B (+) SetToBag({y})) = Copies(x, B) + (IF x = y THEN 1 ELSE 0)
  BY DEF Copies, IsABag, BagIn, BagToSet, SetToBag, (+)

LEMMA Together ==
    ASSUME NEW B, IsABag(B), NEW C, IsABag(C)
    PROVE  /\ IsABag(B (+) C)
           /\ \A x : Copies(x, B (+) C) = Copies(x, B) + Copies(x, C)
  BY DEF Copies, IsABag, BagIn, BagToSet, SetToBag, (+)

-----------------------------------------------------------------------------
(* Tables *)

LEMMA BearingFinite ==
    ASSUME NEW S, IsFiniteSet(S), NEW id
    PROVE  IsFiniteSet(Bearing(S, id)) /\ Cardinality(Bearing(S, id)) \in Nat
  BY FS_Subset, FS_CardinalityType DEF Bearing

\* An id in a live table is on an element, and its owner is that element's.
LEMMA LiveIds ==
    ASSUME NEW S, IsFiniteSet(S), NEW table, Live(table, S), NEW id \in DOMAIN table
    PROVE  \E e \in S : e.id = id /\ table[id].owner = e.by
<1>1. Cardinality(Bearing(S, id)) # 0
  BY DEF Live, IsTable
<1>2. Bearing(S, id) # {}
  BY <1>1, FS_EmptySet
<1> QED
  BY <1>2 DEF Bearing, Live

\* There is one live table.
LEMMA LiveUnique ==
    ASSUME NEW S, IsFiniteSet(S), NEW t, NEW u, Live(t, S), Live(u, S)
    PROVE  t = u
<1>1. ASSUME NEW a, NEW b, Live(a, S), Live(b, S), NEW id \in DOMAIN a
      PROVE  id \in DOMAIN b /\ a[id] = b[id]
  <2>1. PICK e \in S : e.id = id /\ a[id].owner = e.by
    BY <1>1, LiveIds
  <2>2. id \in DOMAIN b /\ b[id].owner = a[id].owner /\ b[id].n = a[id].n
    BY <1>1, <2>1 DEF Live
  <2> QED BY <1>1, <2>2 DEF Live, IsTable
<1>2. DOMAIN t = DOMAIN u /\ \A id \in DOMAIN t : t[id] = u[id]
  BY <1>1
<1> QED
  BY <1>2 DEF Live, IsTable

LEMMA LiveAdd ==
    ASSUME NEW S, IsFiniteSet(S), NEW table, Live(table, S), NEW e, e \notin S, e.by \in Nat,
           e.id \in DOMAIN table => table[e.id].owner = e.by
    PROVE  Live(Reserve(table, e.id, e.by), S \cup {e})
<1> DEFINE new == Reserve(table, e.id, e.by)
<1>1. /\ DOMAIN new = DOMAIN table \cup {e.id}
      /\ \A id \in DOMAIN table \ {e.id} : new[id] = table[id]
      /\ e.id \in DOMAIN table =>
           new[e.id] = [owner |-> table[e.id].owner, n |-> table[e.id].n + 1]
      /\ e.id \notin DOMAIN table => new[e.id] = [owner |-> e.by, n |-> 1]
  BY DEF Reserve, Live, IsTable
<1>2. IsTable(new)
  BY <1>1 DEF Reserve, Live, IsTable
<1> HIDE DEF new
<1>3. \A f \in S \cup {e} : f.id \in DOMAIN new /\ new[f.id].owner = f.by
  BY <1>1 DEF Live
<1>4. ASSUME NEW id \in DOMAIN new PROVE new[id].n = Cardinality(Bearing(S \cup {e}, id))
  <2>1. CASE id # e.id
    <3>1. Bearing(S \cup {e}, id) = Bearing(S, id)
      BY <2>1 DEF Bearing
    <3> QED BY <1>1, <1>4, <2>1, <3>1 DEF Live
  <2>2. CASE id = e.id
    <3>1. Bearing(S \cup {e}, id) = Bearing(S, id) \cup {e} /\ e \notin Bearing(S, id)
      BY <2>2 DEF Bearing
    <3>2. Cardinality(Bearing(S \cup {e}, id)) = Cardinality(Bearing(S, id)) + 1
      BY <3>1, BearingFinite, FS_AddElement
    <3>3. CASE id \in DOMAIN table
      BY <1>1, <2>2, <3>2, <3>3 DEF Live
    <3>4. CASE id \notin DOMAIN table
      <4>1. Bearing(S, id) = {}
        BY <3>4 DEF Bearing, Live
      <4> QED BY <1>1, <2>2, <3>2, <3>4, <4>1, FS_EmptySet
    <3> QED BY <3>3, <3>4
  <2> QED BY <2>1, <2>2
<1> QED
  BY <1>2, <1>3, <1>4 DEF Live, new

LEMMA LiveRemove ==
    ASSUME NEW S, IsFiniteSet(S), NEW table, Live(table, S), NEW e \in S
    PROVE  Live(Release(table, e.id), S \ {e})
<1> DEFINE new == Release(table, e.id)
<1>0. \A id : Copies(id, SetToBag({e.id})) = IF id = e.id THEN 1 ELSE 0
  BY OneCopy
<1>1. /\ DOMAIN new = {id \in DOMAIN table : id # e.id \/ table[id].n > 1}
      /\ \A id \in DOMAIN new : id # e.id => new[id] = table[id]
      /\ e.id \in DOMAIN new => new[e.id] = [owner |-> table[e.id].owner, n |-> table[e.id].n - 1]
  <2>1. \A id \in DOMAIN table : table[id] = [owner |-> table[id].owner, n |-> table[id].n]
                                 /\ table[id].n \in Nat \ {0}
    BY DEF Live, IsTable
  <2>2. DOMAIN new = {id \in DOMAIN table : table[id].n > Copies(id, SetToBag({e.id}))}
    BY DEF Release, Give
  <2>3. \A id \in DOMAIN new : new[id] = [table[id] EXCEPT !.n = @ - Copies(id, SetToBag({e.id}))]
    BY DEF Release, Give
  <2> HIDE DEF new
  <2>4. \A id \in DOMAIN table : table[id].n > Copies(id, SetToBag({e.id})) <=> (id # e.id \/ table[id].n > 1)
    BY <1>0, <2>1
  <2>5. DOMAIN new = {id \in DOMAIN table : id # e.id \/ table[id].n > 1}
    BY <2>2, <2>4
  <2>6. ASSUME NEW id \in DOMAIN new, id # e.id PROVE new[id] = table[id]
    <3>1. new[id] = [table[id] EXCEPT !.n = @ - 0] /\ id \in DOMAIN table
      BY <1>0, <2>3, <2>5, <2>6
    <3> QED BY <2>1, <3>1
  <2>7. ASSUME e.id \in DOMAIN new
        PROVE  new[e.id] = [owner |-> table[e.id].owner, n |-> table[e.id].n - 1]
    <3>1. new[e.id] = [table[e.id] EXCEPT !.n = @ - 1] /\ e.id \in DOMAIN table
      BY <1>0, <2>3, <2>5, <2>7
    <3> QED BY <2>1, <3>1
  <2> QED BY <2>5, <2>6, <2>7
<1>2. IsTable(new)
  <2>1. new = [id \in DOMAIN new |-> new[id]]
    BY DEF Release, Give
  <2>2. \A id \in DOMAIN new : new[id] \in [owner : Nat, n : Nat \ {0}]
    BY <1>1 DEF Live, IsTable
  <2> HIDE DEF new
  <2> QED BY <2>1, <2>2 DEF IsTable
<1> HIDE DEF new
<1>3. ASSUME NEW f \in S \ {e} PROVE f.id \in DOMAIN new /\ new[f.id].owner = f.by
  <2>1. CASE f.id # e.id
    BY <1>1, <1>3, <2>1 DEF Live
  <2>2. CASE f.id = e.id
    <3>1. {e, f} \subseteq Bearing(S, e.id) /\ e # f
      BY <1>3, <2>2 DEF Bearing
    <3>2. /\ Cardinality(Bearing(S, e.id) \ {e}) = Cardinality(Bearing(S, e.id)) - 1
          /\ IsFiniteSet(Bearing(S, e.id) \ {e}) /\ Bearing(S, e.id) \ {e} # {}
      BY <3>1, BearingFinite, FS_RemoveElement
    <3>3. Cardinality(Bearing(S, e.id)) >= 2
      <4>1. Cardinality(Bearing(S, e.id) \ {e}) # 0
        BY <3>2, FS_EmptySet
      <4>2. Cardinality(Bearing(S, e.id) \ {e}) \in Nat
        BY <3>2, FS_CardinalityType
      <4> QED BY <3>2, <4>1, <4>2, BearingFinite
    <3>4. table[e.id].n > 1
      BY <3>3, BearingFinite DEF Live
    <3> QED BY <1>1, <1>3, <2>2, <3>4 DEF Live
  <2> QED BY <2>1, <2>2
<1>4. ASSUME NEW id \in DOMAIN new PROVE new[id].n = Cardinality(Bearing(S \ {e}, id))
  <2>1. CASE id # e.id
    <3>1. Bearing(S \ {e}, id) = Bearing(S, id)
      BY <2>1 DEF Bearing
    <3> QED BY <1>1, <1>4, <2>1, <3>1 DEF Live
  <2>2. CASE id = e.id
    <3>1. Bearing(S \ {e}, id) = Bearing(S, id) \ {e} /\ e \in Bearing(S, id)
      BY <2>2 DEF Bearing
    <3>2. Cardinality(Bearing(S \ {e}, id)) = Cardinality(Bearing(S, id)) - 1
      BY <3>1, BearingFinite, FS_RemoveElement
    <3> QED BY <1>1, <1>4, <2>2, <3>2 DEF Live
  <2> QED BY <2>1, <2>2
<1> QED
  BY <1>2, <1>3, <1>4 DEF Live, new

\* Marks and levels of elements do not matter to the table.
LEMMA LiveRelabelled ==
    ASSUME NEW S, IsFiniteSet(S), NEW table, Live(table, S), NEW T, NEW f \in [S -> T],
           \A t \in T : \E e \in S : f[e] = t, \A a, b \in S : f[a] = f[b] => a = b,
           \A e \in S : f[e].id = e.id /\ f[e].by = e.by
    PROVE  Live(table, T) /\ IsFiniteSet(T)
<1>1. ASSUME NEW A \in SUBSET S, NEW B \in SUBSET T, NEW g \in [A -> B],
             \A t \in B : \E e \in A : g[e] = t, \A a, b \in A : g[a] = g[b] => a = b
      PROVE  IsFiniteSet(B) /\ Cardinality(A) = Cardinality(B)
  <2>1. ExistsBijection(A, B)
    BY <1>1 DEF ExistsBijection, Bijection, Surjection, Injection, IsInjective
  <2> QED BY <2>1, FS_Bijection, FS_Subset
<1>2. IsFiniteSet(T)
  BY <1>1
<1>3. ASSUME NEW id \in DOMAIN table PROVE table[id].n = Cardinality(Bearing(T, id))
  <2> DEFINE g == [e \in Bearing(S, id) |-> f[e]]
  <2>1. /\ g \in [Bearing(S, id) -> Bearing(T, id)]
        /\ Bearing(S, id) \subseteq S /\ Bearing(T, id) \subseteq T
    BY DEF Bearing
  <2>2. \A t \in Bearing(T, id) : \E e \in Bearing(S, id) : g[e] = t
    BY DEF Bearing
  <2>3. \A a, b \in Bearing(S, id) : g[a] = g[b] => a = b
    BY DEF Bearing
  <2>4. Cardinality(Bearing(T, id)) = Cardinality(Bearing(S, id))
    <3> HIDE DEF g
    <3> QED BY <2>1, <2>2, <2>3, <1>1
  <2> QED BY <2>4 DEF Live
<1>4. \A t \in T : t.id \in DOMAIN table /\ table[t.id].owner = t.by
  BY DEF Live
<1> QED
  BY <1>2, <1>3, <1>4 DEF Live

\* Giving a journal back leaves the table of the elements it does not speak of, if
\* it has as many copies as the others need.
LEMMA LiveGive ==
    ASSUME NEW S, IsFiniteSet(S), NEW table, Live(table, S), NEW journal, IsABag(journal), NEW R \in SUBSET S,
           \A e \in R : Copies(e.id, journal) = 0,
           \A e \in S \ R : table[e.id].n <= Copies(e.id, journal)
    PROVE  Live(Give(table, journal), R)
<1> DEFINE new == Give(table, journal)
<1>1. /\ DOMAIN new = {id \in DOMAIN table : table[id].n > Copies(id, journal)}
      /\ \A id \in DOMAIN new : new[id] = [owner |-> table[id].owner, n |-> table[id].n - Copies(id, journal)]
      /\ new = [id \in DOMAIN new |-> new[id]]
  BY DEF Give, Live, IsTable
<1> HIDE DEF new
<1>2. ASSUME NEW id \in DOMAIN new
      PROVE  Bearing(S, id) = Bearing(R, id) /\ Copies(id, journal) = 0
  <2>1. PICK e \in S : e.id = id
    BY <1>1, LiveIds
  <2>2. \A f \in S : f.id = id => f \in R
    BY <1>1, CopiesType DEF Live, IsTable
  <2> QED BY <2>1, <2>2 DEF Bearing
<1>3. \A id \in DOMAIN new : new[id] = table[id]
  BY <1>1, <1>2 DEF Live, IsTable
<1>4. IsTable(new)
  BY <1>1, <1>3 DEF Live, IsTable
<1>5. ASSUME NEW e \in R PROVE e.id \in DOMAIN new /\ new[e.id].owner = e.by
  BY <1>1, <1>3 DEF Live, IsTable
<1>6. \A id \in DOMAIN new : new[id].n = Cardinality(Bearing(R, id))
  BY <1>1, <1>2, <1>3 DEF Live
<1> QED
  BY <1>4, <1>5, <1>6 DEF Live, new

-----------------------------------------------------------------------------
LEMMA Facts ==
    ASSUME IInv
    PROVE  /\ Len(frames) \in Nat /\ Level \in 1..Len(frames) /\ Len(frames) >= 1
           /\ Top = frames[Len(frames)] /\ IsFrame(Top) /\ inclusions \in Nat
           /\ Len(pending) \in Nat
<1>1. frames \in Seq(Pieces(frames)) /\ frames # << >>
  BY DEF IInv, Shape
<1>2. Len(frames) \in Nat /\ Len(frames) >= 1
  BY <1>1, EmptySeq, LenProperties
<1> QED
  BY <1>2, BoundAssumption DEF IInv, Shape, Level, Top

LEMMA InitInv == Init => IInv
<1> SUFFICES ASSUME Init PROVE IInv
  OBVIOUS
<1> DEFINE f == Frame(0, "block", {}, NoElement, << >>)
<1>1. frames = <<f>> /\ Len(frames) = 1 /\ frames[1] = f /\ frames \in Seq({f}) /\ Pieces(frames) = {f}
  BY DEF Init, Pieces
<1>2. /\ f = [owner |-> 0, form |-> "block", own |-> {}, held |-> NoElement, journal |-> EmptyBag,
              renamed |-> {}, claimed |-> 1, claiming |-> TRUE, before |-> << >>]
  BY DEF Frame
<1> HIDE DEF f
<1>3. IsFrame(f)
  BY <1>2, EmptyCopies DEF IsFrame, Init
<1>4. used = << >> /\ DOMAIN used = {} /\ elems = {} /\ pending = << >> /\ Len(pending) = 0 /\ inclusions = 0
  BY DEF Init
<1>5. Shape
  BY <1>1, <1>3, <1>4, BoundAssumption, FS_EmptySet DEF Init, Shape, Level, IsTable
<1>6. Live(used, elems)
  BY <1>4 DEF Live, IsTable
<1>7. Expansion
  BY <1>1, <1>2, <1>4, <1>6 DEF Expansion, Owners, Places, Journals, Level, Below
<1>8. Naming
  BY DEF Init, Naming
<1> QED
  BY <1>5, <1>7, <1>8 DEF IInv

LEMMA Repacked == ASSUME NEW S, NEW s \in Seq(S) PROVE s \in Seq(Pieces(s))
  BY DEF Pieces

\* The frames with the innermost one changed, one more, or one less.
LEMMA OneChanged ==
    ASSUME IInv, NEW g, frames' = [frames EXCEPT ![Level] = g]
    PROVE  /\ frames' \in Seq(Pieces(frames')) /\ frames' # << >> /\ Len(frames') = Len(frames)
           /\ frames'[Level] = g /\ \A i \in 1..Len(frames) : i # Level => frames'[i] = frames[i]
<1> DEFINE T == Pieces(frames) \cup {g}
<1>1. frames \in Seq(Pieces(frames)) /\ Level \in 1..Len(frames) /\ Len(frames) >= 1
  BY Facts DEF IInv, Shape
<1>2. frames \in Seq(T) /\ g \in T
  BY <1>1, SeqDef
<1> HIDE DEF T
<1>3. /\ frames' \in Seq(T) /\ Len(frames') = Len(frames)
      /\ frames'[Level] = g /\ \A i \in 1..Len(frames) : i # Level => frames'[i] = frames[i]
  BY <1>1, <1>2
<1>4. frames' \in Seq(Pieces(frames'))
  BY <1>3, Repacked
<1>5. frames' # << >>
  BY <1>1, <1>3
<1> QED
  BY <1>3, <1>4, <1>5

LEMMA OneMoreFrame ==
    ASSUME IInv, NEW g, frames' = Append(frames, g)
    PROVE  /\ frames' \in Seq(Pieces(frames')) /\ frames' # << >> /\ Len(frames') = Len(frames) + 1
           /\ frames'[Len(frames) + 1] = g /\ \A i \in 1..Len(frames) : frames'[i] = frames[i]
<1> DEFINE T == Pieces(frames) \cup {g}
<1>1. frames \in Seq(Pieces(frames)) /\ Len(frames) \in Nat
  BY Facts DEF IInv, Shape
<1>2. frames \in Seq(T) /\ g \in T
  BY <1>1, SeqDef
<1> HIDE DEF T
<1>3. /\ frames' \in Seq(T) /\ Len(frames') = Len(frames) + 1
      /\ frames'[Len(frames) + 1] = g /\ \A i \in 1..Len(frames) : frames'[i] = frames[i]
  BY <1>1, <1>2
<1>4. frames' \in Seq(Pieces(frames'))
  BY <1>3, Repacked
<1>5. frames' # << >>
  BY <1>1, <1>3
<1> QED
  BY <1>3, <1>4, <1>5

LEMMA OneFrameLess ==
    ASSUME IInv, Level > 1
    PROVE  /\ Popped \in Seq(Pieces(Popped)) /\ Popped # << >> /\ Len(Popped) = Len(frames) - 1
           /\ \A i \in 1..(Len(frames) - 1) : Popped[i] = frames[i]
<1> DEFINE T == Pieces(frames)
<1>1. frames \in Seq(T) /\ Len(frames) \in Nat /\ Len(frames) > 1
  BY Facts DEF IInv, Shape, Level
<1> HIDE DEF T
<1>2. /\ Popped \in Seq(T) /\ Len(Popped) = Len(frames) - 1
      /\ \A i \in 1..(Len(frames) - 1) : Popped[i] = frames[i]
  BY <1>1 DEF Popped, Level
<1>3. Popped \in Seq(Pieces(Popped)) /\ Popped # << >>
  BY <1>1, <1>2 DEF Pieces
<1> QED
  BY <1>2, <1>3

\* A claim puts one more element at the innermost level.
LEMMA ClaimEffect ==
    ASSUME IInv, phase = "expand", NEW id, NEW directive \in BOOLEAN, NEW g,
           id \in DOMAIN used => used[id].owner = Owner,
           IsPlaceholder(id) => \E k \in 1..Len(pending') : id = Placeholder(k),
           pending' \in Seq(Authored), Len(pending') >= Len(pending),
           used' = Reserve(used, id, Owner), elems' = elems \cup {Element(id, directive)},
           frames' = [frames EXCEPT ![Level] = g], IsFrame(g),
           g.owner = Top.owner, g.form = Top.form, g.before = Top.before,
           g.claiming = Top.claiming, g.claimed = Top.claimed + 1,
           Level > 1 => g.journal = Top.journal (+) SetToBag({id}),
           UNCHANGED <<inclusions, phase, next, names>>
    PROVE  IInv'
<1> DEFINE e == Element(id, directive)
<1>1. /\ frames' \in Seq(Pieces(frames')) /\ frames' # << >> /\ Len(frames') = Len(frames)
      /\ frames'[Level] = g /\ \A i \in 1..Len(frames) : i # Level => frames'[i] = frames[i]
  BY OneChanged
<1>2. /\ Len(frames) \in Nat \ {0} /\ Level = Len(frames) /\ Level' = Level /\ Top = frames[Level]
      /\ inclusions \in Nat /\ Len(pending) \in Nat /\ Len(pending') \in Nat /\ IsFrame(Top)
  <2>1. Level = Len(frames) /\ Level' = Len(frames')
    BY DEF Level
  <2>2. Len(frames) \in Nat /\ Len(frames) >= 1 /\ Top = frames[Len(frames)] /\ IsFrame(Top)
    BY Facts
  <2>3. inclusions \in Nat /\ Len(pending) \in Nat
    BY Facts
  <2>4. Len(pending') \in Nat
    BY LenProperties
  <2>5. Len(frames') = Len(frames)
    BY <1>1
  <2>6. Level' = Level /\ Top = frames[Level]
    BY <2>1, <2>2, <2>5
  <2> QED BY <2>1, <2>2, <2>3, <2>4, <2>6
<1>3. /\ e.id = id /\ e.by = Top.owner /\ e.key = Top.claimed /\ e.level = Level /\ e.directive = directive
      /\ e = [id |-> e.id, by |-> e.by, key |-> e.key, level |-> e.level, directive |-> e.directive]
  BY DEF Element, Owner
<1> HIDE DEF e
<1>4. Owners /\ Places /\ Journals /\ Live(used, elems) /\ IsFiniteSet(elems)
  BY DEF IInv, Expansion, Shape
<1>5. e \notin elems
  BY <1>2, <1>3, <1>4 DEF Places, IsFrame
<1>6. elems' = elems \cup {e}
  BY DEF e
<1>7. Live(used', elems') /\ IsFiniteSet(elems')
  <2>1. e.by \in Nat
    BY <1>2, <1>3 DEF IsFrame
  <2>2. Live(Reserve(used, e.id, e.by), elems \cup {e})
    BY <1>3, <1>4, <1>5, <2>1, LiveAdd DEF Owner
  <2>3. Reserve(used, e.id, e.by) = used'
    BY <1>3 DEF Owner
  <2>4. IsFiniteSet(elems \cup {e})
    BY <1>4, FS_AddElement
  <2> QED BY <1>6, <2>2, <2>3, <2>4
<1>8. ASSUME NEW f \in elems' PROVE IsElement(f)'
  <2>1. CASE f = e
    BY <1>2, <1>3, <2>1 DEF IsElement, IsFrame
  <2>2. CASE f \in elems
    BY <1>2, <2>2 DEF IsElement, IInv, Shape
  <2> QED BY <1>6, <2>1, <2>2
<1>9. Shape'
  <2>1. \A x \in DOMAIN used' : used'[x].owner <= inclusions'
    BY <1>7, <1>8, LiveIds DEF IsElement
  <2>2. \A i \in 1..Level' : IsFrame(frames[i])'
    BY <1>1, <1>2 DEF IInv, Shape, IsFrame
  <2>3. next' \in 1..(Len(pending') + 1)
    BY <1>2 DEF IInv, Shape
  <2> QED BY <1>1, <1>7, <1>8, <2>1, <2>2, <2>3 DEF IInv, Shape, Live
<1>10. Owners'
  <2>1. \A i \in 1..Level : frames'[i].owner = frames[i].owner /\ frames'[i].claiming = frames[i].claiming
    BY <1>1, <1>2
  <2>2. 1 \in 1..Level
    BY <1>2
  <2> QED BY <1>2, <1>4, <2>1, <2>2 DEF Owners
<1>11. Places'
  <2>1. \A f, h \in elems' : f.by = h.by /\ f.key = h.key => f = h
    BY <1>2, <1>3, <1>4, <1>6 DEF Places, IsFrame
  <2>2. \A f \in elems' : frames'[f.level].owner <= f.by
    BY <1>1, <1>2, <1>3, <1>4, <1>6, <1>8 DEF Places, IsFrame, IsElement, IInv, Shape
  <2>3. ASSUME NEW f \in elems', NEW i \in 1..Level'
        PROVE  /\ f.level < i => f.by < frames'[i].owner
               /\ f.by = frames'[i].owner => f.level = i /\ f.key < frames'[i].claimed
    <3>1. frames'[i].owner = frames[i].owner /\ frames'[i].claimed >= frames[i].claimed
          /\ (i = Level => frames'[i].claimed = frames[i].claimed + 1)
      BY <1>1, <1>2 DEF IInv, Shape, IsFrame
    <3>2. CASE f \in elems
      <4>1. f.key \in Nat /\ frames[i].claimed \in Nat /\ frames'[i].claimed \in Nat
        BY <1>1, <1>2, <3>2 DEF IInv, Shape, IsElement, IsFrame
      <4> QED BY <1>2, <1>4, <3>1, <3>2, <4>1 DEF Places
    <3>3. CASE f = e
      <4>1. f.by = frames[Level].owner /\ f.level = Level /\ f.key = frames[Level].claimed
        BY <1>2, <1>3, <3>3
      <4>2. frames[i].owner = frames[Level].owner => i = Level
        BY <1>2, <1>4 DEF Owners, IInv, Shape, IsFrame
      <4> QED BY <1>2, <3>1, <4>1, <4>2 DEF IsFrame
    <3> QED BY <1>6, <3>2, <3>3
  <2>4. \A f \in elems' : f.directive => f.by = frames'[f.level].owner
    BY <1>1, <1>2, <1>3, <1>4, <1>6, <1>8 DEF Places, IsElement, IInv, Shape
  <2>5. \A f \in elems' : Mark(f.id, 1)'
    BY <1>2, <1>3, <1>4, <1>6 DEF Places, Mark
  <2> QED BY <2>1, <2>2, <2>3, <2>4, <2>5 DEF Places
<1>12. \A f \in elems : f.id = id => f.by = Top.owner /\ f.level = Level
  BY <1>2, <1>4 DEF Live, Places, Owner
<1>13. /\ \A x \in DOMAIN used : x # id => used'[x] = used[x]
       /\ id \in DOMAIN used => used'[id].n = used[id].n + 1
       /\ id \notin DOMAIN used => used'[id].n = 1
  BY <1>4 DEF Reserve, Live, IsTable
<1>14. Level > 1 => \A x : Copies(x, g.journal) = Copies(x, Top.journal) + (IF x = id THEN 1 ELSE 0)
  <2>1. IsABag(Top.journal)
    BY <1>2 DEF IsFrame
  <2>2. \A x : Copies(x, Top.journal (+) SetToBag({id})) = Copies(x, Top.journal) + (IF x = id THEN 1 ELSE 0)
    BY <2>1, OneMore
  <2> QED BY <2>2
<1>15. \A x : Copies(x, Top.journal) \in Nat
  BY <1>2, CopiesType DEF IsFrame
<1>16. ASSUME NEW f \in elems', f.level > 1
       PROVE  used'[f.id].n <= Copies(f.id, frames'[f.level].journal)
  <2>1. CASE f.id = id
    <3>1. f.level = Level /\ Level > 1
      BY <1>3, <1>6, <1>12, <1>16, <2>1
    <3>2. CASE id \in DOMAIN used
      <4>1. PICK h \in elems : h.id = id
        BY <1>4, <3>2, LiveIds
      <4>2. used[id].n <= Copies(id, Top.journal)
        BY <1>2, <1>4, <1>12, <3>1, <4>1 DEF Journals
      <4>3. used[id].n \in Nat
        BY <1>4, <3>2 DEF Live, IsTable
      <4> QED BY <1>1, <1>13, <1>14, <1>15, <2>1, <3>1, <3>2, <4>2, <4>3
    <3>3. CASE id \notin DOMAIN used
      BY <1>1, <1>13, <1>14, <1>15, <2>1, <3>1, <3>3
    <3> QED BY <3>2, <3>3
  <2>2. CASE f.id # id
    <3>1. f \in elems /\ f.id \in DOMAIN used /\ f.level \in 1..Level
      BY <1>2, <1>3, <1>4, <1>6, <1>8, <2>2 DEF Live, IsElement
    <3>2. used[f.id].n <= Copies(f.id, frames[f.level].journal)
      BY <1>4, <1>16, <3>1 DEF Journals
    <3>3. Copies(f.id, frames'[f.level].journal) = Copies(f.id, frames[f.level].journal)
      <4>1. CASE f.level = Level
        <5>1. Copies(f.id, g.journal) = Copies(f.id, Top.journal) + 0
          BY <1>14, <1>16, <2>2, <4>1
        <5>2. Copies(f.id, g.journal) = Copies(f.id, Top.journal)
          BY <1>15, <5>1
        <5>3. frames'[f.level] = g /\ frames[f.level] = Top
          BY <1>1, <1>2, <4>1
        <5> QED BY <5>2, <5>3
      <4>2. CASE f.level # Level
        BY <1>1, <1>2, <3>1, <4>2
      <4> QED BY <4>1, <4>2
    <3> QED BY <1>13, <2>2, <3>1, <3>2, <3>3
  <2> QED BY <2>1, <2>2
<1>17. ASSUME NEW i \in 2..Level, NEW f \in elems', f.level < i
       PROVE  f \in Below(i) /\ Copies(f.id, frames'[i].journal) = 0
  <2>1. f \in Below(i)
    BY <1>2, <1>3, <1>6, <1>17 DEF Below
  <2>2. Copies(f.id, frames[i].journal) = 0
    BY <1>2, <1>4, <2>1 DEF Journals
  <2>3. i = Level => f.id # id
    BY <1>2, <1>12, <1>17, <2>1 DEF Below
  <2>4. CASE i = Level
    <3>1. Copies(f.id, g.journal) = Copies(f.id, Top.journal) + 0
      BY <1>2, <1>14, <2>3, <2>4
    <3>2. frames'[i] = g /\ frames[i] = Top
      BY <1>1, <1>2, <2>4
    <3> QED BY <2>1, <2>2, <3>1, <3>2
  <2>5. CASE i # Level
    <3>1. i \in 1..Len(frames)
      BY <1>2
    <3>2. frames'[i] = frames[i]
      BY <1>1, <2>5, <3>1
    <3> QED BY <2>1, <2>2, <3>2
  <2> QED BY <2>4, <2>5
<1>18. Journals'
  BY <1>2, <1>16, <1>17 DEF Journals, Below
<1>19. ASSUME NEW i \in 2..Level, frames'[i].form = "inline" PROVE Live(frames'[i].before, Below(i)')
  <2>1. Below(i)' = Below(i)
    BY <1>2, <1>3, <1>6 DEF Below
  <2>2. frames'[i].form = frames[i].form /\ frames'[i].before = frames[i].before
    <3>1. i \in 1..Len(frames)
      BY <1>2
    <3>2. i # Level => frames'[i] = frames[i]
      BY <1>1, <3>1
    <3>3. i = Level => frames'[i] = g /\ frames[i] = Top
      BY <1>1, <1>2
    <3> QED BY <3>2, <3>3
  <2> QED BY <1>2, <1>19, <2>1, <2>2 DEF IInv, Expansion
<1>20. Expansion'
  BY <1>2, <1>4, <1>7, <1>10, <1>11, <1>18, <1>19 DEF Expansion, Live, IsTable, Bearing
<1>21. Naming'
  BY DEF Naming
<1> QED
  BY <1>9, <1>20, <1>21 DEF IInv

\* What a claim does to the innermost frame: the root keeps no journal.
Claimer(id, renamed) ==
    [owner |-> Top.owner, form |-> Top.form, own |-> Top.own, held |-> Top.held,
     journal |-> IF Level = 1 THEN Top.journal ELSE Top.journal (+) SetToBag({id}),
     renamed |-> renamed, claimed |-> Top.claimed + 1,
     claiming |-> Top.claiming, before |-> Top.before]

LEMMA JournalledIs ==
    ASSUME IInv, NEW id
    PROVE  Journalled(id) = [frames EXCEPT ![Level] =
             [Top EXCEPT !.journal = IF Level = 1 THEN Top.journal ELSE Top.journal (+) SetToBag({id})]]
<1>1. frames \in Seq(Pieces(frames)) /\ Level \in 1..Len(frames) /\ Top = frames[Level] /\ IsFrame(Top)
  BY Facts DEF IInv, Shape, Level
<1>2. frames = [i \in 1..Len(frames) |-> frames[i]]
  BY <1>1
<1>3. CASE Level = 1
  <2>1. [Top EXCEPT !.journal = Top.journal] = Top
    BY <1>1 DEF IsFrame
  <2>2. [frames EXCEPT ![Level] = Top] = frames
    BY <1>1, <1>2
  <2> QED BY <1>3, <2>1, <2>2 DEF Journalled
<1>4. CASE Level # 1
  BY <1>1, <1>4 DEF Journalled
<1> QED
  BY <1>3, <1>4

LEMMA ClaimerIs ==
    ASSUME IInv, NEW id, NEW R
    PROVE  /\ [Journalled(id) EXCEPT ![Level].claimed = @ + 1] = [frames EXCEPT ![Level] = Claimer(id, Top.renamed)]
           /\ [Journalled(id) EXCEPT ![Level].claimed = @ + 1, ![Level].renamed = @ \cup R]
                = [frames EXCEPT ![Level] = Claimer(id, Top.renamed \cup R)]
           /\ \A r : IsFrame(Claimer(id, r))
<1> DEFINE J == IF Level = 1 THEN Top.journal ELSE Top.journal (+) SetToBag({id})
           f == [Top EXCEPT !.journal = J]
           fs == [frames EXCEPT ![Level] = f]
<1>1. frames \in Seq(Pieces(frames)) /\ Level \in 1..Len(frames) /\ Top = frames[Level] /\ IsFrame(Top)
  BY Facts DEF IInv, Shape, Level
<1>2. frames = [i \in 1..Len(frames) |-> frames[i]]
  BY <1>1
<1>3. Journalled(id) = fs
  BY JournalledIs
<1>4. f = [owner |-> Top.owner, form |-> Top.form, own |-> Top.own, held |-> Top.held,
           journal |-> J, renamed |-> Top.renamed, claimed |-> Top.claimed,
           claiming |-> Top.claiming, before |-> Top.before]
  BY <1>1 DEF IsFrame
<1>5. IsABag(J)
  BY <1>1, OneMore DEF IsFrame
<1>6. \A r : IsFrame(Claimer(id, r))
  BY <1>1, <1>5 DEF Claimer, IsFrame
<1>7. /\ [f EXCEPT !.claimed = @ + 1] = Claimer(id, Top.renamed)
      /\ [[f EXCEPT !.claimed = @ + 1] EXCEPT !.renamed = @ \cup R] = Claimer(id, Top.renamed \cup R)
  <2> HIDE DEF f, J
  <2>1. f.claimed = Top.claimed /\ f.renamed = Top.renamed
    BY <1>4
  <2>2. [f EXCEPT !.claimed = @ + 1] = Claimer(id, Top.renamed)
    BY <1>4, <2>1 DEF Claimer, J
  <2>3. Claimer(id, Top.renamed).renamed = Top.renamed
    BY DEF Claimer
  <2>4. [Claimer(id, Top.renamed) EXCEPT !.renamed = @ \cup R] = Claimer(id, Top.renamed \cup R)
    BY <2>3 DEF Claimer
  <2> QED BY <2>2, <2>4
<1> HIDE DEF f, J
<1>8. \A g : [fs EXCEPT ![Level] = g] = [frames EXCEPT ![Level] = g]
  BY <1>1, <1>2
<1>9. fs[Level] = f
  BY <1>1, <1>2
<1>10. [fs EXCEPT ![Level].claimed = @ + 1] = [frames EXCEPT ![Level] = Claimer(id, Top.renamed)]
  <2>1. [fs EXCEPT ![Level].claimed = @ + 1] = [fs EXCEPT ![Level] = [f EXCEPT !.claimed = @ + 1]]
    <3> HIDE DEF fs
    <3> QED BY <1>9
  <2> HIDE DEF fs
  <2> QED BY <1>7, <1>8, <2>1
<1>11. [fs EXCEPT ![Level].claimed = @ + 1, ![Level].renamed = @ \cup R]
         = [frames EXCEPT ![Level] = Claimer(id, Top.renamed \cup R)]
  <2> DEFINE g == [f EXCEPT !.claimed = @ + 1]
             gs == [fs EXCEPT ![Level] = g]
  <2>1. [fs EXCEPT ![Level].claimed = @ + 1] = gs
    <3> HIDE DEF fs, g
    <3>1. fs[Level] = f
      BY <1>9
    <3> QED BY <3>1 DEF g
  <2>2. gs[Level] = g /\ \A h : [gs EXCEPT ![Level] = h] = [frames EXCEPT ![Level] = h]
    <3> HIDE DEF g
    <3> QED BY <1>1, <1>2
  <2>3. [gs EXCEPT ![Level].renamed = @ \cup R] = [gs EXCEPT ![Level] = [g EXCEPT !.renamed = @ \cup R]]
    <3> HIDE DEF gs, g
    <3> QED BY <2>2
  <2>4. [g EXCEPT !.renamed = @ \cup R] = Claimer(id, Top.renamed \cup R)
    BY <1>7
  <2> HIDE DEF fs, gs, g
  <2>5. [fs EXCEPT ![Level].claimed = @ + 1, ![Level].renamed = @ \cup R] = [gs EXCEPT ![Level].renamed = @ \cup R]
    BY <2>1
  <2> QED BY <2>2, <2>3, <2>4, <2>5
<1> QED
  BY <1>3, <1>6, <1>10, <1>11

\* The claims are claims of ids that are free or already this owner's.
LEMMA ClaimRootStep ==
    ASSUME IInv, NEW id \in Authored, NEW directive \in BOOLEAN, ClaimRoot(id, directive) PROVE IInv'
<1> DEFINE g == Claimer(id, Top.renamed)
<1>1. /\ phase = "expand" /\ Top.claiming /\ Level = 1 /\ Claimed(id, directive)
      /\ UNCHANGED <<inclusions, pending, phase, next, names>>
  BY DEF ClaimRoot, Claiming
<1>2. frames' = [frames EXCEPT ![Level] = g] /\ IsFrame(g)
  BY <1>1, ClaimerIs DEF Claimed
<1>3. id \in DOMAIN used => used[id].owner = Owner
  <2>1. Owner = 0 /\ inclusions = 0
    BY <1>1, Facts DEF IInv, Expansion, Owners, Level, Owner
  <2> QED BY <2>1 DEF IInv, Shape, IsTable
<1>4. ~IsPlaceholder(id) /\ Len(pending') >= Len(pending) /\ pending' \in Seq(Authored)
  BY <1>1, Facts, NameAssumption DEF Authored, IsPlaceholder, IInv, Shape
<1> QED
  <2>1. /\ g.owner = Top.owner /\ g.form = Top.form /\ g.before = Top.before
        /\ g.claiming = Top.claiming /\ g.claimed = Top.claimed + 1
        /\ Level > 1 => g.journal = Top.journal (+) SetToBag({id})
    BY DEF Claimer
  <2> HIDE DEF g
  <2> QED BY <1>1, <1>2, <1>3, <1>4, <2>1, ClaimEffect DEF Claimed

LEMMA ClaimAuthoredStep ==
    ASSUME IInv, NEW id \in Authored, NEW directive \in BOOLEAN, ClaimAuthored(id, directive) PROVE IInv'
<1> DEFINE g == Claimer(id, Top.renamed)
<1>1. /\ phase = "expand" /\ Claimed(id, directive) /\ ~OwnedByOther(id)
      /\ UNCHANGED <<inclusions, pending, phase, next, names>>
  BY DEF ClaimAuthored, Claiming
<1>2. frames' = [frames EXCEPT ![Level] = g] /\ IsFrame(g)
  BY <1>1, ClaimerIs DEF Claimed
<1>3. id \in DOMAIN used => used[id].owner = Owner
  BY <1>1 DEF OwnedByOther
<1>4. ~IsPlaceholder(id) /\ Len(pending') >= Len(pending) /\ pending' \in Seq(Authored)
  BY <1>1, Facts, NameAssumption DEF Authored, IsPlaceholder, IInv, Shape
<1> QED
  <2>1. /\ g.owner = Top.owner /\ g.form = Top.form /\ g.before = Top.before
        /\ g.claiming = Top.claiming /\ g.claimed = Top.claimed + 1
        /\ Level > 1 => g.journal = Top.journal (+) SetToBag({id})
    BY Facts DEF Claimer, Level
  <2> HIDE DEF g
  <2> QED BY <1>1, <1>2, <1>3, <1>4, <2>1, ClaimEffect DEF Claimed

LEMMA ClaimHeadingStep ==
    ASSUME IInv, NEW name \in Name, NEW n \in Suffix, ClaimHeading(name, n) PROVE IInv'
<1> DEFINE id == <<name, n>>
           g == Claimer(id, Top.renamed)
<1>1. /\ phase = "expand" /\ Claimed(id, FALSE) /\ id \notin DOMAIN used
      /\ UNCHANGED <<inclusions, pending, phase, next, names>>
  BY DEF ClaimHeading, Claiming
<1>2. frames' = [frames EXCEPT ![Level] = g] /\ IsFrame(g)
  BY <1>1, ClaimerIs DEF Claimed
<1>3. ~IsPlaceholder(id) /\ Len(pending') >= Len(pending) /\ pending' \in Seq(Authored)
  BY <1>1, Facts, NameAssumption DEF IsPlaceholder, IInv, Shape
<1> QED
  <2>1. /\ g.owner = Top.owner /\ g.form = Top.form /\ g.before = Top.before
        /\ g.claiming = Top.claiming /\ g.claimed = Top.claimed + 1
        /\ Level > 1 => g.journal = Top.journal (+) SetToBag({id})
    BY Facts DEF Claimer, Level
  <2> HIDE DEF g, id
  <2> QED BY <1>1, <1>2, <1>3, <2>1, ClaimEffect DEF Claimed

\* A placeholder is new: its number is one more than those handed out.
LEMMA ClaimRenamedStep ==
    ASSUME IInv, NEW id \in Authored, NEW directive \in BOOLEAN, ClaimRenamed(id, directive) PROVE IInv'
<1> DEFINE mark == Placeholder(Len(pending) + 1)
           g == Claimer(mark, Top.renamed \cup {id})
<1>1. /\ phase = "expand" /\ UNCHANGED <<inclusions, phase, next, names>>
      /\ pending' = Append(pending, id)
      /\ elems' = elems \cup {Element(mark, directive)} /\ used' = Reserve(used, mark, Owner)
      /\ frames' = [Journalled(mark) EXCEPT ![Level].claimed = @ + 1, ![Level].renamed = @ \cup {id}]
  BY DEF ClaimRenamed, Claiming
<1>2. frames' = [frames EXCEPT ![Level] = g] /\ IsFrame(g)
  <2> HIDE DEF mark
  <2> QED BY <1>1, ClaimerIs
<1>3. pending' \in Seq(Authored) /\ Len(pending') = Len(pending) + 1 /\ Len(pending) \in Nat
  BY <1>1, Facts DEF IInv, Shape
<1>4. mark \notin DOMAIN used
  <2>1. SUFFICES ASSUME mark \in DOMAIN used PROVE FALSE
    OBVIOUS
  <2>2. PICK e \in elems : e.id = mark
    BY <1>1, <2>1, LiveIds DEF IInv, Expansion, Shape
  <2>3. Mark(mark, 1)
    BY <1>1, <2>2 DEF IInv, Expansion, Places
  <2>4. PICK k \in 1..Len(pending) : mark = Placeholder(k)
    BY <2>3 DEF Mark, IsPlaceholder, Placeholder
  <2> QED BY <1>3, <2>4 DEF Placeholder
<1>5. \E k \in 1..Len(pending') : mark = Placeholder(k)
  BY <1>3
<1> QED
  <2>1. /\ g.owner = Top.owner /\ g.form = Top.form /\ g.before = Top.before
        /\ g.claiming = Top.claiming /\ g.claimed = Top.claimed + 1
        /\ Level > 1 => g.journal = Top.journal (+) SetToBag({mark})
    BY Facts DEF Claimer, Level
  <2> HIDE DEF g, mark
  <2>2. Len(pending') >= Len(pending)
    BY <1>3
  <2> QED BY <1>1, <1>2, <1>3, <1>4, <1>5, <2>1, <2>2, ClaimEffect

-----------------------------------------------------------------------------
\* These elements are those, but for marks.
Same(T, S) ==
    /\ IsFiniteSet(T) /\ \A e \in T : IsElement(e)
    /\ \A e, f \in T : e.by = f.by /\ e.key = f.key => e = f
    /\ \A e \in T : \E f \in S : /\ e.id = f.id /\ e.by = f.by /\ e.key = f.key /\ e.level = f.level
                                 /\ e.directive => f.directive
    /\ \A i \in 1..Level : {e \in T : e.level < i} = {e \in S : e.level < i}
    /\ Live(used, T)

LEMMA SameSame == ASSUME IInv, phase = "expand" PROVE Same(elems, elems)
  BY DEF IInv, Shape, Expansion, Places, Same

LEMMA PassedSame ==
    ASSUME IInv, phase = "expand", NEW x \in elems, x.level = Level
    PROVE  Same(Passed(x), elems)
<1> DEFINE y == [x EXCEPT !.directive = FALSE]
           T == Passed(x)
           f == [e \in elems |-> IF e = x THEN y ELSE e]
<1>1. /\ IsFiniteSet(elems) /\ Live(used, elems) /\ Places /\ \A e \in elems : IsElement(e)
  BY DEF IInv, Shape, Expansion
<1>2. /\ y.id = x.id /\ y.by = x.by /\ y.key = x.key /\ y.level = x.level /\ y.directive = FALSE
      /\ y = [id |-> y.id, by |-> y.by, key |-> y.key, level |-> y.level, directive |-> y.directive]
  <2>1. x = [id |-> x.id, by |-> x.by, key |-> x.key, level |-> x.level, directive |-> x.directive]
    BY <1>1 DEF IsElement
  <2>2. \A v : [x EXCEPT !.directive = v]
                = [id |-> x.id, by |-> x.by, key |-> x.key, level |-> x.level, directive |-> v]
    BY <2>1
  <2>3. y = [id |-> x.id, by |-> x.by, key |-> x.key, level |-> x.level, directive |-> FALSE]
    BY <2>2
  <2> HIDE DEF y
  <2> QED BY <2>3
<1> HIDE DEF y
<1>3. IsElement(y)
  BY <1>1, <1>2 DEF IsElement
<1>4. T = (elems \ {x}) \cup {y}
  BY DEF Passed, y
<1>5. y \in elems => y = x
  BY <1>1, <1>2 DEF Places
<1> HIDE DEF T
<1>6. /\ f \in [elems -> T] /\ (\A t \in T : \E e \in elems : f[e] = t)
      /\ (\A a, b \in elems : f[a] = f[b] => a = b)
      /\ \A e \in elems : f[e].id = e.id /\ f[e].by = e.by
  BY <1>2, <1>4, <1>5
<1>7. Live(used, T) /\ IsFiniteSet(T)
  <2> HIDE DEF f
  <2> QED BY <1>1, <1>6, LiveRelabelled
<1>8. \A a, b \in T : a.by = b.by /\ a.key = b.key => a = b
  BY <1>1, <1>2, <1>4 DEF Places
<1>9. \A e \in T : \E h \in elems :
        /\ e.id = h.id /\ e.by = h.by /\ e.key = h.key /\ e.level = h.level
        /\ e.directive => h.directive
  BY <1>2, <1>4
<1>10. ASSUME NEW i \in 1..Level PROVE {e \in T : e.level < i} = {e \in elems : e.level < i}
  BY <1>2, <1>4, Facts DEF Level
<1>11. \A e \in T : IsElement(e)
  BY <1>1, <1>3, <1>4
<1> QED
  <2>1. Same(T, elems)
    BY <1>7, <1>8, <1>9, <1>10, <1>11 DEF Same
  <2> QED BY <2>1 DEF T

\* A step that only marks elements, or the innermost frame, or adds to its journal
\* what is at its level.
LEMMA MarkEffect ==
    ASSUME IInv, phase = "expand", NEW g, frames' = [frames EXCEPT ![Level] = g], IsFrame(g),
           g.owner = Top.owner, g.form = Top.form, g.before = Top.before, g.claimed = Top.claimed,
           g.claiming => Top.claiming /\ inclusions' = inclusions,
           Level > 1 => \A e \in elems : e.level = Level =>
               Copies(e.id, g.journal) >= Copies(e.id, Top.journal),
           Level > 1 => \A e \in Below(Level) : Copies(e.id, g.journal) = 0,
           Same(elems', elems), used' = used, inclusions' \in inclusions..MaxInclusions,
           UNCHANGED <<pending, phase, next, names>>
    PROVE  IInv'
<1>1. /\ frames' \in Seq(Pieces(frames')) /\ frames' # << >> /\ Len(frames') = Len(frames)
      /\ frames'[Level] = g /\ \A i \in 1..Len(frames) : i # Level => frames'[i] = frames[i]
  BY OneChanged
<1>2. /\ Len(frames) \in Nat \ {0} /\ Level = Len(frames) /\ Level' = Level /\ Top = frames[Level]
      /\ inclusions \in Nat /\ inclusions' \in Nat /\ IsFrame(Top)
  <2>1. Level = Len(frames) /\ Level' = Len(frames')
    BY DEF Level
  <2>2. Len(frames) \in Nat /\ Len(frames) >= 1 /\ Top = frames[Len(frames)] /\ IsFrame(Top) /\ inclusions \in Nat
    BY Facts
  <2>3. Len(frames') = Len(frames)
    BY <1>1
  <2>4. Level' = Level /\ Top = frames[Level] /\ Len(frames) \in Nat \ {0}
    BY <2>1, <2>2, <2>3
  <2>5. inclusions' \in Nat
    BY <2>2
  <2> QED BY <2>1, <2>2, <2>4, <2>5
<1>3. Owners /\ Places /\ Journals /\ Live(used, elems)
  BY DEF IInv, Expansion
<1>4. ASSUME NEW i \in 1..Level
      PROVE  /\ frames'[i].owner = frames[i].owner /\ frames'[i].form = frames[i].form
             /\ frames'[i].before = frames[i].before /\ frames'[i].claimed = frames[i].claimed
             /\ frames'[i].claiming => frames[i].claiming /\ (i = Level => inclusions' = inclusions)
             /\ IsFrame(frames'[i])
  <2>1. CASE i = Level
    BY <1>1, <1>2, <2>1
  <2>2. CASE i # Level
    BY <1>1, <1>2, <2>2 DEF IInv, Shape
  <2> QED BY <2>1, <2>2
<1>5. \A e \in elems' : IsElement(e)'
  BY <1>2 DEF Same, IsElement
<1>6. Shape'
  <2>1. \A i \in 1..Level' : IsFrame(frames[i])'
    BY <1>2, <1>4 DEF IsFrame
  <2>2. \A id \in DOMAIN used' : used'[id].owner <= inclusions'
    BY <1>2 DEF IInv, Shape, IsTable
  <2>3. inclusions' \in 0..MaxInclusions
    BY <1>2, BoundAssumption
  <2> QED BY <1>1, <1>5, <2>1, <2>2, <2>3 DEF IInv, Shape, Same
<1>7. Owners'
  <2>1. 1 \in 1..Level
    BY <1>2
  <2>2. frames'[1].claiming => inclusions' = 0 /\ Level' = 1
    BY <1>2, <1>3, <1>4, <2>1 DEF Owners
  <2> QED BY <1>2, <1>3, <1>4, <2>1, <2>2 DEF Owners
<1>8. Places'
  <2>1. \A e, f \in elems' : e.by = f.by /\ e.key = f.key => e = f
    BY DEF Same
  <2>2. ASSUME NEW e \in elems'
        PROVE  /\ frames'[e.level].owner <= e.by
               /\ \A i \in 1..Level :
                    /\ e.level < i => e.by < frames'[i].owner
                    /\ e.by = frames'[i].owner => e.level = i /\ e.key < frames'[i].claimed
               /\ e.directive => e.by = frames'[e.level].owner
               /\ Mark(e.id, 1)'
    <3>1. PICK f \in elems : /\ e.id = f.id /\ e.by = f.by /\ e.key = f.key /\ e.level = f.level
                             /\ e.directive => f.directive
      BY DEF Same
    <3>2. f.level \in 1..Level
      BY DEF IInv, Shape, IsElement
    <3>3. Mark(e.id, 1)'
      BY <1>3, <3>1 DEF Places, Mark
    <3> QED BY <1>3, <1>4, <3>1, <3>2, <3>3 DEF Places
  <2> QED BY <1>2, <2>1, <2>2 DEF Places
<1>9. Journals'
  <2>1. ASSUME NEW e \in elems', e.level > 1
        PROVE  used[e.id].n <= Copies(e.id, frames'[e.level].journal)
    <3>1. PICK f \in elems : e.id = f.id /\ e.level = f.level
      BY DEF Same
    <3>2. f.level \in 1..Level /\ f.id \in DOMAIN used /\ used[f.id].n \in Nat
      BY <1>3 DEF IInv, Shape, IsElement, Live, IsTable
    <3>3. used[f.id].n <= Copies(f.id, frames[f.level].journal)
      BY <1>3, <2>1, <3>1 DEF Journals
    <3>4. CASE f.level = Level
      <4>1. Copies(f.id, g.journal) >= Copies(f.id, Top.journal) /\ frames'[e.level] = g
        BY <1>1, <1>2, <2>1, <3>1, <3>4
      <4>2. Copies(f.id, g.journal) \in Nat /\ Copies(f.id, Top.journal) \in Nat
        BY <1>2, CopiesType DEF IsFrame
      <4> QED BY <1>2, <3>1, <3>2, <3>3, <3>4, <4>1, <4>2
    <3>5. CASE f.level # Level
      BY <1>1, <1>2, <3>1, <3>2, <3>3, <3>5
    <3> QED BY <3>4, <3>5
  <2>2. ASSUME NEW i \in 2..Level, NEW e \in elems', e.level < i
        PROVE  Copies(e.id, frames'[i].journal) = 0
    <3>1. e \in Below(i)
      BY <2>2 DEF Same, Below
    <3>2. CASE i = Level
      BY <1>1, <2>2, <3>1, <3>2
    <3>3. CASE i # Level
      <4>1. i \in 1..Len(frames)
        BY <1>2
      <4>2. frames'[i] = frames[i]
        BY <1>1, <3>3, <4>1
      <4> QED BY <1>3, <3>1, <4>2 DEF Journals
    <3> QED BY <3>2, <3>3
  <2> QED BY <1>2, <2>1, <2>2 DEF Journals, Below
<1>10. ASSUME NEW i \in 2..Level, frames'[i].form = "inline" PROVE Live(frames'[i].before, Below(i)')
  <2>1. Below(i)' = Below(i)
    BY <1>2 DEF Below, Same
  <2>2. i \in 1..Level
    BY <1>2
  <2> QED BY <1>4, <1>10, <2>1, <2>2 DEF IInv, Expansion
<1>11. Live(used', elems')
  BY DEF Same
<1>12. Expansion'
  BY <1>2, <1>7, <1>8, <1>9, <1>10, <1>11 DEF Expansion, Live, IsTable, Bearing
<1>13. Naming'
  BY DEF Naming
<1> QED
  BY <1>6, <1>12, <1>13 DEF IInv

LEMMA FramesAsTheyAre ==
    ASSUME IInv
    PROVE  frames = [frames EXCEPT ![Level] = Top] /\ IsFrame(Top) /\ Top.claimed \in Nat
<1>1. frames \in Seq(Pieces(frames)) /\ Level \in 1..Len(frames) /\ Top = frames[Level] /\ IsFrame(Top)
  BY Facts DEF IInv, Shape, Level
<1>2. frames = [i \in 1..Len(frames) |-> frames[i]]
  BY <1>1
<1> QED
  BY <1>1, <1>2 DEF IsFrame

LEMMA EndClaimsStep == ASSUME IInv, EndClaims PROVE IInv'
<1>1. /\ phase = "expand" /\ frames' = [frames EXCEPT ![Level].claiming = FALSE]
      /\ UNCHANGED <<used, inclusions, pending, elems, phase, next, names>>
  BY DEF EndClaims
<1> DEFINE g == [Top EXCEPT !.claiming = FALSE]
<1>2. g = [owner |-> Top.owner, form |-> Top.form, own |-> Top.own, held |-> Top.held,
           journal |-> Top.journal, renamed |-> Top.renamed, claimed |-> Top.claimed,
           claiming |-> FALSE, before |-> Top.before]
  <2>1. Top = [owner |-> Top.owner, form |-> Top.form, own |-> Top.own, held |-> Top.held,
               journal |-> Top.journal, renamed |-> Top.renamed, claimed |-> Top.claimed,
               claiming |-> Top.claiming, before |-> Top.before]
    BY Facts DEF IsFrame
  <2>2. \A v : [Top EXCEPT !.claiming = v] =
          [owner |-> Top.owner, form |-> Top.form, own |-> Top.own, held |-> Top.held,
           journal |-> Top.journal, renamed |-> Top.renamed, claimed |-> Top.claimed,
           claiming |-> v, before |-> Top.before]
    BY <2>1
  <2> QED BY <2>2
<1>3. frames' = [frames EXCEPT ![Level] = g]
  BY <1>1, Facts DEF Level
<1> HIDE DEF g
<1>4. g.owner = Top.owner /\ g.form = Top.form /\ g.before = Top.before /\ g.claimed = Top.claimed
      /\ g.journal = Top.journal /\ g.own = Top.own /\ g.claiming = FALSE
  BY <1>2
<1>5. IsFrame(g)
  BY <1>2, <1>4, Facts DEF IsFrame
<1>6. Same(elems', elems)
  BY <1>1, SameSame
<1>7. \A e \in elems : Copies(e.id, Top.journal) \in Nat
  BY Facts, CopiesType DEF IsFrame
<1>8. Level > 1 => \A e \in elems : e.level = Level => Copies(e.id, g.journal) >= Copies(e.id, Top.journal)
  BY <1>4, <1>7
<1>9. Level > 1 => \A e \in Below(Level) : Copies(e.id, g.journal) = 0
  BY <1>1, <1>4, Facts DEF IInv, Expansion, Journals, Level
<1>10. inclusions' \in inclusions..MaxInclusions
  BY <1>1, BoundAssumption DEF IInv, Shape
<1> QED
  BY <1>1, <1>3, <1>4, <1>5, <1>6, <1>8, <1>9, <1>10, MarkEffect

LEMMA IncludeCodeStep == ASSUME IInv, NEW x \in elems, IncludeCode(x) PROVE IInv'
<1>1. /\ phase = "expand" /\ ~Top.claiming /\ x.level = Level /\ elems' = Passed(x)
      /\ inclusions < MaxInclusions /\ inclusions' = inclusions + 1
      /\ UNCHANGED <<used, frames, pending, phase, next, names>>
  BY DEF IncludeCode, Expanding, Handed, Reached, Directives
<1>2. frames' = [frames EXCEPT ![Level] = Top] /\ IsFrame(Top)
  BY <1>1, FramesAsTheyAre
<1>3. Same(elems', elems)
  BY <1>1, PassedSame
<1>4. Level > 1 => \A e \in elems : e.level = Level => Copies(e.id, Top.journal) >= Copies(e.id, Top.journal)
  BY Facts, CopiesType DEF IsFrame
<1>5. Level > 1 => \A e \in Below(Level) : Copies(e.id, Top.journal) = 0
  BY <1>1, Facts DEF IInv, Expansion, Journals, Level
<1>6. inclusions' \in inclusions..MaxInclusions
  BY <1>1, BoundAssumption DEF IInv, Shape
<1> QED
  BY <1>1, <1>2, <1>3, <1>4, <1>5, <1>6, MarkEffect

\* Giving an id back and claiming it again leaves the table as it was.
LEMMA ClaimedAgain ==
    ASSUME IInv, phase = "expand", NEW x \in elems
    PROVE  Reserve(Release(used, x.id), x.id, x.by) = used
<1> DEFINE new == Release(used, x.id)
<1>1. IsFiniteSet(elems) /\ Live(used, elems) /\ x.by \in Nat
  BY DEF IInv, Expansion, Shape, IsElement
<1>2. Live(new, elems \ {x}) /\ IsFiniteSet(elems \ {x})
  BY <1>1, LiveRemove, FS_Subset
<1> HIDE DEF new
<1>3. x.id \in DOMAIN new => new[x.id].owner = x.by
  <2>1. SUFFICES ASSUME x.id \in DOMAIN new PROVE new[x.id].owner = x.by
    OBVIOUS
  <2>2. PICK f \in elems \ {x} : f.id = x.id /\ new[x.id].owner = f.by
    BY <1>2, <2>1, LiveIds
  <2> QED BY <1>1, <2>2 DEF Live
<1>4. Live(Reserve(new, x.id, x.by), (elems \ {x}) \cup {x})
  BY <1>1, <1>2, <1>3, LiveAdd
<1>5. (elems \ {x}) \cup {x} = elems
  OBVIOUS
<1> QED
  BY <1>1, <1>4, <1>5, LiveUnique DEF new

LEMMA RefuseBlockStep == ASSUME IInv, NEW x \in elems, RefuseBlock(x) PROVE IInv'
<1>1. /\ phase = "expand" /\ x.level = Level /\ x.directive /\ elems' = Passed(x)
      /\ used' = Reserve(Release(used, x.id), x.id, Owner) /\ frames' = Journalled(x.id)
      /\ UNCHANGED <<inclusions, pending, phase, next, names>>
  BY DEF RefuseBlock, Expanding, Reached, Directives
<1>2. x.by = Owner /\ Places /\ Journals /\ Live(used, elems) /\ Top = frames[Level]
      /\ Level \in 1..Level /\ Level \in Nat
  BY <1>1, Facts DEF IInv, Expansion, Places, Owner, Level
<1>3. used' = used
  BY <1>1, <1>2, ClaimedAgain
<1> DEFINE J == IF Level = 1 THEN Top.journal ELSE Top.journal (+) SetToBag({x.id})
           g == [Top EXCEPT !.journal = J]
<1>4. frames' = [frames EXCEPT ![Level] = g]
  BY <1>1, JournalledIs
<1>5. g = [owner |-> Top.owner, form |-> Top.form, own |-> Top.own, held |-> Top.held,
           journal |-> J, renamed |-> Top.renamed, claimed |-> Top.claimed,
           claiming |-> Top.claiming, before |-> Top.before]
  BY Facts DEF IsFrame
<1>6. IsABag(J) /\ (Level > 1 => \A id : Copies(id, J) = Copies(id, Top.journal) + (IF id = x.id THEN 1 ELSE 0))
  <2>1. IsABag(Top.journal)
    BY Facts DEF IsFrame
  <2>2. /\ IsABag(Top.journal (+) SetToBag({x.id}))
        /\ \A id : Copies(id, Top.journal (+) SetToBag({x.id}))
                     = Copies(id, Top.journal) + (IF id = x.id THEN 1 ELSE 0)
    BY <2>1, OneMore
  <2> QED BY <2>1, <2>2
<1> HIDE DEF g, J
<1>7. g.owner = Top.owner /\ g.form = Top.form /\ g.before = Top.before /\ g.claimed = Top.claimed
      /\ g.journal = J /\ g.own = Top.own /\ g.claiming = Top.claiming
  BY <1>5
<1>8. IsFrame(g)
  BY <1>5, <1>6, <1>7, Facts DEF IsFrame
<1>9. \A id : Copies(id, Top.journal) \in Nat
  BY Facts, CopiesType DEF IsFrame
<1>10. Level > 1 => \A e \in elems : e.level = Level => Copies(e.id, g.journal) >= Copies(e.id, Top.journal)
  BY <1>6, <1>7, <1>9
<1>11. Level > 1 => \A e \in Below(Level) : Copies(e.id, g.journal) = 0
  <2>1. ASSUME Level > 1, NEW e \in Below(Level) PROVE Copies(e.id, g.journal) = 0
    <3>1. e \in elems /\ e.level < Level
      BY <2>1 DEF Below
    <3>2. e.by # x.by
      BY <1>2, <3>1 DEF Places, Owner, IInv, Shape, IsElement
    <3>3. e.id # x.id
      BY <1>2, <3>1, <3>2 DEF Live
    <3>4. Copies(e.id, Top.journal) = 0
      BY <1>2, <2>1 DEF Journals
    <3> QED BY <1>6, <1>7, <2>1, <3>3, <3>4
  <2> QED BY <2>1
<1>12. Same(elems', elems)
  BY <1>1, PassedSame
<1>13. inclusions' \in inclusions..MaxInclusions
  BY <1>1, BoundAssumption DEF IInv, Shape
<1>14. g.claiming => Top.claiming /\ inclusions' = inclusions
  BY <1>1, <1>7
<1> QED
  BY <1>1, <1>3, <1>4, <1>7, <1>8, <1>10, <1>11, <1>12, <1>13, <1>14, MarkEffect

-----------------------------------------------------------------------------
\* A child is one more frame, with nothing at its level yet.
LEMMA EnterEffect ==
    ASSUME IInv, phase = "expand", ~Top.claiming, NEW form \in {"block", "inline"},
           NEW own \in SUBSET Authored, NEW held,
           frames' = Append(frames, Frame(inclusions', form, own, held, used)),
           inclusions < MaxInclusions, inclusions' = inclusions + 1,
           elems' \subseteq elems, \A e \in elems \ elems' : e.level = Level,
           Live(used', elems'), \A e \in elems' : used'[e.id].n <= used[e.id].n,
           form = "inline" => used' = used /\ elems' = elems,
           UNCHANGED <<pending, phase, next, names>>
    PROVE  IInv'
<1> DEFINE g == Frame(inclusions', form, own, held, used)
           N == Len(frames) + 1
<1>1. /\ frames' \in Seq(Pieces(frames')) /\ frames' # << >> /\ Len(frames') = N
      /\ frames'[N] = g /\ \A i \in 1..Len(frames) : frames'[i] = frames[i]
  BY OneMoreFrame
<1>2. /\ Len(frames) \in Nat \ {0} /\ Level = Len(frames) /\ Level' = N /\ Top = frames[Level]
      /\ inclusions \in Nat /\ inclusions' \in Nat
  <2>1. Level = Len(frames) /\ Level' = Len(frames')
    BY DEF Level
  <2>2. Len(frames) \in Nat /\ Len(frames) >= 1 /\ Top = frames[Len(frames)] /\ inclusions \in Nat
    BY Facts
  <2>3. Len(frames) \in Nat \ {0} /\ Top = frames[Level]
    BY <2>1, <2>2
  <2> QED BY <1>1, <2>1, <2>2, <2>3
<1>3. /\ g.owner = inclusions + 1 /\ g.form = form /\ g.own = own /\ g.journal = EmptyBag
      /\ g.claimed = 1 /\ g.claiming = TRUE /\ g.before = used
      /\ g = [owner |-> g.owner, form |-> g.form, own |-> g.own, held |-> g.held,
              journal |-> g.journal, renamed |-> g.renamed, claimed |-> g.claimed,
              claiming |-> g.claiming, before |-> g.before]
  BY DEF Frame
<1> HIDE DEF g
<1>4. Owners /\ Places /\ Journals /\ Live(used, elems) /\ IsFiniteSet(elems)
  BY DEF IInv, Expansion, Shape
<1>5. \A i \in 1..N : i = N \/ i \in 1..Len(frames)
  BY <1>2
<1>6. \A e \in elems' : e \in elems /\ IsElement(e) /\ e.level \in 1..Len(frames) /\ e.by <= inclusions /\ e.by \in Nat
  BY <1>2 DEF IInv, Shape, IsElement
<1>7. IsFiniteSet(elems')
  BY <1>4, FS_Subset
<1>8. Shape'
  <2>1. ASSUME NEW i \in 1..N PROVE IsFrame(frames[i])'
    <3>1. CASE i = N
      <4>1. IsABag(g.journal) /\ g.owner \in 0..inclusions' /\ g.claimed \in Nat
        BY <1>2, <1>3, EmptyCopies
      <4>2. g.form \in {"block", "inline"} /\ g.own \subseteq Authored /\ g.claiming \in BOOLEAN
        BY <1>3
      <4>3. frames'[i] = g
        BY <1>1, <3>1
      <4> QED BY <1>3, <4>1, <4>2, <4>3 DEF IsFrame
    <3>2. CASE i \in 1..Len(frames)
      <4>1. IsFrame(frames[i]) /\ frames'[i] = frames[i]
        BY <1>1, <1>2, <3>2 DEF IInv, Shape
      <4> QED BY <1>2, <4>1 DEF IsFrame
    <3> QED BY <1>5, <3>1, <3>2
  <2>2. \A e \in elems' : IsElement(e)'
    BY <1>2, <1>6 DEF IsElement
  <2>3. ASSUME NEW id \in DOMAIN used' PROVE used'[id].owner <= inclusions'
    <3>1. PICK e \in elems' : used'[id].owner = e.by
      BY <1>7, LiveIds
    <3> QED BY <1>2, <1>6, <3>1
  <2>4. inclusions' \in 0..MaxInclusions
    BY <1>2, BoundAssumption
  <2>5. IsTable(used')
    BY DEF Live
  <2> QED BY <1>1, <1>2, <1>7, <2>1, <2>2, <2>3, <2>4, <2>5 DEF IInv, Shape
<1>9. Owners'
  <2>1. frames'[1] = frames[1] /\ 1 \in 1..Level
    BY <1>1, <1>2
  <2>2. ~frames[1].claiming
    BY <1>2, <1>4 DEF Owners
  <2>3. ASSUME NEW i \in 1..N, NEW j \in 1..N, i < j PROVE frames'[i].owner < frames'[j].owner
    <3>1. i \in 1..Len(frames) /\ frames'[i] = frames[i]
      BY <1>1, <1>2, <2>3
    <3>2. CASE j = N
      <4>1. frames[i].owner \in 0..inclusions
        BY <1>2, <3>1 DEF IInv, Shape, IsFrame
      <4> QED BY <1>1, <1>2, <1>3, <3>1, <3>2, <4>1
    <3>3. CASE j \in 1..Len(frames)
      BY <1>1, <1>2, <1>4, <2>3, <3>1, <3>3 DEF Owners
    <3> QED BY <1>5, <3>2, <3>3
  <2> QED BY <1>2, <1>4, <2>1, <2>2, <2>3 DEF Owners
<1>10. Places'
  <2>1. \A e, f \in elems' : e.by = f.by /\ e.key = f.key => e = f
    BY <1>4, <1>6 DEF Places
  <2>2. ASSUME NEW e \in elems'
        PROVE  frames'[e.level].owner <= e.by /\ (e.directive => e.by = frames'[e.level].owner)
    BY <1>1, <1>4, <1>6 DEF Places
  <2>3. ASSUME NEW e \in elems', NEW i \in 1..N
        PROVE  /\ e.level < i => e.by < frames'[i].owner
               /\ e.by = frames'[i].owner => e.level = i /\ e.key < frames'[i].claimed
    <3>1. CASE i = N
      <4>1. e.by < frames'[i].owner
        BY <1>1, <1>2, <1>3, <1>6, <3>1
      <4>2. e.by # frames'[i].owner
        BY <1>6, <4>1, <1>1, <1>2, <1>3, <3>1
      <4> QED BY <4>1, <4>2
    <3>2. CASE i \in 1..Len(frames)
      BY <1>1, <1>2, <1>4, <1>6, <3>2 DEF Places
    <3> QED BY <1>5, <3>1, <3>2
  <2>4. \A e \in elems' : Mark(e.id, 1)'
    BY <1>4, <1>6 DEF Places, Mark
  <2> QED BY <1>2, <2>1, <2>2, <2>3, <2>4 DEF Places
<1>11. Journals'
  <2>1. ASSUME NEW e \in elems', e.level > 1
        PROVE  used'[e.id].n <= Copies(e.id, frames'[e.level].journal)
    <3>1. used'[e.id].n <= used[e.id].n /\ used[e.id].n <= Copies(e.id, frames[e.level].journal)
      BY <1>4, <1>6, <2>1 DEF Journals
    <3>2. used'[e.id].n \in Nat /\ used[e.id].n \in Nat
      BY <1>4, <1>6 DEF Live, IsTable
    <3>3. Copies(e.id, frames[e.level].journal) \in Nat /\ frames'[e.level] = frames[e.level]
      BY <1>1, <1>2, <1>6, CopiesType DEF IInv, Shape, IsFrame
    <3>4. Copies(e.id, frames'[e.level].journal) = Copies(e.id, frames[e.level].journal)
      BY <3>3
    <3>5. used'[e.id].n <= Copies(e.id, frames[e.level].journal)
      BY <3>1, <3>2, <3>3
    <3> QED BY <3>4, <3>5
  <2>2. ASSUME NEW i \in 2..N, NEW e \in elems', e.level < i
        PROVE  Copies(e.id, frames'[i].journal) = 0
    <3>1. CASE i = N
      BY <1>1, <1>3, <3>1, EmptyCopies
    <3>2. CASE i # N
      <4>1. i \in 1..Len(frames) /\ i \in 2..Level
        BY <1>2, <3>2
      <4>2. frames'[i] = frames[i]
        BY <1>1, <4>1
      <4>3. e \in Below(i)
        BY <1>6, <2>2 DEF Below
      <4> QED BY <1>4, <4>1, <4>2, <4>3 DEF Journals
    <3> QED BY <3>1, <3>2
  <2> QED BY <1>2, <2>1, <2>2 DEF Journals, Below
<1>12. ASSUME NEW i \in 2..N, frames'[i].form = "inline" PROVE Live(frames'[i].before, Below(i)')
  <2>1. CASE i = N
    <3>1. Below(i)' = elems
      BY <1>1, <1>2, <1>3, <1>6, <1>12, <2>1 DEF Below
    <3> QED BY <1>1, <1>3, <1>4, <2>1, <3>1
  <2>2. CASE i # N
    <3>1. i \in 1..Len(frames) /\ i \in 2..Level
      BY <1>2, <2>2
    <3>2. frames'[i] = frames[i]
      BY <1>1, <3>1
    <3>3. Below(i)' = Below(i)
      BY <1>2, <3>1 DEF Below
    <3> QED BY <1>12, <3>1, <3>2, <3>3 DEF IInv, Expansion
  <2> QED BY <2>1, <2>2
<1>13. Expansion'
  BY <1>2, <1>9, <1>10, <1>11, <1>12 DEF Expansion, Live, IsTable, Bearing
<1>14. Naming'
  BY DEF Naming
<1> QED
  BY <1>8, <1>13, <1>14 DEF IInv

LEMMA EnterInlineStep == ASSUME IInv, NEW own \in Documents, EnterInline(own) PROVE IInv'
<1>1. /\ phase = "expand" /\ ~Top.claiming /\ inclusions < MaxInclusions /\ inclusions' = inclusions + 1
      /\ frames' = Append(frames, Frame(inclusions', "inline", own, NoElement, used))
      /\ UNCHANGED <<used, pending, elems, phase, next, names>>
  BY DEF EnterInline, Expanding, Handed
<1>2. own \in SUBSET Authored
  BY DEF Documents
<1>3. Live(used', elems')
  BY <1>1 DEF IInv, Expansion
<1>4. \A e \in elems' : used'[e.id].n <= used[e.id].n
  BY <1>1 DEF IInv, Expansion, Live, IsTable
<1> QED
  BY <1>1, <1>2, <1>3, <1>4, EnterEffect

\* A count only falls when an element gives its id back.
LEMMA ReleaseLowers ==
    ASSUME NEW S, IsFiniteSet(S), NEW table, Live(table, S), NEW x \in S
    PROVE  \A e \in S \ {x} : Release(table, x.id)[e.id].n <= table[e.id].n
<1>1. SUFFICES ASSUME NEW e \in S \ {x} PROVE Release(table, x.id)[e.id].n <= table[e.id].n
  OBVIOUS
<1>2. Live(Release(table, x.id), S \ {x}) /\ IsFiniteSet(S \ {x})
  BY LiveRemove, FS_Subset
<1>3. /\ Release(table, x.id)[e.id].n = Cardinality(Bearing(S \ {x}, e.id))
      /\ table[e.id].n = Cardinality(Bearing(S, e.id))
  BY <1>2 DEF Live
<1>4. Bearing(S \ {x}, e.id) \subseteq Bearing(S, e.id) /\ IsFiniteSet(Bearing(S, e.id))
  BY BearingFinite DEF Bearing
<1> QED
  BY ZenonT(50), <1>3, <1>4, FS_Subset

LEMMA EnterBlockStep ==
    ASSUME IInv, NEW own \in Documents, NEW x \in elems \cup {NoElement}, EnterBlock(x, own) PROVE IInv'
<1>1. /\ phase = "expand" /\ ~Top.claiming /\ inclusions < MaxInclusions /\ inclusions' = inclusions + 1
      /\ frames' = Append(frames, Frame(inclusions', "block", own, x, used))
      /\ x = NoElement \/ (x \in elems /\ x.level = Level)
      /\ used' = IF x = NoElement THEN used ELSE Release(used, x.id)
      /\ elems' = elems \ {x}
      /\ UNCHANGED <<pending, phase, next, names>>
  BY DEF EnterBlock, Expanding, Handed, Reached, Directives
<1>2. own \in SUBSET Authored
  BY DEF Documents
<1>3. Live(used, elems) /\ IsFiniteSet(elems)
  BY <1>1 DEF IInv, Expansion, Shape
<1>4. NoElement \notin elems
  <2>1. \A e \in elems : e.level # 0
    BY Facts DEF IInv, Shape, IsElement, Level
  <2> QED BY <2>1 DEF NoElement
<1>5. Live(used', elems') /\ \A e \in elems' : used'[e.id].n <= used[e.id].n
  <2>1. CASE x = NoElement
    <3>1. used' = used /\ elems' = elems
      BY <1>1, <1>4, <2>1
    <3> QED BY <1>3, <3>1 DEF Live, IsTable
  <2>2. CASE x # NoElement
    <3>1. x \in elems /\ used' = Release(used, x.id)
      BY <1>1, <2>2
    <3>2. Live(Release(used, x.id), elems \ {x})
      BY <1>3, <3>1, LiveRemove
    <3>3. \A e \in elems \ {x} : Release(used, x.id)[e.id].n <= used[e.id].n
      BY <1>3, <3>1, ReleaseLowers
    <3> QED BY <1>1, <3>1, <3>2, <3>3
  <2> QED BY <2>1, <2>2
<1>6. \A e \in elems \ elems' : e.level = Level
  BY <1>1, <1>4
<1> QED
  BY <1>1, <1>2, <1>5, <1>6, EnterEffect

-----------------------------------------------------------------------------
\* A frame that lost its child: all but the journal is as it was.
Kept(g, f) ==
    /\ IsFrame(g) /\ g.owner = f.owner /\ g.form = f.form /\ g.before = f.before
    /\ g.claimed = f.claimed /\ g.claiming = f.claiming

\* Where an element is once the innermost frame is gone.
Now(e) == IF e.level = Level THEN Level - 1 ELSE e.level

LEMMA AssembledIs ==
    ASSUME IInv, NEW D \in SUBSET elems
    PROVE  \E h \in [D -> Assembled(D)] :
             /\ \A t \in Assembled(D) : \E e \in D : h[e] = t
             /\ \A e \in D : /\ h[e].id = e.id /\ h[e].by = e.by /\ h[e].key = e.key
                             /\ h[e].level = Now(e) /\ h[e].directive = e.directive
                             /\ e.level # Level => h[e] = e
                             /\ h[e] = [id |-> h[e].id, by |-> h[e].by, key |-> h[e].key,
                                        level |-> h[e].level, directive |-> h[e].directive]
<1> DEFINE h == [e \in D |-> [e EXCEPT !.level = IF @ = Level THEN Level - 1 ELSE @]]
<1>1. h \in [D -> Assembled(D)] /\ \A t \in Assembled(D) : \E e \in D : h[e] = t
  BY DEF Assembled
<1>2. ASSUME NEW e \in D
      PROVE  /\ h[e].id = e.id /\ h[e].by = e.by /\ h[e].key = e.key
             /\ h[e].level = Now(e) /\ h[e].directive = e.directive
             /\ e.level # Level => h[e] = e
             /\ h[e] = [id |-> h[e].id, by |-> h[e].by, key |-> h[e].key,
                        level |-> h[e].level, directive |-> h[e].directive]
  <2>1. e = [id |-> e.id, by |-> e.by, key |-> e.key, level |-> e.level, directive |-> e.directive]
    BY DEF IInv, Shape, IsElement
  <2>2. \A v : [e EXCEPT !.level = v]
                 = [id |-> e.id, by |-> e.by, key |-> e.key, level |-> v, directive |-> e.directive]
    BY <2>1
  <2>3. h[e] = [e EXCEPT !.level = Now(e)]
    BY DEF Now
  <2>4. h[e] = [id |-> e.id, by |-> e.by, key |-> e.key, level |-> Now(e), directive |-> e.directive]
    BY <2>2, <2>3
  <2>5. e.level # Level => Now(e) = e.level
    BY DEF Now
  <2> HIDE DEF h
  <2>6. e.level # Level => h[e] = e
    BY <2>1, <2>4, <2>5
  <2>7. /\ h[e].id = e.id /\ h[e].by = e.by /\ h[e].key = e.key
        /\ h[e].level = Now(e) /\ h[e].directive = e.directive
    BY <2>4
  <2> QED BY <2>4, <2>6, <2>7
<1> HIDE DEF h
<1> QED
  BY <1>1, <1>2

\* A child is left: what stays of it is at the level below.
LEMMA LeaveEffect ==
    ASSUME IInv, phase = "expand", Level > 1, Directives = {},
           NEW D \in SUBSET elems, \A e \in elems \ D : e.level = Level,
           elems' = Assembled(D), Live(used', D),
           frames' \in Seq(Pieces(frames')), frames' # << >>, Len(frames') = Len(frames) - 1,
           \A i \in 1..(Len(frames) - 1) : Kept(frames'[i], frames[i]),
           \A e \in D : Now(e) > 1 => used'[e.id].n <= Copies(e.id, frames'[Now(e)].journal),
           \A i \in 2..(Len(frames) - 1) : \A e \in Below(i) : Copies(e.id, frames'[i].journal) = 0,
           UNCHANGED <<inclusions, pending, phase, next, names>>
    PROVE  IInv'
<1>1. /\ Len(frames) \in Nat /\ Len(frames) > 1 /\ Level = Len(frames) /\ Level' = Len(frames) - 1
      /\ inclusions \in Nat
  BY Facts DEF Level
<1>2. PICK h \in [D -> elems'] :
        /\ \A t \in elems' : \E e \in D : h[e] = t
        /\ \A e \in D : /\ h[e].id = e.id /\ h[e].by = e.by /\ h[e].key = e.key
                        /\ h[e].level = Now(e) /\ h[e].directive = e.directive
                        /\ e.level # Level => h[e] = e
                        /\ h[e] = [id |-> h[e].id, by |-> h[e].by, key |-> h[e].key,
                                   level |-> h[e].level, directive |-> h[e].directive]
  BY AssembledIs
<1>3. Owners /\ Places /\ Journals /\ IsFiniteSet(elems) /\ IsFiniteSet(D)
  BY FS_Subset DEF IInv, Expansion, Shape
<1>4. \A a, b \in D : h[a] = h[b] => a = b
  <2>1. \A a, b \in D : h[a] = h[b] => a.by = b.by /\ a.key = b.key
    BY <1>2
  <2> QED BY <1>3, <2>1 DEF Places
<1>5. Live(used', elems') /\ IsFiniteSet(elems')
  <2>1. \A e \in D : h[e].id = e.id /\ h[e].by = e.by
    BY <1>2
  <2> QED BY <1>2, <1>3, <1>4, <2>1, LiveRelabelled
<1>6. ASSUME NEW t \in elems'
      PROVE  \E e \in D : /\ h[e] = t /\ IsElement(e) /\ e.level \in 1..Len(frames)
                          /\ t.id = e.id /\ t.by = e.by /\ t.key = e.key /\ t.level = Now(e)
                          /\ t.directive = e.directive
                          /\ e.level # Level => t = e /\ t.level = e.level
                          /\ e.level = Level => t.level = Len(frames) - 1
                          /\ Now(e) \in 1..(Len(frames) - 1)
  <2>1. PICK e \in D : h[e] = t
    BY <1>2
  <2>2. IsElement(e) /\ e.level \in 1..Len(frames)
    BY <1>1 DEF IInv, Shape, IsElement
  <2>3. Now(e) \in 1..(Len(frames) - 1) /\ (e.level = Level => Now(e) = Len(frames) - 1)
    BY <1>1, <2>2 DEF Now
  <2>4. /\ t.id = e.id /\ t.by = e.by /\ t.key = e.key /\ t.level = Now(e) /\ t.directive = e.directive
        /\ e.level # Level => t = e
    BY <1>2, <2>1
  <2> QED BY <2>1, <2>2, <2>3, <2>4
<1>7. Shape'
  <2>1. ASSUME NEW t \in elems' PROVE IsElement(t)'
    <3>1. PICK e \in D : /\ h[e] = t /\ IsElement(e) /\ t.by = e.by /\ t.key = e.key /\ t.level = Now(e)
                         /\ t.directive = e.directive /\ Now(e) \in 1..(Len(frames) - 1)
      BY <1>6, <2>1
    <3>2. t = [id |-> t.id, by |-> t.by, key |-> t.key, level |-> t.level, directive |-> t.directive]
      BY <1>2, <3>1
    <3> QED BY <1>1, <3>1, <3>2 DEF IsElement
  <2>2. \A i \in 1..Level' : IsFrame(frames[i])'
    BY <1>1 DEF Kept, IsFrame
  <2>3. ASSUME NEW id \in DOMAIN used' PROVE used'[id].owner <= inclusions'
    <3>1. PICK e \in D : used'[id].owner = e.by
      BY <1>3, LiveIds
    <3> QED BY <3>1 DEF IInv, Shape, IsElement
  <2>4. IsTable(used')
    BY DEF Live
  <2> QED BY <1>1, <1>5, <2>1, <2>2, <2>3, <2>4 DEF IInv, Shape
<1>8. \A i \in 1..Level' : /\ i \in 1..Level /\ frames'[i].owner = frames[i].owner
                           /\ frames'[i].claimed = frames[i].claimed
                           /\ frames'[i].claiming = frames[i].claiming
  BY <1>1 DEF Kept
<1>9. Owners'
  <2>1. 1 \in 1..Level' /\ ~frames[1].claiming
    BY <1>1, <1>3 DEF Owners
  <2> QED BY <1>3, <1>8, <2>1 DEF Owners
<1>10. Places'
  <2>1. ASSUME NEW t \in elems', NEW u \in elems', t.by = u.by, t.key = u.key PROVE t = u
    <3>1. PICK a \in D : h[a] = t /\ t.by = a.by /\ t.key = a.key
      BY <1>6
    <3>2. PICK b \in D : h[b] = u /\ u.by = b.by /\ u.key = b.key
      BY <1>6
    <3> QED BY ZenonT(50), <1>3, <2>1, <3>1, <3>2 DEF Places
  <2>2. ASSUME NEW t \in elems'
        PROVE  /\ frames'[t.level].owner <= t.by
               /\ t.directive => t.by = frames'[t.level].owner
               /\ Mark(t.id, 1)'
               /\ \A i \in 1..Level' :
                    /\ t.level < i => t.by < frames'[i].owner
                    /\ t.by = frames'[i].owner => t.level = i /\ t.key < frames'[i].claimed
    <3>1. PICK e \in D : /\ IsElement(e) /\ e.level \in 1..Len(frames)
                         /\ t.id = e.id /\ t.by = e.by /\ t.key = e.key /\ t.directive = e.directive
                         /\ e.level # Level => t = e /\ t.level = e.level
                         /\ e.level = Level => t.level = Len(frames) - 1
      BY <1>6
    <3>2. e.by \in Nat /\ frames[e.level].owner <= e.by /\ Mark(e.id, 1)
      BY <1>1, <1>3, <3>1 DEF Places, IsElement
    <3>3. Mark(t.id, 1)'
      BY <3>1, <3>2 DEF Mark
    <3>4. \A i \in 1..Level : frames[i].owner \in Nat
      <4>1. \A i \in 1..Level : frames[i].owner \in 0..inclusions
        BY DEF IInv, Shape, IsFrame
      <4> QED BY <1>1, <4>1
    <3>5. CASE e.level # Level
      <4>1. t.level \in 1..Level'
        BY <1>1, <3>1, <3>5
      <4>2. frames'[t.level].owner <= t.by /\ (t.directive => t.by = frames'[t.level].owner)
        BY <1>3, <1>8, <3>1, <3>2, <3>5, <4>1 DEF Places
      <4>3. ASSUME NEW i \in 1..Level'
            PROVE  /\ t.level < i => t.by < frames'[i].owner
                   /\ t.by = frames'[i].owner => t.level = i /\ t.key < frames'[i].claimed
        BY <1>3, <1>8, <3>1, <3>5 DEF Places
      <4> QED BY <3>3, <4>2, <4>3
    <3>6. CASE e.level = Level
      <4>1. t.level = Len(frames) - 1 /\ t.level \in 1..Level' /\ Level \in 1..Level
        BY <1>1, <3>1, <3>6
      <4>2. ~t.directive
        BY <3>1, <3>6 DEF Directives
      <4>3. ASSUME NEW i \in 1..Level' PROVE frames'[i].owner < t.by
        <5>1. i < Level /\ i \in 1..Level
          BY <1>1, <4>3
        <5>2. frames[i].owner < frames[Level].owner /\ frames[Level].owner <= e.by
          BY <1>3, <3>2, <3>6, <4>1, <5>1 DEF Owners
        <5>3. frames[i].owner < e.by
          BY <3>2, <3>4, <4>1, <5>1, <5>2
        <5> QED BY <1>8, <3>1, <4>3, <5>3
      <4>4. \A i \in 1..Level' : frames'[i].owner \in Nat
        BY <1>8, <3>4
      <4>5. ASSUME NEW i \in 1..Level' PROVE t.by # frames'[i].owner /\ ~(t.level < i)
        BY <1>1, <3>1, <3>2, <4>1, <4>3, <4>4
      <4>6. frames'[t.level].owner <= t.by
        BY <3>1, <3>2, <4>1, <4>3, <4>4
      <4> QED BY <3>3, <4>2, <4>5, <4>6
    <3> QED BY <3>5, <3>6
  <2> QED BY <2>1, <2>2 DEF Places
<1>11. Journals'
  <2>1. ASSUME NEW t \in elems', t.level > 1
        PROVE  used'[t.id].n <= Copies(t.id, frames'[t.level].journal)
    <3>1. PICK e \in D : t.id = e.id /\ t.level = Now(e)
      BY <1>6
    <3> QED BY <2>1, <3>1
  <2>2. ASSUME NEW i \in 2..Level', NEW t \in elems', t.level < i
        PROVE  Copies(t.id, frames'[i].journal) = 0
    <3>1. PICK e \in D : /\ t.id = e.id /\ e.level \in 1..Len(frames)
                         /\ e.level # Level => t = e /\ t.level = e.level
                         /\ e.level = Level => t.level = Len(frames) - 1
      BY <1>6
    <3>2. e.level < i
      BY <1>1, <2>2, <3>1
    <3>3. e \in Below(i)
      BY <3>2 DEF Below
    <3> QED BY <1>1, <3>1, <3>3
  <2> QED BY <2>1, <2>2 DEF Journals, Below
<1>12. ASSUME NEW i \in 2..Level', frames'[i].form = "inline" PROVE Live(frames'[i].before, Below(i)')
  <2>1. Below(i)' = Below(i)
    <3>1. ASSUME NEW t \in elems', t.level < i PROVE t \in Below(i)
      <4>1. PICK e \in D : /\ e.level # Level => t = e /\ t.level = e.level
                           /\ e.level = Level => t.level = Len(frames) - 1
        BY <1>6
      <4>2. t = e
        BY <1>1, <3>1, <4>1
      <4> QED BY <3>1, <4>2 DEF Below
    <3>2. ASSUME NEW e \in elems, e.level < i PROVE e \in elems'
      <4>1. e.level # Level
        BY <1>1, <3>2
      <4>2. e \in D
        BY <4>1
      <4> QED BY <1>2, <4>1, <4>2
    <3> QED BY <3>1, <3>2 DEF Below
  <2>2. i \in 2..Level /\ frames'[i].form = frames[i].form /\ frames'[i].before = frames[i].before
    BY SMTT(30), <1>1 DEF Kept
  <2> QED BY <1>12, <2>1, <2>2 DEF IInv, Expansion
<1>13. Expansion'
  BY <1>5, <1>9, <1>10, <1>11, <1>12 DEF Expansion, Live, IsTable, Bearing
<1>14. Naming'
  BY DEF Naming
<1> QED
  BY <1>7, <1>13, <1>14 DEF IInv

\* What a merge hands to the enclosing frame: the child's journal, unless that is the root.
LEMMA CommittedIs ==
    ASSUME IInv, Level > 1
    PROVE  /\ Committed \in Seq(Pieces(Committed)) /\ Committed # << >>
           /\ Len(Committed) = Len(frames) - 1
           /\ \A i \in 1..(Len(frames) - 1) : Kept(Committed[i], frames[i])
           /\ \A i \in 1..(Len(frames) - 1) : i = 1 \/ i # Level - 1 => Committed[i] = frames[i]
           /\ Level > 2 => \A x : Copies(x, Committed[Level - 1].journal)
                                    = Copies(x, frames[Level - 1].journal) + Copies(x, Top.journal)
<1>1. Level = Len(frames) /\ Len(frames) \in Nat /\ IsFrame(Top) /\ Len(frames) > 1
  BY Facts DEF Level
<1>2. /\ Popped \in Seq(Pieces(Popped)) /\ Popped # << >> /\ Len(Popped) = Len(frames) - 1
      /\ \A i \in 1..(Len(frames) - 1) : Popped[i] = frames[i]
  BY OneFrameLess
<1>3. \A i \in 1..(Len(frames) - 1) : IsFrame(frames[i])
  BY <1>1 DEF IInv, Shape
<1>4. CASE Level = 2
  <2>1. Committed = Popped
    BY <1>4 DEF Committed
  <2>2. \A i \in 1..(Len(frames) - 1) : Kept(Popped[i], frames[i])
    BY <1>2, <1>3 DEF Kept
  <2> QED BY <1>1, <1>2, <1>4, <2>1, <2>2
<1>5. CASE Level # 2
  <2> DEFINE f == frames[Level - 1]
             J == f.journal (+) Top.journal
             g == [owner |-> f.owner, form |-> f.form, own |-> f.own, held |-> f.held,
                   journal |-> J, renamed |-> f.renamed, claimed |-> f.claimed,
                   claiming |-> f.claiming, before |-> f.before]
             C == [Popped EXCEPT ![Level - 1] = g]
             T == Pieces(Popped) \cup {g}
  <2>1. Level - 1 \in 1..(Len(frames) - 1) /\ Popped[Level - 1] = f /\ IsFrame(f) /\ Level > 2 /\ Level - 1 # 1
    BY <1>1, <1>2, <1>3, <1>5
  <2>2. [f EXCEPT !.journal = J] = g
    BY <2>1 DEF IsFrame
  <2>3. Committed = C
    <3>1. Committed = [Popped EXCEPT ![Level - 1].journal = @ (+) Top.journal]
      BY <1>5 DEF Committed
    <3>2. [Popped EXCEPT ![Level - 1].journal = @ (+) Top.journal]
            = [Popped EXCEPT ![Level - 1] = [f EXCEPT !.journal = J]]
      <4> HIDE DEF g
      <4> QED BY <2>1
    <3> HIDE DEF g, J
    <3> QED BY <2>2, <3>1, <3>2
  <2>4. IsABag(J) /\ \A x : Copies(x, J) = Copies(x, f.journal) + Copies(x, Top.journal)
    BY <1>1, <2>1, Together DEF IsFrame
  <2>5. Kept(g, f) /\ g.journal = J
    <3> HIDE DEF J
    <3> QED BY <2>1, <2>4 DEF IsFrame, Kept
  <2>6. Popped \in Seq(T) /\ g \in T
    BY <1>2, SeqDef
  <2> HIDE DEF T, g, f, J
  <2>7. /\ C \in Seq(T) /\ Len(C) = Len(frames) - 1 /\ C[Level - 1] = g
        /\ \A i \in 1..(Len(frames) - 1) : i # Level - 1 => C[i] = Popped[i]
    BY <1>1, <1>2, <2>1, <2>6
  <2> HIDE DEF C
  <2>8. C \in Seq(Pieces(C)) /\ C # << >>
    BY <1>1, <2>7, Repacked
  <2>9. ASSUME NEW i \in 1..(Len(frames) - 1)
        PROVE  Kept(C[i], frames[i]) /\ (i = 1 \/ i # Level - 1 => C[i] = frames[i])
    <3>1. CASE i = Level - 1
      BY <2>1, <2>5, <2>7, <3>1 DEF f
    <3>2. CASE i # Level - 1
      <4>1. C[i] = frames[i]
        BY <1>2, <2>7, <3>2
      <4> QED BY <1>3, <3>2, <4>1 DEF Kept
    <3> QED BY <3>1, <3>2
  <2>10. \A x : Copies(x, C[Level - 1].journal) = Copies(x, frames[Level - 1].journal) + Copies(x, Top.journal)
    BY <2>4, <2>5, <2>7 DEF f
  <2> QED BY <2>3, <2>7, <2>8, <2>9, <2>10
<1> QED
  BY <1>4, <1>5

\* A merge: the enclosing frame answers for the child's elements.
LEMMA MergeEffect ==
    ASSUME IInv, phase = "expand", Level > 1, Directives = {},
           NEW D \in SUBSET elems, \A e \in elems \ D : e.level = Level,
           elems' = Assembled(D), Live(used', D), \A e \in D : used'[e.id].n <= used[e.id].n,
           frames' = Committed, UNCHANGED <<inclusions, pending, phase, next, names>>
    PROVE  IInv'
<1>1. Level = Len(frames) /\ Len(frames) \in Nat /\ IsFrame(Top) /\ Len(frames) > 1 /\ Top = frames[Level]
  BY Facts DEF Level
<1>2. /\ frames' \in Seq(Pieces(frames')) /\ frames' # << >> /\ Len(frames') = Len(frames) - 1
      /\ \A i \in 1..(Len(frames) - 1) : Kept(frames'[i], frames[i])
      /\ \A i \in 1..(Len(frames) - 1) : i = 1 \/ i # Level - 1 => frames'[i] = frames[i]
      /\ Level > 2 => \A x : Copies(x, frames'[Level - 1].journal)
                               = Copies(x, frames[Level - 1].journal) + Copies(x, Top.journal)
  BY CommittedIs
<1>3. Journals /\ Live(used, elems)
  BY DEF IInv, Expansion
<1>4. \A i \in 1..Level : \A x : Copies(x, frames[i].journal) \in Nat
  BY CopiesType DEF IInv, Shape, IsFrame
<1>5. ASSUME NEW e \in D, Now(e) > 1
      PROVE  used'[e.id].n <= Copies(e.id, frames'[Now(e)].journal)
  <2>1. e.level \in 1..Level /\ used'[e.id].n <= used[e.id].n
    BY DEF IInv, Shape, IsElement
  <2>2. used'[e.id].n \in Nat /\ used[e.id].n \in Nat
    BY <1>3 DEF Live, IsTable
  <2>3. e.level > 1
    BY <1>1, <1>5, <2>1 DEF Now
  <2>4. used[e.id].n <= Copies(e.id, frames[e.level].journal)
    BY <1>3, <2>3 DEF Journals
  <2>5. Copies(e.id, frames[e.level].journal) <= Copies(e.id, frames'[Now(e)].journal)
    <3>1. CASE e.level < Level - 1
      <4>1. Now(e) = e.level /\ e.level \in 1..(Len(frames) - 1) /\ e.level # Level - 1
        BY <1>1, <2>1, <3>1 DEF Now
      <4>2. frames'[Now(e)] = frames[e.level]
        BY <1>2, <4>1
      <4> QED BY <1>4, <2>1, <4>2
    <3>2. CASE e.level >= Level - 1
      <4>1. Now(e) = Level - 1 /\ Level > 2 /\ (e.level = Level \/ e.level = Level - 1)
        BY <1>1, <1>5, <2>1, <3>2 DEF Now
      <4>2. Copies(e.id, frames'[Now(e)].journal)
              = Copies(e.id, frames[Level - 1].journal) + Copies(e.id, Top.journal)
        BY <1>2, <4>1
      <4>3. Copies(e.id, frames[Level - 1].journal) \in Nat /\ Copies(e.id, Top.journal) \in Nat
        BY <1>1, <1>4, <4>1
      <4>4. \/ Copies(e.id, frames[e.level].journal) = Copies(e.id, frames[Level - 1].journal)
            \/ Copies(e.id, frames[e.level].journal) = Copies(e.id, Top.journal)
        BY <1>1, <4>1
      <4> QED BY <4>2, <4>3, <4>4
    <3> QED BY <1>1, <2>1, <3>1, <3>2
  <2>6. Now(e) \in 1..(Len(frames) - 1)
    BY <1>1, <2>1 DEF Now
  <2>7. Copies(e.id, frames'[Now(e)].journal) \in Nat /\ Copies(e.id, frames[e.level].journal) \in Nat
    BY <1>2, <1>4, <2>1, <2>6, CopiesType DEF Kept, IsFrame
  <2> QED BY <2>1, <2>2, <2>4, <2>5, <2>7
<1>6. ASSUME NEW i \in 2..(Len(frames) - 1), NEW e \in Below(i)
      PROVE  Copies(e.id, frames'[i].journal) = 0
  <2>1. i \in 2..Level /\ Copies(e.id, frames[i].journal) = 0
    BY <1>1, <1>3 DEF Journals
  <2>2. CASE i # Level - 1
    <3>1. frames'[i] = frames[i]
      BY <1>2, <2>2
    <3> QED BY <2>1, <3>1
  <2>3. CASE i = Level - 1
    <3>1. e \in Below(Level) /\ Level \in 2..Level /\ Level > 2
      BY <1>1, <2>3 DEF Below, IInv, Shape, IsElement
    <3>2. Copies(e.id, Top.journal) = 0
      BY <1>1, <1>3, <3>1 DEF Journals
    <3> QED BY <1>2, <2>1, <2>3, <3>1, <3>2
  <2> QED BY <2>2, <2>3
<1> QED
  BY <1>2, <1>5, <1>6, LeaveEffect

LEMMA MergeBlockStep == ASSUME IInv, MergeBlock PROVE IInv'
<1>1. /\ phase = "expand" /\ Level > 1 /\ Directives = {} /\ frames' = Committed /\ elems' = Assembled(elems)
      /\ UNCHANGED <<used, inclusions, pending, phase, next, names>>
  BY DEF MergeBlock, ChildDone, Expanding
<1>2. Live(used', elems) /\ \A e \in elems : used'[e.id].n <= used[e.id].n
  BY <1>1 DEF IInv, Expansion, Live, IsTable
<1> QED
  BY <1>1, <1>2, MergeEffect

LEMMA MergeInlineStep == ASSUME IInv, NEW x \in elems \cup {NoElement}, MergeInline(x) PROVE IInv'
<1>1. /\ phase = "expand" /\ Level > 1 /\ Directives = {} /\ frames' = Committed
      /\ elems' = Assembled(elems \ {x})
      /\ x = NoElement \/ (x \in elems /\ x.level = Level)
      /\ used' = IF x = NoElement THEN used ELSE Release(used, x.id)
      /\ UNCHANGED <<inclusions, pending, phase, next, names>>
  BY DEF MergeInline, ChildDone, Expanding
<1>2. Live(used, elems) /\ IsFiniteSet(elems)
  BY <1>1 DEF IInv, Expansion, Shape
<1>3. NoElement \notin elems
  <2>1. \A e \in elems : e.level # 0
    BY Facts DEF IInv, Shape, IsElement, Level
  <2> QED BY <2>1 DEF NoElement
<1> DEFINE D == elems \ {x}
<1>4. Live(used', D) /\ \A e \in D : used'[e.id].n <= used[e.id].n
  <2>1. CASE x = NoElement
    <3>1. used' = used /\ D = elems
      BY <1>1, <1>3, <2>1
    <3>2. \A e \in elems : used[e.id].n \in Nat
      BY <1>2 DEF Live, IsTable
    <3>3. Live(used', D)
      BY <1>2, <3>1
    <3>4. \A e \in D : used'[e.id].n <= used[e.id].n
      BY <3>1, <3>2
    <3> QED BY <3>3, <3>4
  <2>2. CASE x # NoElement
    <3>1. x \in elems /\ used' = Release(used, x.id)
      BY <1>1, <2>2
    <3>2. Live(Release(used, x.id), elems \ {x})
      BY <1>2, <3>1, LiveRemove
    <3>3. \A e \in elems \ {x} : Release(used, x.id)[e.id].n <= used[e.id].n
      BY <1>2, <3>1, ReleaseLowers
    <3> QED BY <3>1, <3>2, <3>3
  <2> QED BY <2>1, <2>2
<1>5. D \in SUBSET elems /\ \A e \in elems \ D : e.level = Level
  BY <1>1, <1>3
<1> HIDE DEF D
<1> QED
  <2>1. elems' = Assembled(D)
    BY <1>1 DEF D
  <2> QED BY <1>1, <1>4, <1>5, <2>1, MergeEffect

\* What a rejection gives back is what the child and its includes claimed.
LEMMA RejectInlineGives ==
    ASSUME IInv, RejectInline
    PROVE  Live(used', Below(Level)) /\ used' = Top.before
<1>1. /\ phase = "expand" /\ Level > 1 /\ Top.form = "inline" /\ used' = Give(used, Top.journal)
  BY DEF RejectInline, ChildDone, Expanding
<1>2. Level \in 2..Level /\ Top = frames[Level] /\ IsFrame(Top)
  BY <1>1, Facts DEF Level
<1>3. /\ Journals /\ Live(used, elems) /\ IsFiniteSet(elems) /\ Live(Top.before, Below(Level))
      /\ IsABag(Top.journal)
  BY <1>1, <1>2 DEF IInv, Expansion, Shape, IsFrame
<1>4. Below(Level) \in SUBSET elems /\ IsFiniteSet(Below(Level))
  BY <1>3, FS_Subset DEF Below
<1>5. \A e \in Below(Level) : Copies(e.id, Top.journal) = 0
  BY <1>2, <1>3 DEF Journals
<1>6. \A e \in elems \ Below(Level) : used[e.id].n <= Copies(e.id, Top.journal)
  <2>1. \A e \in elems \ Below(Level) : e.level = Level /\ e.level > 1
    BY <1>1, Facts DEF Below, IInv, Shape, IsElement, Level
  <2> QED BY <1>2, <1>3, <2>1 DEF Journals
<1>7. Live(used', Below(Level))
  BY <1>1, <1>3, <1>4, <1>5, <1>6, LiveGive
<1> QED
  BY <1>3, <1>4, <1>7, LiveUnique

LEMMA RejectInlineStep == ASSUME IInv, RejectInline PROVE IInv'
<1>1. /\ phase = "expand" /\ Level > 1 /\ Directives = {} /\ frames' = Popped
      /\ elems' = {e \in elems : e.level # Level} /\ used' = Give(used, Top.journal)
      /\ UNCHANGED <<inclusions, pending, phase, next, names>>
  BY DEF RejectInline, ChildDone, Expanding
<1>2. Level = Len(frames) /\ Len(frames) \in Nat /\ Len(frames) > 1 /\ Top = frames[Level] /\ IsFrame(Top)
  BY <1>1, Facts DEF Level
<1> DEFINE D == Below(Level)
<1>3. D \in SUBSET elems /\ \A e \in elems : e.level \in 1..Level /\ (e \notin D => e.level = Level)
  BY <1>2 DEF Below, IInv, Shape, IsElement
<1>4. elems' = D /\ \A e \in D : e.level # Level /\ e.level < Level
  BY <1>1, <1>2, <1>3 DEF Below
<1>5. Assembled(D) = D
  <2>1. PICK h \in [D -> Assembled(D)] : /\ \A t \in Assembled(D) : \E e \in D : h[e] = t
                                         /\ \A e \in D : e.level # Level => h[e] = e
    BY <1>3, AssembledIs
  <2> QED BY <1>4, <2>1
<1>6. Live(used', D)
  BY RejectInlineGives
<1>7. /\ frames' \in Seq(Pieces(frames')) /\ frames' # << >> /\ Len(frames') = Len(frames) - 1
      /\ \A i \in 1..(Len(frames) - 1) : frames'[i] = frames[i]
  BY <1>1, OneFrameLess
<1>8. \A i \in 1..(Len(frames) - 1) : Kept(frames'[i], frames[i])
  BY <1>2, <1>7 DEF Kept, IInv, Shape
<1>9. Journals /\ Live(used, elems)
  BY <1>1 DEF IInv, Expansion
<1>10. ASSUME NEW e \in D, Now(e) > 1 PROVE used'[e.id].n <= Copies(e.id, frames'[Now(e)].journal)
  <2>1. Now(e) = e.level /\ e.level \in 1..(Len(frames) - 1) /\ e.level > 1
    BY <1>2, <1>3, <1>4, <1>10 DEF Now
  <2>2. Copies(e.id, Top.journal) = 0
    <3>1. Level \in 2..Level
      BY <1>2
    <3> QED BY <1>2, <1>9, <3>1 DEF Journals
  <2>3. used'[e.id].n = used[e.id].n
    BY <1>1, <1>6, <1>9, <2>2 DEF Give, Live, IsTable
  <2>4. used[e.id].n <= Copies(e.id, frames[e.level].journal)
    BY <1>3, <1>9, <2>1 DEF Journals
  <2> QED BY <1>7, <2>1, <2>3, <2>4
<1>11. \A i \in 2..(Len(frames) - 1) : \A e \in Below(i) : Copies(e.id, frames'[i].journal) = 0
  BY <1>2, <1>7, <1>9 DEF Journals
<1>12. elems' = Assembled(D) /\ \A e \in elems \ D : e.level = Level
  BY <1>3, <1>4, <1>5
<1> HIDE DEF D
<1> QED
  BY <1>1, <1>3, <1>6, <1>7, <1>8, <1>10, <1>11, <1>12, LeaveEffect

-----------------------------------------------------------------------------
(* The final names *)

LEMMA StartFinishStep == ASSUME IInv, StartFinish PROVE IInv'
<1>1. /\ phase = "expand" /\ phase' = "finish" /\ Level = 1 /\ Directives = {}
      /\ UNCHANGED <<used, frames, inclusions, pending, elems, next, names>>
  BY DEF StartFinish, Expanding
<1>2. Places /\ Live(used, elems) /\ next = 1 /\ names = << >>
  BY <1>1 DEF IInv, Expansion, Shape
<1>3. Shape'
  BY <1>1 DEF IInv, Shape, IsFrame, IsElement, Level, IsTable
<1>4. IdsApart'
  BY <1>1, <1>2 DEF IdsApart, Live
<1>5. \A e \in elems' : Mark(e.id, next)'
  BY <1>1, <1>2 DEF Places, Mark
<1>6. names' \in Seq(Pieces(names')) /\ Len(names') = next' - 1
  BY <1>1, <1>2
<1>7. Naming'
  BY <1>1, <1>2, <1>4, <1>5, <1>6 DEF Naming, Level
<1>8. Expansion'
  BY <1>1 DEF Expansion
<1> QED
  BY <1>3, <1>7, <1>8 DEF IInv

\* One name more, of a placeholder or of what it stands for; nothing taken is freed.
LEMMA NameEffect ==
    ASSUME IInv, phase = "finish", next <= Len(pending), next' = next + 1,
           NEW id, names' = Append(names, id),
           id # pending[next] => pending[next] \in Taken', Taken \subseteq Taken',
           IdsApart', IsFiniteSet(elems'), \A e \in elems' : IsElement(e),
           \A e \in elems' : Mark(e.id, next + 1),
           UNCHANGED <<used, frames, inclusions, pending, phase>>
    PROVE  IInv'
<1>1. next \in Nat /\ next >= 1 /\ Len(pending) \in Nat /\ next' \in 1..(Len(pending) + 1)
  BY Facts DEF IInv, Shape
<1>2. Naming /\ Level = 1
  BY DEF IInv, Naming
<1>3. Shape'
  BY <1>1 DEF IInv, Shape, IsFrame, IsElement, Level, IsTable
<1> DEFINE T == Pieces(names) \cup {id}
<1>4. names \in Seq(T) /\ id \in T /\ Len(names) = next - 1
  BY <1>2, SeqDef DEF Naming
<1> HIDE DEF T
<1>5. /\ names' \in Seq(T) /\ Len(names') = next' - 1 /\ names'[next] = id
      /\ \A k \in 1..(next - 1) : names'[k] = names[k]
  BY <1>1, <1>4
<1>6. names' \in Seq(Pieces(names'))
  BY <1>5, Repacked
<1>7. ASSUME NEW k \in 1..(next' - 1), names'[k] # pending[k] PROVE pending[k] \in Taken'
  <2>1. CASE k = next
    BY <1>5, <1>7, <2>1
  <2>2. CASE k # next
    <3>1. k \in 1..(next - 1)
      BY <1>1, <1>7, <2>2
    <3>2. names[k] # pending[k]
      BY <1>5, <1>7, <3>1
    <3> QED BY <1>2, <3>1, <3>2 DEF Naming
  <2> QED BY <2>1, <2>2
<1>8. Naming'
  BY <1>2, <1>5, <1>6, <1>7 DEF Naming, Level, Mark
<1>9. Expansion'
  BY DEF Expansion
<1> QED
  BY <1>3, <1>8, <1>9 DEF IInv

LEMMA FinishAbsentStep == ASSUME IInv, FinishAbsent PROVE IInv'
<1>1. /\ phase = "finish" /\ next <= Len(pending) /\ next' = next + 1 /\ ~Present(next)
      /\ names' = Append(names, pending[next])
      /\ UNCHANGED <<used, frames, inclusions, pending, elems, phase>>
  BY DEF FinishAbsent, Finishing
<1>2. IdsApart' /\ Taken \subseteq Taken'
  BY <1>1 DEF IInv, Naming, IdsApart, Taken
<1>3. IsFiniteSet(elems') /\ \A e \in elems' : IsElement(e)
  BY <1>1 DEF IInv, Shape
<1>4. next \in Nat /\ Len(pending) \in Nat
  BY Facts DEF IInv, Shape
<1>5. ASSUME NEW e \in elems' PROVE Mark(e.id, next + 1)
  <2>1. Mark(e.id, next) /\ e.id # Placeholder(next)
    BY <1>1 DEF IInv, Naming, Present
  <2> QED BY <1>4, <2>1 DEF Mark
<1> QED
  BY <1>1, <1>2, <1>3, <1>5, NameEffect

\* A name is not a placeholder.
LEMMA NamesAreNames ==
    ASSUME NEW id \in Authored, NEW n \in Nat
    PROVE  ~IsPlaceholder(id) /\ ~IsPlaceholder(Suffixed(id, n))
<1>1. PICK a \in Name, b \in AuthoredSuffix : id = <<a, b>>
  BY DEF Authored
<1>2. id[1] = a /\ id[2] = b /\ id \in Seq({a, b}) /\ Len(id) = 2
  BY <1>1
<1>3. a # "mark"
  BY NameAssumption
<1>4. Suffixed(id, n)[1] = a
  <2>1. CASE id[2] = 0
    BY <1>2, <2>1 DEF Suffixed
  <2>2. CASE id[2] # 0
    <3>1. id \in Seq({a, b, n}) /\ n \in {a, b, n}
      BY <1>2, SeqDef
    <3>2. Append(id, n)[1] = id[1]
      BY <1>2, <3>1
    <3> QED BY <1>2, <2>2, <3>2 DEF Suffixed
  <2> QED BY <2>1, <2>2
<1> QED
  BY <1>2, <1>3, <1>4 DEF IsPlaceholder

\* A placeholder gets a name nobody has.
LEMMA RenameEffect ==
    ASSUME IInv, phase = "finish", next <= Len(pending), next' = next + 1,
           NEW id, ~IsPlaceholder(id), id \notin Taken,
           id # pending[next] => pending[next] \in Taken,
           elems' = Named(next, id), names' = Append(names, id),
           UNCHANGED <<used, frames, inclusions, pending, phase>>
    PROVE  IInv'
<1> DEFINE h == [e \in elems |-> [e EXCEPT !.id = IF @ = Placeholder(next) THEN id ELSE @]]
           New(e) == IF e.id = Placeholder(next) THEN id ELSE e.id
<1>1. /\ next \in Nat /\ Len(pending) \in Nat /\ IsFiniteSet(elems) /\ \A e \in elems : IsElement(e)
      /\ IdsApart /\ \A e \in elems : Mark(e.id, next)
  BY Facts DEF IInv, Shape, Naming
<1>2. elems' = {h[e] : e \in elems}
  BY DEF Named
<1>3. ASSUME NEW e \in elems
      PROVE  h[e] = [id |-> New(e), by |-> e.by, key |-> e.key, level |-> e.level, directive |-> e.directive]
  <2>1. e = [id |-> e.id, by |-> e.by, key |-> e.key, level |-> e.level, directive |-> e.directive]
    BY <1>1 DEF IsElement
  <2>2. \A v : [e EXCEPT !.id = v]
                 = [id |-> v, by |-> e.by, key |-> e.key, level |-> e.level, directive |-> e.directive]
    BY <2>1
  <2>3. h[e] = [e EXCEPT !.id = New(e)]
    OBVIOUS
  <2> HIDE DEF h, New
  <2> QED BY <2>2, <2>3
<1>4. IsFiniteSet(elems')
  <2>1. h \in Surjection(elems, elems')
    BY <1>2 DEF Surjection
  <2> HIDE DEF h
  <2> QED BY <1>1, <2>1, FS_Surjection
<1> HIDE DEF h
<1>5. ASSUME NEW t \in elems'
      PROVE  \E e \in elems : /\ t.id = New(e) /\ t.by = e.by /\ t.key = e.key /\ t.level = e.level
                              /\ t.directive = e.directive /\ IsElement(e)
                              /\ t = [id |-> t.id, by |-> t.by, key |-> t.key, level |-> t.level,
                                      directive |-> t.directive]
  <2>1. PICK e \in elems : t = h[e]
    BY <1>2, <1>5
  <2>2. t = [id |-> New(e), by |-> e.by, key |-> e.key, level |-> e.level, directive |-> e.directive]
    BY <1>3, <2>1
  <2> HIDE DEF New
  <2> QED BY <1>1, <2>2
<1>6. \A t \in elems' : IsElement(t)
  <2>1. SUFFICES ASSUME NEW t \in elems' PROVE IsElement(t)
    OBVIOUS
  <2>2. PICK e \in elems : /\ t.by = e.by /\ t.key = e.key /\ t.level = e.level
                           /\ t.directive = e.directive /\ IsElement(e)
                           /\ t = [id |-> t.id, by |-> t.by, key |-> t.key, level |-> t.level,
                                   directive |-> t.directive]
    BY <1>5
  <2> QED BY <2>2 DEF IsElement
<1>7. \A e \in elems : e.id # Placeholder(next) /\ ~IsPlaceholder(e.id) => e.id \in Taken
  BY DEF Taken
<1>8. IsPlaceholder(Placeholder(next))
  BY DEF IsPlaceholder, Placeholder
<1>9. IdsApart'
  <2>1. SUFFICES ASSUME NEW t \in elems', NEW u \in elems', t.id = u.id PROVE t.by = u.by
    BY DEF IdsApart
  <2>2. PICK e \in elems : t.id = New(e) /\ t.by = e.by
    BY <1>5
  <2>3. PICK f \in elems : u.id = New(f) /\ u.by = f.by
    BY <1>5
  <2>4. e.id = f.id
    BY <1>7, <2>1, <2>2, <2>3
  <2> QED BY <1>1, <2>2, <2>3, <2>4 DEF IdsApart
<1>10. Taken \subseteq Taken'
  <2>1. SUFFICES ASSUME NEW e \in elems, ~IsPlaceholder(e.id) PROVE e.id \in Taken'
    BY DEF Taken
  <2>2. New(e) = e.id /\ h[e] \in elems'
    BY <1>2, <1>8, <2>1
  <2>3. h[e].id = e.id
    <3>1. h[e].id = New(e)
      <4>1. h[e] = [id |-> New(e), by |-> e.by, key |-> e.key, level |-> e.level, directive |-> e.directive]
        BY <1>3
      <4> HIDE DEF New
      <4> QED BY <4>1
    <3> QED BY <2>2, <3>1
  <2> QED BY <2>1, <2>2, <2>3 DEF Taken
<1>11. ASSUME NEW t \in elems' PROVE Mark(t.id, next + 1)
  <2>1. PICK e \in elems : t.id = New(e)
    BY <1>5
  <2>2. CASE e.id = Placeholder(next)
    BY <2>1, <2>2 DEF Mark
  <2>3. CASE e.id # Placeholder(next)
    BY <1>1, <2>1, <2>3 DEF Mark
  <2> QED BY <2>2, <2>3
<1>12. id # pending[next] => pending[next] \in Taken'
  BY <1>10
<1> HIDE DEF New
<1> QED
  BY <1>4, <1>6, <1>9, <1>10, <1>11, <1>12, NameEffect

LEMMA FinishPresentStep == ASSUME IInv, NEW n \in Suffix, FinishPresent(n) PROVE IInv'
<1> DEFINE base == pending[next]
<1>1. /\ phase = "finish" /\ next <= Len(pending) /\ next' = next + 1
      /\ UNCHANGED <<used, frames, inclusions, pending, phase>>
      /\ \/ base \notin Taken /\ elems' = Named(next, base) /\ names' = Append(names, base)
         \/ /\ base \in Taken /\ Suffixed(base, n) \notin Taken
            /\ elems' = Named(next, Suffixed(base, n)) /\ names' = Append(names, Suffixed(base, n))
  BY DEF FinishPresent, Finishing
<1>2. base \in Authored
  <2>1. next \in 1..Len(pending) /\ pending \in Seq(Authored)
    BY <1>1, Facts DEF IInv, Shape
  <2> QED BY <2>1
<1>3. n \in Nat
  BY BoundAssumption DEF Suffix
<1>4. ~IsPlaceholder(base) /\ ~IsPlaceholder(Suffixed(base, n))
  BY <1>2, <1>3, NamesAreNames
<1> HIDE DEF base
<1>5. CASE base \notin Taken /\ elems' = Named(next, base) /\ names' = Append(names, base)
  BY <1>1, <1>4, <1>5, RenameEffect DEF base
<1>6. CASE /\ base \in Taken /\ Suffixed(base, n) \notin Taken
           /\ elems' = Named(next, Suffixed(base, n)) /\ names' = Append(names, Suffixed(base, n))
  BY <1>1, <1>4, <1>6, RenameEffect DEF base
<1> QED
  BY <1>1, <1>5, <1>6

LEMMA ReturnStep == ASSUME IInv, Return PROVE IInv'
<1>1. /\ phase = "finish" /\ next > Len(pending) /\ phase' = "done"
      /\ UNCHANGED <<used, frames, inclusions, pending, elems, next, names>>
  BY DEF Return
<1>2. next' = Len(pending') + 1
  BY <1>1, Facts DEF IInv, Shape
<1>3. Shape'
  BY <1>1 DEF IInv, Shape, IsFrame, IsElement, Level, IsTable
<1>4. Naming'
  BY <1>1, <1>2 DEF IInv, Naming, IdsApart, Mark, Taken, Level
<1>5. Expansion'
  BY <1>1 DEF Expansion
<1> QED
  BY <1>3, <1>4, <1>5 DEF IInv

LEMMA Stutters == ASSUME IInv, UNCHANGED vars PROVE IInv'
<1>1. UNCHANGED <<used, frames, inclusions, pending, elems, phase, next, names>>
  BY DEF vars
<1>2. Shape'
  BY <1>1 DEF IInv, Shape, IsFrame, IsElement, Level, IsTable
<1>3. Naming'
  BY <1>1 DEF IInv, Naming, IdsApart, Mark, Taken, Level
<1>4. Expansion'
  BY <1>1 DEF IInv, Expansion, Owners, Places, Journals, Below, Mark, Level, Live, IsTable, Bearing
<1> QED
  BY <1>2, <1>3, <1>4 DEF IInv

-----------------------------------------------------------------------------
LEMMA NextStep == IInv /\ [Next]_vars => IInv'
<1> SUFFICES ASSUME IInv, [Next]_vars PROVE IInv'
  OBVIOUS
<1>1. CASE Claim
  <2>1. CASE EndClaims
    BY <2>1, EndClaimsStep
  <2>2. CASE \E name \in Name, n \in Suffix : ClaimHeading(name, n)
    BY <2>2, ClaimHeadingStep
  <2>3. ASSUME NEW id \in Authored, NEW directive \in BOOLEAN,
               ClaimRoot(id, directive) \/ ClaimAuthored(id, directive) \/ ClaimRenamed(id, directive)
        PROVE  IInv'
    BY <2>3, ClaimRootStep, ClaimAuthoredStep, ClaimRenamedStep
  <2> QED BY <1>1, <2>1, <2>2, <2>3 DEF Claim
<1>2. CASE Expand
  <2>1. ASSUME NEW own \in Documents, EnterInline(own) PROVE IInv'
    BY <2>1, EnterInlineStep
  <2>2. ASSUME NEW own \in Documents, NEW e \in elems \cup {NoElement}, EnterBlock(e, own) PROVE IInv'
    BY <2>2, EnterBlockStep
  <2>3. ASSUME NEW e \in elems, IncludeCode(e) \/ RefuseBlock(e) PROVE IInv'
    BY <2>3, IncludeCodeStep, RefuseBlockStep
  <2>4. CASE MergeBlock \/ RejectInline
    BY <2>4, MergeBlockStep, RejectInlineStep
  <2>5. ASSUME NEW e \in elems \cup {NoElement}, MergeInline(e) PROVE IInv'
    BY <2>5, MergeInlineStep
  <2> QED BY <1>2, <2>1, <2>2, <2>3, <2>4, <2>5 DEF Expand
<1>3. CASE Assemble
  <2>1. CASE \E n \in Suffix : FinishPresent(n)
    BY <2>1, FinishPresentStep
  <2> QED BY <1>3, <2>1, StartFinishStep, FinishAbsentStep, ReturnStep DEF Assemble
<1>4. CASE Done \/ UNCHANGED vars
  BY <1>4, Stutters DEF Done
<1> QED
  BY <1>1, <1>2, <1>3, <1>4 DEF Next

\* The invariant holds, for any ids and any bounds.
THEOREM InvHolds == Spec => []IInv
<1>1. Init => IInv
  BY InitInv
<1>2. IInv /\ [Next]_vars => IInv'
  BY NextStep
<1> QED
  BY <1>1, <1>2, PTL DEF Spec

\* The state of an expansion is well formed.
THEOREM TypeCorrect == Spec => []TypeOK
<1>1. IInv => TypeOK
  <2> SUFFICES ASSUME IInv PROVE TypeOK
    OBVIOUS
  <2>1. \A id \in DOMAIN used : used[id].owner \in 0..inclusions /\ used[id].n \in Nat \ {0}
    BY Facts DEF IInv, Shape, IsTable
  <2>2. \A i \in 1..Level : /\ frames[i].owner \in 0..inclusions
                            /\ frames[i].form \in {"block", "inline"} /\ IsABag(frames[i].journal)
    BY DEF IInv, Shape, IsFrame
  <2>3. \A e \in elems : e.level \in 1..Level /\ e.by \in 0..inclusions
    BY DEF IInv, Shape, IsElement
  <2>4. next \in Nat
    BY Facts DEF IInv, Shape
  <2> QED BY <2>1, <2>2, <2>3, <2>4 DEF TypeOK, IInv, Shape
<1> QED
  BY <1>1, InvHolds, PTL

\* reserve_id and release_id keep beside an id the number of elements that carry it.
THEOREM CountsHold == Spec => []CountsAreLive
<1>1. IInv => CountsAreLive
  <2> SUFFICES ASSUME IInv, phase = "expand"
               PROVE  /\ DOMAIN used = {e.id : e \in elems}
                      /\ \A id \in DOMAIN used : used[id].n = Cardinality({e \in elems : e.id = id})
    BY DEF CountsAreLive
  <2>1. Live(used, elems) /\ IsFiniteSet(elems)
    BY DEF IInv, Expansion, Shape
  <2>2. \A id \in DOMAIN used : \E e \in elems : e.id = id
    BY <2>1, LiveIds
  <2>3. DOMAIN used = {e.id : e \in elems}
    BY <2>1, <2>2 DEF Live
  <2> QED BY <2>1, <2>3 DEF Live, Bearing
<1> QED
  BY <1>1, InvHolds, PTL

\* No id is on elements of two inclusions, during the expansion or after finish_renames.
THEOREM IdsStayApart == Spec => []IdsApart
<1>1. IInv => IdsApart
  <2> SUFFICES ASSUME IInv PROVE IdsApart
    OBVIOUS
  <2>1. CASE phase = "expand"
    BY <2>1 DEF IInv, Expansion, Live, IdsApart
  <2>2. CASE phase # "expand"
    BY <2>2 DEF IInv, Naming
  <2> QED BY <2>1, <2>2
<1> QED
  BY <1>1, InvHolds, PTL

\* finish_renames changes a name only while another element keeps it.
THEOREM NamesKept == Spec => []NameKept
<1>1. IInv => NameKept
  <2> SUFFICES ASSUME IInv, phase = "done", NEW k \in 1..Len(pending), names[k] # pending[k]
               PROVE  pending[k] \in Taken
    BY DEF NameKept
  <2>1. k \in 1..(next - 1)
    BY Facts DEF IInv, Naming
  <2> QED BY <2>1 DEF IInv, Naming
<1> QED
  BY <1>1, InvHolds, PTL

\* finish_renames leaves no placeholder in the document.
THEOREM NoMarkIsLeft == Spec => []NoMarkLeft
<1>1. IInv => NoMarkLeft
  <2> SUFFICES ASSUME IInv, phase = "done", NEW e \in elems PROVE ~IsPlaceholder(e.id)
    BY DEF NoMarkLeft
  <2>1. Mark(e.id, next) /\ next = Len(pending) + 1 /\ Len(pending) \in Nat
    BY Facts DEF IInv, Naming
  <2> QED BY <2>1 DEF Mark
<1> QED
  BY <1>1, InvHolds, PTL

\* rollback_reservations leaves the table as it was when the directive was reached.
THEOREM RejectionRestores == Spec => RejectRestores
<1>1. IInv /\ [Next]_vars => [RejectInline => used' = Top.before]_vars
  BY RejectInlineGives
<1> QED
  BY <1>1, InvHolds, PTL DEF Spec, RejectRestores

===============================================================================
