------------------------- MODULE CrossrefIndex_proofs --------------------------
(***************************************************************************)
(* The index of cross-references numbers the headings it sees as everybody *)
(* else does, unless a number it gives is an id that it overlooks.         *)
(*                                                                         *)
(* It skips fewer ids than the seeder and passes by what is in closed      *)
(* containers, so it counts less; but whatever the seeder counted further  *)
(* is an id in use (Near), and so the next number is the seeder's while    *)
(* none is an id the index overlooks.  The stamping changes the document   *)
(* under an index that was made before, but no number and no clash.        *)
(***************************************************************************)
EXTENDS DocumentIds_proofs

-----------------------------------------------------------------------------
(* The counts of the index and those of everybody else.  E are the ids the *)
(* others skip, C those they gave to headings the index does not see: the  *)
(* index counted less, and what the others counted further is taken.       *)

CountOf(c, x) == IF x \in DOMAIN c THEN c[x] ELSE 1
Near(E, C, few, many) ==
    /\ IsCounts(few) /\ IsCounts(many)
    /\ DOMAIN few \subseteq DOMAIN many
    /\ DOMAIN many \subseteq DOMAIN few \cup E \cup C
    /\ \A x \in DOMAIN few : few[x] <= many[x]
    /\ \A x \in DOMAIN many : \A m \in Nat :
           CountOf(few, x) < m /\ m <= many[x] => Suffixed(x, m) \in DOMAIN many \cup E

\* Both count a new id, or one they have, once.
LEMMA KeptNear ==
    ASSUME NEW E, NEW C, NEW few, NEW many, Near(E, C, few, many), NEW x \in Id
    PROVE  /\ Near(E, C, Kept(few, x), Kept(many, x))
           /\ x \in E \cup C => Near(E, C, few, Kept(many, x))
<1>1. \A c : /\ DOMAIN With(c, x, 1) = DOMAIN c \cup {x}
             /\ \A y \in DOMAIN c \cup {x} : With(c, x, 1)[y] = IF y = x THEN 1 ELSE c[y]
  BY DEF With
<1>2. \A c : /\ DOMAIN Kept(c, x) = DOMAIN c \cup {x}
             /\ \A y \in DOMAIN c : Kept(c, x)[y] = c[y]
             /\ x \notin DOMAIN c => Kept(c, x)[x] = 1
  BY <1>1 DEF Kept
<1>3. PICK f, g : f = Kept(few, x) /\ g = Kept(many, x)
  OBVIOUS
<1>4. IsCounts(f) /\ IsCounts(g)
  <2>1. 1 \in Nat \ {0}
    OBVIOUS
  <2> QED BY <1>3, <2>1, WithIsCounts DEF Near
<1>5. /\ DOMAIN f = DOMAIN few \cup {x} /\ \A y \in DOMAIN few : f[y] = few[y]
      /\ x \notin DOMAIN few => f[x] = 1
      /\ DOMAIN g = DOMAIN many \cup {x} /\ \A y \in DOMAIN many : g[y] = many[y]
      /\ x \notin DOMAIN many => g[x] = 1
  BY <1>2, <1>3
<1>6. /\ DOMAIN few \subseteq DOMAIN many /\ DOMAIN many \subseteq DOMAIN few \cup E \cup C
      /\ \A y \in DOMAIN few : few[y] <= many[y] /\ few[y] \in Nat \ {0}
      /\ \A y \in DOMAIN many : many[y] \in Nat \ {0}
      /\ \A y \in DOMAIN many : \A m \in Nat :
             CountOf(few, y) < m /\ m <= many[y] => Suffixed(y, m) \in DOMAIN many \cup E
  BY DEF Near, IsCounts
<1>7. \A y : CountOf(f, y) = CountOf(few, y)
  BY <1>5 DEF CountOf
<1>8. \A y \in DOMAIN g : \A m \in Nat :
         CountOf(few, y) < m /\ m <= g[y] => Suffixed(y, m) \in DOMAIN g \cup E
  <2> SUFFICES ASSUME NEW y \in DOMAIN g, NEW m \in Nat, CountOf(few, y) < m, m <= g[y]
               PROVE  Suffixed(y, m) \in DOMAIN g \cup E
    OBVIOUS
  <2>1. CASE y \in DOMAIN many
    BY <1>5, <1>6, <2>1
  <2>2. CASE y \notin DOMAIN many
    <3>1. y = x /\ g[y] = 1 /\ CountOf(few, y) = 1
      BY <1>5, <1>6, <2>2 DEF CountOf
    <3> QED BY <3>1
  <2> QED BY <2>1, <2>2
<1>9. Near(E, C, f, g)
  <2>1. \A y \in DOMAIN f : f[y] <= g[y]
    BY <1>5, <1>6
  <2>2. DOMAIN f \subseteq DOMAIN g /\ DOMAIN g \subseteq DOMAIN f \cup E \cup C
    BY <1>5, <1>6
  <2> QED BY <1>4, <1>7, <1>8, <2>1, <2>2 DEF Near
<1>10. ASSUME x \in E \cup C
       PROVE  Near(E, C, few, g)
  <2>1. \A y \in DOMAIN few : few[y] <= g[y]
    BY <1>5, <1>6
  <2>2. DOMAIN few \subseteq DOMAIN g /\ DOMAIN g \subseteq DOMAIN few \cup E \cup C
    BY <1>5, <1>6, <1>10
  <2>3. IsCounts(few)
    BY DEF Near
  <2> QED BY <1>4, <1>8, <2>1, <2>2, <2>3 DEF Near
<1> QED BY <1>3, <1>9, <1>10

\* Both go on to the same number, or the larger one to one that was free for it.
LEMMA WithNear ==
    ASSUME NEW E, NEW C, NEW few, NEW many, Near(E, C, few, many), NEW x \in Id, NEW n \in Nat \ {0},
           CountOf(many, x) <= n
    PROVE  /\ Near(E, C, With(few, x, n), With(many, x, n))
           /\ (/\ x \in DOMAIN many \cup E \cup C
               /\ \A m \in Nat : CountOf(many, x) < m /\ m <= n => Suffixed(x, m) \in DOMAIN many \cup E)
              => Near(E, C, few, With(many, x, n))
<1>1. PICK f, g : f = With(few, x, n) /\ g = With(many, x, n)
  OBVIOUS
<1>2. IsCounts(f) /\ IsCounts(g) /\ DOMAIN f = DOMAIN few \cup {x} /\ DOMAIN g = DOMAIN many \cup {x}
  BY <1>1, WithIsCounts DEF Near
<1>3. /\ \A y \in DOMAIN f : f[y] = IF y = x THEN n ELSE few[y]
      /\ \A y \in DOMAIN g : g[y] = IF y = x THEN n ELSE many[y]
  BY <1>1, <1>2 DEF With
<1>4. /\ DOMAIN few \subseteq DOMAIN many /\ DOMAIN many \subseteq DOMAIN few \cup E \cup C
      /\ \A y \in DOMAIN few : few[y] <= many[y] /\ few[y] \in Nat \ {0}
      /\ \A y \in DOMAIN many : many[y] \in Nat \ {0}
      /\ \A y \in DOMAIN many : \A m \in Nat :
             CountOf(few, y) < m /\ m <= many[y] => Suffixed(y, m) \in DOMAIN many \cup E
  BY DEF Near, IsCounts
<1>5. Near(E, C, f, g)
  <2>1. /\ DOMAIN f \subseteq DOMAIN g /\ DOMAIN g \subseteq DOMAIN f \cup E \cup C
        /\ \A y \in DOMAIN f : f[y] <= g[y]
    BY <1>2, <1>3, <1>4
  <2>2. ASSUME NEW y \in DOMAIN g, NEW m \in Nat, CountOf(f, y) < m, m <= g[y]
        PROVE  Suffixed(y, m) \in DOMAIN g \cup E
    <3>1. y # x
      BY <1>2, <1>3, <2>2 DEF CountOf
    <3>2. y \in DOMAIN many /\ g[y] = many[y] /\ CountOf(f, y) = CountOf(few, y)
      BY <1>2, <1>3, <3>1 DEF CountOf
    <3> QED BY <1>2, <1>4, <2>2, <3>2
  <2> QED BY <1>2, <2>1, <2>2 DEF Near
<1>6. ASSUME x \in DOMAIN many \cup E \cup C,
             \A m \in Nat : CountOf(many, x) < m /\ m <= n => Suffixed(x, m) \in DOMAIN many \cup E
      PROVE  Near(E, C, few, g)
  <2>1. DOMAIN few \subseteq DOMAIN g /\ DOMAIN g \subseteq DOMAIN few \cup E \cup C
    BY <1>2, <1>4, <1>6
  <2>2. ASSUME NEW y \in DOMAIN few
        PROVE  few[y] <= g[y]
    <3>1. y \in DOMAIN many /\ y \in DOMAIN g /\ few[y] <= many[y] /\ few[y] \in Nat /\ many[y] \in Nat
      BY <1>2, <1>4
    <3>2. y = x => g[y] = n /\ many[y] <= n
      BY <1>3, <3>1 DEF CountOf
    <3> QED BY <1>3, <3>1, <3>2
  <2>3. ASSUME NEW y \in DOMAIN g, NEW m \in Nat, CountOf(few, y) < m, m <= g[y]
        PROVE  Suffixed(y, m) \in DOMAIN g \cup E
    <3>1. CASE y # x
      <4>1. y \in DOMAIN many /\ g[y] = many[y]
        BY <1>2, <1>3, <3>1
      <4> QED BY <1>2, <1>4, <2>3, <4>1
    <3>2. CASE y = x
      <4>1. m <= n
        BY <1>3, <2>3, <3>2
      <4>2. CASE CountOf(many, x) < m
        BY <1>2, <1>6, <3>2, <4>1, <4>2
      <4>3. CASE ~(CountOf(many, x) < m)
        <5>1. x \in DOMAIN many
          <6>1. SUFFICES ASSUME x \notin DOMAIN many PROVE FALSE
            OBVIOUS
          <6>2. CountOf(few, x) = 1 /\ CountOf(many, x) = 1
            BY <1>4, <6>1 DEF CountOf
          <6> QED BY <2>3, <3>2, <4>3, <6>2
        <5>2. m <= many[x]
          BY <1>4, <4>3, <5>1 DEF CountOf
        <5> QED BY <1>2, <1>4, <2>3, <3>2, <5>1, <5>2
      <4> QED BY <4>2, <4>3
    <3> QED BY <3>1, <3>2
  <2>4. IsCounts(few)
    BY DEF Near
  <2> QED BY <1>2, <2>1, <2>2, <2>3, <2>4 DEF Near
<1> QED BY <1>1, <1>5, <1>6

\* What a heading without an id is numbered with.
LEMMA BlankHeading ==
    ASSUME NEW site, site.id = NoId, NEW c, NEW taken
    PROVE  /\ site.name \notin DOMAIN c \cup taken =>
                 Heading(site, c, taken) = [id |-> site.name, counts |-> With(c, site.name, 1)]
           /\ site.name \in DOMAIN c \cup taken => \A n :
                 n = NextFree(site.name, CountOf(c, site.name), DOMAIN c \cup taken) =>
                     Heading(site, c, taken) =
                         [id |-> Suffixed(site.name, n),
                          counts |-> Kept(With(c, site.name, n), Suffixed(site.name, n))]
BY DEF Heading, Allocation, CountOf

\* A suffix is longer than its base.
LEMMA SuffixedIsOther ==
    ASSUME NEW base \in Id, NEW n \in Nat
    PROVE  Suffixed(base, n) # base
<1>1. base \in Seq(Word \cup Nat) /\ n \in Word \cup Nat
  BY DEF Id
<1>2. Len(Append(base, n)) = Len(base) + 1 /\ Len(base) \in Nat
  BY <1>1
<1> QED BY <1>2 DEF Suffixed

\* The index gives an open heading the number of the others, unless that number is an
\* id it overlooks.
LEMMA OpenNear ==
    ASSUME NEW E \in SUBSET Id, IsFiniteSet(E), NEW e \in SUBSET E, NEW C, NEW few, NEW many,
           Near(E, C, few, many), NEW site \in Site,
           IF site.id # NoId THEN site.id \in E
           ELSE Heading(site, few, e).id \notin (E \ e) \cup C
    PROVE  /\ Heading(site, few, e).id = Heading(site, many, E).id
           /\ Near(E, C, Heading(site, few, e).counts, Heading(site, many, E).counts)
<1>3. /\ DOMAIN few \subseteq DOMAIN many /\ DOMAIN many \subseteq DOMAIN few \cup E \cup C
      /\ IsFiniteSet(DOMAIN few) /\ IsFiniteSet(DOMAIN many)
      /\ \A y \in DOMAIN few : few[y] <= many[y] /\ few[y] \in Nat \ {0}
      /\ \A y \in DOMAIN many : many[y] \in Nat \ {0}
      /\ \A y \in DOMAIN many : \A m \in Nat :
             CountOf(few, y) < m /\ m <= many[y] => Suffixed(y, m) \in DOMAIN many \cup E
  BY DEF Near, IsCounts
<1>1. CASE site.id # NoId
  <2>1. \A c, taken : Heading(site, c, taken) = [id |-> site.id, counts |-> Kept(c, site.id)]
    BY <1>1 DEF Heading, Allocation
  <2>2. site.id \in Id
    BY DEF Site
  <2>3. Near(E, C, Kept(few, site.id), Kept(many, site.id))
    BY <2>2, KeptNear
  <2> QED BY <2>1, <2>3
<1>2. CASE site.id = NoId
  <2>1. PICK b \in Id : b = site.name
    BY DEF Site
  <2>2. /\ DOMAIN few \cup e \subseteq DOMAIN many \cup E
        /\ DOMAIN many \cup E \subseteq DOMAIN few \cup e \cup (E \ e) \cup C
    BY <1>3
  <2>3. Heading(site, few, e).id \notin (E \ e) \cup C
    BY <1>2
  <2>4. CASE b \notin DOMAIN few \cup e
    <3>1. Heading(site, few, e) = [id |-> b, counts |-> With(few, b, 1)]
      BY <1>2, <2>1, <2>4, BlankHeading
    <3>2. b \notin DOMAIN many \cup E
      BY <2>2, <2>3, <2>4, <3>1
    <3>3. Heading(site, many, E) = [id |-> b, counts |-> With(many, b, 1)]
      BY <1>2, <2>1, <3>2, BlankHeading
    <3>4. CountOf(many, b) <= 1 /\ 1 \in Nat \ {0}
      BY <3>2 DEF CountOf
    <3>5. Near(E, C, With(few, b, 1), With(many, b, 1))
      BY <3>4, WithNear
    <3> QED BY <3>1, <3>3, <3>5
  <2>5. CASE b \in DOMAIN few \cup e
    <3>1. PICK n : n = NextFree(b, CountOf(few, b), DOMAIN few \cup e)
      OBVIOUS
    <3>2. PICK s : s = Suffixed(b, n)
      OBVIOUS
    <3>3. Heading(site, few, e) = [id |-> s, counts |-> Kept(With(few, b, n), s)]
      BY <1>2, <2>1, <2>5, <3>1, <3>2, BlankHeading
    <3>4. /\ CountOf(few, b) \in Nat \ {0} /\ CountOf(many, b) \in Nat \ {0}
          /\ CountOf(few, b) <= CountOf(many, b)
          /\ IsFiniteSet(DOMAIN few \cup e) /\ IsFiniteSet(DOMAIN many \cup E)
      <4>1. IsFiniteSet(e)
        BY FS_Subset
      <4>2. CountOf(few, b) \in Nat \ {0} /\ CountOf(many, b) \in Nat \ {0}
        BY <1>3 DEF CountOf
      <4>3. CountOf(few, b) <= CountOf(many, b)
        BY <1>3, <4>2 DEF CountOf
      <4> QED BY <1>3, <4>1, <4>2, <4>3, FS_Union
    <3>5. /\ n \in Nat \ {0} /\ s \notin DOMAIN few \cup e /\ CountOf(few, b) < n
          /\ \A m \in Nat : CountOf(few, b) < m /\ m < n => Suffixed(b, m) \in DOMAIN few \cup e
      BY <3>1, <3>2, <3>4, NextFreeIsFree
    <3>6. s \notin DOMAIN many \cup E
      BY <2>2, <2>3, <3>3, <3>5
    <3>7. CountOf(many, b) < n
      <4>1. SUFFICES ASSUME n <= CountOf(many, b)
                     PROVE  FALSE
        BY <3>4, <3>5
      <4>2. b \in DOMAIN many
        <5>1. SUFFICES ASSUME b \notin DOMAIN many PROVE FALSE
          OBVIOUS
        <5>2. CountOf(few, b) = 1 /\ CountOf(many, b) = 1
          BY <1>3, <5>1 DEF CountOf
        <5> QED BY <3>5, <4>1, <5>2
      <4>3. n <= many[b]
        BY <4>1, <4>2 DEF CountOf
      <4> QED BY <1>3, <3>2, <3>5, <3>6, <4>2, <4>3
    <3>8. NextFree(b, CountOf(many, b), DOMAIN many \cup E) = n
      <4>1. \A m \in Nat : CountOf(many, b) < m /\ m < n => Suffixed(b, m) \in DOMAIN many \cup E
        BY <2>2, <3>4, <3>5
      <4>2. n \in Nat /\ CountOf(many, b) \in Nat /\ Suffixed(b, n) \notin DOMAIN many \cup E
        BY <3>2, <3>4, <3>5, <3>6
      <4> QED BY <3>4, <3>7, <4>1, <4>2, NextFreeIsFirst
    <3>9. Heading(site, many, E) = [id |-> s, counts |-> Kept(With(many, b, n), s)]
      BY <1>2, <2>1, <2>2, <2>5, <3>2, <3>8, BlankHeading
    <3>10. Near(E, C, With(few, b, n), With(many, b, n))
      BY <3>4, <3>5, <3>7, WithNear
    <3>11. Near(E, C, Kept(With(few, b, n), s), Kept(With(many, b, n), s))
      <4>1. s \in Id
        BY <3>2, <3>5, SuffixedIsId
      <4> QED BY <3>10, <4>1, KeptNear
    <3> QED BY <3>3, <3>9, <3>11
  <2> QED BY <2>4, <2>5
<1> QED BY <1>1, <1>2

\* The others number a heading the index does not see.
LEMMA ClosedNear ==
    ASSUME NEW E \in SUBSET Id, IsFiniteSet(E), NEW C, NEW few, NEW many,
           Near(E, C, few, many), NEW site \in Site,
           IF site.id # NoId THEN site.id \in E ELSE Heading(site, many, E).id \in C
    PROVE  Near(E, C, few, Heading(site, many, E).counts)
<1>3. /\ DOMAIN few \subseteq DOMAIN many /\ DOMAIN many \subseteq DOMAIN few \cup E \cup C
      /\ IsFiniteSet(DOMAIN few) /\ IsFiniteSet(DOMAIN many)
      /\ \A y \in DOMAIN few : few[y] <= many[y] /\ few[y] \in Nat \ {0}
      /\ \A y \in DOMAIN many : many[y] \in Nat \ {0}
      /\ \A y \in DOMAIN many : \A m \in Nat :
             CountOf(few, y) < m /\ m <= many[y] => Suffixed(y, m) \in DOMAIN many \cup E
  BY DEF Near, IsCounts
<1>1. CASE site.id # NoId
  <2>1. Heading(site, many, E) = [id |-> site.id, counts |-> Kept(many, site.id)]
    BY <1>1 DEF Heading, Allocation
  <2>2. site.id \in Id
    BY DEF Site
  <2>3. Near(E, C, few, Kept(many, site.id))
    BY <1>1, <2>2, KeptNear
  <2> QED BY <2>1, <2>3
<1>2. CASE site.id = NoId
  <2>1. PICK b \in Id : b = site.name
    BY DEF Site
  <2>2. Heading(site, many, E).id \in C
    BY <1>2
  <2>3. CASE b \notin DOMAIN many \cup E
    <3>1. Heading(site, many, E) = [id |-> b, counts |-> With(many, b, 1)]
      BY <1>2, <2>1, <2>3, BlankHeading
    <3>2. CountOf(many, b) = 1 /\ 1 \in Nat \ {0}
      BY <2>3 DEF CountOf
    <3>3. \A m \in Nat : ~(CountOf(many, b) < m /\ m <= 1)
      BY <3>2
    <3>4. b \in C
      BY <2>2, <3>1
    <3>5. Near(E, C, few, With(many, b, 1))
      BY <3>2, <3>3, <3>4, WithNear
    <3> QED BY <3>1, <3>5
  <2>4. CASE b \in DOMAIN many \cup E
    <3>1. PICK n : n = NextFree(b, CountOf(many, b), DOMAIN many \cup E)
      OBVIOUS
    <3>2. PICK s : s = Suffixed(b, n)
      OBVIOUS
    <3>3. Heading(site, many, E) = [id |-> s, counts |-> Kept(With(many, b, n), s)]
      BY <1>2, <2>1, <2>4, <3>1, <3>2, BlankHeading
    <3>4. CountOf(many, b) \in Nat \ {0} /\ IsFiniteSet(DOMAIN many \cup E)
      <4>1. CountOf(many, b) \in Nat \ {0}
        BY <1>3 DEF CountOf
      <4> QED BY <1>3, <4>1, FS_Union
    <3>5. /\ n \in Nat \ {0} /\ s \notin DOMAIN many \cup E /\ CountOf(many, b) < n
          /\ \A m \in Nat : CountOf(many, b) < m /\ m < n => Suffixed(b, m) \in DOMAIN many \cup E
      BY <3>1, <3>2, <3>4, NextFreeIsFree
    <3>6. s \in C /\ s \in Id /\ s # b
      BY <2>2, <3>2, <3>3, <3>5, SuffixedIsId, SuffixedIsOther
    <3>7. PICK more : more = Kept(many, s)
      OBVIOUS
    <3>8. /\ more = With(many, s, 1) /\ DOMAIN more = DOMAIN many \cup {s}
          /\ \A y \in DOMAIN many : more[y] = many[y]
      BY <3>5, <3>7 DEF Kept, With
    <3>9. Near(E, C, few, more)
      BY <3>6, <3>7, KeptNear
    <3>10. CountOf(more, b) = CountOf(many, b)
      BY <3>6, <3>8 DEF CountOf
    <3>11. \A m \in Nat : CountOf(more, b) < m /\ m <= n => Suffixed(b, m) \in DOMAIN more \cup E
      <4> SUFFICES ASSUME NEW m \in Nat, CountOf(many, b) < m, m <= n
                   PROVE  Suffixed(b, m) \in DOMAIN more \cup E
        BY <3>10
      <4>1. m = n \/ m < n
        BY <3>5
      <4> QED BY <3>2, <3>5, <3>8, <4>1
    <3>12. Near(E, C, few, With(more, b, n))
      <4>1. b \in DOMAIN more \cup E \cup C /\ CountOf(more, b) <= n
        BY <2>4, <3>4, <3>5, <3>8, <3>10
      <4> QED BY <3>5, <3>9, <3>11, <4>1, WithNear
    <3>13. With(more, b, n) = Kept(With(many, b, n), s)
      <4>1. s \notin DOMAIN With(many, b, n)
        BY <3>5, <3>6 DEF With
      <4>2. Kept(With(many, b, n), s) = With(With(many, b, n), s, 1)
        BY <4>1 DEF Kept
      <4>3. With(With(many, s, 1), b, n) = With(With(many, b, n), s, 1)
        BY <3>6 DEF With
      <4> QED BY <3>8, <4>2, <4>3
    <3> QED BY <3>3, <3>12, <3>13
  <2> QED BY <2>3, <2>4
<1> QED BY <1>1, <1>2

-----------------------------------------------------------------------------
(* The index of a document *)

\* A record of a document, the ids to skip and the numbers made for its headings.
Numbered(f) ==
    /\ IsDoc(f.doc) /\ f.slots \in [Parts(f.doc) -> Seq(Id)]
    /\ Filled(f)
    /\ \E T : Complete(f, T)

\* The headings the index does not see, and the ids it overlooks when it numbers one
\* it sees: those of other nodes, and what the others (g) number the unseen with.
Closed(doc, p) == SiteAt(doc, p).within = "closed"
Shut(doc) == {p \in Places(doc) : SiteAt(doc, p).kind = "heading" /\ Closed(doc, p)}
Seen(doc) == {p \in Places(doc) : SiteAt(doc, p).kind = "heading" /\ ~Closed(doc, p)}
Others(doc, n, k) ==
    UNION {{doc.parts[m][j].id : j \in {i \in DOMAIN doc.parts[m] :
               /\ doc.parts[m][i].kind \in {"heading", "block", "inline"}
               /\ <<m, i>> # <<n, k>>}} : m \in Parts(doc)}
ShutIds(doc, g) == {g.slots[p[1]][Rank(doc, p[1], p[2])] : p \in Shut(doc)}
Unseen(doc, g, n, k) ==
    (Others(doc, n, k) \ (Explicit("index", doc) \cup {NoId})) \cup ShutIds(doc, g)
Clashing(doc, g, slots) ==
    \E p \in Seen(doc) : slots[p[1]][Rank(doc, p[1], p[2])] \in Unseen(doc, g, p[1], p[2])

\* The index has what the others number each heading with that it sees.
Finds(doc, g, slots) ==
    \A n \in Used(doc) : \A k \in DOMAIN doc.parts[n] : doc.parts[n][k].kind = "heading" =>
        slots[n][Rank(doc, n, k)] =
            IF Closed(doc, <<n, k>>) THEN NoId ELSE g.slots[n][Rank(doc, n, k)]

\* A job that is not the index's, on this document.
Other(g, doc) ==
    /\ Numbered(g) /\ g.job # "index"
    /\ g.doc = doc /\ g.explicit = Explicit("seed", doc)

\* An index of the document.
Listed(doc, slots) ==
    \A n \in Used(doc) : slots[n] \in Seq(Id) /\ Len(slots[n]) = Rank(doc, n, Len(doc.parts[n]))
Truth(doc, slots) ==
    /\ Listed(doc, slots)
    /\ \A g : Other(g, doc) => Clashing(doc, g, slots) \/ Finds(doc, g, slots)

\* Every number of a part is that of some heading.
LEMMA RankOnto ==
    ASSUME NEW doc, NEW n, NEW m \in Nat, NEW r \in 1..Rank(doc, n, m)
    PROVE  \E k \in 1..m : doc.parts[n][k].kind = "heading" /\ Rank(doc, n, k) = r
<1> DEFINE S == {k \in Nat : r <= Rank(doc, n, k)}
<1>1. \A k \in Nat : Rank(doc, n, k) \in Nat
  BY RankFacts
<1>2. m \in S /\ S \in SUBSET Nat /\ r \in Nat \ {0}
  BY <1>1
<1>3. PICK k \in S : \A j \in S : k <= j
  <2> HIDE DEF S
  <2> QED BY <1>2, LeastExists
<1>4. k \in Nat /\ r <= Rank(doc, n, k) /\ k <= m
  BY <1>2, <1>3
<1>5. k # 0
  <2>1. 0 \in Nat /\ ~(r <= 0)
    BY <1>2
  <2>2. Rank(doc, n, 0) = 0
    BY <2>1, RankFacts
  <2> QED BY <1>4, <2>1, <2>2
<1>6. k - 1 \in Nat /\ (k - 1) + 1 = k /\ ~(k <= k - 1) /\ k \in 1..m
  BY <1>4, <1>5
<1>7. ~(r <= Rank(doc, n, k - 1))
  <2>1. k - 1 \notin S
    BY <1>3, <1>6
  <2> QED BY <1>6, <2>1
<1>8. /\ doc.parts[n][k].kind = "heading" => Rank(doc, n, k) = Rank(doc, n, k - 1) + 1
      /\ doc.parts[n][k].kind # "heading" => Rank(doc, n, k) = Rank(doc, n, k - 1)
  <2>1. /\ doc.parts[n][(k - 1) + 1].kind = "heading" =>
               Rank(doc, n, (k - 1) + 1) = Rank(doc, n, k - 1) + 1
        /\ doc.parts[n][(k - 1) + 1].kind # "heading" =>
               Rank(doc, n, (k - 1) + 1) = Rank(doc, n, k - 1)
    BY <1>6, RankFacts
  <2> QED BY <1>6, <2>1
<1>9. doc.parts[n][k].kind = "heading"
  BY <1>4, <1>7, <1>8
<1>10. Rank(doc, n, k) = r
  <2>1. Rank(doc, n, k) = Rank(doc, n, k - 1) + 1 /\ Rank(doc, n, k - 1) \in Nat
    BY <1>1, <1>6, <1>8, <1>9
  <2> QED BY <1>2, <1>4, <1>7, <2>1
<1> QED BY <1>6, <1>9, <1>10

\* What the index skips, everybody skips.
LEMMA IndexSkipsLess ==
    ASSUME NEW doc, IsDoc(doc)
    PROVE  Explicit("index", doc) \subseteq Explicit("seed", doc)
<1> SUFFICES ASSUME NEW x \in Explicit("index", doc)
             PROVE  x \in Explicit("seed", doc)
  OBVIOUS
<1>1. Used(doc) \subseteq Parts(doc)
  BY UsedParts
<1>2. x # NoId /\ \E n \in Used(doc) : \E k \in DOMAIN doc.parts[n] :
          doc.parts[n][k].kind \in {"heading", "block"} /\ x = doc.parts[n][k].id
  BY DEF Explicit, IdsAt
<1>3. PICK n \in Used(doc) : \E k \in DOMAIN doc.parts[n] :
          doc.parts[n][k].kind \in {"heading", "block"} /\ x = doc.parts[n][k].id
  BY <1>2
<1>4. PICK k \in DOMAIN doc.parts[n] :
          doc.parts[n][k].kind \in {"heading", "block"} /\ x = doc.parts[n][k].id
  BY <1>3
<1> QED BY <1>1, <1>2, <1>4, IdIsExplicit

\* The index's job (f) beside another one on its document, and no clash.
Beside(f, g) ==
    /\ Numbered(f) /\ f.job = "index" /\ f.explicit = Explicit("index", f.doc)
    /\ Other(g, f.doc)
    /\ ~Clashing(f.doc, g, f.slots)

\* An id that everybody but the index skips is on another node than a heading without one.
LEMMA OverlookedElsewhere ==
    ASSUME NEW doc, NEW n, NEW k, doc.parts[n][k].id = NoId, NEW x \in Explicit("seed", doc)
    PROVE  x # NoId /\ x \in Others(doc, n, k)
<1>1. x # NoId /\ x \in UNION {{doc.parts[m][j].id : j \in {i \in DOMAIN doc.parts[m] :
              /\ doc.parts[m][i].kind \in {"heading", "block", "inline"}
              /\ doc.parts[m][i].within \in Container}} : m \in Parts(doc)}
  BY DEF Explicit, IdsAt
<1>2. PICK m \in Parts(doc) : x \in {doc.parts[m][j].id : j \in {i \in DOMAIN doc.parts[m] :
              /\ doc.parts[m][i].kind \in {"heading", "block", "inline"}
              /\ doc.parts[m][i].within \in Container}}
  BY <1>1
<1>3. PICK j \in DOMAIN doc.parts[m] :
          doc.parts[m][j].kind \in {"heading", "block", "inline"} /\ x = doc.parts[m][j].id
  BY <1>2
<1>4. <<m, j>> # <<n, k>>
  <2>1. SUFFICES ASSUME m = n, j = k PROVE FALSE
    OBVIOUS
  <2> QED BY <1>1, <1>3, <2>1
<1>5. x \in {doc.parts[m][i].id : i \in {i \in DOMAIN doc.parts[m] :
              /\ doc.parts[m][i].kind \in {"heading", "block", "inline"}
              /\ <<m, i>> # <<n, k>>}}
  BY <1>3, <1>4
<1> QED BY <1>1, <1>5 DEF Others

\* The two jobs go past one site.
LEMMA SiteNear ==
    ASSUME NEW f, NEW g, Beside(f, g), NEW T, Complete(f, T), NEW U, Complete(g, U),
           NEW n \in Used(f.doc), NEW k \in DOMAIN f.doc.parts[n],
           NEW C, C = ShutIds(f.doc, g),
           Near(g.explicit, C, T[<<n, k - 1>>], U[<<n, k - 1>>])
    PROVE  /\ Near(g.explicit, C, T[<<n, k>>], U[<<n, k>>])
           /\ f.doc.parts[n][k].kind = "heading" =>
                  f.slots[n][Rank(f.doc, n, k)] =
                      IF Closed(f.doc, <<n, k>>) THEN NoId ELSE g.slots[n][Rank(f.doc, n, k)]
<1>1. /\ Numbered(f) /\ f.job = "index" /\ f.explicit = Explicit("index", f.doc)
      /\ Numbered(g) /\ g.job # "index" /\ g.doc = f.doc /\ g.explicit = Explicit("seed", f.doc)
      /\ ~Clashing(f.doc, g, f.slots)
      /\ IsDoc(f.doc)
  BY DEF Beside, Other, Numbered
<1>2. /\ n \in Parts(f.doc) /\ k \in 1..Len(f.doc.parts[n]) /\ f.doc.parts[n] \in Seq(Site)
  BY <1>1, UsedParts
<1>3. PICK site \in Site : site = f.doc.parts[n][k]
  BY <1>2
<1>4. PICK few, many : few = T[<<n, k - 1>>] /\ many = U[<<n, k - 1>>]
  OBVIOUS
<1>5. PICK E, e, r : E = g.explicit /\ e = f.explicit /\ r = Rank(f.doc, n, k)
  OBVIOUS
<1>6. E \in SUBSET Id /\ IsFiniteSet(E) /\ e \in SUBSET E
  BY <1>1, <1>5, ExplicitFinite, IndexSkipsLess
<1>7. /\ site.kind = "heading" =>
             /\ T[<<n, k>>] = Number("index", site, few, e).counts
             /\ f.slots[n][r] = Number("index", site, few, e).id
             /\ U[<<n, k>>] = Heading(site, many, E).counts
             /\ g.slots[n][r] = Heading(site, many, E).id
      /\ site.kind # "heading" => T[<<n, k>>] = few /\ U[<<n, k>>] = many
  <2>1. Traced(f, T, n, k) /\ Traced(g, U, n, k)
    BY <1>1, <1>2 DEF Complete
  <2> QED BY <1>1, <1>3, <1>4, <1>5, <2>1, NumberOfOther DEF Traced
<1>8. CASE site.kind # "heading"
  BY <1>3, <1>4, <1>7, <1>8
<1>9. CASE site.kind = "heading"
  <2>1. site.id # NoId => site.id \in E
    BY <1>1, <1>2, <1>3, <1>5, <1>9, IdIsExplicit
  <2>2. <<n, k>> \in Places(f.doc) /\ SiteAt(f.doc, <<n, k>>) = site
    BY <1>3 DEF Places, SiteAt
  <2>3. CASE site.within = "closed"
    <3>1. Number("index", site, few, e) = [id |-> NoId, counts |-> few]
      BY <2>3 DEF Number
    <3>2. <<n, k>> \in Shut(f.doc)
      BY <1>9, <2>2, <2>3 DEF Shut, Closed
    <3>3. Heading(site, many, E).id \in C
      <4>1. g.slots[<<n, k>>[1]][Rank(f.doc, <<n, k>>[1], <<n, k>>[2])] \in C
        BY <3>2 DEF ShutIds
      <4> QED BY <1>5, <1>7, <1>9, <4>1
    <3>4. Near(E, C, few, Heading(site, many, E).counts)
      BY <1>4, <1>5, <1>6, <2>1, <3>3, ClosedNear
    <3>5. Closed(f.doc, <<n, k>>)
      BY <2>2, <2>3 DEF Closed
    <3> QED BY <1>5, <1>7, <1>9, <3>1, <3>4, <3>5
  <2>4. CASE site.within # "closed"
    <3>1. Number("index", site, few, e) = Heading(site, few, e)
      BY <2>4 DEF Number
    <3>2. <<n, k>> \in Seen(f.doc) /\ ~Closed(f.doc, <<n, k>>)
      BY <1>9, <2>2, <2>4 DEF Seen, Closed
    <3>3. f.slots[n][r] \notin Unseen(f.doc, g, n, k)
      <4>1. f.slots[<<n, k>>[1]][Rank(f.doc, <<n, k>>[1], <<n, k>>[2])]
                \notin Unseen(f.doc, g, <<n, k>>[1], <<n, k>>[2])
        BY <1>1, <3>2 DEF Clashing
      <4> QED BY <1>5, <4>1
    <3>4. site.id = NoId => Heading(site, few, e).id \notin (E \ e) \cup C
      <4>1. SUFFICES ASSUME site.id = NoId, NEW x \in (E \ e) \cup C
                     PROVE  x \in Unseen(f.doc, g, n, k)
        BY <1>7, <1>9, <3>1, <3>3
      <4>2. x \in E \ e => x # NoId /\ x \in Others(f.doc, n, k)
        BY <1>1, <1>3, <1>5, <4>1, OverlookedElsewhere
      <4> QED BY <1>1, <1>5, <4>1, <4>2 DEF Unseen
    <3>5. /\ Heading(site, few, e).id = Heading(site, many, E).id
          /\ Near(E, C, Heading(site, few, e).counts, Heading(site, many, E).counts)
      <4>1. IF site.id # NoId THEN site.id \in E
            ELSE Heading(site, few, e).id \notin (E \ e) \cup C
        BY <2>1, <3>4
      <4>2. Near(E, C, few, many)
        BY <1>4, <1>5
      <4> QED BY <1>6, <4>1, <4>2, OpenNear
    <3> QED BY <1>5, <1>7, <1>9, <3>1, <3>2, <3>5
  <2> QED BY <2>3, <2>4
<1> QED BY <1>8, <1>9

\* Two traces that begin a part near go through it near.
LEMMA PartNear ==
    ASSUME NEW f, NEW g, Beside(f, g), NEW T, Complete(f, T), NEW U, Complete(g, U),
           NEW n \in Used(f.doc), NEW L \in Nat, L = Len(f.doc.parts[n]),
           NEW C, C = ShutIds(f.doc, g),
           Near(g.explicit, C, T[<<n, 0>>], U[<<n, 0>>])
    PROVE  \A k \in 0..L : Near(g.explicit, C, T[<<n, k>>], U[<<n, k>>])
<1> DEFINE S == {k \in Nat : k <= L /\ ~Near(g.explicit, C, T[<<n, k>>], U[<<n, k>>])}
<1>1. SUFFICES ASSUME S # {}
               PROVE  FALSE
  OBVIOUS
<1>2. PICK k \in S : \A j \in S : k <= j
  <2>1. S \in SUBSET Nat
    OBVIOUS
  <2> HIDE DEF S
  <2> QED BY <1>1, <2>1, LeastExists
<1>3. k \in Nat /\ k <= L /\ ~Near(g.explicit, C, T[<<n, k>>], U[<<n, k>>])
  BY <1>2
<1>4. k # 0
  BY <1>3
<1>5. k \in 1..L /\ k - 1 \in Nat /\ k - 1 <= L /\ ~(k <= k - 1)
  BY <1>3, <1>4
<1>6. Near(g.explicit, C, T[<<n, k - 1>>], U[<<n, k - 1>>])
  <2>1. k - 1 \notin S
    BY <1>2, <1>5
  <2> HIDE DEF Near
  <2> QED BY <1>5, <2>1
<1>7. k \in DOMAIN f.doc.parts[n]
  <2>1. IsDoc(f.doc)
    BY DEF Beside, Numbered
  <2> QED BY <1>5, <2>1, UsedParts
<1> QED BY <1>3, <1>6, <1>7, SiteNear

\* An index that gave no heading an id it overlooks finds them all.
LEMMA IndexNear ==
    ASSUME NEW f, NEW g, Beside(f, g)
    PROVE  Finds(f.doc, g, f.slots)
<1> SUFFICES ASSUME NEW n \in Used(f.doc)
             PROVE  \A k \in DOMAIN f.doc.parts[n] : f.doc.parts[n][k].kind = "heading" =>
                        f.slots[n][Rank(f.doc, n, k)] =
                            IF Closed(f.doc, <<n, k>>) THEN NoId ELSE g.slots[n][Rank(f.doc, n, k)]
  BY DEF Finds
<1>1. Numbered(f) /\ Numbered(g) /\ g.doc = f.doc
  BY DEF Beside, Other
<1>2. PICK C : C = ShutIds(f.doc, g)
  OBVIOUS
<1>3. PICK T : Complete(f, T)
  BY <1>1 DEF Numbered
<1>4. PICK U : Complete(g, U)
  BY <1>1 DEF Numbered
<1>5. IsDoc(f.doc) /\ Used(f.doc) \subseteq Parts(f.doc)
      /\ \A m \in Parts(f.doc) : Len(f.doc.parts[m]) \in Nat
  BY <1>1, UsedParts DEF Numbered
<1>6. PICK so : so = Order("seed", f.doc)
  OBVIOUS
<1>7. so \in Seq(Parts(f.doc)) /\ DOMAIN so = 1..Len(so) /\ Len(so) \in Nat \ {0} /\ so[1] = 0
  BY <1>5, <1>6, OrderInjective
<1>8. /\ T[<<0, 0>>] = NoCounts /\ U[<<0, 0>>] = NoCounts
      /\ \A a \in 1..Len(so) : a + 1 \in DOMAIN so =>
            /\ T[<<so[a + 1], 0>>] = T[<<so[a], Walked(f.doc, so[a])>>]
            /\ U[<<so[a + 1], 0>>] = U[<<so[a], Walked(f.doc, so[a])>>]
  BY <1>3, <1>4, <1>6, <1>1 DEF Complete, Chained
<1>9. Near(g.explicit, C, NoCounts, NoCounts)
  <2>1. DOMAIN NoCounts = {}
    BY DEF NoCounts
  <2> QED BY <2>1, FS_EmptySet DEF Near, IsCounts
<1>10. ASSUME NEW m \in Parts(f.doc), Near(g.explicit, C, T[<<m, 0>>], U[<<m, 0>>])
      PROVE  Near(g.explicit, C, T[<<m, Walked(f.doc, m)>>], U[<<m, Walked(f.doc, m)>>])
  <2>1. CASE m \in Used(f.doc)
    <3>1. PICK L \in Nat : L = Len(f.doc.parts[m])
      BY <1>5
    <3>2. \A k \in 0..L : Near(g.explicit, C, T[<<m, k>>], U[<<m, k>>])
      BY <1>3, <1>4, <1>10, <1>2, <2>1, <3>1, PartNear
    <3>3. L \in 0..L
      OBVIOUS
    <3> QED BY <2>1, <3>1, <3>2, <3>3 DEF Walked
  <2>2. CASE m \notin Used(f.doc)
    BY <1>10, <2>2 DEF Walked
  <2> QED BY <2>1, <2>2
<1>11. \A a \in 1..Len(so) : Near(g.explicit, C, T[<<so[a], 0>>], U[<<so[a], 0>>])
  <2> DEFINE Starts(a) == Near(g.explicit, C, T[<<so[a], 0>>], U[<<so[a], 0>>])
             S == {a \in Nat : 1 <= a /\ a <= Len(so) /\ ~Starts(a)}
  <2>1. SUFFICES ASSUME S # {}
                 PROVE  FALSE
    OBVIOUS
  <2>2. PICK a \in S : \A b \in S : a <= b
    <3>1. S \in SUBSET Nat
      OBVIOUS
    <3> HIDE DEF S
    <3> QED BY <2>1, <3>1, LeastExists
  <2>3. a \in Nat /\ 1 <= a /\ a <= Len(so) /\ ~Starts(a)
    BY <2>2
  <2>4. a # 1
    BY <1>7, <1>8, <1>9, <2>3
  <2>5. /\ a - 1 \in Nat /\ 1 <= a - 1 /\ a - 1 <= Len(so) /\ ~(a <= a - 1) /\ (a - 1) + 1 = a
        /\ a - 1 \in 1..Len(so) /\ a \in DOMAIN so
    BY <1>7, <2>3, <2>4
  <2>6. Starts(a - 1)
    <3>1. a - 1 \notin S
      BY <2>2, <2>5
    <3> HIDE DEF Starts
    <3> QED BY <2>5, <3>1
  <2>7. so[a - 1] \in Parts(f.doc)
    BY <1>7, <2>5
  <2>8. Near(g.explicit, C, T[<<so[a - 1], Walked(f.doc, so[a - 1])>>],
                             U[<<so[a - 1], Walked(f.doc, so[a - 1])>>])
    BY <1>10, <2>6, <2>7
  <2> QED BY <1>8, <2>3, <2>5, <2>8
<1>12. \E a \in 1..Len(so) : so[a] = n
  <2>1. /\ f.doc.source \in Seq(1..Len(f.doc.source)) /\ ToSet(f.doc.source) = 1..Len(f.doc.source)
        /\ Parts(f.doc) = 0..Len(f.doc.source) /\ Len(f.doc.source) \in Nat
    BY <1>5, UsedParts DEF IsDoc
  <2>2. so = << 0 >> \o f.doc.source
    BY <1>6 DEF Order
  <2>3. \A i \in DOMAIN f.doc.source : so[i + 1] = f.doc.source[i] /\ i + 1 \in 1..Len(so)
    <3>1. /\ Len(so) = Len(f.doc.source) + 1 /\ \A i \in DOMAIN f.doc.source : so[i + 1] = f.doc.source[i]
      BY <2>1, <2>2, BodyFirst
    <3>2. \A i \in DOMAIN f.doc.source : i + 1 \in 1..(Len(f.doc.source) + 1)
      <4>1. DOMAIN f.doc.source = 1..Len(f.doc.source)
        BY <2>1
      <4> QED BY <2>1, <4>1
    <3> QED BY <3>1, <3>2
  <2>4. n = 0 \/ \E i \in DOMAIN f.doc.source : f.doc.source[i] = n
    <3>1. n \in 0..Len(f.doc.source)
      BY <1>5, <2>1
    <3>2. n # 0 => n \in 1..Len(f.doc.source)
      BY <3>1, <2>1
    <3> QED BY <2>1, <3>2 DEF ToSet
  <2> QED BY <1>7, <2>3, <2>4
<1>13. PICK L \in Nat : L = Len(f.doc.parts[n]) /\ DOMAIN f.doc.parts[n] = 1..L
  BY <1>5, UsedParts
<1>14. \A k \in 0..L : Near(g.explicit, C, T[<<n, k>>], U[<<n, k>>])
  <2>1. Near(g.explicit, C, T[<<n, 0>>], U[<<n, 0>>])
    BY <1>11, <1>12
  <2> QED BY <1>3, <1>4, <1>13, <1>2, <2>1, PartNear
<1> SUFFICES ASSUME NEW k \in DOMAIN f.doc.parts[n], f.doc.parts[n][k].kind = "heading"
             PROVE  f.slots[n][Rank(f.doc, n, k)] =
                        IF Closed(f.doc, <<n, k>>) THEN NoId ELSE g.slots[n][Rank(f.doc, n, k)]
  OBVIOUS
<1>15. k - 1 \in 0..L
  BY <1>13
<1>16. Near(g.explicit, C, T[<<n, k - 1>>], U[<<n, k - 1>>])
  BY <1>14, <1>15
<1> QED BY <1>3, <1>4, <1>16, <1>2, SiteNear

\* A heading that has an id keeps it, and one that has none does not stay without.
LEMMA NumberOfHeading ==
    ASSUME NEW f, Numbered(f), f.job # "index", NEW n \in Used(f.doc), NEW k \in DOMAIN f.doc.parts[n],
           f.doc.parts[n][k].kind = "heading", NEW r, r = Rank(f.doc, n, k)
    PROVE  /\ r \in 1..Len(f.slots[n])
           /\ f.doc.parts[n][k].id # NoId => f.slots[n][r] = f.doc.parts[n][k].id
           /\ f.doc.parts[n][k].name # NoId => f.slots[n][r] # NoId
<1>1. PICK T : Complete(f, T)
  BY DEF Numbered
<1>2. /\ n \in Parts(f.doc) /\ f.doc.parts[n] \in Seq(Site) /\ Len(f.doc.parts[n]) \in Nat
      /\ k \in 1..Len(f.doc.parts[n])
  BY UsedParts DEF Numbered
<1>3. f.slots[n][r] = Heading(f.doc.parts[n][k], T[<<n, k - 1>>], f.explicit).id
  <2>1. Traced(f, T, n, k)
    BY <1>1, <1>2 DEF Complete
  <2>2. f.slots[n][r] = Number(f.job, f.doc.parts[n][k], T[<<n, k - 1>>], f.explicit).id
    BY <2>1 DEF Traced
  <2> QED BY <2>2, NumberOfOther
<1>4. PICK site, counts : site = f.doc.parts[n][k] /\ counts = T[<<n, k - 1>>]
  OBVIOUS
<1>5. site.id # NoId => Heading(site, counts, f.explicit).id = site.id
  BY DEF Heading, Allocation
<1>6. ASSUME site.id = NoId, site.name # NoId
      PROVE  Heading(site, counts, f.explicit).id # NoId
  <2>1. site.name \in Seq(Word \cup Nat)
    <3>1. site \in Site
      BY <1>2, <1>4
    <3> QED BY <3>1 DEF Site, Id
  <2>2. \A m : Append(site.name, m) # << >>
    BY <2>1
  <2> QED BY <1>6, <2>2 DEF Heading, Allocation, Suffixed, NoId
<1>7. r \in 1..Len(f.slots[n])
  <2>1. k \in Nat \ {0} /\ k <= Len(f.doc.parts[n])
    BY <1>2
  <2>2. r \in 1..Rank(f.doc, n, Len(f.doc.parts[n]))
    BY <1>2, <2>1, RankOfHeading
  <2> QED BY <2>2 DEF Numbered, Filled
<1> QED BY <1>3, <1>4, <1>5, <1>6, <1>7

\* A job that has numbered all of its document.
LEMMA SeedingNumbers ==
    ASSUME NEW f, IsFrame(f), f.job \in Numbering, Seeding(f), f.parts = << >>
    PROVE  Numbered(f)
<1>1. IsDoc(f.doc) /\ f.slots \in [Parts(f.doc) -> Seq(Id)] /\ OnWalk(f) /\ Slotted(f)
  BY DEF IsFrame, Seeding
<1>2. f.job \in {"stamp", "index", "seed"} /\ Used(f.doc) \subseteq Parts(f.doc)
  BY <1>1, UsedParts DEF Numbering
<1>3. \A n \in Used(f.doc) : Progress(f, n) = Len(f.doc.parts[n])
  BY <1>1, <1>2, SourceWalked
<1>4. Filled(f)
  BY <1>1, <1>3 DEF Filled, Slotted
<1>5. PICK T : Tracing(f, T)
  BY DEF Seeding
<1>6. Ord(f) = Order("seed", f.doc) /\ Behind(f) = Len(Ord(f))
  BY <1>1, SourceOrder, WalkFacts DEF Ord
<1>7. Complete(f, T)
  BY <1>3, <1>5, <1>6 DEF Complete, Tracing
<1> QED BY <1>1, <1>4, <1>7 DEF Numbered

\* A pass whose document's notes are in order, likewise.
LEMMA RenderingNumbers ==
    ASSUME NEW f, IsFrame(f), Rendering(f), InOrder(f.doc)
    PROVE  Numbered(f)
BY DEF IsFrame, Rendering, Follows, Numbered

\* A pass ends past all of the used parts.
LEMMA UsedWalked ==
    ASSUME NEW f, IsFrame(f), f.job = "render", OnWalk(f), f.parts = << >>, NEW n \in Used(f.doc)
    PROVE  Progress(f, n) = Len(f.doc.parts[n])
<1>1. f.doc.refs \in Seq(1..Len(f.doc.source)) /\ Ord(f) = << 0 >> \o f.doc.refs
  BY DEF IsFrame, IsDoc, Ord, Order
<1>2. /\ DOMAIN Ord(f) = 1..(Len(f.doc.refs) + 1) /\ Ord(f)[1] = 0 /\ Len(f.doc.refs) \in Nat
      /\ \A i \in DOMAIN f.doc.refs : Ord(f)[i + 1] = f.doc.refs[i]
  BY <1>1, BodyFirst
<1>3. n = 0 \/ \E i \in DOMAIN f.doc.refs : f.doc.refs[i] = n
  BY DEF Used, ToSet
<1>4. DOMAIN f.doc.refs = 1..Len(f.doc.refs)
  BY <1>1
<1>5. 1 \in DOMAIN Ord(f) /\ \A i \in DOMAIN f.doc.refs : i + 1 \in DOMAIN Ord(f)
  BY <1>2, <1>4
<1>6. \E a \in DOMAIN Ord(f) : Ord(f)[a] = n
  BY <1>2, <1>3, <1>5
<1> QED BY <1>6, AtEnd

\* The stamping ends past every place.
LEMMA LabelsWalked ==
    ASSUME NEW f, IsFrame(f), f.job = "write", OnWalk(f), f.parts = << >>
    PROVE  Walks(f) = Places(f.doc)
<1>1. /\ Parts(f.doc) = 0..(Len(Ord(f)) - 1) /\ Len(Ord(f)) \in Nat \ {0}
      /\ IsDoc(f.doc) /\ Used(f.doc) \subseteq Parts(f.doc) /\ Parts(f.doc) = 0..Len(f.doc.source)
      /\ Len(f.doc.source) \in Nat
  BY ByLabel, UsedParts DEF IsFrame
<1>2. Ord(f) = [i \in 1..(Len(f.doc.source) + 1) |-> i - 1]
  BY DEF Ord, Order
<1>3. \A n \in Parts(f.doc) : n + 1 \in DOMAIN Ord(f) /\ Ord(f)[n + 1] = n
  <2> TAKE n \in Parts(f.doc)
  <2>1. n + 1 \in 1..(Len(f.doc.source) + 1) /\ (n + 1) - 1 = n
    BY <1>1
  <2> QED BY <1>2, <2>1
<1>4. \A n \in Used(f.doc) : Progress(f, n) = Len(f.doc.parts[n])
  <2> TAKE n \in Used(f.doc)
  <2>1. \E a \in DOMAIN Ord(f) : Ord(f)[a] = n
    BY <1>1, <1>3
  <2> QED BY <2>1, AtEnd
<1>5. \A n \in Used(f.doc) : 1..Progress(f, n) = DOMAIN f.doc.parts[n]
  BY <1>1, <1>4, UsedParts
<1> QED BY ZenonT(50), <1>5 DEF Walks, Places

-----------------------------------------------------------------------------
\* The numbers of a document, ready to be stamped.
Ready(g, doc) == Other(g, doc) /\ Fresh(g, Blanks(g.doc))

\* The document under the stamping: the headings walked have the numbers made for them.
StampedSite(g, f, n, k) ==
    IF <<n, k>> \in Blanks(g.doc) \cap Walks(f)
    THEN [g.doc.parts[n][k] EXCEPT !.id = Slot(g, <<n, k>>)]
    ELSE g.doc.parts[n][k]
Restamping(g, f) ==
    /\ f.doc.source = g.doc.source /\ f.doc.refs = g.doc.refs /\ Parts(f.doc) = Parts(g.doc)
    /\ \A n \in Parts(g.doc) : Len(f.doc.parts[n]) = Len(g.doc.parts[n])
    /\ \A n \in Parts(g.doc) : \A k \in DOMAIN g.doc.parts[n] :
           f.doc.parts[n][k] = StampedSite(g, f, n, k)

\* What the first job has of the document.
AtWork(f, doc) ==
    /\ f.job # "write" => f.doc = doc
    /\ f.job = "index" => f.explicit = Explicit("index", doc)
    /\ f.job \in {"gather", "write"} => \E g :
           /\ Ready(g, doc) /\ g.slots = f.slots
           /\ f.job = "write" => Restamping(g, f)

LEMMA WorkBegins ==
    ASSUME NEW doc, NEW job \in {"stamp", "index", "seed"}, NEW f, f = Frame(job, doc)
    PROVE  AtWork(f, doc)
<1>1. f.job = job /\ f.doc = doc /\ f.explicit = Explicit(job, doc)
  BY DEF Frame
<1> QED BY <1>1 DEF AtWork

\* Only the stamping touches its document.
LEMMA MovesKeep ==
    ASSUME NEW f, IsFrame(f), f.job # "write", NEW new, Moves(f, new)
    PROVE  new.doc = f.doc /\ new.explicit = f.explicit
<1>1. CASE Leaves(f, new) \/ Passes(f, new) \/ Numbers(f, new) \/ Collects(f, new)
  BY <1>1 DEF Leaves, Passes, Numbers, Collects, IsFrame, Fields
<1>2. CASE Gathers(f, new) \/ Installs(f, new)
  BY <1>2 DEF Gathers, Installs, Turns2, IsFrame, Fields
<1>3. CASE ShowsHeading(f, new) \/ ShowsElement(f, new) \/ Generates(f, new)
  BY <1>3 DEF ShowsHeading, ShowsElement, Generates, IsFrame, Fields
<1>4. CASE Asks(f, new) \/ Reserves(f, new) \/ ShowsCitation(f, new) \/ Hosts(f, new)
  BY <1>4 DEF Asks, Reserves, ShowsCitation, Hosts, IsFrame, Fields
<1> QED BY <1>1, <1>2, <1>3, <1>4 DEF Moves, Stamps, Stands

\* A stamped heading stays a heading of its name, and the walk goes by the same parts.
LEMMA StampingKeeps ==
    ASSUME NEW g, NEW f, IsDoc(g.doc), IsDoc(f.doc), Restamping(g, f)
    PROVE  /\ Used(f.doc) = Used(g.doc) /\ Places(f.doc) = Places(g.doc)
           /\ \A n \in Parts(g.doc) : DOMAIN f.doc.parts[n] = DOMAIN g.doc.parts[n]
           /\ \A n \in Parts(g.doc) : \A k \in DOMAIN g.doc.parts[n] :
                  /\ f.doc.parts[n][k].kind = g.doc.parts[n][k].kind
                  /\ f.doc.parts[n][k].name = g.doc.parts[n][k].name
                  /\ f.doc.parts[n][k].within = g.doc.parts[n][k].within
           /\ \A n \in Parts(g.doc) : \A k \in Nat : k <= Len(g.doc.parts[n]) =>
                  Rank(f.doc, n, k) = Rank(g.doc, n, k)
<1>1. Used(f.doc) = Used(g.doc) /\ Used(g.doc) \subseteq Parts(g.doc)
  BY UsedParts DEF Used, Restamping
<1>2. \A n \in Parts(g.doc) : DOMAIN f.doc.parts[n] = DOMAIN g.doc.parts[n]
  BY UsedParts DEF Restamping
<1>3. Places(f.doc) = Places(g.doc)
  BY <1>1, <1>2 DEF Places
<1>4. ASSUME NEW n \in Parts(g.doc), NEW k \in DOMAIN g.doc.parts[n]
      PROVE  /\ f.doc.parts[n][k].kind = g.doc.parts[n][k].kind
             /\ f.doc.parts[n][k].name = g.doc.parts[n][k].name
             /\ f.doc.parts[n][k].within = g.doc.parts[n][k].within
  <2>1. g.doc.parts[n] \in Seq(Site)
    BY UsedParts
  <2>2. g.doc.parts[n][k] \in Site
    BY <2>1
  <2>3. f.doc.parts[n][k] = StampedSite(g, f, n, k)
    BY DEF Restamping
  <2> QED BY <2>2, <2>3 DEF StampedSite, Site
<1>5. ASSUME NEW n \in Parts(g.doc), NEW k \in Nat, k <= Len(g.doc.parts[n])
      PROVE  Rank(f.doc, n, k) = Rank(g.doc, n, k)
  <2>1. DOMAIN g.doc.parts[n] = 1..Len(g.doc.parts[n]) /\ Len(g.doc.parts[n]) \in Nat
    BY UsedParts
  <2>2. \A j \in 1..k : j \in DOMAIN g.doc.parts[n]
    BY <1>5, <2>1
  <2>3. Heads(f.doc, n, k) = Heads(g.doc, n, k)
    BY <1>4, <2>2 DEF Heads
  <2> QED BY <2>3 DEF Rank, Heads
<1> QED BY <1>1, <1>2, <1>3, <1>4, <1>5

LEMMA RestampingMoves ==
    ASSUME NEW f, IsFrame(f), f.job = "write", Writing(f), NEW g, Numbered(g), g.slots = f.slots,
           Restamping(g, f), NEW new, IsFrame(new), Moves(f, new)
    PROVE  new.slots = g.slots /\ Restamping(g, new)
<1>1. /\ IsDoc(f.doc) /\ IsDoc(g.doc) /\ OnWalk(f) /\ Full(f)
      /\ Parts(f.doc) = Parts(g.doc) /\ Used(f.doc) = Used(g.doc) /\ Places(f.doc) = Places(g.doc)
      /\ \A n \in Parts(g.doc) : DOMAIN f.doc.parts[n] = DOMAIN g.doc.parts[n]
      /\ \A n \in Parts(g.doc) : \A k \in DOMAIN g.doc.parts[n] :
             f.doc.parts[n][k].kind = g.doc.parts[n][k].kind
      /\ \A n \in Parts(g.doc) : \A k \in Nat : k <= Len(g.doc.parts[n]) =>
             Rank(f.doc, n, k) = Rank(g.doc, n, k)
  <2>1. IsDoc(f.doc) /\ IsDoc(g.doc) /\ OnWalk(f) /\ Full(f) /\ Parts(f.doc) = Parts(g.doc)
    BY DEF Writing, IsFrame, Numbered, Restamping
  <2> QED BY <2>1, StampingKeeps
\* Where the document does not change and no blank heading is passed.
<1>2. ASSUME new.doc = f.doc, new.slots = f.slots,
             Blanks(g.doc) \cap Walks(new) = Blanks(g.doc) \cap Walks(f)
      PROVE  new.slots = g.slots /\ Restamping(g, new)
  <2>1. \A n, k : StampedSite(g, new, n, k) = StampedSite(g, f, n, k)
    BY <1>2 DEF StampedSite
  <2> QED BY <1>2, <2>1 DEF Restamping
<1>3. CASE Leaves(f, new)
  <2>1. new.doc = f.doc /\ new.slots = f.slots /\ ~Skips(f)
    BY <1>3 DEF Leaves, Skips, IsFrame, Fields
  <2>2. \A n \in Parts(f.doc) : Progress(new, n) = Progress(f, n)
    BY <1>1, <1>3, <2>1, LeavingKeeps
  <2>3. Walks(new) = Walks(f)
    BY <1>1, <2>1, <2>2, UsedParts DEF Walks
  <2> QED BY <1>2, <2>1, <2>3
<1>4. ASSUME On(f), new.job = "write", new.parts = f.parts, new.next = f.next + 1,
             new.doc.source = f.doc.source, new.doc.refs = f.doc.refs,
             \A n \in Parts(f.doc) : Len(new.doc.parts[n]) = Len(f.doc.parts[n]),
             NEW p, NEW q, p = PartOf(f), q = f.next
      PROVE  /\ <<p, q>> \notin Walks(f)
             /\ Walks(new) = IF p \in Used(f.doc) THEN Walks(f) \cup {<<p, q>>} ELSE Walks(f)
             /\ p \in Parts(f.doc) /\ q \in DOMAIN f.doc.parts[p] /\ SiteOf(f) = f.doc.parts[p][q]
             /\ p \in Used(f.doc) => <<p, q>> \in Places(f.doc)
  <2>1. PICK place : place = <<p, q>>
    OBVIOUS
  <2>2. /\ place \notin Walks(f)
        /\ Walks(new) = IF PartOf(f) \in Used(f.doc) THEN Walks(f) \cup {place} ELSE Walks(f)
        /\ PartOf(f) \in Parts(f.doc) /\ f.next \in DOMAIN f.doc.parts[PartOf(f)]
        /\ PartOf(f) \in Used(f.doc) => place \in Places(f.doc)
    BY <1>1, <1>4, <2>1, WalkSteps
  <2> QED BY <1>4, <2>1, <2>2 DEF SiteOf
<1>5. \A p, q : /\ SiteAt(g.doc, <<p, q>>) = g.doc.parts[p][q]
                /\ Slot(g, <<p, q>>) = g.slots[p][Rank(g.doc, p, q)]
  BY DEF SiteAt, Slot
<1>6. CASE Passes(f, new)
  <2>1. /\ On(f) /\ SiteOf(f).kind # "heading" /\ new.doc = f.doc /\ new.slots = f.slots
        /\ new.job = "write" /\ new.parts = f.parts /\ new.next = f.next + 1
    <3>1. On(f) /\ ~Stops("write", SiteOf(f)) /\ new = [f EXCEPT !.next = @ + 1]
      BY <1>6 DEF Passes
    <3>2. SiteOf(f).kind = "heading" => SiteOf(f).within # "closed"
      BY <3>1, OpenOnTop DEF On, Writing
    <3> QED BY <3>1, <3>2 DEF Stops, IsFrame, Fields
  <2>2. PICK p, q : p = PartOf(f) /\ q = f.next
    OBVIOUS
  <2>3. /\ Walks(new) = IF p \in Used(f.doc) THEN Walks(f) \cup {<<p, q>>} ELSE Walks(f)
        /\ p \in Parts(f.doc) /\ q \in DOMAIN f.doc.parts[p] /\ SiteOf(f) = f.doc.parts[p][q]
    BY <1>4, <2>1, <2>2
  <2>4. SiteAt(g.doc, <<p, q>>).kind # "heading"
    BY <1>1, <1>5, <2>1, <2>3
  <2>5. <<p, q>> \notin Blanks(g.doc)
    BY <2>4 DEF Blanks
  <2>6. Blanks(g.doc) \cap Walks(new) = Blanks(g.doc) \cap Walks(f)
    BY <2>3, <2>5
  <2> QED BY <1>2, <2>1, <2>6
<1>7. CASE Stamps(f, new)
  <2>1. On(f) /\ SiteOf(f).kind = "heading" /\ f.parts # << >>
    BY <1>7 DEF Stamps, Stands, On
  <2>2. PICK p, q : p = PartOf(f) /\ q = f.next
    OBVIOUS
  <2>3. p \in Parts(f.doc) /\ q \in DOMAIN f.doc.parts[p] /\ SiteOf(f) = f.doc.parts[p][q]
        /\ q \in Nat /\ q <= Len(f.doc.parts[p])
    <3>1. p \in Parts(f.doc) /\ q \in Nat \ {0} /\ q <= Len(f.doc.parts[p])
      BY <1>1, <2>1, <2>2, WalkFacts DEF IsFrame, On
    <3>2. DOMAIN f.doc.parts[p] = 1..Len(f.doc.parts[p]) /\ Len(f.doc.parts[p]) \in Nat
      BY <1>1, <3>1, UsedParts
    <3> QED BY <2>2, <3>1, <3>2 DEF SiteOf
  <2>4. f.ids # << >> /\ Head(f.ids) = f.slots[p][Rank(f.doc, p, q)]
    <3>1. PICK Off : Offsets(f, Off, Len(Ord(f))) /\ Remaining(f, Off)
      BY <2>1 DEF Writing
    <3>2. Off \in [Nat -> Nat]
      BY <3>1 DEF Offsets
    <3>3. OwnNext(f, Off, p, q)
      BY <1>1, <2>1, <2>2, <3>1, <3>2, OwnNumberNext
    <3> QED BY <3>3 DEF OwnNext
  <2>5. Head(f.ids) = Slot(g, <<p, q>>)
    <3>1. q <= Len(g.doc.parts[p])
      BY <1>1, <2>3 DEF Restamping
    <3> QED BY <1>1, <1>5, <2>3, <2>4, <3>1
  <2>6. f.doc.parts[p][q] = StampedSite(g, f, p, q)
    BY <1>1, <2>3 DEF Restamping
  <2>7. CASE PartOf(f) \in Used(f.doc) /\ SiteOf(f).id = NoId
    <3>1. new = [f EXCEPT !.next = @ + 1, !.ids = Tail(@), !.doc.parts[PartOf(f)][f.next].id = Head(f.ids)]
      BY <1>7, <2>4, <2>7 DEF Stamps
    <3>2. PICK id : id = Head(f.ids)
      OBVIOUS
    <3>3. /\ new.job = "write" /\ new.parts = f.parts /\ new.next = f.next + 1 /\ new.slots = f.slots
          /\ new.doc = [f.doc EXCEPT !.parts[p][q].id = id]
      BY <2>2, <3>1, <3>2 DEF IsFrame, Fields
    <3>4. /\ new.doc.source = f.doc.source /\ new.doc.refs = f.doc.refs /\ Parts(new.doc) = Parts(f.doc)
          /\ \A m \in Parts(f.doc) : Len(new.doc.parts[m]) = Len(f.doc.parts[m])
      <4>1. PICK doc, d : doc = f.doc /\ d = new.doc
        OBVIOUS
      <4>2. /\ IsDoc(doc) /\ p \in Parts(doc) /\ q \in DOMAIN doc.parts[p]
            /\ doc.parts[p][q].kind = "heading" /\ d = [doc EXCEPT !.parts[p][q].id = id]
        BY <1>1, <2>1, <2>3, <3>3, <4>1
      <4>3. Restamped(doc, d, p, q, id)
        BY <4>2, StampChanges
      <4> QED BY <4>1, <4>3 DEF Restamped
    <3>5. /\ <<p, q>> \notin Walks(f) /\ Walks(new) = Walks(f) \cup {<<p, q>>} /\ <<p, q>> \in Places(f.doc)
      BY <1>4, <2>1, <2>2, <2>7, <3>3, <3>4
    <3>6. g.doc.parts[p][q] = f.doc.parts[p][q]
      BY <2>6, <3>5 DEF StampedSite
    <3>7. <<p, q>> \in Blanks(g.doc)
      BY <1>1, <1>5, <2>1, <2>3, <2>7, <3>5, <3>6 DEF Blanks
    <3>8. /\ new.doc.parts[p][q] = [f.doc.parts[p][q] EXCEPT !.id = id]
          /\ \A n \in Parts(f.doc) : \A k \in DOMAIN f.doc.parts[n] :
                 ~(n = p /\ k = q) => new.doc.parts[n][k] = f.doc.parts[n][k]
      BY <1>1, <2>3, <3>3 DEF IsDoc, Parts
    <3>9. ASSUME NEW n \in Parts(g.doc), NEW k \in DOMAIN g.doc.parts[n]
          PROVE  new.doc.parts[n][k] = StampedSite(g, new, n, k)
      <4>1. CASE n = p /\ k = q
        <5>1. StampedSite(g, new, p, q) = [g.doc.parts[p][q] EXCEPT !.id = Slot(g, <<p, q>>)]
          BY <3>5, <3>7 DEF StampedSite
        <5> QED BY <2>5, <3>2, <3>6, <3>8, <4>1, <5>1
      <4>2. CASE ~(n = p /\ k = q)
        <5>1. f.doc.parts[n][k] = StampedSite(g, f, n, k)
          BY DEF Restamping
        <5>2. <<n, k>> \in Walks(new) <=> <<n, k>> \in Walks(f)
          BY <3>5, <4>2
        <5>3. StampedSite(g, new, n, k) = StampedSite(g, f, n, k)
          BY <5>2 DEF StampedSite
        <5> QED BY <1>1, <3>8, <4>2, <5>1, <5>3
      <4> QED BY <4>1, <4>2
    <3> QED BY <1>1, <3>3, <3>4, <3>9 DEF Restamping
  <2>8. CASE ~(PartOf(f) \in Used(f.doc) /\ SiteOf(f).id = NoId)
    <3>1. new = [f EXCEPT !.next = @ + 1, !.ids = IF @ = << >> THEN @ ELSE Tail(@)]
      BY <1>7, <2>8 DEF Stamps
    <3>2. /\ new.job = "write" /\ new.parts = f.parts /\ new.next = f.next + 1 /\ new.slots = f.slots
          /\ new.doc = f.doc
      BY <3>1 DEF IsFrame, Fields
    <3>3. /\ <<p, q>> \notin Walks(f)
          /\ Walks(new) = IF p \in Used(f.doc) THEN Walks(f) \cup {<<p, q>>} ELSE Walks(f)
      BY <1>4, <2>1, <2>2, <3>2
    <3>4. g.doc.parts[p][q] = f.doc.parts[p][q]
      BY <2>6, <3>3 DEF StampedSite
    <3>5. p \in Used(f.doc) => <<p, q>> \notin Blanks(g.doc)
      BY <1>5, <2>2, <2>3, <2>8, <3>4 DEF Blanks
    <3>6. Blanks(g.doc) \cap Walks(new) = Blanks(g.doc) \cap Walks(f)
      BY <3>3, <3>5
    <3> QED BY <1>2, <3>2, <3>6
  <2> QED BY <2>7, <2>8
<1> QED BY <1>3, <1>6, <1>7
    DEF Moves, Numbers, Collects, Gathers, Installs, ShowsHeading, ShowsElement, Generates, Asks, Reserves,
        ShowsCitation, Hosts, Stands

\* The first job's work goes on.
LEMMA WorkMoves ==
    ASSUME NEW doc, NEW f, IsFrame(f), Foretelling(f), Sounding(f), AtWork(f, doc),
           NEW new, IsFrame(new), Sounding(new), Moves(f, new)
    PROVE  AtWork(new, doc)
<1>1. CASE f.job \in {"seed", "render"}
  <2>1. new.job \in {"seed", "render"} /\ new.doc = f.doc
    BY <1>1, JobStays, MovesKeep DEF Passing
  <2> QED BY <1>1, <2>1 DEF AtWork
<1>2. CASE f.job = "index"
  <2>1. new.job = "index"
    BY <1>2 DEF Moves, Leaves, Passes, Numbers, Collects, Gathers, Stamps, Installs, ShowsHeading, ShowsElement,
                Generates, Asks, Reserves, ShowsCitation, Hosts, Stands, IsFrame, Fields
  <2>2. new.doc = f.doc /\ new.explicit = f.explicit
    BY <1>2, MovesKeep
  <2> QED BY <1>2, <2>1, <2>2 DEF AtWork
<1>3. CASE f.job = "stamp"
  <2>1. new.doc = f.doc /\ new.explicit = f.explicit /\ f.doc = doc
        /\ f.explicit = Explicit("seed", doc)
    BY <1>3, MovesKeep DEF AtWork, Sounding, Stamping
  <2>2. CASE Gathers(f, new)
    <3>1. f.parts = << >> /\ new = Turns2(f, "gather")
      BY <1>3, <2>2 DEF Gathers
    <3>2. new.job = "gather" /\ new.slots = f.slots
      BY <3>1 DEF Turns2, IsFrame, Fields
    <3>3. Numbered(f)
      BY <1>3, <3>1, SeedingNumbers DEF Foretelling, Numbering
    <3>4. Fresh(new, Blanks(new.doc))
      BY <3>2 DEF Sounding, Gathering
    <3>5. Fresh(f, Blanks(f.doc))
      BY <2>1, <3>2, <3>4 DEF Fresh, Slot
    <3>6. Ready(f, doc)
      BY <1>3, <2>1, <3>3, <3>5 DEF Ready, Other
    <3> QED BY <2>1, <3>2, <3>6 DEF AtWork
  <2>3. CASE ~Gathers(f, new)
    <3>1. new.job = "stamp"
      BY <1>3, <2>3 DEF Moves, Leaves, Passes, Numbers, Collects, Stamps, Installs, ShowsHeading, ShowsElement,
                        Generates, Asks, Reserves, ShowsCitation, Hosts, Stands, IsFrame, Fields
    <3> QED BY <2>1, <3>1 DEF AtWork
  <2> QED BY <2>2, <2>3
<1>4. CASE f.job = "gather"
  <2>1. PICK g : Ready(g, doc) /\ g.slots = f.slots
    BY <1>4 DEF AtWork
  <2>2. f.doc = doc /\ new.doc = f.doc
    BY <1>4, MovesKeep DEF AtWork
  <2>3. Gathers(f, new)
    BY <1>4 DEF Moves, Leaves, Passes, On, Numbers, Collects, Stamps, Installs, ShowsHeading, ShowsElement,
                Generates, Asks, Reserves, ShowsCitation, Hosts, Stands, Skips, Stops
  <2>4. CASE f.parts # << >>
    <3>1. new.job = "gather" /\ new.slots = f.slots
      BY <1>4, <2>3, <2>4 DEF Gathers, IsFrame, Fields
    <3> QED BY <2>1, <2>2, <3>1 DEF AtWork
  <2>5. CASE f.parts = << >>
    <3>1. new = Turns2(f, "write")
      BY <1>4, <2>3, <2>5 DEF Gathers
    <3>2. /\ new.job = "write" /\ new.slots = f.slots /\ new.next = 1 /\ new.parts = Ord(new)
      BY <3>1 DEF Turns2, IsFrame, Fields, Ord
    <3>3. \A n \in Used(new.doc) : Progress(new, n) = 0
      BY <3>2, AtStart, UsedParts DEF IsFrame
    <3>4. Walks(new) = {}
      BY <3>3 DEF Walks
    <3>5. g.doc = new.doc
      BY <2>1, <2>2 DEF Ready, Other
    <3>6. Restamping(g, new)
      BY <3>4, <3>5 DEF Restamping, StampedSite
    <3> QED BY <2>1, <3>2, <3>6 DEF AtWork
  <2> QED BY <2>4, <2>5
<1>5. CASE f.job = "write"
  <2>1. PICK g : Ready(g, doc) /\ g.slots = f.slots /\ Restamping(g, f)
    BY <1>5 DEF AtWork
  <2>2. Writing(f)
    BY <1>5 DEF Sounding
  <2>3. new.slots = g.slots /\ Restamping(g, new)
    BY <1>5, <2>1, <2>2, RestampingMoves DEF Ready, Other
  <2>4. new.job = "write"
    BY <1>5, <2>2, WritingMoves
  <2> QED BY <2>1, <2>3, <2>4 DEF AtWork
<1> QED BY <1>1, <1>2, <1>3, <1>4, <1>5 DEF IsFrame

-----------------------------------------------------------------------------
(* Stamped, a document has the numbers it had: a heading that has an id    *)
(* now has the one that was made for it.                                   *)

LEMMA StampedNumbers ==
    ASSUME NEW f, IsDoc(f.doc), Walks(f) = Places(f.doc),
           NEW g, Numbered(g), g.job # "index", Restamping(g, f), Titled(g.doc),
           NEW h, Numbered(h), h.job # "index", h.doc = f.doc, NEW n \in Used(f.doc)
    PROVE  g.slots[n] = h.slots[n]
<1>1. /\ IsDoc(g.doc) /\ Used(f.doc) = Used(g.doc) /\ Places(f.doc) = Places(g.doc)
      /\ Parts(f.doc) = Parts(g.doc) /\ n \in Parts(g.doc)
      /\ \A m \in Parts(g.doc) : DOMAIN f.doc.parts[m] = DOMAIN g.doc.parts[m]
      /\ \A m \in Parts(g.doc) : \A k \in DOMAIN g.doc.parts[m] :
             f.doc.parts[m][k].kind = g.doc.parts[m][k].kind
      /\ \A m \in Parts(g.doc) : \A k \in Nat : k <= Len(g.doc.parts[m]) =>
             Rank(f.doc, m, k) = Rank(g.doc, m, k)
      /\ Len(f.doc.parts[n]) = Len(g.doc.parts[n])
  <2>1. IsDoc(g.doc) /\ Parts(f.doc) = Parts(g.doc) /\ n \in Parts(f.doc)
        /\ \A m \in Parts(g.doc) : Len(f.doc.parts[m]) = Len(g.doc.parts[m])
    BY UsedParts DEF Numbered, Restamping
  <2> QED BY <2>1, StampingKeeps
<1>2. PICK L \in Nat : L = Len(g.doc.parts[n]) /\ DOMAIN g.doc.parts[n] = 1..L
  BY <1>1, UsedParts
<1>3. /\ g.slots[n] \in Seq(Id) /\ h.slots[n] \in Seq(Id)
      /\ Len(g.slots[n]) = Rank(g.doc, n, L) /\ Len(h.slots[n]) = Rank(g.doc, n, L)
  BY <1>1, <1>2 DEF Numbered, Filled
<1>4. ASSUME NEW r \in 1..Rank(g.doc, n, L)
      PROVE  g.slots[n][r] = h.slots[n][r]
  <2>1. PICK k \in 1..L : g.doc.parts[n][k].kind = "heading" /\ Rank(g.doc, n, k) = r
    BY RankOnto
  <2>2. /\ k \in DOMAIN g.doc.parts[n] /\ k \in DOMAIN h.doc.parts[n] /\ h.doc.parts[n][k].kind = "heading"
        /\ Rank(h.doc, n, k) = r /\ n \in Used(g.doc) /\ n \in Used(h.doc)
    BY <1>1, <1>2, <2>1
  <2>3. /\ g.doc.parts[n][k].id # NoId => g.slots[n][r] = g.doc.parts[n][k].id
        /\ g.doc.parts[n][k].name # NoId => g.slots[n][r] # NoId
    BY <2>1, <2>2, NumberOfHeading
  <2>4. f.doc.parts[n][k].id # NoId => h.slots[n][r] = f.doc.parts[n][k].id
    BY <2>2, NumberOfHeading
  <2>5. f.doc.parts[n][k] = StampedSite(g, f, n, k)
    BY <1>1, <2>2 DEF Restamping
  <2>6. CASE g.doc.parts[n][k].id # NoId
    <3>1. <<n, k>> \notin Blanks(g.doc)
      BY <2>6 DEF Blanks, SiteAt
    <3> QED BY <2>3, <2>4, <2>5, <2>6, <3>1 DEF StampedSite
  <2>7. CASE g.doc.parts[n][k].id = NoId
    <3>1. <<n, k>> \in Places(g.doc)
      BY <2>2 DEF Places
    <3>2. <<n, k>> \in Blanks(g.doc) \cap Walks(f)
      BY <1>1, <2>1, <2>7, <3>1 DEF Blanks, SiteAt
    <3>3. Slot(g, <<n, k>>) = g.slots[n][r]
      BY <2>1 DEF Slot
    <3>4. g.doc.parts[n][k] \in Site
      BY <1>1, <2>2, UsedParts
    <3>5. f.doc.parts[n][k].id = g.slots[n][r]
      BY <2>5, <3>2, <3>3, <3>4 DEF StampedSite, Site
    <3>6. g.slots[n][r] # NoId
      BY <1>1, <2>1, <2>2, <2>3 DEF Titled
    <3> QED BY <2>4, <3>5, <3>6
  <2> QED BY <2>6, <2>7
<1> QED BY <1>3, <1>4

\* The document the stamping leaves: its index is still the one it had.
LEMMA StampingEnds ==
    ASSUME NEW doc, NEW f, IsFrame(f), f.job = "write", f.parts = << >>, OnWalk(f),
           AtWork(f, doc), Titled(doc)
    PROVE  /\ Titled(f.doc)
           /\ \A s : Truth(doc, s) => Truth(f.doc, s)
<1>1. PICK g : Ready(g, doc) /\ g.slots = f.slots /\ Restamping(g, f)
  BY DEF AtWork
<1>2. /\ Numbered(g) /\ g.job # "index" /\ g.doc = doc /\ g.explicit = Explicit("seed", doc)
      /\ IsDoc(doc) /\ IsDoc(f.doc) /\ Parts(f.doc) = Parts(doc)
      /\ \A p \in Blanks(doc) : Slot(g, p) \notin Explicit("seed", doc)
      /\ \A n \in Parts(doc) : Len(f.doc.parts[n]) = Len(doc.parts[n])
  BY <1>1 DEF Ready, Other, Numbered, IsFrame, Restamping, Fresh
<1>3. /\ Used(f.doc) = Used(doc) /\ Places(f.doc) = Places(doc)
      /\ \A n \in Parts(doc) : DOMAIN f.doc.parts[n] = DOMAIN doc.parts[n]
      /\ \A n \in Parts(doc) : \A k \in DOMAIN doc.parts[n] :
             /\ f.doc.parts[n][k].kind = doc.parts[n][k].kind
             /\ f.doc.parts[n][k].name = doc.parts[n][k].name
             /\ f.doc.parts[n][k].within = doc.parts[n][k].within
             /\ f.doc.parts[n][k] = StampedSite(g, f, n, k)
      /\ \A n \in Parts(doc) : \A k \in Nat : k <= Len(doc.parts[n]) =>
             Rank(f.doc, n, k) = Rank(doc, n, k)
  <2>1. \A n \in Parts(doc) : \A k \in DOMAIN doc.parts[n] : f.doc.parts[n][k] = StampedSite(g, f, n, k)
    BY <1>1, <1>2 DEF Restamping
  <2> QED BY <1>1, <1>2, <2>1, StampingKeeps
<1>4. /\ Used(doc) \subseteq Parts(doc)
      /\ \A n \in Parts(doc) : /\ Len(doc.parts[n]) \in Nat /\ DOMAIN doc.parts[n] = 1..Len(doc.parts[n])
                               /\ doc.parts[n] \in Seq(Site)
  BY <1>2, UsedParts
<1>5. Titled(f.doc)
  BY <1>2, <1>3 DEF Titled
\* A node that had an id keeps it, and no other takes it.
<1>6. ASSUME NEW m \in Parts(doc), NEW j \in DOMAIN doc.parts[m], doc.parts[m][j].id # NoId
      PROVE  f.doc.parts[m][j] = doc.parts[m][j]
  <2>1. <<m, j>> \notin Blanks(doc)
    BY <1>6 DEF Blanks, SiteAt
  <2> QED BY <1>2, <1>3, <2>1 DEF StampedSite
<1>7. ASSUME NEW x \in Explicit("index", f.doc), x \in Explicit("seed", doc)
      PROVE  x \in Explicit("index", doc)
  <2>1. PICK m \in Used(f.doc) : \E j \in DOMAIN f.doc.parts[m] :
            /\ f.doc.parts[m][j].kind \in {"heading", "block"} /\ f.doc.parts[m][j].within \in {"open"}
            /\ x = f.doc.parts[m][j].id /\ x # NoId
    BY <1>7 DEF Explicit, IdsAt
  <2>2. PICK j \in DOMAIN f.doc.parts[m] :
            /\ f.doc.parts[m][j].kind \in {"heading", "block"} /\ f.doc.parts[m][j].within \in {"open"}
            /\ x = f.doc.parts[m][j].id /\ x # NoId
    BY <2>1
  <2>3. m \in Used(doc) /\ m \in Parts(doc) /\ j \in DOMAIN doc.parts[m]
        /\ doc.parts[m][j].kind \in {"heading", "block"} /\ doc.parts[m][j].within \in {"open"}
    BY <1>3, <1>4, <2>2
  <2>4. f.doc.parts[m][j] = doc.parts[m][j]
    <3>1. f.doc.parts[m][j] = StampedSite(g, f, m, j)
      BY <1>3, <2>3
    <3>2. doc.parts[m][j] \in Site
      BY <1>4, <2>3
    <3>3. CASE <<m, j>> \in Blanks(doc) \cap Walks(f)
      <4>1. x = Slot(g, <<m, j>>)
        BY <1>2, <2>2, <3>1, <3>2, <3>3 DEF StampedSite, Site
      <4> QED BY <1>2, <1>7, <3>3, <4>1
    <3> QED BY <1>2, <3>1, <3>3 DEF StampedSite
  <2>5. x = doc.parts[m][j].id /\ x # NoId
    BY <2>2, <2>4
  <2>6. x \in {doc.parts[m][k].id : k \in {i \in DOMAIN doc.parts[m] :
              doc.parts[m][i].kind \in {"heading", "block"} /\ doc.parts[m][i].within \in {"open"}}}
    BY <2>3, <2>5
  <2>7. x \in IdsAt(doc, Used(doc), {"heading", "block"}, {"open"})
    BY <2>3, <2>5, <2>6 DEF IdsAt
  <2> QED BY <2>7 DEF Explicit
<1>8. \A p \in Places(doc) : SiteAt(doc, p).kind = "heading" =>
          /\ p[1] \in Used(doc) /\ p[1] \in Parts(doc) /\ p[2] \in DOMAIN doc.parts[p[1]]
          /\ SiteAt(f.doc, p).kind = SiteAt(doc, p).kind
          /\ Closed(f.doc, p) = Closed(doc, p)
          /\ Rank(f.doc, p[1], p[2]) = Rank(doc, p[1], p[2])
  <2> SUFFICES ASSUME NEW p \in Places(doc)
               PROVE  /\ p[1] \in Used(doc) /\ p[1] \in Parts(doc) /\ p[2] \in DOMAIN doc.parts[p[1]]
                      /\ SiteAt(f.doc, p).kind = SiteAt(doc, p).kind
                      /\ Closed(f.doc, p) = Closed(doc, p)
                      /\ Rank(f.doc, p[1], p[2]) = Rank(doc, p[1], p[2])
    OBVIOUS
  <2>1. p[1] \in Used(doc) /\ p[1] \in Parts(doc) /\ p[2] \in DOMAIN doc.parts[p[1]]
    BY <1>4 DEF Places
  <2>2. p[2] \in Nat /\ p[2] <= Len(doc.parts[p[1]])
    BY <1>4, <2>1
  <2>3. Rank(f.doc, p[1], p[2]) = Rank(doc, p[1], p[2])
    BY <1>3, <2>1, <2>2
  <2>4. SiteAt(f.doc, p).kind = SiteAt(doc, p).kind /\ SiteAt(f.doc, p).within = SiteAt(doc, p).within
    BY <1>3, <2>1 DEF SiteAt
  <2> QED BY <2>1, <2>3, <2>4 DEF Closed
<1>9. Seen(f.doc) = Seen(doc) /\ Shut(f.doc) = Shut(doc)
  <2>1. \A p \in Places(doc) : SiteAt(f.doc, p).kind = "heading" <=> SiteAt(doc, p).kind = "heading"
    <3> SUFFICES ASSUME NEW p \in Places(doc)
                 PROVE  SiteAt(f.doc, p).kind = SiteAt(doc, p).kind
      OBVIOUS
    <3>1. p[1] \in Parts(doc) /\ p[2] \in DOMAIN doc.parts[p[1]]
      BY <1>4 DEF Places
    <3> QED BY <1>3, <3>1 DEF SiteAt
  <2> QED BY <1>3, <1>8, <2>1 DEF Seen, Shut
<1>10. ASSUME NEW s, Truth(doc, s), NEW h, Other(h, f.doc)
       PROVE  Clashing(f.doc, h, s) \/ Finds(f.doc, h, s)
  <2>1. \A n \in Used(doc) : g.slots[n] = h.slots[n]
    <3>1. Walks(f) = Places(f.doc)
      BY LabelsWalked
    <3> QED BY <1>1, <1>2, <1>3, <1>10, <3>1, StampedNumbers DEF Other
  <2>2. CASE Finds(doc, g, s)
    <3> SUFFICES ASSUME NEW n \in Used(doc), NEW k \in DOMAIN doc.parts[n], doc.parts[n][k].kind = "heading"
                 PROVE  s[n][Rank(f.doc, n, k)] =
                            IF Closed(f.doc, <<n, k>>) THEN NoId ELSE h.slots[n][Rank(f.doc, n, k)]
      BY <1>3, <1>4 DEF Finds
    <3>1. <<n, k>> \in Places(doc) /\ SiteAt(doc, <<n, k>>).kind = "heading"
      BY DEF Places, SiteAt
    <3>2. /\ Closed(f.doc, <<n, k>>) = Closed(doc, <<n, k>>)
          /\ Rank(f.doc, <<n, k>>[1], <<n, k>>[2]) = Rank(doc, <<n, k>>[1], <<n, k>>[2])
      BY <1>8, <3>1
    <3>3. s[n][Rank(doc, n, k)] = IF Closed(doc, <<n, k>>) THEN NoId ELSE g.slots[n][Rank(doc, n, k)]
      BY <2>2 DEF Finds
    <3> QED BY <2>1, <3>2, <3>3
  <2>3. CASE Clashing(doc, g, s)
    <3>1. PICK p \in Seen(doc) : s[p[1]][Rank(doc, p[1], p[2])] \in Unseen(doc, g, p[1], p[2])
      BY <2>3 DEF Clashing
    <3>2. p \in Places(doc) /\ SiteAt(doc, p).kind = "heading" /\ p \in Seen(f.doc)
      BY <1>9, <3>1 DEF Seen
    <3>3. PICK x : x = s[p[1]][Rank(doc, p[1], p[2])]
      OBVIOUS
    <3>4. x = s[p[1]][Rank(f.doc, p[1], p[2])]
      BY <1>8, <3>2, <3>3
    <3>5. ASSUME x \in ShutIds(doc, g)
          PROVE  x \in ShutIds(f.doc, h)
      <4>1. PICK q \in Shut(doc) : x = g.slots[q[1]][Rank(doc, q[1], q[2])]
        BY <3>5 DEF ShutIds
      <4>2. q \in Places(doc) /\ SiteAt(doc, q).kind = "heading" /\ q \in Shut(f.doc)
        BY <1>9, <4>1 DEF Shut
      <4>3. x = h.slots[q[1]][Rank(f.doc, q[1], q[2])]
        BY <1>8, <2>1, <4>1, <4>2
      <4> QED BY <4>2, <4>3 DEF ShutIds
    <3>6. ASSUME x \in Others(doc, p[1], p[2]) \ (Explicit("index", doc) \cup {NoId})
          PROVE  x \in Others(f.doc, p[1], p[2]) \ (Explicit("index", f.doc) \cup {NoId})
      <4>1. PICK m \in Parts(doc) : \E j \in DOMAIN doc.parts[m] :
                /\ doc.parts[m][j].kind \in {"heading", "block", "inline"}
                /\ <<m, j>> # <<p[1], p[2]>> /\ x = doc.parts[m][j].id
        BY <3>6 DEF Others
      <4>2. PICK j \in DOMAIN doc.parts[m] :
                /\ doc.parts[m][j].kind \in {"heading", "block", "inline"}
                /\ <<m, j>> # <<p[1], p[2]>> /\ x = doc.parts[m][j].id
        BY <4>1
      <4>3. f.doc.parts[m][j] = doc.parts[m][j]
        BY <1>6, <3>6, <4>2
      <4>4. m \in Parts(f.doc) /\ j \in DOMAIN f.doc.parts[m]
        BY <1>2, <1>3
      <4>5. x \in {f.doc.parts[m][i].id : i \in {i \in DOMAIN f.doc.parts[m] :
                /\ f.doc.parts[m][i].kind \in {"heading", "block", "inline"}
                /\ <<m, i>> # <<p[1], p[2]>>}}
        BY <4>2, <4>3, <4>4
      <4>6. x \in Others(f.doc, p[1], p[2])
        BY <4>4, <4>5 DEF Others
      <4>7. x \in Explicit("seed", doc)
        BY <1>2, <3>6, <4>2, IdIsExplicit
      <4> QED BY <1>7, <3>6, <4>6, <4>7
    <3>7. x \in Unseen(f.doc, h, p[1], p[2])
      BY <3>1, <3>3, <3>5, <3>6 DEF Unseen
    <3> QED BY <3>2, <3>4, <3>7 DEF Clashing
  <2> QED BY <1>2, <1>10, <2>2, <2>3 DEF Truth, Other
<1>11. ASSUME NEW s, Listed(doc, s)
       PROVE  Listed(f.doc, s)
  <2> SUFFICES ASSUME NEW n \in Used(doc)
               PROVE  s[n] \in Seq(Id) /\ Len(s[n]) = Rank(f.doc, n, Len(f.doc.parts[n]))
    BY <1>3 DEF Listed
  <2>1. n \in Parts(doc) /\ Len(doc.parts[n]) \in Nat /\ Len(f.doc.parts[n]) = Len(doc.parts[n])
    BY <1>2, <1>4
  <2>2. Rank(f.doc, n, Len(doc.parts[n])) = Rank(doc, n, Len(doc.parts[n]))
    BY <1>3, <2>1
  <2> QED BY <1>11, <2>1, <2>2 DEF Listed
<1>12. \A s : Truth(doc, s) => Truth(f.doc, s)
  BY <1>10, <1>11 DEF Truth
<1> QED BY <1>5, <1>12

-----------------------------------------------------------------------------
(* The first job, the plan and the document as the program runs.           *)

Indexing == Depth > 0 /\ stack[1].job = "index"
Pending == Indexing \/ \E k \in DOMAIN plan : plan[k] = "index"

\* Every extension to come is followed by an index.
Renewed(jobs) ==
    \A j \in DOMAIN jobs : jobs[j] = "extend" => \E k \in DOMAIN jobs : k > j /\ jobs[k] = "index"

LEMMA PlanGoesOn ==
    ASSUME NEW jobs \in Seq({"stamp", "extend", "index", "render"}), jobs # << >>, NEW rest, rest = Tail(jobs)
    PROVE  /\ IndexLast(jobs) => IndexLast(rest)
           /\ Renewed(jobs) => Renewed(rest)
           /\ IndexLast(jobs) /\ Head(jobs) = "index" => Renewed(rest)
           /\ Renewed(jobs) /\ Head(jobs) = "extend" => \E k \in DOMAIN rest : rest[k] = "index"
           /\ (\E k \in DOMAIN jobs : jobs[k] = "index") /\ Head(jobs) # "index" =>
                  \E k \in DOMAIN rest : rest[k] = "index"
<1>1. /\ Head(jobs) = jobs[1] /\ Len(jobs) \in Nat \ {0} /\ DOMAIN jobs = 1..Len(jobs)
      /\ DOMAIN rest = 1..(Len(jobs) - 1) /\ 1 \in DOMAIN jobs
  <2>1. /\ Head(jobs) = jobs[1] /\ Len(jobs) \in Nat \ {0} /\ Len(rest) = Len(jobs) - 1
        /\ rest \in Seq({"stamp", "extend", "index", "render"})
    BY RestOf
  <2> QED BY <2>1
<1>2. \A i \in DOMAIN rest : i \in Nat \ {0} /\ i + 1 \in DOMAIN jobs /\ rest[i] = jobs[i + 1] /\ i + 1 > 1
  <2>1. \A i \in 1..(Len(jobs) - 1) : rest[i] = jobs[i + 1]
    BY RestOf
  <2> QED BY <1>1, <2>1
<1>3. \A k \in DOMAIN jobs : k > 1 => k - 1 \in DOMAIN rest /\ rest[k - 1] = jobs[k]
  <2> TAKE k \in DOMAIN jobs
  <2> HAVE k > 1
  <2>1. k - 1 \in DOMAIN rest /\ (k - 1) + 1 = k
    BY <1>1
  <2> QED BY <1>2, <2>1
<1>4. ASSUME NEW j \in DOMAIN rest, NEW k \in DOMAIN jobs, k > j + 1, jobs[k] = "index"
      PROVE  \E m \in DOMAIN rest : m > j /\ rest[m] = "index"
  <2>1. k > 1 /\ k - 1 > j
    BY <1>1, <1>2, <1>4
  <2> QED BY <1>3, <1>4, <2>1
<1>5. ASSUME IndexLast(jobs)
      PROVE  IndexLast(rest)
  <2> SUFFICES ASSUME NEW j \in DOMAIN rest, rest[j] = "extend",
                      NEW i \in DOMAIN rest, i < j, rest[i] = "index"
               PROVE  \E k \in DOMAIN rest : k > j /\ rest[k] = "index"
    BY DEF IndexLast
  <2>1. /\ j + 1 \in DOMAIN jobs /\ jobs[j + 1] = "extend" /\ i + 1 \in DOMAIN jobs /\ jobs[i + 1] = "index"
        /\ i + 1 < j + 1
    BY <1>2
  <2>2. PICK k \in DOMAIN jobs : k > j + 1 /\ jobs[k] = "index"
    BY <1>5, <2>1 DEF IndexLast
  <2> QED BY <1>4, <2>2
<1>6. ASSUME Renewed(jobs)
      PROVE  Renewed(rest)
  <2> SUFFICES ASSUME NEW j \in DOMAIN rest, rest[j] = "extend"
               PROVE  \E k \in DOMAIN rest : k > j /\ rest[k] = "index"
    BY DEF Renewed
  <2>1. j + 1 \in DOMAIN jobs /\ jobs[j + 1] = "extend"
    BY <1>2
  <2>2. PICK k \in DOMAIN jobs : k > j + 1 /\ jobs[k] = "index"
    BY <1>6, <2>1 DEF Renewed
  <2> QED BY <1>4, <2>2
<1>7. ASSUME IndexLast(jobs), Head(jobs) = "index"
      PROVE  Renewed(rest)
  <2> SUFFICES ASSUME NEW j \in DOMAIN rest, rest[j] = "extend"
               PROVE  \E k \in DOMAIN rest : k > j /\ rest[k] = "index"
    BY DEF Renewed
  <2>1. /\ j + 1 \in DOMAIN jobs /\ jobs[j + 1] = "extend" /\ jobs[1] = "index" /\ 1 < j + 1
    BY <1>1, <1>2, <1>7
  <2>2. PICK k \in DOMAIN jobs : k > j + 1 /\ jobs[k] = "index"
    BY <1>1, <1>7, <2>1 DEF IndexLast
  <2> QED BY <1>4, <2>2
<1>8. ASSUME Renewed(jobs), Head(jobs) = "extend"
      PROVE  \E k \in DOMAIN rest : rest[k] = "index"
  <2>1. PICK k \in DOMAIN jobs : k > 1 /\ jobs[k] = "index"
    BY <1>1, <1>8 DEF Renewed
  <2> QED BY <1>3, <2>1
<1>9. ASSUME NEW k \in DOMAIN jobs, jobs[k] = "index", Head(jobs) # "index"
      PROVE  \E m \in DOMAIN rest : rest[m] = "index"
  <2>1. k > 1
    BY <1>1, <1>9
  <2> QED BY <1>3, <1>9, <2>1
<1> QED BY <1>5, <1>6, <1>7, <1>8, <1>9

LEMMA IndexingStays ==
    ASSUME NEW f, IsFrame(f), NEW new, Moves(f, new)
    PROVE  new.job = "index" <=> f.job = "index"
<1>1. CASE f.job = "index"
  BY <1>1 DEF Moves, Leaves, Passes, Numbers, Collects, Gathers, Stamps, Installs, ShowsHeading, ShowsElement,
              Generates, Asks, Reserves, ShowsCitation, Hosts, Stands, IsFrame, Fields
<1>2. CASE f.job \in {"seed", "render"}
  <2>1. new.job \in {"seed", "render"}
    BY <1>2, JobStays DEF Passing
  <2> QED BY <1>2, <2>1
<1>3. CASE f.job \in {"stamp", "gather", "write"}
  BY ZenonT(50), <1>3 DEF Moves, Leaves, Passes, Numbers, Collects, Gathers, Stamps, Installs, Turns2, ShowsHeading,
              ShowsElement, Generates, Asks, Reserves, ShowsCitation, Hosts, Stands, IsFrame, Fields
<1> QED BY <1>1, <1>2, <1>3 DEF IsFrame

\* A job that is no render is the only one.
LEMMA AloneOnTop ==
    ASSUME IInv, Replays, Depth > 0, Top.job \notin Passing
    PROVE  Depth = 1 /\ Top = stack[1] /\ passes = << >>
<1>1. Depth \in 1..Depth /\ Depth \in Nat
  BY OnTop
<1>2. Depth = 1
  BY <1>1 DEF Replays, Top
<1> QED BY <1>2 DEF Replays, Top

\* The document changes when an extension or the stamping changes it, and before the passes.
LEMMA DocumentStays ==
    ASSUME IInv, Replays, [Next]_vars
    PROVE  \/ document' = document
           \/ Extend /\ Depth = 0 /\ Depth' = 0 /\ passes = << >> /\ passes' = << >> /\ index' = index
           \/ FinishStamp /\ Depth = 1 /\ Top = stack[1] /\ Depth' = 0 /\ passes = << >> /\ passes' = << >>
              /\ plan' = plan /\ index' = index
<1>1. CASE Extend
  <2>1. Depth = 0 /\ plan # << >> /\ Head(plan) = "extend" /\ stack' = stack /\ passes' = passes /\ index' = index
    BY <1>1 DEF Extend
  <2>2. plan \in Seq({"stamp", "extend", "index", "render"})
    BY DEF IInv, TypeOK
  <2>3. 1 \in DOMAIN plan /\ plan[1] = "extend"
    BY <2>1, <2>2
  <2>4. passes = << >>
    BY <2>3 DEF Replays, OnlyRenders
  <2> QED BY <1>1, <2>1, <2>4 DEF Depth
<1>2. CASE FinishStamp
  <2>1. Depth > 0 /\ Top.job = "write" /\ Return /\ plan' = plan /\ index' = index /\ passes' = passes
    BY <1>2 DEF FinishStamp, Ended
  <2>2. Depth = 1 /\ Top = stack[1] /\ passes = << >>
    BY <2>1, AloneOnTop DEF Passing
  <2>3. Depth' = 0
    BY <2>1, <2>2, ReturnStep
  <2> QED BY <1>2, <2>1, <2>2, <2>3
<1> QED BY <1>1, <1>2
    DEF Next, vars, Begin, Pass, NumberHeading, CollectCitation, FinishIndex, GatherSlots, StampHeading,
        FinishSeed, ShowHeading, ShowElement, Generate, AskCitations, ReserveCitation, ShowCitation,
        Nest, EndRender, Done

FirstAtWork == Depth > 0 => AtWork(stack[1], document)

LEMMA FirstAtWorkStep ==
    ASSUME IInv, Replays, NumbersForetold, ElementsApart, FirstAtWork, [Next]_vars
    PROVE  FirstAtWork'
<1>1. IInv' /\ ElementsApart'
  BY InvStep, ElementsApartStep
<1>2. SUFFICES ASSUME Depth' > 0
               PROVE  AtWork(stack'[1], document')
  BY DEF FirstAtWork
<1>3. Depth \in Nat /\ Depth' \in Nat /\ 1 \in 1..Depth'
  BY <1>1, <1>2 DEF IInv, TypeOK, Depth
<1>4. document' = document
  BY <1>2, DocumentStays
<1>5. IsFrame(stack'[1]) /\ Sounding(stack'[1])
  BY <1>1, <1>3 DEF IInv, TypeOK, ElementsApart, Depth
<1>6. CASE 1 \in 1..Depth /\ stack'[1] = stack[1]
  BY <1>3, <1>4, <1>6 DEF FirstAtWork
<1>7. CASE 1 \in 1..Depth /\ Moves(stack[1], stack'[1])
  <2>1. IsFrame(stack[1]) /\ Foretelling(stack[1]) /\ Sounding(stack[1]) /\ AtWork(stack[1], document)
    BY <1>3, <1>7 DEF IInv, TypeOK, NumbersForetold, ElementsApart, FirstAtWork
  <2> QED BY <1>4, <1>5, <1>7, <2>1, WorkMoves
<1>8. CASE \E job \in {"stamp", "index", "seed"} : stack'[1] = Frame(job, document)
  BY <1>4, <1>8, WorkBegins
<1> QED BY <1>3, <1>6, <1>7, <1>8, FrameSteps

\* The headings of the document have titles: the parsed ones, and those extensions add.
LEMMA ExtendTitles ==
    ASSUME IInv, Titled(document), Extend
    PROVE  Titled(document')
<1>9. CASE \E k \in DOMAIN document.parts[0] : document' = [document EXCEPT !.parts[0][k].within = "closed"]
  <2>1. PICK new : new = document'
    OBVIOUS
  <2>2. Wrapped(document, new)
    BY <1>9, <2>1, WrapChanges DEF IInv, TypeOK
  <2> QED BY <2>1, <2>2 DEF Titled, Wrapped
<1>10. SUFFICES ASSUME \E site \in Added : \/ document' = [document EXCEPT !.parts[0] = <<site>> \o @]
                                          \/ document' = [document EXCEPT !.parts[0] = Append(@, site)]
                PROVE  Titled(document')
  BY <1>9 DEF Extend
<1>1. PICK site \in Added : \/ document' = [document EXCEPT !.parts[0] = <<site>> \o @]
                            \/ document' = [document EXCEPT !.parts[0] = Append(@, site)]
  BY <1>10
<1>2. IsDoc(document) /\ site.name # NoId
  BY HeadingsTitled DEF IInv, TypeOK
<1>3. PICK body : body = document.parts[0]
  OBVIOUS
<1>4. PICK more : document' = [document EXCEPT !.parts[0] = more]
                  /\ (more = <<site>> \o body \/ more = Append(body, site))
  BY <1>1, <1>3
<1>5. 0 \in Parts(document) /\ body \in Seq(Site)
  BY <1>2, <1>3, UsedParts
<1>6. /\ Parts(document') = Parts(document) /\ document'.parts[0] = more
      /\ \A n \in Parts(document) : n # 0 => document'.parts[n] = document.parts[n]
  BY <1>2, <1>4, <1>5 DEF IsDoc, Parts
<1>7. \A k \in DOMAIN more : more[k] = site \/ \E j \in DOMAIN body : more[k] = body[j]
  <2>1. CASE more = <<site>> \o body
    <3>1. PICK L \in Nat : L = Len(body) /\ DOMAIN body = 1..L
      BY <1>5
    <3>2. /\ DOMAIN more = 1..(L + 1) /\ more[1] = site /\ \A k \in 1..L : more[k + 1] = body[k]
      BY <1>5, <2>1, <3>1
    <3>3. \A k \in 1..(L + 1) : k = 1 \/ (k - 1 \in 1..L /\ (k - 1) + 1 = k)
      OBVIOUS
    <3> QED BY ZenonT(40), <3>1, <3>2, <3>3
  <2>2. CASE more = Append(body, site)
    <3>1. PICK L \in Nat : L = Len(body) /\ DOMAIN body = 1..L
      BY <1>5
    <3>2. /\ DOMAIN more = 1..(L + 1) /\ more[L + 1] = site /\ \A k \in 1..L : more[k] = body[k]
      BY <1>5, <2>2, <3>1
    <3>3. \A k \in 1..(L + 1) : k = L + 1 \/ k \in 1..L
      OBVIOUS
    <3> QED BY <3>1, <3>2, <3>3
  <2> QED BY <1>4, <2>1, <2>2
<1>8. ASSUME NEW n \in Parts(document'), NEW k \in DOMAIN document'.parts[n],
             document'.parts[n][k].kind = "heading"
      PROVE  document'.parts[n][k].name # NoId
  <2>1. CASE n = 0
    BY <1>2, <1>3, <1>5, <1>6, <1>7, <1>8, <2>1 DEF Titled
  <2>2. CASE n # 0
    BY <1>6, <1>8, <2>2 DEF Titled
  <2> QED BY <2>1, <2>2
<1> QED BY <1>8 DEF Titled

\* How the index and the plan change.
LEMMA IndexMoves ==
    ASSUME IInv, Replays, [Next]_vars
    PROVE  \/ Begin /\ plan # << >> /\ plan' = Tail(plan) /\ index' = index /\ document' = document
              /\ ~Indexing /\ (Indexing' <=> Head(plan) = "index") /\ Head(plan) # "extend"
           \/ Extend /\ plan # << >> /\ plan' = Tail(plan) /\ Head(plan) = "extend" /\ index' = index
              /\ ~Indexing /\ ~Indexing'
           \/ FinishIndex /\ plan' = plan /\ document' = document /\ Top = stack[1] /\ Depth = 1
              /\ Indexing /\ ~Indexing'
           \/ FinishStamp /\ plan' = plan /\ index' = index /\ ~Indexing /\ ~Indexing'
           \/ plan' = plan /\ index' = index /\ document' = document /\ (Indexing' <=> Indexing)
<1>1. CASE Begin
  <2>1. /\ Depth = 0 /\ plan # << >> /\ Head(plan) # "extend" /\ plan' = Tail(plan)
        /\ index' = index /\ document' = document
        /\ stack' = <<Frame(IF Head(plan) = "render" THEN "seed" ELSE Head(plan), document)>>
    BY <1>1 DEF Begin
  <2>2. PICK job : job = IF Head(plan) = "render" THEN "seed" ELSE Head(plan)
    OBVIOUS
  <2>3. PICK f : f = Frame(job, document)
    OBVIOUS
  <2>4. Depth' = 1 /\ stack'[1] = f
    BY <2>1, <2>2, <2>3 DEF Depth
  <2>5. f.job = job
    BY <2>3 DEF Frame
  <2> QED BY <1>1, <2>1, <2>2, <2>4, <2>5 DEF Indexing
<1>2. CASE Extend
  <2>1. Depth = 0 /\ plan # << >> /\ Head(plan) = "extend" /\ plan' = Tail(plan) /\ stack' = stack /\ index' = index
    BY <1>2 DEF Extend
  <2> QED BY <1>2, <2>1 DEF Indexing, Depth
<1>3. CASE FinishIndex
  <2>1. Depth > 0 /\ Top.job = "index" /\ Return /\ plan' = plan /\ document' = document
    BY <1>3 DEF FinishIndex, Ended
  <2>2. Depth = 1 /\ Top = stack[1]
    BY <2>1, AloneOnTop DEF Passing
  <2>3. Depth' = 0
    BY <2>1, <2>2, ReturnStep
  <2> QED BY <1>3, <2>1, <2>2, <2>3 DEF Indexing
<1>4. CASE FinishStamp
  <2>1. Depth > 0 /\ Top.job = "write" /\ Return /\ plan' = plan /\ index' = index
    BY <1>4 DEF FinishStamp, Ended
  <2>2. Depth = 1 /\ Top = stack[1]
    BY <2>1, AloneOnTop DEF Passing
  <2>3. Depth' = 0
    BY <2>1, <2>2, ReturnStep
  <2> QED BY <1>4, <2>1, <2>2, <2>3 DEF Indexing
<1>5. ASSUME Depth > 0, plan' = plan, index' = index, document' = document, Depth' > 0
      PROVE  Indexing' <=> Indexing
  <2>1. Depth \in Nat /\ Depth' \in Nat
    BY InvStep DEF IInv, TypeOK, Depth
  <2>2. 1 \in 1..Depth' /\ 1 \in 1..Depth
    BY <1>5, <2>1
  <2>3. stack'[1] = stack[1] \/ Moves(stack[1], stack'[1])
    BY <1>5, <2>2, FrameSteps
  <2>4. IsFrame(stack[1])
    BY <2>2 DEF IInv, TypeOK
  <2> QED BY <1>5, <2>3, <2>4, IndexingStays DEF Indexing
<1>6. CASE EndRender
  <2>1. Depth > 0 /\ Top.job = "render" /\ Return /\ plan' = plan /\ index' = index /\ document' = document
    BY <1>6 DEF EndRender, Ended
  <2>2. Depth' = Depth - 1 /\ Depth \in Nat
    BY <2>1, OnTop, ReturnStep
  <2>3. CASE Depth = 1
    BY <2>1, <2>2, <2>3 DEF Indexing, Top
  <2>4. CASE Depth # 1
    BY <1>5, <2>1, <2>2, <2>4
  <2> QED BY <2>3, <2>4
<1>7. CASE Pass \/ NumberHeading \/ CollectCitation \/ GatherSlots \/ StampHeading \/ FinishSeed
           \/ ShowHeading \/ ShowElement \/ Generate \/ AskCitations \/ ReserveCitation \/ ShowCitation \/ Nest
  <2>1. document' = document /\ plan' = plan /\ index' = index /\ Depth > 0
    BY <1>7 DEF Pass, NumberHeading, CollectCitation, GatherSlots, StampHeading, FinishSeed,
                ShowHeading, ShowElement, Generate, AskCitations, ReserveCitation, ShowCitation, Nest, At, Ended
  <2>2. Depth' > 0 \/ ~Indexing'
    BY DEF Indexing
  <2>3. Depth' > 0
    <3>1. stack \in Seq(ToSet(stack)) /\ Depth \in Nat /\ Depth \in 1..Depth
      BY <2>1, OnTop
    <3>2. CASE Nest
      <4>1. PICK below, inner : stack' = Append(below, inner) /\ below = [stack EXCEPT ![Depth].next = @ + 1]
        BY <3>2 DEF Nest
      <4>2. below \in Seq(ToSet(stack) \cup {below[Depth], inner})
        BY <3>1, <4>1 DEF Depth
      <4>3. Len(stack') = Len(below) + 1 /\ Len(below) \in Nat
        BY <4>1, <4>2, AppendProperties
      <4> QED BY <4>3 DEF Depth
    <3>3. CASE ~Nest
      <4>1. \E new : Continue(new)
        BY <1>7, <2>1, <3>3, TopMoves
      <4>2. PICK new : stack' = [stack EXCEPT ![Depth] = new]
        BY <4>1 DEF Continue
      <4>3. stack' \in Seq(ToSet(stack) \cup {new}) /\ Len(stack') = Len(stack)
        BY <3>1, <4>2 DEF Depth
      <4> QED BY <2>1, <4>3 DEF Depth
    <3> QED BY <3>2, <3>3
  <2> QED BY <1>5, <2>1, <2>3
<1>8. CASE Done \/ UNCHANGED vars
  BY <1>8 DEF Done, vars, Indexing, Depth
<1> QED BY <1>1, <1>2, <1>3, <1>4, <1>6, <1>7, <1>8 DEF Next

\* An index that was made before an extension is made again.
PlanKept == IndexLast(plan) /\ (index # << >> \/ Indexing => Renewed(plan))

LEMMA PlanKeptStep ==
    ASSUME IInv, Replays, PlanKept, [Next]_vars
    PROVE  PlanKept'
<1>1. plan \in Seq({"stamp", "extend", "index", "render"})
  BY DEF IInv, TypeOK
<1>2. CASE plan # << >> /\ plan' = Tail(plan) /\ index' = index /\ (Indexing' => Head(plan) = "index")
  <2>1. IndexLast(plan')
    BY <1>1, <1>2, PlanGoesOn DEF PlanKept
  <2>2. ASSUME index # << >>
        PROVE  Renewed(plan')
    BY <1>1, <1>2, <2>2, PlanGoesOn DEF PlanKept
  <2>3. ASSUME Indexing'
        PROVE  Renewed(plan')
    BY <1>1, <1>2, <2>3, PlanGoesOn DEF PlanKept
  <2>4. IndexLast(plan)'
    BY <2>1 DEF IndexLast
  <2>5. index' # << >> \/ Indexing' => Renewed(plan)'
    BY <1>2, <2>2, <2>3 DEF Renewed
  <2> QED BY <2>4, <2>5 DEF PlanKept
<1>3. CASE plan' = plan /\ (Indexing \/ (index' = index /\ (Indexing' => Indexing)))
  BY <1>3 DEF PlanKept, Renewed, IndexLast
<1> QED BY <1>2, <1>3, IndexMoves

\* The document the stamping leaves behind.
LEMMA FinishStampLeaves ==
    ASSUME IInv, Replays, ElementsApart, FirstAtWork, Titled(document), FinishStamp
    PROVE  /\ Titled(document')
           /\ \A s : Truth(document, s) => Truth(document', s)
<1>1. Depth > 0 /\ Top.job = "write" /\ Top.parts = << >> /\ document' = Top.doc
  BY DEF FinishStamp, Ended
<1>2. Depth = 1 /\ Top = stack[1] /\ Depth \in 1..Depth /\ IsFrame(Top)
  BY <1>1, AloneOnTop, OnTop DEF Passing
<1>3. AtWork(Top, document) /\ OnWalk(Top)
  BY <1>1, <1>2 DEF FirstAtWork, ElementsApart, Sounding, Writing
<1>4. /\ Titled(Top.doc)
      /\ \A s : Truth(document, s) => Truth(Top.doc, s)
  BY <1>1, <1>2, <1>3, StampingEnds
<1> QED BY <1>1, <1>4

LEMMA TitledStep ==
    ASSUME IInv, Replays, ElementsApart, FirstAtWork, Titled(document), [Next]_vars
    PROVE  Titled(document')
BY DocumentStays, ExtendTitles, FinishStampLeaves

\* An index that is not about to be made again is one of the document.
TruthKept == index # << >> /\ ~Pending => Truth(document, index)

LEMMA TruthKeptStep ==
    ASSUME IInv, Replays, NumbersForetold, ElementsApart, FirstAtWork, Titled(document), PlanKept, TruthKept,
           [Next]_vars
    PROVE  TruthKept'
<1>1. plan \in Seq({"stamp", "extend", "index", "render"})
  BY DEF IInv, TypeOK
<1>2. SUFFICES ASSUME index' # << >>, ~Pending'
               PROVE  Truth(document', index')
  <2>1. Truth(document', index') => Truth(document, index)'
    BY DEF Truth, Listed, Other, Clashing, Finds, Seen, Shut, ShutIds, Unseen, Others, Closed, Places, SiteAt,
           Explicit, IdsAt, Parts, Used, Rank
  <2> QED BY <2>1 DEF TruthKept
<1>3. CASE Begin /\ plan # << >> /\ plan' = Tail(plan) /\ index' = index /\ document' = document
           /\ ~Indexing /\ (Indexing' <=> Head(plan) = "index")
  <2>1. Pending => Pending'
    BY <1>1, <1>3, PlanGoesOn DEF Pending
  <2> QED BY <1>2, <1>3, <2>1 DEF TruthKept
<1>4. CASE Extend /\ plan # << >> /\ plan' = Tail(plan) /\ Head(plan) = "extend" /\ index' = index
  <2>1. Renewed(plan)
    BY <1>2, <1>4 DEF PlanKept
  <2>2. Pending'
    BY <1>1, <1>4, <2>1, PlanGoesOn DEF Pending
  <2> QED BY <1>2, <2>2
<1>5. CASE FinishIndex /\ document' = document /\ Top = stack[1] /\ Depth = 1
  <2>1. Top.job = "index" /\ Top.parts = << >> /\ index' = Top.slots
    BY <1>5 DEF FinishIndex, Ended
  <2>2. IsFrame(Top) /\ 1 \in 1..Depth
    BY <1>5, OnTop
  <2>3. Numbered(Top)
    <3>1. Seeding(Top)
      BY <1>5, <2>1, <2>2 DEF NumbersForetold, Foretelling, Numbering
    <3> QED BY <2>1, <2>2, <3>1, SeedingNumbers DEF Numbering
  <2>4. Top.doc = document /\ Top.explicit = Explicit("index", document)
    BY <1>5, <2>1 DEF FirstAtWork, AtWork
  <2>5. PICK doc, slots : doc = document' /\ slots = index'
    OBVIOUS
  <2>6. Top.doc = doc /\ Top.explicit = Explicit("index", doc) /\ Top.slots = slots
    BY <1>5, <2>1, <2>4, <2>5
  <2>7. Listed(doc, slots)
    <3>1. Used(doc) \subseteq Parts(doc)
      BY <2>3, <2>6, UsedParts DEF Numbered
    <3> QED BY <2>3, <2>6, <3>1 DEF Numbered, Filled, Listed
  <2>8. ASSUME NEW g, Other(g, doc)
        PROVE  Clashing(doc, g, slots) \/ Finds(doc, g, slots)
    <3>1. ~Clashing(doc, g, slots) => Beside(Top, g)
      BY <2>1, <2>3, <2>6, <2>8 DEF Beside
    <3> QED BY <2>6, <3>1, IndexNear
  <2>9. Truth(doc, slots)
    BY <2>7, <2>8 DEF Truth
  <2> QED BY <2>5, <2>9
<1>6. CASE FinishStamp /\ plan' = plan /\ index' = index /\ ~Indexing
  <2>1. ~Pending
    BY <1>2, <1>6 DEF Pending
  <2>2. Truth(document, index)
    BY <1>2, <1>6, <2>1, FinishStampLeaves DEF TruthKept
  <2> QED BY <1>6, <2>2, FinishStampLeaves
<1>7. CASE plan' = plan /\ index' = index /\ document' = document /\ (Indexing' <=> Indexing)
  BY <1>2, <1>7 DEF TruthKept, Pending
<1> QED BY <1>3, <1>4, <1>5, <1>6, <1>7, IndexMoves

-----------------------------------------------------------------------------
\* A whole render of a document.
Whole(f, doc) ==
    /\ IsFrame(f) /\ f.job = "render" /\ f.parts = << >> /\ f.doc = doc
    /\ Rendering(f) /\ Showing(f) /\ f.explicit = Explicit("seed", doc)

PassesWhole == \A p \in DOMAIN passes : \E f : Whole(f, document) /\ f.shown = passes[p]

LEMMA PassesWholeStep ==
    ASSUME IInv, Replays, NumbersForetold, ElementsApart, FirstAtWork, PassesWhole, [Next]_vars
    PROVE  PassesWhole'
<1>1. CASE passes' = << >>
  BY <1>1 DEF PassesWhole
<1>2. CASE document' = document /\ passes' = passes
  BY <1>2 DEF PassesWhole
<1>3. CASE EndRender
  <2>1. /\ Depth > 0 /\ Top.job = "render" /\ Top.parts = << >> /\ document' = document
        /\ passes' = IF Depth = 1 THEN Append(passes, Top.shown) ELSE passes
    BY <1>3 DEF EndRender, Ended
  <2>2. CASE Depth = 1
    <3>1. IsFrame(Top) /\ Apart(Top) /\ Depth \in 1..Depth /\ Top = stack[1]
      BY <2>1, <2>2, OnTop DEF Top
    <3>2. Rendering(Top) /\ Showing(Top) /\ Top.doc = document
      BY <2>1, <2>2, <3>1 DEF NumbersForetold, Foretelling, ElementsApart, Sounding, FirstAtWork, AtWork
    <3>3. Whole(Top, document)
      BY <2>1, <3>1, <3>2 DEF Whole, Apart
    <3>4. PICK shown : shown = Top.shown
      OBVIOUS
    <3>5. passes' = Append(passes, shown) /\ passes \in Seq(ToSet(passes))
      BY <2>1, <2>2, <3>4 DEF Replays
    <3>6. \A p \in DOMAIN passes' : (p \in DOMAIN passes /\ passes'[p] = passes[p]) \/ passes'[p] = shown
      BY <3>5
    <3>7. \A p \in DOMAIN passes' : \E f : Whole(f, document) /\ f.shown = passes'[p]
      BY <3>3, <3>4, <3>6 DEF PassesWhole
    <3> QED BY <2>1, <3>7 DEF PassesWhole
  <2>3. CASE Depth # 1
    BY <1>2, <2>1, <2>3
  <2> QED BY <2>2, <2>3
<1>4. document' = document \/ passes' = << >>
  BY DocumentStays
<1>5. CASE ~EndRender
  <2>1. passes' = passes
    BY <1>5 DEF Next, vars, Begin, Extend, Pass, NumberHeading, CollectCitation, FinishIndex, GatherSlots,
                StampHeading, FinishStamp, FinishSeed, ShowHeading, ShowElement, Generate, AskCitations,
                ReserveCitation, ShowCitation, Nest, Done
  <2> QED BY <1>1, <1>2, <1>4, <2>1
<1> QED BY <1>3, <1>5

\* A whole render shows every heading of its document, each once, with its number.
LEMMA AllShown ==
    ASSUME NEW doc, NEW f, Whole(f, doc), InOrder(doc)
    PROVE  /\ \A e \in DOMAIN f.shown : f.shown[e].kind = "heading" =>
                  LET n == f.shown[e].part
                      k == f.shown[e].at
                  IN  /\ n \in Used(doc) /\ n \in Parts(doc) /\ k \in DOMAIN doc.parts[n]
                      /\ doc.parts[n][k].kind = "heading"
                      /\ f.slots[n][Rank(doc, n, k)] = f.shown[e].id
           /\ \A n \in Used(doc) : \A k \in DOMAIN doc.parts[n] : doc.parts[n][k].kind = "heading" =>
                  \E e \in DOMAIN f.shown :
                      f.shown[e].kind = "heading" /\ f.shown[e].part = n /\ f.shown[e].at = k
           /\ \A n \in Used(doc) : Cardinality(HeadingsOf(f.shown, n)) = Rank(doc, n, Len(doc.parts[n]))
<1>1. /\ IsFrame(f) /\ f.doc = doc /\ Rendering(f) /\ OnWalk(f) /\ f.job = "render" /\ f.parts = << >>
      /\ Foretold(doc, f.shown, f.slots) /\ IsDoc(doc)
  BY DEF Whole, Rendering, IsFrame
<1>2. PICK P : PutDown(f, P)
  BY DEF Whole, Showing
<1>3. \A n \in Parts(doc) : Len(doc.parts[n]) \in Nat /\ DOMAIN doc.parts[n] = 1..Len(doc.parts[n])
  BY <1>1, UsedParts
<1>4. ASSUME NEW e \in DOMAIN f.shown
      PROVE  /\ f.shown[e].part \in Used(doc) /\ f.shown[e].part \in Parts(doc)
             /\ f.shown[e].at \in DOMAIN doc.parts[f.shown[e].part]
             /\ doc.parts[f.shown[e].part][f.shown[e].at].kind = f.shown[e].kind
             /\ P[e] = <<f.shown[e].part, f.shown[e].at>>
  <2>1. e \in DOMAIN P /\ P[e] \in Walks(f) /\ Shows(f, f.shown[e], P[e])
    BY <1>2 DEF PutDown
  <2>2. PICK n \in Used(f.doc) : \E k \in 1..Progress(f, n) :
            P[e] = <<n, k>> /\ P[e][1] = n /\ P[e][2] = k /\ n \in Parts(f.doc)
    BY <1>1, <2>1, WalkedPlaces
  <2>3. PICK k \in 1..Progress(f, n) :
            P[e] = <<n, k>> /\ P[e][1] = n /\ P[e][2] = k /\ n \in Parts(f.doc)
    BY <2>2
  <2>4. Progress(f, n) = Len(doc.parts[n])
    BY <1>1, UsedWalked
  <2>5. f.shown[e].kind = SiteAt(doc, P[e]).kind /\ f.shown[e].part = n /\ f.shown[e].at = k
    BY <1>1, <2>1, <2>3 DEF Shows
  <2> QED BY <1>1, <1>3, <2>3, <2>4, <2>5 DEF SiteAt
<1>5. ASSUME NEW e \in DOMAIN f.shown, f.shown[e].kind = "heading"
      PROVE  f.slots[f.shown[e].part][Rank(doc, f.shown[e].part, f.shown[e].at)] = f.shown[e].id
  BY <1>1, <1>5 DEF Foretold
<1>6. ASSUME NEW n \in Used(doc)
      PROVE  /\ Cardinality(HeadingsOf(f.shown, n)) = Rank(doc, n, Len(doc.parts[n]))
             /\ \A k \in DOMAIN doc.parts[n] : doc.parts[n][k].kind = "heading" =>
                    \E e \in HeadingsOf(f.shown, n) : f.shown[e].at = k
  <2>1. n \in Parts(doc) /\ Progress(f, n) = Len(doc.parts[n])
    BY <1>1, UsedParts, UsedWalked
  <2>2. PICK L \in Nat : L = Len(doc.parts[n]) /\ DOMAIN doc.parts[n] = 1..L
    BY <1>3, <2>1
  <2>3. PICK H, A : H = HeadingsOf(f.shown, n) /\ A = {f.shown[e].at : e \in H}
    OBVIOUS
  <2>4. Cardinality(H) = Rank(doc, n, L)
    BY <1>1, <2>1, <2>2, <2>3 DEF Rendering, Counted
  <2>5. A \subseteq Heads(doc, n, L)
    BY <1>4, <2>2, <2>3 DEF HeadingsOf, Heads
  <2>6. IsFiniteSet(H)
    <3>1. \E S : f.shown \in Seq(S)
      BY <1>1 DEF IsFrame
    <3>2. DOMAIN f.shown = 1..Len(f.shown) /\ Len(f.shown) \in Nat
      BY <3>1
    <3>3. IsFiniteSet(DOMAIN f.shown)
      BY <3>2, FS_Interval
    <3> QED BY <2>3, <3>3, FS_Subset DEF HeadingsOf
  <2>7. Cardinality(A) = Cardinality(H)
    <3> DEFINE at == [e \in H |-> f.shown[e].at]
    <3>1. ASSUME NEW d \in H, NEW e \in H, at[d] = at[e]
          PROVE  d = e
      <4>1. d \in DOMAIN f.shown /\ e \in DOMAIN f.shown /\ f.shown[d].part = n /\ f.shown[e].part = n
        BY <2>3 DEF HeadingsOf
      <4>2. P[d] = P[e]
        BY <1>4, <3>1, <4>1
      <4> QED BY <1>2, <4>1, <4>2 DEF PutDown
    <3>2. at \in Bijection(H, A)
      BY <2>3, <3>1 DEF Bijection, Injection, Surjection, IsInjective
    <3>3. ExistsBijection(H, A)
      BY <3>2 DEF ExistsBijection
    <3> HIDE DEF at
    <3> QED BY <2>6, <3>3, FS_Bijection
  <2>8. A = Heads(doc, n, L)
    <3>1. IsFiniteSet(Heads(doc, n, L)) /\ Cardinality(Heads(doc, n, L)) = Rank(doc, n, L)
      BY RankFacts DEF Rank, Heads
    <3> QED BY <2>4, <2>5, <2>7, <3>1, FS_Subset
  <2>9. ASSUME NEW k \in DOMAIN doc.parts[n], doc.parts[n][k].kind = "heading"
        PROVE  \E e \in HeadingsOf(f.shown, n) : f.shown[e].at = k
    <3>1. k \in A
      BY <2>2, <2>8, <2>9 DEF Heads
    <3> QED BY <2>3, <3>1
  <2> QED BY <2>2, <2>3, <2>4, <2>9
<1> QED BY <1>4, <1>5, <1>6 DEF HeadingsOf

\* A whole render and the index of its document.
LEMMA WholeAgrees ==
    ASSUME NEW f, Whole(f, document), InOrder(document), Truth(document, index)
    PROVE  Clashes(f.shown) \/ Indexed(f.shown)
<1>1. Other(f, document) /\ IsDoc(document)
  <2>1. /\ IsFrame(f) /\ f.doc = document /\ Rendering(f) /\ f.job = "render"
        /\ f.explicit = Explicit("seed", document)
    BY DEF Whole
  <2>2. Numbered(f)
    BY <2>1, RenderingNumbers
  <2> QED BY <2>1, <2>2 DEF Other, IsFrame
<1>2. \A e \in DOMAIN f.shown : f.shown[e].kind = "heading" =>
          LET n == f.shown[e].part
              k == f.shown[e].at
          IN  /\ n \in Used(document) /\ n \in Parts(document) /\ k \in DOMAIN document.parts[n]
              /\ document.parts[n][k].kind = "heading"
              /\ f.slots[n][Rank(document, n, k)] = f.shown[e].id
  BY SMTT(30), AllShown
<1>3. /\ \A n \in Used(document) : \A k \in DOMAIN document.parts[n] : document.parts[n][k].kind = "heading" =>
             \E e \in DOMAIN f.shown :
                 f.shown[e].kind = "heading" /\ f.shown[e].part = n /\ f.shown[e].at = k
      /\ \A n \in Used(document) :
             Cardinality(HeadingsOf(f.shown, n)) = Rank(document, n, Len(document.parts[n]))
  BY AllShown
<1>4. \A n \in Used(document) :
          index[n] \in Seq(Id) /\ Len(index[n]) = Rank(document, n, Len(document.parts[n]))
  BY DEF Truth, Listed
<1>5. ASSUME NEW n \in Used(document), NEW k \in DOMAIN document.parts[n],
             document.parts[n][k].kind = "heading"
      PROVE  Rank(document, n, k) \in DOMAIN index[n]
  <2>1. n \in Parts(document) /\ Len(document.parts[n]) \in Nat /\ k \in 1..Len(document.parts[n])
    BY <1>1, UsedParts
  <2>2. k \in Nat \ {0} /\ k <= Len(document.parts[n])
    BY <2>1
  <2>3. Rank(document, n, k) \in 1..Rank(document, n, Len(document.parts[n]))
    BY <1>5, <2>1, <2>2, RankOfHeading
  <2>4. DOMAIN index[n] = 1..Len(index[n])
    BY <1>4
  <2> QED BY <1>4, <2>3, <2>4
<1>6. \A n, k : ClosedAt(n, k) <=> Closed(document, <<n, k>>)
  BY DEF ClosedAt, Closed, SiteAt
<1>7. CASE Finds(document, f, index)
  <2>1. ASSUME NEW e \in DOMAIN f.shown, f.shown[e].kind = "heading",
               NEW n, n = f.shown[e].part, NEW k, k = f.shown[e].at
        PROVE  /\ Rank(document, n, k) \in DOMAIN index[n]
               /\ index[n][Rank(document, n, k)] = IF ClosedAt(n, k) THEN NoId ELSE f.shown[e].id
    <3>1. /\ n \in Used(document) /\ k \in DOMAIN document.parts[n] /\ document.parts[n][k].kind = "heading"
          /\ f.slots[n][Rank(document, n, k)] = f.shown[e].id
      BY <1>2, <2>1
    <3>2. index[n][Rank(document, n, k)] =
              IF Closed(document, <<n, k>>) THEN NoId ELSE f.slots[n][Rank(document, n, k)]
      BY <1>7, <3>1 DEF Finds
    <3> QED BY <1>5, <1>6, <3>1, <3>2
  <2>2. \A n \in Used(document) : Cardinality(HeadingsOf(f.shown, n)) = Len(index[n])
    BY <1>3, <1>4
  <2> QED BY <2>1, <2>2 DEF Indexed
<1>8. CASE Clashing(document, f, index)
  <2>1. PICK p \in Seen(document) :
            index[p[1]][Rank(document, p[1], p[2])] \in Unseen(document, f, p[1], p[2])
    BY <1>8 DEF Clashing
  <2>2. PICK n, k : n = p[1] /\ k = p[2]
    OBVIOUS
  <2>3. n \in Used(document) /\ k \in DOMAIN document.parts[n] /\ document.parts[n][k].kind = "heading"
        /\ ~ClosedAt(n, k)
    BY <2>1, <2>2 DEF Seen, Places, SiteAt, Closed, ClosedAt
  <2>4. PICK e \in DOMAIN f.shown : f.shown[e].kind = "heading" /\ f.shown[e].part = n /\ f.shown[e].at = k
    BY <1>3, <2>3
  <2>5. PICK x : x = index[n][Rank(document, n, k)]
    OBVIOUS
  <2>6. Rank(document, n, k) \in DOMAIN index[n] /\ x \in Unseen(document, f, n, k)
    BY <1>5, <2>1, <2>2, <2>3, <2>5
  <2>7. ASSUME x \in ShutIds(document, f)
        PROVE  x \in {f.shown[d].id : d \in {d \in DOMAIN f.shown :
                   f.shown[d].kind = "heading" /\ ClosedAt(f.shown[d].part, f.shown[d].at)}}
    <3>1. PICK q \in Shut(document) : x = f.slots[q[1]][Rank(document, q[1], q[2])]
      BY <2>7 DEF ShutIds
    <3>2. q[1] \in Used(document) /\ q[2] \in DOMAIN document.parts[q[1]]
          /\ document.parts[q[1]][q[2]].kind = "heading" /\ ClosedAt(q[1], q[2])
      BY <3>1 DEF Shut, Places, SiteAt, Closed, ClosedAt
    <3>3. PICK d \in DOMAIN f.shown :
              f.shown[d].kind = "heading" /\ f.shown[d].part = q[1] /\ f.shown[d].at = q[2]
      BY <1>3, <3>2
    <3>4. f.shown[d].id = x
      BY <1>2, <3>1, <3>3
    <3> QED BY <3>2, <3>3, <3>4
  <2>8. x \in Overlooked(f.shown, n, k)
    BY <2>6, <2>7 DEF Unseen, Others, Overlooked
  <2> QED BY <2>3, <2>4, <2>5, <2>6, <2>8 DEF Clashes
<1> QED BY <1>1, <1>7, <1>8 DEF Truth

\* "Same numbering the renderer uses" (parse/inline_resolution.rs:404-408), before and
\* after the stamping, with extensions and without: in every reachable state, for each
\* whole render of a document with its notes in order, either the index gave a heading
\* an id that something it overlooks has, or every heading written has the id the
\* cross-references have for it and those in containers the index does not enter,
\* and these alone, are not found.
THEOREM IndexAgreesHolds == Spec => []IndexAgrees
<1>1. Init => Replays /\ NumbersForetold /\ ElementsApart
  <2> SUFFICES ASSUME Init
               PROVE  Replays /\ NumbersForetold /\ ElementsApart
    OBVIOUS
  <2>1. stack = << >> /\ passes = << >> /\ plan \in Plan /\ document \in Document \cup Inner
    BY DEF Init
  <2>2. Depth = 0 /\ passes \in Seq(ToSet(passes)) /\ \A p \in DOMAIN passes : FALSE
    BY <2>1 DEF Depth
  <2>3. Sound(document)
    BY <2>1, ParsedIsSound
  <2>4. StillOpen
    BY <2>1, StampedFirst DEF StillOpen, Init
  <2> QED BY <2>1, <2>2, <2>3, <2>4, RendersLast DEF Replays, NumbersForetold, ElementsApart
<1>2. Init => FirstAtWork /\ Titled(document) /\ PlanKept /\ TruthKept /\ PassesWhole
  <2> SUFFICES ASSUME Init
               PROVE  FirstAtWork /\ Titled(document) /\ PlanKept /\ TruthKept /\ PassesWhole
    OBVIOUS
  <2>1. stack = << >> /\ passes = << >> /\ index = << >> /\ plan \in Plan /\ document \in Document
    BY DEF Init
  <2>2. Depth = 0
    BY <2>1 DEF Depth
  <2>3. Titled(document) /\ IndexLast(plan)
    BY <2>1, HeadingsTitled, IndexRemade
  <2> QED BY <2>1, <2>2, <2>3 DEF FirstAtWork, PlanKept, Indexing, TruthKept, PassesWhole
<1>3. IInv /\ Replays /\ [Next]_vars => Replays'
  BY ReplaysStep
<1>4. IInv /\ NumbersForetold /\ [Next]_vars => NumbersForetold'
  BY NumbersForetoldStep
<1>5. IInv /\ NumbersForetold /\ ElementsApart /\ [Next]_vars => ElementsApart'
  BY ElementsApartStep
<1>6. IInv /\ Replays /\ NumbersForetold /\ ElementsApart /\ FirstAtWork /\ [Next]_vars => FirstAtWork'
  BY FirstAtWorkStep
<1>7. IInv /\ Replays /\ ElementsApart /\ FirstAtWork /\ Titled(document) /\ [Next]_vars => Titled(document)'
  BY TitledStep DEF Titled, Parts
<1>8. IInv /\ Replays /\ PlanKept /\ [Next]_vars => PlanKept'
  BY PlanKeptStep
<1>9. IInv /\ Replays /\ NumbersForetold /\ ElementsApart /\ FirstAtWork /\ Titled(document) /\ PlanKept
      /\ TruthKept /\ [Next]_vars => TruthKept'
  BY TruthKeptStep
<1>10. IInv /\ Replays /\ NumbersForetold /\ ElementsApart /\ FirstAtWork /\ PassesWhole /\ [Next]_vars
       => PassesWhole'
  BY PassesWholeStep
<1>11. Replays /\ TruthKept /\ PassesWhole => IndexAgrees
  <2> SUFFICES ASSUME Replays, TruthKept, PassesWhole,
                      index # << >>, InOrder(document), NEW p \in DOMAIN passes
               PROVE  Clashes(passes[p]) \/ Indexed(passes[p])
    BY DEF IndexAgrees
  <2>1. passes # << >>
    OBVIOUS
  <2>2. ~Pending
    BY <2>1 DEF Replays, OnlyRenders, Passing, Pending, Indexing
  <2>3. Truth(document, index)
    BY <2>2 DEF TruthKept
  <2>4. PICK f : Whole(f, document) /\ f.shown = passes[p]
    BY DEF PassesWhole
  <2> QED BY <2>3, <2>4, WholeAgrees
<1> QED BY <1>1, <1>2, <1>3, <1>4, <1>5, <1>6, <1>7, <1>8, <1>9, <1>10, <1>11, InvHolds, PTL DEF Spec

===============================================================================
