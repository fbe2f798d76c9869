-------------------------- MODULE DocumentEdits_proofs -------------------------
(***************************************************************************)
(* A document through its edits: the ids of a session's nodes              *)
(* (NodeIdentity), and the merge of two copies that were edited apart      *)
(* (AstEditing).                                                           *)
(*                                                                         *)
(* Ids: an inheritance is one to one in both directions because a key that *)
(* is not sole identifies nobody, and a fresh id is the counter plus how   *)
(* many fresh nodes come before, so it is above everything given.          *)
(*                                                                         *)
(* Offsets: between the changes of a batch are gaps that the edit moves as *)
(* a whole, by as many bytes as the adjustment says.  What no change       *)
(* touches is in a gap, so its key is where its text is now; and text that *)
(* stayed together is in one gap, because a change in between takes        *)
(* something out or puts something in.                                     *)
(*                                                                         *)
(* Merge: each pass of the matching pairs free positions of both sides, so *)
(* that a position has one partner at most and no token stands for two     *)
(* blocks.  A merge without conflicts has a line of tokens in which every  *)
(* token occurs, and a block of the base leaves it only when one side has  *)
(* no partner for it and the other side did not change it.                 *)
(*                                                                         *)
(* Order: sorting lists tokens once each, every one after those with an    *)
(* edge to it, and all of them unless some wait for one another; a line    *)
(* whose neighbours are edges is kept as it is.                            *)
(*                                                                         *)
(* Two writers: what one writer calls its addition is the other's, but for *)
(* additions of both that coincide.  With the tokens so turned the lines,  *)
(* the edges and what is stuck are the same for both, and so are the       *)
(* blocks the tokens stand for.                                            *)
(*                                                                         *)
(* Patches: a fold over the edits goes through one sequence of documents,  *)
(* so edits that give one field, block and document after the other can be *)
(* joined; and a patch under review stays the one of the final merge.      *)
(***************************************************************************)
EXTENDS NodeIdentity, AstEditing, SequenceTheorems, FiniteSetTheorems,
        WellFoundedInduction, TLAPS

-----------------------------------------------------------------------------
(* The ids of a session *)

\* The snapshot is a tree with one id per node, all below the counter.
SessionInv ==
    /\ document \in Seq(Node) /\ document # << >>
    /\ ids \in [1..Len(document) -> Nat]
    /\ next \in Nat
    /\ retired \subseteq Nat
    /\ IdsForGood

OneToOne(heirs) ==
    /\ \A h \in heirs : h[1].node \in 2..Len(document) /\ h[2].node \in 2..Len(document')
    /\ \A g, h \in heirs : g[1].node = h[1].node <=> g[2].node = h[2].node

-----------------------------------------------------------------------------
\* An old node has one heir and a new node one predecessor (old_keys, new_key_counts).
LEMMA HeirsOneToOne ==
    ASSUME NEW batch
    PROVE  OneToOne(Heirs(OldKeys(batch), NewKeys))
<1> DEFINE old == OldKeys(batch)
           H == Heirs(old, NewKeys)
<1>1. \A k \in old : k.node \in 2..Len(document)
  BY DEF OldKeys, OldKey, Untouched
<1>2. \A k, o \in old : k.node = o.node => k = o
  BY DEF OldKeys, OldKey
<1>3. \A k \in NewKeys : k.node \in 2..Len(document')
  BY DEF NewKeys, NewKey
<1>4. \A k, o \in NewKeys : k.node = o.node => k = o
  BY DEF NewKeys, NewKey
<1>5. \A h \in H : /\ h[1] \in Sole(old) /\ h[2] \in Sole(NewKeys)
                   /\ h[1].at = h[2].at /\ h[1].print = h[2].print
  BY DEF Heirs
<1>6. \A keys : \A k \in Sole(keys) :
        k \in keys /\ \A o \in keys : o.at = k.at /\ o.print = k.print => o = k
  BY DEF Sole
<1> HIDE DEF old, H
<1>7. ASSUME NEW g \in H, NEW h \in H
      PROVE  g[1].node = h[1].node <=> g[2].node = h[2].node
  <2>1. /\ g[1] \in old /\ h[1] \in old /\ g[2] \in NewKeys /\ h[2] \in NewKeys
    BY <1>5, <1>6
  <2>2. ASSUME g[1] = h[1] PROVE g[2] = h[2]
    BY <2>1, <2>2, <1>5, <1>6
  <2>3. ASSUME g[2] = h[2] PROVE g[1] = h[1]
    BY <2>1, <2>3, <1>5, <1>6
  <2> QED BY <2>1, <2>2, <2>3, <1>2, <1>4
<1>8. \A h \in H : h[1].node \in 2..Len(document) /\ h[2].node \in 2..Len(document')
  BY <1>1, <1>3, <1>5, <1>6
<1> QED BY <1>7, <1>8 DEF OneToOne, H, old

\* Numbers of fresh nodes grow along the document.
LEMMA FreshCount ==
    ASSUME NEW heirs, NEW n \in Nat
    PROVE  /\ Cardinality(Fresh(heirs, n)) \in Nat
           /\ \A q \in Fresh(heirs, n) :
                Cardinality(Fresh(heirs, q - 1)) + 1 <= Cardinality(Fresh(heirs, n))
<1>1. \A m \in Int : IsFiniteSet(Fresh(heirs, m)) /\ Cardinality(Fresh(heirs, m)) \in Nat
  <2> TAKE m \in Int
  <2>1. IsFiniteSet(2..m) /\ Fresh(heirs, m) \subseteq 2..m
    BY FS_Interval DEF Fresh
  <2> QED BY <2>1, FS_Subset, FS_CardinalityType
<1>2. ASSUME NEW q \in Fresh(heirs, n)
      PROVE  Cardinality(Fresh(heirs, q - 1)) + 1 <= Cardinality(Fresh(heirs, n))
  <2> DEFINE before == Fresh(heirs, q - 1)
  <2>1. q \in Int /\ q - 1 \in Int /\ q <= n
    BY DEF Fresh
  <2>2. q \notin before /\ before \cup {q} \subseteq Fresh(heirs, n)
    BY <2>1 DEF Fresh
  <2>3. Cardinality(before \cup {q}) = Cardinality(before) + 1
    BY <2>1, <2>2, <1>1, FS_AddElement
  <2>4. Cardinality(before \cup {q}) <= Cardinality(Fresh(heirs, n))
    BY <2>2, <1>1, FS_Subset
  <2> QED BY <2>3, <2>4
<1> QED BY <1>1, <1>2

\* Where the id of a node of the edited tree comes from: from its predecessor, which is
\* the root for the root, or from the counter.
Origin(heirs, q, p) ==
    IF q = 1 THEN p = 1 ELSE \E h \in heirs : h[2].node = q /\ h[1].node = p

\* A node keeps the id of the node it inherits from, or has a new one.
LEMMA NewIdsOrigin ==
    ASSUME SessionInv, NEW heirs, OneToOne(heirs), Len(document') \in Nat \ {0},
           NEW q \in 1..Len(document')
    PROVE  LET new == NewIds(heirs, Len(document'))
           IN \/ \E p \in 1..Len(document) : Origin(heirs, q, p) /\ new[q] = ids[p]
              \/ q \in Fresh(heirs, Len(document'))
                   /\ new[q] = next + Cardinality(Fresh(heirs, q - 1))
<1> DEFINE new == NewIds(heirs, Len(document'))
<1>0. Len(document) \in Nat \ {0}
  BY DEF SessionInv
<1>1. CASE q = 1
  BY <1>0, <1>1 DEF NewIds, Origin
<1>2. CASE q # 1 /\ \E h \in heirs : h[2].node = q
  <2> DEFINE h == CHOOSE h \in heirs : h[2].node = q
  <2>1. h \in heirs /\ h[2].node = q
    BY <1>2
  <2>2. new[q] = ids[h[1].node]
    BY <1>2 DEF NewIds
  <2>3. h[1].node \in 1..Len(document)
    BY <2>1 DEF OneToOne
  <2> QED BY <1>2, <2>1, <2>2, <2>3 DEF Origin
<1>3. CASE q # 1 /\ \A h \in heirs : h[2].node # q
  BY <1>3 DEF NewIds, Fresh
<1> QED BY <1>1, <1>2, <1>3

\* Two nodes have different predecessors.
LEMMA OriginApart ==
    ASSUME NEW heirs, OneToOne(heirs), NEW q, NEW r, NEW p,
           Origin(heirs, q, p), Origin(heirs, r, p)
    PROVE  q = r
BY DEF Origin, OneToOne

\* One edit keeps the ids unique, below the counter and apart from the retired ones.
LEMMA EditKeeps ==
    ASSUME SessionInv, NEW batch, Reparse(batch)
    PROVE  SessionInv'
<1> DEFINE n == Len(document')
<1>1. PICK heirs \in {Heirs(OldKeys(batch), NewKeys)} :
         next' = NextId(heirs, n) /\ ids' = NewIds(heirs, n)
  BY Zenon DEF Reparse
<1>2. OneToOne(heirs)
  BY <1>1, HeirsOneToOne
<1>3. document' \in Seq(Node) /\ document' # << >>
  BY ParseAssumption DEF Reparse
<1>4. n \in Nat \ {0}
  BY <1>3
<1>5. /\ next \in Nat /\ ids \in [1..Len(document) -> Nat]
      /\ retired \subseteq Nat
      /\ \A i, j \in 1..Len(document) : ids[i] = ids[j] => i = j
      /\ \A i \in 1..Len(document) : ids[i] \notin retired /\ ids[i] < next
      /\ \A id \in retired : id < next
  BY DEF SessionInv, IdsForGood, Given
<1>6. next' = next + Cardinality(Fresh(heirs, n)) /\ next' \in Nat /\ next <= next'
  BY <1>1, <1>4, <1>5, FreshCount DEF NextId
<1>7. \A q \in 1..n :
         \/ \E p \in 1..Len(document) : Origin(heirs, q, p) /\ ids'[q] = ids[p]
         \/ q \in Fresh(heirs, n) /\ ids'[q] = next + Cardinality(Fresh(heirs, q - 1))
  BY <1>1, <1>2, <1>4, NewIdsOrigin
<1>8. ASSUME NEW q \in Fresh(heirs, n), ids'[q] = next + Cardinality(Fresh(heirs, q - 1))
      PROVE  ids'[q] \in Nat /\ next <= ids'[q] /\ ids'[q] < next'
  <2>1. q - 1 \in Nat
    BY DEF Fresh
  <2> QED BY <2>1, <1>4, <1>5, <1>6, <1>8, FreshCount
<1>9. ASSUME NEW q \in 1..n
      PROVE  ids'[q] \in Nat /\ ids'[q] < next' /\ ids'[q] \notin retired
  <2>1. CASE \E p \in 1..Len(document) : Origin(heirs, q, p) /\ ids'[q] = ids[p]
    <3>1. PICK p \in 1..Len(document) : ids'[q] = ids[p]
      BY <2>1
    <3> QED BY <3>1, <1>5, <1>6
  <2>2. CASE q \in Fresh(heirs, n) /\ ids'[q] = next + Cardinality(Fresh(heirs, q - 1))
    <3>1. ids'[q] \in Nat /\ next <= ids'[q] /\ ids'[q] < next'
      BY <2>2, <1>8
    <3> QED BY <3>1, <1>5
  <2> QED BY <2>1, <2>2, <1>7
<1>10. ids' \in [1..n -> Nat]
  BY <1>1, <1>9 DEF NewIds
<1>11. ASSUME NEW q \in 1..n, NEW r \in 1..n, ids'[q] = ids'[r]
       PROVE  q = r
  <2>1. CASE \E p \in 1..Len(document) : Origin(heirs, q, p) /\ ids'[q] = ids[p]
    <3>1. PICK p \in 1..Len(document) : Origin(heirs, q, p) /\ ids'[q] = ids[p]
      BY <2>1
    <3>2. PICK o \in 1..Len(document) : Origin(heirs, r, o) /\ ids'[r] = ids[o]
      <4>1. ids'[r] < next
        BY <3>1, <1>5, <1>11
      <4>2. ids'[r] \in Nat
        BY <1>9
      <4>3. ~(r \in Fresh(heirs, n) /\ ids'[r] = next + Cardinality(Fresh(heirs, r - 1)))
        BY <4>1, <4>2, <1>5, <1>8
      <4> QED BY <4>3, <1>7
    <3>3. p = o
      BY <3>1, <3>2, <1>5, <1>11
    <3> QED BY <3>1, <3>2, <3>3, <1>2, OriginApart
  <2>2. CASE q \in Fresh(heirs, n) /\ ids'[q] = next + Cardinality(Fresh(heirs, q - 1))
    <3>1. r \in Fresh(heirs, n) /\ ids'[r] = next + Cardinality(Fresh(heirs, r - 1))
      BY <2>2, <1>5, <1>7, <1>8, <1>11
    <3>2. q - 1 \in Nat /\ r - 1 \in Nat /\ q \in Nat /\ r \in Nat
      BY <2>2, <3>1 DEF Fresh
    <3>3. Cardinality(Fresh(heirs, q - 1)) = Cardinality(Fresh(heirs, r - 1))
      BY <2>2, <3>1, <3>2, <1>5, <1>11, FreshCount
    <3>4. q < r => q \in Fresh(heirs, r - 1)
      BY <2>2, <3>2 DEF Fresh
    <3>5. r < q => r \in Fresh(heirs, q - 1)
      BY <3>1, <3>2 DEF Fresh
    <3>6. ~(q < r) /\ ~(r < q)
      BY <3>2, <3>3, <3>4, <3>5, FreshCount
    <3> QED BY <3>2, <3>6
  <2> QED BY <2>1, <2>2, <1>7
<1>12. retired' = retired \cup (Given \ Given')
  BY Zenon DEF Reparse
<1>13. Given = {ids[i] : i \in 1..Len(document)} /\ Given' = {ids'[i] : i \in 1..n}
  BY <1>5, <1>10 DEF Given
<1>14. retired' \subseteq Nat /\ \A id \in retired' : id < next'
  <2>1. \A id \in Given : id \in Nat /\ id < next
    BY <1>5, <1>13
  <2>2. \A id \in retired' : id \in retired \/ id \in Given
    BY <1>12
  <2>3. \A id \in retired' : id \in Nat /\ id < next
    BY <2>1, <2>2, <1>5
  <2> QED BY <2>3, <1>5, <1>6
<1>15. Given' \cap retired' = {}
  BY <1>9, <1>12, <1>13
<1>16. IdsForGood'
  BY <1>9, <1>10, <1>11, <1>13, <1>14, <1>15 DEF IdsForGood
<1> QED BY <1>3, <1>6, <1>10, <1>14, <1>16 DEF SessionInv

\* No edit, whatever the parser makes of it, gives an id to two nodes or to a node other
\* than the one it was given to: reparse never fails on the identity it computed, and a
\* retired id stays retired.
THEOREM IdsAreForGood == Session => []IdsForGood
<1>1. Open => SessionInv
  <2> SUFFICES ASSUME Open PROVE SessionInv
    OBVIOUS
  <2>1. document \in Seq(Node) /\ document # << >>
    BY ParseAssumption DEF Open
  <2>2. Len(document) \in Nat /\ retired = {}
        /\ ids = [i \in 1..Len(document) |-> i - 1] /\ next = Len(document)
    BY <2>1 DEF Open
  <2>3. ids \in [1..Len(document) -> Nat]
    BY <2>2
  <2>4. IdsForGood
    BY <2>2 DEF IdsForGood, Given
  <2> QED BY <2>1, <2>2, <2>3, <2>4 DEF SessionInv
<1>2. SessionInv /\ [Edit]_session => SessionInv'
  <2>1. ASSUME SessionInv, Edit PROVE SessionInv'
    BY <2>1, EditKeeps DEF Edit
  <2>2. ASSUME SessionInv, UNCHANGED session PROVE SessionInv'
    BY <2>2 DEF SessionInv, IdsForGood, Given, session
  <2> QED BY <2>1, <2>2
<1>3. SessionInv => IdsForGood
  BY DEF SessionInv
<1> QED BY <1>1, <1>2, <1>3, PTL DEF Session

-----------------------------------------------------------------------------
(* Numbers *)

\* A set of numbers that is not empty has a least one.
LEMMA LeastExists ==
    ASSUME NEW S \in SUBSET Nat, S # {}
    PROVE  \E n \in S : \A m \in S : n <= m
<1> DEFINE R == {pair \in Nat \X Nat : pair[1] < pair[2]}
<1>1. IsWellFoundedOn(R, Nat)
  <2>1. OpToRel(<, Nat) = R
    BY Zenon DEF OpToRel
  <2> HIDE DEF R
  <2> QED BY <2>1, NatLessThanWellFounded
<1>2. \E n \in S : \A m \in S : <<m, n>> \notin R
  <2> HIDE DEF R
  <2> QED BY <1>1, WFMin
<1>3. \A m, n \in Nat : <<m, n>> \notin R => ~(m < n)
  BY Zenon
<1> QED
  <2> HIDE DEF R
  <2>1. PICK n \in S : \A m \in S : <<m, n>> \notin R
    BY <1>2
  <2>2. \A m \in S : ~(m < n)
    BY <1>3, <2>1
  <2> QED BY <2>2

\* What holds of 0 and of the next of every number it holds of, holds of all.
LEMMA Climb ==
    ASSUME NEW S, 0 \in S, \A n \in Nat : n \in S => n + 1 \in S
    PROVE  Nat \subseteq S
<1> SUFFICES ASSUME Nat \ S # {} PROVE FALSE
  OBVIOUS
<1>1. PICK n \in Nat \ S : \A m \in Nat \ S : n <= m
  BY LeastExists
<1>2. n # 0 /\ n - 1 \in Nat /\ n - 1 \in S
  BY <1>1
<1> QED BY <1>1, <1>2

-----------------------------------------------------------------------------
(* Matching *)

\* A match pairs each position at most once.
OnePartner(match) == \A p, q \in match : p[1] = q[1] <=> p[2] = q[2]
Matching(match, b, side) ==
    /\ match \subseteq (1..Len(b)) \X (1..Len(side))
    /\ OnePartner(match)
    /\ \A p \in match : b[p[1]].kind = side[p[2]].kind

\* The copies of a block are counted up along the document.
LEMMA RankGrows ==
    ASSUME NEW s, NEW i \in Nat, NEW j \in Nat, i < j, s[i] = s[j]
    PROVE  /\ Rank(s, i) \in Nat /\ Rank(s, j) \in Nat
           /\ 1 <= i => 1 <= Rank(s, i)
           /\ Rank(s, i) < Rank(s, j)
<1> DEFINE Copied(n) == {k \in 1..n : s[k] = s[n]}
<1>1. \A n \in Nat : IsFiniteSet(Copied(n)) /\ Cardinality(Copied(n)) \in Nat
  <2> TAKE n \in Nat
  <2>1. IsFiniteSet(1..n)
    BY FS_Interval
  <2>2. Copied(n) \subseteq 1..n
    OBVIOUS
  <2> HIDE DEF Copied
  <2> QED BY <2>1, <2>2, FS_Subset, FS_CardinalityType
<1>2. Rank(s, i) = Cardinality(Copied(i)) /\ Rank(s, j) = Cardinality(Copied(j))
  BY DEF Rank
<1>3. j \notin Copied(i) /\ Copied(i) \cup {j} \subseteq Copied(j)
  OBVIOUS
<1>4. 1 <= i => i \in Copied(i)
  OBVIOUS
<1> HIDE DEF Copied
<1>5. Cardinality(Copied(i) \cup {j}) = Cardinality(Copied(i)) + 1
  BY <1>1, <1>3, FS_AddElement
<1>6. Cardinality(Copied(i) \cup {j}) <= Cardinality(Copied(j))
  BY <1>1, <1>3, FS_Subset
<1>7. 1 <= i => Cardinality(Copied(i)) # 0
  BY <1>1, <1>4, FS_EmptySet
<1> QED BY <1>1, <1>2, <1>5, <1>6, <1>7

\* The k-th copy of a block is paired with the k-th only.
LEMMA ExactMatching ==
    ASSUME NEW D, NEW b \in Seq(D), NEW side \in Seq(D)
    PROVE  Matching(MatchExact(b, side), b, side)
<1> DEFINE match == MatchExact(b, side)
<1>1. \A p \in match : /\ p[1] \in 1..Len(b) /\ p[2] \in 1..Len(side)
                       /\ b[p[1]] = side[p[2]] /\ Rank(b, p[1]) = Rank(side, p[2])
  BY DEF MatchExact
<1>2. match \subseteq (1..Len(b)) \X (1..Len(side))
  BY DEF MatchExact
<1> HIDE DEF match
<1>3. ASSUME NEW s, NEW n \in Nat, NEW i \in 1..n, NEW j \in 1..n, s[i] = s[j], Rank(s, i) = Rank(s, j)
      PROVE  i = j
  <2>1. ~(i < j) /\ ~(j < i)
    BY <1>3, RankGrows
  <2> QED BY <2>1
<1>4. ASSUME NEW p \in match, NEW q \in match
      PROVE  p[1] = q[1] <=> p[2] = q[2]
  <2>0. Len(b) \in Nat /\ Len(side) \in Nat
    OBVIOUS
  <2>1. p[1] = q[1] => side[p[2]] = side[q[2]] /\ Rank(side, p[2]) = Rank(side, q[2])
    BY <1>1
  <2>2. p[2] = q[2] => b[p[1]] = b[q[1]] /\ Rank(b, p[1]) = Rank(b, q[1])
    BY <1>1
  <2>3. p[1] \in 1..Len(b) /\ q[1] \in 1..Len(b) /\ p[2] \in 1..Len(side) /\ q[2] \in 1..Len(side)
    BY <1>1
  <2>4. p[1] = q[1] => p[2] = q[2]
    BY <2>0, <2>1, <2>3, <1>3
  <2>5. p[2] = q[2] => p[1] = q[1]
    BY <2>0, <2>2, <2>3, <1>3
  <2> QED BY <2>4, <2>5
<1> QED BY <1>1, <1>2, <1>4 DEF Matching, OnePartner, match

\* Matching by names adds pairs of free positions, each the one of its name.
LEMMA OnlyMatching ==
    ASSUME NEW b, NEW side, NEW match, Matching(match, b, side),
           NEW names, NEW sides, DOMAIN names = 1..Len(b), DOMAIN sides = 1..Len(side),
           \A i \in 1..Len(b), j \in 1..Len(side) :
               names[i] = sides[j] /\ names[i] # Absent => b[i].kind = side[j].kind
    PROVE  Matching(MatchOnly(names, sides, match), b, side)
<1> DEFINE more == MatchOnly(names, sides, match)
<1>1. \A p \in more : \/ p \in match
                      \/ /\ p[1] \in FreeBase(names, match) /\ p[2] \in FreeSide(sides, match)
                         /\ names[p[1]] = sides[p[2]] /\ names[p[1]] # Absent
                         /\ \A j \in FreeBase(names, match) : names[j] = names[p[1]] => j = p[1]
                         /\ \A j \in FreeSide(sides, match) : sides[j] = sides[p[2]] => j = p[2]
  BY Zenon DEF MatchOnly
<1>2. more \subseteq (1..Len(b)) \X (1..Len(side))
  BY DEF MatchOnly, Matching, FreeBase, FreeSide
<1> HIDE DEF more
<1>3. FreeBase(names, match) = {i \in 1..Len(b) : \A p \in match : p[1] # i}
  BY DEF FreeBase
<1>4. FreeSide(sides, match) = {i \in 1..Len(side) : \A p \in match : p[2] # i}
  BY DEF FreeSide
<1>5. \A p, q \in match : p[1] = q[1] <=> p[2] = q[2]
  BY DEF Matching, OnePartner
<1>6. ASSUME NEW p \in more, NEW q \in more
      PROVE  p[1] = q[1] <=> p[2] = q[2]
  BY <1>1, <1>3, <1>4, <1>5
<1>7. \A p \in more : b[p[1]].kind = side[p[2]].kind
  BY <1>1, <1>3, <1>4 DEF Matching
<1> QED BY <1>2, <1>6, <1>7 DEF Matching, OnePartner, more

-----------------------------------------------------------------------------
(* The walk *)

Cells(n, m) == (1..(n + 1)) \X (1..(m + 1))
Onward(walk, c, n, m, alike, down) ==
    IF c[1] > n \/ c[2] > m THEN {}
    ELSE IF c \in alike THEN {c} \cup walk[<<c[1] + 1, c[2] + 1>>]
    ELSE IF c \in down THEN walk[<<c[1] + 1, c[2]>>]
    ELSE walk[<<c[1], c[2] + 1>>]
StepsLeft(n, m, c) == (n + 1 - c[1]) + (m + 1 - c[2])

\* Every walk ends.
LEMMA WalkExists ==
    ASSUME NEW n \in Nat, NEW m \in Nat, NEW alike, NEW down
    PROVE  \E walk : walk = [c \in Cells(n, m) |-> Onward(walk, c, n, m, alike, down)]
<1> DEFINE Near(k) == {c \in Cells(n, m) : StepsLeft(n, m, c) <= k}
           To(k) == \E walk : walk = [c \in Near(k) |-> Onward(walk, c, n, m, alike, down)]
           S == {k \in Nat : To(k)}
<1>1. \A c \in Cells(n, m) : /\ c[1] \in 1..(n + 1) /\ c[2] \in 1..(m + 1) /\ c = <<c[1], c[2]>>
                             /\ StepsLeft(n, m, c) \in Nat /\ StepsLeft(n, m, c) <= n + m
  BY DEF Cells, StepsLeft
<1>2. \A walk : \A c \in Cells(n, m) : c[1] = n + 1 \/ c[2] = m + 1 => Onward(walk, c, n, m, alike, down) = {}
  BY <1>1 DEF Onward
<1>3. ASSUME NEW c \in Cells(n, m), NEW v, NEW w, NEW k \in Nat, StepsLeft(n, m, c) <= k + 1,
             \A d \in Near(k) : v[d] = w[d]
      PROVE  Onward(v, c, n, m, alike, down) = Onward(w, c, n, m, alike, down)
  <2>1. CASE c[1] = n + 1 \/ c[2] = m + 1
    BY <2>1, <1>2
  <2>2. CASE ~(c[1] = n + 1 \/ c[2] = m + 1)
    <3>1. c[1] \in 1..n /\ c[2] \in 1..m /\ (n + 1 - c[1]) + (m + 1 - c[2]) <= k + 1
      BY <1>1, <1>3, <2>2 DEF StepsLeft
    <3>2. \A i \in {c[1], c[1] + 1}, j \in {c[2], c[2] + 1} :
              (n + 1 - i) + (m + 1 - j) <= k => <<i, j>> \in Near(k)
      BY <3>1 DEF Cells, StepsLeft
    <3>3. /\ <<c[1] + 1, c[2] + 1>> \in Near(k) /\ <<c[1] + 1, c[2]>> \in Near(k)
          /\ <<c[1], c[2] + 1>> \in Near(k)
      BY <3>1, <3>2
    <3> QED BY <3>3, <1>3 DEF Onward
  <2> QED BY <2>1, <2>2
<1>4. 0 \in S
  <2> DEFINE w == [c \in Near(0) |-> {}]
  <2>1. \A c \in Near(0) : c[1] = n + 1 /\ c[2] = m + 1
    <3> SUFFICES ASSUME NEW c \in Near(0) PROVE c[1] = n + 1 /\ c[2] = m + 1
      OBVIOUS
    <3>1. c[1] \in 1..(n + 1) /\ c[2] \in 1..(m + 1) /\ (n + 1 - c[1]) + (m + 1 - c[2]) <= 0
      BY <1>1 DEF StepsLeft
    <3> QED BY <3>1
  <2>2. \A c \in Near(0) : Onward(w, c, n, m, alike, down) = {}
    BY <2>1, <1>2
  <2>3. w = [c \in Near(0) |-> Onward(w, c, n, m, alike, down)]
    BY <2>2
  <2> QED BY <2>3
<1>5. ASSUME NEW k \in Nat, k \in S PROVE k + 1 \in S
  <2>1. PICK v : v = [c \in Near(k) |-> Onward(v, c, n, m, alike, down)]
    BY <1>5
  <2> DEFINE w == [c \in Near(k + 1) |-> Onward(v, c, n, m, alike, down)]
  <2>2. Near(k) \subseteq Near(k + 1)
    BY <1>1
  <2>3. \A d \in Near(k) : v[d] = w[d]
    BY <2>1, <2>2
  <2>4. \A c \in Near(k + 1) : Onward(v, c, n, m, alike, down) = Onward(w, c, n, m, alike, down)
    <3> HIDE DEF w
    <3> QED BY <1>3, <2>3
  <2>5. w = [c \in Near(k + 1) |-> Onward(w, c, n, m, alike, down)]
    BY <2>4
  <2> HIDE DEF w, Near
  <2> QED BY <2>5
<1>6. n + m \in S
  <2> HIDE DEF S
  <2> QED BY <1>4, <1>5, Climb
<1>7. Near(n + m) = Cells(n, m)
  BY <1>1
<1> QED BY <1>6, <1>7

\* What a walk takes: alike cells, each below and right of the one before.
LEMMA WalkOnePartner ==
    ASSUME NEW n \in Nat, NEW m \in Nat, NEW alike, NEW down
    PROVE  Walk(n, m, alike, down) \subseteq alike /\ OnePartner(Walk(n, m, alike, down))
<1> DEFINE walk == CHOOSE walk : walk = [c \in Cells(n, m) |-> Onward(walk, c, n, m, alike, down)]
           Good(c) == /\ walk[c] \subseteq alike \cap Cells(n, m)
                      /\ \A p \in walk[c] : c[1] <= p[1] /\ c[2] <= p[2]
                      /\ OnePartner(walk[c])
           S == {k \in Nat : \A c \in Cells(n, m) : StepsLeft(n, m, c) <= k => Good(c)}
<1>1. walk = [c \in Cells(n, m) |-> Onward(walk, c, n, m, alike, down)]
  BY WalkExists
<1>2. Walk(n, m, alike, down) = walk[<<1, 1>>]
  BY Zenon DEF Walk, Cells, Onward
<1>3. \A c \in Cells(n, m) : walk[c] = Onward(walk, c, n, m, alike, down)
  BY <1>1
<1> HIDE DEF walk
<1>4. \A c \in Cells(n, m) : /\ c[1] \in 1..(n + 1) /\ c[2] \in 1..(m + 1) /\ c = <<c[1], c[2]>>
                             /\ StepsLeft(n, m, c) \in Nat /\ StepsLeft(n, m, c) <= n + m
  BY DEF Cells, StepsLeft
<1>5. \A c \in Cells(n, m) : c[1] = n + 1 \/ c[2] = m + 1 => walk[c] = {}
  <2>1. \A c \in Cells(n, m) : c[1] > n \/ c[2] > m => walk[c] = {}
    BY <1>3 DEF Onward
  <2> QED BY <2>1
<1>6. \A c \in Cells(n, m) : c[1] = n + 1 \/ c[2] = m + 1 => Good(c)
  BY <1>5 DEF OnePartner
<1>7. 0 \in S
  <2> SUFFICES ASSUME NEW c \in Cells(n, m), StepsLeft(n, m, c) <= 0 PROVE Good(c)
    OBVIOUS
  <2>1. c[1] = n + 1 /\ c[2] = m + 1
    <3>1. c[1] \in 1..(n + 1) /\ c[2] \in 1..(m + 1) /\ (n + 1 - c[1]) + (m + 1 - c[2]) <= 0
      BY <1>4 DEF StepsLeft
    <3> QED BY <3>1
  <2> QED BY <2>1, <1>6
<1>8. ASSUME NEW k \in Nat, k \in S PROVE k + 1 \in S
  <2> SUFFICES ASSUME NEW c \in Cells(n, m), StepsLeft(n, m, c) <= k + 1,
                      ~(c[1] = n + 1 \/ c[2] = m + 1)
               PROVE  Good(c)
    BY <1>6
  <2>1. c[1] \in 1..n /\ c[2] \in 1..m /\ (n + 1 - c[1]) + (m + 1 - c[2]) <= k + 1
    BY <1>4 DEF StepsLeft
  <2>2. \A i \in {c[1], c[1] + 1}, j \in {c[2], c[2] + 1} :
            (n + 1 - i) + (m + 1 - j) <= k => <<i, j>> \in Cells(n, m) /\ StepsLeft(n, m, <<i, j>>) <= k
    BY <2>1 DEF Cells, StepsLeft
  <2>3. \A d \in Cells(n, m) : StepsLeft(n, m, d) <= k => Good(d)
    BY <1>8
  <2> DEFINE both == <<c[1] + 1, c[2] + 1>>
             below == <<c[1] + 1, c[2]>>
             aside == <<c[1], c[2] + 1>>
  <2>4. Good(both) /\ Good(below) /\ Good(aside)
    <3>1. /\ (n + 1 - (c[1] + 1)) + (m + 1 - (c[2] + 1)) <= k
          /\ (n + 1 - (c[1] + 1)) + (m + 1 - c[2]) <= k
          /\ (n + 1 - c[1]) + (m + 1 - (c[2] + 1)) <= k
      BY <2>1
    <3> HIDE DEF Good
    <3> QED BY <2>2, <2>3, <3>1
  <2>5. walk[c] = IF c \in alike THEN {c} \cup walk[both]
                  ELSE IF c \in down THEN walk[below] ELSE walk[aside]
    BY <2>1, <1>3 DEF Onward
  <2>6. CASE c \in alike
    <3>1. walk[c] = {c} \cup walk[both]
      BY <2>5, <2>6
    <3>2. \A p \in walk[both] : p \in Cells(n, m) /\ c[1] < p[1] /\ c[2] < p[2]
      BY <2>1, <2>4, <1>4
    <3>3. OnePartner(walk[c])
      BY <2>1, <2>4, <3>1, <3>2, <1>4 DEF OnePartner
    <3>4. \A p \in walk[c] : c[1] <= p[1] /\ c[2] <= p[2]
      BY <2>1, <3>1, <3>2, <1>4
    <3>5. walk[c] \subseteq alike \cap Cells(n, m)
      BY <2>4, <2>6, <3>1
    <3> QED BY <3>3, <3>4, <3>5
  <2>7. CASE c \notin alike
    <3>1. PICK d \in {below, aside} : walk[c] = walk[d]
      BY <2>5, <2>7
    <3>2. c[1] <= d[1] /\ c[2] <= d[2] /\ d[1] \in Nat /\ d[2] \in Nat
      BY <2>1
    <3>3. \A p \in walk[d] : p \in Cells(n, m) /\ d[1] <= p[1] /\ d[2] <= p[2]
      BY <2>4
    <3>4. \A p \in walk[c] : c[1] <= p[1] /\ c[2] <= p[2]
      BY <2>1, <3>1, <3>2, <3>3, <1>4
    <3> QED BY <2>4, <3>1, <3>4
  <2> QED BY <2>6, <2>7
<1>9. n + m \in S
  <2> HIDE DEF S
  <2> QED BY <1>7, <1>8, Climb
<1>10. <<1, 1>> \in Cells(n, m)
  BY DEF Cells
<1>11. Good(<<1, 1>>)
  <2> HIDE DEF Good
  <2> QED BY <1>4, <1>9, <1>10
<1> QED BY <1>2, <1>11

\* The walk over what exact copies and names left free only adds to a matching.
LEMMA RestMatching ==
    ASSUME NEW D, NEW b \in Seq(D), NEW side \in Seq(D), NEW match, Matching(match, b, side)
    PROVE  Matching(MatchRest(b, side, match), b, side)
<1> DEFINE B == FreeBase(b, match)
           S == FreeSide(side, match)
           alike == {c \in B \X S : b[c[1]].kind = side[c[2]].kind}
           all == MatchRest(b, side, match)
<1>1. PICK down : all = match \cup Walk(Len(b), Len(side), alike, down)
  BY Zenon DEF MatchRest
<1> DEFINE walk == Walk(Len(b), Len(side), alike, down)
<1>2. Len(b) \in Nat /\ Len(side) \in Nat
  OBVIOUS
<1>3. walk \subseteq alike /\ OnePartner(walk)
  <2> HIDE DEF alike
  <2> QED BY <1>2, WalkOnePartner
<1>4. \A c \in alike : /\ c \in (1..Len(b)) \X (1..Len(side))
                       /\ b[c[1]].kind = side[c[2]].kind
                       /\ \A p \in match : p[1] # c[1] /\ p[2] # c[2]
  BY DEF FreeBase, FreeSide
<1> HIDE DEF alike, walk, all
<1>5. all = match \cup walk
  BY <1>1 DEF walk
<1>6. OnePartner(all)
  BY <1>3, <1>4, <1>5 DEF Matching, OnePartner
<1>7. /\ all \subseteq (1..Len(b)) \X (1..Len(side))
      /\ \A p \in all : b[p[1]].kind = side[p[2]].kind
  BY <1>3, <1>4, <1>5 DEF Matching
<1> QED BY <1>6, <1>7 DEF Matching, all

\* However a copy was edited, each of its elements is matched with at most one of the
\* b, of its kind, and copies of a block first with each other (match_side).
LEMMA SideMatching ==
    ASSUME NEW b \in Seq(Block), NEW side \in Seq(Block)
    PROVE  /\ Matching(MatchSide(b, side), b, side)
           /\ MatchExact(b, side) \subseteq MatchSide(b, side)
<1> DEFINE hints(s) == [i \in DOMAIN s |-> IF s[i].hint = Absent THEN Absent ELSE Identity(s[i])]
           kinds(s) == [i \in DOMAIN s |-> s[i].kind]
           exact == MatchExact(b, side)
           byHint == MatchOnly(hints(b), hints(side), exact)
           byKind == MatchOnly(kinds(b), kinds(side), byHint)
<1>1. Matching(exact, b, side)
  BY ExactMatching
<1>2. Matching(byHint, b, side)
  <2>1. DOMAIN hints(b) = 1..Len(b) /\ DOMAIN hints(side) = 1..Len(side)
    OBVIOUS
  <2>2. \A i \in 1..Len(b), j \in 1..Len(side) :
            hints(b)[i] = hints(side)[j] /\ hints(b)[i] # Absent => b[i].kind = side[j].kind
    BY DEF Identity
  <2> HIDE DEF exact, hints
  <2> QED BY <2>1, <2>2, <1>1, OnlyMatching
<1>3. Matching(byKind, b, side)
  <2>1. DOMAIN kinds(b) = 1..Len(b) /\ DOMAIN kinds(side) = 1..Len(side)
    OBVIOUS
  <2>2. \A i \in 1..Len(b), j \in 1..Len(side) :
            kinds(b)[i] = kinds(side)[j] /\ kinds(b)[i] # Absent => b[i].kind = side[j].kind
    OBVIOUS
  <2> HIDE DEF byHint, kinds
  <2> QED BY <2>1, <2>2, <1>2, OnlyMatching
<1>4. MatchSide(b, side) = MatchRest(b, side, byKind)
  BY Zenon DEF MatchSide
<1>5. exact \subseteq byHint /\ byHint \subseteq byKind
  BY Zenon DEF MatchOnly
<1>6. byKind \subseteq MatchRest(b, side, byKind)
  <2> HIDE DEF byKind
  <2> QED BY Zenon DEF MatchRest
<1> HIDE DEF byKind, byHint, exact
<1>7. Matching(MatchRest(b, side, byKind), b, side)
  BY <1>3, RestMatching
<1> QED BY <1>4, <1>5, <1>6, <1>7 DEF exact

-----------------------------------------------------------------------------
(* Values *)

\* The value of a place two sides agree on: that of the side that changed it.
Agreed(b, o, t) == o = b \/ t = b \/ o = t
Agreement(b, o, t) == IF o = b THEN t ELSE o

\* A field merges without a conflict when one writer left it alone or both changed it alike.
LEMMA FieldSettled ==
    ASSUME NEW b, NEW o, NEW t, NEW at,
           MergeField(b, o, t, at, "none").conflicts = {}
    PROVE  Agreed(b, o, t) /\ MergeField(b, o, t, at, "none").value = Agreement(b, o, t)
<1> DEFINE both == Resolve("BothChanged", at, b, o, t, "none")
           gone == Resolve("DeleteEdit", at, b, o, t, "none")
<1>1. both.conflicts # {} /\ gone.conflicts # {}
  BY DEF Resolve
<1>2. MergeField(b, o, t, at, "none") =
          IF o = t THEN Clean(o) ELSE IF o = b THEN Clean(t) ELSE IF t = b THEN Clean(o)
          ELSE IF Absent \in {o, t} THEN gone ELSE both
  BY DEF MergeField, MergeValue
<1> HIDE DEF both, gone
<1> QED BY <1>1, <1>2 DEF Clean, Agreed, Agreement

\* A base block with what the sides made of it.
Combined(b, o, t) ==
    [kind |-> o.kind, hint |-> Agreement(b.hint, o.hint, t.hint), text |-> Agreement(b.text, o.text, t.text)]

\* A block does too, or both writers have it and its fields merge one by one.
LEMMA BlockSettled ==
    ASSUME NEW b, NEW o, NEW t, NEW at,
           MergeBlock(b, o, t, at, "none").conflicts = {}
    PROVE  \/ Agreed(b, o, t) /\ MergeBlock(b, o, t, at, "none").value = Agreement(b, o, t)
           \/ /\ ~Agreed(b, o, t) /\ Absent \notin {o, t}
              /\ Agreed(b.hint, o.hint, t.hint) /\ Agreed(b.text, o.text, t.text)
              /\ MergeBlock(b, o, t, at, "none").value = Combined(b, o, t)
<1> DEFINE hint == MergeField(b.hint, o.hint, t.hint, Append(at, "hint"), "none")
           text == MergeField(b.text, o.text, t.text, Append(at, "text"), "none")
           fields == [value |-> [kind |-> o.kind, hint |-> hint.value, text |-> text.value],
                      conflicts |-> hint.conflicts \cup text.conflicts]
           gone == Resolve("DeleteEdit", at, b, o, t, "none")
<1>1. gone.conflicts # {}
  BY DEF Resolve
<1>2. MergeBlock(b, o, t, at, "none") =
          IF o = t THEN Clean(o) ELSE IF o = b THEN Clean(t) ELSE IF t = b THEN Clean(o)
          ELSE IF Absent \in {o, t} THEN gone ELSE fields
  BY Zenon DEF MergeBlock, MergeValue
<1>3. CASE Agreed(b, o, t)
  BY <1>2, <1>3 DEF Clean, Agreed, Agreement
<1>4. CASE ~Agreed(b, o, t)
  <2>1. Absent \notin {o, t} /\ MergeBlock(b, o, t, at, "none") = fields
    <3> HIDE DEF gone, fields
    <3> QED BY <1>1, <1>2, <1>4 DEF Agreed
  <2>2. hint.conflicts = {} /\ text.conflicts = {}
    <3> HIDE DEF hint, text
    <3> QED BY <2>1
  <2>3. /\ Agreed(b.hint, o.hint, t.hint) /\ hint.value = Agreement(b.hint, o.hint, t.hint)
        /\ Agreed(b.text, o.text, t.text) /\ text.value = Agreement(b.text, o.text, t.text)
    BY <2>2, FieldSettled
  <2> HIDE DEF hint, text
  <2> QED BY <1>4, <2>1, <2>3 DEF Combined
<1> QED BY <1>3, <1>4

-----------------------------------------------------------------------------
(* Tokens *)

\* The partner of a position is the one it is paired with.
LEMMA Partners ==
    ASSUME NEW match, OnePartner(match), NEW p \in match
    PROVE  /\ Matched(match, p[1]) /\ PartnerOf(match, p[1]) = p[2]
           /\ (CHOOSE q \in match : q[2] = p[2])[1] = p[1]
<1>1. \A q \in match : (q[1] = p[1] <=> q[2] = p[2])
  BY DEF OnePartner
<1>2. \E q \in match : q[1] = p[1]
  OBVIOUS
<1>3. \E q \in match : q[2] = p[2]
  OBVIOUS
<1>4. PartnerOf(match, p[1]) = p[2]
  BY <1>1, <1>2 DEF PartnerOf
<1> QED BY <1>1, <1>2, <1>3, <1>4 DEF Matched

\* A block of our copy goes by its own number, or by that of its partner in the base.
LEMMA OurToken ==
    ASSUME NEW o, NEW om, OnePartner(om), NEW j \in DOMAIN o
    PROVE  \/ j \in FreeSide(o, om) /\ OurTokens(o, om)[j] = <<1, j>>
           \/ \E p \in om : p[2] = j /\ OurTokens(o, om)[j] = << 0, p[1] >>
<1>1. CASE j \in FreeSide(o, om)
  BY <1>1 DEF OurTokens
<1>2. CASE j \notin FreeSide(o, om)
  <2>1. PICK p \in om : p[2] = j
    BY <1>2 DEF FreeSide
  <2>2. OurTokens(o, om)[j] = << 0, (CHOOSE q \in om : q[2] = j)[1] >>
    BY <1>2 DEF OurTokens
  <2> QED BY <2>1, <2>2, Partners
<1> QED BY <1>1, <1>2

\* One of theirs also goes by the number of our block when both inserted the same.
LEMMA TheirToken ==
    ASSUME NEW o, NEW t, NEW om, NEW tm, OnePartner(tm), NEW k \in DOMAIN t
    PROVE  LET token == TheirTokens(o, t, om, tm)[k]
           IN  \/ \E p \in tm : p[2] = k /\ token = << 0, p[1] >>
               \/ /\ k \in FreeSide(t, tm)
                  /\ \E p \in Coincide(o, t, om, tm) : p[2] = k /\ token = <<1, p[1]>>
               \/ /\ k \in FreeSide(t, tm)
                  /\ ~\E p \in Coincide(o, t, om, tm) : p[2] = k
                  /\ token = <<2, k>>
<1> DEFINE token == TheirTokens(o, t, om, tm)[k]
           both == Coincide(o, t, om, tm)
<1>1. token = IF k \notin FreeSide(t, tm) THEN << 0, (CHOOSE q \in tm : q[2] = k)[1] >>
              ELSE IF \E p \in both : p[2] = k
              THEN <<1, (CHOOSE p \in both : p[2] = k)[1]>> ELSE <<2, k>>
  BY DEF TheirTokens
<1> HIDE DEF token, both
<1>2. CASE k \notin FreeSide(t, tm)
  <2>1. PICK p \in tm : p[2] = k
    BY <1>2 DEF FreeSide
  <2> QED BY <1>1, <1>2, <2>1, Partners DEF token
<1>3. CASE k \in FreeSide(t, tm) /\ \E p \in both : p[2] = k
  BY <1>1, <1>3 DEF token, both
<1>4. CASE k \in FreeSide(t, tm) /\ ~\E p \in both : p[2] = k
  BY <1>1, <1>4 DEF token, both
<1> QED BY <1>2, <1>3, <1>4

-----------------------------------------------------------------------------
(* A merge without conflicts *)

At(side, match, i) == IF Matched(match, i) THEN side[PartnerOf(match, i)] ELSE Absent
Settled(b, o, t, om, tm) == [i \in DOMAIN b |-> Settle(b, o, t, om, tm, i, "none")]
Staying(b, o, t, om, tm) == {i \in DOMAIN b : Settled(b, o, t, om, tm)[i].value # Absent}
OurLine(b, o, t, om, tm) == Line(OurTokens(o, om), Staying(b, o, t, om, tm))
TheirLine(b, o, t, om, tm) == Line(TheirTokens(o, t, om, tm), Staying(b, o, t, om, tm))
Surviving(b, o, t, om, tm) == {<<i, << 0, i >>>> : i \in Staying(b, o, t, om, tm)}
AllTokens(b, o, t, om, tm) == {p[2] : p \in OurLine(b, o, t, om, tm) \cup TheirLine(b, o, t, om, tm)}
Order(b, o, t, om, tm) ==
    Sorted(AllTokens(b, o, t, om, tm),
           Edges(Surviving(b, o, t, om, tm), OurLine(b, o, t, om, tm), TheirLine(b, o, t, om, tm)))
ValueOf(b, o, t, om, tm, token) ==
    CASE token[1] = 0 -> Settled(b, o, t, om, tm)[token[2]].value
      [] token[1] = 1 -> o[token[2]]
      [] token[1] = 2 -> t[token[2]]
Arranged(b, o, t, om, tm) ==
    [n \in DOMAIN Order(b, o, t, om, tm) |-> ValueOf(b, o, t, om, tm, Order(b, o, t, om, tm)[n])]

\* What merge_sequence gives, in the terms above.
LEMMA SequenceMerged ==
    ASSUME NEW b, NEW o, NEW t, NEW om, NEW tm
    PROVE  LET order == Order(b, o, t, om, tm)
               all == AllTokens(b, o, t, om, tm)
               settled == Settled(b, o, t, om, tm)
               result == IF Collide(o, t, om, tm) \/ ToSet(order) # all
                         THEN Resolve("ConcurrentSequenceEdit", << >>, b, o, t, "none")
                         ELSE Clean(Arranged(b, o, t, om, tm))
           IN  MergeSequence(b, o, t, om, tm, "none") =
                   [result EXCEPT !.conflicts = @ \cup UNION {settled[i].conflicts : i \in DOMAIN b}]
BY Zenon DEF MergeSequence, Arrange, Arranged, Order, AllTokens, Settled, Staying, OurLine, TheirLine,
             Surviving, ValueOf

\* Without a conflict every block is settled and every token has its place.
LEMMA CleanSequence ==
    ASSUME NEW b, NEW o, NEW t, NEW om, NEW tm,
           MergeSequence(b, o, t, om, tm, "none").conflicts = {}
    PROVE  /\ \A i \in DOMAIN b : Settled(b, o, t, om, tm)[i].conflicts = {}
           /\ ~Collide(o, t, om, tm)
           /\ ToSet(Order(b, o, t, om, tm)) = AllTokens(b, o, t, om, tm)
           /\ MergeSequence(b, o, t, om, tm, "none").value = Arranged(b, o, t, om, tm)
<1> DEFINE order == Order(b, o, t, om, tm)
           all == AllTokens(b, o, t, om, tm)
           settled == Settled(b, o, t, om, tm)
           refused == Resolve("ConcurrentSequenceEdit", << >>, b, o, t, "none")
           clash == Collide(o, t, om, tm) \/ ToSet(order) # all
           result == IF clash THEN refused ELSE Clean(Arranged(b, o, t, om, tm))
           of == UNION {settled[i].conflicts : i \in DOMAIN b}
<1>1. MergeSequence(b, o, t, om, tm, "none") = [result EXCEPT !.conflicts = @ \cup of]
  BY SequenceMerged
<1>2. refused = [value |-> Absent, conflicts |-> {[at |-> << >>, reason |-> "ConcurrentSequenceEdit"]}]
  BY DEF Resolve
<1>3. CASE clash
  <2>1. result = refused
    BY <1>3
  <2> HIDE DEF result, refused, of, clash
  <2>2. MergeSequence(b, o, t, om, tm, "none").conflicts = refused.conflicts \cup of
    BY <1>1, <1>2, <2>1
  <2> QED BY <1>2, <2>2
<1>4. CASE ~clash
  <2>1. result = [value |-> Arranged(b, o, t, om, tm), conflicts |-> {}]
    BY <1>4 DEF Clean
  <2>2. MergeSequence(b, o, t, om, tm, "none").conflicts = of
    <3> HIDE DEF result, of
    <3> QED BY <1>1, <2>1
  <2>3. MergeSequence(b, o, t, om, tm, "none").value = Arranged(b, o, t, om, tm)
    <3> HIDE DEF result, of
    <3> QED BY <1>1, <2>1
  <2>4. \A i \in DOMAIN b : settled[i].conflicts = {}
    <3> HIDE DEF settled
    <3> QED BY <2>2
  <2> QED BY <1>4, <2>3, <2>4
<1> QED BY <1>3, <1>4

\* A merge without conflicts is the one copy that changed, or is put together.
LEMMA CleanMerge ==
    ASSUME NEW b, NEW o, NEW t, NEW om, NEW tm,
           MergeAst(b, o, t, om, tm, "none").conflicts = {}
    PROVE  \/ /\ Agreed(b, o, t)
              /\ MergeAst(b, o, t, om, tm, "none").value = Agreement(b, o, t)
           \/ /\ ~Agreed(b, o, t)
              /\ MergeSequence(b, o, t, om, tm, "none").conflicts = {}
              /\ MergeAst(b, o, t, om, tm, "none").value = Arranged(b, o, t, om, tm)
<1> DEFINE inside == MergeSequence(b, o, t, om, tm, "none")
           gone == Resolve("DeleteEdit", << >>, b, o, t, "none")
           found == MergeValue(b, o, t, << >>, "none", inside)
           all == MergeAst(b, o, t, om, tm, "none")
<1>1. all = IF found.conflicts = {} THEN found ELSE [found EXCEPT !.value = Absent]
  BY Zenon DEF MergeAst
<1>2. found = IF o = t THEN Clean(o) ELSE IF o = b THEN Clean(t) ELSE IF t = b THEN Clean(o)
               ELSE IF Absent \in {o, t} THEN gone ELSE inside
  BY Zenon DEF MergeValue
<1>3. gone = [value |-> Absent, conflicts |-> {[at |-> << >>, reason |-> "DeleteEdit"]}]
  BY DEF Resolve
<1>4. \E v, c : inside = [value |-> v, conflicts |-> c]
  <2> DEFINE clash == Collide(o, t, om, tm) \/ ToSet(Order(b, o, t, om, tm)) # AllTokens(b, o, t, om, tm)
             result == IF clash THEN Resolve("ConcurrentSequenceEdit", << >>, b, o, t, "none")
                       ELSE Clean(Arranged(b, o, t, om, tm))
             of == UNION {Settled(b, o, t, om, tm)[i].conflicts : i \in DOMAIN b}
  <2>1. inside = [result EXCEPT !.conflicts = @ \cup of]
    BY SequenceMerged
  <2>2. \E v, c : result = [value |-> v, conflicts |-> c]
    <3> HIDE DEF clash
    <3> QED BY DEF Resolve, Clean
  <2> HIDE DEF result, of, inside
  <2> QED BY <2>1, <2>2
<1> HIDE DEF inside, gone
<1>5. \E v, c : found = [value |-> v, conflicts |-> c]
  BY <1>2, <1>3, <1>4 DEF Clean
<1>6. all = found
  <2> HIDE DEF found
  <2> QED BY <1>1, <1>5
<1>7. CASE Agreed(b, o, t)
  <2>1. found = Clean(Agreement(b, o, t))
    BY <1>2, <1>7 DEF Agreed, Agreement
  <2> HIDE DEF found
  <2> QED BY <1>6, <1>7, <2>1 DEF Clean
<1>8. CASE ~Agreed(b, o, t)
  <2>1. found = IF Absent \in {o, t} THEN gone ELSE inside
    BY <1>2, <1>8 DEF Agreed
  <2>2. found = inside /\ inside.conflicts = {}
    <3>1. gone.conflicts # {}
      BY <1>3
    <3>2. found.conflicts = {}
      BY <1>6
    <3> HIDE DEF found
    <3> QED BY <2>1, <3>1, <3>2
  <2>3. inside.value = Arranged(b, o, t, om, tm)
    BY <2>2, CleanSequence DEF inside
  <2> HIDE DEF found
  <2> QED BY <1>6, <1>8, <2>2, <2>3 DEF inside
<1> QED BY <1>7, <1>8

\* What becomes of a base block.
LEMMA SettledAs ==
    ASSUME NEW b, NEW o, NEW t, NEW om, NEW tm, NEW i \in DOMAIN b,
           Settled(b, o, t, om, tm)[i].conflicts = {}
    PROVE  LET mine == At(o, om, i)
               other == At(t, tm, i)
               value == Settled(b, o, t, om, tm)[i].value
           IN  \/ Agreed(b[i], mine, other) /\ value = Agreement(b[i], mine, other)
               \/ /\ ~Agreed(b[i], mine, other) /\ Absent \notin {mine, other}
                  /\ Agreed(b[i].hint, mine.hint, other.hint) /\ Agreed(b[i].text, mine.text, other.text)
                  /\ value = Combined(b[i], mine, other)
<1>1. Settled(b, o, t, om, tm)[i] = MergeBlock(b[i], At(o, om, i), At(t, tm, i), <<i>>, "none")
  BY DEF Settled, Settle, At
<1> QED BY <1>1, BlockSettled

\* The blocks of the merge are those of its tokens.
LEMMA ShownTokens ==
    ASSUME NEW b, NEW o, NEW t, NEW om, NEW tm,
           ToSet(Order(b, o, t, om, tm)) = AllTokens(b, o, t, om, tm)
    PROVE  /\ \A token \in AllTokens(b, o, t, om, tm) :
                  \E n \in DOMAIN Arranged(b, o, t, om, tm) :
                      Arranged(b, o, t, om, tm)[n] = ValueOf(b, o, t, om, tm, token)
           /\ \A n \in DOMAIN Arranged(b, o, t, om, tm) :
                  \E token \in AllTokens(b, o, t, om, tm) :
                      Arranged(b, o, t, om, tm)[n] = ValueOf(b, o, t, om, tm, token)
<1> DEFINE order == Order(b, o, t, om, tm)
           all == AllTokens(b, o, t, om, tm)
           V(token) == ValueOf(b, o, t, om, tm, token)
           shown == Arranged(b, o, t, om, tm)
<1>1. shown = [n \in DOMAIN order |-> V(order[n])]
  BY DEF Arranged
<1>2. all = {order[n] : n \in DOMAIN order}
  BY DEF ToSet
<1> HIDE DEF order, all, V, shown
<1>3. \A token \in all : \E n \in DOMAIN shown : shown[n] = V(token)
  BY <1>1, <1>2
<1>4. \A n \in DOMAIN shown : \E token \in all : shown[n] = V(token)
  BY <1>1, <1>2
<1> QED BY <1>3, <1>4 DEF order, all, V, shown

\* The tokens of a copy are in its line, but for base blocks settled as gone.
LEMMA LineTokens ==
    ASSUME NEW b, NEW o, NEW t, NEW om, NEW tm, OnePartner(om), OnePartner(tm)
    PROVE  /\ \A j \in DOMAIN o :
                  \/ /\ j \in FreeSide(o, om) /\ <<1, j>> \in AllTokens(b, o, t, om, tm)
                     /\ <<j, <<1, j>>>> \in OurLine(b, o, t, om, tm)
                  \/ \E p \in om : /\ p[2] = j
                                   /\ p[1] \in Staying(b, o, t, om, tm) =>
                                          /\ <<j, << 0, p[1] >>>> \in OurLine(b, o, t, om, tm)
                                          /\ << 0, p[1] >> \in AllTokens(b, o, t, om, tm)
           /\ \A k \in DOMAIN t :
                  \/ \E p \in tm : /\ p[2] = k
                                   /\ p[1] \in Staying(b, o, t, om, tm) =>
                                          /\ <<k, << 0, p[1] >>>> \in TheirLine(b, o, t, om, tm)
                                          /\ << 0, p[1] >> \in AllTokens(b, o, t, om, tm)
                  \/ /\ k \in FreeSide(t, tm)
                     /\ \/ \E p \in Coincide(o, t, om, tm) :
                              /\ p[2] = k /\ <<1, p[1]>> \in AllTokens(b, o, t, om, tm)
                              /\ <<k, <<1, p[1]>>>> \in TheirLine(b, o, t, om, tm)
                        \/ /\ ~\E p \in Coincide(o, t, om, tm) : p[2] = k
                           /\ <<2, k>> \in AllTokens(b, o, t, om, tm)
                           /\ <<k, <<2, k>>>> \in TheirLine(b, o, t, om, tm)
<1> DEFINE ot == OurTokens(o, om)
           tt == TheirTokens(o, t, om, tm)
           staying == Staying(b, o, t, om, tm)
           ol == OurLine(b, o, t, om, tm)
           tl == TheirLine(b, o, t, om, tm)
           all == AllTokens(b, o, t, om, tm)
<1>1. ol = Line(ot, staying) /\ tl = Line(tt, staying) /\ all = {p[2] : p \in ol \cup tl}
  BY DEF OurLine, TheirLine, AllTokens
<1>2. DOMAIN ot = DOMAIN o /\ DOMAIN tt = DOMAIN t
  BY DEF OurTokens, TheirTokens
<1>3. \A j \in DOMAIN o : (Old(ot[j]) => ot[j][2] \in staying) => <<j, ot[j]>> \in ol /\ ot[j] \in all
  <2> SUFFICES ASSUME NEW j \in DOMAIN o, Old(ot[j]) => ot[j][2] \in staying
               PROVE  <<j, ot[j]>> \in ol /\ ot[j] \in all
    OBVIOUS
  <2> HIDE DEF ot, tt, staying, ol, tl, all
  <2>1. <<j, ot[j]>> \in ol
    BY <1>1, <1>2 DEF Line
  <2>2. <<j, ot[j]>>[2] = ot[j]
    OBVIOUS
  <2> QED BY <1>1, <2>1, <2>2
<1>4. \A k \in DOMAIN t : (Old(tt[k]) => tt[k][2] \in staying) => <<k, tt[k]>> \in tl /\ tt[k] \in all
  <2> SUFFICES ASSUME NEW k \in DOMAIN t, Old(tt[k]) => tt[k][2] \in staying
               PROVE  <<k, tt[k]>> \in tl /\ tt[k] \in all
    OBVIOUS
  <2> HIDE DEF ot, tt, staying, ol, tl, all
  <2>1. <<k, tt[k]>> \in tl
    BY <1>1, <1>2 DEF Line
  <2>2. <<k, tt[k]>>[2] = tt[k]
    OBVIOUS
  <2> QED BY <1>1, <2>1, <2>2
<1>5. ASSUME NEW j \in DOMAIN o
      PROVE  \/ j \in FreeSide(o, om) /\ <<1, j>> \in all /\ <<j, <<1, j>>>> \in ol
             \/ \E p \in om : /\ p[2] = j
                              /\ p[1] \in staying => <<j, << 0, p[1] >>>> \in ol /\ << 0, p[1] >> \in all
  <2>1. \/ j \in FreeSide(o, om) /\ ot[j] = <<1, j>>
        \/ \E p \in om : p[2] = j /\ ot[j] = << 0, p[1] >>
    BY OurToken
  <2> HIDE DEF ot, tt, staying, ol, tl, all
  <2>2. CASE j \in FreeSide(o, om) /\ ot[j] = <<1, j>>
    <3>1. ~Old(ot[j])
      BY <2>2 DEF Old
    <3> QED BY <2>2, <3>1, <1>3
  <2>3. CASE \E p \in om : p[2] = j /\ ot[j] = << 0, p[1] >>
    <3>1. PICK p \in om : p[2] = j /\ ot[j] = << 0, p[1] >>
      BY <2>3
    <3>2. ot[j][2] = p[1]
      BY <3>1
    <3> QED BY <3>1, <3>2, <1>3
  <2> QED BY <2>1, <2>2, <2>3
<1>6. ASSUME NEW k \in DOMAIN t
      PROVE  \/ \E p \in tm : /\ p[2] = k
                              /\ p[1] \in staying => <<k, << 0, p[1] >>>> \in tl /\ << 0, p[1] >> \in all
             \/ /\ k \in FreeSide(t, tm)
                /\ \/ \E p \in Coincide(o, t, om, tm) :
                         p[2] = k /\ <<1, p[1]>> \in all /\ <<k, <<1, p[1]>>>> \in tl
                   \/ /\ ~\E p \in Coincide(o, t, om, tm) : p[2] = k
                      /\ <<2, k>> \in all /\ <<k, <<2, k>>>> \in tl
  <2>1. \/ \E p \in tm : p[2] = k /\ tt[k] = << 0, p[1] >>
        \/ /\ k \in FreeSide(t, tm)
           /\ \E p \in Coincide(o, t, om, tm) : p[2] = k /\ tt[k] = <<1, p[1]>>
        \/ /\ k \in FreeSide(t, tm)
           /\ ~\E p \in Coincide(o, t, om, tm) : p[2] = k
           /\ tt[k] = <<2, k>>
    BY TheirToken
  <2> HIDE DEF ot, tt, staying, ol, tl, all
  <2>2. CASE \E p \in tm : p[2] = k /\ tt[k] = << 0, p[1] >>
    <3>1. PICK p \in tm : p[2] = k /\ tt[k] = << 0, p[1] >>
      BY <2>2
    <3>2. tt[k][2] = p[1]
      BY <3>1
    <3> QED BY <3>1, <3>2, <1>4
  <2>3. CASE /\ k \in FreeSide(t, tm)
             /\ \E p \in Coincide(o, t, om, tm) : p[2] = k /\ tt[k] = <<1, p[1]>>
    <3>1. PICK p \in Coincide(o, t, om, tm) : p[2] = k /\ tt[k] = <<1, p[1]>>
      BY <2>3
    <3>2. ~Old(tt[k])
      BY <3>1 DEF Old
    <3> QED BY <2>3, <3>1, <3>2, <1>4
  <2>4. CASE /\ k \in FreeSide(t, tm)
             /\ ~\E p \in Coincide(o, t, om, tm) : p[2] = k
             /\ tt[k] = <<2, k>>
    <3>1. ~Old(tt[k])
      BY <2>4 DEF Old
    <3> QED BY <2>4, <3>1, <1>4
  <2> QED BY <2>1, <2>2, <2>3, <2>4
<1> HIDE DEF staying, ol, tl, all
<1> QED BY <1>5, <1>6 DEF staying, ol, tl, all

\* A field that a copy gave a new value, in any of its blocks, is in a merge without conflicts.
LEMMA NewStays ==
    ASSUME NEW b \in Seq(Block), NEW o \in Seq(Block), NEW t \in Seq(Block), NEW om, NEW tm,
           Matching(om, b, o), Matching(tm, b, t),
           MergeAst(b, o, t, om, tm, "none").conflicts = {},
           NEW field \in {"hint", "text"}
    PROVE  (All(o, field) \cup All(t, field)) \ All(b, field)
               \subseteq All(MergeAst(b, o, t, om, tm, "none").value, field)
<1> DEFINE value == MergeAst(b, o, t, om, tm, "none").value
           all == AllTokens(b, o, t, om, tm)
           staying == Staying(b, o, t, om, tm)
           V(token) == ValueOf(b, o, t, om, tm, token)
<1>1. CASE Agreed(b, o, t)
  <2>1. value = Agreement(b, o, t)
    BY <1>1, CleanMerge
  <2> HIDE DEF value
  <2> QED BY <1>1, <2>1 DEF Agreed, Agreement, value
<1>2. CASE ~Agreed(b, o, t)
  <2>1. value = Arranged(b, o, t, om, tm) /\ MergeSequence(b, o, t, om, tm, "none").conflicts = {}
    BY <1>2, CleanMerge
  <2>2. /\ \A i \in DOMAIN b : Settled(b, o, t, om, tm)[i].conflicts = {}
        /\ ToSet(Order(b, o, t, om, tm)) = all
    BY <2>1, CleanSequence
  <2>3. \A token \in all : \E n \in DOMAIN value : value[n] = V(token)
    BY <2>1, <2>2, ShownTokens
  <2>4. \A token \in all : V(token)[field] # Absent => V(token)[field] \in All(value, field)
    <3> HIDE DEF value, V, all
    <3> QED BY <2>3 DEF All
  <2>5. \A i \in DOMAIN b : V(<< 0, i >>) = Settled(b, o, t, om, tm)[i].value
    BY DEF ValueOf
  <2>6. (\A j : V(<<1, j>>) = o[j]) /\ (\A k : V(<<2, k>>) = t[k])
    BY DEF ValueOf
  <2>7. OnePartner(om) /\ OnePartner(tm)
    BY DEF Matching
  <2> DEFINE New(v) == v # Absent /\ v \notin All(b, field)
  <2>8. ASSUME NEW i \in DOMAIN b, NEW v, New(v),
               \/ Matched(om, i) /\ PartnerOf(om, i) \in DOMAIN o /\ o[PartnerOf(om, i)][field] = v
               \/ Matched(tm, i) /\ PartnerOf(tm, i) \in DOMAIN t /\ t[PartnerOf(tm, i)][field] = v
        PROVE  i \in staying /\ V(<< 0, i >>)[field] = v
    <3> DEFINE mine == At(o, om, i)
               other == At(t, tm, i)
               it == Settled(b, o, t, om, tm)[i].value
    <3>1. \/ Agreed(b[i], mine, other) /\ it = Agreement(b[i], mine, other)
          \/ /\ ~Agreed(b[i], mine, other) /\ Absent \notin {mine, other}
             /\ Agreed(b[i].hint, mine.hint, other.hint) /\ Agreed(b[i].text, mine.text, other.text)
             /\ it = Combined(b[i], mine, other)
      BY <2>2, SettledAs
    <3>2. mine \in Block \cup {Absent} /\ other \in Block \cup {Absent} /\ b[i] \in Block
      <4>1. \A p \in om : p[2] \in DOMAIN o
        BY DEF Matching
      <4>2. \A p \in tm : p[2] \in DOMAIN t
        BY DEF Matching
      <4> QED BY <4>1, <4>2 DEF At, Matched, PartnerOf
    <3>3. b[i][field] # v
      BY <2>8 DEF All
    <3>4. (mine \in Block /\ mine[field] = v) \/ (other \in Block /\ other[field] = v)
      <4>1. \A n \in DOMAIN o : o[n] \in Block
        OBVIOUS
      <4>2. \A n \in DOMAIN t : t[n] \in Block
        OBVIOUS
      <4>3. Matched(om, i) => mine = o[PartnerOf(om, i)]
        BY DEF At
      <4>4. Matched(tm, i) => other = t[PartnerOf(tm, i)]
        BY DEF At
      <4> HIDE DEF mine, other
      <4>5. CASE Matched(om, i) /\ PartnerOf(om, i) \in DOMAIN o /\ o[PartnerOf(om, i)][field] = v
        <5>1. mine = o[PartnerOf(om, i)] /\ o[PartnerOf(om, i)] \in Block
          BY <4>5, <4>1, <4>3
        <5>2. mine[field] = v
          BY Zenon, <4>5, <5>1
        <5>3. mine \in Block
          BY Zenon, <5>1
        <5> QED BY <5>2, <5>3
      <4>6. CASE Matched(tm, i) /\ PartnerOf(tm, i) \in DOMAIN t /\ t[PartnerOf(tm, i)][field] = v
        <5>1. other = t[PartnerOf(tm, i)] /\ t[PartnerOf(tm, i)] \in Block
          BY <4>6, <4>2, <4>4
        <5>2. other[field] = v
          BY Zenon, <4>6, <5>1
        <5>3. other \in Block
          BY Zenon, <5>1
        <5> QED BY <5>2, <5>3
      <4> QED BY <2>8, <4>5, <4>6
    <3>5. Absent \notin Block
      BY AbsentApart
    <3> HIDE DEF mine, other, it
    <3>6. CASE Agreed(b[i], mine, other) /\ it = Agreement(b[i], mine, other)
      <4>1. it \in Block /\ it[field] = v
        BY <3>3, <3>4, <3>6 DEF Agreed, Agreement
      <4> QED BY <4>1, <3>5, <2>5 DEF it, Staying
    <3>7. CASE /\ ~Agreed(b[i], mine, other) /\ Absent \notin {mine, other}
               /\ Agreed(b[i].hint, mine.hint, other.hint) /\ Agreed(b[i].text, mine.text, other.text)
               /\ it = Combined(b[i], mine, other)
      <4>1. mine \in Block /\ other \in Block
        BY <3>2, <3>7
      <4>2. it = [kind |-> mine.kind, hint |-> Agreement(b[i].hint, mine.hint, other.hint),
                  text |-> Agreement(b[i].text, mine.text, other.text)]
        BY <3>7 DEF Combined
      <4>3. it \in Block
        BY <4>1, <4>2, <3>2 DEF Block, Agreement
      <4>4. it[field] = v
        BY <4>2, <3>3, <3>4, <3>7 DEF Agreed, Agreement
      <4> QED BY <4>3, <4>4, <3>5, <2>5 DEF it, Staying
    <3> QED BY <3>1, <3>6, <3>7
  <2>9. ASSUME NEW j \in DOMAIN o, New(o[j][field])
        PROVE  o[j][field] \in All(value, field)
    <3>1. CASE j \in FreeSide(o, om) /\ <<1, j>> \in all
      BY <3>1, <2>4, <2>6, <2>9
    <3>2. CASE \E p \in om : p[2] = j /\ (p[1] \in staying => << 0, p[1] >> \in all)
      <4>1. PICK p \in om : p[2] = j /\ (p[1] \in staying => << 0, p[1] >> \in all)
        BY <3>2
      <4>2. p[1] \in DOMAIN b /\ Matched(om, p[1]) /\ PartnerOf(om, p[1]) = j
        BY <4>1, <2>7, Partners DEF Matching
      <4>3. p[1] \in staying /\ V(<< 0, p[1] >>)[field] = o[j][field]
        BY <4>2, <2>8, <2>9
      <4> QED BY <4>1, <4>3, <2>4, <2>9
    <3>3. \/ j \in FreeSide(o, om) /\ <<1, j>> \in all
          \/ \E p \in om : p[2] = j /\ (p[1] \in staying => << 0, p[1] >> \in all)
      BY ZenonT(40), <2>7, LineTokens
    <3> QED BY <3>1, <3>2, <3>3
  <2>10. ASSUME NEW k \in DOMAIN t, New(t[k][field])
         PROVE  t[k][field] \in All(value, field)
    <3>1. CASE <<2, k>> \in all
      BY <3>1, <2>4, <2>6, <2>10
    <3>2. CASE \E p \in Coincide(o, t, om, tm) : p[2] = k /\ <<1, p[1]>> \in all
      <4>1. PICK p \in Coincide(o, t, om, tm) : p[2] = k /\ <<1, p[1]>> \in all
        BY <3>2
      <4>2. o[p[1]] = t[k]
        BY <4>1 DEF Coincide
      <4> QED BY <4>1, <4>2, <2>4, <2>6, <2>10
    <3>3. CASE \E p \in tm : p[2] = k /\ (p[1] \in staying => << 0, p[1] >> \in all)
      <4>1. PICK p \in tm : p[2] = k /\ (p[1] \in staying => << 0, p[1] >> \in all)
        BY <3>3
      <4>2. p[1] \in DOMAIN b /\ Matched(tm, p[1]) /\ PartnerOf(tm, p[1]) = k
        BY <4>1, <2>7, Partners DEF Matching
      <4>3. p[1] \in staying /\ V(<< 0, p[1] >>)[field] = t[k][field]
        BY <4>2, <2>8, <2>10
      <4> QED BY <4>1, <4>3, <2>4, <2>10
    <3>4. \/ \E p \in tm : p[2] = k /\ (p[1] \in staying => << 0, p[1] >> \in all)
          \/ \E p \in Coincide(o, t, om, tm) : p[2] = k /\ <<1, p[1]>> \in all
          \/ <<2, k>> \in all
      BY Zenon, <2>7, LineTokens
    <3> QED BY <3>1, <3>2, <3>3, <3>4
  <2>11. \A doc, v : v \in All(doc, field) => v # Absent /\ \E i \in DOMAIN doc : doc[i][field] = v
    BY DEF All
  <2> HIDE DEF value, New
  <2> QED BY <2>9, <2>10, <2>11 DEF value, New
<1> QED BY <1>1, <1>2

-----------------------------------------------------------------------------
(* The copies *)

Piece == [from : Nat, block : Block]

\* A copy has its own blocks, each of which began as another one of the base, or new.
Traced(doc, side) ==
    /\ side \in Seq(Piece)
    /\ \A i \in DOMAIN side : side[i].from <= Len(doc)
    /\ \A i, j \in DOMAIN side : side[i].from = side[j].from /\ side[i].from # 0 => i = j

\* A sequence with one element removed: those after it move up.
LEMMA Removed ==
    ASSUME NEW S, NEW s \in Seq(S), NEW i \in DOMAIN s
    PROVE  /\ RemoveAt(s, i) \in Seq(S) /\ Len(RemoveAt(s, i)) = Len(s) - 1
           /\ \A k \in 1..(Len(s) - 1) : RemoveAt(s, i)[k] = IF k < i THEN s[k] ELSE s[k + 1]
<1> DEFINE u == SubSeq(s, 1, i - 1)
           v == SubSeq(s, i + 1, Len(s))
<1>0. Len(s) \in Nat /\ i \in 1..Len(s) /\ \A k \in 1..Len(s) : s[k] \in S
  OBVIOUS
<1>1. u \in Seq(S) /\ Len(u) = i - 1 /\ \A k \in 1..(i - 1) : u[k] = s[k]
  BY <1>0, SubSeqProperties
<1>2. v \in Seq(S) /\ Len(v) = Len(s) - i /\ \A k \in 1..(Len(s) - i) : v[k] = s[k + i]
  <2>1. v \in Seq(S) /\ Len(v) = (IF i + 1 <= Len(s) THEN Len(s) - (i + 1) + 1 ELSE 0)
        /\ \A k \in 1..(Len(s) - (i + 1) + 1) : v[k] = s[(i + 1) + k - 1]
    BY <1>0, SubSeqProperties
  <2> HIDE DEF v
  <2> QED BY <1>0, <2>1
<1>3. RemoveAt(s, i) = u \o v
  BY DEF RemoveAt
<1> HIDE DEF u, v
<1>4. /\ u \o v \in Seq(S) /\ Len(u \o v) = Len(u) + Len(v)
      /\ \A k \in 1..(Len(u) + Len(v)) : (u \o v)[k] = IF k <= Len(u) THEN u[k] ELSE v[k - Len(u)]
  BY <1>1, <1>2, ConcatProperties
<1>5. Len(RemoveAt(s, i)) = Len(s) - 1
  BY <1>0, <1>1, <1>2, <1>3, <1>4
<1>6. ASSUME NEW k \in 1..(Len(s) - 1)
      PROVE  RemoveAt(s, i)[k] = IF k < i THEN s[k] ELSE s[k + 1]
  <2>0. Len(u) = i - 1 /\ Len(u) + Len(v) = Len(s) - 1
    BY <1>0, <1>1, <1>2
  <2>1. RemoveAt(s, i)[k] = IF k <= i - 1 THEN u[k] ELSE v[k - (i - 1)]
    BY <2>0, <1>3, <1>4
  <2>2. CASE k < i
    BY <1>0, <1>1, <2>1, <2>2
  <2>3. CASE ~(k < i)
    <3>1. k - (i - 1) \in 1..(Len(s) - i) /\ (k - (i - 1)) + i = k + 1
      BY <1>0, <2>3
    <3>2. v[k - (i - 1)] = s[k + 1]
      BY <1>2, <3>1
    <3> QED BY <1>0, <2>1, <2>3, <3>2
  <2> QED BY <2>2, <2>3
<1> QED BY <1>3, <1>4, <1>5, <1>6

\* A sequence with one element inserted: those after it move down.
LEMMA Inserted ==
    ASSUME NEW S, NEW s \in Seq(S), NEW i \in 1..(Len(s) + 1), NEW e \in S
    PROVE  /\ InsertAt(s, i, e) \in Seq(S) /\ Len(InsertAt(s, i, e)) = Len(s) + 1
           /\ \A k \in 1..(Len(s) + 1) :
                  InsertAt(s, i, e)[k] = IF k < i THEN s[k] ELSE IF k = i THEN e ELSE s[k - 1]
<1> DEFINE u == SubSeq(s, 1, i - 1)
           v == SubSeq(s, i, Len(s))
           w == u \o <<e>>
<1>0. Len(s) \in Nat /\ \A k \in 1..Len(s) : s[k] \in S
  OBVIOUS
<1>1. u \in Seq(S) /\ Len(u) = i - 1 /\ \A k \in 1..(i - 1) : u[k] = s[k]
  BY <1>0, SubSeqProperties
<1>2. v \in Seq(S) /\ Len(v) = Len(s) - i + 1 /\ \A k \in 1..(Len(s) - i + 1) : v[k] = s[i + k - 1]
  <2>1. v \in Seq(S) /\ Len(v) = (IF i <= Len(s) THEN Len(s) - i + 1 ELSE 0)
        /\ \A k \in 1..(Len(s) - i + 1) : v[k] = s[i + k - 1]
    BY <1>0, SubSeqProperties
  <2> HIDE DEF v
  <2> QED BY <1>0, <2>1
<1>3. InsertAt(s, i, e) = w \o v
  BY DEF InsertAt
<1> HIDE DEF u, v
<1>4. /\ w \in Seq(S) /\ Len(w) = Len(u) + 1
      /\ \A k \in 1..(Len(u) + 1) : w[k] = IF k <= Len(u) THEN u[k] ELSE e
  <2>1. <<e>> \in Seq(S) /\ Len(<<e>>) = 1 /\ <<e>>[1] = e
    OBVIOUS
  <2>2. /\ w \in Seq(S) /\ Len(w) = Len(u) + Len(<<e>>)
        /\ \A k \in 1..(Len(u) + Len(<<e>>)) : w[k] = IF k <= Len(u) THEN u[k] ELSE <<e>>[k - Len(u)]
    BY <1>1, <2>1, ConcatProperties
  <2> HIDE DEF w
  <2> QED BY <1>1, <2>1, <2>2
<1> HIDE DEF w
<1>5. /\ w \o v \in Seq(S) /\ Len(w \o v) = Len(w) + Len(v)
      /\ \A k \in 1..(Len(w) + Len(v)) : (w \o v)[k] = IF k <= Len(w) THEN w[k] ELSE v[k - Len(w)]
  BY <1>2, <1>4, ConcatProperties
<1>6. Len(InsertAt(s, i, e)) = Len(s) + 1
  BY <1>0, <1>1, <1>2, <1>3, <1>4, <1>5
<1>7. ASSUME NEW k \in 1..(Len(s) + 1)
      PROVE  InsertAt(s, i, e)[k] = IF k < i THEN s[k] ELSE IF k = i THEN e ELSE s[k - 1]
  <2>1. InsertAt(s, i, e)[k] = IF k <= i THEN w[k] ELSE v[k - i]
    BY <1>0, <1>1, <1>2, <1>3, <1>4, <1>5
  <2>2. CASE k <= i
    BY <1>0, <1>1, <1>4, <2>1, <2>2
  <2>3. CASE ~(k <= i)
    <3>1. k - i \in 1..(Len(s) - i + 1) /\ i + (k - i) - 1 = k - 1
      BY <1>0, <2>3
    <3>2. v[k - i] = s[k - 1]
      BY <1>2, <3>1
    <3> QED BY <1>0, <2>1, <2>3, <3>2
  <2> QED BY <2>2, <2>3
<1> QED BY <1>3, <1>5, <1>6, <1>7

\* Whatever a writer does, the blocks of a copy keep where they came from.
LEMMA EditedTraced ==
    ASSUME NEW doc, Len(doc) \in Nat, NEW side, Traced(doc, side), NEW to \in Edited(side)
    PROVE  Traced(doc, to)
<1>0. /\ side \in Seq(Piece) /\ Len(side) \in Nat /\ DOMAIN side = 1..Len(side)
      /\ \A i \in DOMAIN side : side[i] \in Piece /\ side[i].from \in Nat /\ side[i].block \in Block
                                /\ side[i].from <= Len(doc)
      /\ \A i, j \in DOMAIN side : side[i].from = side[j].from /\ side[i].from # 0 => i = j
  <2>1. /\ side \in Seq(Piece)
        /\ \A i \in DOMAIN side : side[i].from <= Len(doc)
        /\ \A i, j \in DOMAIN side : side[i].from = side[j].from /\ side[i].from # 0 => i = j
    BY DEF Traced
  <2>2. Len(side) \in Nat /\ DOMAIN side = 1..Len(side) /\ \A i \in DOMAIN side : side[i] \in Piece
    BY <2>1
  <2>3. \A piece \in Piece : piece.from \in Nat /\ piece.block \in Block
    BY DEF Piece
  <2> QED BY <2>1, <2>2, <2>3
<1>1. ASSUME NEW i \in DOMAIN side, NEW block \in Block, to = [side EXCEPT ![i] = [from |-> side[i].from, block |-> block]]
      PROVE  Traced(doc, to)
  <2>1. /\ DOMAIN to = DOMAIN side
        /\ \A k \in DOMAIN side : to[k] \in Piece /\ to[k].from = side[k].from
    BY <1>0, <1>1 DEF Piece
  <2>2. to \in Seq(Piece)
    <3>1. to \in [1..Len(side) -> Piece]
      BY <1>0, <1>1, <2>1
    <3> QED BY <1>0, <3>1
  <2> QED BY <1>0, <2>1, <2>2 DEF Traced
<1>2. CASE \E i \in DOMAIN side : \E block \in Rewritten(side[i].block) :
               to = ReplaceAt(side, i, [from |-> side[i].from, block |-> block])
  <2>0. PICK i \in DOMAIN side : \E block \in Rewritten(side[i].block) :
               to = ReplaceAt(side, i, [from |-> side[i].from, block |-> block])
    BY <1>2
  <2>1. PICK block \in Rewritten(side[i].block) :
               to = ReplaceAt(side, i, [from |-> side[i].from, block |-> block])
    BY <2>0
  <2>2. block \in Block
    <3>1. side[i].block \in Block
      BY <1>0
    <3>2. CASE \E text \in Rewrites : block = [side[i].block EXCEPT !.text = text]
      BY <3>1, <3>2, WritersAssumption DEF Block
    <3>3. CASE \E hint \in Hints \cup {Absent} : block = [side[i].block EXCEPT !.hint = hint]
      BY <3>1, <3>3 DEF Block
    <3> QED BY <3>2, <3>3 DEF Rewritten
  <2> QED BY <1>1, <2>1, <2>2 DEF ReplaceAt
<1>4. ASSUME NEW i \in DOMAIN side
      PROVE  /\ Traced(doc, RemoveAt(side, i))
             /\ \A k \in DOMAIN RemoveAt(side, i) :
                    RemoveAt(side, i)[k].from # 0 => RemoveAt(side, i)[k].from # side[i].from
  <2> DEFINE less == RemoveAt(side, i)
  <2>1. /\ less \in Seq(Piece) /\ Len(less) = Len(side) - 1
        /\ \A k \in 1..(Len(side) - 1) : less[k] = IF k < i THEN side[k] ELSE side[k + 1]
    BY <1>0, Removed
  <2> HIDE DEF less
  <2>2. DOMAIN less = 1..(Len(side) - 1)
    BY <2>1
  <2>3. \A k \in DOMAIN less : \E n \in DOMAIN side :
            n # i /\ less[k] = side[n] /\ n = IF k < i THEN k ELSE k + 1
    BY <1>0, <1>4, <2>1, <2>2
  <2>4. Traced(doc, less)
    BY <1>0, <2>1, <2>2, <2>3 DEF Traced
  <2>5. \A k \in DOMAIN less : less[k].from # 0 => less[k].from # side[i].from
    BY <1>0, <2>3
  <2> QED BY <2>4, <2>5 DEF less
<1>5. ASSUME NEW less, Traced(doc, less), NEW j \in 1..(Len(less) + 1), NEW piece \in Piece,
             piece.from <= Len(doc),
             \A k \in DOMAIN less : less[k].from # 0 => less[k].from # piece.from
      PROVE  Traced(doc, InsertAt(less, j, piece))
  <2> DEFINE more == InsertAt(less, j, piece)
  <2>0. /\ less \in Seq(Piece) /\ Len(less) \in Nat /\ DOMAIN less = 1..Len(less)
        /\ \A i \in DOMAIN less : less[i].from <= Len(doc)
        /\ \A i, n \in DOMAIN less : less[i].from = less[n].from /\ less[i].from # 0 => i = n
    BY <1>5 DEF Traced
  <2>1. /\ more \in Seq(Piece) /\ Len(more) = Len(less) + 1
        /\ \A k \in 1..(Len(less) + 1) :
               more[k] = IF k < j THEN less[k] ELSE IF k = j THEN piece ELSE less[k - 1]
    BY <1>5, <2>0, Inserted
  <2> HIDE DEF more
  <2>2. DOMAIN more = 1..(Len(less) + 1)
    BY <2>1, <2>0
  <2>3. \A k \in DOMAIN more : \/ k = j /\ more[k] = piece
                               \/ \E n \in DOMAIN less : /\ k # j /\ more[k] = less[n]
                                                         /\ n = IF k < j THEN k ELSE k - 1
    BY <1>5, <2>0, <2>1, <2>2
  <2>4. \A k \in DOMAIN more : more[k].from <= Len(doc)
    BY <1>5, <2>0, <2>3
  <2>5. ASSUME NEW k \in DOMAIN more, NEW l \in DOMAIN more, more[k].from = more[l].from, more[k].from # 0
        PROVE  k = l
    <3>1. CASE k = j
      BY <1>5, <2>3, <2>5, <3>1
    <3>2. CASE l = j
      BY <1>5, <2>3, <2>5, <3>2
    <3>3. CASE k # j /\ l # j
      BY <2>0, <2>2, <2>3, <2>5, <3>3, <1>5
    <3> QED BY <3>1, <3>2, <3>3
  <2>6. Traced(doc, more)
    BY <2>1, <2>4, <2>5 DEF Traced
  <2> QED BY <2>6 DEF more
<1>6. CASE \E i \in DOMAIN side : to = RemoveAt(side, i)
  BY <1>4, <1>6
<1>7. CASE \E i \in 1..(Len(side) + 1), block \in Insertions :
               to = InsertAt(side, i, [from |-> 0, block |-> block])
  <2>1. PICK i \in 1..(Len(side) + 1), block \in Insertions :
               to = InsertAt(side, i, [from |-> 0, block |-> block])
    BY <1>7
  <2> DEFINE piece == [from |-> 0, block |-> block]
  <2>2. piece \in Piece /\ piece.from = 0
    BY <2>1, WritersAssumption DEF Piece
  <2> HIDE DEF piece
  <2>3. 0 <= Len(doc)
    OBVIOUS
  <2>4. Traced(doc, InsertAt(side, i, piece))
    BY <2>1, <2>2, <2>3, <1>5
  <2> QED BY <2>1, <2>4 DEF piece
<1>8. CASE \E i, j \in DOMAIN side : to = InsertAt(RemoveAt(side, i), j, side[i])
  <2>1. PICK i \in DOMAIN side, j \in DOMAIN side : to = InsertAt(RemoveAt(side, i), j, side[i])
    BY <1>8
  <2>2. Len(RemoveAt(side, i)) = Len(side) - 1
    BY <1>0, Removed
  <2>3. j \in 1..(Len(RemoveAt(side, i)) + 1)
    BY <1>0, <2>2
  <2> QED BY <1>0, <1>4, <1>5, <2>1, <2>3
<1> QED
  <2>1. \/ \E i \in DOMAIN side : \E block \in Rewritten(side[i].block) :
               to = ReplaceAt(side, i, [from |-> side[i].from, block |-> block])
        \/ \E i \in DOMAIN side : to = RemoveAt(side, i)
        \/ \E i \in 1..(Len(side) + 1), block \in Insertions :
               to = InsertAt(side, i, [from |-> 0, block |-> block])
        \/ \E i, j \in DOMAIN side : to = InsertAt(RemoveAt(side, i), j, side[i])
    <3> DEFINE A == UNION {{ReplaceAt(side, i, [from |-> side[i].from, block |-> block]) :
                                block \in Rewritten(side[i].block)} : i \in DOMAIN side}
               B == {RemoveAt(side, i) : i \in DOMAIN side}
               C == {InsertAt(side, i, [from |-> 0, block |-> block]) :
                         i \in 1..(Len(side) + 1), block \in Insertions}
               D == {InsertAt(RemoveAt(side, i), j, side[i]) : i, j \in DOMAIN side}
    <3>1. Edited(side) = A \cup B \cup C \cup D
      BY DEF Edited
    <3>2. to \in A => \E i \in DOMAIN side : \E block \in Rewritten(side[i].block) :
               to = ReplaceAt(side, i, [from |-> side[i].from, block |-> block])
      OBVIOUS
    <3>3. to \in B => \E i \in DOMAIN side : to = RemoveAt(side, i)
      OBVIOUS
    <3>4. to \in C => \E i \in 1..(Len(side) + 1), block \in Insertions :
               to = InsertAt(side, i, [from |-> 0, block |-> block])
      OBVIOUS
    <3>5. to \in D => \E i, j \in DOMAIN side : to = InsertAt(RemoveAt(side, i), j, side[i])
      OBVIOUS
    <3> HIDE DEF A, B, C, D
    <3> QED BY <3>1, <3>2, <3>3, <3>4, <3>5
  <2> QED BY <2>1, <1>2, <1>6, <1>7, <1>8

\* What was merged, when no resolver was asked, are the two copies as they are.
MergedAs(with) ==
    /\ merged = MergeAst(base, Blocks(ours), Blocks(theirs), MatchSide(base, Blocks(ours)),
                         MatchSide(base, Blocks(theirs)), with)
    /\ mirrored = MergeAst(base, Blocks(theirs), Blocks(ours), MatchSide(base, Blocks(theirs)),
                           MatchSide(base, Blocks(ours)), Mirrored(with))

EInv ==
    /\ base \in Seq(Block)
    /\ Traced(base, ours) /\ Traced(base, theirs)
    /\ answer = "none" => Pending \/ MergedAs("none")

\* A merge leaves what was merged.
LEMMA BothMerged ==
    ASSUME NEW with, MergeBoth(with), UNCHANGED <<base, ours, theirs>>
    PROVE  MergedAs(with)'
<1>1. PICK om \in {MatchSide(base, Blocks(ours))}, tm \in {MatchSide(base, Blocks(theirs))} :
          /\ merged' = MergeAst(base, Blocks(ours), Blocks(theirs), om, tm, with)
          /\ mirrored' = MergeAst(base, Blocks(theirs), Blocks(ours), tm, om, Mirrored(with))
  BY Zenon DEF MergeBoth
<1>2. om = MatchSide(base, Blocks(ours)) /\ tm = MatchSide(base, Blocks(theirs))
  OBVIOUS
<1>3. base' = base /\ ours' = ours /\ theirs' = theirs
  OBVIOUS
<1>4. Blocks(ours)' = Blocks(ours) /\ Blocks(theirs)' = Blocks(theirs)
  BY <1>3 DEF Blocks
<1> QED BY Zenon, <1>1, <1>2, <1>3, <1>4 DEF MergedAs

\* The blocks of a copy are those of its pieces.
LEMMA BlocksTyped ==
    ASSUME NEW doc, NEW side, Traced(doc, side)
    PROVE  /\ Blocks(side) \in Seq(Block) /\ Len(Blocks(side)) = Len(side)
           /\ DOMAIN Blocks(side) = DOMAIN side
           /\ \A i \in DOMAIN side : Blocks(side)[i] = side[i].block
<1>1. side \in Seq(Piece)
  BY DEF Traced
<1>2. Len(side) \in Nat /\ DOMAIN side = 1..Len(side) /\ \A i \in DOMAIN side : side[i] \in Piece
  BY <1>1
<1>3. \A piece \in Piece : piece.block \in Block
  BY DEF Piece
<1>4. Blocks(side) = [i \in 1..Len(side) |-> side[i].block]
  BY <1>2 DEF Blocks
<1>5. Blocks(side) \in [1..Len(side) -> Block]
  BY <1>2, <1>3, <1>4
<1> QED BY <1>2, <1>4, <1>5

\* The common document is both copies.
LEMMA EditingInit ==
    ASSUME Init PROVE EInv
<1>1. base \in Seq(Block) /\ Len(base) \in Nat
  BY WritersAssumption DEF Init
<1>2. ours = [i \in 1..Len(base) |-> [from |-> i, block |-> base[i]]] /\ theirs = ours
  BY <1>1 DEF Init
<1>3. ours \in [1..Len(base) -> Piece]
  BY <1>1, <1>2 DEF Piece
<1>4. ours \in Seq(Piece) /\ DOMAIN ours = 1..Len(base)
  BY <1>1, <1>3
<1>5. Traced(base, ours)
  BY <1>1, <1>2, <1>4 DEF Traced
<1> QED BY <1>1, <1>2, <1>5 DEF EInv, Init, Pending

\* Edits, merges, proposals and reviews keep the invariant.
LEMMA EditingStep ==
    ASSUME EInv, [Next]_vars
    PROVE  EInv'
<1> DEFINE Same == UNCHANGED <<base, ours, theirs>>
<1>1. ASSUME Same PROVE base' \in Seq(Block) /\ Traced(base, ours)' /\ Traced(base, theirs)'
  BY <1>1 DEF EInv, Traced
<1>2. ASSUME Same, UNCHANGED <<merged, mirrored, answer>> PROVE EInv'
  <2>1. (answer = "none" => Pending \/ MergedAs("none"))'
    BY <1>2 DEF EInv, MergedAs, Blocks, Pending
  <2> QED BY <1>1, <1>2, <2>1 DEF EInv
<1>3. CASE OursEdits
  <2>1. ours' \in Edited(ours) /\ base' = base /\ theirs' = theirs /\ Pending /\ merged' = merged
    BY <1>3 DEF OursEdits
  <2>2. Traced(base, ours')
    BY <2>1, EditedTraced DEF EInv
  <2> QED BY <2>1, <2>2 DEF EInv, Pending, Traced
<1>4. CASE TheirsEdits
  <2>1. theirs' \in Edited(theirs) /\ base' = base /\ ours' = ours /\ Pending /\ merged' = merged
    BY <1>4 DEF TheirsEdits
  <2>2. Traced(base, theirs')
    BY <2>1, EditedTraced DEF EInv
  <2> QED BY <2>1, <2>2 DEF EInv, Pending, Traced
<1>5. CASE Merge
  <2>1. Same /\ MergeBoth("none")
    BY <1>5 DEF Merge
  <2> QED BY <1>1, <2>1, BothMerged DEF EInv
<1>6. CASE MergeWithResolver
  <2>1. Same /\ MergeBoth(answer')
    BY <1>6 DEF MergeWithResolver
  <2>2. PICK with : with = answer' /\ MergeBoth(with)
    BY <2>1
  <2>3. MergedAs(with)'
    BY <2>1, <2>2, BothMerged
  <2>4. answer' = "none" => MergedAs("none")'
    BY <2>2, <2>3
  <2> QED BY <1>1, <2>1, <2>4 DEF EInv
<1>7. CASE Propose
  BY <1>2, <1>7 DEF Propose
<1>8. CASE \E inverse \in BOOLEAN : Review(inverse)
  BY <1>2, <1>8 DEF Review
<1>9. CASE Meanwhile
  BY <1>2, <1>9 DEF Meanwhile
<1>10. CASE Done \/ UNCHANGED vars
  BY <1>2, <1>10 DEF Done, vars
<1> QED BY <1>3, <1>4, <1>5, <1>6, <1>7, <1>8, <1>9, <1>10 DEF Next

\* Nothing a writer wrote is lost: in a merge without conflicts, of any two copies of any
\* document, is every text and every hint that only a copy has.
THEOREM NothingLostHolds == Spec => []NothingLost
<1>1. Init => EInv
  BY EditingInit
<1>2. EInv /\ [Next]_vars => EInv'
  BY EditingStep
<1>3. EInv => NothingLost
  <2> SUFFICES ASSUME EInv, Unasked, NEW field \in {"hint", "text"}
               PROVE  (All(Blocks(ours), field) \cup All(Blocks(theirs), field)) \ All(base, field)
                          \subseteq All(merged.value, field)
    BY DEF NothingLost
  <2> DEFINE o == Blocks(ours)
             t == Blocks(theirs)
             om == MatchSide(base, o)
             tm == MatchSide(base, t)
  <2>1. base \in Seq(Block) /\ o \in Seq(Block) /\ t \in Seq(Block)
    BY BlocksTyped DEF EInv
  <2>2. Matching(om, base, o) /\ Matching(tm, base, t)
    BY <2>1, SideMatching
  <2>3. merged = MergeAst(base, o, t, om, tm, "none") /\ merged.conflicts = {}
    BY DEF EInv, Unasked, MergedAs
  <2> HIDE DEF o, t, om, tm
  <2> QED BY <2>1, <2>2, <2>3, NewStays DEF o, t
<1> QED BY <1>1, <1>2, <1>3, PTL DEF Spec

-----------------------------------------------------------------------------
(* Blocks that were not edited *)

Places(s, v) == {i \in DOMAIN s : s[i] = v}

\* The ranks of the copies of a block are the numbers up to how many there are.
LEMMA Counted ==
    ASSUME NEW D, NEW s \in Seq(D), NEW v
    PROVE  /\ IsFiniteSet(Places(s, v)) /\ Cardinality(Places(s, v)) \in Nat
           /\ \A i \in Places(s, v) : Rank(s, i) \in 1..Cardinality(Places(s, v))
           /\ \A i, j \in Places(s, v) : Rank(s, i) = Rank(s, j) => i = j
<1>0. DOMAIN s = 1..Len(s) /\ Len(s) \in Nat
  OBVIOUS
<1>1. IsFiniteSet(1..Len(s)) /\ Places(s, v) \subseteq 1..Len(s)
  BY <1>0, FS_Interval DEF Places
<1>2. IsFiniteSet(Places(s, v)) /\ Cardinality(Places(s, v)) \in Nat
  BY <1>1, FS_Subset, FS_CardinalityType
<1>3. ASSUME NEW i \in Places(s, v)
      PROVE  Rank(s, i) \in 1..Cardinality(Places(s, v))
  <2> DEFINE R == {j \in 1..i : s[j] = s[i]}
  <2>1. R \subseteq Places(s, v) /\ i \in R
    BY <1>0 DEF Places
  <2>2. Rank(s, i) = Cardinality(R)
    BY DEF Rank
  <2> HIDE DEF R
  <2>3. IsFiniteSet(R) /\ Cardinality(R) <= Cardinality(Places(s, v)) /\ Cardinality(R) \in Nat
    BY <1>2, <2>1, FS_Subset, FS_CardinalityType
  <2>4. Cardinality(R) # 0
    BY <2>1, <2>3, FS_EmptySet
  <2> QED BY <1>2, <2>2, <2>3, <2>4
<1>4. ASSUME NEW i \in Places(s, v), NEW j \in Places(s, v), Rank(s, i) = Rank(s, j)
      PROVE  i = j
  <2>1. i \in Nat /\ j \in Nat /\ s[i] = s[j]
    BY <1>0 DEF Places
  <2>2. ~(i < j) /\ ~(j < i)
    BY <1>4, <2>1, RankGrows
  <2> QED BY <2>1, <2>2
<1> QED BY <1>2, <1>3, <1>4

\* Every number up to the last is the rank of a copy.
LEMMA RankFound ==
    ASSUME NEW D, NEW s \in Seq(D), NEW v, NEW r \in 1..Cardinality(Places(s, v))
    PROVE  \E i \in Places(s, v) : Rank(s, i) = r
<1> DEFINE P == Places(s, v)
           n == Cardinality(P)
           f == [i \in P |-> Rank(s, i)]
<1>1. n \in Nat /\ \A i \in P : Rank(s, i) \in 1..n
  BY Counted
<1>2. \A i, j \in P : Rank(s, i) = Rank(s, j) => i = j
  BY Counted
<1>3. IsFiniteSet(1..n) /\ Cardinality(1..n) = n
  BY <1>1, FS_Interval
<1> HIDE DEF P, n
<1>4. f \in Injection(P, 1..n)
  <2>1. f \in [P -> 1..n]
    BY <1>1
  <2>2. \A i \in P : f[i] = Rank(s, i)
    OBVIOUS
  <2> HIDE DEF f
  <2> QED BY <1>2, <2>1, <2>2 DEF Injection, IsInjective
<1>5. f \in Surjection(P, 1..n)
  <2>1. IsFiniteSet(P) /\ Cardinality(P) = n
    BY Counted DEF P, n
  <2> HIDE DEF f
  <2> QED BY <1>3, <1>4, <2>1, FS_Injection
<1>6. \A k \in 1..n : \E i \in P : f[i] = k
  <2> HIDE DEF f
  <2> QED BY <1>5 DEF Surjection
<1> QED BY <1>6 DEF P, n

\* A copy has a block only where the base has it.
OnlyWhereItWas(b, side, v) ==
    \A i \in DOMAIN side : side[i].block = v => side[i].from # 0 /\ b[side[i].from] = v

\* When a copy has a block only where the base has it, each of these is matched with an
\* equal one of the base.
LEMMA UneditedMatched ==
    ASSUME NEW b \in Seq(Block), NEW side, Traced(b, side), NEW v, OnlyWhereItWas(b, side, v),
           NEW k \in DOMAIN side, side[k].block = v
    PROVE  \E p \in MatchExact(b, Blocks(side)) : p[2] = k /\ b[p[1]] = v
<1> DEFINE s == Blocks(side)
           E == Places(s, v)
           F == Places(b, v)
           f == [i \in E |-> side[i].from]
<1>1. s \in Seq(Block) /\ DOMAIN s = DOMAIN side /\ \A i \in DOMAIN side : s[i] = side[i].block
  BY BlocksTyped
<1> HIDE DEF s
<1>2. k \in E /\ \A i \in E : i \in DOMAIN side /\ side[i].block = v
  BY <1>1 DEF Places
<1>3. \A i \in E : side[i].from \in F
  <2>1. Len(b) \in Nat /\ DOMAIN b = 1..Len(b)
    OBVIOUS
  <2>2. side \in Seq(Piece) /\ \A i \in DOMAIN side : side[i].from <= Len(b)
    BY DEF Traced
  <2>3. \A i \in DOMAIN side : side[i].from \in Nat
    <3>1. \A piece \in Piece : piece.from \in Nat
      BY DEF Piece
    <3>2. \A i \in DOMAIN side : side[i] \in Piece
      BY <2>2
    <3> QED BY <3>1, <3>2
  <2> QED BY <1>2, <2>1, <2>2, <2>3 DEF Places, OnlyWhereItWas
<1>4. \A i, j \in E : side[i].from = side[j].from => i = j
  BY <1>2 DEF Traced, OnlyWhereItWas
<1> HIDE DEF E, F
<1>5. f \in Injection(E, F)
  <2>1. f \in [E -> F]
    BY <1>3
  <2>2. \A i \in E : f[i] = side[i].from
    OBVIOUS
  <2> HIDE DEF f
  <2> QED BY <1>4, <2>1, <2>2 DEF Injection, IsInjective
<1>6. Cardinality(E) <= Cardinality(F) /\ Cardinality(E) \in Nat /\ Cardinality(F) \in Nat
  <2>1. IsFiniteSet(F) /\ Cardinality(F) \in Nat
    BY Counted DEF F
  <2>2. Cardinality(E) \in Nat
    BY <1>1, Counted DEF E
  <2> HIDE DEF f
  <2> QED BY <1>5, <2>1, <2>2, FS_Injection
<1>7. Rank(s, k) \in 1..Cardinality(E)
  BY <1>1, <1>2, Counted DEF E
<1>8. Rank(s, k) \in 1..Cardinality(F)
  BY <1>6, <1>7
<1>9. PICK i \in F : Rank(b, i) = Rank(s, k)
  BY <1>8, RankFound DEF F
<1>10. i \in DOMAIN b /\ b[i] = v /\ s[k] = v
  BY <1>1, <1>9 DEF F, Places
<1>11. <<i, k>> \in MatchExact(b, s)
  BY <1>1, <1>9, <1>10 DEF MatchExact
<1>12. <<i, k>>[1] = i /\ <<i, k>>[2] = k
  OBVIOUS
<1> QED BY <1>10, <1>11, <1>12 DEF s

\* The lines of a merge in which some base blocks stay, and their tokens.
OursOn(o, om, stay) == Line(OurTokens(o, om), stay)
TheirsOn(o, t, om, tm, stay) == Line(TheirTokens(o, t, om, tm), stay)
Tokens(o, t, om, tm, stay) == {p[2] : p \in OursOn(o, om, stay) \cup TheirsOn(o, t, om, tm, stay)}
Kept(stay) == {<<i, << 0, i >>>> : i \in stay}
EdgesOn(o, t, om, tm, stay) == Edges(Kept(stay), OursOn(o, om, stay), TheirsOn(o, t, om, tm, stay))

\* They are those of a merge, for what stays in it.
LEMMA LinesAre ==
    ASSUME NEW b, NEW o, NEW t, NEW om, NEW tm, NEW stay, stay = Staying(b, o, t, om, tm)
    PROVE  /\ OurLine(b, o, t, om, tm) = OursOn(o, om, stay)
           /\ TheirLine(b, o, t, om, tm) = TheirsOn(o, t, om, tm, stay)
           /\ AllTokens(b, o, t, om, tm) = Tokens(o, t, om, tm, stay)
           /\ Surviving(b, o, t, om, tm) = Kept(stay)
<1>1. /\ OurLine(b, o, t, om, tm) = OursOn(o, om, stay)
      /\ TheirLine(b, o, t, om, tm) = TheirsOn(o, t, om, tm, stay)
  BY DEF OurLine, TheirLine, OursOn, TheirsOn
<1>2. AllTokens(b, o, t, om, tm) = Tokens(o, t, om, tm, stay)
  BY Zenon, <1>1 DEF AllTokens, Tokens
<1> QED BY <1>1, <1>2 DEF Surviving, Kept

\* What a token is: a base block that stays, or an addition.
Formed(o, t, om, tm, stay, token) ==
    \/ \E i \in stay : token = << 0, i >>
    \/ \E j \in FreeSide(o, om) : token = <<1, j>>
    \/ \E k \in FreeSide(t, tm) : token = <<2, k>> /\ ~\E p \in Coincide(o, t, om, tm) : p[2] = k

\* Only what stays, and what is new, is in the lines.
LEMMA TokenForms ==
    ASSUME NEW o, NEW t, NEW om, NEW tm, OnePartner(om), OnePartner(tm), NEW stay,
           NEW token \in Tokens(o, t, om, tm, stay)
    PROVE  Formed(o, t, om, tm, stay, token)
<1>0. \A j \in DOMAIN o : \/ j \in FreeSide(o, om) /\ OurTokens(o, om)[j] = <<1, j>>
                         \/ \E p \in om : p[2] = j /\ OurTokens(o, om)[j] = << 0, p[1] >>
  BY OurToken
<1>1. PICK p \in OursOn(o, om, stay) \cup TheirsOn(o, t, om, tm, stay) : token = p[2]
  BY DEF Tokens
<1>2. CASE p \in OursOn(o, om, stay)
  <2>1. PICK j \in DOMAIN OurTokens(o, om) :
            /\ Old(OurTokens(o, om)[j]) => OurTokens(o, om)[j][2] \in stay
            /\ p = <<j, OurTokens(o, om)[j]>>
    BY <1>2 DEF OursOn, Line
  <2>2. j \in DOMAIN o /\ token = OurTokens(o, om)[j]
    BY <1>1, <2>1 DEF OurTokens
  <2>3. CASE j \in FreeSide(o, om) /\ token = <<1, j>>
    BY <2>3 DEF Formed
  <2>4. CASE \E q \in om : token = << 0, q[1] >>
    BY <2>1, <2>2, <2>4 DEF Old, Formed
  <2>5. (j \in FreeSide(o, om) /\ token = <<1, j>>) \/ \E q \in om : q[2] = j /\ token = << 0, q[1] >>
    BY <1>0, <2>2
  <2> QED BY <2>3, <2>4, <2>5
<1>3. CASE p \in TheirsOn(o, t, om, tm, stay)
  <2> DEFINE its(k) == TheirTokens(o, t, om, tm)[k]
  <2>1. PICK k \in DOMAIN TheirTokens(o, t, om, tm) :
            /\ Old(its(k)) => its(k)[2] \in stay
            /\ p = <<k, its(k)>>
    BY <1>3 DEF TheirsOn, Line
  <2>2. k \in DOMAIN t /\ token = its(k)
    BY <1>1, <2>1 DEF TheirTokens
  <2>3. \/ \E q \in tm : q[2] = k /\ its(k) = << 0, q[1] >>
        \/ /\ k \in FreeSide(t, tm)
           /\ \E q \in Coincide(o, t, om, tm) : q[2] = k /\ its(k) = <<1, q[1]>>
        \/ /\ k \in FreeSide(t, tm)
           /\ ~\E q \in Coincide(o, t, om, tm) : q[2] = k
           /\ its(k) = <<2, k>>
    BY <2>2, TheirToken
  <2> HIDE DEF its
  <2>4. CASE \E q \in tm : token = << 0, q[1] >>
    BY <2>1, <2>2, <2>4 DEF Old, Formed
  <2>5. CASE \E q \in Coincide(o, t, om, tm) : token = <<1, q[1]>>
    BY <2>5 DEF Coincide, Formed
  <2>6. CASE /\ k \in FreeSide(t, tm) /\ ~\E q \in Coincide(o, t, om, tm) : q[2] = k
             /\ token = <<2, k>>
    BY <2>6 DEF Formed
  <2>7. \/ \E q \in tm : token = << 0, q[1] >>
        \/ \E q \in Coincide(o, t, om, tm) : token = <<1, q[1]>>
        \/ /\ k \in FreeSide(t, tm) /\ ~\E q \in Coincide(o, t, om, tm) : q[2] = k
           /\ token = <<2, k>>
    BY Zenon, <2>2, <2>3
  <2> QED BY <2>4, <2>5, <2>6, <2>7
<1> QED BY <1>1, <1>2, <1>3

\* A text is in a copy only in blocks matched with equal ones of the base.
Unedited(b, side, match, text) ==
    \A j \in DOMAIN side : side[j].text = text => \E p \in match : p[2] = j /\ b[p[1]] = side[j]
Without(side, text) == \A j \in DOMAIN side : side[j].text # text

\* A text that one copy has no more, and the other only where it was, is not in the merge.
LEMMA GoneStaysGone ==
    ASSUME NEW b \in Seq(Block), NEW o \in Seq(Block), NEW t \in Seq(Block), NEW om, NEW tm,
           Matching(om, b, o), Matching(tm, b, t),
           MergeAst(b, o, t, om, tm, "none").conflicts = {},
           NEW text, Unedited(b, o, om, text), Unedited(b, t, tm, text),
           Without(o, text) \/ Without(t, text)
    PROVE  \A i \in DOMAIN MergeAst(b, o, t, om, tm, "none").value :
               MergeAst(b, o, t, om, tm, "none").value[i].text # text
<1> DEFINE value == MergeAst(b, o, t, om, tm, "none").value
           all == AllTokens(b, o, t, om, tm)
           V(token) == ValueOf(b, o, t, om, tm, token)
<1>0. /\ \A p \in om : p[1] \in DOMAIN b /\ p[2] \in DOMAIN o
      /\ \A p \in tm : p[1] \in DOMAIN b /\ p[2] \in DOMAIN t
  BY DEF Matching
<1>1. CASE Agreed(b, o, t)
  <2>1. value = Agreement(b, o, t)
    BY <1>1, CleanMerge
  <2>2. (o = b => Without(t, text)) /\ (t = b => Without(o, text))
    BY <1>0 DEF Unedited, Without
  <2>3. Without(value, text)
    <3> HIDE DEF value
    <3> QED BY <1>1, <2>1, <2>2 DEF Agreed, Agreement
  <2> HIDE DEF value
  <2> QED BY <2>3 DEF Without, value
<1>2. CASE ~Agreed(b, o, t)
  <2>1. value = Arranged(b, o, t, om, tm) /\ MergeSequence(b, o, t, om, tm, "none").conflicts = {}
    BY <1>2, CleanMerge
  <2>2. /\ \A i \in DOMAIN b : Settled(b, o, t, om, tm)[i].conflicts = {}
        /\ ToSet(Order(b, o, t, om, tm)) = all
    BY <2>1, CleanSequence
  <2>3. \A n \in DOMAIN value : \E token \in all : value[n] = V(token)
    BY <2>1, <2>2, ShownTokens
  <2>4. OnePartner(om) /\ OnePartner(tm)
    BY DEF Matching
  <2>5. ASSUME NEW i \in Staying(b, o, t, om, tm), V(<< 0, i >>).text = text
        PROVE  FALSE
    <3> DEFINE mine == At(o, om, i)
               other == At(t, tm, i)
               it == Settled(b, o, t, om, tm)[i].value
    <3>1. V(<< 0, i >>) = it /\ it # Absent /\ i \in DOMAIN b
      BY DEF ValueOf, Staying
    <3>2. \/ Agreed(b[i], mine, other) /\ it = Agreement(b[i], mine, other)
          \/ /\ ~Agreed(b[i], mine, other) /\ Absent \notin {mine, other}
             /\ Agreed(b[i].hint, mine.hint, other.hint) /\ Agreed(b[i].text, mine.text, other.text)
             /\ it = Combined(b[i], mine, other)
      BY <2>2, <3>1, SettledAs
    <3>3. Matched(om, i) => \E p \in om : p[1] = i /\ mine = o[p[2]]
      BY DEF At, Matched, PartnerOf
    <3>4. Matched(tm, i) => \E p \in tm : p[1] = i /\ other = t[p[2]]
      BY DEF At, Matched, PartnerOf
    <3>5. mine = Absent \/ (mine.text = text => mine = b[i])
      <4>1. CASE Matched(om, i)
        <5>1. PICK p \in om : p[1] = i /\ mine = o[p[2]]
          BY <3>3, <4>1
        <5>2. mine.text = text => \E q \in om : q[2] = p[2] /\ b[q[1]] = o[p[2]]
          BY <5>1, <1>0 DEF Unedited
        <5>3. \A q \in om : q[2] = p[2] => q[1] = p[1]
          BY <2>4 DEF OnePartner
        <5> HIDE DEF mine
        <5> QED BY <5>1, <5>2, <5>3
      <4>2. CASE ~Matched(om, i)
        BY <4>2 DEF At
      <4> QED BY <4>1, <4>2
    <3>6. other = Absent \/ (other.text = text => other = b[i])
      <4>1. CASE Matched(tm, i)
        <5>1. PICK p \in tm : p[1] = i /\ other = t[p[2]]
          BY <3>4, <4>1
        <5>2. other.text = text => \E q \in tm : q[2] = p[2] /\ b[q[1]] = t[p[2]]
          BY <5>1, <1>0 DEF Unedited
        <5>3. \A q \in tm : q[2] = p[2] => q[1] = p[1]
          BY <2>4 DEF OnePartner
        <5> HIDE DEF other
        <5> QED BY <5>1, <5>2, <5>3
      <4>2. CASE ~Matched(tm, i)
        BY <4>2 DEF At
      <4> QED BY <4>1, <4>2
    <3>7. \/ mine = Absent \/ mine.text # text
          \/ other = Absent \/ other.text # text
      <4>1. Without(o, text) => mine = Absent \/ mine.text # text
        BY <3>3, <1>0 DEF Without, At
      <4>2. Without(t, text) => other = Absent \/ other.text # text
        BY <3>4, <1>0 DEF Without, At
      <4> HIDE DEF mine, other
      <4> QED BY <4>1, <4>2
    <3>8. b[i] \in Block /\ Absent \notin Block
      BY <3>1, AbsentApart
    <3>9. it.text = text
      <4> HIDE DEF it
      <4> QED BY <2>5, <3>1
    <3> HIDE DEF mine, other, it
    <3>10. CASE Agreed(b[i], mine, other) /\ it = Agreement(b[i], mine, other)
      BY <3>1, <3>5, <3>6, <3>7, <3>8, <3>9, <3>10 DEF Agreed, Agreement
    <3>11. CASE /\ ~Agreed(b[i], mine, other) /\ Absent \notin {mine, other}
                /\ Agreed(b[i].hint, mine.hint, other.hint) /\ Agreed(b[i].text, mine.text, other.text)
                /\ it = Combined(b[i], mine, other)
      <4>1. it.text = Agreement(b[i].text, mine.text, other.text)
        BY <3>11 DEF Combined
      <4> QED BY <3>5, <3>6, <3>9, <3>11, <4>1 DEF Agreed, Agreement
    <3> QED BY <3>2, <3>10, <3>11
  <2>6. ASSUME NEW j \in FreeSide(o, om), V(<<1, j>>).text = text
        PROVE  FALSE
    <3>1. V(<<1, j>>) = o[j] /\ j \in DOMAIN o /\ \A p \in om : p[2] # j
      BY DEF ValueOf, FreeSide
    <3> HIDE DEF V
    <3> QED BY <3>1, <2>6 DEF Unedited
  <2>7. ASSUME NEW k \in FreeSide(t, tm), V(<<2, k>>).text = text
        PROVE  FALSE
    <3>1. V(<<2, k>>) = t[k] /\ k \in DOMAIN t /\ \A p \in tm : p[2] # k
      BY DEF ValueOf, FreeSide
    <3> HIDE DEF V
    <3> QED BY <3>1, <2>7 DEF Unedited
  <2>8. \A token \in all : V(token).text # text
    <3> SUFFICES ASSUME NEW token \in all, V(token).text = text PROVE FALSE
      OBVIOUS
    <3>1. token \in Tokens(o, t, om, tm, Staying(b, o, t, om, tm))
      BY LinesAre
    <3>2. \/ \E i \in Staying(b, o, t, om, tm) : token = << 0, i >>
          \/ \E j \in FreeSide(o, om) : token = <<1, j>>
          \/ \E k \in FreeSide(t, tm) : token = <<2, k>>
      <4>1. Formed(o, t, om, tm, Staying(b, o, t, om, tm), token)
        BY <2>4, <3>1, TokenForms
      <4> QED BY <4>1 DEF Formed
    <3> HIDE DEF V, all
    <3> QED BY <3>2, <2>5, <2>6, <2>7
  <2> HIDE DEF value, V, all
  <2> QED BY <2>3, <2>8 DEF value
<1> QED BY <1>1, <1>2

\* Nothing a writer took away comes back: a text that one copy has no more, and the other
\* only in blocks of the base that nobody edited, is not in a merge without conflicts.
THEOREM NothingBackHolds == Spec => []NothingBack
<1>1. Init => EInv
  BY EditingInit
<1>2. EInv /\ [Next]_vars => EInv'
  BY EditingStep
<1>3. EInv => NothingBack
  <2> DEFINE Left(side, text) == \A i \in DOMAIN side : side[i].block.text = text =>
                                     side[i].from # 0 /\ side[i].block = base[side[i].from]
             Gone(side, other, text) == text \notin All(Blocks(side), "text") /\ Left(other, text)
             o == Blocks(ours)
             t == Blocks(theirs)
             om == MatchSide(base, o)
             tm == MatchSide(base, t)
  <2> SUFFICES ASSUME EInv, Unasked, NEW text \in All(base, "text"),
                      Gone(ours, theirs, text) \/ Gone(theirs, ours, text)
               PROVE  text \notin All(merged.value, "text")
    BY DEF NothingBack
  <2>1. base \in Seq(Block) /\ o \in Seq(Block) /\ t \in Seq(Block)
    BY BlocksTyped DEF EInv
  <2>2. /\ Matching(om, base, o) /\ MatchExact(base, o) \subseteq om
        /\ Matching(tm, base, t) /\ MatchExact(base, t) \subseteq tm
    BY <2>1, SideMatching
  <2>3. merged = MergeAst(base, o, t, om, tm, "none") /\ merged.conflicts = {}
    BY DEF EInv, Unasked, MergedAs
  <2>4. text # Absent
    BY DEF All
  <2>5. ASSUME NEW side, Traced(base, side), text \notin All(Blocks(side), "text")
        PROVE  Without(Blocks(side), text)
    BY <2>4, <2>5 DEF All, Without
  <2>6. ASSUME NEW side, NEW match, Traced(base, side), Left(side, text),
               MatchExact(base, Blocks(side)) \subseteq match
        PROVE  Unedited(base, Blocks(side), match, text)
    <3> SUFFICES ASSUME NEW j \in DOMAIN Blocks(side), Blocks(side)[j].text = text
                 PROVE  \E p \in match : p[2] = j /\ base[p[1]] = Blocks(side)[j]
      BY DEF Unedited
    <3> DEFINE v == Blocks(side)[j]
    <3>1. j \in DOMAIN side /\ v = side[j].block /\ v.text = text
      BY <2>6, BlocksTyped
    <3> HIDE DEF v
    <3>2. \A i \in DOMAIN side : side[i].block = v => side[i].from # 0 /\ base[side[i].from] = v
      BY <2>6, <3>1
    <3>3. \E p \in MatchExact(base, Blocks(side)) : p[2] = j /\ base[p[1]] = v
      <4>1. base \in Seq(Block) /\ Traced(base, side) /\ side[j].block = v
        BY <2>1, <2>6, <3>1
      <4>2. OnlyWhereItWas(base, side, v)
        BY <3>2 DEF OnlyWhereItWas
      <4> HIDE DEF Left, Gone, o, t, om, tm
      <4> QED BY <3>1, <4>1, <4>2, UneditedMatched
    <3> QED BY <2>6, <3>3 DEF v
  <2>7. Traced(base, ours) /\ Traced(base, theirs)
    BY DEF EInv
  <2>8. \A side, match : Without(side, text) => Unedited(base, side, match, text)
    BY DEF Without, Unedited
  <2>9. /\ Unedited(base, o, om, text) /\ Unedited(base, t, tm, text)
        /\ Without(o, text) \/ Without(t, text)
    <3>1. CASE Gone(ours, theirs, text)
      BY <2>2, <2>5, <2>6, <2>7, <2>8, <3>1
    <3>2. CASE Gone(theirs, ours, text)
      BY <2>2, <2>5, <2>6, <2>7, <2>8, <3>2
    <3> QED BY <3>1, <3>2
  <2> HIDE DEF o, t, om, tm
  <2>10. \A i \in DOMAIN merged.value : merged.value[i].text # text
    BY <2>1, <2>2, <2>3, <2>9, GoneStaysGone
  <2> QED BY <2>10 DEF All
<1> QED BY <1>1, <1>2, <1>3, PTL DEF Spec

-----------------------------------------------------------------------------
(* Sorting *)

Ready(rest, edges) == {x \in rest : \A e \in edges : e[2] = x => e[1] \notin rest}
Sorting(order, rest, edges) ==
    IF Ready(rest, edges) = {} THEN << >>
    ELSE <<Least(Ready(rest, edges))>> \o order[rest \ {Least(Ready(rest, edges))}]

\* Of some tokens one is the least.
LEMMA LeastToken ==
    ASSUME NEW S \in SUBSET (Nat \X Nat), S # {}
    PROVE  Least(S) \in S
<1> DEFINE firsts == {x[1] : x \in S}
<1>1. \A x \in S : x[1] \in Nat /\ x[2] \in Nat /\ x = <<x[1], x[2]>>
  OBVIOUS
<1>2. firsts \in SUBSET Nat /\ firsts # {}
  BY <1>1
<1>3. PICK a \in firsts : \A i \in firsts : a <= i
  <2> HIDE DEF firsts
  <2> QED BY <1>2, LeastExists
<1> DEFINE seconds == {x[2] : x \in {y \in S : y[1] = a}}
<1>4. seconds \in SUBSET Nat /\ seconds # {}
  BY <1>1, <1>3
<1>5. PICK c \in seconds : \A i \in seconds : c <= i
  <2> HIDE DEF seconds, firsts
  <2> QED BY <1>4, LeastExists
<1>6. PICK t \in S : t[1] = a /\ t[2] = c
  BY <1>5
<1>7. \A u \in S : t[1] < u[1] \/ (t[1] = u[1] /\ t[2] <= u[2])
  <2> TAKE u \in S
  <2>1. u[1] \in firsts /\ a \in Nat /\ u[1] \in Nat
    BY <1>1, <1>3
  <2>2. u[1] = a => u[2] \in seconds
    OBVIOUS
  <2> HIDE DEF firsts, seconds
  <2> QED BY <1>3, <1>5, <1>6, <2>1, <2>2
<1> QED BY <1>6, <1>7 DEF Least

\* The sorting of finitely many tokens ends.
LEMMA SortExists ==
    ASSUME NEW all \in SUBSET (Nat \X Nat), IsFiniteSet(all), NEW edges
    PROVE  \E order : order = [rest \in SUBSET all |-> Sorting(order, rest, edges)]
<1> DEFINE Upto(k) == {rest \in SUBSET all : Cardinality(rest) <= k}
           To(k) == \E order : order = [rest \in Upto(k) |-> Sorting(order, rest, edges)]
           S == {k \in Nat : To(k)}
<1>1. \A rest \in SUBSET all : IsFiniteSet(rest) /\ Cardinality(rest) \in Nat
                                  /\ Cardinality(rest) <= Cardinality(all)
  BY FS_Subset, FS_CardinalityType
<1>2. \A rest \in SUBSET all : Ready(rest, edges) # {} => Least(Ready(rest, edges)) \in rest
  <2> SUFFICES ASSUME NEW rest \in SUBSET all, Ready(rest, edges) # {}
               PROVE  Least(Ready(rest, edges)) \in rest
    OBVIOUS
  <2>1. Ready(rest, edges) \subseteq rest
    BY DEF Ready
  <2>2. Ready(rest, edges) \in SUBSET (Nat \X Nat)
    BY <2>1
  <2> QED BY <2>1, <2>2, LeastToken
<1>3. ASSUME NEW rest \in SUBSET all, NEW v, NEW w, NEW k \in Nat, Cardinality(rest) <= k + 1,
             \A other \in Upto(k) : v[other] = w[other]
      PROVE  Sorting(v, rest, edges) = Sorting(w, rest, edges)
  <2>1. CASE Ready(rest, edges) = {}
    BY <2>1 DEF Sorting
  <2>2. CASE Ready(rest, edges) # {}
    <3> DEFINE x == Least(Ready(rest, edges))
    <3>1. x \in rest
      BY <1>2, <2>2
    <3> HIDE DEF x
    <3>2. Cardinality(rest \ {x}) = Cardinality(rest) - 1
      BY <1>1, <3>1, FS_RemoveElement
    <3>3. rest \ {x} \in Upto(k)
      BY <1>1, <1>3, <3>2
    <3>4. v[rest \ {x}] = w[rest \ {x}]
      BY <1>3, <3>3
    <3> QED BY <3>4 DEF Sorting, x
  <2> QED BY <2>1, <2>2
<1>4. 0 \in S
  <2> DEFINE w == [rest \in Upto(0) |-> << >>]
  <2>1. \A rest \in Upto(0) : rest = {}
    BY <1>1, FS_EmptySet
  <2>2. \A rest \in Upto(0) : Sorting(w, rest, edges) = << >>
    <3> HIDE DEF w
    <3> QED BY <2>1 DEF Sorting, Ready
  <2>3. w = [rest \in Upto(0) |-> Sorting(w, rest, edges)]
    BY <2>2
  <2> HIDE DEF w, Upto
  <2>4. To(0)
    BY <2>3
  <2> QED BY <2>4
<1>5. ASSUME NEW k \in Nat, k \in S PROVE k + 1 \in S
  <2>1. PICK v : v = [rest \in Upto(k) |-> Sorting(v, rest, edges)]
    BY <1>5
  <2> DEFINE w == [rest \in Upto(k + 1) |-> Sorting(v, rest, edges)]
  <2>2. Upto(k) \subseteq Upto(k + 1)
    BY <1>1
  <2>3. \A rest \in Upto(k) : v[rest] = w[rest]
    BY <2>1, <2>2
  <2>4. \A rest \in Upto(k + 1) : Sorting(v, rest, edges) = Sorting(w, rest, edges)
    <3> HIDE DEF w
    <3> QED BY <1>3, <2>3
  <2>5. w = [rest \in Upto(k + 1) |-> Sorting(w, rest, edges)]
    BY <2>4
  <2> HIDE DEF w, Upto
  <2> QED BY <2>5
<1>6. Cardinality(all) \in S
  <2>1. Cardinality(all) \in Nat
    BY FS_CardinalityType
  <2> HIDE DEF S
  <2> QED BY <1>4, <1>5, <2>1, Climb
<1>7. Upto(Cardinality(all)) = SUBSET all
  BY <1>1
<1> QED BY <1>6, <1>7

\* Tokens that all wait for one another.
Stuck(S, edges) == S # {} /\ \A x \in S : \E e \in edges : e[2] = x /\ e[1] \in S

\* A sequence without repetition of tokens of a set, each after those that have an edge to
\* it, with what waits left out.
Enumerates(s, all, edges) ==
    /\ s \in Seq(all)
    /\ \A m, n \in DOMAIN s : s[m] = s[n] => m = n
    /\ \A n \in DOMAIN s : \A e \in edges :
           e[2] = s[n] /\ e[1] \in all => \E m \in DOMAIN s : m < n /\ s[m] = e[1]
    /\ ToSet(s) # all => \E S \in SUBSET all : Stuck(S, edges)

\* One token more in front.
LEMMA EnumerateNext ==
    ASSUME NEW rest, NEW edges, NEW x \in Ready(rest, edges), NEW s,
           Enumerates(s, rest \ {x}, edges)
    PROVE  Enumerates(<<x>> \o s, rest, edges)
<1> DEFINE r == <<x>> \o s
<1>0. x \in rest /\ \A e \in edges : e[2] = x => e[1] \notin rest
  BY DEF Ready
<1>1. s \in Seq(rest \ {x}) /\ s \in Seq(rest) /\ Len(s) \in Nat /\ DOMAIN s = 1..Len(s)
  <2>1. s \in Seq(rest \ {x})
    BY DEF Enumerates
  <2>2. \A i \in 1..Len(s) : s[i] \in rest
    BY <2>1
  <2> QED BY <2>1, <2>2
<1>2. <<x>> \in Seq(rest) /\ Len(<<x>>) = 1 /\ <<x>>[1] = x
  BY <1>0
<1>3. r \in Seq(rest) /\ Len(r) = Len(s) + 1 /\ r[1] = x /\ \A i \in 1..Len(s) : r[i + 1] = s[i]
  BY <1>1, <1>2
<1>4. DOMAIN r = 1..(Len(s) + 1)
  BY <1>1, <1>3
<1> HIDE DEF r
<1>5. \A n \in DOMAIN r : n = 1 \/ (n - 1 \in DOMAIN s /\ r[n] = s[n - 1] /\ n > 1)
  <2> TAKE n \in DOMAIN r
  <2>1. n \in 1..(Len(s) + 1)
    BY <1>4
  <2>2. n # 1 => n - 1 \in 1..Len(s) /\ (n - 1) + 1 = n
    BY <1>1, <2>1
  <2>3. n # 1 => r[(n - 1) + 1] = s[n - 1]
    BY <1>3, <2>2
  <2> QED BY <1>1, <2>1, <2>2, <2>3
<1>6. \A n \in DOMAIN s : s[n] \in rest \ {x}
  BY <1>1
<1>7. \A m, n \in DOMAIN r : r[m] = r[n] => m = n
  <2> SUFFICES ASSUME NEW m \in DOMAIN r, NEW n \in DOMAIN r, r[m] = r[n] PROVE m = n
    OBVIOUS
  <2>1. m \in Nat /\ n \in Nat
    BY <1>1, <1>4
  <2>2. m # 1 /\ n # 1 => m - 1 = n - 1
    BY <1>5 DEF Enumerates
  <2> QED BY <1>3, <1>5, <1>6, <2>1, <2>2
<1>8. ASSUME NEW n \in DOMAIN r, NEW e \in edges, e[2] = r[n], e[1] \in rest
      PROVE  \E m \in DOMAIN r : m < n /\ r[m] = e[1]
  <2>1. n # 1
    BY <1>0, <1>3, <1>8
  <2>2. n - 1 \in DOMAIN s /\ r[n] = s[n - 1] /\ n > 1 /\ n \in Nat
    BY <1>1, <1>4, <1>5, <2>1
  <2>3. 1 \in DOMAIN r
    BY <1>1, <1>4
  <2>4. CASE e[1] = x
    BY <1>3, <2>2, <2>3, <2>4
  <2>5. CASE e[1] # x
    <3>1. PICK m \in DOMAIN s : m < n - 1 /\ s[m] = e[1]
      BY <1>8, <2>2, <2>5 DEF Enumerates
    <3>2. m + 1 \in DOMAIN r /\ m + 1 < n /\ r[m + 1] = e[1]
      BY <1>1, <1>3, <1>4, <2>2, <3>1
    <3> QED BY <3>2
  <2> QED BY <2>4, <2>5
<1>9. ASSUME ToSet(r) # rest PROVE \E S \in SUBSET rest : Stuck(S, edges)
  <2>1. ToSet(s) # rest \ {x}
    <3> SUFFICES ASSUME ToSet(s) = rest \ {x} PROVE FALSE
      OBVIOUS
    <3>1. \A y \in rest : \E n \in DOMAIN r : r[n] = y
      <4> SUFFICES ASSUME NEW y \in rest PROVE \E n \in DOMAIN r : r[n] = y
        OBVIOUS
      <4>1. CASE y = x
        BY <1>1, <1>3, <1>4, <4>1
      <4>2. CASE y # x
        <5>1. PICK n \in DOMAIN s : s[n] = y
          BY <4>2 DEF ToSet
        <5>2. n + 1 \in DOMAIN r /\ r[n + 1] = y
          BY <1>1, <1>3, <1>4, <5>1
        <5> QED BY <5>2
      <4> QED BY <4>1, <4>2
    <3>2. \A n \in DOMAIN r : r[n] \in rest
      BY <1>3
    <3> QED BY <1>9, <3>1, <3>2 DEF ToSet
  <2> QED BY <2>1 DEF Enumerates
<1> QED BY <1>3, <1>7, <1>8, <1>9 DEF Enumerates, r

\* What the sorting yields.
LEMMA SortedAs ==
    ASSUME NEW all \in SUBSET (Nat \X Nat), IsFiniteSet(all), NEW edges
    PROVE  Enumerates(Sorted(all, edges), all, edges)
<1> DEFINE order == CHOOSE order : order = [rest \in SUBSET all |-> Sorting(order, rest, edges)]
           S == {k \in Nat : \A rest \in SUBSET all :
                                Cardinality(rest) <= k => Enumerates(order[rest], rest, edges)}
<1>1. order = [rest \in SUBSET all |-> Sorting(order, rest, edges)]
  BY SortExists
<1>2. Sorted(all, edges) = order[all]
  BY Zenon DEF Sorted, Sorting, Ready
<1>3. \A rest \in SUBSET all : order[rest] = Sorting(order, rest, edges)
  BY <1>1
<1> HIDE DEF order
<1>4. \A rest \in SUBSET all : IsFiniteSet(rest) /\ Cardinality(rest) \in Nat
  BY FS_Subset, FS_CardinalityType
<1>5. ASSUME NEW rest \in SUBSET all, Ready(rest, edges) = {}
      PROVE  Enumerates(order[rest], rest, edges)
  <2>1. order[rest] = << >>
    BY <1>3, <1>5 DEF Sorting
  <2>2. rest # {} => Stuck(rest, edges)
    BY <1>5 DEF Ready, Stuck
  <2>3. << >> \in Seq(rest) /\ DOMAIN << >> = {} /\ ToSet(<< >>) = {}
    BY DEF ToSet
  <2> QED BY <2>1, <2>2, <2>3 DEF Enumerates
<1>6. 0 \in S
  <2> SUFFICES ASSUME NEW rest \in SUBSET all, Cardinality(rest) <= 0
               PROVE  Enumerates(order[rest], rest, edges)
    OBVIOUS
  <2>1. rest = {}
    BY <1>4, FS_EmptySet
  <2> QED BY <1>5, <2>1 DEF Ready
<1>7. ASSUME NEW k \in Nat, k \in S PROVE k + 1 \in S
  <2> SUFFICES ASSUME NEW rest \in SUBSET all, Cardinality(rest) <= k + 1, Ready(rest, edges) # {}
               PROVE  Enumerates(order[rest], rest, edges)
    BY <1>5
  <2> DEFINE x == Least(Ready(rest, edges))
  <2>1. x \in Ready(rest, edges) /\ x \in rest
    <3>1. Ready(rest, edges) \in SUBSET (Nat \X Nat) /\ Ready(rest, edges) \subseteq rest
      BY DEF Ready
    <3> QED BY <3>1, LeastToken
  <2>2. order[rest] = <<x>> \o order[rest \ {x}]
    BY <1>3 DEF Sorting
  <2> HIDE DEF x
  <2>3. Cardinality(rest \ {x}) = Cardinality(rest) - 1
    BY <1>4, <2>1, FS_RemoveElement
  <2>4. Cardinality(rest \ {x}) <= k
    BY <1>4, <2>3
  <2>5. Enumerates(order[rest \ {x}], rest \ {x}, edges)
    BY <1>7, <2>4
  <2> DEFINE after == order[rest \ {x}]
  <2>6. Enumerates(after, rest \ {x}, edges) /\ order[rest] = <<x>> \o after
    BY <2>2, <2>5
  <2> HIDE DEF after
  <2>7. Enumerates(<<x>> \o after, rest, edges)
    BY <2>1, <2>6, EnumerateNext
  <2> QED BY <2>6, <2>7
<1>8. Cardinality(all) \in S
  <2>1. Cardinality(all) \in Nat
    BY FS_CardinalityType
  <2> HIDE DEF S
  <2> QED BY <1>6, <1>7, <2>1, Climb
<1> QED BY <1>2, <1>8, <1>4

\* Tokens that wait for one another are never sorted.
LEMMA SortedWhole ==
    ASSUME NEW s, NEW all, NEW edges, Enumerates(s, all, edges)
    PROVE  ToSet(s) # all <=> \E S \in SUBSET all : Stuck(S, edges)
<1> SUFFICES ASSUME ToSet(s) = all, NEW S \in SUBSET all, Stuck(S, edges) PROVE FALSE
  BY DEF Enumerates
<1> DEFINE P == {n \in DOMAIN s : s[n] \in S}
<1>1. s \in Seq(all) /\ DOMAIN s \subseteq Nat
  BY DEF Enumerates
<1>2. P # {} /\ P \in SUBSET Nat
  BY <1>1 DEF Stuck, ToSet
<1>3. PICK n \in P : \A m \in P : n <= m
  <2> HIDE DEF P
  <2> QED BY <1>2, LeastExists
<1>4. PICK e \in edges : e[2] = s[n] /\ e[1] \in S
  BY <1>3 DEF Stuck
<1>5. PICK m \in DOMAIN s : m < n /\ s[m] = e[1]
  BY <1>3, <1>4 DEF Enumerates
<1> QED BY <1>1, <1>3, <1>4, <1>5

\* A line whose windows are all edges is kept in its order.
LEMMA ChainKept ==
    ASSUME NEW line, \A p \in line : p[1] \in Nat,
           NEW s, NEW all, NEW edges, Enumerates(s, all, edges), ToSet(s) = all,
           \A p \in line : p[2] \in all,
           Pairs(line, TRUE) \subseteq edges
    PROVE  \A p, q \in line : \A m, n \in DOMAIN s :
               p[1] < q[1] /\ s[m] = p[2] /\ s[n] = q[2] => m < n
<1> DEFINE Upheld(p, q) == \A m, n \in DOMAIN s : s[m] = p[2] /\ s[n] = q[2] => m < n
           S == {k \in Nat : \A p, q \in line : p[1] < q[1] /\ q[1] <= p[1] + k => Upheld(p, q)}
<1>0. DOMAIN s \subseteq Nat
  BY DEF Enumerates
<1>1. 0 \in S
  OBVIOUS
<1>2. ASSUME NEW k \in Nat, k \in S PROVE k + 1 \in S
  <2> SUFFICES ASSUME NEW p \in line, NEW q \in line, p[1] < q[1], q[1] <= p[1] + (k + 1),
                      NEW m \in DOMAIN s, NEW n \in DOMAIN s, s[m] = p[2], s[n] = q[2]
               PROVE  m < n
    OBVIOUS
  <2>1. CASE \A r \in line : r[1] <= p[1] \/ q[1] <= r[1]
    <3>1. <<p[2], q[2]>> \in Pairs(line, TRUE)
      <4> DEFINE w == <<p, q>>
      <4>1. w \in line \X line /\ w[1] = p /\ w[2] = q
        OBVIOUS
      <4> HIDE DEF w
      <4>2. /\ w[1][1] < w[2][1]
            /\ \A r \in line : r[1] <= w[1][1] \/ w[2][1] <= r[1]
            /\ TRUE \/ ~Old(w[1][2]) \/ ~Old(w[2][2])
        BY <2>1, <4>1
      <4>3. <<w[1][2], w[2][2]>> \in Pairs(line, TRUE)
        BY Zenon, <4>1, <4>2 DEF Pairs
      <4> QED BY <4>1, <4>3
    <3>2. PICK e \in edges : e[1] = p[2] /\ e[2] = q[2]
      BY <3>1
    <3>3. PICK i \in DOMAIN s : i < n /\ s[i] = p[2]
      BY <3>2 DEF Enumerates
    <3>4. i = m
      BY <3>3 DEF Enumerates
    <3> QED BY <3>3, <3>4
  <2>2. CASE \E r \in line : ~(r[1] <= p[1] \/ q[1] <= r[1])
    <3>1. PICK r \in line : ~(r[1] <= p[1] \/ q[1] <= r[1])
      BY <2>2
    <3>2. p[1] < r[1] /\ r[1] <= p[1] + k /\ r[1] < q[1] /\ q[1] <= r[1] + k
      BY <3>1
    <3>3. Upheld(p, r) /\ Upheld(r, q)
      BY <1>2, <3>2
    <3>4. PICK i \in DOMAIN s : s[i] = r[2]
      BY DEF ToSet
    <3>5. m < i /\ i < n
      BY <3>3, <3>4
    <3> QED BY <1>0, <3>5
  <2> QED BY <2>1, <2>2
<1>3. Nat \subseteq S
  <2> HIDE DEF S
  <2> QED BY <1>1, <1>2, Climb
<1> SUFFICES ASSUME NEW p \in line, NEW q \in line, p[1] < q[1] PROVE Upheld(p, q)
  OBVIOUS
<1>4. q[1] - p[1] \in Nat /\ q[1] <= p[1] + (q[1] - p[1])
  OBVIOUS
<1>5. q[1] - p[1] \in S
  BY <1>3, <1>4
<1> QED BY <1>4, <1>5

\* A block that a document has once has one place and the first rank.
LEMMA Once ==
    ASSUME NEW s, DOMAIN s \in SUBSET Nat, IsFiniteSet(DOMAIN s), NEW v, Copies(s, v) = 1
    PROVE  /\ PlaceOf(s, v) \in DOMAIN s /\ s[PlaceOf(s, v)] = v
           /\ \A i \in DOMAIN s : s[i] = v => i = PlaceOf(s, v)
<1> DEFINE P == {i \in DOMAIN s : s[i] = v}
<1>1. IsFiniteSet(P) /\ Cardinality(P) = 1
  BY FS_Subset DEF Copies
<1>2. PICK i : P = {i}
  BY <1>1, FS_Singleton
<1>3. i \in DOMAIN s /\ s[i] = v /\ \A j \in DOMAIN s : s[j] = v => j = i
  BY <1>2
<1> QED BY <1>3 DEF PlaceOf

\* The only copies of a block are matched.
LEMMA OnceMatched ==
    ASSUME NEW b \in Seq(Block), NEW side \in Seq(Block), NEW v,
           Copies(b, v) = 1, Copies(side, v) = 1
    PROVE  <<PlaceOf(b, v), PlaceOf(side, v)>> \in MatchExact(b, side)
<1>1. ASSUME NEW s \in Seq(Block), Copies(s, v) = 1
      PROVE  PlaceOf(s, v) \in DOMAIN s /\ s[PlaceOf(s, v)] = v /\ Rank(s, PlaceOf(s, v)) = 1
  <2>1. DOMAIN s = 1..Len(s) /\ Len(s) \in Nat
    OBVIOUS
  <2>2. DOMAIN s \in SUBSET Nat /\ IsFiniteSet(DOMAIN s)
    BY <2>1, FS_Interval
  <2>3. PlaceOf(s, v) \in DOMAIN s /\ s[PlaceOf(s, v)] = v
    BY <1>1, <2>2, Once
  <2>4. Cardinality(Places(s, v)) = 1 /\ PlaceOf(s, v) \in Places(s, v)
    BY <1>1, <2>3 DEF Copies, Places
  <2>5. Rank(s, PlaceOf(s, v)) \in 1..1
    BY <2>4, Counted
  <2> QED BY <2>3, <2>5
<1>2. /\ PlaceOf(b, v) \in DOMAIN b /\ b[PlaceOf(b, v)] = v /\ Rank(b, PlaceOf(b, v)) = 1
      /\ PlaceOf(side, v) \in DOMAIN side /\ side[PlaceOf(side, v)] = v /\ Rank(side, PlaceOf(side, v)) = 1
  BY <1>1
<1> QED BY <1>2 DEF MatchExact

\* There are finitely many tokens, and they are pairs of numbers.
LEMMA TokensFinite ==
    ASSUME NEW b \in Seq(Block), NEW o \in Seq(Block), NEW t \in Seq(Block),
           NEW om, NEW tm, OnePartner(om), OnePartner(tm), NEW stay \in SUBSET DOMAIN b
    PROVE  Tokens(o, t, om, tm, stay) \in SUBSET (Nat \X Nat) /\ IsFiniteSet(Tokens(o, t, om, tm, stay))
<1> DEFINE all == Tokens(o, t, om, tm, stay)
           m == Len(b) + Len(o) + Len(t)
           pairs == (0..2) \X (1..m)
<1>1. /\ Len(b) \in Nat /\ DOMAIN b = 1..Len(b) /\ Len(o) \in Nat /\ DOMAIN o = 1..Len(o)
      /\ Len(t) \in Nat /\ DOMAIN t = 1..Len(t)
  OBVIOUS
<1>2. m \in Nat /\ \A n \in DOMAIN b \cup DOMAIN o \cup DOMAIN t : n \in 1..m
  BY <1>1
<1>3. ASSUME NEW token \in all PROVE token \in pairs
  <2>1. \/ \E i \in stay : token = << 0, i >>
        \/ \E j \in FreeSide(o, om) : token = <<1, j>>
        \/ \E k \in FreeSide(t, tm) : token = <<2, k>>
    <3>1. Formed(o, t, om, tm, stay, token)
      BY TokenForms
    <3> QED BY <3>1 DEF Formed
  <2>2. FreeSide(o, om) \subseteq DOMAIN o /\ FreeSide(t, tm) \subseteq DOMAIN t
    BY DEF FreeSide
  <2> HIDE DEF m
  <2> QED BY <1>2, <2>1, <2>2
<1>4. IsFiniteSet(0..2) /\ IsFiniteSet(1..m)
  <2>1. 0 \in Int /\ 1 \in Int /\ 2 \in Int /\ m \in Int
    BY <1>2
  <2> HIDE DEF m
  <2> QED BY <2>1, FS_Interval
<1>5. IsFiniteSet(pairs)
  <2> HIDE DEF m
  <2> QED BY <1>4, FS_Product
<1> HIDE DEF all
<1>6. all \subseteq pairs /\ pairs \subseteq Nat \X Nat
  BY <1>2, <1>3
<1> QED
  <2> HIDE DEF pairs
  <2>1. IsFiniteSet(all)
    BY <1>5, <1>6, FS_Subset
  <2> QED BY <1>6, <2>1 DEF all

\* The tokens of a merge without conflicts, in their order.
LEMMA Ordered ==
    ASSUME NEW b \in Seq(Block), NEW o \in Seq(Block), NEW t \in Seq(Block),
           NEW om, NEW tm, OnePartner(om), OnePartner(tm)
    PROVE  Enumerates(Order(b, o, t, om, tm), AllTokens(b, o, t, om, tm),
                      Edges(Surviving(b, o, t, om, tm), OurLine(b, o, t, om, tm), TheirLine(b, o, t, om, tm)))
<1> DEFINE stay == Staying(b, o, t, om, tm)
           all == AllTokens(b, o, t, om, tm)
<1>1. stay \in SUBSET DOMAIN b
  BY DEF Staying
<1>2. all = Tokens(o, t, om, tm, stay)
  BY LinesAre
<1> HIDE DEF stay, all
<1>3. all \in SUBSET (Nat \X Nat) /\ IsFiniteSet(all)
  BY <1>1, <1>2, TokensFinite
<1> QED BY <1>3, SortedAs DEF Order, all

\* Where a block is that each document has once: on both lines, with its token.
Placed(b, o, t, om, tm, v) ==
    LET token == << 0, PlaceOf(b, v) >>
        order == Order(b, o, t, om, tm)
    IN  /\ PlaceOf(b, v) \in DOMAIN b /\ b[PlaceOf(b, v)] = v
        /\ PlaceOf(o, v) \in DOMAIN o /\ o[PlaceOf(o, v)] = v
        /\ PlaceOf(t, v) \in DOMAIN t /\ t[PlaceOf(t, v)] = v
        /\ <<PlaceOf(b, v), token>> \in Surviving(b, o, t, om, tm)
        /\ <<PlaceOf(o, v), token>> \in OurLine(b, o, t, om, tm)
        /\ \A p \in OurLine(b, o, t, om, tm) : p[2] = token => p[1] = PlaceOf(o, v)
        /\ <<PlaceOf(t, v), token>> \in TheirLine(b, o, t, om, tm)
        /\ \A p \in TheirLine(b, o, t, om, tm) : p[2] = token => p[1] = PlaceOf(t, v)
        /\ PlaceOf(Arranged(b, o, t, om, tm), v) \in DOMAIN order
        /\ order[PlaceOf(Arranged(b, o, t, om, tm), v)] = token

\* A base block on our line is at the place of its partner.
LEMMA OurPlace ==
    ASSUME NEW b, NEW o, NEW t, NEW om, NEW tm, OnePartner(om), NEW i, NEW j \in DOMAIN o,
           <<i, j>> \in om, i \in Staying(b, o, t, om, tm)
    PROVE  /\ <<j, << 0, i >>>> \in OurLine(b, o, t, om, tm)
           /\ \A p \in OurLine(b, o, t, om, tm) : p[2] = << 0, i >> => p[1] = j
<1> DEFINE tokens == OurTokens(o, om)
           staying == Staying(b, o, t, om, tm)
<1>1. DOMAIN tokens = DOMAIN o
  BY DEF OurTokens
<1>2. \A q \in om : q[1] = i <=> q[2] = j
  <2>1. <<i, j>>[1] = i /\ <<i, j>>[2] = j
    OBVIOUS
  <2> QED BY <2>1 DEF OnePartner
<1>3. ASSUME NEW n \in DOMAIN o, NEW q \in om, q[2] = n
      PROVE  tokens[n] = << 0, q[1] >>
  <2>1. n \notin FreeSide(o, om)
    BY <1>3 DEF FreeSide
  <2>2. \E p \in om : p[2] = n /\ tokens[n] = << 0, p[1] >>
    BY <2>1, OurToken
  <2> QED BY <1>3, <2>2 DEF OnePartner
<1>4. ASSUME NEW n \in DOMAIN o, tokens[n] = << 0, i >>
      PROVE  n = j
  <2>1. ~(tokens[n] = <<1, n>>)
    BY <1>4
  <2>2. PICK p \in om : p[2] = n /\ tokens[n] = << 0, p[1] >>
    BY <2>1, OurToken
  <2>3. p[1] = i
    BY <1>4, <2>2
  <2> QED BY <1>2, <2>2, <2>3
<1>5. tokens[j] = << 0, i >>
  <2>1. <<i, j>>[1] = i /\ <<i, j>>[2] = j
    OBVIOUS
  <2> QED BY <1>3, <2>1
<1>6. OurLine(b, o, t, om, tm) =
          {<<n, tokens[n]>> : n \in {m \in DOMAIN tokens : Old(tokens[m]) => tokens[m][2] \in staying}}
  BY DEF OurLine, Line
<1> HIDE DEF tokens, staying
<1>7. <<j, << 0, i >>>> \in OurLine(b, o, t, om, tm)
  <2>1. j \in DOMAIN tokens /\ tokens[j][2] \in staying
    BY <1>1, <1>5 DEF staying
  <2>2. <<j, tokens[j]>> \in OurLine(b, o, t, om, tm)
    BY <1>6, <2>1
  <2> QED BY <1>5, <2>2
<1>8. ASSUME NEW p \in OurLine(b, o, t, om, tm), p[2] = << 0, i >>
      PROVE  p[1] = j
  <2>1. PICK n \in DOMAIN tokens : p = <<n, tokens[n]>>
    BY <1>6
  <2> QED BY <1>1, <1>4, <1>8, <2>1
<1> QED BY <1>7, <1>8

\* And so on theirs.
LEMMA TheirPlace ==
    ASSUME NEW b, NEW o, NEW t, NEW om, NEW tm, OnePartner(tm), NEW i, NEW k \in DOMAIN t,
           <<i, k>> \in tm, i \in Staying(b, o, t, om, tm)
    PROVE  /\ <<k, << 0, i >>>> \in TheirLine(b, o, t, om, tm)
           /\ \A p \in TheirLine(b, o, t, om, tm) : p[2] = << 0, i >> => p[1] = k
<1> DEFINE tokens == TheirTokens(o, t, om, tm)
           staying == Staying(b, o, t, om, tm)
<1>1. DOMAIN tokens = DOMAIN t
  BY DEF TheirTokens
<1>2. \A q \in tm : q[1] = i <=> q[2] = k
  <2>1. <<i, k>>[1] = i /\ <<i, k>>[2] = k
    OBVIOUS
  <2> QED BY <2>1 DEF OnePartner
<1>3. ASSUME NEW n \in DOMAIN t
      PROVE  \/ \E q \in tm : q[2] = n /\ tokens[n] = << 0, q[1] >>
             \/ n \in FreeSide(t, tm) /\ \E m : tokens[n] = <<1, m>> \/ tokens[n] = <<2, m>>
  <2>1. \/ \E q \in tm : q[2] = n /\ tokens[n] = << 0, q[1] >>
        \/ /\ n \in FreeSide(t, tm)
           /\ \E q \in Coincide(o, t, om, tm) : q[2] = n /\ tokens[n] = <<1, q[1]>>
        \/ /\ n \in FreeSide(t, tm)
           /\ ~\E q \in Coincide(o, t, om, tm) : q[2] = n
           /\ tokens[n] = <<2, n>>
    BY TheirToken
  <2> HIDE DEF tokens
  <2> QED BY <2>1
<1>4. ASSUME NEW n \in DOMAIN t, tokens[n] = << 0, i >>
      PROVE  n = k
  <2>1. ~\E m : tokens[n] = <<1, m>> \/ tokens[n] = <<2, m>>
    BY <1>4
  <2>2. PICK p \in tm : p[2] = n /\ tokens[n] = << 0, p[1] >>
    BY <1>3, <2>1
  <2>3. p[1] = i
    BY <1>4, <2>2
  <2> QED BY <1>2, <2>2, <2>3
<1>5. tokens[k] = << 0, i >>
  <2>1. <<i, k>>[1] = i /\ <<i, k>>[2] = k
    OBVIOUS
  <2>2. k \notin FreeSide(t, tm)
    BY <2>1 DEF FreeSide
  <2>3. PICK q \in tm : q[2] = k /\ tokens[k] = << 0, q[1] >>
    BY <1>3, <2>2
  <2> QED BY <1>2, <2>3
<1>6. TheirLine(b, o, t, om, tm) =
          {<<n, tokens[n]>> : n \in {m \in DOMAIN tokens : Old(tokens[m]) => tokens[m][2] \in staying}}
  BY DEF TheirLine, Line
<1> HIDE DEF tokens, staying
<1>7. <<k, << 0, i >>>> \in TheirLine(b, o, t, om, tm)
  <2>1. k \in DOMAIN tokens /\ tokens[k][2] \in staying
    BY <1>1, <1>5 DEF staying
  <2>2. <<k, tokens[k]>> \in TheirLine(b, o, t, om, tm)
    BY <1>6, <2>1
  <2> QED BY <1>5, <2>2
<1>8. ASSUME NEW p \in TheirLine(b, o, t, om, tm), p[2] = << 0, i >>
      PROVE  p[1] = k
  <2>1. PICK n \in DOMAIN tokens : p = <<n, tokens[n]>>
    BY <1>6
  <2> QED BY <1>1, <1>4, <1>8, <2>1
<1> QED BY <1>7, <1>8

\* A block that every document has once keeps its token.
LEMMA OncePlaced ==
    ASSUME NEW b \in Seq(Block), NEW o \in Seq(Block), NEW t \in Seq(Block),
           NEW om, NEW tm, OnePartner(om), OnePartner(tm),
           MatchExact(b, o) \subseteq om, MatchExact(b, t) \subseteq tm,
           MergeSequence(b, o, t, om, tm, "none").conflicts = {},
           NEW v, Copies(b, v) = 1, Copies(o, v) = 1, Copies(t, v) = 1,
           Copies(Arranged(b, o, t, om, tm), v) = 1
    PROVE  Placed(b, o, t, om, tm, v)
<1> DEFINE i == PlaceOf(b, v)
           j == PlaceOf(o, v)
           k == PlaceOf(t, v)
           value == Arranged(b, o, t, om, tm)
           order == Order(b, o, t, om, tm)
<1>1. /\ i \in DOMAIN b /\ b[i] = v /\ j \in DOMAIN o /\ o[j] = v /\ k \in DOMAIN t /\ t[k] = v
  <2>1. ASSUME NEW s \in Seq(Block), Copies(s, v) = 1
        PROVE  PlaceOf(s, v) \in DOMAIN s /\ s[PlaceOf(s, v)] = v
    <3>1. DOMAIN s = 1..Len(s) /\ Len(s) \in Nat
      OBVIOUS
    <3>2. DOMAIN s \in SUBSET Nat /\ IsFiniteSet(DOMAIN s)
      BY <3>1, FS_Interval
    <3> QED BY <2>1, <3>2, Once
  <2> QED BY <2>1
<1>2. <<i, j>> \in om /\ <<i, k>> \in tm
  BY OnceMatched
<1> HIDE DEF i, j, k
<1>3. At(o, om, i) = v /\ At(t, tm, i) = v
  <2>1. ASSUME NEW side, NEW match, OnePartner(match), NEW n, <<i, n>> \in match
        PROVE  At(side, match, i) = side[n]
    <3>1. <<i, n>>[1] = i /\ <<i, n>>[2] = n
      OBVIOUS
    <3>2. Matched(match, <<i, n>>[1]) /\ PartnerOf(match, <<i, n>>[1]) = <<i, n>>[2]
      BY <2>1, Partners
    <3> QED BY <3>1, <3>2 DEF At
  <2> QED BY <1>1, <1>2, <2>1
<1>4. v \in Block /\ v # Absent
  BY <1>1, AbsentApart
<1>5. Settled(b, o, t, om, tm)[i].conflicts = {} /\ ToSet(order) = AllTokens(b, o, t, om, tm)
  BY <1>1, CleanSequence
<1>6. Settled(b, o, t, om, tm)[i].value = v
  <2> DEFINE it == Settled(b, o, t, om, tm)[i].value
  <2>1. \/ Agreed(b[i], At(o, om, i), At(t, tm, i)) /\ it = Agreement(b[i], At(o, om, i), At(t, tm, i))
        \/ ~Agreed(b[i], At(o, om, i), At(t, tm, i))
    BY <1>1, <1>5, SettledAs
  <2> HIDE DEF it
  <2>2. it = v
    BY <1>1, <1>3, <2>1 DEF Agreed, Agreement
  <2> QED BY <2>2 DEF it
<1>7. i \in Staying(b, o, t, om, tm)
  BY <1>1, <1>4, <1>6 DEF Staying
<1>8. /\ <<j, << 0, i >>>> \in OurLine(b, o, t, om, tm)
      /\ \A p \in OurLine(b, o, t, om, tm) : p[2] = << 0, i >> => p[1] = j
  BY <1>1, <1>2, <1>7, OurPlace
<1>9. /\ <<k, << 0, i >>>> \in TheirLine(b, o, t, om, tm)
      /\ \A p \in TheirLine(b, o, t, om, tm) : p[2] = << 0, i >> => p[1] = k
  BY <1>1, <1>2, <1>7, TheirPlace
<1>10. << 0, i >> \in AllTokens(b, o, t, om, tm)
  <2>1. <<j, << 0, i >>>>[2] = << 0, i >>
    OBVIOUS
  <2> QED BY <1>8, <2>1 DEF AllTokens
<1>11. PICK n \in DOMAIN order : order[n] = << 0, i >>
  BY <1>5, <1>10 DEF ToSet
<1>12. DOMAIN value = DOMAIN order /\ value[n] = v
  <2>1. ValueOf(b, o, t, om, tm, << 0, i >>) = v
    BY <1>6 DEF ValueOf
  <2> QED BY <1>11, <2>1 DEF Arranged
<1>13. DOMAIN value \in SUBSET Nat /\ IsFiniteSet(DOMAIN value)
  <2>1. order \in Seq(AllTokens(b, o, t, om, tm))
    BY Ordered DEF Enumerates
  <2>2. DOMAIN order = 1..Len(order) /\ Len(order) \in Nat
    BY <2>1
  <2> HIDE DEF order, value
  <2>3. IsFiniteSet(1..Len(order))
    BY <2>2, FS_Interval
  <2> QED BY <1>12, <2>2, <2>3
<1>14. PlaceOf(value, v) = n
  <2> HIDE DEF value, order
  <2>1. n \in DOMAIN value
    BY <1>12
  <2>2. Copies(value, v) = 1
    BY DEF value
  <2> QED BY <1>12, <1>13, <2>1, <2>2, Once
<1>15. <<i, << 0, i >>>> \in Surviving(b, o, t, om, tm)
  BY <1>7 DEF Surviving
<1> HIDE DEF order, value
<1>16. PlaceOf(value, v) \in DOMAIN order /\ order[PlaceOf(value, v)] = << 0, i >>
  BY <1>11, <1>14
<1> QED BY <1>1, <1>8, <1>9, <1>15, <1>16 DEF Placed, i, j, k, order, value

\* Two blocks that every document has once are in the order of the base, unless a side
\* turned them.
LEMMA TwoOrdered ==
    ASSUME NEW b \in Seq(Block), NEW o \in Seq(Block), NEW t \in Seq(Block),
           NEW om, NEW tm, Matching(om, b, o), Matching(tm, b, t),
           MergeSequence(b, o, t, om, tm, "none").conflicts = {},
           NEW u, NEW v, u # v, Placed(b, o, t, om, tm, u), Placed(b, o, t, om, tm, v)
    PROVE  Ahead(Arranged(b, o, t, om, tm), u, v) =
               IF Ahead(o, u, v) # Ahead(b, u, v) THEN Ahead(o, u, v) ELSE Ahead(t, u, v)
<1> DEFINE value == Arranged(b, o, t, om, tm)
           order == Order(b, o, t, om, tm)
           all == AllTokens(b, o, t, om, tm)
           ol == OurLine(b, o, t, om, tm)
           tl == TheirLine(b, o, t, om, tm)
           kept == Surviving(b, o, t, om, tm)
           edges == Edges(kept, ol, tl)
           Token(w) == << 0, PlaceOf(b, w) >>
<1>0. OnePartner(om) /\ OnePartner(tm)
  BY DEF Matching
<1>1. Enumerates(order, all, edges)
  BY <1>0, Ordered
<1>2. ToSet(order) = all
  BY CleanSequence
<1>3. DOMAIN b \subseteq Nat /\ DOMAIN o \subseteq Nat /\ DOMAIN t \subseteq Nat
  OBVIOUS
<1>4. /\ \A p \in ol : p[1] \in Nat /\ p[2] \in all
      /\ \A p \in tl : p[1] \in Nat /\ p[2] \in all
  <2>1. \A p \in ol \cup tl : p[2] \in all
    BY DEF AllTokens
  <2>2. \A p \in ol : p[1] \in DOMAIN o
    <3>1. DOMAIN OurTokens(o, om) = DOMAIN o
      BY DEF OurTokens
    <3> QED BY <3>1 DEF OurLine, Line
  <2>3. \A p \in tl : p[1] \in DOMAIN t
    <3>1. DOMAIN TheirTokens(o, t, om, tm) = DOMAIN t
      BY DEF TheirTokens
    <3> QED BY <3>1 DEF TheirLine, Line
  <2> HIDE DEF ol, tl, all
  <2> QED BY <1>3, <2>1, <2>2, <2>3
<1>5. \A w \in {u, v} :
          /\ PlaceOf(b, w) \in Nat /\ PlaceOf(o, w) \in Nat /\ PlaceOf(t, w) \in Nat
          /\ PlaceOf(value, w) \in Nat
          /\ <<PlaceOf(b, w), Token(w)>> \in kept /\ <<PlaceOf(o, w), Token(w)>> \in ol
          /\ <<PlaceOf(t, w), Token(w)>> \in tl
          /\ \A p \in ol : p[2] = Token(w) => p[1] = PlaceOf(o, w)
          /\ \A p \in tl : p[2] = Token(w) => p[1] = PlaceOf(t, w)
          /\ PlaceOf(value, w) \in DOMAIN order /\ order[PlaceOf(value, w)] = Token(w)
  <2>1. DOMAIN order \subseteq Nat
    BY <1>1 DEF Enumerates
  <2> QED BY <1>3, <2>1 DEF Placed
<1>6. PlaceOf(b, u) # PlaceOf(b, v) /\ PlaceOf(o, u) # PlaceOf(o, v) /\ PlaceOf(t, u) # PlaceOf(t, v)
  BY DEF Placed
<1>7. \A p \in kept : p[1] \in Nat /\ p[2] \in all
  <2> SUFFICES ASSUME NEW p \in kept PROVE p[1] \in Nat /\ p[2] \in all
    OBVIOUS
  <2>1. PICK i \in Staying(b, o, t, om, tm) : p = <<i, << 0, i >>>>
    BY DEF Surviving
  <2>2. i \in DOMAIN b
    BY <2>1 DEF Staying
  <2>3. CASE Matched(om, i)
    <3>1. PICK q \in om : q[1] = i
      BY <2>3 DEF Matched
    <3>2. q[2] \in DOMAIN o /\ <<i, q[2]>> \in om
      <4>1. q[2] \in DOMAIN o /\ q = <<q[1], q[2]>>
        BY DEF Matching
      <4> QED BY <3>1, <4>1
    <3>3. <<q[2], << 0, i >>>> \in ol
      BY <1>0, <2>1, <3>2, OurPlace
    <3>4. <<q[2], << 0, i >>>>[2] = << 0, i >>
      OBVIOUS
    <3>5. << 0, i >> \in all
      BY <3>3, <3>4 DEF AllTokens
    <3> QED BY <1>3, <2>1, <2>2, <3>5
  <2>4. CASE Matched(tm, i)
    <3>1. PICK q \in tm : q[1] = i
      BY <2>4 DEF Matched
    <3>2. q[2] \in DOMAIN t /\ <<i, q[2]>> \in tm
      <4>1. q[2] \in DOMAIN t /\ q = <<q[1], q[2]>>
        BY DEF Matching
      <4> QED BY <3>1, <4>1
    <3>3. <<q[2], << 0, i >>>> \in tl
      BY <1>0, <2>1, <3>2, TheirPlace
    <3>4. <<q[2], << 0, i >>>>[2] = << 0, i >>
      OBVIOUS
    <3>5. << 0, i >> \in all
      BY <3>3, <3>4 DEF AllTokens
    <3> QED BY <1>3, <2>1, <2>2, <3>5
  <2>5. Matched(om, i) \/ Matched(tm, i)
    <3>1. At(o, om, i) # Absent \/ At(t, tm, i) # Absent
      <4>1. Settled(b, o, t, om, tm)[i].conflicts = {}
        BY <2>2, CleanSequence
      <4> DEFINE it == Settled(b, o, t, om, tm)[i].value
      <4>2. \/ it = Agreement(b[i], At(o, om, i), At(t, tm, i))
            \/ Absent \notin {At(o, om, i), At(t, tm, i)}
        BY <2>2, <4>1, SettledAs
      <4>3. it # Absent
        BY <2>1 DEF Staying
      <4> HIDE DEF it
      <4> QED BY <4>2, <4>3 DEF Agreement
    <3> QED BY <3>1 DEF At
  <2> QED BY <2>3, <2>4, <2>5
<1> HIDE DEF order, all, ol, tl, kept, edges, value
<1> DEFINE nu == PlaceOf(value, u)
           nv == PlaceOf(value, v)
<1>9. ASSUME NEW line, \A p \in line : p[1] \in Nat /\ p[2] \in all, Pairs(line, TRUE) \subseteq edges,
             NEW m \in Nat, NEW n \in Nat, m # n, <<m, Token(u)>> \in line, <<n, Token(v)>> \in line
      PROVE  nu < nv <=> m < n
  <2> DEFINE p == <<m, Token(u)>>
             q == <<n, Token(v)>>
  <2>1. p \in line /\ q \in line /\ p[1] = m /\ p[2] = Token(u) /\ q[1] = n /\ q[2] = Token(v)
    BY <1>9
  <2>2. /\ nu \in DOMAIN order /\ order[nu] = Token(u) /\ nv \in DOMAIN order /\ order[nv] = Token(v)
        /\ nu \in Nat /\ nv \in Nat
    BY <1>5
  <2> HIDE DEF p, q, nu, nv, Token
  <2>3. \A x, y \in line : \A a, c \in DOMAIN order :
            x[1] < y[1] /\ order[a] = x[2] /\ order[c] = y[2] => a < c
    BY <1>1, <1>2, <1>9, ChainKept
  <2>4. m < n => nu < nv
    BY <2>1, <2>2, <2>3
  <2>5. n < m => nv < nu
    BY <2>1, <2>2, <2>3
  <2> QED BY <1>9, <2>2, <2>4, <2>5
<1>10. ASSUME NEW line, ~Moved(kept, line), NEW m \in Nat, NEW n \in Nat, m # n,
              \A p \in line : p[2] = Token(u) => p[1] = m,
              \A p \in line : p[2] = Token(v) => p[1] = n
       PROVE  m < n <=> PlaceOf(b, u) < PlaceOf(b, v)
  <2> DEFINE x == <<PlaceOf(b, u), Token(u)>>
             y == <<PlaceOf(b, v), Token(v)>>
  <2>1. /\ x \in kept /\ x[1] = PlaceOf(b, u) /\ x[2] = Token(u)
        /\ y \in kept /\ y[1] = PlaceOf(b, v) /\ y[2] = Token(v)
    BY <1>5
  <2>2. PlaceOf(b, u) \in Nat /\ PlaceOf(b, v) \in Nat
    BY <1>5
  <2> HIDE DEF x, y, Token
  <2>3. \A w, z \in kept : w[1] <= z[1] => \E p, q \in line : p[1] <= q[1] /\ p[2] = w[2] /\ q[2] = z[2]
    BY <1>10 DEF Moved
  <2>4. PlaceOf(b, u) <= PlaceOf(b, v) => m <= n
    BY <1>10, <2>1, <2>3
  <2>5. PlaceOf(b, v) <= PlaceOf(b, u) => n <= m
    BY <1>10, <2>1, <2>3
  <2> QED BY <1>6, <1>10, <2>2, <2>4, <2>5
<1>11. /\ Moved(kept, ol) => Pairs(ol, TRUE) \subseteq edges
       /\ Moved(kept, tl) => Pairs(tl, TRUE) \subseteq edges
       /\ ~Moved(kept, ol) /\ ~Moved(kept, tl) => Pairs(kept, TRUE) \subseteq edges
  <2>1. edges = Pairs(ol, Moved(kept, ol)) \cup Pairs(tl, Moved(kept, tl))
                    \cup IF Moved(kept, ol) \/ Moved(kept, tl) THEN {} ELSE Pairs(kept, TRUE)
    BY Zenon DEF Edges, edges
  <2>2. \A line : \A c \in {TRUE} : Pairs(line, TRUE) = Pairs(line, c)
    OBVIOUS
  <2>3. Moved(kept, ol) \in BOOLEAN /\ Moved(kept, tl) \in BOOLEAN
    BY DEF Moved
  <2>4. Moved(kept, ol) => Pairs(ol, Moved(kept, ol)) = Pairs(ol, TRUE)
    BY Zenon DEF Pairs
  <2>5. Moved(kept, tl) => Pairs(tl, Moved(kept, tl)) = Pairs(tl, TRUE)
    BY Zenon DEF Pairs
  <2> QED BY <2>1, <2>4, <2>5
<1> DEFINE Of(doc) == PlaceOf(doc, u) < PlaceOf(doc, v)
<1>12. Moved(kept, ol) => (Of(value) <=> Of(o))
  BY <1>4, <1>5, <1>6, <1>9, <1>11
<1>13. Moved(kept, tl) => (Of(value) <=> Of(t))
  BY <1>4, <1>5, <1>6, <1>9, <1>11
<1>14. ~Moved(kept, ol) /\ ~Moved(kept, tl) => (Of(value) <=> Of(b))
  BY <1>5, <1>6, <1>7, <1>9, <1>11
<1>15. ~Moved(kept, ol) => (Of(o) <=> Of(b))
  BY <1>5, <1>6, <1>10
<1>16. ~Moved(kept, tl) => (Of(t) <=> Of(b))
  BY <1>5, <1>6, <1>10
<1>17. \A doc : Ahead(doc, u, v) = Of(doc)
  BY DEF Ahead
<1>18. Of(value) \in BOOLEAN /\ Of(o) \in BOOLEAN /\ Of(t) \in BOOLEAN /\ Of(b) \in BOOLEAN
  BY <1>5
<1> HIDE DEF Of
<1>19. Of(value) = IF Of(o) # Of(b) THEN Of(o) ELSE Of(t)
  BY <1>12, <1>13, <1>14, <1>15, <1>16, <1>18
<1> QED BY <1>17, <1>19 DEF value

\* Blocks keep their order, in a merge without conflicts.
LEMMA MergeOrdered ==
    ASSUME NEW b \in Seq(Block), NEW o \in Seq(Block), NEW t \in Seq(Block),
           NEW om, NEW tm, Matching(om, b, o), Matching(tm, b, t),
           MatchExact(b, o) \subseteq om, MatchExact(b, t) \subseteq tm,
           MergeAst(b, o, t, om, tm, "none").conflicts = {},
           NEW value, value = MergeAst(b, o, t, om, tm, "none").value,
           NEW u, NEW v, \A doc \in {b, o, t, value} : Copies(doc, u) = 1 /\ Copies(doc, v) = 1
    PROVE  Ahead(value, u, v) =
               IF Ahead(o, u, v) # Ahead(b, u, v) THEN Ahead(o, u, v) ELSE Ahead(t, u, v)
<1>1. CASE Agreed(b, o, t)
  <2>1. value = Agreement(b, o, t)
    BY <1>1, CleanMerge
  <2> QED BY <1>1, <2>1 DEF Agreed, Agreement
<1>2. CASE ~Agreed(b, o, t)
  <2>1. value = Arranged(b, o, t, om, tm) /\ MergeSequence(b, o, t, om, tm, "none").conflicts = {}
    BY <1>2, CleanMerge
  <2>2. OnePartner(om) /\ OnePartner(tm)
    BY DEF Matching
  <2>3. Placed(b, o, t, om, tm, u) /\ Placed(b, o, t, om, tm, v)
    BY <2>1, <2>2, OncePlaced
  <2>4. CASE u = v
    <3>1. PlaceOf(o, u) \in Nat /\ PlaceOf(b, u) \in Nat /\ PlaceOf(t, u) \in Nat /\ PlaceOf(value, u) \in Nat
      <4>1. Order(b, o, t, om, tm) \in Seq(AllTokens(b, o, t, om, tm))
        BY <2>2, Ordered DEF Enumerates
      <4>2. DOMAIN Order(b, o, t, om, tm) \subseteq Nat
        BY <4>1
      <4> QED BY <2>1, <2>3, <4>2 DEF Placed
    <3>2. /\ Ahead(o, u, v) = FALSE /\ Ahead(b, u, v) = FALSE /\ Ahead(t, u, v) = FALSE
          /\ Ahead(value, u, v) = FALSE
      BY <2>4, <3>1 DEF Ahead
    <3> QED BY <3>2
  <2>5. CASE u # v
    BY <2>1, <2>3, <2>5, TwoOrdered
  <2> QED BY <2>4, <2>5
<1> QED BY <1>1, <1>2

\* Two blocks are in the order of the base, unless a writer turned them: then they are in
\* that writer's order, in a merge without conflicts.
THEOREM OrderKeptHolds == Spec => []OrderKept
<1>1. Init => EInv
  BY EditingInit
<1>2. EInv /\ [Next]_vars => EInv'
  BY EditingStep
<1>3. EInv => OrderKept
  <2> DEFINE o == Blocks(ours)
             t == Blocks(theirs)
             om == MatchSide(base, o)
             tm == MatchSide(base, t)
  <2> SUFFICES ASSUME EInv, Unasked, NEW u, NEW v,
                      \A doc \in {base, o, t, merged.value} : Copies(doc, u) = 1 /\ Copies(doc, v) = 1
               PROVE  Ahead(merged.value, u, v) =
                          IF Ahead(o, u, v) # Ahead(base, u, v) THEN Ahead(o, u, v) ELSE Ahead(t, u, v)
    BY DEF OrderKept
  <2>1. base \in Seq(Block) /\ o \in Seq(Block) /\ t \in Seq(Block)
    BY BlocksTyped DEF EInv
  <2>2. /\ Matching(om, base, o) /\ MatchExact(base, o) \subseteq om
        /\ Matching(tm, base, t) /\ MatchExact(base, t) \subseteq tm
    BY <2>1, SideMatching
  <2>3. merged = MergeAst(base, o, t, om, tm, "none") /\ merged.conflicts = {}
    BY DEF EInv, Unasked, MergedAs
  <2> HIDE DEF o, t, om, tm
  <2> QED BY <2>1, <2>2, <2>3, MergeOrdered
<1> QED BY <1>1, <1>2, <1>3, PTL DEF Spec

-----------------------------------------------------------------------------
(* The same merge, seen by the other writer *)

ValueIn(settled, o, t, token) ==
    CASE token[1] = 0 -> settled[token[2]].value
      [] token[1] = 1 -> o[token[2]]
      [] token[1] = 2 -> t[token[2]]

\* What a token of one writer is to the other, when these additions coincide.
Turned(both, token) ==
    CASE token[1] = 0 -> token
      [] token[1] = 1 -> IF \E p \in both : p[1] = token[2]
                         THEN <<1, (CHOOSE p \in both : p[1] = token[2])[2]>> ELSE <<2, token[2]>>
      [] token[1] = 2 -> <<1, token[2]>>
Token(x) == \E c \in {0, 1, 2} : \E n : x = <<c, n>>
TurnedLine(both, line) == {<<p[1], Turned(both, p[2])>> : p \in line}

\* The additions that are like one, up to it.
Likes(side, match, j) ==
    {n \in FreeSide(side, match) : n <= j /\ side[n] = side[j] /\ Anchor(match, n) = Anchor(match, j)}
CoincideBy(o, t, om, tm) ==
    {p \in FreeSide(o, om) \X FreeSide(t, tm) :
        /\ o[p[1]] = t[p[2]] /\ Anchor(om, p[1]) = Anchor(tm, p[2])
        /\ Cardinality(Likes(o, om, p[1])) = Cardinality(Likes(t, tm, p[2]))}

\* Coincidence is mutual.
LEMMA CoincideMirrored ==
    ASSUME NEW o, NEW t, NEW om, NEW tm
    PROVE  /\ \A p \in Coincide(o, t, om, tm) : /\ p[1] \in FreeSide(o, om) /\ p[2] \in FreeSide(t, tm)
                                               /\ o[p[1]] = t[p[2]] /\ p = <<p[1], p[2]>>
                                               /\ <<p[2], p[1]>> \in Coincide(t, o, tm, om)
           /\ Coincide(o, t, om, tm) = CoincideBy(o, t, om, tm)
<1>1. \A a, c, am, cm : Coincide(a, c, am, cm) = CoincideBy(a, c, am, cm)
  BY Zenon DEF Coincide, CoincideBy, Likes
<1>2. ASSUME NEW p \in CoincideBy(o, t, om, tm)
      PROVE  /\ p[1] \in FreeSide(o, om) /\ p[2] \in FreeSide(t, tm) /\ o[p[1]] = t[p[2]]
             /\ p = <<p[1], p[2]>> /\ <<p[2], p[1]>> \in CoincideBy(t, o, tm, om)
  BY <1>2 DEF CoincideBy
<1> QED BY <1>1, <1>2

\* The n-th of one side goes with the n-th of the other only.
LEMMA CoincideOne ==
    ASSUME NEW o, NEW t, DOMAIN o \in SUBSET Nat, DOMAIN t \in SUBSET Nat, NEW om, NEW tm
    PROVE  OnePartner(Coincide(o, t, om, tm))
<1>1. ASSUME NEW s, DOMAIN s \in SUBSET Nat, NEW m, NEW i \in FreeSide(s, m), NEW j \in FreeSide(s, m),
             i < j, s[i] = s[j], Anchor(m, i) = Anchor(m, j)
      PROVE  Cardinality(Likes(s, m, i)) # Cardinality(Likes(s, m, j))
  <2>1. i \in Nat /\ j \in Nat /\ FreeSide(s, m) \subseteq Nat
    BY <1>1 DEF FreeSide
  <2>2. /\ IsFiniteSet(Likes(s, m, i)) /\ Cardinality(Likes(s, m, i)) \in Nat
        /\ IsFiniteSet(Likes(s, m, j)) /\ Cardinality(Likes(s, m, j)) \in Nat
    <3>1. \A n \in Nat : IsFiniteSet(0..n)
      BY FS_Interval
    <3>2. Likes(s, m, i) \subseteq 0..i /\ Likes(s, m, j) \subseteq 0..j
      BY <2>1 DEF Likes
    <3> QED BY <2>1, <3>1, <3>2, FS_Subset, FS_CardinalityType
  <2>3. j \notin Likes(s, m, i) /\ Likes(s, m, i) \cup {j} \subseteq Likes(s, m, j)
    BY <1>1, <2>1 DEF Likes
  <2>4. Cardinality(Likes(s, m, i) \cup {j}) = Cardinality(Likes(s, m, i)) + 1
    BY <2>2, <2>3, FS_AddElement
  <2>5. Cardinality(Likes(s, m, i) \cup {j}) <= Cardinality(Likes(s, m, j))
    BY <2>2, <2>3, FS_Subset
  <2> QED BY <2>2, <2>4, <2>5
<1>2. ASSUME NEW s, DOMAIN s \in SUBSET Nat, NEW m, NEW i \in FreeSide(s, m), NEW j \in FreeSide(s, m),
             s[i] = s[j], Anchor(m, i) = Anchor(m, j),
             Cardinality(Likes(s, m, i)) = Cardinality(Likes(s, m, j))
      PROVE  i = j
  <2>1. i \in Nat /\ j \in Nat
    BY <1>2 DEF FreeSide
  <2>2. ~(i < j) /\ ~(j < i)
    BY <1>1, <1>2
  <2> QED BY <2>1, <2>2
<1> SUFFICES ASSUME NEW p \in CoincideBy(o, t, om, tm), NEW q \in CoincideBy(o, t, om, tm)
             PROVE  p[1] = q[1] <=> p[2] = q[2]
  BY CoincideMirrored DEF OnePartner
<1>3. \A r \in {p, q} :
          /\ r[1] \in FreeSide(o, om) /\ r[2] \in FreeSide(t, tm)
          /\ o[r[1]] = t[r[2]] /\ Anchor(om, r[1]) = Anchor(tm, r[2])
          /\ Cardinality(Likes(o, om, r[1])) = Cardinality(Likes(t, tm, r[2]))
  BY DEF CoincideBy
<1>4. p[1] = q[1] => p[2] = q[2]
  <2> SUFFICES ASSUME p[1] = q[1] PROVE p[2] = q[2]
    OBVIOUS
  <2>1. /\ t[p[2]] = t[q[2]] /\ Anchor(tm, p[2]) = Anchor(tm, q[2])
        /\ Cardinality(Likes(t, tm, p[2])) = Cardinality(Likes(t, tm, q[2]))
        /\ p[2] \in FreeSide(t, tm) /\ q[2] \in FreeSide(t, tm)
    BY <1>3
  <2> QED BY <1>2, <2>1
<1>5. p[2] = q[2] => p[1] = q[1]
  <2> SUFFICES ASSUME p[2] = q[2] PROVE p[1] = q[1]
    OBVIOUS
  <2>1. /\ o[p[1]] = o[q[1]] /\ Anchor(om, p[1]) = Anchor(om, q[1])
        /\ Cardinality(Likes(o, om, p[1])) = Cardinality(Likes(o, om, q[1]))
        /\ p[1] \in FreeSide(o, om) /\ q[1] \in FreeSide(o, om)
    BY <1>3
  <2> QED BY <1>2, <2>1
<1> QED BY <1>4, <1>5

\* How tokens are turned.
LEMMA TurnedAs ==
    ASSUME NEW both, OnePartner(both)
    PROVE  /\ \A i : Turned(both, << 0, i >>) = << 0, i >>
           /\ \A p \in both : Turned(both, <<1, p[1]>>) = <<1, p[2]>>
           /\ \A j : (~\E p \in both : p[1] = j) => Turned(both, <<1, j>>) = <<2, j>>
           /\ \A k : Turned(both, <<2, k>>) = <<1, k>>
           /\ \A x : Token(x) => Token(Turned(both, x)) /\ (Old(Turned(both, x)) <=> Old(x))
                                    /\ (Old(x) => Turned(both, x) = x)
<1>1. \A i : Turned(both, << 0, i >>) = << 0, i >>
  BY DEF Turned
<1>2. \A k : Turned(both, <<2, k>>) = <<1, k>>
  BY DEF Turned
<1>3. \A j : (~\E p \in both : p[1] = j) => Turned(both, <<1, j>>) = <<2, j>>
  BY DEF Turned
<1>4. ASSUME NEW p \in both PROVE Turned(both, <<1, p[1]>>) = <<1, p[2]>>
  <2>1. Turned(both, <<1, p[1]>>) = <<1, (CHOOSE q \in both : q[1] = p[1])[2]>>
    BY DEF Turned
  <2>2. (CHOOSE q \in both : q[1] = p[1])[2] = p[2]
    <3>1. \A q \in both : q[1] = p[1] => q[2] = p[2]
      BY DEF OnePartner
    <3>2. \E q \in both : q[1] = p[1]
      OBVIOUS
    <3> QED BY <3>1, <3>2
  <2> QED BY <2>1, <2>2
<1>5. ASSUME NEW x, Token(x)
      PROVE  /\ Token(Turned(both, x)) /\ (Old(Turned(both, x)) <=> Old(x))
             /\ (Old(x) => Turned(both, x) = x)
  <2>0. PICK c \in {0, 1, 2} : \E n : x = <<c, n>>
    BY <1>5 DEF Token
  <2>1. PICK n : x = <<c, n>>
    BY <2>0
  <2>2. CASE c = 0
    BY <1>1, <2>1, <2>2 DEF Token, Old
  <2>3. CASE c = 2
    BY <1>2, <2>1, <2>3 DEF Token, Old
  <2>4. CASE c = 1
    <3>1. \E m : Turned(both, x) = <<1, m>> \/ Turned(both, x) = <<2, m>>
      BY <1>3, <1>4, <2>1, <2>4
    <3> QED BY <2>1, <2>4, <3>1 DEF Token, Old
  <2> QED BY <2>2, <2>3, <2>4
<1> QED BY <1>1, <1>2, <1>3, <1>4, <1>5

\* The tokens of a copy are those the other writer has for it, turned.
LEMMA TokensTurned ==
    ASSUME NEW o, NEW t, DOMAIN o \in SUBSET Nat, DOMAIN t \in SUBSET Nat,
           NEW om, NEW tm, OnePartner(om), OnePartner(tm)
    PROVE  LET both == Coincide(o, t, om, tm)
           IN  /\ \A j \in DOMAIN o : /\ Token(OurTokens(o, om)[j])
                                      /\ TheirTokens(t, o, tm, om)[j] = Turned(both, OurTokens(o, om)[j])
               /\ \A k \in DOMAIN t :
                      /\ Token(TheirTokens(o, t, om, tm)[k])
                      /\ OurTokens(t, tm)[k] = Turned(both, TheirTokens(o, t, om, tm)[k])
<1> DEFINE both == Coincide(o, t, om, tm)
           back == Coincide(t, o, tm, om)
<1>1. OnePartner(both) /\ OnePartner(back)
  BY CoincideOne
<1>2. /\ \A p \in both : <<p[2], p[1]>> \in back
      /\ \A p \in back : <<p[2], p[1]>> \in both
  BY CoincideMirrored
<1>3. /\ \A i : Turned(both, << 0, i >>) = << 0, i >>
      /\ \A p \in both : Turned(both, <<1, p[1]>>) = <<1, p[2]>>
      /\ \A j : (~\E p \in both : p[1] = j) => Turned(both, <<1, j>>) = <<2, j>>
      /\ \A k : Turned(both, <<2, k>>) = <<1, k>>
  BY <1>1, TurnedAs
<1>4. ASSUME NEW j \in DOMAIN o
      PROVE  /\ Token(OurTokens(o, om)[j])
             /\ TheirTokens(t, o, tm, om)[j] = Turned(both, OurTokens(o, om)[j])
  <2> DEFINE mine == OurTokens(o, om)[j]
             other == TheirTokens(t, o, tm, om)[j]
  <2>1. \/ j \in FreeSide(o, om) /\ mine = <<1, j>>
        \/ \E p \in om : p[2] = j /\ mine = << 0, p[1] >>
    BY OurToken
  <2>2. \/ \E p \in om : p[2] = j /\ other = << 0, p[1] >>
        \/ /\ j \in FreeSide(o, om)
           /\ \E p \in back : p[2] = j /\ other = <<1, p[1]>>
        \/ /\ j \in FreeSide(o, om)
           /\ ~\E p \in back : p[2] = j
           /\ other = <<2, j>>
    BY TheirToken
  <2> HIDE DEF mine, other, both, back
  <2>3. CASE j \notin FreeSide(o, om)
    <3>1. PICK p \in om : p[2] = j /\ mine = << 0, p[1] >>
      BY <2>1, <2>3
    <3>2. PICK q \in om : q[2] = j /\ other = << 0, q[1] >>
      BY <2>2, <2>3
    <3>3. p[1] = q[1]
      BY <3>1, <3>2 DEF OnePartner
    <3> QED BY <1>3, <3>1, <3>2, <3>3 DEF Token, mine, other
  <2>4. CASE j \in FreeSide(o, om)
    <3>0. \A p \in om : p[2] # j
      BY <2>4 DEF FreeSide
    <3>1. mine = <<1, j>>
      BY <2>1, <3>0
    <3>2. CASE \E p \in back : p[2] = j /\ other = <<1, p[1]>>
      <4>1. PICK p \in back : p[2] = j /\ other = <<1, p[1]>>
        BY <3>2
      <4>2. <<j, p[1]>> \in both
        BY <1>2, <4>1
      <4>3. Turned(both, <<1, <<j, p[1]>>[1]>>) = <<1, <<j, p[1]>>[2]>>
        BY <1>3, <4>2
      <4> QED BY <3>1, <4>1, <4>3 DEF Token, mine, other
    <3>3. CASE (~\E p \in back : p[2] = j) /\ other = <<2, j>>
      <4>1. ~\E p \in both : p[1] = j
        <5> SUFFICES ASSUME NEW p \in both, p[1] = j PROVE FALSE
          OBVIOUS
        <5>1. <<p[2], p[1]>> \in back /\ <<p[2], p[1]>>[2] = j
          BY <1>2
        <5> QED BY <3>3, <5>1
      <4> QED BY <1>3, <3>1, <3>3, <4>1 DEF Token, mine, other
    <3> QED BY <2>2, <3>0, <3>2, <3>3
  <2> QED BY <2>3, <2>4
<1>5. ASSUME NEW k \in DOMAIN t
      PROVE  /\ Token(TheirTokens(o, t, om, tm)[k])
             /\ OurTokens(t, tm)[k] = Turned(both, TheirTokens(o, t, om, tm)[k])
  <2> DEFINE mine == OurTokens(t, tm)[k]
             other == TheirTokens(o, t, om, tm)[k]
  <2>1. \/ k \in FreeSide(t, tm) /\ mine = <<1, k>>
        \/ \E p \in tm : p[2] = k /\ mine = << 0, p[1] >>
    BY OurToken
  <2>2. \/ \E p \in tm : p[2] = k /\ other = << 0, p[1] >>
        \/ /\ k \in FreeSide(t, tm)
           /\ \E p \in both : p[2] = k /\ other = <<1, p[1]>>
        \/ /\ k \in FreeSide(t, tm)
           /\ ~\E p \in both : p[2] = k
           /\ other = <<2, k>>
    BY TheirToken
  <2> HIDE DEF mine, other, both, back
  <2>3. CASE k \notin FreeSide(t, tm)
    <3>1. PICK p \in tm : p[2] = k /\ mine = << 0, p[1] >>
      BY <2>1, <2>3
    <3>2. PICK q \in tm : q[2] = k /\ other = << 0, q[1] >>
      BY <2>2, <2>3
    <3>3. p[1] = q[1]
      BY <3>1, <3>2 DEF OnePartner
    <3> QED BY <1>3, <3>1, <3>2, <3>3 DEF Token, mine, other
  <2>4. CASE k \in FreeSide(t, tm)
    <3>0. \A p \in tm : p[2] # k
      BY <2>4 DEF FreeSide
    <3>1. mine = <<1, k>>
      BY <2>1, <3>0
    <3>2. (\E p \in both : p[2] = k /\ other = <<1, p[1]>>) \/ other = <<2, k>>
      BY <2>2, <3>0
    <3>3. Turned(both, other) = <<1, k>>
      BY <1>3, <3>2
    <3>4. Token(other)
      BY <3>2 DEF Token
    <3> QED BY <3>1, <3>3, <3>4 DEF mine, other
  <2> QED BY <2>3, <2>4
<1> QED BY <1>4, <1>5

\* A line with its tokens turned.
LEMMA LineTurned ==
    ASSUME NEW both, OnePartner(both), NEW tokens, NEW others, DOMAIN others = DOMAIN tokens, NEW stay,
           \A n \in DOMAIN tokens : Token(tokens[n]) /\ others[n] = Turned(both, tokens[n])
    PROVE  Line(others, stay) = TurnedLine(both, Line(tokens, stay))
<1>1. \A n \in DOMAIN tokens : /\ Old(others[n]) <=> Old(tokens[n])
                               /\ Old(tokens[n]) => others[n] = tokens[n]
  BY TurnedAs
<1> DEFINE here(s) == {m \in DOMAIN s : Old(s[m]) => s[m][2] \in stay}
<1>2. here(others) = here(tokens)
  BY <1>1
<1>3. Line(others, stay) = {<<n, others[n]>> : n \in here(others)}
  BY Zenon DEF Line
<1>4. Line(tokens, stay) = {<<n, tokens[n]>> : n \in here(tokens)}
  BY Zenon DEF Line
<1> HIDE DEF here
<1>5. here(tokens) \subseteq DOMAIN tokens
  BY DEF here
<1>6. \A n \in here(tokens) : <<n, others[n]>> = <<n, Turned(both, tokens[n])>>
  BY <1>5
<1>7. ASSUME NEW p \in Line(others, stay) PROVE p \in TurnedLine(both, Line(tokens, stay))
  <2>1. PICK n \in here(tokens) : p = <<n, Turned(both, tokens[n])>>
    BY <1>2, <1>3, <1>6
  <2>2. <<n, tokens[n]>> \in Line(tokens, stay) /\ <<n, tokens[n]>>[1] = n /\ <<n, tokens[n]>>[2] = tokens[n]
    BY <1>4
  <2> QED BY <2>1, <2>2 DEF TurnedLine
<1>8. ASSUME NEW p \in TurnedLine(both, Line(tokens, stay)) PROVE p \in Line(others, stay)
  <2>1. PICK q \in Line(tokens, stay) : p = <<q[1], Turned(both, q[2])>>
    BY DEF TurnedLine
  <2>2. PICK n \in here(tokens) : q = <<n, tokens[n]>>
    BY <1>4
  <2>3. p = <<n, others[n]>>
    BY <1>6, <2>1, <2>2
  <2> QED BY <1>2, <1>3, <2>3
<1> QED BY <1>7, <1>8

\* The windows of a line.
LEMMA PairsAs ==
    ASSUME NEW line, NEW c \in BOOLEAN
    PROVE  /\ \A e \in Pairs(line, c) : \E p, q \in line :
                  /\ e = <<p[2], q[2]>> /\ p[1] < q[1] /\ \A r \in line : r[1] <= p[1] \/ q[1] <= r[1]
                  /\ c \/ ~Old(p[2]) \/ ~Old(q[2])
           /\ \A p, q \in line :
                  /\ p[1] < q[1] /\ \A r \in line : r[1] <= p[1] \/ q[1] <= r[1]
                  /\ c \/ ~Old(p[2]) \/ ~Old(q[2])
                  => <<p[2], q[2]>> \in Pairs(line, c)
<1>1. ASSUME NEW e \in Pairs(line, c)
      PROVE  \E p, q \in line :
                 /\ e = <<p[2], q[2]>> /\ p[1] < q[1] /\ \A r \in line : r[1] <= p[1] \/ q[1] <= r[1]
                 /\ c \/ ~Old(p[2]) \/ ~Old(q[2])
  <2>1. PICK w \in line \X line :
            /\ e = <<w[1][2], w[2][2]>> /\ w[1][1] < w[2][1]
            /\ \A r \in line : r[1] <= w[1][1] \/ w[2][1] <= r[1]
            /\ c \/ ~Old(w[1][2]) \/ ~Old(w[2][2])
    BY <1>1, Zenon DEF Pairs
  <2>2. w[1] \in line /\ w[2] \in line
    OBVIOUS
  <2> QED BY Zenon, <2>1, <2>2
<1>2. ASSUME NEW p \in line, NEW q \in line, p[1] < q[1],
             \A r \in line : r[1] <= p[1] \/ q[1] <= r[1], c \/ ~Old(p[2]) \/ ~Old(q[2])
      PROVE  <<p[2], q[2]>> \in Pairs(line, c)
  <2> DEFINE w == <<p, q>>
  <2>1. w \in line \X line /\ w[1] = p /\ w[2] = q
    OBVIOUS
  <2> HIDE DEF w
  <2>2. /\ w[1][1] < w[2][1]
        /\ \A r \in line : r[1] <= w[1][1] \/ w[2][1] <= r[1]
        /\ c \/ ~Old(w[1][2]) \/ ~Old(w[2][2])
    BY <1>2, <2>1
  <2>3. <<w[1][2], w[2][2]>> \in Pairs(line, c)
    BY Zenon, <2>1, <2>2 DEF Pairs
  <2> QED BY <2>1, <2>3
<1> QED BY <1>1, <1>2

TurnedEdges(both, edges) == {<<Turned(both, e[1]), Turned(both, e[2])>> : e \in edges}

\* The windows of a turned line are the turned windows.
LEMMA PairsTurned ==
    ASSUME NEW both, OnePartner(both), NEW line, \A p \in line : Token(p[2]), NEW c \in BOOLEAN
    PROVE  Pairs(TurnedLine(both, line), c) = TurnedEdges(both, Pairs(line, c))
<1> DEFINE other == TurnedLine(both, line)
           T(x) == Turned(both, x)
<1>1. /\ \A p \in line : \E q \in other : q[1] = p[1] /\ q[2] = T(p[2])
      /\ \A q \in other : \E p \in line : q[1] = p[1] /\ q[2] = T(p[2])
  <2>1. \A p \in line : <<p[1], T(p[2])>> \in other /\ <<p[1], T(p[2])>>[1] = p[1]
                          /\ <<p[1], T(p[2])>>[2] = T(p[2])
    BY DEF TurnedLine
  <2>2. \A q \in other : \E p \in line : q = <<p[1], T(p[2])>>
    BY DEF TurnedLine
  <2> HIDE DEF other, T
  <2> QED BY <2>1, <2>2
<1>2. \A p \in line : Old(T(p[2])) <=> Old(p[2])
  BY TurnedAs
<1> HIDE DEF other, T
<1>3. ASSUME NEW e \in Pairs(other, c) PROVE e \in TurnedEdges(both, Pairs(line, c))
  <2>1. PICK p, q \in other :
            /\ e = <<p[2], q[2]>> /\ p[1] < q[1] /\ \A r \in other : r[1] <= p[1] \/ q[1] <= r[1]
            /\ c \/ ~Old(p[2]) \/ ~Old(q[2])
    BY PairsAs
  <2>2. PICK p0 \in line : p[1] = p0[1] /\ p[2] = T(p0[2])
    BY <1>1
  <2>3. PICK q0 \in line : q[1] = q0[1] /\ q[2] = T(q0[2])
    BY <1>1
  <2>4. \A r \in line : r[1] <= p0[1] \/ q0[1] <= r[1]
    BY <1>1, <2>1, <2>2, <2>3
  <2>5. <<p0[2], q0[2]>> \in Pairs(line, c)
    <3>1. p0[1] < q0[1] /\ (c \/ ~Old(p0[2]) \/ ~Old(q0[2]))
      BY <1>2, <2>1, <2>2, <2>3
    <3> QED BY <2>4, <3>1, PairsAs
  <2>6. e = <<T(p0[2]), T(q0[2])>>
    BY <2>1, <2>2, <2>3
  <2> QED BY <2>5, <2>6 DEF TurnedEdges, T
<1>4. ASSUME NEW e \in TurnedEdges(both, Pairs(line, c)) PROVE e \in Pairs(other, c)
  <2>1. PICK d \in Pairs(line, c) : e = <<T(d[1]), T(d[2])>>
    BY DEF TurnedEdges, T
  <2>2. PICK p, q \in line :
            /\ d = <<p[2], q[2]>> /\ p[1] < q[1] /\ \A r \in line : r[1] <= p[1] \/ q[1] <= r[1]
            /\ c \/ ~Old(p[2]) \/ ~Old(q[2])
    BY PairsAs
  <2>3. PICK p1 \in other : p1[1] = p[1] /\ p1[2] = T(p[2])
    BY <1>1
  <2>4. PICK q1 \in other : q1[1] = q[1] /\ q1[2] = T(q[2])
    BY <1>1
  <2>5. \A r \in other : r[1] <= p1[1] \/ q1[1] <= r[1]
    BY <1>1, <2>2, <2>3, <2>4
  <2>6. <<p1[2], q1[2]>> \in Pairs(other, c)
    <3>1. p1[1] < q1[1] /\ (c \/ ~Old(p1[2]) \/ ~Old(q1[2]))
      BY <1>2, <2>2, <2>3, <2>4
    <3> QED BY <2>5, <3>1, PairsAs
  <2> QED BY <2>1, <2>2, <2>3, <2>4, <2>6
<1> QED BY <1>3, <1>4 DEF other

\* Turning tokens moves no base block.
LEMMA MovedTurned ==
    ASSUME NEW both, OnePartner(both), NEW line, \A p \in line : Token(p[2]), NEW stay
    PROVE  Moved(Kept(stay), TurnedLine(both, line)) = Moved(Kept(stay), line)
<1> DEFINE other == TurnedLine(both, line)
           T(x) == Turned(both, x)
<1>1. /\ \A p \in line : \E q \in other : q[1] = p[1] /\ q[2] = T(p[2])
      /\ \A q \in other : \E p \in line : q[1] = p[1] /\ q[2] = T(p[2])
  <2>1. \A p \in line : <<p[1], T(p[2])>> \in other /\ <<p[1], T(p[2])>>[1] = p[1]
                          /\ <<p[1], T(p[2])>>[2] = T(p[2])
    BY DEF TurnedLine
  <2>2. \A q \in other : \E p \in line : q = <<p[1], T(p[2])>>
    BY DEF TurnedLine
  <2> HIDE DEF other, T
  <2> QED BY <2>1, <2>2
<1>2. \A p \in line : /\ Old(T(p[2])) <=> Old(p[2])
                      /\ Old(p[2]) => T(p[2]) = p[2]
  BY TurnedAs
<1>3. \A u \in Kept(stay) : Old(u[2])
  BY DEF Kept, Old
<1> HIDE DEF other, T
<1>4. \A p \in line, u \in Kept(stay) : p[2] = u[2] <=> T(p[2]) = u[2]
  BY <1>2, <1>3
<1>5. \A u, v \in Kept(stay) :
          (\E p, q \in other : p[1] <= q[1] /\ p[2] = u[2] /\ q[2] = v[2])
              <=> (\E p, q \in line : p[1] <= q[1] /\ p[2] = u[2] /\ q[2] = v[2])
  <2> TAKE u, v \in Kept(stay)
  <2>1. ASSUME NEW p \in other, NEW q \in other, p[1] <= q[1], p[2] = u[2], q[2] = v[2]
        PROVE  \E a, c \in line : a[1] <= c[1] /\ a[2] = u[2] /\ c[2] = v[2]
    BY <1>1, <1>4, <2>1
  <2>2. ASSUME NEW p \in line, NEW q \in line, p[1] <= q[1], p[2] = u[2], q[2] = v[2]
        PROVE  \E a, c \in other : a[1] <= c[1] /\ a[2] = u[2] /\ c[2] = v[2]
    BY <1>1, <1>4, <2>2
  <2> QED BY <2>1, <2>2
<1>6. Moved(Kept(stay), other) <=> Moved(Kept(stay), line)
  BY <1>5 DEF Moved
<1>7. Moved(Kept(stay), other) \in BOOLEAN /\ Moved(Kept(stay), line) \in BOOLEAN
  BY DEF Moved
<1> QED BY <1>6, <1>7 DEF other

\* The other writer has the same lines and edges, turned.
LEMMA EdgesTurned ==
    ASSUME NEW o, NEW t, DOMAIN o \in SUBSET Nat, DOMAIN t \in SUBSET Nat,
           NEW om, NEW tm, OnePartner(om), OnePartner(tm), NEW stay
    PROVE  LET both == Coincide(o, t, om, tm)
           IN  /\ OursOn(t, tm, stay) = TurnedLine(both, TheirsOn(o, t, om, tm, stay))
               /\ TheirsOn(t, o, tm, om, stay) = TurnedLine(both, OursOn(o, om, stay))
               /\ EdgesOn(t, o, tm, om, stay) = TurnedEdges(both, EdgesOn(o, t, om, tm, stay))
               /\ \A x \in Tokens(o, t, om, tm, stay) : Token(x)
<1> DEFINE both == Coincide(o, t, om, tm)
           ol == OursOn(o, om, stay)
           tl == TheirsOn(o, t, om, tm, stay)
           kept == Kept(stay)
<1>1. OnePartner(both)
  BY CoincideOne
<1>2. /\ DOMAIN OurTokens(o, om) = DOMAIN o /\ DOMAIN TheirTokens(t, o, tm, om) = DOMAIN o
      /\ DOMAIN OurTokens(t, tm) = DOMAIN t /\ DOMAIN TheirTokens(o, t, om, tm) = DOMAIN t
  BY DEF OurTokens, TheirTokens
<1>3. /\ \A j \in DOMAIN o : /\ Token(OurTokens(o, om)[j])
                             /\ TheirTokens(t, o, tm, om)[j] = Turned(both, OurTokens(o, om)[j])
      /\ \A k \in DOMAIN t : /\ Token(TheirTokens(o, t, om, tm)[k])
                             /\ OurTokens(t, tm)[k] = Turned(both, TheirTokens(o, t, om, tm)[k])
  BY TokensTurned
<1> HIDE DEF both
<1>4. OursOn(t, tm, stay) = TurnedLine(both, tl)
  BY <1>1, <1>2, <1>3, LineTurned DEF OursOn, TheirsOn
<1>5. TheirsOn(t, o, tm, om, stay) = TurnedLine(both, ol)
  BY <1>1, <1>2, <1>3, LineTurned DEF OursOn, TheirsOn
<1>6. \A p \in ol \cup tl : Token(p[2])
  <2>1. \A p \in ol : \E n \in DOMAIN o : p = <<n, OurTokens(o, om)[n]>>
    BY <1>2 DEF OursOn, Line
  <2>2. \A p \in tl : \E n \in DOMAIN t : p = <<n, TheirTokens(o, t, om, tm)[n]>>
    BY <1>2 DEF TheirsOn, Line
  <2> HIDE DEF ol, tl
  <2> QED BY <1>3, <2>1, <2>2
<1>7. \A p \in kept : Token(p[2])
  BY DEF Kept, Token
<1>8. kept = TurnedLine(both, kept)
  <2>1. \A p \in kept : p = <<p[1], p[2]>> /\ Turned(both, p[2]) = p[2]
    <3>1. \A i : Turned(both, << 0, i >>) = << 0, i >>
      BY <1>1, TurnedAs
    <3> QED BY <3>1 DEF Kept
  <2> HIDE DEF kept
  <2> QED BY <2>1 DEF TurnedLine
<1>9. EdgesOn(t, o, tm, om, stay) = TurnedEdges(both, EdgesOn(o, t, om, tm, stay))
  <2> DEFINE weMoved == Moved(kept, ol)
             theyMoved == Moved(kept, tl)
             all == IF weMoved \/ theyMoved THEN {} ELSE Pairs(kept, TRUE)
  <2>1. EdgesOn(o, t, om, tm, stay) = Pairs(ol, weMoved) \cup Pairs(tl, theyMoved) \cup all
    BY Zenon DEF EdgesOn, Edges
  <2>2. Moved(kept, TurnedLine(both, ol)) = weMoved /\ Moved(kept, TurnedLine(both, tl)) = theyMoved
    BY <1>1, <1>6, MovedTurned
  <2>3. EdgesOn(t, o, tm, om, stay) =
            Pairs(TurnedLine(both, tl), theyMoved) \cup Pairs(TurnedLine(both, ol), weMoved)
                \cup IF theyMoved \/ weMoved THEN {} ELSE Pairs(kept, TRUE)
    <3>1. EdgesOn(t, o, tm, om, stay) = Edges(kept, TurnedLine(both, tl), TurnedLine(both, ol))
      BY <1>4, <1>5 DEF EdgesOn
    <3>2. Edges(kept, TurnedLine(both, tl), TurnedLine(both, ol)) =
              Pairs(TurnedLine(both, tl), Moved(kept, TurnedLine(both, tl)))
              \cup Pairs(TurnedLine(both, ol), Moved(kept, TurnedLine(both, ol)))
              \cup IF Moved(kept, TurnedLine(both, tl)) \/ Moved(kept, TurnedLine(both, ol))
                   THEN {} ELSE Pairs(kept, TRUE)
      BY Zenon DEF Edges
    <3> HIDE DEF weMoved, theyMoved
    <3> QED BY <2>2, <3>1, <3>2
  <2>4. weMoved \in BOOLEAN /\ theyMoved \in BOOLEAN
    BY DEF Moved
  <2> HIDE DEF weMoved, theyMoved, kept, ol, tl
  <2>5. /\ Pairs(TurnedLine(both, ol), weMoved) = TurnedEdges(both, Pairs(ol, weMoved))
        /\ Pairs(TurnedLine(both, tl), theyMoved) = TurnedEdges(both, Pairs(tl, theyMoved))
        /\ Pairs(kept, TRUE) = TurnedEdges(both, Pairs(kept, TRUE))
    <3>1. Pairs(TurnedLine(both, kept), TRUE) = TurnedEdges(both, Pairs(kept, TRUE))
      BY <1>1, <1>7, PairsTurned
    <3> QED BY <1>1, <1>6, <1>8, <2>4, <3>1, PairsTurned
  <2>6. TurnedEdges(both, {}) = {}
    BY DEF TurnedEdges
  <2>7. \A a, c, d : TurnedEdges(both, a \cup c \cup d) =
                         TurnedEdges(both, a) \cup TurnedEdges(both, c) \cup TurnedEdges(both, d)
    BY DEF TurnedEdges
  <2>8. TurnedEdges(both, EdgesOn(o, t, om, tm, stay)) =
            TurnedEdges(both, Pairs(ol, weMoved)) \cup TurnedEdges(both, Pairs(tl, theyMoved))
                \cup TurnedEdges(both, all)
    <3> DEFINE a == Pairs(ol, weMoved)
               c == Pairs(tl, theyMoved)
    <3>1. EdgesOn(o, t, om, tm, stay) = a \cup c \cup all
      BY <2>1
    <3> HIDE DEF all, a, c
    <3>2. TurnedEdges(both, EdgesOn(o, t, om, tm, stay)) =
              TurnedEdges(both, a) \cup TurnedEdges(both, c) \cup TurnedEdges(both, all)
      BY <2>7, <3>1
    <3> QED BY <3>2 DEF a, c
  <2>9. TurnedEdges(both, all) = IF theyMoved \/ weMoved THEN {} ELSE Pairs(kept, TRUE)
    BY <2>5, <2>6
  <2> HIDE DEF all
  <2> QED BY <2>3, <2>5, <2>8, <2>9
<1>10. \A x \in Tokens(o, t, om, tm, stay) : Token(x)
  BY <1>6 DEF Tokens
<1> QED BY <1>4, <1>5, <1>9, <1>10 DEF both

\* What was seen from one side is the same from the other.
LEMMA Mirroring ==
    ASSUME NEW with \in Answer
    PROVE  /\ Mirrored(with) \in Answer
           /\ with = "none" <=> Mirrored(with) = "none"
           /\ \A reason, at, b, o, t :
                  Resolve(reason, at, b, o, t, with) = Resolve(reason, at, b, t, o, Mirrored(with))
<1>1. CASE with = "none"
  BY <1>1 DEF Mirrored, Resolve, Answer
<1>2. CASE with = "base"
  BY <1>2 DEF Mirrored, Resolve, Answer
<1>3. CASE with = "ours"
  BY <1>3 DEF Mirrored, Resolve, Answer
<1>4. CASE with = "theirs"
  BY <1>4 DEF Mirrored, Resolve, Answer
<1> QED BY <1>1, <1>2, <1>3, <1>4 DEF Answer

\* A value is merged alike by both writers, when its parts are.
LEMMA ValueMirrored ==
    ASSUME NEW with \in Answer, NEW b, NEW o, NEW t, NEW at, NEW mine, NEW other,
           Absent \notin {o, t} => mine = other
    PROVE  MergeValue(b, o, t, at, with, mine) = MergeValue(b, t, o, at, Mirrored(with), other)
<1> DEFINE gone == Resolve("DeleteEdit", at, b, o, t, with)
<1>1. gone = Resolve("DeleteEdit", at, b, t, o, Mirrored(with))
  BY Mirroring
<1>2. MergeValue(b, o, t, at, with, mine) =
          IF o = t THEN Clean(o) ELSE IF o = b THEN Clean(t) ELSE IF t = b THEN Clean(o)
          ELSE IF Absent \in {o, t} THEN gone ELSE mine
  BY Zenon DEF MergeValue
<1>3. MergeValue(b, t, o, at, Mirrored(with), other) =
          IF t = o THEN Clean(t) ELSE IF t = b THEN Clean(o) ELSE IF o = b THEN Clean(t)
          ELSE IF Absent \in {t, o} THEN gone ELSE other
  BY Zenon, <1>1 DEF MergeValue
<1> HIDE DEF gone
<1> QED BY <1>2, <1>3

\* So are a field, and two blocks of one kind.
LEMMA BlockMirrored ==
    ASSUME NEW with \in Answer, NEW b, NEW o, NEW t, NEW at,
           Absent \notin {o, t} => o.kind = t.kind
    PROVE  MergeBlock(b, o, t, at, with) = MergeBlock(b, t, o, at, Mirrored(with))
<1>1. ASSUME NEW x, NEW y, NEW z, NEW where
      PROVE  MergeField(x, y, z, where, with) = MergeField(x, z, y, where, Mirrored(with))
  <2>1. Resolve("BothChanged", where, x, y, z, with) = Resolve("BothChanged", where, x, z, y, Mirrored(with))
    BY Mirroring
  <2> QED BY <2>1, ValueMirrored DEF MergeField
<1> DEFINE hint == MergeField(b.hint, o.hint, t.hint, Append(at, "hint"), with)
           text == MergeField(b.text, o.text, t.text, Append(at, "text"), with)
           fields(kind) == [value |-> [kind |-> kind, hint |-> hint.value, text |-> text.value],
                            conflicts |-> hint.conflicts \cup text.conflicts]
<1>2. /\ hint = MergeField(b.hint, t.hint, o.hint, Append(at, "hint"), Mirrored(with))
      /\ text = MergeField(b.text, t.text, o.text, Append(at, "text"), Mirrored(with))
  BY <1>1
<1>3. MergeBlock(b, o, t, at, with) = MergeValue(b, o, t, at, with, fields(o.kind))
  BY Zenon DEF MergeBlock
<1>4. MergeBlock(b, t, o, at, Mirrored(with)) = MergeValue(b, t, o, at, Mirrored(with), fields(t.kind))
  BY Zenon, <1>2 DEF MergeBlock
<1>5. Absent \notin {o, t} => fields(o.kind) = fields(t.kind)
  BY Zenon
<1> HIDE DEF fields
<1> QED BY <1>3, <1>4, <1>5, ValueMirrored

\* The base blocks of a merge, settled with an answer.
SettledWith(b, o, t, om, tm, with) == [i \in DOMAIN b |-> Settle(b, o, t, om, tm, i, with)]

\* Both writers settle each base block alike.
LEMMA SettledMirrored ==
    ASSUME NEW with \in Answer, NEW b, NEW o, NEW t, NEW om, NEW tm, Matching(om, b, o), Matching(tm, b, t)
    PROVE  SettledWith(b, o, t, om, tm, with) = SettledWith(b, t, o, tm, om, Mirrored(with))
<1>1. ASSUME NEW i \in DOMAIN b
      PROVE  Settle(b, o, t, om, tm, i, with) = Settle(b, t, o, tm, om, i, Mirrored(with))
  <2> DEFINE mine == At(o, om, i)
             other == At(t, tm, i)
  <2>1. /\ Settle(b, o, t, om, tm, i, with) = MergeBlock(b[i], mine, other, <<i>>, with)
        /\ Settle(b, t, o, tm, om, i, Mirrored(with)) = MergeBlock(b[i], other, mine, <<i>>, Mirrored(with))
    BY Zenon DEF Settle, At
  <2>2. mine # Absent => mine.kind = b[i].kind
    <3> SUFFICES ASSUME mine # Absent PROVE mine.kind = b[i].kind
      OBVIOUS
    <3>1. Matched(om, i) /\ mine = o[PartnerOf(om, i)]
      BY DEF At
    <3>2. PICK p \in om : p[1] = i /\ PartnerOf(om, i) = p[2]
      BY <3>1 DEF Matched, PartnerOf
    <3> QED BY <3>1, <3>2 DEF Matching
  <2>3. other # Absent => other.kind = b[i].kind
    <3> SUFFICES ASSUME other # Absent PROVE other.kind = b[i].kind
      OBVIOUS
    <3>1. Matched(tm, i) /\ other = t[PartnerOf(tm, i)]
      BY DEF At
    <3>2. PICK p \in tm : p[1] = i /\ PartnerOf(tm, i) = p[2]
      BY <3>1 DEF Matched, PartnerOf
    <3> QED BY <3>1, <3>2 DEF Matching
  <2> HIDE DEF mine, other
  <2>4. Absent \notin {mine, other} => mine.kind = other.kind
    BY <2>2, <2>3
  <2> QED BY <2>1, <2>4, BlockMirrored
<1> QED BY <1>1 DEF SettledWith

\* The tokens of the one writer, turned, are tokens of the other, one for one, and stand
\* for the same blocks.
LEMMA TokensAgree ==
    ASSUME NEW o, NEW t, DOMAIN o \in SUBSET Nat, DOMAIN t \in SUBSET Nat,
           NEW om, NEW tm, OnePartner(om), OnePartner(tm), NEW stay, NEW settled
    PROVE  LET both == Coincide(o, t, om, tm)
               all == Tokens(o, t, om, tm, stay)
           IN  /\ \A x \in all : /\ Turned(both, x) \in Tokens(t, o, tm, om, stay)
                                 /\ ValueIn(settled, t, o, Turned(both, x)) = ValueIn(settled, o, t, x)
               /\ \A x, y \in all : Turned(both, x) = Turned(both, y) => x = y
<1> DEFINE both == Coincide(o, t, om, tm)
           all == Tokens(o, t, om, tm, stay)
           T(x) == Turned(both, x)
<1>1. OnePartner(both)
  BY CoincideOne
<1>2. /\ \A i : T(<< 0, i >>) = << 0, i >>
      /\ \A p \in both : T(<<1, p[1]>>) = <<1, p[2]>>
      /\ \A j : (~\E p \in both : p[1] = j) => T(<<1, j>>) = <<2, j>>
      /\ \A k : T(<<2, k>>) = <<1, k>>
  <2> HIDE DEF both
  <2> QED BY <1>1, TurnedAs
<1>3. ASSUME NEW p \in Coincide(o, t, om, tm) PROVE o[p[1]] = t[p[2]]
  <2>1. Coincide(o, t, om, tm) = CoincideBy(o, t, om, tm)
    BY CoincideMirrored
  <2> QED BY <2>1 DEF CoincideBy
<1>4. /\ OursOn(t, tm, stay) = TurnedLine(both, TheirsOn(o, t, om, tm, stay))
      /\ TheirsOn(t, o, tm, om, stay) = TurnedLine(both, OursOn(o, om, stay))
  BY EdgesTurned
<1> HIDE DEF both
<1>5. ASSUME NEW x \in all PROVE T(x) \in Tokens(t, o, tm, om, stay)
  <2>1. PICK p \in OursOn(o, om, stay) \cup TheirsOn(o, t, om, tm, stay) : x = p[2]
    BY DEF Tokens
  <2>2. <<p[1], T(p[2])>> \in OursOn(t, tm, stay) \cup TheirsOn(t, o, tm, om, stay)
    BY <1>4 DEF TurnedLine
  <2>3. <<p[1], T(p[2])>>[2] = T(x)
    BY <2>1
  <2> QED BY <2>2, <2>3 DEF Tokens
<1>6. ASSUME NEW x \in all
      PROVE  \/ \E i : x = << 0, i >> /\ T(x) = << 0, i >>
             \/ \E p \in both : x = <<1, p[1]>> /\ T(x) = <<1, p[2]>>
             \/ \E j : x = <<1, j>> /\ T(x) = <<2, j>>
             \/ \E k : x = <<2, k>> /\ T(x) = <<1, k>> /\ ~\E p \in both : p[2] = k
  <2>1. Formed(o, t, om, tm, stay, x)
    BY TokenForms
  <2>2. CASE \E i \in stay : x = << 0, i >>
    <3> HIDE DEF T, all
    <3> QED BY <1>2, <2>2
  <2>3. CASE \E j \in FreeSide(o, om) : x = <<1, j>>
    <3> HIDE DEF T, all
    <3>1. PICK j \in FreeSide(o, om) : x = <<1, j>>
      BY <2>3
    <3>2. CASE \E p \in both : p[1] = j
      BY <1>2, <3>1, <3>2
    <3>3. CASE ~\E p \in both : p[1] = j
      BY <1>2, <3>1, <3>3
    <3> QED BY <3>2, <3>3
  <2>4. CASE \E k \in FreeSide(t, tm) : x = <<2, k>> /\ ~\E p \in both : p[2] = k
    <3> HIDE DEF T, all
    <3> QED BY <1>2, <2>4
  <2> QED BY <2>1, <2>2, <2>3, <2>4 DEF Formed, both
<1> HIDE DEF T, all
<1>7. ASSUME NEW x \in all PROVE ValueIn(settled, t, o, T(x)) = ValueIn(settled, o, t, x)
  <2>1. /\ \A i, a, c : ValueIn(settled, a, c, << 0, i >>) = settled[i].value
        /\ \A i, a, c : ValueIn(settled, a, c, <<1, i>>) = a[i]
        /\ \A i, a, c : ValueIn(settled, a, c, <<2, i>>) = c[i]
    BY DEF ValueIn
  <2>2. CASE \E i : x = << 0, i >> /\ T(x) = << 0, i >>
    BY ZenonT(40), <2>1, <2>2
  <2>3. CASE \E p \in both : x = <<1, p[1]>> /\ T(x) = <<1, p[2]>>
    BY <1>3, <2>1, <2>3 DEF both
  <2>4. ASSUME NEW j, x = <<1, j>>, T(x) = <<2, j>>
        PROVE  ValueIn(settled, t, o, T(x)) = ValueIn(settled, o, t, x)
    <3>1. ValueIn(settled, t, o, <<2, j>>) = o[j] /\ ValueIn(settled, o, t, <<1, j>>) = o[j]
      BY <2>1
    <3> QED BY <2>4, <3>1
  <2>5. ASSUME NEW k, x = <<2, k>>, T(x) = <<1, k>>
        PROVE  ValueIn(settled, t, o, T(x)) = ValueIn(settled, o, t, x)
    <3>1. ValueIn(settled, t, o, <<1, k>>) = t[k] /\ ValueIn(settled, o, t, <<2, k>>) = t[k]
      BY <2>1
    <3> QED BY <2>5, <3>1
  <2> QED BY <1>6, <2>2, <2>3, <2>4, <2>5
<1>8. ASSUME NEW x \in all, NEW y \in all, T(x) = T(y) PROVE x = y
  <2>1. \A p, q \in both : p[2] = q[2] => p[1] = q[1]
    BY <1>1 DEF OnePartner
  <2>2. CASE \E i : x = << 0, i >> /\ T(x) = << 0, i >>
    BY <1>6, <1>8, <2>2
  <2>3. CASE \E p \in both : x = <<1, p[1]>> /\ T(x) = <<1, p[2]>>
    BY <1>6, <1>8, <2>1, <2>3
  <2>4. CASE \E j : x = <<1, j>> /\ T(x) = <<2, j>>
    BY <1>6, <1>8, <2>4
  <2>5. CASE \E k : x = <<2, k>> /\ T(x) = <<1, k>> /\ ~\E p \in both : p[2] = k
    BY <1>6, <1>8, <2>5
  <2> QED BY <1>6, <2>2, <2>3, <2>4, <2>5
<1> QED BY <1>5, <1>7, <1>8 DEF both, all, T

\* Where no token can be the next for the one writer, none can for the other.
LEMMA StuckTurned ==
    ASSUME NEW o, NEW t, DOMAIN o \in SUBSET Nat, DOMAIN t \in SUBSET Nat,
           NEW om, NEW tm, OnePartner(om), OnePartner(tm), NEW stay,
           NEW S \in SUBSET Tokens(o, t, om, tm, stay), Stuck(S, EdgesOn(o, t, om, tm, stay))
    PROVE  \E R \in SUBSET Tokens(t, o, tm, om, stay) : Stuck(R, EdgesOn(t, o, tm, om, stay))
<1> DEFINE both == Coincide(o, t, om, tm)
           edges == EdgesOn(o, t, om, tm, stay)
           R == {Turned(both, x) : x \in S}
<1>1. R \in SUBSET Tokens(t, o, tm, om, stay)
  BY TokensAgree
<1>2. EdgesOn(t, o, tm, om, stay) = TurnedEdges(both, edges)
  BY EdgesTurned
<1> HIDE DEF both, edges
<1>3. S # {} /\ \A x \in S : \E e \in edges : e[2] = x /\ e[1] \in S
  BY DEF Stuck, edges
<1>4. ASSUME NEW y \in R PROVE \E e \in TurnedEdges(both, edges) : e[2] = y /\ e[1] \in R
  <2>1. PICK x \in S : y = Turned(both, x)
    OBVIOUS
  <2>2. PICK e \in edges : e[2] = x /\ e[1] \in S
    BY <1>3
  <2>3. <<Turned(both, e[1]), Turned(both, e[2])>> \in TurnedEdges(both, edges)
    BY DEF TurnedEdges
  <2> QED BY <2>1, <2>2, <2>3
<1>5. R # {}
  BY <1>3
<1> HIDE DEF R
<1>6. Stuck(R, EdgesOn(t, o, tm, om, stay))
  BY <1>2, <1>4, <1>5 DEF Stuck
<1> QED BY <1>1, <1>6

\* What is put together of the tokens.
Laid(settled, o, t, order) == [n \in DOMAIN order |-> ValueIn(settled, o, t, order[n])]

\* A block is not more often in the one merge than in the other.
LEMMA CopiesAtMost ==
    ASSUME NEW o, NEW t, DOMAIN o \in SUBSET Nat, DOMAIN t \in SUBSET Nat,
           NEW om, NEW tm, OnePartner(om), OnePartner(tm), NEW stay, NEW settled,
           NEW mine \in Seq(Tokens(o, t, om, tm, stay)),
           \A m, n \in DOMAIN mine : mine[m] = mine[n] => m = n,
           NEW other \in Seq(Tokens(t, o, tm, om, stay)),
           ToSet(other) = Tokens(t, o, tm, om, stay), NEW v
    PROVE  /\ Copies(Laid(settled, o, t, mine), v) <= Copies(Laid(settled, t, o, other), v)
           /\ Copies(Laid(settled, o, t, mine), v) \in Nat
<1> DEFINE both == Coincide(o, t, om, tm)
           P == {n \in DOMAIN mine : ValueIn(settled, o, t, mine[n]) = v}
           Q == {n \in DOMAIN other : ValueIn(settled, t, o, other[n]) = v}
           Place(n) == CHOOSE m \in Q : other[m] = Turned(both, mine[n])
           f == [n \in P |-> Place(n)]
<1>1. Copies(Laid(settled, o, t, mine), v) = Cardinality(P)
  <2>1. /\ DOMAIN Laid(settled, o, t, mine) = DOMAIN mine
        /\ \A n \in DOMAIN mine : Laid(settled, o, t, mine)[n] = ValueIn(settled, o, t, mine[n])
    BY DEF Laid
  <2>2. {n \in DOMAIN Laid(settled, o, t, mine) : Laid(settled, o, t, mine)[n] = v} = P
    BY <2>1
  <2> QED BY <2>2 DEF Copies
<1>2. Copies(Laid(settled, t, o, other), v) = Cardinality(Q)
  <2>1. /\ DOMAIN Laid(settled, t, o, other) = DOMAIN other
        /\ \A n \in DOMAIN other : Laid(settled, t, o, other)[n] = ValueIn(settled, t, o, other[n])
    BY DEF Laid
  <2>2. {n \in DOMAIN Laid(settled, t, o, other) : Laid(settled, t, o, other)[n] = v} = Q
    BY <2>1
  <2> QED BY <2>2 DEF Copies
<1>3. IsFiniteSet(P) /\ Cardinality(P) \in Nat /\ IsFiniteSet(Q) /\ Cardinality(Q) \in Nat
  <2>1. /\ DOMAIN mine = 1..Len(mine) /\ Len(mine) \in Nat
        /\ DOMAIN other = 1..Len(other) /\ Len(other) \in Nat
    OBVIOUS
  <2>2. IsFiniteSet(DOMAIN mine) /\ IsFiniteSet(DOMAIN other)
    BY <2>1, FS_Interval
  <2> QED BY <2>2, FS_Subset, FS_CardinalityType
<1>4. ASSUME NEW n \in P
      PROVE  Place(n) \in Q /\ other[Place(n)] = Turned(both, mine[n])
  <2>1. n \in DOMAIN mine /\ ValueIn(settled, o, t, mine[n]) = v
    OBVIOUS
  <2>2. mine[n] \in Tokens(o, t, om, tm, stay)
    BY <2>1
  <2>3. /\ Turned(both, mine[n]) \in Tokens(t, o, tm, om, stay)
        /\ ValueIn(settled, t, o, Turned(both, mine[n])) = v
    BY <2>1, <2>2, TokensAgree
  <2>4. \E m \in DOMAIN other : other[m] = Turned(both, mine[n])
    <3> HIDE DEF both
    <3> QED BY <2>3 DEF ToSet
  <2>5. \E m \in Q : other[m] = Turned(both, mine[n])
    <3> HIDE DEF both
    <3> QED BY <2>3, <2>4
  <2> HIDE DEF Q, both
  <2> QED BY <2>5
<1>5. ASSUME NEW i \in P, NEW j \in P, Place(i) = Place(j) PROVE i = j
  <2>1. Turned(both, mine[i]) = Turned(both, mine[j])
    <3> HIDE DEF Place, both
    <3> QED BY <1>4, <1>5
  <2>2. /\ i \in DOMAIN mine /\ mine[i] \in Tokens(o, t, om, tm, stay)
        /\ j \in DOMAIN mine /\ mine[j] \in Tokens(o, t, om, tm, stay)
    OBVIOUS
  <2>3. mine[i] = mine[j]
    BY <2>1, <2>2, TokensAgree
  <2> QED BY <2>2, <2>3
<1>6. f \in Injection(P, Q)
  <2>1. f \in [P -> Q]
    <3> HIDE DEF Place, P, Q
    <3> QED BY <1>4
  <2>2. \A n \in P : f[n] = Place(n)
    <3> HIDE DEF Place, P
    <3> QED OBVIOUS
  <2> HIDE DEF f, Place, P, Q
  <2> QED BY <1>5, <2>1, <2>2 DEF Injection, IsInjective
<1> HIDE DEF f, P, Q
<1>7. Cardinality(P) <= Cardinality(Q)
  BY <1>3, <1>6, FS_Injection
<1> QED BY <1>1, <1>2, <1>3, <1>7

\* What stays of the base, the order of the tokens, and what is put together.
StaysIn(b, settled) == {i \in DOMAIN b : settled[i].value # Absent}
OrderOn(o, t, om, tm, stay) == Sorted(Tokens(o, t, om, tm, stay), EdgesOn(o, t, om, tm, stay))
Clash(o, t, om, tm, stay) ==
    Collide(o, t, om, tm) \/ ToSet(OrderOn(o, t, om, tm, stay)) # Tokens(o, t, om, tm, stay)
Together(b, o, t, om, tm, settled, with) ==
    IF Clash(o, t, om, tm, StaysIn(b, settled))
    THEN Resolve("ConcurrentSequenceEdit", << >>, b, o, t, with)
    ELSE Clean(Laid(settled, o, t, OrderOn(o, t, om, tm, StaysIn(b, settled))))
Unsettled(b, settled) == UNION {settled[i].conflicts : i \in DOMAIN b}

\* A merge of sequences in these terms.
LEMMA SequenceWith ==
    ASSUME NEW b, NEW o, NEW t, NEW om, NEW tm, NEW with \in Answer, NEW settled,
           settled = SettledWith(b, o, t, om, tm, with)
    PROVE  LET result == Together(b, o, t, om, tm, settled, with)
           IN  /\ MergeSequence(b, o, t, om, tm, with) =
                      [result EXCEPT !.conflicts = @ \cup Unsettled(b, settled)]
               /\ MergeSequence(b, o, t, om, tm, with) =
                      [value |-> result.value, conflicts |-> result.conflicts \cup Unsettled(b, settled)]
<1> DEFINE result == Together(b, o, t, om, tm, settled, with)
           of == SettledWith(b, o, t, om, tm, with)
<1>1. MergeSequence(b, o, t, om, tm, with) =
          [Arrange(b, o, t, om, tm, of, with) EXCEPT !.conflicts = @ \cup Unsettled(b, of)]
  BY Zenon DEF MergeSequence, SettledWith, Unsettled
<1>2. settled = of
  OBVIOUS
<1> HIDE DEF of
<1>3. MergeSequence(b, o, t, om, tm, with) =
          [Arrange(b, o, t, om, tm, settled, with) EXCEPT !.conflicts = @ \cup Unsettled(b, settled)]
  BY <1>1, <1>2
<1>4. Arrange(b, o, t, om, tm, settled, with) = result
  BY Zenon DEF Arrange, Together, Clash, OrderOn, StaysIn, Laid, ValueIn, Tokens, EdgesOn, Kept,
               OursOn, TheirsOn
<1>5. \E v, c : result = [value |-> v, conflicts |-> c]
  <2>1. result \in {Resolve("ConcurrentSequenceEdit", << >>, b, o, t, with),
                    Clean(Laid(settled, o, t, OrderOn(o, t, om, tm, StaysIn(b, settled))))}
    BY DEF Together
  <2>2. \A x : \E v, c : Clean(x) = [value |-> v, conflicts |-> c]
    BY DEF Clean
  <2>3. \E v, c : Resolve("ConcurrentSequenceEdit", << >>, b, o, t, with) = [value |-> v, conflicts |-> c]
    BY <2>2 DEF Resolve, Answer
  <2> HIDE DEF result
  <2> QED BY <2>1, <2>2, <2>3
<1> HIDE DEF result
<1> QED BY <1>3, <1>4, <1>5 DEF result

\* Additions collide for both writers or for neither.
LEMMA CollideMirrored ==
    ASSUME NEW o, NEW t, NEW om, NEW tm
    PROVE  Collide(o, t, om, tm) <=> Collide(t, o, tm, om)
<1>1. ASSUME NEW x, NEW y, NEW xm, NEW ym, Collide(x, y, xm, ym) PROVE Collide(y, x, ym, xm)
  <2>1. PICK j \in FreeSide(x, xm), k \in FreeSide(y, ym) :
            /\ x[j].hint # Absent /\ Identity(x[j]) = Identity(y[k])
            /\ x[j] # y[k] /\ Anchor(xm, j) = Anchor(ym, k)
    BY <1>1, Zenon DEF Collide
  <2>2. y[k].hint = x[j].hint
    BY <2>1 DEF Identity
  <2> QED BY <2>1, <2>2 DEF Collide
<1> QED BY <1>1

\* The order of a merge lists tokens once each, and all of them unless some are stuck.
LEMMA OrderLists ==
    ASSUME NEW b \in Seq(Block), NEW o \in Seq(Block), NEW t \in Seq(Block),
           NEW om, NEW tm, OnePartner(om), OnePartner(tm), NEW stay \in SUBSET DOMAIN b
    PROVE  LET all == Tokens(o, t, om, tm, stay)
               order == OrderOn(o, t, om, tm, stay)
           IN  /\ order \in Seq(all) /\ \A m, n \in DOMAIN order : order[m] = order[n] => m = n
               /\ ToSet(order) # all <=> \E S \in SUBSET all : Stuck(S, EdgesOn(o, t, om, tm, stay))
<1> DEFINE all == Tokens(o, t, om, tm, stay)
           edges == EdgesOn(o, t, om, tm, stay)
<1>1. all \in SUBSET (Nat \X Nat) /\ IsFiniteSet(all)
  BY TokensFinite
<1>2. OrderOn(o, t, om, tm, stay) = Sorted(all, edges)
  BY DEF OrderOn
<1> HIDE DEF all, edges
<1>3. Enumerates(OrderOn(o, t, om, tm, stay), all, edges)
  BY <1>1, <1>2, SortedAs
<1>4. ToSet(OrderOn(o, t, om, tm, stay)) # all <=> \E S \in SUBSET all : Stuck(S, edges)
  BY <1>3, SortedWhole
<1> QED BY <1>3, <1>4 DEF Enumerates, all, edges

\* Both writers can put the same tokens together, or neither can.
LEMMA ClashMirrored ==
    ASSUME NEW b \in Seq(Block), NEW o \in Seq(Block), NEW t \in Seq(Block),
           NEW om, NEW tm, OnePartner(om), OnePartner(tm), NEW stay \in SUBSET DOMAIN b
    PROVE  Clash(o, t, om, tm, stay) <=> Clash(t, o, tm, om, stay)
<1>0. DOMAIN o \in SUBSET Nat /\ DOMAIN t \in SUBSET Nat
  OBVIOUS
<1>1. Collide(o, t, om, tm) <=> Collide(t, o, tm, om)
  BY CollideMirrored
<1>2. /\ ToSet(OrderOn(o, t, om, tm, stay)) # Tokens(o, t, om, tm, stay)
             <=> \E S \in SUBSET Tokens(o, t, om, tm, stay) : Stuck(S, EdgesOn(o, t, om, tm, stay))
      /\ ToSet(OrderOn(t, o, tm, om, stay)) # Tokens(t, o, tm, om, stay)
             <=> \E S \in SUBSET Tokens(t, o, tm, om, stay) : Stuck(S, EdgesOn(t, o, tm, om, stay))
  BY OrderLists
<1>3. (\E S \in SUBSET Tokens(o, t, om, tm, stay) : Stuck(S, EdgesOn(o, t, om, tm, stay)))
          => \E S \in SUBSET Tokens(t, o, tm, om, stay) : Stuck(S, EdgesOn(t, o, tm, om, stay))
  BY <1>0, StuckTurned
<1>4. (\E S \in SUBSET Tokens(t, o, tm, om, stay) : Stuck(S, EdgesOn(t, o, tm, om, stay)))
          => \E S \in SUBSET Tokens(o, t, om, tm, stay) : Stuck(S, EdgesOn(o, t, om, tm, stay))
  BY <1>0, StuckTurned
<1> QED BY <1>1, <1>2, <1>3, <1>4 DEF Clash

\* The same conflicts, and the same blocks when there are none.
Alike(x, y) ==
    x.conflicts = y.conflicts /\ (x.conflicts = {} => \A v : Copies(x.value, v) = Copies(y.value, v))

\* Both writers merge the sequences alike.
LEMMA SequenceMirrored ==
    ASSUME NEW with \in Answer, NEW b \in Seq(Block), NEW o \in Seq(Block), NEW t \in Seq(Block),
           NEW om, NEW tm, Matching(om, b, o), Matching(tm, b, t)
    PROVE  Alike(MergeSequence(b, o, t, om, tm, with), MergeSequence(b, t, o, tm, om, Mirrored(with)))
<1> DEFINE settled == SettledWith(b, o, t, om, tm, with)
           stay == StaysIn(b, settled)
           mine == Together(b, o, t, om, tm, settled, with)
           other == Together(b, t, o, tm, om, settled, Mirrored(with))
           of == Unsettled(b, settled)
<1>1. settled = SettledWith(b, t, o, tm, om, Mirrored(with))
  BY SettledMirrored
<1>2. Mirrored(with) \in Answer
  BY Mirroring
<1>3. MergeSequence(b, o, t, om, tm, with) = [value |-> mine.value, conflicts |-> mine.conflicts \cup of]
  <2> HIDE DEF mine, of, settled
  <2>1. settled = SettledWith(b, o, t, om, tm, with)
    BY DEF settled
  <2> QED BY <2>1, SequenceWith DEF mine, of
<1>4. MergeSequence(b, t, o, tm, om, Mirrored(with)) =
          [value |-> other.value, conflicts |-> other.conflicts \cup of]
  <2> HIDE DEF settled
  <2> QED BY <1>1, <1>2, SequenceWith
<1> HIDE DEF settled
<1>5. stay \in SUBSET DOMAIN b
  BY DEF StaysIn
<1>6. OnePartner(om) /\ OnePartner(tm)
  BY DEF Matching
<1>7. mine = other \/ (mine.conflicts = {} /\ other.conflicts = {}
                           /\ \A v : Copies(mine.value, v) = Copies(other.value, v))
  <2>1. Clash(o, t, om, tm, stay) <=> Clash(t, o, tm, om, stay)
    <3> HIDE DEF stay
    <3> QED BY <1>5, <1>6, ClashMirrored
  <2>2. CASE Clash(o, t, om, tm, stay)
    <3>1. /\ mine = Resolve("ConcurrentSequenceEdit", << >>, b, o, t, with)
          /\ other = Resolve("ConcurrentSequenceEdit", << >>, b, t, o, Mirrored(with))
      BY <2>1, <2>2 DEF Together
    <3> HIDE DEF mine, other, stay
    <3> QED BY <3>1, Mirroring
  <2>3. CASE ~Clash(o, t, om, tm, stay)
    <3> DEFINE s == OrderOn(o, t, om, tm, stay)
               u == OrderOn(t, o, tm, om, stay)
    <3>1. mine = Clean(Laid(settled, o, t, s)) /\ other = Clean(Laid(settled, t, o, u))
      BY <2>1, <2>3 DEF Together
    <3> HIDE DEF mine, other, stay
    <3>2. /\ s \in Seq(Tokens(o, t, om, tm, stay)) /\ \A m, n \in DOMAIN s : s[m] = s[n] => m = n
          /\ u \in Seq(Tokens(t, o, tm, om, stay)) /\ \A m, n \in DOMAIN u : u[m] = u[n] => m = n
      BY <1>5, <1>6, OrderLists
    <3>3. ToSet(s) = Tokens(o, t, om, tm, stay) /\ ToSet(u) = Tokens(t, o, tm, om, stay)
      BY <2>1, <2>3 DEF Clash
    <3>4. DOMAIN o \in SUBSET Nat /\ DOMAIN t \in SUBSET Nat
      OBVIOUS
    <3> HIDE DEF s, u
    <3>5. ASSUME NEW v
          PROVE  Copies(Laid(settled, o, t, s), v) = Copies(Laid(settled, t, o, u), v)
      <4>1. /\ Copies(Laid(settled, o, t, s), v) <= Copies(Laid(settled, t, o, u), v)
            /\ Copies(Laid(settled, o, t, s), v) \in Nat
        BY <1>6, <3>2, <3>3, <3>4, CopiesAtMost
      <4>2. /\ Copies(Laid(settled, t, o, u), v) <= Copies(Laid(settled, o, t, s), v)
            /\ Copies(Laid(settled, t, o, u), v) \in Nat
        BY <1>6, <3>2, <3>3, <3>4, CopiesAtMost
      <4> QED BY <4>1, <4>2
    <3> QED BY <3>1, <3>5 DEF Clean
  <2> QED BY <2>2, <2>3
<1> HIDE DEF mine, other, of, stay
<1>8. /\ MergeSequence(b, o, t, om, tm, with).value = mine.value
      /\ MergeSequence(b, o, t, om, tm, with).conflicts = mine.conflicts \cup of
      /\ MergeSequence(b, t, o, tm, om, Mirrored(with)).value = other.value
      /\ MergeSequence(b, t, o, tm, om, Mirrored(with)).conflicts = other.conflicts \cup of
  BY <1>3, <1>4
<1> QED BY <1>7, <1>8 DEF Alike

\* What a merge of sequences returns has a value and conflicts.
Outcome(r) == \E v, c : r = [value |-> v, conflicts |-> c]

\* A merge in parts: what changed on one side only, or the sequences.
Found(b, o, t, om, tm, with) ==
    MergeValue(b, o, t, << >>, with, MergeSequence(b, o, t, om, tm, with))

\* The conflicts of a merge are those found, and the value is when there are none.
LEMMA MergeIs ==
    ASSUME NEW with \in Answer, NEW b, NEW o, NEW t, NEW om, NEW tm
    PROVE  LET found == Found(b, o, t, om, tm, with)
               all == MergeAst(b, o, t, om, tm, with)
           IN  /\ all.conflicts = found.conflicts /\ (all.conflicts = {} => all = found)
               /\ all.conflicts # {} => all.value = Absent
<1> DEFINE found == Found(b, o, t, om, tm, with)
           all == MergeAst(b, o, t, om, tm, with)
           inside == MergeSequence(b, o, t, om, tm, with)
           gone == Resolve("DeleteEdit", << >>, b, o, t, with)
<1>1. all = IF found.conflicts = {} THEN found ELSE [found EXCEPT !.value = Absent]
  BY Zenon DEF MergeAst, Found
<1>2. found = IF o = t THEN Clean(o) ELSE IF o = b THEN Clean(t) ELSE IF t = b THEN Clean(o)
               ELSE IF Absent \in {o, t} THEN gone ELSE inside
  BY Zenon DEF MergeValue, Found
<1>3. \A x : Outcome(Clean(x))
  BY DEF Clean, Outcome
<1>4. Outcome(gone)
  BY <1>3 DEF Resolve, Answer, Outcome
<1>5. Outcome(inside)
  <2>1. inside = [value |-> Together(b, o, t, om, tm, SettledWith(b, o, t, om, tm, with), with).value,
                  conflicts |-> Together(b, o, t, om, tm, SettledWith(b, o, t, om, tm, with), with).conflicts
                                    \cup Unsettled(b, SettledWith(b, o, t, om, tm, with))]
    BY SequenceWith
  <2> HIDE DEF inside
  <2> QED BY <2>1 DEF Outcome
<1> HIDE DEF inside, gone
<1>6. Outcome(found)
  <2>1. found \in {Clean(o), Clean(t), gone, inside}
    <3> HIDE DEF found
    <3> QED BY <1>2
  <2> HIDE DEF found
  <2> QED BY <1>3, <1>4, <1>5, <2>1
<1> HIDE DEF found, all
<1> QED BY <1>1, <1>6 DEF Outcome, found, all

\* Both writers get the same conflicts, and the same blocks when there are none.
LEMMA MergeMirrored ==
    ASSUME NEW with \in Answer, NEW b \in Seq(Block), NEW o \in Seq(Block), NEW t \in Seq(Block),
           NEW om, NEW tm, Matching(om, b, o), Matching(tm, b, t)
    PROVE  Alike(MergeAst(b, o, t, om, tm, with), MergeAst(b, t, o, tm, om, Mirrored(with)))
<1> DEFINE mine == Found(b, o, t, om, tm, with)
           other == Found(b, t, o, tm, om, Mirrored(with))
           inside == MergeSequence(b, o, t, om, tm, with)
           beside == MergeSequence(b, t, o, tm, om, Mirrored(with))
           gone == Resolve("DeleteEdit", << >>, b, o, t, with)
<1>1. Alike(inside, beside)
  BY SequenceMirrored
<1>2. gone = Resolve("DeleteEdit", << >>, b, t, o, Mirrored(with))
  BY Mirroring
<1>3. mine = IF o = t THEN Clean(o) ELSE IF o = b THEN Clean(t) ELSE IF t = b THEN Clean(o)
              ELSE IF Absent \in {o, t} THEN gone ELSE inside
  BY Zenon DEF MergeValue, Found
<1>4. other = IF t = o THEN Clean(t) ELSE IF t = b THEN Clean(o) ELSE IF o = b THEN Clean(t)
               ELSE IF Absent \in {t, o} THEN gone ELSE beside
  BY Zenon, <1>2 DEF MergeValue, Found
<1> HIDE DEF inside, beside, gone, mine, other
<1>5. mine = other \/ (mine = inside /\ other = beside)
  BY <1>3, <1>4
<1>6. Alike(mine, other)
  BY <1>1, <1>5 DEF Alike
<1>7. LET all == MergeAst(b, o, t, om, tm, with)
      IN  all.conflicts = mine.conflicts /\ (all.conflicts = {} => all = mine)
  BY MergeIs DEF mine
<1>8. LET all == MergeAst(b, t, o, tm, om, Mirrored(with))
      IN  all.conflicts = other.conflicts /\ (all.conflicts = {} => all = other)
  BY Mirroring, MergeIs DEF other
<1> QED BY <1>6, <1>7, <1>8 DEF Alike

Asked == {"base", "ours", "theirs"}

\* An answer is one of the three values; what is not answered is a conflict.
LEMMA Resolved ==
    ASSUME NEW with \in Answer, NEW reason, NEW at, NEW b, NEW o, NEW t
    PROVE  LET it == Resolve(reason, at, b, o, t, with)
           IN  it \in {Clean(b), Clean(o), Clean(t)} \/ (with \notin Asked /\ it.conflicts # {})
BY DEF Asked, Answer, Resolve

\* Without conflicts a field is one of its three values, and a block is a block or gone;
\* with an answer there are none.
LEMMA BlockAnswered ==
    ASSUME NEW with \in Answer, NEW b \in Block, NEW o \in Block \cup {Absent},
           NEW t \in Block \cup {Absent}, NEW at
    PROVE  LET it == MergeBlock(b, o, t, at, with)
           IN  /\ with \in Asked => it.conflicts = {}
               /\ it.conflicts = {} => it.value \in Block \cup {Absent}
<1>1. ASSUME NEW x, NEW y, NEW z, NEW where
      PROVE  LET it == MergeField(x, y, z, where, with)
             IN  it \in {Clean(x), Clean(y), Clean(z)} \/ (with \notin Asked /\ it.conflicts # {})
  <2> DEFINE kept(it) == it \in {Clean(x), Clean(y), Clean(z)} \/ (with \notin Asked /\ it.conflicts # {})
             both == Resolve("BothChanged", where, x, y, z, with)
             gone == Resolve("DeleteEdit", where, x, y, z, with)
  <2>1. kept(both) /\ kept(gone)
    BY Resolved
  <2>2. MergeField(x, y, z, where, with) =
            IF y = z THEN Clean(y) ELSE IF y = x THEN Clean(z) ELSE IF z = x THEN Clean(y)
            ELSE IF Absent \in {y, z} THEN gone ELSE both
    BY Zenon DEF MergeField, MergeValue
  <2> HIDE DEF both, gone
  <2> QED BY <2>1, <2>2
<1> DEFINE hint == MergeField(b.hint, o.hint, t.hint, Append(at, "hint"), with)
           text == MergeField(b.text, o.text, t.text, Append(at, "text"), with)
           fields == [value |-> [kind |-> o.kind, hint |-> hint.value, text |-> text.value],
                      conflicts |-> hint.conflicts \cup text.conflicts]
           gone == Resolve("DeleteEdit", at, b, o, t, with)
<1>2. MergeBlock(b, o, t, at, with) =
          IF o = t THEN Clean(o) ELSE IF o = b THEN Clean(t) ELSE IF t = b THEN Clean(o)
          ELSE IF Absent \in {o, t} THEN gone ELSE fields
  BY Zenon DEF MergeBlock, MergeValue
<1>3. gone \in {Clean(b), Clean(o), Clean(t)} \/ (with \notin Asked /\ gone.conflicts # {})
  BY Resolved
<1>4. /\ hint \in {Clean(b.hint), Clean(o.hint), Clean(t.hint)} \/ (with \notin Asked /\ hint.conflicts # {})
      /\ text \in {Clean(b.text), Clean(o.text), Clean(t.text)} \/ (with \notin Asked /\ text.conflicts # {})
  BY <1>1
<1> HIDE DEF hint, text, gone
<1>5. \A x : Clean(x).value = x /\ Clean(x).conflicts = {}
  BY DEF Clean
<1>6. Absent \notin {o, t} => /\ with \in Asked => fields.conflicts = {}
                              /\ fields.conflicts = {} => fields.value \in Block
  <2> SUFFICES ASSUME Absent \notin {o, t}
               PROVE  /\ with \in Asked => fields.conflicts = {}
                      /\ fields.conflicts = {} => fields.value \in Block
    OBVIOUS
  <2>1. \A x \in {b, o, t} : x.kind \in Kinds /\ x.hint \in Hints \cup {Absent} /\ x.text \in Texts
    BY DEF Block
  <2>2. /\ with \in Asked => hint.conflicts = {} /\ text.conflicts = {}
        /\ hint.conflicts = {} => hint.value \in Hints \cup {Absent}
        /\ text.conflicts = {} => text.value \in Texts
    BY <1>4, <1>5, <2>1
  <2>3. /\ fields.conflicts = hint.conflicts \cup text.conflicts
        /\ fields.value = [kind |-> o.kind, hint |-> hint.value, text |-> text.value]
    OBVIOUS
  <2> HIDE DEF fields
  <2> QED BY <2>1, <2>2, <2>3 DEF Block
<1> HIDE DEF fields
<1> QED BY <1>2, <1>3, <1>5, <1>6

\* With an answer there are no conflicts; without conflicts the merge is a document.
LEMMA Answered ==
    ASSUME NEW with \in Answer, NEW b \in Seq(Block), NEW o \in Seq(Block), NEW t \in Seq(Block),
           NEW om, NEW tm, Matching(om, b, o), Matching(tm, b, t)
    PROVE  LET all == MergeAst(b, o, t, om, tm, with)
           IN  /\ with \in Asked => all.conflicts = {}
               /\ all.conflicts = {} => all.value \in Seq(Block)
               /\ all.conflicts # {} => all.value = Absent
<1> DEFINE settled == SettledWith(b, o, t, om, tm, with)
           stay == StaysIn(b, settled)
           result == Together(b, o, t, om, tm, settled, with)
           inside == MergeSequence(b, o, t, om, tm, with)
           gone == Resolve("DeleteEdit", << >>, b, o, t, with)
           found == Found(b, o, t, om, tm, with)
<1>1. \A x : Clean(x).value = x /\ Clean(x).conflicts = {}
  BY DEF Clean
<1>2. ASSUME NEW i \in DOMAIN b
      PROVE  /\ with \in Asked => settled[i].conflicts = {}
             /\ settled[i].conflicts = {} => settled[i].value \in Block \cup {Absent}
  <2> DEFINE mine == At(o, om, i)
             other == At(t, tm, i)
  <2>1. settled[i] = MergeBlock(b[i], mine, other, <<i>>, with)
    BY Zenon DEF SettledWith, Settle, At
  <2>2. mine \in Block \cup {Absent}
    <3> SUFFICES ASSUME Matched(om, i) PROVE o[PartnerOf(om, i)] \in Block
      BY DEF At
    <3>1. PICK p \in om : PartnerOf(om, i) = p[2]
      BY DEF Matched, PartnerOf
    <3>2. p[2] \in 1..Len(o)
      BY DEF Matching
    <3> QED BY <3>1, <3>2
  <2>3. other \in Block \cup {Absent}
    <3> SUFFICES ASSUME Matched(tm, i) PROVE t[PartnerOf(tm, i)] \in Block
      BY DEF At
    <3>1. PICK p \in tm : PartnerOf(tm, i) = p[2]
      BY DEF Matched, PartnerOf
    <3>2. p[2] \in 1..Len(t)
      BY DEF Matching
    <3> QED BY <3>1, <3>2
  <2>4. b[i] \in Block
    OBVIOUS
  <2> DEFINE at == <<i>>
             settling == MergeBlock(b[i], mine, other, at, with)
  <2> HIDE DEF mine, other, settled, at
  <2>5. /\ with \in Asked => settling.conflicts = {}
        /\ settling.conflicts = {} => settling.value \in Block \cup {Absent}
    BY <2>2, <2>3, <2>4, BlockAnswered
  <2> QED BY <2>1, <2>5 DEF at
<1>3. /\ with \in Asked => Unsettled(b, settled) = {}
      /\ Unsettled(b, settled) = {} => \A i \in DOMAIN b : settled[i].conflicts = {}
  <2> HIDE DEF settled
  <2> QED BY <1>2 DEF Unsettled
<1>4. stay \in SUBSET DOMAIN b /\ OnePartner(om) /\ OnePartner(tm)
  BY DEF StaysIn, Matching
<1>5. ASSUME Unsettled(b, settled) = {}
      PROVE  Laid(settled, o, t, OrderOn(o, t, om, tm, stay)) \in Seq(Block)
  <2> DEFINE all == Tokens(o, t, om, tm, stay)
             s == OrderOn(o, t, om, tm, stay)
  <2>1. s \in Seq(all)
    <3> HIDE DEF stay
    <3> QED BY <1>4, OrderLists
  <2>2. ASSUME NEW x \in all PROVE ValueIn(settled, o, t, x) \in Block
    <3>1. Formed(o, t, om, tm, stay, x)
      <4> HIDE DEF stay
      <4> QED BY <1>4, TokenForms
    <3> HIDE DEF settled
    <3>2. CASE \E i \in stay : x = << 0, i >>
      <4>1. PICK i \in stay : x = << 0, i >>
        BY <3>2
      <4>2. i \in DOMAIN b /\ settled[i].value \in Block
        BY <1>2, <1>3, <1>5 DEF StaysIn
      <4> QED BY <4>1, <4>2 DEF ValueIn
    <3>3. CASE \E j \in FreeSide(o, om) : x = <<1, j>>
      <4>1. PICK j \in FreeSide(o, om) : x = <<1, j>>
        BY <3>3
      <4>2. o[j] \in Block
        BY DEF FreeSide
      <4> QED BY <4>1, <4>2 DEF ValueIn
    <3>4. CASE \E k \in FreeSide(t, tm) : x = <<2, k>>
      <4>1. PICK k \in FreeSide(t, tm) : x = <<2, k>>
        BY <3>4
      <4>2. t[k] \in Block
        BY DEF FreeSide
      <4> QED BY <4>1, <4>2 DEF ValueIn
    <3> QED BY <3>1, <3>2, <3>3, <3>4 DEF Formed
  <2> HIDE DEF all, s, stay, settled
  <2>3. Laid(settled, o, t, s) = [n \in 1..Len(s) |-> ValueIn(settled, o, t, s[n])]
    BY <2>1 DEF Laid
  <2>4. Laid(settled, o, t, s) \in [1..Len(s) -> Block]
    BY <2>1, <2>2, <2>3
  <2>5. Len(s) \in Nat
    BY <2>1
  <2> QED BY <2>4, <2>5 DEF s
<1>6. /\ with \in Asked => result.conflicts = {}
      /\ result.conflicts = {} /\ Unsettled(b, settled) = {} => result.value \in Seq(Block)
  <2> DEFINE clash == Resolve("ConcurrentSequenceEdit", << >>, b, o, t, with)
             laid == Laid(settled, o, t, OrderOn(o, t, om, tm, stay))
  <2>1. clash \in {Clean(b), Clean(o), Clean(t)} \/ (with \notin Asked /\ clash.conflicts # {})
    BY Resolved
  <2>2. result \in {clash, Clean(laid)}
    BY DEF Together
  <2> HIDE DEF result, settled, stay, clash
  <2>3. Unsettled(b, settled) = {} => laid \in Seq(Block)
    BY <1>5
  <2> HIDE DEF laid
  <2> QED BY <1>1, <2>1, <2>2, <2>3
<1>7. /\ with \in Asked => inside.conflicts = {}
      /\ inside.conflicts = {} => inside.value \in Seq(Block)
  <2>1. inside = [value |-> result.value, conflicts |-> result.conflicts \cup Unsettled(b, settled)]
    BY SequenceWith
  <2> HIDE DEF result, settled, inside
  <2> QED BY <1>3, <1>6, <2>1
<1>8. gone \in {Clean(b), Clean(o), Clean(t)} \/ (with \notin Asked /\ gone.conflicts # {})
  BY Resolved
<1>9. found = IF o = t THEN Clean(o) ELSE IF o = b THEN Clean(t) ELSE IF t = b THEN Clean(o)
               ELSE IF Absent \in {o, t} THEN gone ELSE inside
  BY Zenon DEF MergeValue, Found
<1> HIDE DEF inside, gone, result, settled, stay
<1>10. /\ with \in Asked => found.conflicts = {}
       /\ found.conflicts = {} => found.value \in Seq(Block)
  <2>1. found \in {Clean(o), Clean(t), gone, inside}
    BY <1>9
  <2> HIDE DEF found
  <2> QED BY <1>1, <1>7, <1>8, <2>1
<1>11. LET all == MergeAst(b, o, t, om, tm, with)
       IN  /\ all.conflicts = found.conflicts /\ (all.conflicts = {} => all = found)
           /\ all.conflicts # {} => all.value = Absent
  BY MergeIs
<1> HIDE DEF found
<1> QED BY <1>10, <1>11

\* What was merged last was merged with the last answer, and an answered merge stands.
AInv ==
    /\ EInv
    /\ answer \in Answer
    /\ Pending \/ MergedAs(answer)
    /\ answer # "none" => ~Pending

\* A step that leaves the merge alone leaves it answered as it was.
LEMMA AnswerStands ==
    ASSUME AInv, EInv', UNCHANGED <<base, ours, theirs, answer, merged, mirrored>>
    PROVE  AInv'
<1>1. Blocks(ours)' = Blocks(ours) /\ Blocks(theirs)' = Blocks(theirs)
  BY DEF Blocks
<1>2. Pending' = Pending
  BY DEF Pending
<1>3. MergedAs(answer) => MergedAs(answer)'
  BY <1>1 DEF MergedAs
<1> QED BY <1>2, <1>3 DEF AInv

\* No step gives an answered merge back, or merges again with another answer unrecorded.
LEMMA AnswerStep ==
    ASSUME AInv, [Next]_vars
    PROVE  AInv'
<1>0. EInv'
  BY EditingStep DEF AInv
<1>1. ASSUME Pending, UNCHANGED <<answer, merged>> PROVE AInv'
  BY <1>0, <1>1 DEF AInv, Pending
<1>2. CASE OursEdits \/ TheirsEdits
  BY <1>1, <1>2 DEF OursEdits, TheirsEdits
<1>3. CASE Merge
  <2>1. Pending /\ MergeBoth("none") /\ UNCHANGED <<base, ours, theirs, answer>>
    BY <1>3 DEF Merge
  <2>2. answer = "none" /\ answer' = "none"
    BY <2>1 DEF AInv
  <2>3. MergedAs("none")'
    BY <2>1, BothMerged
  <2>4. MergedAs(answer)'
    BY <2>2, <2>3 DEF MergedAs
  <2> QED BY <1>0, <2>2, <2>4 DEF AInv, Answer
<1>4. CASE MergeWithResolver
  <2>1. MergeBoth(answer') /\ answer' \in Answer /\ UNCHANGED <<base, ours, theirs>>
    BY <1>4, AnswersAssumption DEF MergeWithResolver
  <2>2. PICK with \in Answer : with = answer' /\ MergeBoth(with)
    BY <2>1
  <2>3. MergedAs(with)'
    BY <2>1, <2>2, BothMerged
  <2>4. MergedAs(answer)'
    BY <2>2, <2>3 DEF MergedAs
  <2>5. with # "none" => ~Pending'
    <3> SUFFICES ASSUME with # "none" PROVE ~Pending'
      OBVIOUS
    <3>1. with \in Asked
      BY DEF Asked, Answer
    <3> DEFINE b == base'
               o == Blocks(ours)'
               t == Blocks(theirs)'
               om == MatchSide(b, o)
               tm == MatchSide(b, t)
    <3>2. b \in Seq(Block) /\ Traced(base, ours)' /\ Traced(base, theirs)'
      BY <1>0 DEF EInv
    <3>3. o \in Seq(Block) /\ t \in Seq(Block)
      <4>1. \A side : Traced(base', side) => Blocks(side) \in Seq(Block)
        BY BlocksTyped
      <4>2. o = Blocks(ours') /\ t = Blocks(theirs')
        BY DEF Blocks
      <4>3. Traced(base', ours') /\ Traced(base', theirs')
        BY <3>2 DEF Traced
      <4> QED BY <4>1, <4>2, <4>3
    <3>4. merged' = MergeAst(b, o, t, om, tm, with)
      BY <2>3 DEF MergedAs
    <3> HIDE DEF b, o, t
    <3>5. Matching(om, b, o) /\ Matching(tm, b, t)
      BY <3>2, <3>3, SideMatching
    <3> HIDE DEF om, tm
    <3>6. merged'.value # Absent
      <4>1. with \in Answer /\ Absent \notin Seq(Block)
        BY AbsentApart
      <4> QED BY <3>1, <3>2, <3>3, <3>4, <3>5, <4>1, Answered
    <3> QED BY <3>6 DEF Pending, Nothing
  <2> QED BY <1>0, <2>2, <2>4, <2>5 DEF AInv
<1>5. CASE Propose \/ (\E inverse \in BOOLEAN : Review(inverse)) \/ Meanwhile
  <2>1. UNCHANGED <<base, ours, theirs, answer, merged, mirrored>>
    BY <1>5 DEF Propose, Review, Meanwhile
  <2> QED BY <1>0, <2>1, AnswerStands
<1>6. CASE Done \/ UNCHANGED vars
  <2>1. UNCHANGED <<base, ours, theirs, answer, merged, mirrored>>
    BY <1>6 DEF Done, vars
  <2> QED BY <1>0, <2>1, AnswerStands
<1> QED BY <1>2, <1>3, <1>4, <1>5, <1>6 DEF Next

\* The two writers agree: whoever calls merge_ast, with the copies in whichever order and
\* answers to match, gets the same conflicts and, without conflicts, the same blocks.
THEOREM WritersAgreeHolds == Spec => []WritersAgree
<1>1. Init => AInv
  BY EditingInit DEF AInv, Init, Pending, Answer
<1>2. AInv /\ [Next]_vars => AInv'
  BY AnswerStep
<1>3. AInv => WritersAgree
  <2> DEFINE o == Blocks(ours)
             t == Blocks(theirs)
             om == MatchSide(base, o)
             tm == MatchSide(base, t)
  <2> SUFFICES ASSUME AInv, ~Pending
               PROVE  /\ mirrored.conflicts = merged.conflicts
                      /\ answer # "none" => merged.conflicts = {}
                      /\ merged.conflicts = {} =>
                             \A block \in ToSet(merged.value) \cup ToSet(mirrored.value) :
                                 Copies(merged.value, block) = Copies(mirrored.value, block)
    BY DEF WritersAgree
  <2>1. base \in Seq(Block) /\ o \in Seq(Block) /\ t \in Seq(Block)
    BY BlocksTyped DEF AInv, EInv
  <2>2. /\ merged = MergeAst(base, o, t, om, tm, answer)
        /\ mirrored = MergeAst(base, t, o, tm, om, Mirrored(answer))
        /\ answer \in Answer
    BY DEF AInv, MergedAs
  <2> HIDE DEF o, t
  <2>3. Matching(om, base, o) /\ Matching(tm, base, t)
    BY <2>1, SideMatching
  <2> HIDE DEF om, tm
  <2>4. Alike(merged, mirrored)
    BY <2>1, <2>2, <2>3, MergeMirrored
  <2>5. answer # "none" => merged.conflicts = {}
    <3> SUFFICES ASSUME answer # "none" PROVE merged.conflicts = {}
      OBVIOUS
    <3>1. answer \in Asked
      BY <2>2 DEF Asked, Answer
    <3> QED BY <2>1, <2>2, <2>3, <3>1, Answered
  <2> QED BY <2>4, <2>5 DEF Alike
<1> QED BY <1>1, <1>2, <1>3, PTL DEF Spec

-----------------------------------------------------------------------------
(* Patches *)

\* What one edit more makes of a document, and a patch as a fold over its places.
Sofar(doc, edit) == IF doc = Absent THEN Absent ELSE Patches!ApplyAt(doc, edit)
Applying(f, S, doc, steps) == IF S = {} THEN doc ELSE Sofar(f[S \ {Max(S)}], steps[Max(S)])

\* Of some places one is the last.
LEMMA GreatestOf ==
    ASSUME NEW n \in Nat, NEW S \in SUBSET (1..n), S # {}
    PROVE  Max(S) \in S /\ \A y \in S : Max(S) >= y
<1> DEFINE R == {n - i : i \in S}
<1>0. \A i \in S : i \in 1..n /\ n - i \in Nat
  OBVIOUS
<1>1. R \in SUBSET Nat /\ R # {}
  BY <1>0
<1>2. PICK m \in R : \A k \in R : m <= k
  <2> HIDE DEF R
  <2> QED BY <1>1, LeastExists
<1>3. PICK x \in S : m = n - x
  OBVIOUS
<1>4. ASSUME NEW y \in S PROVE x >= y
  <2>1. n - y \in R
    OBVIOUS
  <2>2. n - x <= n - y
    <3> HIDE DEF R
    <3> QED BY <1>2, <1>3, <2>1
  <2> QED BY <1>0, <2>2
<1>5. \E z \in S : \A y \in S : z >= y
  BY <1>4
<1> QED BY <1>5 DEF Max

\* The fold over the first places ends.
LEMMA FoldExists ==
    ASSUME NEW n \in Nat, NEW doc, NEW steps
    PROVE  \E f : f = [S \in SUBSET (1..n) |-> Applying(f, S, doc, steps)]
<1> DEFINE To(k) == \E f : f = [S \in SUBSET (1..k) |-> Applying(f, S, doc, steps)]
           D == {k \in Nat : To(k)}
<1>1. ASSUME NEW k \in Nat, NEW S \in SUBSET (1..(k + 1)), NEW v, NEW w,
             \A R \in SUBSET (1..k) : v[R] = w[R]
      PROVE  Applying(v, S, doc, steps) = Applying(w, S, doc, steps)
  <2>1. CASE S = {}
    BY <2>1 DEF Applying
  <2>2. CASE S # {}
    <3> DEFINE x == Max(S)
    <3>1. x \in S /\ \A y \in S : x >= y
      <4>1. k + 1 \in Nat
        OBVIOUS
      <4> QED BY <2>2, <4>1, GreatestOf
    <3> HIDE DEF x
    <3>2. S \ {x} \in SUBSET (1..k)
      BY <3>1
    <3>3. v[S \ {x}] = w[S \ {x}]
      BY <1>1, <3>2
    <3> QED BY <3>3 DEF Applying, x
  <2> QED BY <2>1, <2>2
<1>2. 0 \in D
  <2> DEFINE w == [S \in SUBSET (1..0) |-> doc]
  <2>1. \A S \in SUBSET (1..0) : S = {}
    OBVIOUS
  <2>2. w = [S \in SUBSET (1..0) |-> Applying(w, S, doc, steps)]
    <3>1. \A S \in SUBSET (1..0) : Applying(w, S, doc, steps) = doc
      BY <2>1 DEF Applying
    <3> QED BY <3>1
  <2> HIDE DEF w
  <2> QED BY <2>2
<1>3. ASSUME NEW k \in Nat, k \in D PROVE k + 1 \in D
  <2>1. PICK v : v = [S \in SUBSET (1..k) |-> Applying(v, S, doc, steps)]
    BY <1>3
  <2> DEFINE w == [S \in SUBSET (1..(k + 1)) |-> Applying(v, S, doc, steps)]
  <2>2. \A S \in SUBSET (1..k) : S \in SUBSET (1..(k + 1))
    OBVIOUS
  <2>3. \A S \in SUBSET (1..k) : v[S] = w[S]
    BY <2>1, <2>2
  <2>4. \A S \in SUBSET (1..(k + 1)) : Applying(v, S, doc, steps) = Applying(w, S, doc, steps)
    <3> HIDE DEF w
    <3> QED BY <1>1, <2>3
  <2>5. w = [S \in SUBSET (1..(k + 1)) |-> Applying(w, S, doc, steps)]
    BY <2>4
  <2> HIDE DEF w
  <2> QED BY <2>5
<1> HIDE DEF D
<1>4. n \in D
  BY <1>2, <1>3, Climb
<1> QED BY <1>4 DEF D

\* The documents a patch goes through.
Run(s, doc, steps, n) == s[0] = doc /\ \A k \in 1..n : s[k] = Sofar(s[k - 1], steps[k])

\* A patch is applied by going through such documents.
LEMMA ApplyRun ==
    ASSUME NEW doc, NEW steps, NEW n \in Nat, DOMAIN steps = 1..n
    PROVE  \E s : Run(s, doc, steps, n) /\ Patches!Apply(doc, steps) = s[n]
<1> DEFINE f == CHOOSE f : f = [S \in SUBSET (1..n) |-> Applying(f, S, doc, steps)]
           s == [k \in 0..n |-> f[1..k]]
<1>1. f = [S \in SUBSET (1..n) |-> Applying(f, S, doc, steps)]
  BY FoldExists
<1>2. Patches!Apply(doc, steps) = (CHOOSE g : g = [S \in SUBSET DOMAIN steps |-> Applying(g, S, doc, steps)])[DOMAIN steps]
  BY Zenon DEF Patches!Apply, Patches!FoldLeft, Patches!MapThenFoldSet, Applying, Sofar, Patches!Refused,
               Patches!Max, Max
<1>3. Patches!Apply(doc, steps) = f[1..n]
  BY Zenon, <1>2
<1> HIDE DEF f
<1>4. f[1..0] = doc
  <2>1. 1..0 = {} /\ 1..0 \in SUBSET (1..n)
    OBVIOUS
  <2> QED BY <1>1, <2>1 DEF Applying
<1>5. ASSUME NEW k \in 1..n PROVE f[1..k] = Sofar(f[1..(k - 1)], steps[k])
  <2>1. 1..k \in SUBSET (1..n) /\ 1..k \in SUBSET (1..k) /\ 1..k # {} /\ k \in Nat
    OBVIOUS
  <2>2. Max(1..k) \in 1..k /\ \A y \in 1..k : Max(1..k) >= y
    BY <2>1, GreatestOf
  <2>3. Max(1..k) = k
    BY <2>2
  <2>4. (1..k) \ {k} = 1..(k - 1)
    OBVIOUS
  <2>5. f[1..k] = Applying(f, 1..k, doc, steps)
    BY <1>1, <2>1
  <2> QED BY <2>1, <2>3, <2>4, <2>5 DEF Applying
<1>6. s[0] = doc /\ s[n] = f[1..n] /\ \A k \in 1..n : s[k] = f[1..k] /\ s[k - 1] = f[1..(k - 1)]
  BY <1>4
<1> HIDE DEF s
<1>7. Run(s, doc, steps, n)
  BY <1>5, <1>6 DEF Run
<1> QED BY <1>3, <1>6, <1>7

\* A document goes through one sequence of documents.
LEMMA RunOnce ==
    ASSUME NEW s, NEW u, NEW doc, NEW steps, NEW n \in Nat, Run(s, doc, steps, n), Run(u, doc, steps, n)
    PROVE  \A k \in 0..n : s[k] = u[k]
<1> DEFINE D == {k \in Nat : k <= n => s[k] = u[k]}
<1>1. 0 \in D
  BY DEF Run
<1>2. ASSUME NEW k \in Nat, k \in D PROVE k + 1 \in D
  <2> SUFFICES ASSUME k + 1 <= n PROVE s[k + 1] = u[k + 1]
    OBVIOUS
  <2>1. k + 1 \in 1..n /\ (k + 1) - 1 = k /\ s[k] = u[k]
    BY <1>2
  <2>2. s[k + 1] = Sofar(s[(k + 1) - 1], steps[k + 1]) /\ u[k + 1] = Sofar(u[(k + 1) - 1], steps[k + 1])
    BY <2>1 DEF Run
  <2> QED BY <2>1, <2>2
<1> HIDE DEF D
<1>3. Nat \subseteq D
  BY <1>1, <1>2, Climb
<1> QED BY <1>3 DEF D

\* Two patches one after the other are one.
LEMMA ApplyJoin ==
    ASSUME NEW E, NEW u \in Seq(E), NEW v \in Seq(E), NEW doc
    PROVE  Patches!Apply(doc, u \o v) = Patches!Apply(Patches!Apply(doc, u), v)
<1> DEFINE m == Len(u)
           n == Len(v)
           all == u \o v
           mid == Patches!Apply(doc, u)
<1>1. m \in Nat /\ n \in Nat /\ DOMAIN u = 1..m /\ DOMAIN v = 1..n /\ m + n \in Nat
  OBVIOUS
<1>2. /\ DOMAIN all = 1..(m + n)
      /\ \A k \in 1..m : all[k] = u[k]
      /\ \A k \in 1..n : all[m + k] = v[k]
  <2>1. all \in Seq(E) /\ Len(all) = m + n
    OBVIOUS
  <2> QED BY <2>1
<1> HIDE DEF m, n, all
<1>3. PICK s : Run(s, doc, u, m) /\ mid = s[m]
  BY <1>1, ApplyRun
<1> HIDE DEF mid
<1>4. PICK r : Run(r, mid, v, n) /\ Patches!Apply(mid, v) = r[n]
  BY <1>1, ApplyRun
<1>5. PICK q : Run(q, doc, all, m + n) /\ Patches!Apply(doc, all) = q[m + n]
  BY <1>1, <1>2, ApplyRun
<1>6. Run(q, doc, u, m)
  BY <1>1, <1>2, <1>5 DEF Run
<1>7. q[m] = mid
  BY <1>1, <1>3, <1>6, RunOnce
<1> DEFINE p == [k \in 0..n |-> q[m + k]]
<1>8. Run(p, mid, v, n) /\ p[n] = q[m + n]
  <2>1. p[0] = q[m + 0] /\ p[n] = q[m + n] /\ \A k \in 1..n : p[k] = q[m + k] /\ p[k - 1] = q[m + (k - 1)]
    BY <1>1
  <2>2. ASSUME NEW k \in 1..n PROVE q[m + k] = Sofar(q[m + (k - 1)], v[k])
    <3>1. m + k \in 1..(m + n) /\ (m + k) - 1 = m + (k - 1) /\ all[m + k] = v[k]
      BY <1>1, <1>2
    <3>2. q[m + k] = Sofar(q[(m + k) - 1], all[m + k])
      BY <1>5, <3>1 DEF Run
    <3> QED BY <3>1, <3>2
  <2>3. m + 0 = m
    BY <1>1
  <2> HIDE DEF p
  <2> QED BY <1>7, <2>1, <2>2, <2>3 DEF Run
<1> HIDE DEF p
<1>9. p[n] = r[n]
  BY <1>1, <1>4, <1>8, RunOnce
<1> QED BY <1>4, <1>5, <1>8, <1>9 DEF all, mid

\* No edits leave the document, and one is applied to it.
LEMMA ApplyFew ==
    ASSUME NEW doc, NEW edit
    PROVE  Patches!Apply(doc, << >>) = doc /\ Patches!Apply(doc, <<edit>>) = Sofar(doc, edit)
<1>1. DOMAIN << >> = 1..0 /\ DOMAIN <<edit>> = 1..1 /\ <<edit>>[1] = edit
  OBVIOUS
<1>2. Patches!Apply(doc, << >>) = doc
  BY <1>1, ApplyRun DEF Run
<1>3. PICK s : Run(s, doc, <<edit>>, 1) /\ Patches!Apply(doc, <<edit>>) = s[1]
  BY <1>1, ApplyRun
<1>4. s[1] = Sofar(s[1 - 1], <<edit>>[1]) /\ s[0] = doc
  BY <1>3 DEF Run
<1> QED BY <1>1, <1>2, <1>3, <1>4

\* Sequences of steps put together one after the other.
Flattening(f, parts, i) == IF i = 1 THEN parts[i] ELSE f[i - 1] \o parts[i]

Grown(f, parts) ==
    /\ Patches!FlattenSeq(parts) = f[Len(parts)]
    /\ f[1] = parts[1]
    /\ \A i \in 2..Len(parts) : f[i] = f[i - 1] \o parts[i]

\* They are put together part by part, as they grow.
LEMMA Flattened ==
    ASSUME NEW parts, Len(parts) \in Nat \ {0}
    PROVE  \E f : Grown(f, parts)
<1> DEFINE n == Len(parts)
           To(k) == \E f : f = [i \in 1..k |-> Flattening(f, parts, i)]
           D == {k \in Nat : To(k)}
           f == CHOOSE f : f = [i \in 1..n |-> Flattening(f, parts, i)]
<1>1. n \in Nat /\ n # 0
  OBVIOUS
<1>2. 0 \in D
  <2> DEFINE w == [i \in 1..0 |-> 0]
  <2>1. w = [i \in 1..0 |-> Flattening(w, parts, i)]
    OBVIOUS
  <2> HIDE DEF w
  <2> QED BY <2>1
<1>3. ASSUME NEW k \in Nat, k \in D PROVE k + 1 \in D
  <2>1. PICK v : v = [i \in 1..k |-> Flattening(v, parts, i)]
    BY <1>3
  <2> DEFINE w == [i \in 1..(k + 1) |-> Flattening(v, parts, i)]
  <2>2. \A i \in 1..k : v[i] = w[i]
    BY <2>1
  <2>3. \A i \in 1..(k + 1) : Flattening(v, parts, i) = Flattening(w, parts, i)
    <3> HIDE DEF w
    <3> TAKE i \in 1..(k + 1)
    <3>1. CASE i = 1
      BY <3>1 DEF Flattening
    <3>2. CASE i # 1
      <4>1. i - 1 \in 1..k
        BY <3>2
      <4> QED BY <2>2, <3>2, <4>1 DEF Flattening
    <3> QED BY <3>1, <3>2
  <2>4. w = [i \in 1..(k + 1) |-> Flattening(w, parts, i)]
    BY <2>3
  <2> HIDE DEF w
  <2> QED BY <2>4
<1>4. To(n)
  <2> HIDE DEF D
  <2>1. n \in D
    BY <1>1, <1>2, <1>3, Climb
  <2> QED BY <2>1 DEF D
<1>5. f = [i \in 1..n |-> Flattening(f, parts, i)]
  BY <1>4
<1>6. Patches!FlattenSeq(parts) = f[n]
  <2>1. Patches!FlattenSeq(parts) =
            IF Len(parts) = 0 THEN parts
            ELSE (CHOOSE g : g = [i \in 1..Len(parts) |-> Flattening(g, parts, i)])[Len(parts)]
    BY Zenon DEF Patches!FlattenSeq, Flattening
  <2> QED BY Zenon, <2>1
<1> HIDE DEF f
<1>7. /\ f[1] = parts[1]
      /\ \A i \in 2..n : f[i] = f[i - 1] \o parts[i]
  <2>1. \A i \in 1..n : f[i] = Flattening(f, parts, i)
    BY <1>5
  <2>2. 1 \in 1..n /\ \A i \in 2..n : i \in 1..n /\ i # 1
    BY <1>1
  <2> HIDE DEF n
  <2>3. ASSUME NEW i \in 2..n PROVE f[i] = f[i - 1] \o parts[i]
    <3>1. f[i] = Flattening(f, parts, i) /\ i # 1
      BY <2>1, <2>2
    <3> QED BY <3>1 DEF Flattening
  <2>4. f[1] = Flattening(f, parts, 1)
    BY <2>1, <2>2
  <2> QED BY <2>3, <2>4 DEF Flattening
<1> QED BY <1>6, <1>7 DEF n, Grown

\* The edits of fields.
Field == {"hint", "kind", "text"}
Value == Kinds \cup Hints \cup Texts \cup {Absent}
Step == [op : {"add", "replace"}, path : Nat \X Field, value : Value] \cup [op : {"remove"}, path : Nat \X Field]

\* What a field may be: every field of a block is one, and with another one it is a block.
Fits(key, v) ==
    CASE key = "hint" -> v \in Hints \cup {Absent}
      [] key = "kind" -> v \in Kinds
      [] key = "text" -> v \in Texts

\* A document with another field of a block, or with another block.
Having(doc, i, key, v) == [doc EXCEPT ![i] = [doc[i] EXCEPT ![key] = v]]
Gives(doc, steps, after) == steps \in Seq(Step) /\ Patches!Apply(doc, steps) = after

\* No edits, or one that is not refused, give what they give.
LEMMA FewGive ==
    ASSUME NEW doc \in Seq(Block)
    PROVE  /\ Gives(doc, << >>, doc)
           /\ \A edit \in Step : Gives(doc, <<edit>>, Patches!ApplyAt(doc, edit))
<1>1. doc # Absent
  BY AbsentApart
<1>2. Patches!Apply(doc, << >>) = doc
  BY ApplyFew
<1>3. ASSUME NEW edit \in Step PROVE Patches!Apply(doc, <<edit>>) = Patches!ApplyAt(doc, edit)
  BY <1>1, ApplyFew DEF Sofar
<1>4. << >> \in Seq(Step) /\ \A edit \in Step : <<edit>> \in Seq(Step)
  OBVIOUS
<1> QED BY <1>2, <1>3, <1>4 DEF Gives

\* An edit of a field that is there, or is added, gives its value.
LEMMA EditGives ==
    ASSUME NEW doc \in Seq(Block), NEW i \in DOMAIN doc, NEW key, NEW edit, edit.path = <<i, key>>,
           edit.op = "add" \/ doc[i][key] # Absent
    PROVE  Patches!ApplyAt(doc, edit) =
               Having(doc, i, key, IF edit.op = "remove" THEN Absent ELSE edit.value)
<1> DEFINE at == edit.path
<1>1. Patches!ApplyAt(doc, edit) =
          IF at = << >> THEN edit.value
          ELSE IF at[1] > Len(doc) \/ (edit.op # "add" /\ doc[at[1]][at[2]] = Absent) THEN Absent
          ELSE Having(doc, at[1], at[2], IF edit.op = "remove" THEN Absent ELSE edit.value)
  BY Zenon DEF Patches!ApplyAt, Patches!Refused, Having
<1>2. at # << >> /\ at[1] = i /\ at[2] = key
  OBVIOUS
<1>3. ~(i > Len(doc))
  OBVIOUS
<1> HIDE DEF at
<1> QED BY Zenon, <1>1, <1>2, <1>3

\* The edits that make one field of another give it to the document.
LEMMA FieldApplied ==
    ASSUME NEW doc \in Seq(Block), NEW i \in DOMAIN doc, NEW key \in Field, NEW v, Fits(key, v)
    PROVE  /\ Gives(doc, Patches!BuildField(doc[i][key], v, <<i, key>>), Having(doc, i, key, v))
           /\ Having(doc, i, key, v) \in Seq(Block)
<1> DEFINE before == doc[i][key]
           path == <<i, key>>
<1>1. doc[i] \in Block /\ i \in Nat
  OBVIOUS
<1>2. before \in Value /\ v \in Value
  BY <1>1 DEF Fits, Field, Block, Value
<1>3. path \in Nat \X Field
  BY <1>1
<1>4. [doc[i] EXCEPT ![key] = v] \in Block
  BY <1>1 DEF Fits, Field, Block
<1>5. Having(doc, i, key, v) \in Seq(Block)
  BY <1>1, <1>4 DEF Having
<1>6. CASE before = v
  <2>1. Patches!BuildField(before, v, path) = << >>
    BY <1>6 DEF Patches!BuildField
  <2>2. doc[i] = [doc[i] EXCEPT ![key] = doc[i][key]]
    BY <1>1 DEF Block, Field
  <2>3. Having(doc, i, key, v) = doc
    BY <1>6, <2>2 DEF Having
  <2>4. Gives(doc, << >>, doc)
    BY FewGive
  <2> QED BY <1>5, <2>1, <2>3, <2>4
<1>7. CASE before # v /\ v = Absent
  <2> DEFINE edit == [op |-> "remove", path |-> path]
  <2>1. Patches!BuildField(before, v, path) = <<edit>>
    BY <1>7 DEF Patches!BuildField
  <2>2. edit \in Step /\ edit.path = <<i, key>> /\ edit.op = "remove"
    BY <1>3 DEF Step
  <2> HIDE DEF edit
  <2>3. Patches!ApplyAt(doc, edit) = Having(doc, i, key, v)
    BY <1>7, <2>2, EditGives
  <2>4. Gives(doc, <<edit>>, Patches!ApplyAt(doc, edit))
    BY <2>2, FewGive
  <2> QED BY <1>5, <2>1, <2>3, <2>4
<1>8. CASE before # v /\ v # Absent
  <2> DEFINE edit == [op |-> IF before = Absent THEN "add" ELSE "replace", path |-> path, value |-> v]
  <2>1. Patches!BuildField(before, v, path) = <<edit>>
    BY <1>8 DEF Patches!BuildField
  <2>2. /\ edit \in Step /\ edit.path = <<i, key>> /\ edit.value = v /\ edit.op # "remove"
        /\ edit.op = "add" \/ doc[i][key] # Absent
    BY <1>2, <1>3 DEF Step
  <2> HIDE DEF edit
  <2>3. Patches!ApplyAt(doc, edit) = Having(doc, i, key, v)
    BY <2>2, EditGives
  <2>4. Gives(doc, <<edit>>, Patches!ApplyAt(doc, edit))
    BY <2>2, FewGive
  <2> QED BY <1>5, <2>1, <2>3, <2>4
<1> QED BY <1>6, <1>7, <1>8

\* What two lists of edits give one after the other, they give together.
LEMMA GivesJoin ==
    ASSUME NEW doc, NEW u, NEW v, NEW mid, NEW after, Gives(doc, u, mid), Gives(mid, v, after)
    PROVE  Gives(doc, u \o v, after)
<1>1. u \in Seq(Step) /\ v \in Seq(Step) /\ u \o v \in Seq(Step)
  BY DEF Gives
<1>2. Patches!Apply(doc, u \o v) = Patches!Apply(Patches!Apply(doc, u), v)
  <2> HIDE DEF Step
  <2> QED BY <1>1, ApplyJoin
<1> QED BY <1>1, <1>2 DEF Gives

\* The edits that make one block of another give it to the document.
LEMMA BlockApplied ==
    ASSUME NEW doc \in Seq(Block), NEW i \in DOMAIN doc, NEW b \in Block
    PROVE  Gives(doc, Patches!BuildBlock(doc[i], b, i), [doc EXCEPT ![i] = b])
<1> DEFINE part(key) == Patches!BuildField(doc[i][key], b[key], <<i, key>>)
           parts == <<part("hint"), part("kind"), part("text")>>
           first == Having(doc, i, "hint", b.hint)
           second == Having(first, i, "kind", b.kind)
           third == Having(second, i, "text", b.text)
<1>1. Fits("hint", b.hint) /\ Fits("kind", b.kind) /\ Fits("text", b.text)
  BY DEF Fits, Block
<1>2. "hint" \in Field /\ "kind" \in Field /\ "text" \in Field
  BY DEF Field
<1>3. doc[i] \in Block
  OBVIOUS
<1>4. Gives(doc, part("hint"), first) /\ first \in Seq(Block)
  BY <1>1, <1>2, FieldApplied
<1>5. i \in DOMAIN first /\ first[i] = [doc[i] EXCEPT !.hint = b.hint]
  BY DEF Having
<1> HIDE DEF first
<1>6. first[i].kind = doc[i].kind /\ first[i].text = doc[i].text /\ first[i].hint = b.hint
  BY <1>3, <1>5 DEF Block
<1>7. Gives(first, part("kind"), second) /\ second \in Seq(Block)
  <2>1. /\ Gives(first, Patches!BuildField(first[i]["kind"], b.kind, <<i, "kind">>), second)
        /\ second \in Seq(Block)
    BY <1>1, <1>2, <1>4, <1>5, FieldApplied
  <2> QED BY <1>6, <2>1
<1>8. i \in DOMAIN second /\ second[i] = [first[i] EXCEPT !.kind = b.kind]
  BY <1>5 DEF Having
<1> HIDE DEF second
<1>9. second[i].text = doc[i].text /\ second[i].kind = b.kind /\ second[i].hint = b.hint
  <2>1. first[i] \in Block
    <3>1. first \in Seq(Block)
      BY <1>4
    <3>2. \A s \in Seq(Block) : \A k \in DOMAIN s : s[k] \in Block
      OBVIOUS
    <3> QED BY <1>5, <3>1, <3>2
  <2> QED BY <1>6, <1>8, <2>1 DEF Block
<1>10. Gives(second, part("text"), third)
  <2>1. Gives(second, Patches!BuildField(second[i]["text"], b.text, <<i, "text">>), third)
    BY <1>1, <1>2, <1>7, <1>8, FieldApplied
  <2> QED BY <1>9, <2>1
<1>11. third = [doc EXCEPT ![i] = b]
  <2>1. [second[i] EXCEPT !.text = b.text] = b
    <3>1. second[i] \in Block
      BY SMTT(30), <1>7, <1>8
    <3> QED BY <1>9, <3>1 DEF Block
  <2>2. third = [second EXCEPT ![i] = b]
    BY <2>1 DEF Having
  <2>3. second = [first EXCEPT ![i] = second[i]]
    BY <1>8 DEF second, Having
  <2>4. first = [doc EXCEPT ![i] = first[i]]
    BY <1>5 DEF first, Having
  <2> HIDE DEF third
  <2>5. [second EXCEPT ![i] = b] = [first EXCEPT ![i] = b]
    BY <2>3
  <2>6. [first EXCEPT ![i] = b] = [doc EXCEPT ![i] = b]
    BY <2>4
  <2> QED BY <2>2, <2>5, <2>6
<1>12. Patches!BuildBlock(doc[i], b, i) = Patches!FlattenSeq(parts)
  <2>1. Patches!Keys = <<"hint", "kind", "text">>
    BY DEF Patches!Keys
  <2>2. [k \in DOMAIN Patches!Keys |-> part(Patches!Keys[k])] = parts
    <3> HIDE DEF part
    <3> QED BY <2>1
  <2> QED BY <2>2 DEF Patches!BuildBlock
<1>13. parts \in Seq(Seq(Step)) /\ Len(parts) = 3
  <2>1. part("hint") \in Seq(Step) /\ part("kind") \in Seq(Step) /\ part("text") \in Seq(Step)
    BY <1>4, <1>7, <1>10 DEF Gives
  <2> HIDE DEF part
  <2> QED BY <2>1
<1>14. parts[1] = part("hint") /\ parts[2] = part("kind") /\ parts[3] = part("text")
  OBVIOUS
<1> HIDE DEF parts, part, third
<1>15. PICK f : Grown(f, parts)
  <2>1. Len(parts) \in Nat \ {0}
    BY <1>13
  <2> QED BY <2>1, Flattened
<1>16. f[1] = part("hint") /\ f[2] = f[1] \o part("kind") /\ f[3] = f[2] \o part("text")
  <2>1. 2 \in 2..3 /\ 3 \in 2..3 /\ 2 - 1 = 1 /\ 3 - 1 = 2
    OBVIOUS
  <2> QED BY <1>13, <1>14, <1>15, <2>1 DEF Grown
<1>17. Gives(doc, f[1], first)
  BY <1>4, <1>16
<1>18. Gives(doc, f[2], second)
  BY <1>7, <1>16, <1>17, GivesJoin
<1>19. Gives(doc, f[3], third)
  BY <1>10, <1>16, <1>18, GivesJoin
<1> QED BY <1>11, <1>12, <1>13, <1>15, <1>19 DEF Grown

\* The patch between two documents makes the one of the other.
LEMMA BuildApplied ==
    ASSUME NEW before \in Seq(Block), NEW after \in Seq(Block)
    PROVE  Patches!Apply(before, Patches!Build(before, after)) = after
<1>1. CASE before = after
  BY <1>1, ApplyFew DEF Patches!Build
<1>2. CASE before # after /\ Len(before) # Len(after)
  <2> DEFINE edit == [op |-> "replace", path |-> << >>, value |-> after]
  <2>1. Patches!Build(before, after) = <<edit>>
    BY <1>2 DEF Patches!Build
  <2>2. Patches!ApplyAt(before, edit) = after
    BY DEF Patches!ApplyAt
  <2>3. before # Absent
    BY AbsentApart
  <2> HIDE DEF edit
  <2> QED BY <2>1, <2>2, <2>3, ApplyFew DEF Sofar
<1>3. CASE before # after /\ Len(before) = Len(after)
  <2> DEFINE n == Len(before)
             part(i) == Patches!BuildBlock(before[i], after[i], i)
             parts == [i \in 1..n |-> part(i)]
             mix(k) == [i \in 1..n |-> IF i <= k THEN after[i] ELSE before[i]]
  <2>1. /\ n \in Nat /\ n # 0 /\ DOMAIN before = 1..n
        /\ \A i \in 1..n : before[i] \in Block /\ after[i] \in Block
        /\ before = [i \in 1..n |-> before[i]] /\ after = [i \in 1..n |-> after[i]]
    BY <1>3
  <2>2. mix(0) = before /\ mix(n) = after
    BY <2>1
  <2>3. Patches!Build(before, after) = Patches!FlattenSeq(parts)
    BY <1>3, <2>1 DEF Patches!Build
  <2>4. ASSUME NEW k \in 1..n PROVE Gives(mix(k - 1), part(k), mix(k))
    <3> DEFINE doc == mix(k - 1)
    <3>1. doc \in Seq(Block) /\ k \in DOMAIN doc /\ doc[k] = before[k]
      <4>1. doc \in [1..n -> Block]
        BY <2>1
      <4> QED BY <2>1, <4>1
    <3>2. [doc EXCEPT ![k] = after[k]] = mix(k)
      <4>1. \A i \in 1..n : i # k => (i <= k - 1 <=> i <= k)
        BY <2>1
      <4>2. [doc EXCEPT ![k] = after[k]] = [i \in 1..n |-> IF i = k THEN after[k] ELSE doc[i]]
        OBVIOUS
      <4>3. \A i \in 1..n : (IF i = k THEN after[k] ELSE doc[i]) = (IF i <= k THEN after[i] ELSE before[i])
        BY <4>1
      <4> HIDE DEF doc
      <4> QED BY <4>2, <4>3
    <3> HIDE DEF doc
    <3>3. Gives(doc, Patches!BuildBlock(doc[k], after[k], k), [doc EXCEPT ![k] = after[k]])
      BY <2>1, <3>1, BlockApplied
    <3> HIDE DEF mix
    <3> QED BY <3>1, <3>2, <3>3 DEF doc
  <2> HIDE DEF part, mix
  <2>5. parts \in Seq(Seq(Step)) /\ Len(parts) = n /\ \A i \in 1..n : parts[i] = part(i)
    <3>1. \A i \in 1..n : part(i) \in Seq(Step)
      BY <2>4 DEF Gives
    <3> HIDE DEF n
    <3> QED BY SMTT(30), <2>1, <3>1
  <2> HIDE DEF parts, n
  <2>6. PICK f : Grown(f, parts)
    BY <2>1, <2>5, Flattened
  <2> DEFINE D == {k \in Nat : k \in 1..n => Gives(before, f[k], mix(k))}
  <2>7. 0 \in D
    OBVIOUS
  <2>8. ASSUME NEW k \in Nat, k \in D PROVE k + 1 \in D
    <3> SUFFICES ASSUME k + 1 \in 1..n PROVE Gives(before, f[k + 1], mix(k + 1))
      OBVIOUS
    <3>1. (k + 1) - 1 = k
      OBVIOUS
    <3>2. Gives(mix(k), part(k + 1), mix(k + 1))
      BY <2>4, <3>1
    <3>3. CASE k = 0
      <4>1. f[1] = part(1)
        <5>1. 1 \in 1..n
          BY <2>1
        <5> QED BY <2>5, <2>6, <5>1 DEF Grown
      <4>2. k + 1 = 1
        BY <3>3
      <4> QED BY <2>2, <3>2, <3>3, <4>1, <4>2
    <3>4. CASE k # 0
      <4>1. k \in 1..n /\ k + 1 \in 2..n
        BY <2>1, <3>4
      <4>2. Gives(before, f[k], mix(k))
        BY <2>8, <4>1
      <4>3. f[k + 1] = f[k] \o part(k + 1)
        BY <2>5, <2>6, <3>1, <4>1 DEF Grown
      <4> QED BY <3>2, <4>2, <4>3, GivesJoin
    <3> QED BY <3>3, <3>4
  <2> HIDE DEF D
  <2>9. n \in D
    BY <2>1, <2>7, <2>8, Climb
  <2>10. Gives(before, f[n], after)
    <3>1. n \in 1..n
      BY <2>1
    <3> QED BY <2>2, <2>9, <3>1 DEF D
  <2> QED BY <2>3, <2>5, <2>6, <2>10 DEF Gives, Grown
<1> QED BY <1>1, <1>2, <1>3

\* The patch under review is the one between the first writer's copy and the merge that is
\* final: no other merge follows a merge without conflicts, and the copy is edited no more.
PatchStands ==
    patch # Patches!NoPatch =>
        /\ ~Pending /\ merged.conflicts = {} /\ merged.value \in Seq(Block)
        /\ patch = Patches!Reversible(Blocks(ours), merged.value)
PInv == AInv /\ PatchStands

\* A merge that has a value has no conflicts, and is a document.
LEMMA ProposedWhole ==
    ASSUME AInv, merged.value # Absent
    PROVE  ~Pending /\ merged.conflicts = {} /\ merged.value \in Seq(Block)
<1> DEFINE o == Blocks(ours)
           t == Blocks(theirs)
           om == MatchSide(base, o)
           tm == MatchSide(base, t)
<1>1. ~Pending
  BY DEF Pending, Nothing
<1>2. base \in Seq(Block) /\ o \in Seq(Block) /\ t \in Seq(Block)
  BY BlocksTyped DEF AInv, EInv
<1>3. merged = MergeAst(base, o, t, om, tm, answer) /\ answer \in Answer
  BY <1>1 DEF AInv, MergedAs
<1> HIDE DEF o, t
<1>4. Matching(om, base, o) /\ Matching(tm, base, t)
  BY <1>2, SideMatching
<1> HIDE DEF om, tm
<1> QED BY <1>1, <1>2, <1>3, <1>4, Answered

\* A patch is applied to the document it was made for, in each direction, and gives the
\* other one; on any other document it is refused.
LEMMA PatchTurns ==
    ASSUME NEW before \in Seq(Block), NEW after \in Seq(Block), NEW doc, NEW inverse \in BOOLEAN
    PROVE  Patches!ApplyReversible(doc, Patches!Reversible(before, after), inverse) =
               IF doc = before /\ ~inverse THEN after
               ELSE IF doc = after /\ inverse THEN before
               ELSE Patches!Refused
<1> DEFINE two == Patches!Reversible(before, after)
           applied == Patches!ApplyReversible(doc, two, inverse)
<1>1. /\ two.before = before /\ two.forward = Patches!Build(before, after)
      /\ two.after = after /\ two.inverse = Patches!Build(after, before)
  BY DEF Patches!Reversible
<1>2. /\ Patches!Apply(before, Patches!Build(before, after)) = after
      /\ Patches!Apply(after, Patches!Build(after, before)) = before
  BY BuildApplied
<1> HIDE DEF two
<1>3. CASE inverse
  <2>1. applied = IF doc # two.after THEN Patches!Refused ELSE Patches!Apply(doc, two.inverse)
    BY <1>3 DEF Patches!ApplyReversible
  <2> HIDE DEF applied
  <2>2. applied = IF doc = after THEN before ELSE Patches!Refused
    BY <1>1, <1>2, <2>1
  <2> QED BY <1>3, <2>2 DEF applied, two
<1>4. CASE ~inverse
  <2>1. applied = IF doc # two.before THEN Patches!Refused ELSE Patches!Apply(doc, two.forward)
    BY <1>4 DEF Patches!ApplyReversible
  <2> HIDE DEF applied
  <2>2. applied = IF doc = before THEN after ELSE Patches!Refused
    BY <1>1, <1>2, <2>1
  <2> QED BY <1>4, <2>2 DEF applied, two
<1> QED BY <1>3, <1>4

\* A document is not what a refusal gives.
LEMMA NeverRefusal == Patches!Refused \notin Seq(Block)
  BY AbsentApart DEF Patches!Refused

\* No step changes what the patch under review was made from.
LEMMA PatchStep ==
    ASSUME PInv, [Next]_vars
    PROVE  PInv'
<1> SUFFICES PatchStands'
  <2>1. AInv'
    BY AnswerStep DEF PInv
  <2> QED BY <2>1 DEF PInv
<1>1. ASSUME patch = Patches!NoPatch, UNCHANGED patch PROVE PatchStands'
  BY <1>1 DEF PatchStands, Patches!NoPatch
<1>2. ASSUME UNCHANGED <<ours, merged, patch>> PROVE PatchStands'
  <2>1. Blocks(ours)' = Blocks(ours) /\ (Pending <=> Pending')
    BY <1>2 DEF Blocks, Pending
  <2> QED BY <1>2, <2>1 DEF PInv, PatchStands, Patches!NoPatch, Patches!Reversible, Patches!Build,
                             Patches!BuildBlock, Patches!BuildField
<1>3. CASE OursEdits \/ TheirsEdits \/ Merge
  <2>1. Pending /\ UNCHANGED patch
    BY <1>3 DEF OursEdits, TheirsEdits, Merge
  <2>2. patch = Patches!NoPatch
    BY <2>1 DEF PInv, PatchStands
  <2> QED BY <1>1, <2>1, <2>2
<1>4. CASE MergeWithResolver
  <2>1. merged.conflicts # {} /\ UNCHANGED patch
    BY <1>4 DEF MergeWithResolver
  <2>2. patch = Patches!NoPatch
    BY <2>1 DEF PInv, PatchStands
  <2> QED BY <1>1, <2>1, <2>2
<1>5. CASE Propose
  <2>1. merged.value # Absent /\ patch' = Patches!Reversible(Blocks(ours), merged.value) /\ UNCHANGED <<ours, merged>>
    BY <1>5 DEF Propose
  <2>2. ~Pending /\ merged.conflicts = {} /\ merged.value \in Seq(Block)
    BY <2>1, ProposedWhole DEF PInv
  <2>3. Blocks(ours)' = Blocks(ours) /\ (Pending <=> Pending')
    BY <2>1 DEF Blocks, Pending
  <2>4. Patches!Reversible(Blocks(ours), merged.value)' = Patches!Reversible(Blocks(ours), merged.value)
    BY <2>1, <2>3
  <2> QED BY <2>1, <2>2, <2>3, <2>4 DEF PatchStands
<1>6. CASE (\E inverse \in BOOLEAN : Review(inverse)) \/ Meanwhile \/ Done \/ UNCHANGED vars
  <2>1. UNCHANGED <<ours, merged, patch>>
    BY <1>6 DEF Review, Meanwhile, Done, vars
  <2> QED BY <1>2, <2>1
<1> QED BY <1>3, <1>4, <1>5, <1>6 DEF Next

\* A patch under review turns the copy it was made for into the merge, and the merge back into
\* the copy (apply_reversible_patch), and is refused at neither: whatever else the writer made of
\* it meanwhile stays.
THEOREM TurnsHolds == Spec => Turns
<1>1. Init => PInv
  <2> SUFFICES ASSUME Init PROVE PInv
    OBVIOUS
  <2>1. AInv
    BY EditingInit DEF AInv, Init, Pending, Answer
  <2>2. patch = Patches!NoPatch
    BY DEF Init
  <2> QED BY <2>1, <2>2 DEF PInv, PatchStands
<1>2. PInv /\ [Next]_vars => PInv'
  BY PatchStep
<1> DEFINE TurnedBy(inverse) ==
             copy' = IF copy = Blocks(ours) /\ ~inverse THEN merged.value
                     ELSE IF copy = merged.value /\ inverse THEN Blocks(ours)
                     ELSE copy
<1>3. ASSUME PInv, NEW inverse \in BOOLEAN, Review(inverse) PROVE TurnedBy(inverse)
  <2>1. copy' = IF Patches!ApplyReversible(copy, patch, inverse) = Patches!Refused THEN copy
                ELSE Patches!ApplyReversible(copy, patch, inverse)
    BY <1>3 DEF Review
  <2>2. /\ patch = Patches!Reversible(Blocks(ours), merged.value)
        /\ Blocks(ours) \in Seq(Block) /\ merged.value \in Seq(Block)
    BY <1>3, BlocksTyped DEF Review, PInv, PatchStands, AInv, EInv
  <2> DEFINE applied == Patches!ApplyReversible(copy, patch, inverse)
  <2>3. applied = IF copy = Blocks(ours) /\ ~inverse THEN merged.value
                  ELSE IF copy = merged.value /\ inverse THEN Blocks(ours)
                  ELSE Patches!Refused
    BY <2>2, PatchTurns
  <2>4. Blocks(ours) # Patches!Refused /\ merged.value # Patches!Refused
    BY <2>2, NeverRefusal
  <2> HIDE DEF applied
  <2>5. copy' = IF applied = Patches!Refused THEN copy ELSE applied
    BY <2>1 DEF applied
  <2> QED BY <2>3, <2>4, <2>5
<1>4. PInv /\ [Next]_vars => [\A inverse \in BOOLEAN : Review(inverse) => TurnedBy(inverse)]_vars
  BY <1>3
<1> QED BY <1>1, <1>2, <1>4, PTL DEF Spec, Turns

-----------------------------------------------------------------------------
(* The offsets of a session *)

\* There are running totals of numbers.
LEMMA TotalExists ==
    ASSUME NEW n \in Nat, NEW d, \A k \in 1..n : d[k] \in Int
    PROVE  \E f \in [0..n -> Int] : f[0] = 0 /\ \A k \in 1..n : f[k] = f[k - 1] + d[k]
<1> DEFINE To(m) == \E f \in [0..m -> Int] : f[0] = 0 /\ \A k \in 1..m : f[k] = f[k - 1] + d[k]
           D == {m \in Nat : m <= n => To(m)}
<1>1. 0 \in D
  <2> DEFINE w == [k \in 0..0 |-> 0]
  <2>1. w \in [0..0 -> Int] /\ w[0] = 0 /\ \A k \in 1..0 : w[k] = w[k - 1] + d[k]
    OBVIOUS
  <2> HIDE DEF w
  <2> QED BY <2>1
<1>2. ASSUME NEW m \in Nat, m \in D PROVE m + 1 \in D
  <2> SUFFICES ASSUME m + 1 <= n PROVE To(m + 1)
    OBVIOUS
  <2>1. PICK v \in [0..m -> Int] : v[0] = 0 /\ \A k \in 1..m : v[k] = v[k - 1] + d[k]
    BY <1>2
  <2> DEFINE w == [k \in 0..(m + 1) |-> IF k = m + 1 THEN v[m] + d[m + 1] ELSE v[k]]
  <2>2. m \in 0..m /\ v[m] \in Int /\ d[m + 1] \in Int
    <3>1. m + 1 \in 1..n
      OBVIOUS
    <3> QED BY <2>1, <3>1
  <2>3. w \in [0..(m + 1) -> Int]
    BY <2>1, <2>2
  <2>4. w[0] = 0 /\ w[m + 1] = v[m] + d[m + 1] /\ \A k \in 0..m : w[k] = v[k]
    BY <2>1
  <2> HIDE DEF w
  <2>5. ASSUME NEW k \in 1..(m + 1) PROVE w[k] = w[k - 1] + d[k]
    <3>1. CASE k = m + 1
      <4>1. k - 1 = m /\ w[m] = v[m]
        BY <2>4, <3>1
      <4> QED BY <2>4, <3>1, <4>1
    <3>2. CASE k # m + 1
      <4>1. k \in 1..m /\ k \in 0..m /\ k - 1 \in 0..m
        BY <3>2
      <4> QED BY <2>1, <2>4, <4>1
    <3> QED BY <3>1, <3>2
  <2> QED BY <2>3, <2>4, <2>5
<1> HIDE DEF D
<1>3. n \in D
  BY <1>1, <1>2, Climb
<1> QED BY <1>3 DEF D

\* The bytes before each character.
Weighed(bytes, s) ==
    /\ bytes[0] = 0
    /\ \A k \in 0..Len(s) : bytes[k] \in Nat
    /\ \A k \in 1..Len(s) : bytes[k] = bytes[k - 1] + Width[s[k]]

\* codepoint_bytes adds the widths up.
LEMMA BytesAre ==
    ASSUME NEW s \in Seq(Char)
    PROVE  Weighed(CodepointBytes(s), s)
<1> DEFINE n == Len(s)
           d == [k \in 1..n |-> Width[s[k]]]
           Added(f, k) == IF k = 0 THEN 0 ELSE f[k - 1] + Width[s[k]]
           bytes == CHOOSE f : f = [k \in 0..n |-> Added(f, k)]
<1>1. n \in Nat /\ \A k \in 1..n : Width[s[k]] \in Nat \ {0} /\ d[k] = Width[s[k]]
  BY WidthAssumption
<1> HIDE DEF d
<1>2. PICK f \in [0..n -> Int] : f[0] = 0 /\ \A k \in 1..n : f[k] = f[k - 1] + d[k]
  <2>1. \A k \in 1..n : d[k] \in Int
    BY <1>1
  <2> HIDE DEF n
  <2> QED BY <1>1, <2>1, TotalExists
<1>3. f = [k \in 0..n |-> Added(f, k)]
  <2>1. ASSUME NEW k \in 0..n PROVE f[k] = Added(f, k)
    <3>1. CASE k = 0
      BY <1>2, <3>1
    <3>2. CASE k # 0
      <4>1. k \in 1..n
        BY <1>1, <3>2
      <4> QED BY <1>1, <1>2, <3>2, <4>1
    <3> QED BY <3>1, <3>2
  <2> HIDE DEF n, Added
  <2> QED BY <1>2, <2>1
<1>4. bytes = [k \in 0..n |-> Added(bytes, k)]
  BY <1>3
<1>5. CodepointBytes(s) = bytes
  BY Zenon DEF CodepointBytes
<1> HIDE DEF bytes
<1>6. bytes[0] = 0 /\ \A k \in 1..n : bytes[k] = bytes[k - 1] + Width[s[k]]
  <2>1. \A k \in 0..n : bytes[k] = Added(bytes, k)
    <3> HIDE DEF n, Added
    <3> QED BY <1>4
  <2>2. 0 \in 0..n /\ \A k \in 1..n : k \in 0..n /\ k # 0
    BY <1>1
  <2> HIDE DEF n
  <2> QED BY <2>1, <2>2
<1> DEFINE D == {k \in Nat : k <= n => bytes[k] \in Nat}
<1>7. 0 \in D
  BY <1>6
<1>8. ASSUME NEW k \in Nat, k \in D PROVE k + 1 \in D
  <2> SUFFICES ASSUME k + 1 <= n PROVE bytes[k + 1] \in Nat
    OBVIOUS
  <2>1. k + 1 \in 1..n /\ (k + 1) - 1 = k /\ bytes[k] \in Nat
    BY <1>8
  <2> QED BY <1>1, <1>6, <2>1
<1> HIDE DEF D
<1>9. Nat \subseteq D
  BY <1>7, <1>8, Climb
<1>10. \A k \in 0..n : bytes[k] \in Nat
  BY <1>9 DEF D
<1> QED BY <1>5, <1>6, <1>10 DEF Weighed

\* A later character begins later.
LEMMA BytesGrow ==
    ASSUME NEW s \in Seq(Char), NEW j \in 0..Len(s), NEW k \in 0..Len(s)
    PROVE  j < k <=> CodepointBytes(s)[j] < CodepointBytes(s)[k]
<1> DEFINE n == Len(s)
           b == CodepointBytes(s)
<1>1. /\ n \in Nat
      /\ \A x \in 0..n : b[x] \in Nat
      /\ \A x \in 1..n : b[x] = b[x - 1] + Width[s[x]] /\ Width[s[x]] \in Nat \ {0}
  <2>1. Weighed(b, s)
    BY BytesAre
  <2> HIDE DEF b
  <2> QED BY <2>1, WidthAssumption DEF Weighed
<1> HIDE DEF n, b
<1>2. ASSUME NEW x \in 0..n PROVE \A y \in 0..n : x < y => b[x] < b[y]
  <2> DEFINE D == {m \in Nat : x + (m + 1) <= n => b[x] < b[x + (m + 1)]}
  <2>1. 0 \in D
    <3> SUFFICES ASSUME x + (0 + 1) <= n PROVE b[x] < b[x + (0 + 1)]
      OBVIOUS
    <3>1. x + (0 + 1) \in 1..n /\ (x + (0 + 1)) - 1 = x
      BY <1>1
    <3> QED BY <1>1, <3>1
  <2>2. ASSUME NEW m \in Nat, m \in D PROVE m + 1 \in D
    <3> DEFINE y == x + ((m + 1) + 1)
    <3> SUFFICES ASSUME y <= n PROVE b[x] < b[y]
      OBVIOUS
    <3>1. y \in 1..n /\ y - 1 = x + (m + 1) /\ x + (m + 1) \in 0..n /\ x + (m + 1) <= n
      BY <1>1
    <3>2. b[x] < b[y - 1]
      BY <2>2, <3>1
    <3>3. b[y] = b[y - 1] + Width[s[y]] /\ Width[s[y]] \in Nat \ {0} /\ b[y - 1] \in Nat /\ b[x] \in Nat
      BY <1>1, <3>1
    <3> QED BY <3>2, <3>3
  <2> HIDE DEF D
  <2>3. Nat \subseteq D
    BY <2>1, <2>2, Climb
  <2> TAKE y \in 0..n
  <2> HAVE x < y
  <2>4. (y - x) - 1 \in Nat /\ x + (((y - x) - 1) + 1) = y /\ y <= n
    BY <1>1
  <2> QED BY <2>3, <2>4 DEF D
<1>3. j \in 0..n /\ k \in 0..n
  BY DEF n
<1>4. b[j] \in Nat /\ b[k] \in Nat
  BY <1>1, <1>3
<1>5. (j < k => b[j] < b[k]) /\ (k < j => b[k] < b[j])
  BY <1>2, <1>3
<1>6. j < k \/ k < j \/ j = k
  BY <1>1, <1>3
<1> QED BY <1>4, <1>5, <1>6 DEF b

\* m characters of the one text, from i on, are those of the other from j on; and so far
\* the bytes of the one are those of the other.
SameFrom(s, i, t, j, m) == \A k \in 1..m : s[i + k] = t[j + k]
AsFar(b, i, c, j, m) == \A k \in 0..m : b[i + k] - b[i] = c[j + k] - c[j]

\* The same characters are as many bytes wherever they are.
LEMMA BytesOn ==
    ASSUME NEW s \in Seq(Char), NEW t \in Seq(Char), NEW i \in Nat, NEW j \in Nat, NEW m \in Nat,
           i + m <= Len(s), j + m <= Len(t), SameFrom(s, i, t, j, m)
    PROVE  AsFar(CodepointBytes(s), i, CodepointBytes(t), j, m)
<1> DEFINE b == CodepointBytes(s)
           c == CodepointBytes(t)
           D == {k \in Nat : k <= m => b[i + k] - b[i] = c[j + k] - c[j]}
<1>0. Len(s) \in Nat /\ Len(t) \in Nat
  OBVIOUS
<1>1. Weighed(b, s) /\ Weighed(c, t)
  BY BytesAre
<1> HIDE DEF b, c
<1>2. /\ \A k \in 0..m : b[i + k] \in Nat /\ c[j + k] \in Nat
      /\ b[i] \in Nat /\ c[j] \in Nat
  <2>1. i \in 0..Len(s) /\ j \in 0..Len(t) /\ \A k \in 0..m : i + k \in 0..Len(s) /\ j + k \in 0..Len(t)
    BY <1>0
  <2> QED BY <1>1, <2>1 DEF Weighed
<1>3. 0 \in D
  BY <1>2
<1>4. ASSUME NEW k \in Nat, k \in D PROVE k + 1 \in D
  <2> SUFFICES ASSUME k + 1 <= m PROVE b[i + (k + 1)] - b[i] = c[j + (k + 1)] - c[j]
    OBVIOUS
  <2>1. b[i + k] - b[i] = c[j + k] - c[j]
    BY <1>4
  <2>2. /\ i + (k + 1) \in 1..Len(s) /\ (i + (k + 1)) - 1 = i + k
        /\ j + (k + 1) \in 1..Len(t) /\ (j + (k + 1)) - 1 = j + k
        /\ k \in 0..m /\ k + 1 \in 1..m
    BY <1>0
  <2>3. s[i + (k + 1)] = t[j + (k + 1)]
    BY <2>2 DEF SameFrom
  <2>4. Width[s[i + (k + 1)]] \in Nat
    BY <2>2, WidthAssumption
  <2>5. /\ b[i + (k + 1)] = b[i + k] + Width[s[i + (k + 1)]]
        /\ c[j + (k + 1)] = c[j + k] + Width[t[j + (k + 1)]]
    BY <1>1, <2>2 DEF Weighed
  <2>6. \A x, y, u, v, w : /\ x \in Nat /\ y \in Nat /\ u \in Nat /\ v \in Nat /\ w \in Nat
                           /\ x - u = y - v
                           => (x + w) - u = (y + w) - v
    OBVIOUS
  <2>7. b[i + k] \in Nat /\ c[j + k] \in Nat /\ b[i] \in Nat /\ c[j] \in Nat
    BY <1>2, <2>2
  <2>8. (b[i + k] + Width[s[i + (k + 1)]]) - b[i] = (c[j + k] + Width[s[i + (k + 1)]]) - c[j]
    BY SMTT(30), <2>1, <2>4, <2>6, <2>7
  <2> QED BY Zenon, <2>3, <2>5, <2>8
<1> HIDE DEF D
<1>5. Nat \subseteq D
  BY <1>3, <1>4, Climb
<1>6. \A k \in 0..m : b[i + k] - b[i] = c[j + k] - c[j]
  BY <1>5 DEF D
<1> QED BY <1>6 DEF b, c, AsFar

\* A boundary is the beginning of one character.
LEMMA CharsBack ==
    ASSUME NEW s \in Seq(Char)
    PROVE  /\ \A k \in 0..Len(s) : CharsBefore(s, CodepointBytes(s)[k]) = k
           /\ \A byte \in Boundary(s) :
                  CharsBefore(s, byte) \in 0..Len(s) /\ CodepointBytes(s)[CharsBefore(s, byte)] = byte
<1> DEFINE n == Len(s)
           b == CodepointBytes(s)
<1>1. ASSUME NEW k \in 0..n PROVE CharsBefore(s, b[k]) = k
  <2>1. \A j \in 0..n : b[j] = b[k] => j = k
    <3> TAKE j \in 0..n
    <3>1. b[j] \in Nat /\ b[k] \in Nat
      BY BytesAre DEF Weighed
    <3>2. (j < k <=> b[j] < b[k]) /\ (k < j <=> b[k] < b[j])
      BY BytesGrow
    <3> HIDE DEF b
    <3> QED BY <3>1, <3>2
  <2> HIDE DEF n, b
  <2> QED BY <2>1 DEF CharsBefore, n, b
<1>2. ASSUME NEW byte \in Boundary(s) PROVE CharsBefore(s, byte) \in 0..n /\ b[CharsBefore(s, byte)] = byte
  <2>1. \E k \in 0..n : b[k] = byte
    BY DEF Boundary
  <2> HIDE DEF n, b
  <2> QED BY <2>1 DEF CharsBefore, n, b
<1> QED BY <1>1, <1>2

\* Between the changes of a batch are gaps that stay as they are: where one begins and ends.
GapStart(batch, n) == IF n = 0 THEN 0 ELSE CharsBefore(source, batch[n].end)
GapEnd(batch, n) == IF n = Len(batch) THEN Len(source) ELSE CharsBefore(source, batch[n + 1].start)

\* Gaps and changes take turns.
TakeTurns(batch) ==
    /\ Len(batch) \in Nat /\ DOMAIN batch = 1..Len(batch)
    /\ \A n \in 0..Len(batch) :
         /\ GapStart(batch, n) \in Nat /\ GapEnd(batch, n) \in Nat
         /\ GapStart(batch, n) <= GapEnd(batch, n) /\ GapEnd(batch, n) <= Len(source)
    /\ \A n \in 1..Len(batch) :
         /\ GapEnd(batch, n - 1) <= GapStart(batch, n)
         /\ CodepointBytes(source)[GapStart(batch, n)] = batch[n].end
         /\ CodepointBytes(source)[GapEnd(batch, n - 1)] = batch[n].start
         /\ batch[n].with \in Seq(Char)
         /\ batch[n].start = batch[n].end => batch[n].with # << >>
    /\ \A i, j \in 1..Len(batch) : i < j => batch[i].end <= batch[j].start

\* What is accepted is such a batch.
LEMMA BatchTakesTurns ==
    ASSUME source \in Source, NEW batch \in Batch(source)
    PROVE  TakeTurns(batch)
<1> DEFINE N == Len(batch)
           b == CodepointBytes(source)
<1>1. source \in Seq(Char) /\ Len(source) \in Nat
  BY DEF Source, Text
<1>2. batch \in Seq(Change(source)) /\ N \in Nat /\ DOMAIN batch = 1..N
  BY DEF Batch
<1>3. \A i, j \in 1..N : i < j => batch[i].end <= batch[j].start
  BY <1>2 DEF Batch, Accepted
<1>4. ASSUME NEW n \in 1..N
      PROVE  /\ batch[n].start \in Boundary(source) /\ batch[n].end \in Boundary(source)
             /\ batch[n].start <= batch[n].end /\ batch[n].with \in Seq(Char)
             /\ batch[n].start = batch[n].end => batch[n].with # << >>
  <2>1. batch[n] \in Change(source)
    BY <1>2
  <2>2. \A s \in Text(MaxInsert) : s \in Seq(Char)
    BY DEF Text
  <2> QED BY <2>1, <2>2 DEF Change
<1>5. ASSUME NEW byte \in Boundary(source)
      PROVE  CharsBefore(source, byte) \in 0..Len(source) /\ b[CharsBefore(source, byte)] = byte
  BY <1>1, <1>5, CharsBack
<1>6. ASSUME NEW x \in Boundary(source), NEW y \in Boundary(source), x <= y
      PROVE  CharsBefore(source, x) <= CharsBefore(source, y)
  <2> DEFINE j == CharsBefore(source, x)
             k == CharsBefore(source, y)
  <2>1. j \in 0..Len(source) /\ k \in 0..Len(source) /\ b[j] = x /\ b[k] = y
    BY <1>5
  <2>2. b[j] \in Nat /\ b[k] \in Nat
    BY <1>1, <2>1, BytesAre DEF Weighed
  <2> HIDE DEF j, k
  <2>3. k < j <=> b[k] < b[j]
    BY <1>1, <2>1, BytesGrow
  <2> HIDE DEF b
  <2>4. j <= k
    BY <1>1, <1>6, <2>1, <2>2, <2>3
  <2> QED BY <2>4 DEF j, k
<1> HIDE DEF N, b
<1>7. ASSUME NEW n \in 1..N
      PROVE  /\ GapStart(batch, n) = CharsBefore(source, batch[n].end)
             /\ GapEnd(batch, n - 1) = CharsBefore(source, batch[n].start)
  <2>1. n # 0 /\ n - 1 # N /\ (n - 1) + 1 = n
    BY <1>2
  <2> QED BY <2>1 DEF GapStart, GapEnd, N
<1>8. \A n \in 0..N : n = N \/ n + 1 \in 1..N
  BY <1>2
<1>9. ASSUME NEW n \in 0..N
      PROVE  GapStart(batch, n) \in 0..Len(source) /\ GapEnd(batch, n) \in 0..Len(source)
  <2>1. GapStart(batch, n) \in 0..Len(source)
    <3>1. CASE n = 0
      BY <1>1, <3>1 DEF GapStart
    <3>2. CASE n # 0
      <4>1. n \in 1..N
        BY <1>2, <3>2
      <4> QED BY <1>4, <1>5, <1>7, <4>1
    <3> QED BY <3>1, <3>2
  <2>2. GapEnd(batch, n) \in 0..Len(source)
    <3>1. CASE n = N
      BY <1>1, <3>1 DEF GapEnd, N
    <3>2. CASE n # N
      <4>1. n + 1 \in 1..N /\ (n + 1) - 1 = n
        BY <1>2, <3>2
      <4>2. GapEnd(batch, n) = CharsBefore(source, batch[n + 1].start)
        BY <3>2 DEF GapEnd, N
      <4> QED BY <1>4, <1>5, <4>1, <4>2
    <3> QED BY <3>1, <3>2
  <2> QED BY <2>1, <2>2
<1>10. ASSUME NEW n \in 0..N PROVE GapStart(batch, n) <= GapEnd(batch, n)
  <2>1. CASE n = 0
    <3>1. GapStart(batch, n) = 0
      BY <2>1 DEF GapStart
    <3> QED BY <1>9, <3>1
  <2>2. CASE n = N
    <3>1. GapEnd(batch, n) = Len(source)
      BY <2>2 DEF GapEnd, N
    <3> QED BY <1>9, <3>1
  <2>3. CASE n # 0 /\ n # N
    <3>1. n \in 1..N /\ n + 1 \in 1..N /\ n < n + 1 /\ (n + 1) - 1 = n
      BY <1>2, <2>3
    <3>2. batch[n].end <= batch[n + 1].start
      BY <1>3, <3>1 DEF N
    <3>3. GapEnd(batch, (n + 1) - 1) = CharsBefore(source, batch[n + 1].start)
      BY <1>7, <3>1
    <3>4. GapStart(batch, n) = CharsBefore(source, batch[n].end)
      BY <1>7, <3>1
    <3> QED BY <1>4, <1>6, <3>1, <3>2, <3>3, <3>4
  <2> QED BY <2>1, <2>2, <2>3
<1>11. ASSUME NEW n \in 1..N
       PROVE  /\ GapEnd(batch, n - 1) <= GapStart(batch, n)
              /\ b[GapStart(batch, n)] = batch[n].end
              /\ b[GapEnd(batch, n - 1)] = batch[n].start
  BY <1>4, <1>5, <1>6, <1>7
<1>12. \A n \in 0..N : /\ GapStart(batch, n) \in Nat /\ GapEnd(batch, n) \in Nat
                       /\ GapEnd(batch, n) <= Len(source)
  BY <1>1, <1>9
<1> QED BY <1>2, <1>3, <1>4, <1>10, <1>11, <1>12 DEF TakeTurns, N, b

\* A gap begins behind every gap before it.
LEMMA GapsApart ==
    ASSUME NEW batch, TakeTurns(batch), NEW i \in 0..Len(batch), NEW j \in 0..Len(batch), i < j
    PROVE  GapEnd(batch, i) <= GapStart(batch, j)
<1> DEFINE N == Len(batch)
           D == {m \in Nat : i + (m + 1) <= N => GapEnd(batch, i) <= GapStart(batch, i + (m + 1))}
<1>1. /\ N \in Nat
      /\ \A n \in 0..N : GapStart(batch, n) \in Nat /\ GapEnd(batch, n) \in Nat /\ GapStart(batch, n) <= GapEnd(batch, n)
      /\ \A n \in 1..N : GapEnd(batch, n - 1) <= GapStart(batch, n)
  BY DEF TakeTurns
<1>0. i \in 0..N /\ j \in 0..N
  OBVIOUS
<1> HIDE DEF N
<1>2. 0 \in D
  <2> SUFFICES ASSUME i + (0 + 1) <= N PROVE GapEnd(batch, i) <= GapStart(batch, i + (0 + 1))
    OBVIOUS
  <2>1. i + (0 + 1) \in 1..N /\ (i + (0 + 1)) - 1 = i
    BY <1>0, <1>1
  <2> QED BY <1>1, <2>1
<1>3. ASSUME NEW m \in Nat, m \in D PROVE m + 1 \in D
  <2> DEFINE k == i + ((m + 1) + 1)
  <2> SUFFICES ASSUME k <= N PROVE GapEnd(batch, i) <= GapStart(batch, k)
    OBVIOUS
  <2>1. k \in 1..N /\ k - 1 = i + (m + 1) /\ i + (m + 1) \in 0..N /\ i + (m + 1) <= N /\ k \in 0..N
    BY <1>0, <1>1
  <2>2. GapEnd(batch, i) <= GapStart(batch, k - 1)
    BY <1>3, <2>1
  <2>3. GapStart(batch, k - 1) <= GapEnd(batch, k - 1) /\ GapEnd(batch, k - 1) <= GapStart(batch, k)
    BY <1>1, <2>1
  <2>4. GapStart(batch, k - 1) \in Nat /\ GapEnd(batch, k - 1) \in Nat /\ GapStart(batch, k) \in Nat /\ GapEnd(batch, i) \in Nat
    BY <1>0, <1>1, <2>1
  <2> HIDE DEF k
  <2> QED BY <2>2, <2>3, <2>4
<1> HIDE DEF D
<1>4. Nat \subseteq D
  BY <1>2, <1>3, Climb
<1>5. (j - i) - 1 \in Nat /\ i + (((j - i) - 1) + 1) = j /\ j <= N
  BY <1>0, <1>1
<1> QED BY <1>4, <1>5 DEF D

\* Pairs of parts put together one after the other.
Joining(f, u, v, k) == IF k = 0 THEN << >> ELSE f[k - 1] \o u[k] \o v[k]
JoinsTo(f, u, v, n) == f = [k \in 0..n |-> Joining(f, u, v, k)]

\* They can be put together.
LEMMA JoinExists ==
    ASSUME NEW n \in Nat, NEW u, NEW v
    PROVE  \E f : JoinsTo(f, u, v, n)
<1> DEFINE To(m) == \E f : f = [k \in 0..m |-> Joining(f, u, v, k)]
           D == {m \in Nat : To(m)}
<1>1. 0 \in D
  <2> DEFINE w == [k \in 0..0 |-> << >>]
  <2>1. \A k \in 0..0 : Joining(w, u, v, k) = << >>
    BY DEF Joining
  <2>2. w = [k \in 0..0 |-> Joining(w, u, v, k)]
    BY <2>1
  <2> HIDE DEF w
  <2> QED BY <2>2
<1>2. ASSUME NEW m \in Nat, m \in D PROVE m + 1 \in D
  <2>1. PICK g : g = [k \in 0..m |-> Joining(g, u, v, k)]
    BY <1>2
  <2> DEFINE w == [k \in 0..(m + 1) |-> Joining(g, u, v, k)]
  <2>2. \A k \in 0..m : g[k] = w[k]
    BY <2>1
  <2>3. \A k \in 0..(m + 1) : Joining(g, u, v, k) = Joining(w, u, v, k)
    <3> HIDE DEF w
    <3> TAKE k \in 0..(m + 1)
    <3>1. CASE k = 0
      BY <3>1 DEF Joining
    <3>2. CASE k # 0
      <4>1. k - 1 \in 0..m
        BY <3>2
      <4> QED BY <2>2, <3>2, <4>1 DEF Joining
    <3> QED BY <3>1, <3>2
  <2>4. w = [k \in 0..(m + 1) |-> Joining(w, u, v, k)]
    BY <2>3
  <2> HIDE DEF w
  <2> QED BY <2>4
<1> HIDE DEF D
<1>3. n \in D
  BY <1>1, <1>2, Climb
<1> QED BY <1>3 DEF D, JoinsTo

\* An edit puts gaps and insertions together, and the rest behind them.
Splices(done, batch, old, new) ==
    /\ done[0] = << >>
    /\ \A n \in 1..Len(batch) :
          done[n] = done[n - 1] \o SubSeq(old, GapStart(batch, n - 1) + 1, GapEnd(batch, n - 1)) \o new[n]
    /\ Spliced(batch, old, new) =
          done[Len(batch)] \o SubSeq(old, GapStart(batch, Len(batch)) + 1, Len(old))

\* It does so (reparse: the cursor goes from change to change).
LEMMA SplicedIs ==
    ASSUME NEW batch, TakeTurns(batch), NEW old, NEW new
    PROVE  \E done : Splices(done, batch, old, new)
<1> DEFINE N == Len(batch)
           gap(k) == SubSeq(old, GapStart(batch, k - 1) + 1, CharsBefore(source, batch[k].start))
           part(f, k) == IF k = 0 THEN << >> ELSE f[k - 1] \o gap(k) \o new[k]
           done == CHOOSE f : f = [k \in 0..N |-> part(f, k)]
           u == [k \in 1..N |-> gap(k)]
<1>1. N \in Nat
  BY DEF TakeTurns
<1>2. PICK g : JoinsTo(g, u, new, N)
  <2> HIDE DEF N, u
  <2> QED BY <1>1, JoinExists
<1>3. \A f : \A k \in 0..N : Joining(f, u, new, k) = part(f, k)
  <2> TAKE f
  <2> TAKE k \in 0..N
  <2>1. k = 0 \/ u[k] = gap(k)
    <3>1. k = 0 \/ k \in 1..N
      BY <1>1
    <3> HIDE DEF gap, N
    <3> QED BY <3>1
  <2> HIDE DEF gap, u, N
  <2> QED BY <2>1 DEF Joining
<1>4. g = [k \in 0..N |-> part(g, k)]
  <2>1. \A k \in 0..N : Joining(g, u, new, k) = part(g, k)
    BY <1>3
  <2> HIDE DEF part, N, u
  <2> QED BY <1>2, <2>1 DEF JoinsTo
<1>5. done = [k \in 0..N |-> part(done, k)]
  <2> HIDE DEF part, N
  <2> QED BY <1>4
<1>6. Spliced(batch, old, new) = done[N] \o SubSeq(old, GapStart(batch, N) + 1, Len(old))
  BY Zenon DEF Spliced, GapStart
<1> HIDE DEF done
<1>7. done[0] = << >>
  BY <1>1, <1>5
<1>8. ASSUME NEW n \in 1..N
      PROVE  done[n] = done[n - 1] \o SubSeq(old, GapStart(batch, n - 1) + 1, GapEnd(batch, n - 1)) \o new[n]
  <2>1. n # 0 /\ n \in 0..N /\ n - 1 # N /\ (n - 1) + 1 = n
    BY <1>1
  <2>2. done[n] = part(done, n)
    <3> HIDE DEF part, N
    <3> QED BY <1>5, <2>1
  <2>3. GapEnd(batch, n - 1) = CharsBefore(source, batch[n].start)
    BY <2>1 DEF GapEnd
  <2> QED BY <2>1, <2>2, <2>3
<1> QED BY <1>6, <1>7, <1>8 DEF Splices

\* Where the gaps begin in the edited text.
PlacesOf(at, batch) ==
    /\ at[0] = 0
    /\ \A n \in 0..Len(batch) : at[n] \in Nat
    /\ \A n \in 1..Len(batch) :
         at[n] = at[n - 1] + (GapEnd(batch, n - 1) - GapStart(batch, n - 1)) + Len(batch[n].with)

\* They begin somewhere.
LEMMA PlacesExist ==
    ASSUME NEW batch, TakeTurns(batch)
    PROVE  \E at : PlacesOf(at, batch)
<1> DEFINE N == Len(batch)
           more(k) == (GapEnd(batch, k - 1) - GapStart(batch, k - 1)) + Len(batch[k].with)
           d == [k \in 1..N |-> more(k)]
<1>1. N \in Nat /\ \A k \in 1..N : more(k) \in Nat
  <2>1. N \in Nat
    BY DEF TakeTurns
  <2>2. ASSUME NEW k \in 1..N PROVE more(k) \in Nat
    <3>1. k - 1 \in 0..N
      BY <2>1
    <3>2. /\ GapStart(batch, k - 1) \in Nat /\ GapEnd(batch, k - 1) \in Nat
          /\ GapStart(batch, k - 1) <= GapEnd(batch, k - 1)
      BY <3>1 DEF TakeTurns
    <3>3. Len(batch[k].with) \in Nat
      BY DEF TakeTurns
    <3> QED BY <3>2, <3>3
  <2> QED BY <2>1, <2>2
<1>2. \A k \in 1..N : d[k] = more(k)
  OBVIOUS
<1> HIDE DEF d, more, N
<1>3. \A k \in 1..N : d[k] \in Int
  BY <1>1, <1>2
<1>4. PICK f \in [0..N -> Int] : f[0] = 0 /\ \A k \in 1..N : f[k] = f[k - 1] + d[k]
  BY <1>1, <1>3, TotalExists
<1> DEFINE D == {k \in Nat : k <= N => f[k] \in Nat}
<1>5. 0 \in D
  BY <1>4
<1>6. ASSUME NEW k \in Nat, k \in D PROVE k + 1 \in D
  <2> SUFFICES ASSUME k + 1 <= N PROVE f[k + 1] \in Nat
    OBVIOUS
  <2>1. k + 1 \in 1..N /\ (k + 1) - 1 = k /\ f[k] \in Nat
    BY <1>1, <1>6
  <2>2. f[k + 1] = f[k] + d[k + 1] /\ d[k + 1] \in Nat
    BY <1>1, <1>2, <1>4, <2>1
  <2> QED BY <2>1, <2>2
<1> HIDE DEF D
<1>7. Nat \subseteq D
  BY <1>5, <1>6, Climb
<1>8. \A k \in 0..N : f[k] \in Nat
  BY <1>7 DEF D
<1>9. ASSUME NEW k \in 1..N
      PROVE  f[k] = f[k - 1] + (GapEnd(batch, k - 1) - GapStart(batch, k - 1)) + Len(batch[k].with)
  <2>1. k - 1 \in 0..N
    BY <1>1
  <2>2. /\ GapStart(batch, k - 1) \in Nat /\ GapEnd(batch, k - 1) \in Nat /\ Len(batch[k].with) \in Nat
    BY <2>1 DEF TakeTurns, N
  <2>3. f[k] = f[k - 1] + ((GapEnd(batch, k - 1) - GapStart(batch, k - 1)) + Len(batch[k].with)) /\ f[k - 1] \in Nat
    BY <1>2, <1>4, <1>8, <2>1 DEF more
  <2> QED BY <2>2, <2>3
<1> QED BY <1>4, <1>8, <1>9 DEF PlacesOf, N

\* A text laid out: its gaps are those of the old one, and between them is what is new.
Spread(whole, batch, old, new, at) ==
    /\ Len(whole) = at[Len(batch)] + (Len(source) - GapStart(batch, Len(batch)))
    /\ \A n \in 0..Len(batch) : \A k \in 1..(GapEnd(batch, n) - GapStart(batch, n)) :
         whole[at[n] + k] = old[GapStart(batch, n) + k]
    /\ \A n \in 1..Len(batch) : \A k \in 1..Len(batch[n].with) :
         whole[(at[n] - Len(batch[n].with)) + k] = new[n][k]

\* What three sequences put together have.
InThree(all, u, v, w) ==
    /\ Len(all) = Len(u) + Len(v) + Len(w)
    /\ \A k \in 1..Len(u) : all[k] = u[k]
    /\ \A k \in 1..Len(v) : all[Len(u) + k] = v[k]
    /\ \A k \in 1..Len(w) : all[(Len(u) + Len(v)) + k] = w[k]

\* They have it.
LEMMA JoinedParts ==
    ASSUME NEW E, NEW u \in Seq(E), NEW v \in Seq(E), NEW w \in Seq(E)
    PROVE  u \o v \o w \in Seq(E) /\ InThree(u \o v \o w, u, v, w)
<1> DEFINE two == u \o v
           all == two \o w
<1>1. two \in Seq(E) /\ Len(two) = Len(u) + Len(v) /\ Len(u) \in Nat /\ Len(v) \in Nat /\ Len(w) \in Nat
  OBVIOUS
<1>2. /\ \A k \in 1..Len(u) : two[k] = u[k]
      /\ \A k \in 1..Len(v) : two[Len(u) + k] = v[k]
  OBVIOUS
<1> HIDE DEF two
<1>3. all \in Seq(E) /\ Len(all) = Len(two) + Len(w)
  <2>1. \A x \in Seq(E) : x \o w \in Seq(E) /\ Len(x \o w) = Len(x) + Len(w)
    OBVIOUS
  <2> QED BY <1>1, <2>1
<1>4. /\ \A k \in 1..Len(two) : all[k] = two[k]
      /\ \A k \in 1..Len(w) : all[Len(two) + k] = w[k]
  BY <1>1
<1> HIDE DEF all
<1>5. \A k \in 1..Len(u) : all[k] = u[k]
  BY <1>1, <1>2, <1>4
<1>6. ASSUME NEW k \in 1..Len(v) PROVE all[Len(u) + k] = v[k]
  <2>1. Len(u) + k \in 1..Len(two)
    BY <1>1
  <2> QED BY <1>2, <1>4, <2>1
<1>7. \A k \in 1..Len(w) : all[(Len(u) + Len(v)) + k] = w[k]
  BY <1>1, <1>4
<1> QED BY <1>1, <1>3, <1>5, <1>6, <1>7 DEF all, two, InThree

\* What a part of a sequence has.
LEMMA PartHas ==
    ASSUME NEW E, NEW s \in Seq(E), NEW i \in Nat, NEW j \in Nat, i <= j, j <= Len(s)
    PROVE  /\ SubSeq(s, i + 1, j) \in Seq(E) /\ Len(SubSeq(s, i + 1, j)) = j - i
           /\ \A k \in 1..(j - i) : SubSeq(s, i + 1, j)[k] = s[i + k]
<1>1. SubSeq(s, i + 1, j) = [k \in 1..(j - i) |-> s[i + k]]
  BY DEF SubSeq
<1>2. \A k \in 1..(j - i) : i + k \in 1..Len(s)
  OBVIOUS
<1>3. [k \in 1..(j - i) |-> s[i + k]] \in [1..(j - i) -> E]
  BY <1>2
<1>4. j - i \in Nat
  OBVIOUS
<1> QED BY <1>1, <1>3, <1>4

\* What the edit has put together behind the n-th change is in its place.
SpreadTo(part, n, batch, old, new, at) ==
    /\ Len(part) = at[n]
    /\ \A i \in 0..(n - 1) : \A k \in 1..(GapEnd(batch, i) - GapStart(batch, i)) :
         at[i] + k \in 1..at[n] /\ part[at[i] + k] = old[GapStart(batch, i) + k]
    /\ \A i \in 1..n : \A k \in 1..Len(batch[i].with) :
         /\ (at[i] - Len(batch[i].with)) + k \in 1..at[n]
         /\ part[(at[i] - Len(batch[i].with)) + k] = new[i][k]

\* One gap and one change more.
LEMMA SpreadOn ==
    ASSUME NEW E, NEW batch, TakeTurns(batch), NEW at, PlacesOf(at, batch),
           NEW old \in Seq(E), Len(old) = Len(source), NEW new, NEW n \in 1..Len(batch),
           new[n] \in Seq(E), Len(new[n]) = Len(batch[n].with),
           NEW part \in Seq(E), SpreadTo(part, n - 1, batch, old, new, at)
    PROVE  LET more == part \o SubSeq(old, GapStart(batch, n - 1) + 1, GapEnd(batch, n - 1)) \o new[n]
           IN  more \in Seq(E) /\ SpreadTo(more, n, batch, old, new, at)
<1> DEFINE m == n - 1
           from == GapStart(batch, m)
           to == GapEnd(batch, m)
           gap == SubSeq(old, from + 1, to)
           wide == Len(batch[n].with)
           more == part \o gap \o new[n]
<1>1. n \in Nat /\ m \in 0..Len(batch) /\ n \in 0..Len(batch) /\ n = m + 1
  BY DEF TakeTurns
<1>2. from \in Nat /\ to \in Nat /\ from <= to /\ to <= Len(old)
  BY <1>1 DEF TakeTurns
<1>3. gap \in Seq(E) /\ Len(gap) = to - from /\ \A k \in 1..(to - from) : gap[k] = old[from + k]
  <2> HIDE DEF from, to
  <2> QED BY <1>2, PartHas
<1>4. at[m] \in Nat /\ at[n] \in Nat /\ wide \in Nat /\ at[n] = at[m] + (to - from) + wide
  <2>1. wide \in Nat
    BY DEF TakeTurns
  <2> QED BY <1>1, <2>1 DEF PlacesOf
<1>5. Len(part) = at[m]
  BY DEF SpreadTo
<1>20. /\ GapStart(batch, m) = from /\ GapEnd(batch, m) = to /\ Len(batch[n].with) = wide
      /\ SpreadTo(part, m, batch, old, new, at) /\ Len(new[n]) = wide
  OBVIOUS
<1> HIDE DEF gap, m, from, to, wide
<1>21. /\ to - from \in Nat /\ at[m] <= at[n]
       /\ at[n] - wide = at[m] + (to - from) /\ at[m] + (to - from) <= at[n]
       /\ at[m] + (to - from) + wide = at[n]
  <2>1. \A x, y, w, f, t \in Nat :
           f <= t /\ y = x + (t - f) + w
           => /\ t - f \in Nat /\ x <= y
              /\ y - w = x + (t - f) /\ x + (t - f) <= y
              /\ x + (t - f) + w = y
    OBVIOUS
  <2> QED BY SMTT(30), <1>2, <1>4, <2>1
<1>6. /\ more \in Seq(E) /\ Len(more) = Len(part) + Len(gap) + Len(new[n])
      /\ \A k \in 1..Len(part) : more[k] = part[k]
      /\ \A k \in 1..Len(gap) : more[Len(part) + k] = gap[k]
      /\ \A k \in 1..Len(new[n]) : more[(Len(part) + Len(gap)) + k] = new[n][k]
  <2>1. more \in Seq(E) /\ InThree(more, part, gap, new[n])
    BY <1>3, JoinedParts
  <2> HIDE DEF more
  <2> QED BY <2>1 DEF InThree
<1> HIDE DEF more
<1>7. Len(more) = at[n]
  BY <1>2, <1>3, <1>4, <1>5, <1>6, <1>20
<1>8. \A x \in 1..at[m] : x \in 1..at[n] /\ more[x] = part[x]
  <2>1. \A x, y \in Nat : x <= y => \A k \in 1..x : k \in 1..y
    OBVIOUS
  <2> QED BY <1>4, <1>5, <1>6, <1>21, <2>1
<1>9. ASSUME NEW i \in 0..m, NEW k \in 1..(GapEnd(batch, i) - GapStart(batch, i))
      PROVE  at[i] + k \in 1..at[n] /\ more[at[i] + k] = old[GapStart(batch, i) + k]
  <2>1. CASE i = m
    <3>1. k \in 1..(to - from)
      BY <1>20, <2>1
    <3>2. at[m] + k \in 1..at[n]
      <4>1. \A x, y, g \in Nat : x + g <= y => \A j \in 1..g : x + j \in 1..y
        OBVIOUS
      <4> QED BY <1>4, <1>21, <3>1, <4>1
    <3>3. more[at[m] + k] = gap[k] /\ gap[k] = old[from + k]
      BY <1>3, <1>5, <1>6, <3>1
    <3> QED BY <1>20, <2>1, <3>2, <3>3
  <2>2. CASE i # m
    <3>1. i \in 0..(m - 1)
      BY <1>1, <2>2
    <3>2. at[i] + k \in 1..at[m] /\ part[at[i] + k] = old[GapStart(batch, i) + k]
      BY <1>20, <3>1 DEF SpreadTo
    <3> QED BY <1>8, <3>2
  <2> QED BY <2>1, <2>2
<1>10. ASSUME NEW i \in 1..n, NEW k \in 1..Len(batch[i].with)
       PROVE  /\ (at[i] - Len(batch[i].with)) + k \in 1..at[n]
              /\ more[(at[i] - Len(batch[i].with)) + k] = new[i][k]
  <2>1. CASE i = n
    <3>1. k \in 1..wide
      BY <1>20, <2>1
    <3>2. (at[n] - wide) + k = (at[m] + (to - from)) + k /\ (at[n] - wide) + k \in 1..at[n]
      <4>1. \A x, y, g, w \in Nat : x + g + w = y => \A j \in 1..w : (x + g) + j \in 1..y
        OBVIOUS
      <4> QED BY <1>4, <1>21, <3>1, <4>1
    <3>3. more[(at[m] + (to - from)) + k] = new[n][k]
      BY <1>3, <1>5, <1>6, <1>20, <3>1
    <3> QED BY <1>20, <2>1, <3>2, <3>3
  <2>2. CASE i # n
    <3>1. i \in 1..m
      BY <1>1, <2>2
    <3>2. /\ (at[i] - Len(batch[i].with)) + k \in 1..at[m]
          /\ part[(at[i] - Len(batch[i].with)) + k] = new[i][k]
      BY <1>20, <3>1 DEF SpreadTo
    <3> QED BY <1>8, <3>2
  <2> QED BY <2>1, <2>2
<1>11. SpreadTo(more, n, batch, old, new, at)
  <2>1. n - 1 = m
    BY DEF m
  <2> QED BY <1>7, <1>9, <1>10, <2>1 DEF SpreadTo
<1> QED BY <1>6, <1>11 DEF more, gap, from, to, m

\* An edit lays a text out (reparse).
LEMMA SplicedSpread ==
    ASSUME NEW E, NEW batch, TakeTurns(batch), NEW at, PlacesOf(at, batch),
           NEW old \in Seq(E), Len(old) = Len(source), NEW new,
           \A n \in 1..Len(batch) : new[n] \in Seq(E) /\ Len(new[n]) = Len(batch[n].with)
    PROVE  /\ Spliced(batch, old, new) \in Seq(E)
           /\ Spread(Spliced(batch, old, new), batch, old, new, at)
<1> DEFINE N == Len(batch)
           whole == Spliced(batch, old, new)
<1>0. N \in Nat
  BY DEF TakeTurns
<1>1. PICK done : Splices(done, batch, old, new)
  BY SplicedIs
<1> DEFINE So(n) == done[n] \in Seq(E) /\ SpreadTo(done[n], n, batch, old, new, at)
           D == {n \in Nat : n <= N => So(n)}
<1>2. 0 \in D
  <2>1. done[0] = << >> /\ at[0] = 0
    BY <1>1 DEF Splices, PlacesOf
  <2>2. 0..(0 - 1) = {} /\ 1..0 = {}
    OBVIOUS
  <2>3. SpreadTo(done[0], 0, batch, old, new, at)
    BY <2>1, <2>2 DEF SpreadTo
  <2>4. done[0] \in Seq(E)
    BY <2>1
  <2> QED BY <2>3, <2>4
<1>3. ASSUME NEW m \in Nat, m \in D PROVE m + 1 \in D
  <2> DEFINE n == m + 1
  <2> SUFFICES ASSUME n <= N PROVE So(n)
    OBVIOUS
  <2>1. n \in 1..N /\ n - 1 = m
    BY <1>0
  <2>2. done[m] \in Seq(E) /\ SpreadTo(done[n - 1], n - 1, batch, old, new, at) /\ done[n - 1] \in Seq(E)
    BY <1>3, <2>1
  <2>3. done[n] = done[n - 1] \o SubSeq(old, GapStart(batch, n - 1) + 1, GapEnd(batch, n - 1)) \o new[n]
    BY <1>1, <2>1 DEF Splices
  <2>4. new[n] \in Seq(E) /\ Len(new[n]) = Len(batch[n].with)
    BY <2>1
  <2> DEFINE before == done[n - 1]
             more == before \o SubSeq(old, GapStart(batch, n - 1) + 1, GapEnd(batch, n - 1)) \o new[n]
  <2>5. before \in Seq(E) /\ SpreadTo(before, n - 1, batch, old, new, at)
    BY <2>2
  <2> HIDE DEF n, before
  <2>6. more \in Seq(E) /\ SpreadTo(more, n, batch, old, new, at)
    BY <2>1, <2>4, <2>5, SpreadOn
  <2> HIDE DEF more
  <2>7. done[n] = more
    BY <2>3 DEF more, before
  <2> QED BY <2>6, <2>7
<1> HIDE DEF D
<1>4. N \in D
  BY <1>0, <1>2, <1>3, Climb
<1>5. done[N] \in Seq(E) /\ SpreadTo(done[N], N, batch, old, new, at)
  BY <1>0, <1>4 DEF D
<1> DEFINE from == GapStart(batch, N)
           to == Len(source)
           gap == SubSeq(old, from + 1, to)
           part == done[N]
<1>6. from \in Nat /\ to \in Nat /\ from <= to /\ GapEnd(batch, N) = to
  <2>1. N \in 0..N
    BY <1>0
  <2>2. GapEnd(batch, N) = to
    BY DEF GapEnd
  <2> QED BY <2>1, <2>2 DEF TakeTurns
<1>7. gap \in Seq(E) /\ Len(gap) = to - from /\ \A k \in 1..(to - from) : gap[k] = old[from + k]
  <2>1. to <= Len(old)
    BY <1>6
  <2> HIDE DEF from, to
  <2> QED BY <1>6, <2>1, PartHas
<1>8. whole = part \o gap
  BY <1>1 DEF Splices
<1>9. at[N] \in Nat /\ Len(part) = at[N] /\ part \in Seq(E)
  <2>1. N \in 0..N
    BY <1>0
  <2> QED BY <1>5, <2>1 DEF PlacesOf, SpreadTo
<1> HIDE DEF part, gap, whole, So
<1>10. /\ whole \in Seq(E) /\ Len(whole) = at[N] + (to - from)
       /\ \A k \in 1..at[N] : whole[k] = part[k]
       /\ \A k \in 1..(to - from) : whole[at[N] + k] = gap[k]
  <2>1. /\ part \o gap \in Seq(E) /\ Len(part \o gap) = Len(part) + Len(gap)
        /\ \A k \in 1..Len(part) : (part \o gap)[k] = part[k]
        /\ \A k \in 1..Len(gap) : (part \o gap)[Len(part) + k] = gap[k]
    <3>1. \A u, v \in Seq(E) :
             /\ u \o v \in Seq(E) /\ Len(u \o v) = Len(u) + Len(v)
             /\ \A k \in 1..Len(u) : (u \o v)[k] = u[k]
             /\ \A k \in 1..Len(v) : (u \o v)[Len(u) + k] = v[k]
      OBVIOUS
    <3> QED BY <1>7, <1>9, <3>1
  <2> QED BY <1>7, <1>8, <1>9, <2>1
<1>11. ASSUME NEW n \in 0..N, NEW k \in 1..(GapEnd(batch, n) - GapStart(batch, n))
       PROVE  whole[at[n] + k] = old[GapStart(batch, n) + k]
  <2>1. CASE n = N
    <3>1. k \in 1..(to - from)
      BY <1>6, <2>1
    <3> QED BY <1>7, <1>10, <2>1, <3>1
  <2>2. CASE n # N
    <3>1. n \in 0..(N - 1)
      BY <1>0, <2>2
    <3>2. at[n] + k \in 1..at[N] /\ part[at[n] + k] = old[GapStart(batch, n) + k]
      BY <1>5, <3>1 DEF SpreadTo, part
    <3> QED BY <1>10, <3>2
  <2> QED BY <2>1, <2>2
<1>12. ASSUME NEW n \in 1..N, NEW k \in 1..Len(batch[n].with)
       PROVE  whole[(at[n] - Len(batch[n].with)) + k] = new[n][k]
  <2>1. /\ (at[n] - Len(batch[n].with)) + k \in 1..at[N]
        /\ part[(at[n] - Len(batch[n].with)) + k] = new[n][k]
    BY <1>5 DEF SpreadTo, part
  <2> QED BY <1>10, <2>1
<1> QED BY <1>10, <1>11, <1>12 DEF Spread, whole

\* The offsets of changes and of characters are numbers.
LEMMA OffsetsTyped ==
    ASSUME source \in Seq(Char), NEW batch, TakeTurns(batch)
    PROVE  /\ \A k \in 0..Len(source) : CodepointBytes(source)[k] \in Nat
           /\ \A n \in 1..Len(batch) :
                /\ batch[n].start \in Nat /\ batch[n].end \in Nat
                /\ ByteLen(batch[n].with) \in Nat /\ Len(batch[n].with) \in Nat
<1>1. Len(source) \in Nat /\ Len(batch) \in Nat
  BY DEF TakeTurns
<1>2. \A k \in 0..Len(source) : CodepointBytes(source)[k] \in Nat
  BY BytesAre DEF Weighed
<1>3. ASSUME NEW n \in 1..Len(batch)
      PROVE  /\ batch[n].start \in Nat /\ batch[n].end \in Nat
             /\ ByteLen(batch[n].with) \in Nat /\ Len(batch[n].with) \in Nat
  <2>1. n - 1 \in 0..Len(batch) /\ n \in 0..Len(batch)
    BY <1>1
  <2>2. GapStart(batch, n) \in 0..Len(source) /\ GapEnd(batch, n - 1) \in 0..Len(source)
    <3>1. \A m \in 0..Len(batch) : /\ GapStart(batch, m) \in Nat /\ GapEnd(batch, m) \in Nat
                                   /\ GapStart(batch, m) <= GapEnd(batch, m) /\ GapEnd(batch, m) <= Len(source)
      BY DEF TakeTurns
    <3> QED BY <1>1, <2>1, <3>1
  <2>3. /\ CodepointBytes(source)[GapStart(batch, n)] = batch[n].end
        /\ CodepointBytes(source)[GapEnd(batch, n - 1)] = batch[n].start
        /\ batch[n].with \in Seq(Char)
    BY DEF TakeTurns
  <2> DEFINE w == batch[n].with
  <2>4. Len(w) \in Nat /\ Len(w) \in 0..Len(w) /\ Weighed(CodepointBytes(w), w)
    BY <2>3, BytesAre
  <2>5. ByteLen(w) \in Nat
    BY <2>4 DEF Weighed, ByteLen
  <2> QED BY <1>2, <2>2, <2>3, <2>4, <2>5
<1> QED BY <1>2, <1>3

\* How far the n-th change moves what follows.
Shift(batch, n) == ByteLen(batch[n].with) - (batch[n].end - batch[n].start)

\* The changes move what follows by their sum.
LEMMA AdjustmentIs ==
    ASSUME source \in Seq(Char), NEW batch, TakeTurns(batch)
    PROVE  /\ Adjustment(batch, 0) = 0
           /\ \A n \in 0..Len(batch) : Adjustment(batch, n) \in Int
           /\ \A n \in 1..Len(batch) : Adjustment(batch, n) = Adjustment(batch, n - 1) + Shift(batch, n)
<1> DEFINE N == Len(batch)
           d == [k \in 1..N |-> Shift(batch, k)]
           part(f, k) == IF k = 0 THEN 0
                         ELSE f[k - 1] + ByteLen(batch[k].with) - (batch[k].end - batch[k].start)
<1>1. N \in Nat /\ \A k \in 1..N : d[k] = Shift(batch, k) /\ d[k] \in Int
  <2>1. N \in Nat
    BY DEF TakeTurns
  <2>2. \A k \in 1..N : Shift(batch, k) \in Int
    BY OffsetsTyped DEF Shift
  <2> HIDE DEF N
  <2> QED BY <2>1, <2>2
<1> HIDE DEF d
<1>2. PICK f \in [0..N -> Int] : f[0] = 0 /\ \A k \in 1..N : f[k] = f[k - 1] + d[k]
  <2>1. \A k \in 1..N : d[k] \in Int
    BY <1>1
  <2> HIDE DEF N
  <2> QED BY <1>1, <2>1, TotalExists
<1>3. \A k \in 1..N : \A x \in Int :
         x + Shift(batch, k) = x + ByteLen(batch[k].with) - (batch[k].end - batch[k].start)
  <2> TAKE k \in 1..N
  <2>1. ByteLen(batch[k].with) \in Nat /\ batch[k].end \in Nat /\ batch[k].start \in Nat
    BY OffsetsTyped
  <2> QED BY <2>1 DEF Shift
<1>4. ASSUME NEW n \in 0..N PROVE Adjustment(batch, n) = f[n]
  <2> DEFINE g == [k \in 0..n |-> f[k]]
             moved == CHOOSE m : m = [k \in 0..n |-> part(m, k)]
  <2>0. n \in Nat /\ \A k \in 0..n : k \in 0..N /\ (k = 0 \/ k \in 1..N)
    BY <1>1
  <2>1. \A k \in 0..n : g[k] = part(g, k)
    <3> TAKE k \in 0..n
    <3>1. CASE k = 0
      BY <1>2, <2>0, <3>1
    <3>2. CASE k # 0
      <4>1. k \in 1..N /\ k - 1 \in 0..n /\ k - 1 \in 0..N
        BY <2>0, <3>2
      <4>2. g[k] = f[k] /\ g[k - 1] = f[k - 1] /\ f[k - 1] \in Int
        BY <1>2, <4>1
      <4>3. g[k] = g[k - 1] + Shift(batch, k) /\ g[k - 1] \in Int
        BY <1>1, <1>2, <4>1, <4>2
      <4> HIDE DEF g
      <4> QED BY <1>3, <3>2, <4>1, <4>3
    <3> QED BY <3>1, <3>2
  <2>2. g = [k \in 0..n |-> part(g, k)]
    <3>1. g = [k \in 0..n |-> g[k]]
      OBVIOUS
    <3> HIDE DEF g, part
    <3> QED BY <2>1, <3>1
  <2>3. moved = [k \in 0..n |-> part(moved, k)]
    <3> HIDE DEF g, part
    <3> QED BY <2>2
  <2>4. Adjustment(batch, n) = moved[n]
    BY Zenon DEF Adjustment
  <2> HIDE DEF moved, g
  <2> DEFINE D == {k \in Nat : k <= n => moved[k] = f[k]}
  <2>5. 0 \in D
    BY <1>2, <2>0, <2>3
  <2>6. ASSUME NEW k \in Nat, k \in D PROVE k + 1 \in D
    <3> SUFFICES ASSUME k + 1 <= n PROVE moved[k + 1] = f[k + 1]
      OBVIOUS
    <3>1. k + 1 \in 1..N /\ k + 1 \in 0..n /\ k \in 0..N /\ (k + 1) - 1 = k /\ moved[k] = f[k]
      BY <1>1, <2>0, <2>6
    <3>2. moved[k + 1] = part(moved, k + 1)
      <4> HIDE DEF part
      <4> QED BY <2>3, <3>1
    <3>3. f[k] \in Int
      BY <1>2, <3>1
    <3>4. f[k + 1] = f[k] + Shift(batch, k + 1)
      BY <1>1, <1>2, <3>1
    <3>5. part(moved, k + 1) = moved[k] + ByteLen(batch[k + 1].with) - (batch[k + 1].end - batch[k + 1].start)
      BY <3>1
    <3> QED BY <1>3, <3>1, <3>2, <3>3, <3>4, <3>5
  <2> HIDE DEF D
  <2>7. n \in D
    BY <2>0, <2>5, <2>6, Climb
  <2> QED BY <2>0, <2>4, <2>7 DEF D
<1>5. \A n \in 1..N : n \in 0..N /\ n - 1 \in 0..N
  BY <1>1
<1>6. 0 \in 0..N
  BY <1>1
<1> HIDE DEF N
<1>7. \A n \in 0..N : Adjustment(batch, n) \in Int
  BY <1>2, <1>4
<1>8. \A n \in 1..N : Adjustment(batch, n) = Adjustment(batch, n - 1) + Shift(batch, n)
  BY <1>1, <1>2, <1>4, <1>5
<1> QED BY <1>2, <1>4, <1>6, <1>7, <1>8 DEF N

\* Every gap is inside the edited text, and one follows the other.
LEMMA PlacesInside ==
    ASSUME NEW batch, TakeTurns(batch), NEW at, PlacesOf(at, batch), NEW whole,
           Len(whole) = at[Len(batch)] + (Len(source) - GapStart(batch, Len(batch)))
    PROVE  /\ \A n \in 0..Len(batch) : at[n] + (GapEnd(batch, n) - GapStart(batch, n)) <= Len(whole)
           /\ \A i, j \in 0..Len(batch) : i < j =>
                at[i] + (GapEnd(batch, i) - GapStart(batch, i)) + Len(batch[j].with) <= at[j]
<1> DEFINE N == Len(batch)
           ends(n) == at[n] + (GapEnd(batch, n) - GapStart(batch, n))
           wide(n) == Len(batch[n].with)
<1>1. N \in Nat /\ \A n \in 0..N : ends(n) \in Nat /\ at[n] \in Nat /\ at[n] <= ends(n)
  <2>1. N \in Nat
    BY DEF TakeTurns
  <2>2. ASSUME NEW n \in 0..N PROVE ends(n) \in Nat /\ at[n] \in Nat /\ at[n] <= ends(n)
    <3>1. at[n] \in Nat
      BY DEF PlacesOf
    <3>2. /\ GapStart(batch, n) \in Nat /\ GapEnd(batch, n) \in Nat
          /\ GapStart(batch, n) <= GapEnd(batch, n)
      BY DEF TakeTurns
    <3> QED BY <3>1, <3>2
  <2> HIDE DEF N, ends
  <2> QED BY <2>1, <2>2
<1>2. \A n \in 1..N : wide(n) \in Nat /\ at[n] = ends(n - 1) + wide(n) /\ n - 1 \in 0..N /\ n \in 0..N
  <2>1. \A n \in 1..N : Len(batch[n].with) \in Nat
    BY DEF TakeTurns
  <2> QED BY <1>1, <2>1 DEF PlacesOf
<1>3. ends(N) = Len(whole)
  BY DEF GapEnd
<1> HIDE DEF N, ends, wide
<1>4. ASSUME NEW i \in 0..N PROVE \A j \in 0..N : i < j => ends(i) + wide(j) <= at[j]
  <2> DEFINE D == {m \in Nat : i + (m + 1) <= N => ends(i) + wide(i + (m + 1)) <= at[i + (m + 1)]}
  <2>1. 0 \in D
    <3> SUFFICES ASSUME i + (0 + 1) <= N PROVE ends(i) + wide(i + (0 + 1)) <= at[i + (0 + 1)]
      OBVIOUS
    <3>1. i + (0 + 1) \in 1..N /\ (i + (0 + 1)) - 1 = i
      BY <1>1
    <3> QED BY <1>1, <1>2, <3>1
  <2>2. ASSUME NEW m \in Nat, m \in D PROVE m + 1 \in D
    <3> DEFINE k == i + ((m + 1) + 1)
    <3> SUFFICES ASSUME k <= N PROVE ends(i) + wide(k) <= at[k]
      OBVIOUS
    <3>1. k \in 1..N /\ k - 1 = i + (m + 1) /\ k - 1 \in 1..N /\ k - 1 \in 0..N /\ i + (m + 1) <= N
      BY <1>1
    <3>2. ends(i) + wide(k - 1) <= at[k - 1]
      BY <2>2, <3>1
    <3>3. /\ ends(i) \in Nat /\ wide(k - 1) \in Nat /\ at[k - 1] \in Nat /\ wide(k) \in Nat
          /\ at[k - 1] <= ends(k - 1) /\ ends(k - 1) \in Nat
          /\ at[k] = ends(k - 1) + wide(k)
      BY <1>1, <1>2, <3>1
    <3> HIDE DEF k
    <3> QED BY <3>2, <3>3
  <2> HIDE DEF D
  <2>3. Nat \subseteq D
    BY <2>1, <2>2, Climb
  <2> TAKE j \in 0..N
  <2> HAVE i < j
  <2>4. (j - i) - 1 \in Nat /\ i + (((j - i) - 1) + 1) = j /\ j <= N
    BY <1>1
  <2> QED BY <2>3, <2>4 DEF D
<1>5. ASSUME NEW n \in 0..N PROVE ends(n) <= Len(whole)
  <2>1. CASE n = N
    BY <1>1, <1>3, <2>1
  <2>2. CASE n # N
    <3>1. n < N /\ N \in 0..N /\ N \in 1..N
      BY <1>1, <2>2
    <3>2. ends(n) + wide(N) <= at[N] /\ wide(N) \in Nat /\ ends(n) \in Nat /\ at[N] \in Nat /\ ends(N) \in Nat /\ at[N] <= ends(N)
      BY <1>1, <1>2, <1>4, <3>1
    <3> QED BY <1>3, <3>2
  <2> QED BY <2>1, <2>2
<1> QED BY <1>4, <1>5 DEF N, ends, wide

\* What the changes put in.
PutIn(batch) == [n \in DOMAIN batch |-> batch[n].with]

\* A character of a gap is as many bytes further on as the changes before it say.
LEMMA BytesMoved ==
    ASSUME source \in Seq(Char), NEW batch, TakeTurns(batch), NEW at, PlacesOf(at, batch),
           NEW whole \in Seq(Char), Spread(whole, batch, source, PutIn(batch), at),
           NEW n \in 0..Len(batch), NEW x \in GapStart(batch, n)..GapEnd(batch, n)
    PROVE  /\ at[n] + (x - GapStart(batch, n)) \in 0..Len(whole)
           /\ CodepointBytes(whole)[at[n] + (x - GapStart(batch, n))] =
                  CodepointBytes(source)[x] + Adjustment(batch, n)
<1> DEFINE N == Len(batch)
           b == CodepointBytes(source)
           c == CodepointBytes(whole)
           from(m) == GapStart(batch, m)
           gap(m) == GapEnd(batch, m) - GapStart(batch, m)
           adj(m) == Adjustment(batch, m)
<1>1. N \in Nat /\ Len(whole) \in Nat /\ Len(source) \in Nat
  BY DEF TakeTurns
<1>2. ASSUME NEW m \in 0..N
      PROVE  /\ from(m) \in Nat /\ gap(m) \in Nat /\ at[m] \in Nat /\ adj(m) \in Int
             /\ from(m) + gap(m) = GapEnd(batch, m) /\ from(m) + gap(m) <= Len(source)
             /\ at[m] + gap(m) <= Len(whole)
  <2>1. /\ GapStart(batch, m) \in Nat /\ GapEnd(batch, m) \in Nat
        /\ GapStart(batch, m) <= GapEnd(batch, m) /\ GapEnd(batch, m) <= Len(source)
    BY DEF TakeTurns
  <2>2. at[m] \in Nat /\ adj(m) \in Int
    BY AdjustmentIs DEF PlacesOf
  <2>3. at[m] + gap(m) <= Len(whole)
    BY PlacesInside DEF Spread
  <2> HIDE DEF N, adj
  <2> QED BY <2>1, <2>2, <2>3
<1>3. ASSUME NEW m \in 0..N, NEW k \in 0..gap(m)
      PROVE  b[from(m) + k] - b[from(m)] = c[at[m] + k] - c[at[m]]
  <2>1. SameFrom(source, from(m), whole, at[m], gap(m))
    BY DEF Spread, SameFrom
  <2> HIDE DEF N, from, gap
  <2>2. AsFar(CodepointBytes(source), from(m), CodepointBytes(whole), at[m], gap(m))
    BY <1>2, <2>1, BytesOn
  <2> QED BY <2>2 DEF AsFar
<1>4. ASSUME NEW m \in 0..N
      PROVE  /\ b[from(m)] \in Nat /\ b[from(m) + gap(m)] \in Nat /\ c[at[m]] \in Nat
             /\ c[at[m] + gap(m)] \in Nat
             /\ \A k \in 0..gap(m) : b[from(m) + k] \in Nat /\ c[at[m] + k] \in Nat
  <2>1. /\ \A k \in 0..Len(source) : b[k] \in Nat
        /\ \A k \in 0..Len(whole) : c[k] \in Nat
    BY BytesAre DEF Weighed
  <2> HIDE DEF b, c, N, from, gap
  <2>2. \A i, g, l \in Nat : i + g <= l =>
           /\ i \in 0..l /\ i + g \in 0..l /\ \A k \in 0..g : i + k \in 0..l
    OBVIOUS
  <2>3. /\ from(m) \in 0..Len(source) /\ from(m) + gap(m) \in 0..Len(source)
        /\ \A k \in 0..gap(m) : from(m) + k \in 0..Len(source)
    BY <1>1, <1>2, <2>2
  <2>4. /\ at[m] \in 0..Len(whole) /\ at[m] + gap(m) \in 0..Len(whole)
        /\ \A k \in 0..gap(m) : at[m] + k \in 0..Len(whole)
    BY <1>1, <1>2, <2>2
  <2> QED BY <2>1, <2>3, <2>4
<1>5. ASSUME NEW m \in 1..N
      PROVE  c[at[m]] = c[at[m - 1] + gap(m - 1)] + ByteLen(batch[m].with)
  <2> DEFINE w == batch[m].with
             start == at[m] - Len(w)
  <2>0. m - 1 \in 0..N /\ m \in 0..N
    BY <1>1
  <2>1. w \in Seq(Char) /\ Len(w) \in Nat
    BY DEF TakeTurns
  <2> HIDE DEF start
  <2>2. start = at[m - 1] + gap(m - 1) /\ start \in Nat /\ start + Len(w) = at[m] /\ at[m] <= Len(whole)
    <3>1. at[m] = at[m - 1] + gap(m - 1) + Len(w)
      BY DEF PlacesOf
    <3>2. /\ at[m] \in Nat /\ at[m - 1] \in Nat /\ gap(m - 1) \in Nat /\ gap(m) \in Nat
          /\ at[m] + gap(m) <= Len(whole)
      BY <1>2, <2>0
    <3> HIDE DEF w, gap
    <3>3. \A y, z, g, h, l, v \in Nat : y = z + g + v /\ y + h <= l =>
             y - v = z + g /\ y - v \in Nat /\ (y - v) + v = y /\ y <= l
      OBVIOUS
    <3>4. Len(whole) \in Nat
      BY <1>1
    <3> DEFINE y == at[m]
               z == at[m - 1]
               g == gap(m - 1)
               h == gap(m)
               v == Len(w)
               l == Len(whole)
    <3>5. y \in Nat /\ z \in Nat /\ g \in Nat /\ h \in Nat /\ v \in Nat /\ l \in Nat /\ y = z + g + v /\ y + h <= l
      BY <2>1, <3>1, <3>2, <3>4
    <3> HIDE DEF y, z, g, h, v, l
    <3>6. y - v = z + g /\ y - v \in Nat /\ (y - v) + v = y /\ y <= l
      BY <3>3, <3>5
    <3> QED BY <3>6 DEF start, y, z, g, v, l
  <2>3. SameFrom(w, 0, whole, start, Len(w))
    <3>1. m \in DOMAIN batch
      BY DEF TakeTurns
    <3>2. PutIn(batch)[m] = w
      BY <3>1 DEF PutIn
    <3>3. \A k \in 1..Len(w) : whole[start + k] = w[k]
      BY <3>2 DEF Spread, start
    <3> HIDE DEF w
    <3> QED BY <2>1, <3>3 DEF SameFrom
  <2> HIDE DEF w
  <2>4. AsFar(CodepointBytes(w), 0, CodepointBytes(whole), start, Len(w))
    <3>1. 0 + Len(w) <= Len(w) /\ start + Len(w) <= Len(whole) /\ 0 \in Nat
      BY <2>1, <2>2
    <3> QED BY <2>1, <2>2, <2>3, <3>1, BytesOn
  <2>5. CodepointBytes(w)[0] = 0 /\ CodepointBytes(w)[Len(w)] \in Nat
    <3>1. Len(w) \in 0..Len(w)
      BY <2>1
    <3> QED BY <2>1, <3>1, BytesAre DEF Weighed
  <2>6. ByteLen(w) = CodepointBytes(w)[Len(w)]
    BY DEF ByteLen
  <2>7. 0 + Len(w) = Len(w) /\ Len(w) \in 0..Len(w)
    BY <2>1
  <2>8. CodepointBytes(w)[Len(w)] - 0 = c[start + Len(w)] - c[start]
    BY <2>4, <2>5, <2>7 DEF AsFar
  <2>9. c[start] \in Nat /\ c[start + Len(w)] \in Nat
    BY <1>4, <2>0, <2>2
  <2>10. c[start + Len(w)] = c[start] + ByteLen(w)
    BY <2>5, <2>6, <2>8, <2>9
  <2> QED BY <2>2, <2>10 DEF w
<1> DEFINE D == {m \in Nat : m <= N => c[at[m]] = b[from(m)] + adj(m)}
<1>6. 0 \in D
  <2>1. from(0) = 0 /\ adj(0) = 0 /\ at[0] = 0
    BY AdjustmentIs DEF GapStart, PlacesOf
  <2>2. b[0] = 0 /\ c[0] = 0
    BY BytesAre DEF Weighed
  <2> HIDE DEF b, c, from, adj
  <2> QED BY <2>1, <2>2
<1>7. ASSUME NEW k \in Nat, k \in D PROVE k + 1 \in D
  <2> DEFINE m == k + 1
  <2> SUFFICES ASSUME m <= N PROVE c[at[m]] = b[from(m)] + adj(m)
    OBVIOUS
  <2>1. m \in 1..N /\ m - 1 = k /\ k \in 0..N /\ m \in 0..N
    BY <1>1
  <2>2. c[at[k]] = b[from(k)] + adj(k)
    BY <1>7, <2>1
  <2>3. b[from(m)] = batch[m].end /\ b[from(k) + gap(k)] = batch[m].start
    <3>1. b[from(m)] = batch[m].end /\ b[GapEnd(batch, m - 1)] = batch[m].start
      BY <2>1 DEF TakeTurns
    <3> QED BY <1>2, <2>1, <3>1
  <2>4. adj(m) = adj(k) + (ByteLen(batch[m].with) - (batch[m].end - batch[m].start)) /\ adj(k) \in Int
    BY <2>1, AdjustmentIs DEF Shift
  <2>5. batch[m].start \in Nat /\ batch[m].end \in Nat /\ ByteLen(batch[m].with) \in Nat
    BY <2>1, OffsetsTyped
  <2> HIDE DEF b, c, N, from, gap, adj, D
  <2>6. gap(k) \in 0..gap(k)
    BY <1>2, <2>1
  <2>7. b[from(k) + gap(k)] - b[from(k)] = c[at[k] + gap(k)] - c[at[k]]
    BY <1>3, <2>1, <2>6
  <2>8. b[from(k)] \in Nat /\ b[from(k) + gap(k)] \in Nat /\ c[at[k]] \in Nat /\ c[at[k] + gap(k)] \in Nat
    BY <1>4, <2>1
  <2>9. c[at[m]] = c[at[k] + gap(k)] + ByteLen(batch[m].with)
    BY <1>5, <2>1
  <2> DEFINE start == batch[m].start
             end == batch[m].end
             more == ByteLen(batch[m].with)
             y == c[at[k] + gap(k)]
             z == c[at[k]]
             f == b[from(k)]
             d == adj(k)
  <2>10. /\ z = f + d /\ start - f = y - z /\ c[at[m]] = y + more
         /\ b[from(m)] = end /\ adj(m) = d + (more - (end - start))
    BY <2>2, <2>3, <2>4, <2>7, <2>9
  <2>11. start \in Nat /\ end \in Nat /\ more \in Nat /\ y \in Nat /\ z \in Nat /\ f \in Nat /\ d \in Int
    BY <2>4, <2>5, <2>8
  <2> HIDE DEF start, end, more, y, z, f, d, m
  <2> QED BY <2>10, <2>11
<1> HIDE DEF D
<1>8. Nat \subseteq D
  BY <1>6, <1>7, Climb
<1>9. n \in 0..N /\ n \in Nat /\ n <= N /\ x \in from(n)..GapEnd(batch, n)
  BY <1>1
<1>10. c[at[n]] = b[from(n)] + adj(n)
  BY <1>8, <1>9 DEF D
<1> HIDE DEF b, c, N, from, gap, adj
<1> DEFINE k == x - from(n)
<1>11. k \in 0..gap(n) /\ from(n) + k = x /\ at[n] + k \in 0..Len(whole)
  <2>1. from(n) \in Nat /\ gap(n) \in Nat /\ from(n) + gap(n) = GapEnd(batch, n) /\ at[n] \in Nat
        /\ at[n] + gap(n) <= Len(whole)
    BY <1>2, <1>9
  <2>2. Len(whole) \in Nat /\ x \in Nat /\ GapEnd(batch, n) \in Nat
    BY <1>9, <2>1
  <2>3. \A f, g, e, a, w, y \in Nat : f + g = e /\ a + g <= w /\ y \in f..e =>
            y - f \in 0..g /\ f + (y - f) = y /\ a + (y - f) \in 0..w
    OBVIOUS
  <2> QED BY <1>9, <2>1, <2>2, <2>3
<1>12. b[from(n) + k] - b[from(n)] = c[at[n] + k] - c[at[n]]
  <2> HIDE DEF k
  <2> QED BY <1>3, <1>9, <1>11
<1>13. b[from(n)] \in Nat /\ b[from(n) + k] \in Nat /\ c[at[n]] \in Nat /\ c[at[n] + k] \in Nat /\ adj(n) \in Int
  <2> HIDE DEF k
  <2> QED BY <1>2, <1>4, <1>9, <1>11
<1>14. c[at[n] + k] = b[x] + adj(n)
  <2>1. \A u, v, y, z \in Nat : \A d \in Int : y = u + d /\ v - u = z - y => z = v + d
    OBVIOUS
  <2> HIDE DEF k
  <2> DEFINE u == b[from(n)]
             v == b[from(n) + k]
             y == c[at[n]]
             z == c[at[n] + k]
             d == adj(n)
  <2>2. u \in Nat /\ v \in Nat /\ y \in Nat /\ z \in Nat /\ d \in Int /\ y = u + d /\ v - u = z - y
    BY <1>10, <1>12, <1>13
  <2> HIDE DEF u, v, y, z, d
  <2>3. z = v + d
    BY <2>1, <2>2
  <2>4. c[at[n] + k] = b[from(n) + k] + adj(n)
    BY <2>3 DEF v, z, d
  <2> QED BY <1>11, <2>4
<1> QED BY <1>11, <1>14 DEF k, b, c, adj, from

\* The characters from x to y are in the n-th gap.
InGap(batch, n, x, y) ==
    n \in 0..Len(batch) /\ GapStart(batch, n) <= x /\ x <= y /\ y <= GapEnd(batch, n)

\* Gaps and changes are in order, and so are their bytes.
LEMMA GapsInOrder ==
    ASSUME source \in Seq(Char), NEW batch, TakeTurns(batch)
    PROVE  /\ \A i, j \in 0..Len(batch) : i <= j =>
                GapStart(batch, i) <= GapStart(batch, j) /\ GapEnd(batch, i) <= GapEnd(batch, j)
           /\ \A j, k \in 0..Len(source) : j <= k <=> CodepointBytes(source)[j] <= CodepointBytes(source)[k]
           /\ \A n \in 0..Len(batch) : GapStart(batch, n) \in 0..Len(source) /\ GapEnd(batch, n) \in 0..Len(source)
           /\ \A n \in 1..Len(batch) : batch[n].start <= batch[n].end
           /\ \A i, j \in 1..Len(batch) : i <= j => batch[i].end <= batch[j].end
<1> DEFINE N == Len(batch)
           b == CodepointBytes(source)
<1>1. N \in Nat /\ Len(source) \in Nat
  BY DEF TakeTurns
<1>2. \A n \in 0..N : /\ GapStart(batch, n) \in 0..Len(source) /\ GapEnd(batch, n) \in 0..Len(source)
                      /\ GapStart(batch, n) <= GapEnd(batch, n)
  <2> TAKE n \in 0..N
  <2>1. /\ GapStart(batch, n) \in Nat /\ GapEnd(batch, n) \in Nat
        /\ GapStart(batch, n) <= GapEnd(batch, n) /\ GapEnd(batch, n) <= Len(source)
    BY DEF TakeTurns
  <2> QED BY <1>1, <2>1
<1>3. ASSUME NEW i \in 0..N, NEW j \in 0..N, i <= j
      PROVE  GapStart(batch, i) <= GapStart(batch, j) /\ GapEnd(batch, i) <= GapEnd(batch, j)
  <2>1. CASE i = j
    BY <1>2, <2>1
  <2>2. CASE i # j
    <3>1. i < j
      BY <1>3, <2>2
    <3>2. GapEnd(batch, i) <= GapStart(batch, j)
      BY <3>1, GapsApart
    <3> HIDE DEF N
    <3> QED BY <1>1, <1>2, <3>2
  <2> QED BY <2>1, <2>2
<1>4. ASSUME NEW j \in 0..Len(source), NEW k \in 0..Len(source)
      PROVE  j <= k <=> b[j] <= b[k]
  <2>1. b[j] \in Nat /\ b[k] \in Nat
    BY BytesAre DEF Weighed
  <2>2. k < j <=> b[k] < b[j]
    BY BytesGrow
  <2> HIDE DEF b
  <2> QED BY <2>1, <2>2
<1>5. ASSUME NEW n \in 1..N
      PROVE  /\ batch[n].start = b[GapEnd(batch, n - 1)] /\ batch[n].end = b[GapStart(batch, n)]
             /\ GapEnd(batch, n - 1) <= GapStart(batch, n) /\ n - 1 \in 0..N /\ n \in 0..N
  BY <1>1 DEF TakeTurns
<1>6. ASSUME NEW n \in 1..N PROVE batch[n].start <= batch[n].end
  <2> HIDE DEF N, b
  <2> QED BY <1>2, <1>4, <1>5
<1>7. ASSUME NEW i \in 1..N, NEW j \in 1..N, i <= j PROVE batch[i].end <= batch[j].end
  <2> HIDE DEF N, b
  <2> QED BY <1>2, <1>3, <1>4, <1>5, <1>7
<1> QED BY <1>2, <1>3, <1>4, <1>6, <1>7 DEF N, b

\* How many changes end before a byte (partition_point finds the first that does not).
LEMMA BeforeIs ==
    ASSUME NEW batch, TakeTurns(batch), NEW byte, NEW n \in 0..Len(batch),
           \A i \in 1..n : batch[i].end <= byte,
           \A i \in (n + 1)..Len(batch) : ~(batch[i].end <= byte)
    PROVE  Before(batch, byte) = n
<1>1. Len(batch) \in Nat /\ DOMAIN batch = 1..Len(batch) /\ n \in Nat
  BY DEF TakeTurns
<1>2. {i \in DOMAIN batch : batch[i].end <= byte} = 1..n
  <2>1. \A i \in 1..Len(batch) : i \in 1..n \/ i \in (n + 1)..Len(batch)
    BY <1>1
  <2>2. \A i \in 1..n : i \in 1..Len(batch)
    BY <1>1
  <2> QED BY <1>1, <2>1, <2>2
<1>3. Cardinality(1..n) = n
  BY <1>1, FS_Interval
<1> QED BY <1>2, <1>3 DEF Before

\* The changes that end before a byte are the first ones.
LEMMA BeforeSplits ==
    ASSUME source \in Seq(Char), NEW batch, TakeTurns(batch), NEW byte \in Nat
    PROVE  LET n == Before(batch, byte)
           IN  /\ n \in 0..Len(batch)
               /\ \A i \in 1..n : batch[i].end <= byte
               /\ \A i \in (n + 1)..Len(batch) : byte < batch[i].end
<1> DEFINE N == Len(batch)
           S == {i \in 1..(N + 1) : i = N + 1 \/ byte < batch[i].end}
<1>1. N \in Nat
  BY DEF TakeTurns
<1>2. /\ \A i \in 1..N : batch[i].end \in Nat
      /\ \A i, j \in 1..N : i <= j => batch[i].end <= batch[j].end
  BY OffsetsTyped, GapsInOrder
<1> HIDE DEF N
<1>3. S \in SUBSET Nat /\ N + 1 \in S
  BY <1>1
<1>4. PICK m \in S : \A k \in S : m <= k
  <2> HIDE DEF S
  <2> QED BY <1>3, LeastExists
<1> DEFINE n == m - 1
<1>5. n \in 0..N /\ n + 1 = m /\ m \in 1..(N + 1)
  BY <1>1
<1>6. ASSUME NEW i \in 1..n PROVE batch[i].end <= byte
  <2>1. i \in 1..N /\ i \in 1..(N + 1) /\ ~(m <= i)
    BY <1>1, <1>5
  <2>2. ~(byte < batch[i].end)
    BY <1>4, <2>1
  <2> QED BY <1>2, <2>1, <2>2
<1>7. ASSUME NEW i \in (n + 1)..N PROVE byte < batch[i].end
  <2>1. i \in 1..N /\ m \in 1..N /\ m <= i
    BY <1>1, <1>5
  <2>2. byte < batch[m].end
    BY <1>1, <2>1
  <2> QED BY <1>2, <2>1, <2>2
<1>8. \A i \in (n + 1)..N : ~(batch[i].end <= byte)
  <2> TAKE i \in (n + 1)..N
  <2>1. byte < batch[i].end
    BY <1>7
  <2>2. batch[i].end \in Nat
    <3>1. i \in 1..N
      BY <1>1, <1>5
    <3> QED BY <1>2, <3>1
  <2> QED BY <2>1, <2>2
<1> HIDE DEF n
<1>9. Before(batch, byte) = n
  <2>1. n \in 0..Len(batch) /\ \A i \in (n + 1)..Len(batch) : ~(batch[i].end <= byte)
    BY <1>5, <1>8 DEF N
  <2> QED BY <1>6, <2>1, BeforeIs
<1> QED BY <1>5, <1>6, <1>7, <1>9 DEF N

\* What no change touches is in a gap (is_touched looks at one change only).
LEMMA UntouchedInGap ==
    ASSUME source \in Seq(Char), NEW batch, TakeTurns(batch), NEW x \in 0..Len(source),
           NEW y \in 0..Len(source), x <= y,
           ~Touched(batch, CodepointBytes(source)[x], CodepointBytes(source)[y])
    PROVE  InGap(batch, Before(batch, CodepointBytes(source)[x]), x, y)
<1> DEFINE N == Len(batch)
           b == CodepointBytes(source)
           n == Before(batch, b[x])
<1>1. N \in Nat /\ DOMAIN batch = 1..N /\ Len(source) \in Nat
  BY DEF TakeTurns
<1>2. b[x] \in Nat /\ b[y] \in Nat
  BY OffsetsTyped
<1>3. /\ n \in 0..N
      /\ \A i \in 1..n : batch[i].end <= b[x]
      /\ \A i \in (n + 1)..N : b[x] < batch[i].end
  <2>1. \A byte \in Nat : LET m == Before(batch, byte)
                          IN  /\ m \in 0..Len(batch)
                              /\ \A i \in 1..m : batch[i].end <= byte
                              /\ \A i \in (m + 1)..Len(batch) : byte < batch[i].end
    BY BeforeSplits
  <2> HIDE DEF b
  <2> QED BY <1>2, <2>1
<1>4. ~(n + 1 \in 1..N /\ batch[n + 1].start < b[y] /\ batch[n + 1].end > b[x])
  <2> HIDE DEF b, N
  <2> QED BY <1>1 DEF Touched, b
<1>5. /\ \A m \in 0..N : GapStart(batch, m) \in 0..Len(source) /\ GapEnd(batch, m) \in 0..Len(source)
      /\ \A j, k \in 0..Len(source) : j <= k <=> b[j] <= b[k]
  BY GapsInOrder
<1>6. \A m \in 1..N : b[GapStart(batch, m)] = batch[m].end /\ b[GapEnd(batch, m - 1)] = batch[m].start
  BY DEF TakeTurns
<1>7. \A m \in 1..N : batch[m].start \in Nat /\ batch[m].end \in Nat
  BY OffsetsTyped
<1> HIDE DEF n, b
<1>8. GapStart(batch, n) <= x
  <2>1. CASE n = 0
    BY <2>1 DEF GapStart
  <2>2. CASE n # 0
    <3>1. n \in 1..n /\ n \in 1..N
      BY <1>1, <1>3, <2>2
    <3>2. b[GapStart(batch, n)] <= b[x]
      BY <1>3, <1>6, <3>1
    <3> QED BY <1>3, <1>5, <3>2
  <2> QED BY <2>1, <2>2
<1>9. y <= GapEnd(batch, n)
  <2>1. CASE n = N
    <3>1. GapEnd(batch, n) = Len(source)
      BY <2>1 DEF GapEnd
    <3> QED BY <1>1, <3>1
  <2>2. CASE n # N
    <3>1. n + 1 \in 1..N /\ n + 1 \in (n + 1)..N /\ (n + 1) - 1 = n
      <4> HIDE DEF N
      <4> QED BY <1>1, <1>3, <2>2
    <3>2. b[x] < batch[n + 1].end /\ batch[n + 1].start \in Nat /\ batch[n + 1].end \in Nat
      BY <1>3, <1>7, <3>1
    <3>3. b[y] <= batch[n + 1].start
      BY <1>2, <1>4, <3>1, <3>2
    <3>4. b[GapEnd(batch, n)] = batch[n + 1].start
      BY <1>6, <3>1
    <3>5. b[y] <= b[GapEnd(batch, n)]
      BY <3>3, <3>4
    <3> QED BY <1>3, <1>5, <3>5
  <2> QED BY <2>1, <2>2
<1> QED BY <1>3, <1>8, <1>9 DEF InGap, n, b, N

\* What is in a gap, and has text, no change touches.
LEMMA GapIsUntouched ==
    ASSUME source \in Seq(Char), NEW batch, TakeTurns(batch), NEW x \in 0..Len(source),
           NEW y \in 0..Len(source), x < y, NEW n, InGap(batch, n, x, y)
    PROVE  /\ Before(batch, CodepointBytes(source)[x]) = n
           /\ ~Touched(batch, CodepointBytes(source)[x], CodepointBytes(source)[y])
<1> DEFINE N == Len(batch)
           b == CodepointBytes(source)
<1>1. N \in Nat /\ DOMAIN batch = 1..N /\ Len(source) \in Nat
  BY DEF TakeTurns
<1>2. \A k \in 0..Len(source) : b[k] \in Nat
  BY OffsetsTyped
<1>3. n \in 0..N /\ GapStart(batch, n) <= x /\ x <= y /\ y <= GapEnd(batch, n)
  BY DEF InGap
<1>5. /\ \A m \in 0..N : GapStart(batch, m) \in 0..Len(source) /\ GapEnd(batch, m) \in 0..Len(source)
      /\ \A j, k \in 0..Len(source) : j <= k <=> b[j] <= b[k]
      /\ \A i, j \in 0..N : i <= j =>
           GapStart(batch, i) <= GapStart(batch, j) /\ GapEnd(batch, i) <= GapEnd(batch, j)
      /\ \A m \in 1..N : batch[m].start <= batch[m].end
  BY GapsInOrder
<1>6. \A m \in 1..N : b[GapStart(batch, m)] = batch[m].end /\ b[GapEnd(batch, m - 1)] = batch[m].start
  BY DEF TakeTurns
<1>7. \A m \in 1..N : batch[m].start \in Nat /\ batch[m].end \in Nat
  BY OffsetsTyped
<1> HIDE DEF b, N
<1>8. ASSUME NEW i \in 1..n PROVE batch[i].end <= b[x]
  <2>1. i \in 1..N /\ i \in 0..N /\ i <= n
    BY <1>1, <1>3
  <2>2. GapStart(batch, i) <= GapStart(batch, n)
    BY <1>3, <1>5, <2>1
  <2>3. GapStart(batch, i) \in 0..Len(source) /\ GapStart(batch, n) \in 0..Len(source)
    BY <1>3, <1>5, <2>1
  <2>4. GapStart(batch, i) <= x
    BY <1>1, <1>3, <2>2, <2>3
  <2>5. b[GapStart(batch, i)] <= b[x]
    BY <1>5, <2>3, <2>4
  <2> QED BY <1>6, <2>1, <2>5
<1>9. ASSUME NEW i \in (n + 1)..N PROVE b[y] <= batch[i].start
  <2>1. i \in 1..N /\ i - 1 \in 0..N /\ n <= i - 1
    BY <1>1, <1>3
  <2>2. GapEnd(batch, n) <= GapEnd(batch, i - 1)
    BY <1>3, <1>5, <2>1
  <2>3. GapEnd(batch, n) \in 0..Len(source) /\ GapEnd(batch, i - 1) \in 0..Len(source)
    BY <1>3, <1>5, <2>1
  <2>4. y <= GapEnd(batch, i - 1)
    BY <1>1, <1>3, <2>2, <2>3
  <2>5. b[y] <= b[GapEnd(batch, i - 1)]
    BY <1>5, <2>3, <2>4
  <2> QED BY <1>6, <2>1, <2>5
<1>10. b[x] < b[y]
  <2>1. ~(y <= x)
    BY <1>1
  <2> QED BY <1>2, <1>5, <2>1
<1>11. Before(batch, b[x]) = n
  <2>1. \A i \in (n + 1)..N : ~(batch[i].end <= b[x])
    <3> TAKE i \in (n + 1)..N
    <3>1. i \in 1..N
      BY <1>1, <1>3
    <3>2. b[y] <= batch[i].start /\ batch[i].start <= batch[i].end
      BY <1>5, <1>9, <3>1
    <3> QED BY <1>2, <1>7, <1>10, <3>1, <3>2
  <2>2. n \in 0..Len(batch) /\ \A i \in (n + 1)..Len(batch) : ~(batch[i].end <= b[x])
    BY <1>3, <2>1 DEF N
  <2> DEFINE byte == b[x]
  <2>3. \A i \in 1..n : batch[i].end <= byte
    BY <1>8
  <2> HIDE DEF byte
  <2>4. \A i \in (n + 1)..Len(batch) : ~(batch[i].end <= byte)
    BY <2>2 DEF byte
  <2>5. Before(batch, byte) = n
    BY <2>2, <2>3, <2>4, BeforeIs
  <2> QED BY <2>5 DEF byte
<1>12. ~(n + 1 \in DOMAIN batch /\ batch[n + 1].start < b[y])
  <2> SUFFICES ASSUME n + 1 \in 1..N PROVE ~(batch[n + 1].start < b[y])
    BY <1>1
  <2>1. n + 1 \in (n + 1)..N
    BY <1>1, <1>3
  <2>2. b[y] <= batch[n + 1].start /\ batch[n + 1].start \in Nat /\ b[y] \in Nat
    BY <1>2, <1>7, <1>9, <2>1
  <2> QED BY <2>2
<1> QED BY <1>11, <1>12 DEF Touched, b

\* An edit lays out the text, and for every character where it was.
EditSpread(batch, at) ==
    /\ source \in Seq(Char) /\ source' \in Seq(Char)
    /\ TakeTurns(batch) /\ PlacesOf(at, batch)
    /\ Spread(source', batch, source, PutIn(batch), at)
    /\ \A n \in 0..Len(batch) : \A k \in 1..(GapEnd(batch, n) - GapStart(batch, n)) :
         was'[at[n] + k] = GapStart(batch, n) + k
    /\ \A n \in 1..Len(batch) : \A k \in 1..Len(batch[n].with) :
         was'[(at[n] - Len(batch[n].with)) + k] = 0

\* Every edit does (reparse).
LEMMA ReparseSpread ==
    ASSUME source \in Source, NEW batch \in Batch(source), Reparse(batch)
    PROVE  \E at : EditSpread(batch, at)
<1> DEFINE index == [k \in 1..Len(source) |-> k]
           none == [n \in DOMAIN batch |-> [k \in 1..Len(batch[n].with) |-> 0]]
<1>1. TakeTurns(batch)
  BY BatchTakesTurns
<1>2. /\ source' = Spliced(batch, source, PutIn(batch)) /\ source' \in Source
      /\ was' = Spliced(batch, index, none)
  BY Zenon DEF Reparse, PutIn
<1>3. source \in Seq(Char) /\ source' \in Seq(Char)
  <2>1. \A s \in Source : s \in Seq(Char)
    BY DEF Source, Text
  <2> QED BY <1>2, <2>1
<1>4. PICK at : PlacesOf(at, batch)
  BY <1>1, PlacesExist
<1>5. DOMAIN batch = 1..Len(batch) /\ \A n \in 1..Len(batch) : batch[n].with \in Seq(Char)
  BY <1>1 DEF TakeTurns
<1>6. Spread(source', batch, source, PutIn(batch), at)
  <2> DEFINE put == PutIn(batch)
  <2>1. \A n \in 1..Len(batch) : put[n] \in Seq(Char) /\ Len(put[n]) = Len(batch[n].with)
    BY <1>5 DEF PutIn
  <2> HIDE DEF put
  <2>2. Spread(Spliced(batch, source, put), batch, source, put, at)
    BY <1>1, <1>3, <1>4, <2>1, SplicedSpread
  <2> QED BY <1>2, <2>2 DEF put
<1>7. Spread(was', batch, index, none, at)
  <2>1. index \in Seq(Nat) /\ Len(index) = Len(source)
    BY <1>3
  <2>2. ASSUME NEW n \in 1..Len(batch)
        PROVE  none[n] \in Seq(Nat) /\ Len(none[n]) = Len(batch[n].with)
    <3>1. none[n] = [k \in 1..Len(batch[n].with) |-> 0]
      BY <1>5
    <3>2. Len(batch[n].with) \in Nat
      BY <1>5
    <3> HIDE DEF none
    <3> QED BY <3>1, <3>2
  <2> HIDE DEF none, index
  <2>3. Spread(Spliced(batch, index, none), batch, index, none, at)
    BY <1>1, <1>4, <2>1, <2>2, SplicedSpread
  <2> QED BY <1>2, <2>3
<1>8. ASSUME NEW n \in 0..Len(batch), NEW k \in 1..(GapEnd(batch, n) - GapStart(batch, n))
      PROVE  was'[at[n] + k] = GapStart(batch, n) + k
  <2>1. was'[at[n] + k] = index[GapStart(batch, n) + k]
    <3> HIDE DEF index, none
    <3> QED BY <1>7 DEF Spread
  <2>2. GapStart(batch, n) + k \in 1..Len(source)
    <3>1. /\ GapStart(batch, n) \in Nat /\ GapEnd(batch, n) \in Nat
          /\ GapStart(batch, n) <= GapEnd(batch, n) /\ GapEnd(batch, n) <= Len(source)
      BY <1>1 DEF TakeTurns
    <3>2. Len(source) \in Nat
      BY <1>3
    <3> QED BY <3>1, <3>2
  <2> QED BY <2>1, <2>2
<1>9. ASSUME NEW n \in 1..Len(batch), NEW k \in 1..Len(batch[n].with)
      PROVE  was'[(at[n] - Len(batch[n].with)) + k] = 0
  <2>1. was'[(at[n] - Len(batch[n].with)) + k] = none[n][k]
    <3> HIDE DEF index, none
    <3> QED BY <1>7 DEF Spread
  <2>2. none[n][k] = 0
    BY <1>5
  <2> QED BY <2>1, <2>2
<1> QED BY <1>1, <1>3, <1>4, <1>6, <1>8, <1>9 DEF EditSpread

\* Every character of an edited text is of a gap or put in.
LEMMA GapOrPutIn ==
    ASSUME NEW batch, TakeTurns(batch), NEW at, PlacesOf(at, batch), NEW whole,
           Len(whole) = at[Len(batch)] + (Len(source) - GapStart(batch, Len(batch))),
           NEW j \in 1..Len(whole)
    PROVE  \/ \E n \in 0..Len(batch) : \E k \in 1..(GapEnd(batch, n) - GapStart(batch, n)) : j = at[n] + k
           \/ \E n \in 1..Len(batch) : \E k \in 1..Len(batch[n].with) : j = (at[n] - Len(batch[n].with)) + k
<1> DEFINE N == Len(batch)
           gap(n) == GapEnd(batch, n) - GapStart(batch, n)
           wide(n) == Len(batch[n].with)
           Known(i) == \/ \E n \in 0..N : \E k \in 1..gap(n) : i = at[n] + k
                       \/ \E n \in 1..N : \E k \in 1..wide(n) : i = (at[n] - wide(n)) + k
           D == {n \in Nat : n <= N => \A i \in 1..at[n] : Known(i)}
<1>1. /\ N \in Nat
      /\ \A n \in 0..N : at[n] \in Nat /\ gap(n) \in Nat
      /\ \A n \in 1..N : wide(n) \in Nat /\ at[n] = at[n - 1] + gap(n - 1) + wide(n)
      /\ at[0] = 0 /\ Len(whole) = at[N] + gap(N)
  <2>1. N \in Nat
    BY DEF TakeTurns
  <2>2. \A n \in 0..N : at[n] \in Nat /\ gap(n) \in Nat
    BY DEF PlacesOf, TakeTurns
  <2>3. \A n \in 1..N : wide(n) \in Nat
    BY DEF TakeTurns
  <2>4. \A n \in 1..N : at[n] = at[n - 1] + gap(n - 1) + wide(n)
    BY DEF PlacesOf
  <2>5. at[0] = 0
    BY DEF PlacesOf
  <2>6. Len(whole) = at[N] + gap(N)
    BY DEF GapEnd
  <2> HIDE DEF N, gap, wide
  <2> QED BY <2>1, <2>2, <2>3, <2>4, <2>5, <2>6
<1> HIDE DEF N, gap, wide
<1>2. 0 \in D
  BY <1>1
<1>3. ASSUME NEW m \in Nat, m \in D PROVE m + 1 \in D
  <2> DEFINE n == m + 1
  <2> SUFFICES ASSUME n <= N, NEW i \in 1..at[n] PROVE Known(i)
    OBVIOUS
  <2>1. m \in 0..N /\ n \in 1..N /\ n - 1 = m
    BY <1>1
  <2>2. at[m] \in Nat /\ gap(m) \in Nat /\ wide(n) \in Nat /\ at[n] = at[m] + gap(m) + wide(n)
    BY <1>1, <2>1
  <2>3. CASE i <= at[m]
    <3>1. i \in 1..at[m]
      BY <2>2, <2>3
    <3>2. \A h \in 1..at[m] : Known(h)
      <4> HIDE DEF Known
      <4> QED BY <1>3, <2>1
    <3> HIDE DEF Known
    <3> QED BY <3>1, <3>2
  <2>4. CASE ~(i <= at[m]) /\ i <= at[m] + gap(m)
    <3>1. i - at[m] \in 1..gap(m) /\ i = at[m] + (i - at[m])
      BY <2>2, <2>4
    <3> QED BY <2>1, <3>1
  <2>5. CASE ~(i <= at[m] + gap(m))
    <3> DEFINE k == i - (at[n] - wide(n))
    <3>1. k \in 1..wide(n) /\ i = (at[n] - wide(n)) + k
      BY <2>2, <2>5
    <3> HIDE DEF k, n
    <3> QED BY <2>1, <3>1
  <2> QED BY <2>3, <2>4, <2>5
<1> HIDE DEF D
<1>4. N \in D
  BY <1>1, <1>2, <1>3, Climb
<1>5. Known(j)
  <2>0. j \in Nat /\ j >= 1 /\ j <= at[N] + gap(N) /\ at[N] \in Nat /\ gap(N) \in Nat /\ N \in 0..N
    BY <1>1
  <2>1. CASE j <= at[N]
    <3>1. j \in 1..at[N]
      BY <2>0, <2>1
    <3> HIDE DEF Known
    <3> QED BY <1>1, <1>4, <3>1 DEF D
  <2>2. CASE ~(j <= at[N])
    <3>1. j - at[N] \in 1..gap(N) /\ j = at[N] + (j - at[N])
      BY <2>0, <2>2
    <3> QED BY <2>0, <3>1
  <2> QED BY <2>1, <2>2
<1> QED BY <1>5 DEF N, gap, wide

\* A character that was there before is the one of its gap.
LEMMA CharOfGap ==
    ASSUME NEW batch, NEW at, EditSpread(batch, at), NEW j \in 1..Len(source'), was'[j] # 0
    PROVE  \E n \in 0..Len(batch) : \E k \in 1..(GapEnd(batch, n) - GapStart(batch, n)) :
              j = at[n] + k /\ was'[j] = GapStart(batch, n) + k
<1>1. /\ TakeTurns(batch) /\ PlacesOf(at, batch)
      /\ Len(source') = at[Len(batch)] + (Len(source) - GapStart(batch, Len(batch)))
  BY DEF EditSpread, Spread
<1>2. \/ \E n \in 0..Len(batch) : \E k \in 1..(GapEnd(batch, n) - GapStart(batch, n)) : j = at[n] + k
      \/ \E n \in 1..Len(batch) : \E k \in 1..Len(batch[n].with) : j = (at[n] - Len(batch[n].with)) + k
  <2> DEFINE whole == source'
  <2>1. Len(whole) = at[Len(batch)] + (Len(source) - GapStart(batch, Len(batch))) /\ j \in 1..Len(whole)
    BY <1>1
  <2> HIDE DEF whole
  <2> QED BY <1>1, <2>1, GapOrPutIn
<1>3. \A n \in 0..Len(batch) : \A k \in 1..(GapEnd(batch, n) - GapStart(batch, n)) :
         was'[at[n] + k] = GapStart(batch, n) + k
  BY DEF EditSpread
<1>4. \A n \in 1..Len(batch) : \A k \in 1..Len(batch[n].with) :
         was'[(at[n] - Len(batch[n].with)) + k] = 0
  BY DEF EditSpread
<1> QED BY <1>2, <1>3, <1>4

\* Two characters that were neighbours and still are, are of one gap: a change between
\* them would have put something in or taken something out.
LEMMA NeighboursInGap ==
    ASSUME source \in Seq(Char), NEW batch, TakeTurns(batch), NEW at, PlacesOf(at, batch),
           NEW n \in 0..Len(batch), NEW m \in 0..Len(batch),
           NEW k \in 1..(GapEnd(batch, n) - GapStart(batch, n)),
           NEW h \in 1..(GapEnd(batch, m) - GapStart(batch, m)),
           at[m] + h = (at[n] + k) + 1,
           GapStart(batch, m) + h = (GapStart(batch, n) + k) + 1
    PROVE  m = n
<1> DEFINE N == Len(batch)
           from(i) == GapStart(batch, i)
           to(i) == GapEnd(batch, i)
           wide(i) == Len(batch[i].with)
<1>1. N \in Nat /\ n \in 0..N /\ m \in 0..N
  BY DEF TakeTurns
<1>2. \A i \in 0..N : from(i) \in Nat /\ to(i) \in Nat /\ from(i) <= to(i) /\ at[i] \in Nat
  BY DEF TakeTurns, PlacesOf
<1>3. /\ k \in 1..(to(n) - from(n)) /\ h \in 1..(to(m) - from(m))
      /\ at[m] + h = (at[n] + k) + 1 /\ from(m) + h = (from(n) + k) + 1
  OBVIOUS
<1>4. \A i, j \in 0..N : i < j => to(i) <= from(j)
  BY GapsApart
<1>5. \A i, j \in 0..N : i <= j => to(i) <= to(j)
  BY GapsInOrder
<1>6. \A i, j \in 0..N : i < j => at[i] + (to(i) - from(i)) + wide(j) <= at[j]
  <2> DEFINE whole == [i \in 1..(at[N] + (Len(source) - from(N))) |-> 0]
  <2>1. Len(whole) = at[N] + (Len(source) - from(N))
    <3>1. N \in 0..N
      BY <1>1
    <3>2. from(N) \in Nat /\ to(N) \in Nat /\ from(N) <= to(N) /\ to(N) = Len(source) /\ at[N] \in Nat
      BY <1>2, <3>1 DEF GapEnd
    <3>3. at[N] + (Len(source) - from(N)) \in Nat
      <4> HIDE DEF N, from, to
      <4> QED BY <3>2
    <3> DEFINE l == at[N] + (Len(source) - from(N))
    <3> HIDE DEF l
    <3>4. Len([i \in 1..l |-> 0]) = l
      BY <3>3 DEF l
    <3> QED BY <3>4 DEF l
  <2> HIDE DEF whole
  <2>2. Len(whole) = at[Len(batch)] + (Len(source) - GapStart(batch, Len(batch)))
    BY <2>1
  <2> QED BY <2>2, PlacesInside
<1>7. ASSUME NEW i \in 1..N, wide(i) = 0 PROVE to(i - 1) # from(i)
  <2>1. /\ CodepointBytes(source)[from(i)] = batch[i].end
        /\ CodepointBytes(source)[to(i - 1)] = batch[i].start
        /\ batch[i].start = batch[i].end => batch[i].with # << >>
        /\ batch[i].with \in Seq(Char)
    BY DEF TakeTurns
  <2>2. batch[i].with # << >> => wide(i) # 0
    BY <2>1
  <2> QED BY <1>7, <2>1, <2>2
<1>8. \A i \in 1..N : wide(i) \in Nat
  <2>1. \A i \in 1..N : batch[i].with \in Seq(Char)
    BY DEF TakeTurns
  <2>2. \A s \in Seq(Char) : Len(s) \in Nat
    OBVIOUS
  <2> QED BY <2>1, <2>2
<1> HIDE DEF N, from, to, wide
<1>9. CASE n < m
  <2>1. m \in 1..N /\ m - 1 \in 0..N /\ n <= m - 1 /\ m - 1 < m
    BY <1>1, <1>9
  <2>2. at[n] + (to(n) - from(n)) + wide(m) <= at[m] /\ wide(m) \in Nat
    BY <1>1, <1>6, <1>8, <1>9, <2>1
  <2>3. /\ from(n) \in Nat /\ to(n) \in Nat /\ at[n] \in Nat /\ from(m) \in Nat /\ at[m] \in Nat
        /\ to(m) \in Nat /\ to(m - 1) \in Nat
    BY <1>1, <1>2, <2>1
  <2>4. wide(m) = 0 /\ from(m) = to(n)
    <3> DEFINE a == at[n]
               b == at[m]
               f == from(n)
               t == to(n)
               g == from(m)
               w == to(m)
               v == wide(m)
    <3>1. /\ a \in Nat /\ b \in Nat /\ f \in Nat /\ t \in Nat /\ g \in Nat /\ w \in Nat /\ v \in Nat
          /\ a + (t - f) + v <= b
      BY <2>2, <2>3
    <3>2. k \in 1..(t - f) /\ h \in 1..(w - g) /\ b + h = (a + k) + 1 /\ g + h = (f + k) + 1
      BY <1>3
    <3> HIDE DEF a, b, f, t, g, w, v
    <3>3. v = 0 /\ g = t
      BY <3>1, <3>2
    <3> QED BY <3>3 DEF v, g, t
  <2>5. to(n) <= to(m - 1) /\ to(m - 1) <= from(m)
    BY <1>1, <1>4, <1>5, <2>1
  <2>6. to(m - 1) = from(m)
    BY <2>3, <2>4, <2>5
  <2> QED BY <1>7, <2>1, <2>4, <2>6
<1>10. CASE m < n
  <2>1. to(m) <= from(n)
    BY <1>1, <1>4, <1>10
  <2>2. from(n) \in Nat /\ to(m) \in Nat /\ from(m) \in Nat /\ to(n) \in Nat
    BY <1>1, <1>2
  <2> QED BY <1>3, <2>1, <2>2
<1> QED BY <1>1, <1>9, <1>10

\* The text from u on is the old one from x to y.
Stayed(u, x, y) == \A k \in 1..(y - x) : was'[u + k] = x + k

\* Text that was together and still is, is of one gap.
LEMMA StayedInGap ==
    ASSUME NEW batch, NEW at, EditSpread(batch, at),
           NEW x \in Nat, NEW y \in Nat, x < y, y <= Len(source), NEW u \in Nat,
           u + (y - x) <= Len(source'), Stayed(u, x, y)
    PROVE  \E n \in 0..Len(batch) :
              InGap(batch, n, x, y) /\ u = at[n] + (x - GapStart(batch, n))
<1> DEFINE N == Len(batch)
           l == Len(source')
           from(i) == GapStart(batch, i)
           to(i) == GapEnd(batch, i)
<1>1. /\ TakeTurns(batch) /\ PlacesOf(at, batch) /\ source \in Seq(Char) /\ source' \in Seq(Char)
  BY DEF EditSpread
<1>2. N \in Nat /\ l \in Nat
      /\ \A i \in 0..N : from(i) \in Nat /\ to(i) \in Nat /\ from(i) <= to(i) /\ at[i] \in Nat
  <2>1. \A s \in Seq(Char) : Len(s) \in Nat
    OBVIOUS
  <2>2. l \in Nat
    BY <1>1, <2>1
  <2> QED BY <1>1, <2>2 DEF TakeTurns, PlacesOf
<1>3. \A j \in 1..l : was'[j] # 0 =>
         \E n \in 0..N : \E k \in 1..(to(n) - from(n)) : j = at[n] + k /\ was'[j] = from(n) + k
  BY CharOfGap
<1>4. \A n, m \in 0..N : \A k \in 1..(to(n) - from(n)), h \in 1..(to(m) - from(m)) :
         at[m] + h = (at[n] + k) + 1 /\ from(m) + h = (from(n) + k) + 1 => m = n
  BY <1>1, NeighboursInGap
<1>5. u + (y - x) <= l
  OBVIOUS
<1> HIDE DEF N, l, from, to
<1>6. ASSUME NEW k \in 1..(y - x)
      PROVE  \E n \in 0..N : \E h \in 1..(to(n) - from(n)) : u + k = at[n] + h /\ x + k = from(n) + h
  <2>1. u + k \in 1..l
    BY <1>2, <1>5
  <2>2. was'[u + k] = x + k
    BY DEF Stayed
  <2>3. x + k # 0
    OBVIOUS
  <2> QED BY <1>3, <2>1, <2>2, <2>3
<1>7. PICK n \in 0..N : \E h \in 1..(to(n) - from(n)) : u + 1 = at[n] + h /\ x + 1 = from(n) + h
  <2>1. 1 \in 1..(y - x)
    OBVIOUS
  <2> QED BY <1>6, <2>1
<1>8. PICK g \in 1..(to(n) - from(n)) : u + 1 = at[n] + g /\ x + 1 = from(n) + g
  BY <1>7
<1>9. from(n) \in Nat /\ to(n) \in Nat /\ at[n] \in Nat /\ g \in Nat
  BY <1>2, <1>7
<1> DEFINE D == {k \in Nat : k + 1 <= y - x => g + k <= to(n) - from(n)}
<1>10. 0 \in D
  BY <1>8, <1>9
<1>11. ASSUME NEW k \in Nat, k \in D PROVE k + 1 \in D
  <2> SUFFICES ASSUME (k + 1) + 1 <= y - x PROVE g + (k + 1) <= to(n) - from(n)
    OBVIOUS
  <2>1. g + k \in 1..(to(n) - from(n))
    BY <1>8, <1>9, <1>11
  <2>2. k + 2 \in 1..(y - x)
    OBVIOUS
  <2>3. PICK m \in 0..N : \E h \in 1..(to(m) - from(m)) : u + (k + 2) = at[m] + h /\ x + (k + 2) = from(m) + h
    BY <1>6, <2>2
  <2>4. PICK h \in 1..(to(m) - from(m)) : u + (k + 2) = at[m] + h /\ x + (k + 2) = from(m) + h
    BY <2>3
  <2>5. at[m] + h = (at[n] + (g + k)) + 1 /\ from(m) + h = (from(n) + (g + k)) + 1
    <3>1. at[m] \in Nat /\ from(m) \in Nat /\ h \in Int
      BY <1>2, <2>3
    <3> DEFINE a == at[n]
               b == at[m]
               f == from(n)
               e == from(m)
    <3>2. /\ a \in Nat /\ b \in Nat /\ f \in Nat /\ e \in Nat
          /\ u + 1 = a + g /\ x + 1 = f + g
      BY <1>8, <1>9, <3>1
    <3>3. u + (k + 2) = b + h /\ x + (k + 2) = e + h
      BY <2>4
    <3> HIDE DEF a, b, f, e
    <3>4. b + h = (a + (g + k)) + 1 /\ e + h = (f + (g + k)) + 1
      BY <1>9, <3>1, <3>2, <3>3
    <3> QED BY <3>4 DEF a, b, f, e
  <2>6. m = n
    BY <1>4, <1>7, <2>1, <2>3, <2>4, <2>5
  <2>7. h = g + (k + 1)
    BY <1>9, <2>5, <2>6
  <2> QED BY <2>4, <2>6, <2>7
<1> HIDE DEF D
<1>12. Nat \subseteq D
  BY <1>10, <1>11, Climb
<1>13. (y - x) - 1 \in Nat /\ ((y - x) - 1) + 1 <= y - x
  OBVIOUS
<1>14. g + ((y - x) - 1) <= to(n) - from(n)
  BY <1>12, <1>13 DEF D
<1>15. from(n) <= x /\ y <= to(n) /\ u = at[n] + (x - from(n))
  <2> DEFINE a == at[n]
             f == from(n)
             t == to(n)
  <2>1. /\ a \in Nat /\ f \in Nat /\ t \in Nat /\ g \in 1..(t - f)
        /\ u + 1 = a + g /\ x + 1 = f + g
    BY <1>8, <1>9
  <2>2. g + ((y - x) - 1) <= t - f
    BY <1>14
  <2> HIDE DEF a, f, t
  <2>3. f <= x /\ y <= t /\ u = a + (x - f)
    BY <1>9, <2>1, <2>2
  <2> QED BY <2>3 DEF a, f, t
<1>16. n \in 0..N /\ x <= y
  OBVIOUS
<1> QED BY <1>15, <1>16 DEF InGap, N, from, to

\* A node whose span is within a text.
SpanIn(node, s) ==
    /\ node.span # NoSpan /\ node.span = <<node.span[1], node.span[2]>>
    /\ node.span[1] \in 0..Len(s) /\ node.span[2] \in 0..Len(s)
    /\ node.span[1] <= node.span[2]

\* The parser gives spans within its source.
LEMMA SpansInside ==
    ASSUME NEW s \in Source, NEW p \in 1..Len(Parse[s]), Parse[s][p].span # NoSpan
    PROVE  SpanIn(Parse[s][p], s)
<1> DEFINE node == Parse[s][p]
<1>1. Parse[s] \in Seq(Node)
  BY ParseAssumption
<1>2. node \in Node
  BY <1>1
<1>3. node.span \in (0..MaxChars) \X (0..MaxChars)
  BY <1>2 DEF Node, Span
<1>4. node.span[1] <= node.span[2] /\ node.span[2] <= Len(s)
  BY ParseAssumption
<1>5. Len(s) \in Nat
  BY BoundAssumption DEF Source, Text
<1> HIDE DEF node
<1>6. node.span[1] \in Nat /\ node.span[2] \in Nat /\ node.span = <<node.span[1], node.span[2]>>
  BY <1>3, BoundAssumption
<1>7. node.span # NoSpan
  BY DEF node
<1>8. SpanIn(node, s)
  BY <1>4, <1>5, <1>6, <1>7 DEF SpanIn
<1> QED BY <1>8 DEF node

\* Two places with the same bytes are one.
LEMMA SameByte ==
    ASSUME NEW s \in Seq(Char), NEW j \in 0..Len(s), NEW k \in 0..Len(s),
           CodepointBytes(s)[j] = CodepointBytes(s)[k]
    PROVE  j = k
<1>1. CharsBefore(s, CodepointBytes(s)[j]) = j /\ CharsBefore(s, CodepointBytes(s)[k]) = k
  BY CharsBack
<1> QED BY Zenon, <1>1

\* Where the characters from x to y of the n-th gap are now, and their bytes.
Lands(batch, at, n, x, y, u) ==
    /\ u = at[n] + (x - GapStart(batch, n))
    /\ u \in 0..Len(source') /\ u + (y - x) \in 0..Len(source')
    /\ CodepointBytes(source')[u] = CodepointBytes(source)[x] + Adjustment(batch, n)
    /\ CodepointBytes(source')[u + (y - x)] = CodepointBytes(source)[y] + Adjustment(batch, n)
    /\ Stayed(u, x, y)

\* They are there.
LEMMA GapLands ==
    ASSUME NEW batch, NEW at, EditSpread(batch, at), NEW x \in Nat, NEW y \in Nat,
           NEW n, InGap(batch, n, x, y)
    PROVE  Lands(batch, at, n, x, y, at[n] + (x - GapStart(batch, n)))
<1> DEFINE from == GapStart(batch, n)
           to == GapEnd(batch, n)
           a == at[n]
           u == a + (x - from)
           whole == source'
<1>1. /\ TakeTurns(batch) /\ PlacesOf(at, batch) /\ source \in Seq(Char) /\ whole \in Seq(Char)
      /\ Spread(whole, batch, source, PutIn(batch), at)
  BY DEF EditSpread
<1>2. n \in 0..Len(batch) /\ from <= x /\ x <= y /\ y <= to
  BY DEF InGap
<1>3. from \in Nat /\ to \in Nat /\ a \in Nat
  BY <1>1, <1>2 DEF TakeTurns, PlacesOf
<1>4. x \in from..to /\ y \in from..to
  <2> HIDE DEF from, to
  <2> QED BY <1>2, <1>3
<1>5. \A z \in from..to :
         /\ a + (z - from) \in 0..Len(whole)
         /\ CodepointBytes(whole)[a + (z - from)] = CodepointBytes(source)[z] + Adjustment(batch, n)
  <2> HIDE DEF whole
  <2> QED BY <1>1, <1>2, BytesMoved
<1>6. \A k \in 1..(to - from) : was'[a + k] = from + k
  BY <1>2 DEF EditSpread
<1> HIDE DEF from, to, a, whole
<1>7. u + (y - x) = a + (y - from)
  BY <1>2, <1>3
<1>8. ASSUME NEW k \in 1..(y - x) PROVE was'[u + k] = x + k
  <2>1. (x - from) + k \in 1..(to - from)
    BY <1>2, <1>3
  <2>2. was'[a + ((x - from) + k)] = from + ((x - from) + k)
    BY <1>6, <2>1
  <2>3. a + ((x - from) + k) = u + k /\ from + ((x - from) + k) = x + k
    BY <1>2, <1>3
  <2> QED BY <2>2, <2>3
<1>9. /\ u \in 0..Len(whole) /\ u + (y - x) \in 0..Len(whole)
      /\ CodepointBytes(whole)[u] = CodepointBytes(source)[x] + Adjustment(batch, n)
      /\ CodepointBytes(whole)[u + (y - x)] = CodepointBytes(source)[y] + Adjustment(batch, n)
  BY Zenon, <1>4, <1>5, <1>7
<1> QED BY <1>8, <1>9 DEF Lands, Stayed, from, a, whole

\* The key of an old node is where its text is now.
KeyLands(batch, p, u) ==
    LET x == document[p].span[1]
        y == document[p].span[2]
    IN /\ u \in 0..Len(source') /\ u + (y - x) \in 0..Len(source')
       /\ OldKey(batch, p).at = <<CodepointBytes(source')[u], CodepointBytes(source')[u + (y - x)]>>
       /\ Stayed(u, x, y)

\* What lands somewhere has its key there.
LEMMA LandsKeyed ==
    ASSUME NEW batch, NEW at, NEW p, NEW u, SpanIn(document[p], source),
           NEW n, n = Before(batch, CodepointBytes(source)[document[p].span[1]]),
           Lands(batch, at, n, document[p].span[1], document[p].span[2], u)
    PROVE  KeyLands(batch, p, u)
<1>1. OldKey(batch, p).at =
         <<CodepointBytes(source)[document[p].span[1]] + Adjustment(batch, n),
           CodepointBytes(source)[document[p].span[2]] + Adjustment(batch, n)>>
  BY DEF OldKey, Bytes
<1> QED BY <1>1 DEF Lands, KeyLands

\* The key of an untouched node is where its text is now.
LEMMA UntouchedLands ==
    ASSUME NEW batch, NEW at, EditSpread(batch, at), NEW p \in Untouched(batch),
           SpanIn(document[p], source)
    PROVE  \E u : KeyLands(batch, p, u)
<1> DEFINE x == document[p].span[1]
           y == document[p].span[2]
           n == Before(batch, CodepointBytes(source)[x])
           u == at[n] + (x - GapStart(batch, n))
<1>1. TakeTurns(batch) /\ source \in Seq(Char)
  BY DEF EditSpread
<1>2. x \in 0..Len(source) /\ y \in 0..Len(source) /\ x <= y
  BY DEF SpanIn
<1>3. ~Touched(batch, CodepointBytes(source)[x], CodepointBytes(source)[y])
  BY DEF Untouched, Bytes
<1>4. InGap(batch, n, x, y)
  <2> HIDE DEF x, y
  <2> QED BY <1>1, <1>2, <1>3, UntouchedInGap
<1>5. Lands(batch, at, n, x, y, u)
  <2>1. x \in Nat /\ y \in Nat
    BY <1>2
  <2> HIDE DEF x, y, n
  <2> QED BY <1>4, <2>1, GapLands
<1>6. KeyLands(batch, p, u)
  <2>1. n = Before(batch, CodepointBytes(source)[document[p].span[1]])
    OBVIOUS
  <2>2. Lands(batch, at, n, document[p].span[1], document[p].span[2], u)
    BY <1>5
  <2> HIDE DEF n, u
  <2> QED BY <2>1, <2>2, LandsKeyed
<1> QED BY <1>6

\* A node whose text stayed together is untouched, and its key is where its text is now.
LEMMA StayedUntouched ==
    ASSUME NEW batch, NEW at, EditSpread(batch, at), NEW p \in 2..Len(document),
           SpanIn(document[p], source), document[p].span[1] < document[p].span[2],
           NEW u \in Nat, u + (document[p].span[2] - document[p].span[1]) <= Len(source'),
           Stayed(u, document[p].span[1], document[p].span[2])
    PROVE  p \in Untouched(batch) /\ KeyLands(batch, p, u)
<1> DEFINE x == document[p].span[1]
           y == document[p].span[2]
           b == CodepointBytes(source)
<1>1. TakeTurns(batch) /\ source \in Seq(Char) /\ source' \in Seq(Char) /\ Len(source) \in Nat
  BY DEF EditSpread
<1>2. x \in 0..Len(source) /\ y \in 0..Len(source) /\ x < y
  BY DEF SpanIn
<1>3. x \in Nat /\ y \in Nat /\ y <= Len(source)
  BY <1>1, <1>2
<1>4. u + (y - x) <= Len(source') /\ Stayed(u, x, y)
  OBVIOUS
<1>5. PICK n \in 0..Len(batch) : InGap(batch, n, x, y) /\ u = at[n] + (x - GapStart(batch, n))
  <2> HIDE DEF x, y
  <2> QED BY <1>2, <1>3, <1>4, StayedInGap
<1>6. Before(batch, b[x]) = n /\ ~Touched(batch, b[x], b[y])
  <2> HIDE DEF x, y
  <2> QED BY <1>1, <1>2, <1>5, GapIsUntouched
<1>7. Lands(batch, at, n, x, y, u)
  <2> HIDE DEF x, y
  <2> QED BY <1>3, <1>5, GapLands
<1>8. b[x] + Adjustment(batch, n) >= 0
  <2> DEFINE whole == source'
  <2>1. u \in 0..Len(whole) /\ CodepointBytes(whole)[u] = b[x] + Adjustment(batch, n)
    BY <1>7 DEF Lands
  <2>2. whole \in Seq(Char)
    BY <1>1
  <2> HIDE DEF whole
  <2>3. CodepointBytes(whole)[u] \in Nat
    BY <2>1, <2>2, BytesAre DEF Weighed
  <2> QED BY <2>1, <2>3
<1>9. p \in Untouched(batch)
  <2>1. document[p].span # NoSpan
    BY DEF SpanIn
  <2> QED BY <1>6, <1>8, <2>1 DEF Untouched, Bytes
<1>10. KeyLands(batch, p, u)
  <2>1. n = Before(batch, CodepointBytes(source)[document[p].span[1]])
    BY <1>6
  <2>2. Lands(batch, at, n, document[p].span[1], document[p].span[2], u)
    BY <1>7
  <2> QED BY <2>1, <2>2, LandsKeyed
<1> QED BY <1>9, <1>10

\* The snapshot's tree is what the parser makes of its source.
ParsedInv == SessionInv /\ source \in Source /\ document = Parse[source]

\* What an edit says of one old and one new node: the trees are parsed, the ids are handed
\* on along the heirs, and the characters are laid out.
EditOf(batch, at, heirs) ==
    /\ EditSpread(batch, at)
    /\ source \in Source /\ document = Parse[source]
    /\ source' \in Source /\ document' = Parse[source']
    /\ heirs = Heirs(OldKeys(batch), NewKeys) /\ OneToOne(heirs)
    /\ ids' = NewIds(heirs, Len(document'))

\* Every edit does (reparse).
LEMMA EditIs ==
    ASSUME ParsedInv, NEW batch \in Batch(source), Reparse(batch)
    PROVE  \E at, heirs : EditOf(batch, at, heirs)
<1>1. source \in Source /\ document = Parse[source]
  BY DEF ParsedInv
<1>2. PICK at : EditSpread(batch, at)
  BY <1>1, ReparseSpread
<1>3. source' \in Source /\ document' = Parse[source']
  BY Zenon DEF Reparse
<1>4. PICK heirs \in {Heirs(OldKeys(batch), NewKeys)} : ids' = NewIds(heirs, Len(document'))
  BY Zenon DEF Reparse
<1>5. OneToOne(heirs)
  BY <1>4, HeirsOneToOne
<1> QED BY <1>1, <1>2, <1>3, <1>4, <1>5 DEF EditOf

\* A node of the edited tree has the id of its heritage and of nothing else.
LEMMA SameIdIsHeir ==
    ASSUME SessionInv, NEW heirs, OneToOne(heirs), document' \in Seq(Node) \ {<< >>},
           ids' = NewIds(heirs, Len(document')),
           NEW p \in 2..Len(document), NEW q \in 2..Len(document'), ids'[q] = ids[p]
    PROVE  \E h \in heirs : h[1].node = p /\ h[2].node = q
<1>1. /\ next \in Nat /\ \A i \in 1..Len(document) : ids[i] \in Nat /\ ids[i] < next
      /\ \A i, j \in 1..Len(document) : ids[i] = ids[j] => i = j
  BY DEF SessionInv, IdsForGood, Given
<1>2. Len(document') \in Nat \ {0} /\ q \in 1..Len(document') /\ q # 1 /\ p \in 1..Len(document)
  OBVIOUS
<1>3. \/ \E o \in 1..Len(document) : Origin(heirs, q, o) /\ ids'[q] = ids[o]
      \/ q \in Fresh(heirs, Len(document'))
           /\ ids'[q] = next + Cardinality(Fresh(heirs, q - 1))
  BY <1>2, NewIdsOrigin
<1>4. ids'[q] # next + Cardinality(Fresh(heirs, q - 1))
  <2>1. q - 1 \in Nat
    BY <1>2
  <2>2. Cardinality(Fresh(heirs, q - 1)) \in Nat
    BY <2>1, FreshCount
  <2> QED BY <1>1, <1>2, <2>2
<1>5. PICK o \in 1..Len(document) : Origin(heirs, q, o) /\ ids'[q] = ids[o]
  BY <1>3, <1>4
<1>6. o = p
  BY <1>1, <1>2, <1>5
<1> QED BY <1>2, <1>5, <1>6 DEF Origin

\* One edit hands an id on to the very characters of its node only.
LEMMA HeirsHaveSameChars ==
    ASSUME SessionInv, NEW batch, NEW at, NEW heirs, EditOf(batch, at, heirs),
           NEW p \in 2..Len(document), NEW q \in 2..Len(document'), ids'[q] = ids[p]
    PROVE  SameChars(p, q)
<1> DEFINE x == document[p].span[1]
           y == document[p].span[2]
           v == document'[q].span[1]
           w == document'[q].span[2]
           whole == source'
<1>1. /\ EditSpread(batch, at) /\ OneToOne(heirs) /\ ids' = NewIds(heirs, Len(document'))
      /\ heirs = Heirs(OldKeys(batch), NewKeys)
      /\ source \in Source /\ document = Parse[source]
      /\ source' \in Source /\ document' = Parse[source']
  BY DEF EditOf
<1>2. PICK h \in heirs : h[1].node = p /\ h[2].node = q
  <2>1. document' \in Seq(Node) \ {<< >>}
    BY <1>1, ParseAssumption
  <2> QED BY <1>1, <2>1, SameIdIsHeir
<1>3. h[1] \in OldKeys(batch) /\ h[2] \in NewKeys /\ h[1].at = h[2].at /\ h[1].print = h[2].print
  BY <1>1 DEF Heirs, Sole
<1>4. p \in Untouched(batch) /\ h[1] = OldKey(batch, p)
  BY <1>2, <1>3 DEF OldKeys, OldKey
<1>5. document'[q].span # NoSpan /\ h[2] = NewKey(q)
  BY <1>2, <1>3 DEF NewKeys, NewKey
<1>6. document[p].span # NoSpan
  BY <1>4 DEF Untouched
<1>7. SpanIn(document[p], source)
  <2>1. p \in 1..Len(Parse[source])
    BY <1>1
  <2> QED BY <1>1, <1>6, <2>1, SpansInside
<1>8. SpanIn(document'[q], whole)
  <2> DEFINE tree == document'
  <2>1. q \in 1..Len(Parse[whole]) /\ tree = Parse[whole] /\ whole \in Source /\ tree[q].span # NoSpan
    BY <1>1, <1>5
  <2> HIDE DEF whole, tree
  <2>2. SpanIn(tree[q], whole)
    BY <2>1, SpansInside
  <2> QED BY <2>2 DEF tree
<1>9. PICK u : KeyLands(batch, p, u)
  BY <1>1, <1>4, <1>7, UntouchedLands
<1>10. /\ u \in 0..Len(whole) /\ u + (y - x) \in 0..Len(whole)
       /\ h[1].at = <<CodepointBytes(whole)[u], CodepointBytes(whole)[u + (y - x)]>>
       /\ Stayed(u, x, y)
  BY <1>4, <1>9 DEF KeyLands
<1>11. h[2].at = <<CodepointBytes(whole)[v], CodepointBytes(whole)[w]>>
  BY <1>5 DEF NewKey, Bytes
<1>12. v \in 0..Len(whole) /\ w \in 0..Len(whole)
  BY <1>8 DEF SpanIn
<1>13. whole \in Seq(Char)
  BY <1>1 DEF EditSpread
<1>14. u = v /\ u + (y - x) = w
  <2> HIDE DEF whole, v, w, x, y
  <2>1. CodepointBytes(whole)[u] = CodepointBytes(whole)[v]
        /\ CodepointBytes(whole)[u + (y - x)] = CodepointBytes(whole)[w]
    <3>1. \A a, b, c, d : <<a, b>> = <<c, d>> => a = c /\ b = d
      OBVIOUS
    <3>2. <<CodepointBytes(whole)[u], CodepointBytes(whole)[u + (y - x)]>>
            = <<CodepointBytes(whole)[v], CodepointBytes(whole)[w]>>
      BY Zenon, <1>3, <1>10, <1>11
    <3> QED BY Zenon, <3>1, <3>2
  <2>2. u = v
    BY <1>10, <1>12, <1>13, <2>1, SameByte
  <2> DEFINE e == u + (y - x)
  <2>3. e \in 0..Len(whole) /\ CodepointBytes(whole)[e] = CodepointBytes(whole)[w]
    BY <1>10, <2>1
  <2> HIDE DEF e
  <2>4. e = w
    BY <1>12, <1>13, <2>3, SameByte
  <2> QED BY <2>2, <2>4 DEF e
<1>15. w - v = y - x /\ Stayed(v, x, y)
  <2>1. x \in Nat /\ y \in Nat
    BY <1>7 DEF SpanIn
  <2>2. u \in Nat
    BY <1>10
  <2> HIDE DEF x, y, v, w, whole
  <2> QED BY <1>10, <1>14, <2>1, <2>2
<1>16. document'[q].print = document[p].print
  BY <1>3, <1>4, <1>5 DEF OldKey, NewKey
<1> QED BY <1>5, <1>6, <1>15, <1>16 DEF SameChars, Stayed

\* An old node that is alone, and whose text stayed together, has a key of its own.
LEMMA SoleBefore ==
    ASSUME NEW batch, NEW at, EditSpread(batch, at), source \in Source, document = Parse[source],
           NEW p \in 2..Len(document), HasText(document[p]), Alone(document, p),
           NEW u, KeyLands(batch, p, u), p \in Untouched(batch)
    PROVE  OldKey(batch, p) \in Sole(OldKeys(batch))
<1> DEFINE x == document[p].span[1]
           y == document[p].span[2]
           c == CodepointBytes(source')
           key == OldKey(batch, p)
<1>1. key \in OldKeys(batch)
  BY DEF OldKeys
<1>2. ASSUME NEW r \in 2..Len(document), document[r].span # NoSpan PROVE SpanIn(document[r], source)
  <2>1. r \in 1..Len(Parse[source])
    OBVIOUS
  <2> QED BY <1>2, <2>1, SpansInside
<1>3. SpanIn(document[p], source) /\ x < y
  BY <1>2 DEF HasText
<1>4. /\ u \in 0..Len(source') /\ u + (y - x) \in 0..Len(source')
      /\ key.at = <<c[u], c[u + (y - x)]>> /\ Stayed(u, x, y)
  BY DEF KeyLands
<1>5. source' \in Seq(Char)
  BY DEF EditSpread
<1>6. ASSUME NEW o \in OldKeys(batch), o.at = key.at, o.print = key.print
      PROVE  o = key
  <2>1. PICK r \in Untouched(batch) : o = OldKey(batch, r)
    BY DEF OldKeys
  <2> DEFINE z == document[r].span[1]
             w == document[r].span[2]
  <2>2. r \in 2..Len(document) /\ SpanIn(document[r], source)
    BY <1>2 DEF Untouched
  <2>3. PICK v : KeyLands(batch, r, v)
    BY <2>2, UntouchedLands
  <2>4. /\ v \in 0..Len(source') /\ v + (w - z) \in 0..Len(source')
        /\ o.at = <<c[v], c[v + (w - z)]>> /\ Stayed(v, z, w)
    BY <2>1, <2>3 DEF KeyLands
  <2>5. x \in Nat /\ y \in Nat /\ z \in Nat /\ w \in Nat /\ u \in Nat /\ v \in Nat
    <3>1. x \in Nat /\ y \in Nat
      BY <1>3 DEF SpanIn
    <3>2. z \in Nat /\ w \in Nat
      BY <2>2 DEF SpanIn
    <3>3. u \in Nat /\ v \in Nat
      <4> HIDE DEF c, key, x, y, z, w
      <4> QED BY <1>4, <2>4
    <3> QED BY <3>1, <3>2, <3>3
  <2>6. c[u] = c[v] /\ c[u + (y - x)] = c[v + (w - z)]
    <3>1. \A a, b, d, e : <<a, b>> = <<d, e>> => a = d /\ b = e
      OBVIOUS
    <3>2. <<c[u], c[u + (y - x)]>> = <<c[v], c[v + (w - z)]>>
      <4> HIDE DEF c, key, x, y, z, w
      <4> QED BY Zenon, <1>4, <1>6, <2>4
    <3> HIDE DEF c, x, y, z, w
    <3> QED BY Zenon, <3>1, <3>2
  <2> DEFINE e == u + (y - x)
             f == v + (w - z)
             whole == source'
  <2>7. u = v /\ e = f
    <3>1. /\ whole \in Seq(Char)
          /\ u \in 0..Len(whole) /\ v \in 0..Len(whole) /\ CodepointBytes(whole)[u] = CodepointBytes(whole)[v]
          /\ e \in 0..Len(whole) /\ f \in 0..Len(whole) /\ CodepointBytes(whole)[e] = CodepointBytes(whole)[f]
      BY <1>4, <1>5, <2>4, <2>6
    <3> HIDE DEF e, f, whole
    <3> QED BY <3>1, SameByte
  <2>8. x = z /\ y = w
    <3>1. x < y /\ u = v /\ u + (y - x) = v + (w - z)
      BY <1>3, <2>7
    <3> HIDE DEF x, y, z, w
    <3>2. y - x = w - z /\ 1 \in 1..(y - x) /\ 1 \in 1..(w - z)
      BY <2>5, <3>1
    <3>3. was'[u + 1] = x + 1 /\ was'[v + 1] = z + 1
      BY <1>4, <2>4, <3>2 DEF Stayed
    <3>4. x = z
      BY <2>5, <3>1, <3>3
    <3> QED BY <2>5, <3>2, <3>4
  <2>9. document[r].span = document[p].span
    <3>1. document[r].span = <<z, w>> /\ document[p].span = <<x, y>>
      BY <1>3, <2>2 DEF SpanIn
    <3> QED BY <2>8, <3>1
  <2>10. document[r].print = document[p].print
    BY <1>6, <2>1 DEF OldKey
  <2>11. r = p
    BY <2>2, <2>9, <2>10 DEF Alone
  <2> QED BY <2>1, <2>11
<1> QED BY <1>1, <1>6 DEF Sole

\* A new node that is alone has a key of its own.
LEMMA SoleAfter ==
    ASSUME source' \in Source, document' = Parse[source'],
           NEW q \in 2..Len(document'), document'[q].span # NoSpan, Alone(document', q)
    PROVE  NewKey(q) \in Sole(NewKeys)
<1> DEFINE whole == source'
           tree == document'
<1>1. ASSUME NEW r \in 2..Len(tree), tree[r].span # NoSpan PROVE SpanIn(tree[r], whole)
  <2>1. r \in 1..Len(Parse[whole]) /\ tree = Parse[whole] /\ whole \in Source
    OBVIOUS
  <2> HIDE DEF tree, whole
  <2> QED BY <1>1, <2>1, SpansInside
<1>2. NewKey(q) \in NewKeys
  BY DEF NewKeys
<1>3. whole \in Seq(Char)
  BY DEF Source, Text
<1>4. ASSUME NEW o \in NewKeys, o.at = NewKey(q).at, o.print = NewKey(q).print
      PROVE  o = NewKey(q)
  <2>1. PICK r \in 2..Len(tree) : o = NewKey(r) /\ tree[r].span # NoSpan
    BY DEF NewKeys
  <2>2. Bytes(whole, tree[r]) = Bytes(whole, tree[q]) /\ tree[r].print = tree[q].print
    BY <1>4, <2>1 DEF NewKey
  <2>3. SpanIn(tree[r], whole) /\ SpanIn(tree[q], whole)
    BY <1>1, <2>1
  <2>4. q \in 2..Len(tree) /\ \A i \in 2..Len(tree) : tree[i].span = tree[q].span /\ tree[i].print = tree[q].print => i = q
    BY DEF Alone
  <2> HIDE DEF tree, whole
  <2> DEFINE z == tree[r].span[1]
             w == tree[r].span[2]
             x == tree[q].span[1]
             y == tree[q].span[2]
  <2>5. /\ z \in 0..Len(whole) /\ w \in 0..Len(whole) /\ tree[r].span = <<z, w>>
        /\ x \in 0..Len(whole) /\ y \in 0..Len(whole) /\ tree[q].span = <<x, y>>
    BY <2>3 DEF SpanIn
  <2>6. <<CodepointBytes(whole)[z], CodepointBytes(whole)[w]>>
          = <<CodepointBytes(whole)[x], CodepointBytes(whole)[y]>>
    BY <2>2 DEF Bytes
  <2> HIDE DEF z, w, x, y
  <2>7. CodepointBytes(whole)[z] = CodepointBytes(whole)[x] /\ CodepointBytes(whole)[w] = CodepointBytes(whole)[y]
    <3>1. \A a, b, d, e : <<a, b>> = <<d, e>> => a = d /\ b = e
      OBVIOUS
    <3> QED BY Zenon, <2>6, <3>1
  <2>8. z = x /\ w = y
    BY <1>3, <2>5, <2>7, SameByte
  <2>9. r = q
    BY <2>1, <2>2, <2>4, <2>5, <2>8
  <2> QED BY <2>1, <2>9
<1> QED BY <1>2, <1>4 DEF Sole

\* One edit hands the id of a node on when its text stayed and it is alone.
LEMMA SameCharsAreHeirs ==
    ASSUME NEW batch, NEW at, NEW heirs, EditOf(batch, at, heirs),
           NEW p \in 2..Len(document), NEW q \in 2..Len(document'), HasText(document[p]),
           SameChars(p, q), Alone(document, p), Alone(document', q)
    PROVE  ids'[q] = ids[p]
<1> DEFINE x == document[p].span[1]
           y == document[p].span[2]
           v == document'[q].span[1]
           w == document'[q].span[2]
           whole == source'
<1>1. /\ EditSpread(batch, at) /\ OneToOne(heirs) /\ ids' = NewIds(heirs, Len(document'))
      /\ heirs = Heirs(OldKeys(batch), NewKeys)
      /\ source \in Source /\ document = Parse[source]
      /\ source' \in Source /\ document' = Parse[source']
  BY DEF EditOf
<1>2. /\ document[p].span # NoSpan /\ document'[q].span # NoSpan
      /\ w - v = y - x /\ Stayed(v, x, y)
      /\ document'[q].print = document[p].print
  BY DEF SameChars, Stayed
<1>3. SpanIn(document[p], source)
  <2>1. p \in 1..Len(Parse[source])
    BY <1>1
  <2> QED BY <1>1, <1>2, <2>1, SpansInside
<1>4. SpanIn(document'[q], whole)
  <2> DEFINE tree == document'
  <2>1. q \in 1..Len(Parse[whole]) /\ tree = Parse[whole] /\ whole \in Source /\ tree[q].span # NoSpan
    BY <1>1, <1>2
  <2> HIDE DEF whole, tree
  <2>2. SpanIn(tree[q], whole)
    BY <2>1, SpansInside
  <2> QED BY <2>2 DEF tree
<1>5. /\ x \in Nat /\ y \in Nat /\ x < y /\ v \in Nat /\ w \in Nat /\ w <= Len(whole)
  BY <1>3, <1>4 DEF SpanIn, HasText
<1>6. v + (y - x) = w
  <2> HIDE DEF x, y, v, w
  <2> QED BY <1>2, <1>5
<1>7. p \in Untouched(batch) /\ KeyLands(batch, p, v)
  <2>1. v + (document[p].span[2] - document[p].span[1]) <= Len(source')
    BY <1>5, <1>6
  <2>2. Stayed(v, document[p].span[1], document[p].span[2]) /\ document[p].span[1] < document[p].span[2]
    BY <1>2, <1>5
  <2>3. v \in Nat
    BY <1>5
  <2> HIDE DEF v
  <2> QED BY <1>1, <1>3, <2>1, <2>2, <2>3, StayedUntouched
<1> DEFINE k == OldKey(batch, p)
           l == NewKey(q)
           g == <<k, l>>
<1>8. k \in Sole(OldKeys(batch))
  BY <1>1, <1>7, SoleBefore
<1>9. l \in Sole(NewKeys)
  BY <1>1, <1>2, SoleAfter
<1>10. k.at = l.at
  <2>1. k.at = <<CodepointBytes(whole)[v], CodepointBytes(whole)[v + (y - x)]>>
    BY <1>7 DEF KeyLands
  <2>2. l.at = <<CodepointBytes(whole)[v], CodepointBytes(whole)[w]>>
    BY DEF NewKey, Bytes
  <2> HIDE DEF whole, x, y, v, w, k, l
  <2> QED BY Zenon, <1>6, <2>1, <2>2
<1>11. k.print = l.print /\ k.node = p /\ l.node = q
  BY <1>2 DEF OldKey, NewKey
<1> HIDE DEF k, l
<1>12. g \in heirs /\ g[1].node = p /\ g[2].node = q
  BY <1>1, <1>8, <1>9, <1>10, <1>11 DEF Heirs
<1> HIDE DEF g
<1> DEFINE h == CHOOSE i \in heirs : i[2].node = q
<1>13. h \in heirs /\ h[2].node = q
  BY <1>12
<1>14. ids'[q] = ids[h[1].node]
  <2>1. q \in 1..Len(document') /\ q # 1 /\ \E i \in heirs : i[2].node = q
    BY <1>12
  <2> QED BY <1>1, <2>1 DEF NewIds
<1> HIDE DEF h
<1>15. h[1].node = p
  BY <1>1, <1>12, <1>13 DEF OneToOne
<1> QED BY <1>14, <1>15

\* The trees of a session are parsed.
LEMMA TreesAreParsed == Session => []ParsedInv
<1>1. Open => ParsedInv
  <2> SUFFICES ASSUME Open PROVE ParsedInv
    OBVIOUS
  <2>1. document \in Seq(Node) /\ document # << >> /\ source \in Source /\ document = Parse[source]
    BY ParseAssumption DEF Open
  <2>2. Len(document) \in Nat /\ retired = {}
        /\ ids = [i \in 1..Len(document) |-> i - 1] /\ next = Len(document)
    BY <2>1 DEF Open
  <2>3. ids \in [1..Len(document) -> Nat]
    BY <2>2
  <2>4. IdsForGood
    BY <2>2 DEF IdsForGood, Given
  <2> QED BY <2>1, <2>2, <2>3, <2>4 DEF SessionInv, ParsedInv
<1>2. ParsedInv /\ [Edit]_session => ParsedInv'
  <2>1. ASSUME ParsedInv, Edit PROVE ParsedInv'
    <3>1. PICK batch \in Batch(source) : Reparse(batch)
      BY <2>1 DEF Edit
    <3>2. SessionInv'
      BY <2>1, <3>1, EditKeeps DEF ParsedInv
    <3>3. source' \in Source /\ document' = Parse[source']
      BY Zenon, <3>1 DEF Reparse
    <3> QED BY <3>2, <3>3 DEF ParsedInv
  <2>2. ASSUME ParsedInv, UNCHANGED session PROVE ParsedInv'
    BY <2>2 DEF ParsedInv, SessionInv, IdsForGood, Given, session
  <2> QED BY <2>1, <2>2
<1> QED BY <1>1, <1>2, PTL DEF Session

\* No edit hands an id on to a node that is not made of the very characters of its old
\* node, in their places: text typed again is new text, whatever its fingerprint.
THEOREM KeptUntouchedHolds == Session => KeptUntouched
<1> DEFINE Handed == \A p \in 2..Len(ids), q \in 2..Len(ids') : ids'[q] = ids[p] => SameChars(p, q)
<1>1. ParsedInv /\ ParsedInv' /\ [Edit]_session => [Handed]_session
  <2> SUFFICES ASSUME ParsedInv, ParsedInv', Edit,
                      NEW p \in 2..Len(ids), NEW q \in 2..Len(ids'), ids'[q] = ids[p]
               PROVE  SameChars(p, q)
    OBVIOUS
  <2>1. PICK batch \in Batch(source) : Reparse(batch)
    BY DEF Edit
  <2>2. PICK at, heirs : EditOf(batch, at, heirs)
    BY <2>1, EditIs
  <2>3. SessionInv /\ Len(ids) = Len(document) /\ Len(ids') = Len(document')
    BY DEF ParsedInv, SessionInv
  <2> QED BY <2>2, <2>3, HeirsHaveSameChars
<1> QED BY <1>1, TreesAreParsed, PTL DEF Session, KeptUntouched

\* Every edit hands the id of a node on when its text stayed together and untouched and no
\* other node can be meant.
THEOREM UntouchedKeptHolds == Session => UntouchedKept
<1> DEFINE Handed == \A p \in 2..Len(ids), q \in 2..Len(ids') :
                      HasText(document[p]) /\ SameChars(p, q) /\ Alone(document, p) /\ Alone(document', q)
                        => ids'[q] = ids[p]
<1>1. ParsedInv /\ ParsedInv' /\ [Edit]_session => [Handed]_session
  <2> SUFFICES ASSUME ParsedInv, ParsedInv', Edit,
                      NEW p \in 2..Len(ids), NEW q \in 2..Len(ids'), HasText(document[p]),
                      SameChars(p, q), Alone(document, p), Alone(document', q)
               PROVE  ids'[q] = ids[p]
    OBVIOUS
  <2>1. PICK batch \in Batch(source) : Reparse(batch)
    BY DEF Edit
  <2>2. PICK at, heirs : EditOf(batch, at, heirs)
    BY <2>1, EditIs
  <2>3. Len(ids) = Len(document) /\ Len(ids') = Len(document')
    BY DEF ParsedInv, SessionInv
  <2> QED BY <2>2, <2>3, SameCharsAreHeirs
<1> QED BY <1>1, TreesAreParsed, PTL DEF Session, UntouchedKept
===============================================================================
