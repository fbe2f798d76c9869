-------------------------------- MODULE AstMerge --------------------------------
(***************************************************************************)
(* The three-way merge of two edited copies of a document                  *)
(* (src/ast_merge.rs): the elements of each copy are matched with those of *)
(* the base, matched elements are merged field by field, additions are put *)
(* where their side has them, and the order is that of both sides if there *)
(* is one.  What cannot be combined is a conflict, for a resolver to       *)
(* answer or to be returned.                                               *)
(*                                                                         *)
(* A document is a sequence of blocks.  A block has a kind, a hint (its    *)
(* label, ref, name or id) and a text; two blocks are equal when they are  *)
(* in all but their positions, which are left out.                         *)
(***************************************************************************)
EXTENDS Integers, FiniteSets, SequencesExt

CONSTANTS
    Kinds, Hints, Texts,    \* what blocks may have
    Absent,                 \* no hint, no block, no text
    MaxPairings             \* the largest table of pairings (1,000,000)

Block == [kind : Kinds, hint : Hints \cup {Absent}, text : Texts]

ASSUME AbsentApart == Absent \notin Kinds \cup Hints \cup Texts /\ Absent \notin Block \cup Seq(Block)

Answer == {"none", "base", "ours", "theirs"}
Reason == {"BothChanged", "DeleteEdit", "ConcurrentSequenceEdit"}

-----------------------------------------------------------------------------
(* Matching: a match is a set of pairs of a base and a side position.      *)

FreeBase(base, match) == DOMAIN base \ {pair[1] : pair \in match}
FreeSide(side, match) == DOMAIN side \ {pair[2] : pair \in match}
Rank(s, i) == Cardinality({j \in 1..i : s[j] = s[i]})
Identity(block) == <<block.kind, block.hint>>

\* The k-th copy of a block in the base is the k-th copy in the side.
MatchExact(base, side) ==
    {pair \in (DOMAIN base) \X (DOMAIN side) :
        base[pair[1]] = side[pair[2]] /\ Rank(base, pair[1]) = Rank(side, pair[2])}

\* Then what has one name on each side, and what is the one of its kind.
MatchOnly(base, side, match) ==
    LET B == FreeBase(base, match)
        S == FreeSide(side, match)
        Only(names, of, i) == names[i] # Absent /\ \A j \in of : names[j] = names[i] => j = i
    IN  match \cup {pair \in B \X S : /\ base[pair[1]] = side[pair[2]]
                                      /\ Only(base, B, pair[1]) /\ Only(side, S, pair[2])}

\* How many alike positions two sequences have in common from a cell on.
Common(n, m, alike) ==
    LET table[c \in (1..(n + 1)) \X (1..(m + 1))] ==
            IF c[1] > n \/ c[2] > m THEN 0
            ELSE IF c \in alike THEN table[<<c[1] + 1, c[2] + 1>>] + 1
            ELSE Max({table[<<c[1] + 1, c[2]>>], table[<<c[1], c[2] + 1>>]})
    IN  table

\* The alike cells that a walk takes, which at other cells goes down or aside.
Walk(n, m, alike, down) ==
    LET walk[c \in (1..(n + 1)) \X (1..(m + 1))] ==
            IF c[1] > n \/ c[2] > m THEN {}
            ELSE IF c \in alike THEN {c} \cup walk[<<c[1] + 1, c[2] + 1>>]
            ELSE IF c \in down THEN walk[<<c[1] + 1, c[2]>>]
            ELSE walk[<<c[1], c[2] + 1>>]
    IN  walk[<<1, 1>>]

\* The rest by a longest common sequence of kinds, or by the next of the kind
\* when that table is too large.  What is not free is passed by.
MatchRest(base, side, match) ==
    LET B == FreeBase(base, match)
        S == FreeSide(side, match)
        alike == {c \in B \X S : base[c[1]].kind = side[c[2]].kind}
        table == Common(Len(base), Len(side), alike)
        down == {c \in (1..Len(base)) \X (1..Len(side)) :
                    \/ c[1] \notin B
                    \/ /\ c[2] \in S /\ Cardinality(B) * Cardinality(S) <= MaxPairings
                       /\ table[<<c[1] + 1, c[2]>>] >= table[<<c[1], c[2] + 1>>]}
    IN  match \cup Walk(Len(base), Len(side), alike, down)

MatchSide(base, side) ==
    LET hints(s) == [i \in DOMAIN s |-> IF s[i].hint = Absent THEN Absent ELSE Identity(s[i])]
        kinds(s) == [i \in DOMAIN s |-> s[i].kind]
        byHint == MatchOnly(hints(base), hints(side), MatchExact(base, side))
        byKind == MatchOnly(kinds(base), kinds(side), byHint)
    IN  MatchRest(base, side, byKind)

Matched(match, i) == \E pair \in match : pair[1] = i
PartnerOf(match, i) == (CHOOSE pair \in match : pair[1] = i)[2]

\* The matched neighbours of an addition, as base positions.
Anchor(match, j) ==
    LET before == {pair \in match : pair[2] < j}
        after == {pair \in match : pair[2] > j}
    IN  <<IF before = {} THEN 0
          ELSE (CHOOSE pair \in before : \A other \in before : other[2] <= pair[2])[1],
          IF after = {} THEN 0
          ELSE (CHOOSE pair \in after : \A other \in after : other[2] >= pair[2])[1]>>

-----------------------------------------------------------------------------
(* Values: what a merge yields, and the conflicts it leaves.               *)

Clean(value) == [value |-> value, conflicts |-> {}]

\* An unanswered conflict is kept, and yields nothing.
Resolve(reason, at, base, ours, theirs, answer) ==
    CASE answer = "base" -> Clean(base)
      [] answer = "ours" -> Clean(ours)
      [] answer = "theirs" -> Clean(theirs)
      [] answer = "none" -> [value |-> Absent, conflicts |-> {[at |-> at, reason |-> reason]}]

\* Slip: a side that has nothing is not one that removed something.
MergeValueKeeping(base, ours, theirs, at, answer, inside) ==
    IF ours = theirs THEN Clean(ours)
    ELSE IF ours \in {base, Absent} THEN Clean(IF theirs = Absent THEN base ELSE theirs)
    ELSE IF theirs \in {base, Absent} THEN Clean(ours)
    ELSE inside

\* A value only one side changed is that side's.
MergeValue(base, ours, theirs, at, answer, inside) ==
    IF ours = theirs THEN Clean(ours)
    ELSE IF ours = base THEN Clean(theirs)
    ELSE IF theirs = base THEN Clean(ours)
    ELSE IF Absent \in {ours, theirs}
    THEN Resolve("DeleteEdit", at, base, ours, theirs, answer)
    ELSE inside

MergeField(base, ours, theirs, at, answer) ==
    MergeValue(base, ours, theirs, at, answer,
               Resolve("BothChanged", at, base, ours, theirs, answer))

\* Matched blocks are of one kind; hint and text are merged each.
MergeBlock(base, ours, theirs, at, answer) ==
    LET hint == MergeField(base.hint, ours.hint, theirs.hint, Append(at, "hint"), answer)
        text == MergeField(base.text, ours.text, theirs.text, Append(at, "text"), answer)
        fields == [value |-> [kind |-> ours.kind, hint |-> hint.value, text |-> text.value],
                   conflicts |-> hint.conflicts \cup text.conflicts]
    IN  MergeValue(base, ours, theirs, at, answer, fields)

-----------------------------------------------------------------------------
(* Sequences *)

\* Slip: a removal wins over whatever the other side did.
SettleRemoving(base, ours, theirs, om, tm, i, answer) ==
    IF ~Matched(om, i) \/ ~Matched(tm, i) THEN Clean(Absent)
    ELSE MergeBlock(base[i], ours[PartnerOf(om, i)], theirs[PartnerOf(tm, i)], <<i>>, answer)

\* A base block: gone when a side removed what the other left alone.
Settle(base, ours, theirs, om, tm, i, answer) ==
    LET At(side, match) == IF Matched(match, i) THEN side[PartnerOf(match, i)] ELSE Absent
    IN  MergeBlock(base[i], At(ours, om), At(theirs, tm), <<i>>, answer)

\* An addition and one of the other side at the same place with its identity.
Collide(ours, theirs, om, tm) ==
    \E j \in FreeSide(ours, om) : \E k \in FreeSide(theirs, tm) :
        /\ ours[j].hint # Absent /\ Identity(ours[j]) = Identity(theirs[k])
        /\ ours[j] # theirs[k] /\ Anchor(om, j) = Anchor(tm, k)

\* Slip: an addition may stand for several equal ones of the other side.
CoincideAny(ours, theirs, om, tm) ==
    {pair \in FreeSide(ours, om) \X FreeSide(theirs, tm) :
        ours[pair[1]] = theirs[pair[2]] /\ Anchor(om, pair[1]) = Anchor(tm, pair[2])}

\* Equal additions at one place, the n-th of one side with the n-th of the other.
Coincide(ours, theirs, om, tm) ==
    LET Like(side, match, j) ==
            {n \in FreeSide(side, match) :
                n <= j /\ side[n] = side[j] /\ Anchor(match, n) = Anchor(match, j)}
    IN  {pair \in FreeSide(ours, om) \X FreeSide(theirs, tm) :
            /\ ours[pair[1]] = theirs[pair[2]] /\ Anchor(om, pair[1]) = Anchor(tm, pair[2])
            /\ Cardinality(Like(ours, om, pair[1])) = Cardinality(Like(theirs, tm, pair[2]))}

\* Tokens: <<0, i>> a base block, <<1, j>> an addition of ours, <<2, k>> of theirs.
OurTokens(ours, om) ==
    [j \in DOMAIN ours |-> IF j \in FreeSide(ours, om) THEN <<1, j>>
                           ELSE <<0, (CHOOSE pair \in om : pair[2] = j)[1]>>]
TheirTokens(ours, theirs, om, tm) ==
    LET both == Coincide(ours, theirs, om, tm)
    IN  [k \in DOMAIN theirs |->
            IF k \notin FreeSide(theirs, tm) THEN <<0, (CHOOSE pair \in tm : pair[2] = k)[1]>>
            ELSE IF \E pair \in both : pair[2] = k
            THEN <<1, (CHOOSE pair \in both : pair[2] = k)[1]>> ELSE <<2, k>>]

Old(token) == token[1] = 0

\* The tokens of what stays, each with its place on a side: what is new there, and
\* the base blocks that are not settled as gone.
Line(tokens, staying) ==
    {<<n, tokens[n]>> : n \in {m \in DOMAIN tokens : Old(tokens[m]) => tokens[m][2] \in staying}}

\* Each token with the next one.
Pairs(line, between) ==
    {<<p[1][2], p[2][2]>> : p \in
        {q \in line \X line : /\ q[1][1] < q[2][1]
                              /\ \A r \in line : r[1] <= q[1][1] \/ q[2][1] <= r[1]
                              /\ between \/ ~Old(q[1][2]) \/ ~Old(q[2][2])}}

\* Slip: old blocks are always ordered as in the base.
EdgesOfBase(surviving, ot, tt) ==
    Pairs(surviving, TRUE) \cup Pairs(ot, FALSE) \cup Pairs(tt, FALSE)

\* A side moved blocks if it has not all that survive in the order of the base.
Moved(surviving, line) ==
    \E u, v \in surviving :
        u[1] <= v[1] /\ ~\E p, q \in line : p[1] <= q[1] /\ p[2] = u[2] /\ q[2] = v[2]

\* A side that moved blocks says how the old ones are ordered.
Edges(surviving, ot, tt) ==
    LET ours == Moved(surviving, ot)
        theirs == Moved(surviving, tt)
    IN  Pairs(ot, ours) \cup Pairs(tt, theirs)
            \cup IF ours \/ theirs THEN {} ELSE Pairs(surviving, TRUE)

Least(tokens) ==
    CHOOSE t \in tokens : \A u \in tokens : t[1] < u[1] \/ (t[1] = u[1] /\ t[2] <= u[2])

\* The tokens in an order the edges allow, the least first; short of a cycle.
Sorted(all, edges) ==
    LET order[rest \in SUBSET all] ==
            LET ready == {t \in rest : \A e \in edges : e[2] = t => e[1] \notin rest}
            IN  IF ready = {} THEN << >> ELSE <<Least(ready)>> \o order[rest \ {Least(ready)}]
    IN  order[all]

\* The blocks that stay, in an order both sides allow.
Arrange(base, ours, theirs, om, tm, settled, answer) ==
    LET staying == {i \in DOMAIN base : settled[i].value # Absent}
        ot == Line(OurTokens(ours, om), staying)
        tt == Line(TheirTokens(ours, theirs, om, tm), staying)
        surviving == {<<i, <<0, i>>>> : i \in staying}
        all == {p[2] : p \in ot \cup tt}
        order == Sorted(all, Edges(surviving, ot, tt))
        ValueOf(token) == CASE token[1] = 0 -> settled[token[2]].value
                            [] token[1] = 1 -> ours[token[2]]
                            [] token[1] = 2 -> theirs[token[2]]
    IN  IF Collide(ours, theirs, om, tm) \/ ToSet(order) # all
        THEN Resolve("ConcurrentSequenceEdit", << >>, base, ours, theirs, answer)
        ELSE Clean([n \in DOMAIN order |-> ValueOf(order[n])])

MergeSequence(base, ours, theirs, om, tm, answer) ==
    LET settled == [i \in DOMAIN base |-> Settle(base, ours, theirs, om, tm, i, answer)]
        result == Arrange(base, ours, theirs, om, tm, settled, answer)
    IN  [result EXCEPT !.conflicts = @ \cup UNION {settled[i].conflicts : i \in DOMAIN base}]

\* Conflicts that were not answered are all that is returned.
MergeAst(base, ours, theirs, om, tm, answer) ==
    LET merged == MergeValue(base, ours, theirs, << >>, answer,
                             MergeSequence(base, ours, theirs, om, tm, answer))
    IN  IF merged.conflicts = {} THEN merged ELSE [merged EXCEPT !.value = Absent]
===============================================================================
