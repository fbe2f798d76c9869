-------------------------- MODULE IncludeMerge_proofs -------------------------
(***************************************************************************)
(* What merging included documents does to their footnotes                 *)
(* (IncludeFootnotes) and what the report says of it (IncludeReport).      *)
(*                                                                         *)
(* Notes: a document keeps its own footnotes, and a reference keeps        *)
(* meaning what its author wrote, for any labels, any number of documents  *)
(* and any nesting.                                                        *)
(*                                                                         *)
(* The documents under way hold definitions of their own: what one of them *)
(* holds no other does, so a merge disturbs the document that receives the *)
(* definitions and no document below it.  The map being built by a merge   *)
(* extends the one of that document, and the renames built beside it lead  *)
(* to the definitions they were made for.                                  *)
(*                                                                         *)
(* Report: it names what took place and nothing else, for any rules, any   *)
(* cap and any number of warnings.  A place kept for a placeholder still   *)
(* to be decided is the place of its warning, and the places to be taken   *)
(* out grow along the list, so that the last one is above every other.     *)
(***************************************************************************)
EXTENDS IncludeFootnotes, IncludeReport, SequenceTheorems, FiniteSetTheorems,
        WellFoundedInduction, TLAPS

-----------------------------------------------------------------------------
(* The notes *)

\* Every definition a document under way holds, within reach or set aside.
Held(i) == Notes(Bindings(i)) \cup Notes(frames[i].notes)

Extends(map, other) == \A l \in DOMAIN other : l \in DOMAIN map /\ map[l] = other[l]

\* A document between two of its notes is on top and at the end of a text; the
\* root's definitions are those it wrote.
Shape ==
    /\ \A i \in 1..Level :
         /\ frames[i].bodied /\ frames[i].label = NoLabel => i = Level /\ frames[i].left = 0
         /\ frames[i].queue \subseteq DOMAIN Bindings(i)
    /\ frames # << >> => /\ frames[1].doc = 0
                         /\ \A d \in DOMAIN bodies : d[1] = 0 => d[2] \in frames[1].own

\* No two documents hold a definition together; what the notes of the root have
\* brought was included from inside a note.
Apart ==
    /\ \A i, j \in 1..Level : i # j => Held(i) \cap Held(j) = {}
    /\ \A r \in refs : r.at[1] = "blocks" => r.at[2] \in 1..(IF frames = << >> THEN 1 ELSE Level)
    /\ frames # << >> /\ frames[1].bodied => \A d \in Notes(frames[1].notes) : Nested(d)

\* What a merge has built so far.
Merging ==
    merge.open =>
      /\ ChildDone
      /\ merge.left \subseteq DOMAIN Top.notes
      /\ DOMAIN merge.final = DOMAIN Top.notes \ merge.left
      /\ Extends(merge.notes, Parent.notes)
      /\ \A l \in DOMAIN merge.final :
           merge.final[l] \in DOMAIN merge.notes /\ merge.notes[merge.final[l]] = Top.notes[l]
      /\ \A l \in DOMAIN merge.notes : l \in DOMAIN Parent.notes \/ merge.notes[l] \in Notes(Top.notes)

Inv == TypeOK /\ Shape /\ Apart /\ Merging /\ OwnKept /\ BindsAsWritten

-----------------------------------------------------------------------------
\* A sequence whose elements may be anything.
Listed(s) == s \in Seq({s[i] : i \in DOMAIN s})

LEMMA ListedFacts ==
  ASSUME NEW s, Listed(s)
  PROVE  Len(s) \in Nat /\ DOMAIN s = 1..Len(s) /\ s = [i \in 1..Len(s) |-> s[i]]
  BY DEF Listed

LEMMA ListedIntro ==
  ASSUME NEW s, NEW n \in Nat, s = [i \in 1..n |-> s[i]]
  PROVE  Listed(s) /\ Len(s) = n
<1>1. DOMAIN s = 1..n
  OBVIOUS
<1> DEFINE S == {s[i] : i \in DOMAIN s}
<1>2. s \in [1..n -> S]
  BY <1>1
<1>3. s \in Seq(S)
  BY <1>2
<1> QED BY <1>2, <1>3 DEF Listed

Replaced(s, k, e) == [s EXCEPT ![k] = e]

LEMMA ListedExcept ==
  ASSUME NEW s, Listed(s), NEW k \in 1..Len(s), NEW e
  PROVE  LET t == Replaced(s, k, e)
         IN  /\ Listed(t) /\ Len(t) = Len(s) /\ t[k] = e
             /\ \A i \in 1..Len(s) : i # k => t[i] = s[i]
<1> DEFINE t == Replaced(s, k, e)
<1>1. Len(s) \in Nat /\ DOMAIN s = 1..Len(s)
  BY ListedFacts
<1>2. t = [i \in 1..Len(s) |-> t[i]] /\ t[k] = e /\ \A i \in 1..Len(s) : i # k => t[i] = s[i]
  BY <1>1 DEF Replaced
<1> HIDE DEF t
<1>3. Listed(t) /\ Len(t) = Len(s)
  BY <1>1, <1>2, ListedIntro
<1> QED BY <1>2, <1>3 DEF t

LEMMA ListedAppend ==
  ASSUME NEW s, Listed(s), NEW e
  PROVE  LET t == Append(s, e)
         IN  /\ Listed(t) /\ Len(t) = Len(s) + 1 /\ t[Len(s) + 1] = e
             /\ \A i \in 1..Len(s) : t[i] = s[i]
<1> DEFINE t == Append(s, e)
           S == {s[i] : i \in DOMAIN s} \cup {e}
<1>1. Len(s) \in Nat /\ DOMAIN s = 1..Len(s)
  BY ListedFacts
<1>2. s \in Seq(S)
  <2>1. s \in [1..Len(s) -> S]
    BY <1>1, ListedFacts
  <2> QED BY <2>1, <1>1
<1>3. /\ t \in Seq(S) /\ Len(t) = Len(s) + 1 /\ t[Len(s) + 1] = e
      /\ \A i \in 1..Len(s) : t[i] = s[i]
  BY <1>2, e \in S
<1> HIDE DEF t, S
<1>4. t = [i \in 1..(Len(s) + 1) |-> t[i]]
  <2>1. t \in [1..Len(t) -> S]
    BY <1>3
  <2> QED BY <1>3, <2>1
<1>5. Listed(t)
  BY <1>1, <1>4, ListedIntro
<1> QED BY <1>3, <1>5 DEF t

LEMMA ListedPop ==
  ASSUME NEW s, Listed(s), NEW n \in Nat, Len(s) = n + 1
  PROVE  LET t == SubSeq(s, 1, Len(s) - 1)
         IN  Listed(t) /\ Len(t) = n /\ \A i \in 1..n : t[i] = s[i]
<1> DEFINE t == SubSeq(s, 1, Len(s) - 1)
           S == {s[i] : i \in DOMAIN s}
<1>1. s \in Seq(S)
  BY DEF Listed
<1>2. t \in Seq(S) /\ Len(t) = n /\ \A i \in 1..n : t[i] = s[i]
  BY <1>1
<1>3. t = [i \in 1..n |-> t[i]]
  BY <1>2
<1> HIDE DEF t
<1>4. Listed(t)
  BY <1>3, ListedIntro
<1> QED BY <1>2, <1>4 DEF t

-----------------------------------------------------------------------------
\* What the operators on maps do.
LEMMA WrittenOf ==
  ASSUME NEW doc, NEW own
  PROVE  LET w == Written(doc, own)
         IN  /\ DOMAIN w = own
             /\ \A l \in own : w[l] = <<doc, l>>
             /\ \A d \in Notes(w) : d[1] = doc /\ d[2] \in own /\ d = <<d[1], d[2]>>
  BY DEF Written, Notes

\* A set of numbers that is not empty has a least one.
LEMMA LeastExists ==
  ASSUME NEW S \in SUBSET Nat, S # {}
  PROVE  \E n \in S : \A m \in S : n <= m
<1> DEFINE R == {pair \in Nat \X Nat : pair[1] < pair[2]}
<1>1. IsWellFoundedOn(R, Nat)
  <2>1. OpToRel(<, Nat) = R
    BY Zenon DEF OpToRel
  <2> HIDE DEF R
  <2>2. QED  BY <2>1, NatLessThanWellFounded
<1>2. \E n \in S : \A m \in S : <<m, n>> \notin R
  <2> HIDE DEF R
  <2> QED  BY <1>1, WFMin
<1>3. \A m, n \in Nat : <<m, n>> \notin R => ~(m < n)
  BY Zenon
<1>4. QED
  <2> HIDE DEF R
  <2>1. PICK n \in S : \A m \in S : <<m, n>> \notin R
    BY <1>2
  <2>2. \A m \in S : ~(m < n)
    BY <1>3, <2>1
  <2>3. QED  BY <2>2

\* A definition is inserted under a label nobody has.
LEMMA FinalIsFree ==
  ASSUME NEW notes, IsFiniteSet(DOMAIN notes), DOMAIN notes \subseteq Label \ {NoLabel},
         NEW label \in Label \ {NoLabel}
  PROVE  Final(notes, label) \in Label \ {NoLabel} /\ Final(notes, label) \notin DOMAIN notes
<1>1. CASE label \notin DOMAIN notes
  BY <1>1 DEF Final
<1>2. CASE label \in DOMAIN notes
  <2> DEFINE D == DOMAIN notes
             c == Cardinality(D)
             I == 2..(c + 2)
             Free == {n \in I : Append(label, n) \notin D}
  <2>1. c \in Nat
    BY FS_CardinalityType
  <2>2. Free # {}
    <3>1. SUFFICES ASSUME \A n \in I : Append(label, n) \in D
                   PROVE  FALSE
      OBVIOUS
    <3> DEFINE f == [n \in I |-> Append(label, n)]
    <3>2. f \in [I -> D]
      BY <3>1
    <3>3. \A m, n \in I : f[m] = f[n] => m = n
      <4> TAKE m, n \in I
      <4>1. m \in Nat /\ n \in Nat
        BY <2>1
      <4>2. label \in Seq(Name \cup Nat)
        BY DEF Label
      <4>3. Append(label, m)[Len(label) + 1] = m /\ Append(label, n)[Len(label) + 1] = n
        BY <4>1, <4>2
      <4> QED BY <4>3
    <3>4. IsFiniteSet(I) /\ Cardinality(I) = c + 1
      <4>1. c + 2 \in Int /\ 2 \in Int
        BY <2>1
      <4>2. IsFiniteSet(I) /\ Cardinality(I) = IF 2 > c + 2 THEN 0 ELSE (c + 2) - 2 + 1
        <5> HIDE DEF c
        <5> QED BY <4>1, FS_Interval
      <4> QED BY <2>1, <4>2
    <3>5. Cardinality(D) < Cardinality(I)
      <4> HIDE DEF I
      <4> QED BY <2>1, <3>4
    <3>6. \E m, n \in I : m # n /\ f[m] = f[n]
      <4> HIDE DEF I, f
      <4> QED BY <3>2, <3>4, <3>5, FS_PigeonHole
    <3> QED BY <3>3, <3>6
  <2>3. \E n \in Free : \A m \in Free : n <= m
    <3>1. Free \subseteq Nat
      BY <2>1
    <3> HIDE DEF Free
    <3> QED BY <2>2, <3>1, LeastExists
  <2>4. PICK n \in Free : Final(notes, label) = Append(label, n)
    BY <1>2, <2>3 DEF Final
  <2>5. n \in Nat /\ Append(label, n) \notin D
    BY <2>1, <2>4
  <2>6. Append(label, n) \in Seq(Name \cup Nat) /\ Append(label, n) # << >>
    BY <2>5 DEF Label
  <2> QED BY <2>4, <2>5, <2>6 DEF Label, NoLabel
<1> QED BY <1>1, <1>2

LEMMA SameNotes ==
  ASSUME NEW map, NEW other, DOMAIN map = DOMAIN other, Extends(map, other)
  PROVE  Notes(map) = Notes(other)
  BY DEF Notes, Extends

-----------------------------------------------------------------------------
\* A reference stands in the blocks of a document or in a definition.
LEMMA ReferenceFacts ==
  ASSUME TypeOK, NEW r \in refs
  PROVE  /\ DOMAIN r = {"at", "label", "def"} /\ r.def \in DOMAIN bodies /\ r.label \in Label
         /\ \/ r.at[1] = "blocks" /\ r.at = InBlocks(r.at[2]) /\ r.at[2] \in 1..MaxLevel
            \/ r.at[1] = "note" /\ r.at = InNote(r.at[2]) /\ r.at[2] \in DOMAIN bodies
<1>1. IsReference(r)
  BY DEF TypeOK
<1>2. CASE r.at \in {InBlocks(i) : i \in 1..MaxLevel}
  BY <1>1, <1>2 DEF IsReference, InBlocks
<1>3. CASE r.at \in {InNote(d) : d \in DOMAIN bodies}
  BY <1>1, <1>3 DEF IsReference, InNote
<1> QED BY <1>1, <1>2, <1>3 DEF IsReference

LEMMA TopFacts ==
  ASSUME TypeOK
  PROVE  /\ Listed(frames) /\ Level \in Nat /\ DOMAIN frames = 1..Level
         /\ frames # << >> <=> Level # 0
         /\ frames # << >> => Level \in 1..Level /\ 1 \in 1..Level /\ IsFrame(Top)
         /\ \A i \in 1..Level : IsFrame(frames[i])
<1>1. Listed(frames)
  BY DEF TypeOK, Listed
<1>2. Level \in Nat /\ DOMAIN frames = 1..Level
  BY <1>1, ListedFacts DEF Level
<1>3. frames # << >> <=> Level # 0
  BY <1>1 DEF Listed, Level
<1>4. \A i \in 1..Level : IsFrame(frames[i])
  BY DEF TypeOK
<1>5. frames # << >> => Level \in 1..Level /\ 1 \in 1..Level
  BY <1>2, <1>3
<1> QED BY <1>1, <1>2, <1>3, <1>4, <1>5 DEF Top, Level

\* What a document of a level binds is what was written so far.
LEMMA BindingsTyped ==
  ASSUME TypeOK, NEW i \in 1..Level
  PROVE  IsNotes(Bindings(i)) /\ Held(i) \subseteq DOMAIN bodies
<1>1. IsFrame(frames[i]) /\ i \in Nat /\ i # 0
  BY TopFacts
<1>2. IsNotes(frames[i].notes) /\ IsNotes(defs)
  BY <1>1 DEF TypeOK, IsFrame
<1>3. IsNotes(Bindings(i))
  <2>1. CASE i = 1 /\ frames[1].bodied
    BY <1>2, <2>1 DEF Bindings
  <2>2. CASE ~(i = 1 /\ frames[1].bodied) /\ frames[i].label = NoLabel
    BY <1>1, <1>2, <2>2 DEF Bindings
  <2>3. CASE ~(i = 1 /\ frames[1].bodied) /\ frames[i].label # NoLabel
    <3>1. Bindings(i) = With(frames[i].notes, frames[i].label, frames[i].held)
      BY <1>1, <2>3 DEF Bindings
    <3>2. frames[i].label \in Label \ {NoLabel} /\ frames[i].held \in DOMAIN bodies
      BY <1>1, <2>3 DEF IsFrame
    <3>3. IsFiniteSet(DOMAIN frames[i].notes \cup {frames[i].label})
      BY <1>2, FS_AddElement DEF IsNotes
    <3>4. /\ DOMAIN Bindings(i) = DOMAIN frames[i].notes \cup {frames[i].label}
          /\ Bindings(i)[frames[i].label] = frames[i].held
          /\ \A l \in DOMAIN frames[i].notes :
               l # frames[i].label => Bindings(i)[l] = frames[i].notes[l]
      <4>1. PICK m, k, d : m = frames[i].notes /\ k = frames[i].label /\ d = frames[i].held
        OBVIOUS
      <4>2. /\ DOMAIN With(m, k, d) = DOMAIN m \cup {k} /\ With(m, k, d)[k] = d
            /\ \A l \in DOMAIN m : l # k => With(m, k, d)[l] = m[l]
        BY DEF With
      <4> QED BY <3>1, <4>1, <4>2
    <3>5. \A l \in DOMAIN Bindings(i) : Bindings(i)[l] \in DOMAIN bodies
      BY <1>2, <3>2, <3>4 DEF IsNotes
    <3> QED BY <1>2, <3>2, <3>3, <3>4, <3>5 DEF IsNotes
  <2> QED BY <2>1, <2>2, <2>3
<1> QED BY <1>2, <1>3 DEF IsNotes, Held, Notes

-----------------------------------------------------------------------------
\* A document that neither gains nor loses a definition.
Steady(i) ==
    /\ DOMAIN Bindings(i)' = DOMAIN Bindings(i) /\ Extends(Bindings(i)', Bindings(i))
    /\ Notes(frames'[i].notes) \subseteq Held(i)
    /\ frames'[i].doc = frames[i].doc /\ frames'[i].own = frames[i].own

SameNesting ==
    /\ DOMAIN bodies' = DOMAIN bodies
    /\ \A d \in DOMAIN bodies : bodies'[d].nested = bodies[d].nested

LEMMA SteadyHeld ==
  ASSUME NEW i, Steady(i)
  PROVE  Notes(Bindings(i)') = Notes(Bindings(i)) /\ Held(i)' \subseteq Held(i)
<1>1. Notes(Bindings(i)') = Notes(Bindings(i))
  BY SameNotes DEF Steady
<1>2. Held(i)' = Notes(Bindings(i)') \cup Notes(frames'[i].notes)
  BY DEF Held
<1> QED BY <1>1, <1>2 DEF Steady, Held

\* A step that moves no definition and no reference keeps what is said of them.
LEMMA QuietKeeps ==
  ASSUME Inv, frames # << >>, frames' # << >>, Level' = Level, refs' = refs, SameNesting,
         \A i \in 1..Level : Steady(i),
         frames'[1].bodied => \A d \in Notes(frames'[1].notes) : Nested(d)'
  PROVE  Apart' /\ OwnKept' /\ BindsAsWritten'
<1> USE DEF Inv
<1>1. Levels = 1..Level /\ Levels' = 1..Level /\ Level \in Nat
  BY TopFacts DEF Levels
<1>2. Apart'
  <2>1. \A i, j \in 1..Level : i # j => Held(i)' \cap Held(j)' = {}
    BY SteadyHeld DEF Apart
  <2>2. \A r \in refs' : r.at[1] = "blocks" => r.at[2] \in 1..Level'
    BY DEF Apart
  <2> QED BY <2>1, <2>2 DEF Apart
<1>3. OwnKept'
  BY DEF OwnKept, Steady, Extends
<1>4. BindsAsWritten'
  <2> SUFFICES ASSUME NEW r \in refs, NEW level \in 1..Level,
                      StandsIn(r, level)', ~Nested(r.def)',
                      r.at[1] = "note" => ~Nested(r.at[2])'
               PROVE  (r.label \in DOMAIN Bindings(level) /\ Bindings(level)[r.label] = r.def)'
    BY <1>1 DEF BindsAsWritten
  <2>1. StandsIn(r, level)
    BY SteadyHeld DEF StandsIn
  <2>2. ~Nested(r.def) /\ (r.at[1] = "note" => ~Nested(r.at[2]))
    BY ReferenceFacts DEF Nested, SameNesting
  <2>3. r.label \in DOMAIN Bindings(level) /\ Bindings(level)[r.label] = r.def
    BY <1>1, <2>1, <2>2 DEF BindsAsWritten
  <2> QED BY <2>3 DEF Steady, Extends
<1> QED BY <1>2, <1>3, <1>4

\* A step that changes the topmost document only.
LEMMA TopChanged ==
  ASSUME TypeOK, frames # << >>, NEW e, frames' = [frames EXCEPT ![Level] = e]
  PROVE  /\ Listed(frames') /\ Level' = Level /\ frames' # << >>
         /\ frames'[Level] = e /\ Top' = e
         /\ \A i \in 1..Level : i # Level => frames'[i] = frames[i]
<1>1. /\ Listed(frames') /\ Len(frames') = Len(frames)
      /\ frames'[Level] = e
      /\ \A i \in 1..Len(frames) : i # Level => frames'[i] = frames[i]
  <2>1. frames' = Replaced(frames, Len(frames), e)
    BY DEF Replaced, Level
  <2>2. Listed(frames) /\ Len(frames) \in 1..Len(frames)
    BY TopFacts DEF Level
  <2>3. PICK s, k : s = frames /\ k = Len(frames)
    OBVIOUS
  <2>4. /\ Listed(Replaced(s, k, e)) /\ Len(Replaced(s, k, e)) = Len(s) /\ Replaced(s, k, e)[k] = e
        /\ \A i \in 1..Len(s) : i # k => Replaced(s, k, e)[i] = s[i]
    BY <2>2, <2>3, ListedExcept
  <2> QED BY <2>1, <2>3, <2>4 DEF Level
<1>2. Level' = Level /\ Top' = e
  BY <1>1 DEF Level, Top
<1>3. frames' # << >>
  BY <1>1, <1>2, TopFacts DEF Level
<1> QED BY <1>1, <1>2, <1>3 DEF Level

\* The type of a state whose topmost document has changed.
LEMMA TopTyped ==
  ASSUME TypeOK, frames # << >>, NEW e, frames' = [frames EXCEPT ![Level] = e], IsFrame(e),
         documents' = documents, IsNotes(defs'), merge' = merge, refs' = refs,
         DOMAIN bodies' = DOMAIN bodies,
         \A d \in DOMAIN bodies' : bodies'[d] \in [left : Nat, nested : BOOLEAN]
  PROVE  TypeOK'
<1>1. \A map : IsNotes(map)' <=> IsNotes(map)
  BY DEF IsNotes
<1>2. \A f : IsFrame(f)' <=> IsFrame(f)
  BY <1>1 DEF IsFrame
<1>3. \A i \in 1..Level : IsFrame(frames'[i])
  BY TopChanged, TopFacts
<1>4. Level' = Level /\ Listed(frames')
  BY TopChanged
<1>5. \A i \in 1..Level' : IsFrame(frames[i])'
  BY <1>2, <1>3, <1>4
<1>6. \A r \in refs' : IsReference(r)'
  BY DEF TypeOK, IsReference
<1> QED BY <1>1, <1>4, <1>5, <1>6 DEF TypeOK, Listed

-----------------------------------------------------------------------------
\* Before the first step.
LEMMA InitEstablishes == Init => Inv
<1> SUFFICES ASSUME Init PROVE Inv
  OBVIOUS
<1>1. PICK own \in RootLabels, n \in 0..BlockDirectives :
        \E directives \in [own -> 0..NoteDirectives] :
          /\ frames = <<Frame(0, own, n, "block")>>
          /\ bodies = Bodies(0, own, directives)
          /\ refs = References(1, Written(0, own))
  BY DEF Init
<1>2. PICK directives \in [own -> 0..NoteDirectives] :
          /\ frames = <<Frame(0, own, n, "block")>>
          /\ bodies = Bodies(0, own, directives)
          /\ refs = References(1, Written(0, own))
  BY <1>1
<1>3. defs = NoNotes /\ documents = 0 /\ merge = NoMerge
  BY DEF Init
<1>4. IsFiniteSet(own) /\ own \subseteq Label \ {NoLabel} /\ n \in Nat
  BY LabelAssumption, BoundAssumption
<1> DEFINE w == Written(0, own)
           f == Frame(0, own, n, "block")
<1>5. /\ DOMAIN w = own /\ \A l \in own : w[l] = <<0, l>>
      /\ \A d \in Notes(w) : d[1] = 0 /\ d[2] \in own /\ d = <<d[1], d[2]>>
  BY WrittenOf
<1>6. /\ frames[1] = f /\ Level = 1 /\ Listed(frames) /\ frames # << >> /\ Top = f
  <2>1. Len(frames) = 1 /\ frames = [i \in 1..1 |-> frames[i]] /\ frames[1] = f
    BY <1>2
  <2>2. Listed(frames)
    BY <2>1, ListedIntro
  <2> QED BY <2>1, <2>2, <1>2 DEF Level, Top
<1>7. /\ DOMAIN f = Fields /\ f.doc = 0 /\ f.own = own /\ f.notes = w /\ f.left = n /\ f.literal = 0
      /\ f.form = "block" /\ f.queue = {} /\ f.label = NoLabel /\ f.bodied = FALSE
  BY DEF Frame, Fields
<1>8. /\ DOMAIN bodies = Notes(w)
      /\ \A d \in Notes(w) : bodies[d] = [left |-> directives[d[2]], nested |-> FALSE]
  BY <1>2 DEF Bodies
<1>9. IsNotes(w) /\ IsNotes(NoNotes)
  <2>1. IsNotes(w)
    BY <1>4, <1>5, <1>8 DEF IsNotes, Notes
  <2>2. DOMAIN NoNotes = {}
    BY DEF NoNotes
  <2> QED BY <2>1, <2>2, FS_EmptySet DEF IsNotes
<1> HIDE DEF w, f
<1>10. IsFrame(f)
  <2>1. NoLabel \in Label
    BY DEF NoLabel, Label
  <2>2. f.doc \in 0..documents /\ f.left \in Nat /\ f.literal \in Nat
    BY <1>3, <1>4, <1>7
  <2> QED BY <1>7, <1>9, <2>1, <2>2 DEF IsFrame
<1>11. /\ Bindings(1) = w
  BY <1>6, <1>7 DEF Bindings
<1>12. /\ \A r \in refs : /\ DOMAIN r = {"at", "label", "def"} /\ r.label \in own /\ r.def = w[r.label]
                          /\ \/ r.at = InBlocks(1)
                             \/ \E d \in Notes(w) : r.at = InNote(d)
  BY <1>2, <1>5 DEF References, w
<1>13. TypeOK
  <2>1. \A d \in DOMAIN bodies : bodies[d] \in [left : Nat, nested : BOOLEAN]
    <3>1. \A l \in own : directives[l] \in Nat
      BY BoundAssumption
    <3> TAKE d \in DOMAIN bodies
    <3>2. d[2] \in own
      BY <1>5, <1>8
    <3>3. bodies[d] = [left |-> directives[d[2]], nested |-> FALSE]
      BY <1>8
    <3>4. directives[d[2]] \in Nat
      BY <3>1, <3>2
    <3> QED BY <3>3, <3>4
  <2>2. \A d \in DOMAIN bodies : d = <<d[1], d[2]>> /\ d[1] \in 0..documents
    BY <1>3, <1>5, <1>8
  <2>3. \A r \in refs : IsReference(r)
    <3> SUFFICES ASSUME NEW r \in refs PROVE IsReference(r)
      OBVIOUS
    <3>1. r.def \in DOMAIN bodies /\ r.label \in Label
      BY <1>4, <1>5, <1>8, <1>12 DEF Notes
    <3>2. 1 \in 1..MaxLevel
      BY BoundAssumption
    <3> QED BY <1>8, <1>12, <3>1, <3>2 DEF IsReference
  <2>4. DOMAIN merge = DOMAIN NoMerge /\ merge.open \in BOOLEAN /\ IsNotes(merge.notes)
    BY <1>3, <1>9 DEF NoMerge
  <2>5. Level <= MaxLevel /\ documents \in Nat
    BY <1>3, <1>6, BoundAssumption
  <2>6. \A i \in 1..Level : IsFrame(frames[i])
    BY <1>6, <1>10
  <2> QED BY <1>3, <1>6, <1>9, <2>1, <2>2, <2>3, <2>4, <2>5, <2>6 DEF TypeOK, Listed
<1>14. Shape
  BY <1>5, <1>6, <1>7, <1>8 DEF Shape
<1>15. Apart
  BY <1>6, <1>7, <1>12 DEF Apart, InBlocks, InNote
<1>16. Merging
  BY <1>3 DEF Merging, NoMerge
<1>17. OwnKept
  BY <1>5, <1>6, <1>7, <1>11 DEF OwnKept
<1>18. BindsAsWritten
  BY <1>5, <1>6, <1>11, <1>12 DEF BindsAsWritten, Levels
<1> QED BY <1>13, <1>14, <1>15, <1>16, <1>17, <1>18 DEF Inv

-----------------------------------------------------------------------------
\* One directive less to read, one more that stays text: no definition moves.
LEMMA RefuseKeeps ==
  ASSUME Inv, Refuse
  PROVE  Inv'
<1> USE DEF Inv
<1> DEFINE n == Level
           plain == Top.label = NoLabel
<1>1. /\ frames # << >> /\ Top.left > 0 /\ n \in 1..n /\ n \in Nat /\ IsFrame(Top)
      /\ defs' = defs /\ documents' = documents /\ merge' = merge /\ refs' = refs
  BY TopFacts DEF Refuse, AtDirective
<1> DEFINE g == [Top EXCEPT !.left = @ - 1]
           h == [g EXCEPT !.literal = @ + 1]
<1>2. Consumed(frames) = [frames EXCEPT ![n] = g] /\ Consumed(frames)[Len(Consumed(frames))] = g
      /\ Len(Consumed(frames)) = n
  <2>1. Consumed(frames) = [frames EXCEPT ![n] = g]
    BY TopFacts DEF Consumed, Level, Top
  <2> HIDE DEF g
  <2>2. [frames EXCEPT ![n] = g] = Replaced(frames, Len(frames), g)
    BY DEF Replaced, Level
  <2> QED BY <2>1, <2>2, <1>1, TopFacts, ListedExcept DEF Level
<1>3. /\ DOMAIN g = Fields /\ g.left = Top.left - 1 /\ g.label = Top.label
      /\ \A x \in Fields : x # "left" => g[x] = Top[x]
  BY <1>1 DEF IsFrame, Fields
<1>4. PICK e : /\ frames' = [frames EXCEPT ![n] = e]
               /\ DOMAIN e = Fields /\ e.left \in Nat /\ e.literal \in Nat
               /\ \A x \in Fields \ {"left", "literal"} : e[x] = Top[x]
  <2>1. CASE plain
    <3>1. frames' = [Consumed(frames) EXCEPT ![n].literal = @ + 1]
      BY <1>2, <1>3, <2>1 DEF Refuse, LiteralIn
    <3>2. frames' = [frames EXCEPT ![n] = h]
      BY <1>1, <1>2, <3>1, TopFacts
    <3>3. /\ DOMAIN h = Fields /\ h.left \in Nat /\ h.literal \in Nat
          /\ \A x \in Fields \ {"left", "literal"} : h[x] = Top[x]
      <4>1. g.literal = Top.literal /\ g.left \in Nat /\ Top.literal \in Nat /\ "literal" \in Fields
        BY <1>1, <1>3 DEF IsFrame, Fields
      <4>2. DOMAIN h = DOMAIN g /\ h.literal = g.literal + 1 /\ \A x \in Fields \ {"literal"} : h[x] = g[x]
        <5> HIDE DEF g
        <5> QED BY <1>3, <4>1
      <4>3. "left" \in Fields
        BY DEF Fields
      <4> HIDE DEF g, h
      <4> QED BY <1>3, <4>1, <4>2, <4>3
    <3> QED BY <3>2, <3>3
  <2>2. CASE ~plain
    <3>1. frames' = [frames EXCEPT ![n] = g]
      BY <1>2, <1>3, <2>2 DEF Refuse, LiteralIn
    <3>2. g.left \in Nat /\ g.literal \in Nat
      BY <1>1, <1>3 DEF IsFrame, Fields
    <3> QED BY <1>3, <3>1, <3>2
  <2> QED BY <2>1, <2>2
<1>5. /\ e.doc = Top.doc /\ e.own = Top.own /\ e.notes = Top.notes /\ e.label = Top.label
      /\ e.held = Top.held /\ e.bodied = Top.bodied /\ e.queue = Top.queue /\ e.form = Top.form
  BY <1>4 DEF Fields
<1>6. /\ DOMAIN bodies' = DOMAIN bodies
      /\ \A d \in DOMAIN bodies : /\ bodies'[d].nested = bodies[d].nested
                                  /\ bodies'[d] \in [left : Nat, nested : BOOLEAN]
  <2>1. \A d \in DOMAIN bodies : bodies[d] \in [left : Nat, nested : BOOLEAN]
    BY DEF TypeOK
  <2>2. CASE plain
    BY <1>2, <1>3, <2>1, <2>2 DEF Refuse, LiteralIn
  <2>3. CASE ~plain
    <3>1. bodies' = [bodies EXCEPT ![g.held].left = @ + 1]
      BY <1>2, <1>3, <2>3 DEF Refuse, LiteralIn
    <3> QED BY <2>1, <3>1
  <2> QED BY <2>2, <2>3
<1>7. IsFrame(e)
  BY <1>1, <1>4, <1>5 DEF IsFrame
<1>8. TypeOK'
  BY <1>1, <1>4, <1>6, <1>7, TopTyped DEF TypeOK
<1>9. /\ Level' = n /\ frames' # << >> /\ frames'[n] = e /\ Top' = e
      /\ \A i \in 1..n : i # n => frames'[i] = frames[i]
  BY <1>1, <1>4, TopChanged
<1>10. \A i \in 1..n : /\ frames'[i].notes = frames[i].notes /\ frames'[i].label = frames[i].label
                       /\ frames'[i].held = frames[i].held /\ frames'[i].bodied = frames[i].bodied
                       /\ frames'[i].doc = frames[i].doc /\ frames'[i].own = frames[i].own
                       /\ frames'[i].queue = frames[i].queue
  BY <1>5, <1>9 DEF Top, Level
<1>11. \A i \in 1..n : Bindings(i)' = Bindings(i)
  BY <1>1, <1>9, <1>10 DEF Bindings
<1>12. \A i \in 1..n : Steady(i)
  BY <1>10, <1>11 DEF Steady, Extends, Held
<1>13. Apart' /\ OwnKept' /\ BindsAsWritten'
  <2>1. frames'[1].bodied => \A d \in Notes(frames'[1].notes) : Nested(d)'
    BY <1>1, <1>6, <1>10, BindingsTyped, TopFacts DEF Apart, Nested, Held
  <2> QED BY <1>1, <1>6, <1>9, <1>12, <2>1, QuietKeeps DEF SameNesting
<1>14. Shape'
  <2>1. ~(Top.bodied /\ Top.label = NoLabel)
    BY <1>1 DEF Shape, Top, Level
  <2> QED BY <1>1, <1>6, <1>9, <1>10, <1>11, <2>1 DEF Shape, Top, Level
<1>15. Merging'
  <2>1. ~merge.open
    BY <1>1 DEF Merging, ChildDone, Shape, Top, Level
  <2> QED BY <1>1, <2>1 DEF Merging
<1> QED BY <1>8, <1>13, <1>14, <1>15

\* The root's definitions are set aside; a child's stay where they are.
LEMMA BeginNotesKeeps ==
  ASSUME Inv, BeginNotes
  PROVE  Inv'
<1> USE DEF Inv
<1> DEFINE n == Level
           q == IF Root THEN Top.own ELSE DOMAIN Top.notes
           m == IF Root THEN NoNotes ELSE Top.notes
<1>1. /\ frames # << >> /\ ~Top.bodied /\ Top.left = 0 /\ n \in 1..n /\ n \in Nat /\ IsFrame(Top)
      /\ 1 \in 1..n /\ defs' = IF Root THEN Top.notes ELSE defs
      /\ bodies' = bodies /\ documents' = documents /\ merge' = merge /\ refs' = refs
  BY TopFacts DEF BeginNotes, BlocksDone
<1>2. Top.label = NoLabel
  BY <1>1 DEF IsFrame
<1>3. frames' = [frames EXCEPT ![n] = [Top EXCEPT !.bodied = TRUE, !.queue = q, !.notes = m]]
  BY TopFacts DEF BeginNotes, Top, Level
<1>4. PICK e : /\ frames' = [frames EXCEPT ![n] = e]
               /\ DOMAIN e = Fields /\ e.bodied = TRUE /\ e.queue = q /\ e.notes = m
               /\ \A x \in Fields \ {"bodied", "queue", "notes"} : e[x] = Top[x]
  <2> HIDE DEF q, m
  <2> DEFINE g == [Top EXCEPT !.bodied = TRUE, !.queue = q, !.notes = m]
  <2>1. /\ DOMAIN g = Fields /\ g.bodied = TRUE /\ g.queue = q /\ g.notes = m
        /\ \A x \in Fields \ {"bodied", "queue", "notes"} : g[x] = Top[x]
    BY <1>1 DEF IsFrame, Fields
  <2> QED BY <1>3, <2>1
<1>5. /\ e.doc = Top.doc /\ e.own = Top.own /\ e.label = Top.label /\ e.left = Top.left
      /\ e.literal = Top.literal /\ e.held = Top.held /\ e.form = Top.form
  BY <1>4 DEF Fields
<1>6. /\ Level' = n /\ frames' # << >> /\ frames'[n] = e /\ Top' = e /\ Top = frames[n]
      /\ \A i \in 1..n : i # n => frames'[i] = frames[i]
  BY <1>1, <1>4, TopChanged DEF Top, Level
<1>7. IsNotes(m) /\ IsNotes(defs')
  <2>1. IsNotes(Top.notes) /\ IsNotes(defs)
    BY <1>1 DEF IsFrame, TypeOK
  <2>2. IsNotes(NoNotes)
    BY FS_EmptySet DEF IsNotes, NoNotes
  <2> QED BY <1>1, <2>1, <2>2
<1> HIDE DEF m
<1>8. TypeOK'
  <2>1. IsFrame(e)
    BY <1>1, <1>2, <1>4, <1>5, <1>7 DEF IsFrame
  <2>2. \A d \in DOMAIN bodies' : bodies'[d] \in [left : Nat, nested : BOOLEAN]
    BY <1>1 DEF TypeOK
  <2> QED BY <1>1, <1>4, <1>7, <2>1, <2>2, TopTyped
<1>9. \A i \in 1..n : i # n => Bindings(i)' = Bindings(i)
  <2> SUFFICES ASSUME NEW i \in 1..n, i # n
               PROVE  Bindings(i)' = Bindings(i)
    OBVIOUS
  <2>1. ~Root /\ frames'[i] = frames[i] /\ frames'[1] = frames[1] /\ defs' = defs
    BY <1>1, <1>6 DEF Root
  <2> QED BY <2>1 DEF Bindings
<1>10. Bindings(n)' = Bindings(n) /\ Bindings(n) = Top.notes
  <2>1. Bindings(n) = Top.notes
    BY <1>1, <1>2, <1>6 DEF Bindings
  <2>2. CASE Root
    BY <1>1, <1>4, <1>6, <2>1, <2>2 DEF Bindings, Root
  <2>3. CASE ~Root
    BY <1>1, <1>2, <1>4, <1>5, <1>6, <2>1, <2>3 DEF Bindings, Root, m
  <2> QED BY <2>1, <2>2, <2>3
<1>11. \A i \in 1..n : Steady(i)
  <2> SUFFICES ASSUME NEW i \in 1..n PROVE Steady(i)
    OBVIOUS
  <2>1. CASE i = n
    <3>1. Notes(m) \subseteq Notes(Top.notes)
      BY DEF m, NoNotes, Notes
    <3> QED BY <1>4, <1>5, <1>6, <1>10, <2>1, <3>1 DEF Steady, Extends, Held
  <2>2. CASE i # n
    BY <1>6, <1>9, <2>2 DEF Steady, Extends, Held
  <2> QED BY <2>1, <2>2
<1>12. Apart' /\ OwnKept' /\ BindsAsWritten'
  <2>1. frames'[1].bodied => \A d \in Notes(frames'[1].notes) : Nested(d)'
    <3>1. CASE Root
      BY <1>4, <1>6, <3>1 DEF Root, m, NoNotes, Notes
    <3>2. CASE ~Root
      BY <1>1, <1>6, <3>2 DEF Root, Apart, Nested
    <3> QED BY <3>1, <3>2
  <2> QED BY <1>1, <1>6, <1>11, <2>1, QuietKeeps DEF SameNesting
<1>13. Shape'
  <2>1. q \subseteq DOMAIN Bindings(n)
    BY <1>1, <1>6, <1>10 DEF OwnKept
  <2>2. \A i \in 1..n : frames'[i].queue \subseteq DOMAIN Bindings(i)'
    BY <1>4, <1>6, <1>9, <1>10, <2>1 DEF Shape
  <2>3. frames'[1].doc = 0 /\ frames'[1].own = frames[1].own
    BY <1>1, <1>5, <1>6 DEF Shape
  <2>4. \A i \in 1..n : frames'[i].bodied /\ frames'[i].label = NoLabel => i = n /\ frames'[i].left = 0
    BY <1>1, <1>4, <1>5, <1>6 DEF Shape
  <2> QED BY <1>1, <1>6, <2>2, <2>3, <2>4 DEF Shape
<1>14. Merging'
  BY <1>1 DEF Merging, ChildDone
<1> QED BY <1>8, <1>12, <1>13, <1>14

\* A definition leaves the map of its document while its body is expanded; it stays
\* within reach.
LEMMA NextNoteKeeps ==
  ASSUME Inv, NextNote
  PROVE  Inv'
<1> USE DEF Inv
<1> DEFINE n == Level
<1>1. /\ frames # << >> /\ Top.bodied /\ Top.label = NoLabel /\ n \in 1..n /\ n \in Nat /\ IsFrame(Top)
      /\ 1 \in 1..n /\ defs' = defs /\ documents' = documents /\ merge' = merge /\ refs' = refs
      /\ Top = frames[n]
  BY TopFacts DEF NextNote, Top, Level
<1>2. PICK label \in Foremost(Top.queue) :
        \E d \in {IF Root THEN defs[label] ELSE Top.notes[label]} :
           /\ frames' = [frames EXCEPT ![Level].queue = @ \ {label}, ![Level].label = label,
                                       ![Level].held = d, ![Level].left = bodies[d].left,
                                       ![Level].notes = IF Root THEN @ ELSE Without(@, label)]
           /\ bodies' = [bodies EXCEPT ![d].left = 0]
  BY DEF NextNote
<1> DEFINE m == IF Root THEN Top.notes ELSE Without(Top.notes, label)
<1>3. PICK d : /\ d = IF Root THEN defs[label] ELSE Top.notes[label]
               /\ frames' = [frames EXCEPT ![n] = [Top EXCEPT !.queue = @ \ {label}, !.label = label,
                                                              !.held = d, !.left = bodies[d].left,
                                                              !.notes = m]]
               /\ bodies' = [bodies EXCEPT ![d].left = 0]
  <2>1. PICK d :
           /\ d = IF Root THEN defs[label] ELSE Top.notes[label]
           /\ frames' = [frames EXCEPT ![Level].queue = @ \ {label}, ![Level].label = label,
                                       ![Level].held = d, ![Level].left = bodies[d].left,
                                       ![Level].notes = IF Root THEN @ ELSE Without(@, label)]
           /\ bodies' = [bodies EXCEPT ![d].left = 0]
    BY <1>2
  <2> DEFINE to == bodies[d].left
  <2>2. frames' = [frames EXCEPT ![n].queue = @ \ {label}, ![n].label = label, ![n].held = d,
                                 ![n].left = to, ![n].notes = IF Root THEN @ ELSE Without(@, label)]
    BY <2>1
  <2> HIDE DEF to
  <2>3. frames' = [frames EXCEPT ![n] = [Top EXCEPT !.queue = @ \ {label}, !.label = label,
                                                    !.held = d, !.left = to, !.notes = m]]
    BY <2>2, TopFacts DEF Top, Level
  <2> QED BY <2>1, <2>3 DEF to
<1>4. Bindings(n) = IF Root THEN defs ELSE Top.notes
  BY <1>1 DEF Bindings, Root
<1>5. /\ label \in DOMAIN Bindings(n) /\ d = Bindings(n)[label] /\ label \in Top.queue
      /\ label \in Label \ {NoLabel} /\ d \in DOMAIN bodies /\ bodies[d].left \in Nat
  <2>1. label \in Top.queue
    BY DEF Foremost
  <2>2. label \in DOMAIN Bindings(n) /\ d = Bindings(n)[label]
    BY <1>1, <1>3, <1>4, <2>1 DEF Shape
  <2>3. IsNotes(Bindings(n))
    BY <1>1, BindingsTyped
  <2> QED BY <2>1, <2>2, <2>3 DEF IsNotes, TypeOK
<1> DEFINE rest == Top.queue \ {label}
           after == bodies[d].left
<1>6. PICK e : /\ frames' = [frames EXCEPT ![n] = e]
               /\ DOMAIN e = Fields /\ e.queue = rest /\ e.label = label /\ e.held = d
               /\ e.left = after /\ e.notes = m
               /\ \A x \in Fields \ {"queue", "label", "held", "left", "notes"} : e[x] = Top[x]
  <2> DEFINE g == [Top EXCEPT !.queue = rest, !.label = label, !.held = d, !.left = after, !.notes = m]
  <2>1. frames' = [frames EXCEPT ![n] = g]
    BY <1>3
  <2> HIDE DEF rest, after, m
  <2>2. /\ DOMAIN g = Fields /\ g.queue = rest /\ g.label = label /\ g.held = d
        /\ g.left = after /\ g.notes = m
        /\ \A x \in Fields \ {"queue", "label", "held", "left", "notes"} : g[x] = Top[x]
    BY <1>1 DEF IsFrame, Fields
  <2> QED BY <2>1, <2>2
<1>7. /\ e.doc = Top.doc /\ e.own = Top.own /\ e.bodied = TRUE /\ e.literal = Top.literal
      /\ e.form = Top.form
  BY <1>1, <1>6 DEF Fields, IsFrame
<1>8. /\ Level' = n /\ frames' # << >> /\ frames'[n] = e
      /\ \A i \in 1..n : i # n => frames'[i] = frames[i]
  BY <1>1, <1>6, TopChanged
<1>9. /\ DOMAIN m \subseteq DOMAIN Top.notes /\ Notes(m) \subseteq Notes(Top.notes)
      /\ \A l \in DOMAIN m : m[l] = Top.notes[l]
      /\ ~Root => DOMAIN m = DOMAIN Top.notes \ {label}
  BY DEF Without, Notes
<1> HIDE DEF m
<1>10. SameNesting /\ \A x \in DOMAIN bodies : bodies'[x] \in [left : Nat, nested : BOOLEAN]
  BY <1>3 DEF TypeOK, SameNesting
<1>11. TypeOK'
  <2>1. IsNotes(Top.notes) /\ IsNotes(defs)
    BY <1>1 DEF IsFrame, TypeOK
  <2>2. IsNotes(m)
    <3>1. IsFiniteSet(DOMAIN m)
      BY <1>9, <2>1, FS_Subset DEF IsNotes
    <3> QED BY <1>9, <2>1, <3>1 DEF IsNotes
  <2>3. IsFrame(e)
    BY <1>1, <1>5, <1>6, <1>7, <2>2 DEF IsFrame
  <2>4. IsNotes(defs')
    BY <1>1, <2>1
  <2> QED BY <1>1, <1>6, <1>10, <2>3, <2>4, TopTyped DEF SameNesting
<1>12. \A i \in 1..n : i # n => Bindings(i)' = Bindings(i)
  BY <1>1, <1>8 DEF Bindings
<1>13. /\ DOMAIN Bindings(n)' = DOMAIN Bindings(n) /\ Extends(Bindings(n)', Bindings(n))
       /\ Root => frames'[1].bodied
  <2>1. CASE Root
    BY <1>1, <1>4, <1>7, <1>8, <2>1 DEF Bindings, Root, Extends
  <2>2. CASE ~Root
    <3>1. Bindings(n)' = With(m, label, d)
      BY <1>1, <1>5, <1>6, <1>8, <2>2 DEF Bindings, Root
    <3> QED BY <1>4, <1>5, <1>9, <2>2, <3>1 DEF With, Extends
  <2> QED BY <2>1, <2>2
<1>14. \A i \in 1..n : Steady(i)
  <2> SUFFICES ASSUME NEW i \in 1..n PROVE Steady(i)
    OBVIOUS
  <2>1. CASE i = n
    BY <1>1, <1>6, <1>7, <1>8, <1>9, <1>13, <2>1 DEF Steady, Held
  <2>2. CASE i # n
    BY <1>8, <1>12, <2>2 DEF Steady, Extends, Held
  <2> QED BY <2>1, <2>2
<1>15. Apart' /\ OwnKept' /\ BindsAsWritten'
  <2>1. frames'[1].bodied => \A x \in Notes(frames'[1].notes) : Nested(x)'
    <3>1. frames[1].bodied => \A x \in Notes(frames[1].notes) : x \in DOMAIN bodies /\ Nested(x)
      BY <1>1, BindingsTyped DEF Apart, Held
    <3>2. CASE n = 1
      BY <1>1, <1>6, <1>8, <1>9, <1>10, <3>1, <3>2 DEF SameNesting, Nested
    <3>3. CASE n # 1
      BY <1>1, <1>8, <1>10, <3>1, <3>3 DEF SameNesting, Nested
    <3> QED BY <3>2, <3>3
  <2> QED BY <1>1, <1>8, <1>10, <1>14, <2>1, QuietKeeps
<1>16. Shape'
  <2>1. \A i \in 1..n : frames'[i].queue \subseteq DOMAIN Bindings(i)'
    BY <1>1, <1>6, <1>8, <1>12, <1>13 DEF Shape
  <2>2. frames'[1].doc = 0 /\ frames'[1].own = frames[1].own
    BY <1>1, <1>7, <1>8 DEF Shape
  <2>3. \A i \in 1..n : frames'[i].bodied /\ frames'[i].label = NoLabel => i = n /\ frames'[i].left = 0
    BY <1>1, <1>5, <1>6, <1>8 DEF Shape
  <2> QED BY <1>1, <1>8, <1>10, <2>1, <2>2, <2>3 DEF Shape, SameNesting
<1>17. Merging'
  BY <1>1, <1>5 DEF Merging, ChildDone
<1> QED BY <1>11, <1>15, <1>16, <1>17

\* The definition is back in the map.
LEMMA EndNoteKeeps ==
  ASSUME Inv, EndNote
  PROVE  Inv'
<1> USE DEF Inv
<1> DEFINE n == Level
           m == IF Root THEN Top.notes ELSE With(Top.notes, Top.label, Top.held)
<1>1. /\ frames # << >> /\ Top.label # NoLabel /\ Top.left = 0 /\ n \in 1..n /\ n \in Nat /\ IsFrame(Top)
      /\ 1 \in 1..n /\ defs' = defs /\ documents' = documents /\ merge' = merge /\ refs' = refs
      /\ bodies' = bodies /\ Top = frames[n]
  BY TopFacts DEF EndNote, Top, Level
<1>2. frames' = [frames EXCEPT ![n] = [Top EXCEPT !.label = NoLabel, !.held = <<0, NoLabel>>, !.notes = m]]
  BY TopFacts DEF EndNote, Top, Level
<1>3. Top.bodied
  BY <1>1 DEF IsFrame
<1>4. Bindings(n) = IF Root THEN defs ELSE m
  BY <1>1, <1>3 DEF Bindings, Root
<1> DEFINE none == <<0, NoLabel>>
<1>5. PICK e : /\ frames' = [frames EXCEPT ![n] = e]
               /\ DOMAIN e = Fields /\ e.label = NoLabel /\ e.notes = m
               /\ \A x \in Fields \ {"label", "held", "notes"} : e[x] = Top[x]
  <2> DEFINE g == [Top EXCEPT !.label = NoLabel, !.held = none, !.notes = m]
  <2>1. frames' = [frames EXCEPT ![n] = g]
    BY <1>2
  <2> HIDE DEF none, m
  <2>2. /\ DOMAIN g = Fields /\ g.label = NoLabel /\ g.notes = m
        /\ \A x \in Fields \ {"label", "held", "notes"} : g[x] = Top[x]
    BY <1>1 DEF IsFrame, Fields
  <2> QED BY <2>1, <2>2
<1>6. /\ e.doc = Top.doc /\ e.own = Top.own /\ e.bodied = TRUE /\ e.literal = Top.literal
      /\ e.form = Top.form /\ e.left = 0 /\ e.queue = Top.queue
  BY <1>1, <1>3, <1>5 DEF Fields, IsFrame
<1>7. /\ Level' = n /\ frames' # << >> /\ frames'[n] = e
      /\ \A i \in 1..n : i # n => frames'[i] = frames[i]
  BY <1>1, <1>5, TopChanged
<1>8. IsNotes(m) /\ (Root => m = Top.notes)
  <2>1. CASE Root
    BY <1>1, <2>1 DEF IsFrame
  <2>2. CASE ~Root
    BY <1>1, <1>4, <2>2, BindingsTyped
  <2> QED BY <2>1, <2>2
<1> HIDE DEF m
<1>9. SameNesting /\ \A x \in DOMAIN bodies : bodies'[x] \in [left : Nat, nested : BOOLEAN]
  BY <1>1 DEF TypeOK, SameNesting
<1>10. TypeOK'
  <2>1. IsFrame(e)
    <3>1. NoLabel \in Label
      BY DEF Label, NoLabel
    <3>2. e.left \in Nat
      BY <1>6
    <3> QED BY <1>1, <1>5, <1>6, <1>8, <3>1, <3>2 DEF IsFrame
  <2>2. IsNotes(defs')
    BY <1>1 DEF TypeOK
  <2> QED BY <1>1, <1>5, <1>9, <2>1, <2>2, TopTyped DEF SameNesting
<1>11. \A i \in 1..n : i # n => Bindings(i)' = Bindings(i)
  BY <1>1, <1>7 DEF Bindings
<1>12. Bindings(n)' = Bindings(n)
  <2>1. CASE Root
    BY <1>1, <1>4, <1>6, <1>7, <2>1 DEF Bindings, Root
  <2>2. CASE ~Root
    BY <1>1, <1>4, <1>5, <1>7, <2>2 DEF Bindings, Root
  <2> QED BY <2>1, <2>2
<1>13. \A i \in 1..n : Steady(i)
  <2> SUFFICES ASSUME NEW i \in 1..n PROVE Steady(i)
    OBVIOUS
  <2>1. CASE i = n
    <3>1. Notes(m) \subseteq Held(n)
      BY <1>1, <1>4, <1>8 DEF Held
    <3> QED BY <1>1, <1>5, <1>6, <1>7, <1>12, <2>1, <3>1 DEF Steady, Extends
  <2>2. CASE i # n
    BY <1>7, <1>11, <2>2 DEF Steady, Extends, Held
  <2> QED BY <2>1, <2>2
<1>14. Apart' /\ OwnKept' /\ BindsAsWritten'
  <2>1. frames'[1].bodied => \A x \in Notes(frames'[1].notes) : Nested(x)'
    <3>1. frames[1].bodied => \A x \in Notes(frames[1].notes) : Nested(x)'
      BY <1>1 DEF Apart, Nested
    <3>2. CASE n = 1
      BY <1>1, <1>3, <1>5, <1>7, <1>8, <3>1, <3>2 DEF Root
    <3>3. CASE n # 1
      BY <1>1, <1>7, <3>1, <3>3
    <3> QED BY <3>2, <3>3
  <2> QED BY <1>1, <1>7, <1>9, <1>13, <2>1, QuietKeeps
<1>15. Shape'
  <2>1. \A i \in 1..n : frames'[i].queue \subseteq DOMAIN Bindings(i)'
    BY <1>1, <1>6, <1>7, <1>11, <1>12 DEF Shape
  <2>2. frames'[1].doc = 0 /\ frames'[1].own = frames[1].own
    BY <1>1, <1>6, <1>7 DEF Shape
  <2>3. \A i \in 1..n : frames'[i].bodied /\ frames'[i].label = NoLabel => i = n /\ frames'[i].left = 0
    BY <1>1, <1>6, <1>7 DEF Shape
  <2> QED BY <1>1, <1>7, <2>1, <2>2, <2>3 DEF Shape
<1>16. Merging'
  BY <1>1 DEF Merging, ChildDone
<1> QED BY <1>10, <1>14, <1>15, <1>16

-----------------------------------------------------------------------------
\* The definitions of an included document are new: nobody holds one of them, and no
\* reference of another document stands in one.
LEMMA EnterKeeps ==
  ASSUME Inv, NEW own \in ChildLabels, NEW k \in 0..BlockDirectives, NEW form \in {"block", "inline"},
         NEW directives \in [own -> 0..NoteDirectives], Enter(own, k, directives, form)
  PROVE  Inv'
<1> USE DEF Inv
<1>0. PICK n : n = Level
  OBVIOUS
<1>1. /\ frames # << >> /\ Top.left > 0 /\ n \in 1..n /\ n \in Nat /\ IsFrame(Top) /\ Top = frames[n]
      /\ 1 \in 1..n /\ n < MaxLevel /\ MaxLevel \in Nat /\ defs' = defs /\ merge' = merge
  BY <1>0, TopFacts, BoundAssumption DEF Enter, AtDirective, Top, Level
<1>2. PICK D : D = documents'
  OBVIOUS
<1> DEFINE w == Written(D, own)
           f == Frame(D, own, k, form)
           new == Bodies(D, own, directives)
<1>3. /\ D = documents + 1 /\ documents \in Nat
      /\ frames' = Append(Consumed(frames), f)
      /\ bodies' = Over(bodies, new)
      /\ refs' = refs \cup References(n + 1, w)
  BY <1>0, <1>2 DEF Enter, TypeOK
<1>4. IsFiniteSet(own) /\ own \subseteq Label \ {NoLabel} /\ k \in Nat
  BY LabelAssumption, BoundAssumption
<1>5. /\ DOMAIN w = own /\ \A l \in own : w[l] = <<D, l>>
      /\ \A d \in Notes(w) : d[1] = D /\ d[2] \in own /\ d = <<d[1], d[2]>>
  BY WrittenOf
<1>6. \A d \in Notes(w) : d \notin DOMAIN bodies
  BY <1>3, <1>5 DEF TypeOK
<1>7. /\ DOMAIN new = Notes(w)
      /\ \A d \in Notes(w) : new[d] = [left |-> directives[d[2]], nested |-> FALSE]
  BY DEF Bodies
<1>8. /\ DOMAIN bodies' = DOMAIN bodies \cup Notes(w)
      /\ \A d \in DOMAIN bodies : bodies'[d] = bodies[d]
      /\ \A d \in Notes(w) : bodies'[d] = [left |-> directives[d[2]], nested |-> FALSE]
  <2> HIDE DEF new, w
  <2> QED BY <1>3, <1>6, <1>7 DEF Over
<1>9. \A d \in DOMAIN bodies' : bodies'[d] \in [left : Nat, nested : BOOLEAN]
  <2> TAKE d \in DOMAIN bodies'
  <2>1. CASE d \in DOMAIN bodies
    BY <1>8, <2>1 DEF TypeOK
  <2>2. CASE d \in Notes(w)
    <3>1. d[2] \in own
      BY <1>5, <2>2
    <3>2. directives[d[2]] \in Nat
      BY <3>1, BoundAssumption
    <3>3. PICK e : e = directives[d[2]]
      OBVIOUS
    <3>4. bodies'[d] = [left |-> e, nested |-> FALSE]
      BY <1>8, <2>2, <3>3
    <3> QED BY <3>2, <3>3, <3>4
  <2> QED BY <1>8, <2>1, <2>2
<1> HIDE DEF w, new
<1>10. /\ DOMAIN f = Fields /\ f.doc = D /\ f.own = own /\ f.notes = w /\ f.left = k /\ f.literal = 0
       /\ f.form = form /\ f.queue = {} /\ f.label = NoLabel /\ f.bodied = FALSE
  BY DEF Frame, Fields, w
<1> HIDE DEF f
<1> DEFINE g == [Top EXCEPT !.left = @ - 1]
<1>11. PICK c : c = Consumed(frames)
  OBVIOUS
<1>12. /\ Listed(c) /\ Len(c) = n /\ c[n] = g /\ \A i \in 1..n : i # n => c[i] = frames[i]
  <2>1. c = [frames EXCEPT ![n] = g]
    BY <1>0, <1>11, TopFacts DEF Consumed, Level, Top
  <2> HIDE DEF g
  <2>2. c = Replaced(frames, Len(frames), g)
    BY <1>0, <2>1 DEF Replaced, Level
  <2> QED BY <1>0, <2>2, <1>1, TopFacts, ListedExcept DEF Level
<1>13. /\ Listed(frames') /\ Level' = n + 1 /\ frames'[n + 1] = f /\ frames' # << >>
       /\ \A i \in 1..n : frames'[i] = c[i]
  <2>1. frames' = Append(c, f)
    BY <1>3, <1>11
  <2>2. /\ Listed(frames') /\ Len(frames') = Len(c) + 1 /\ frames'[Len(c) + 1] = f
        /\ \A i \in 1..Len(c) : frames'[i] = c[i]
    BY <1>12, <2>1, ListedAppend
  <2> QED BY <1>1, <1>12, <2>2 DEF Level
<1>14. /\ DOMAIN g = Fields /\ g.left \in Nat
       /\ \A x \in Fields \ {"left"} : g[x] = Top[x]
  BY <1>1 DEF IsFrame, Fields
<1> HIDE DEF g
<1>15. \A i \in 1..n : /\ DOMAIN frames'[i] = Fields /\ frames'[i].left \in Nat
                       /\ \A x \in Fields \ {"left"} : frames'[i][x] = frames[i][x]
  <2> TAKE i \in 1..n
  <2>1. IsFrame(frames[i])
    BY <1>0, <1>1, TopFacts
  <2>2. DOMAIN frames[i] = Fields /\ frames[i].left \in Nat
    BY <2>1 DEF IsFrame
  <2>3. frames'[i] = c[i]
    BY <1>13
  <2>4. CASE i = n
    BY <1>1, <1>12, <1>14, <2>3, <2>4 DEF Top, Level
  <2>5. CASE i # n
    BY <1>12, <2>2, <2>3, <2>5
  <2> QED BY <2>4, <2>5
<1>16. \A i \in 1..n : /\ frames'[i].notes = frames[i].notes /\ frames'[i].label = frames[i].label
                       /\ frames'[i].held = frames[i].held /\ frames'[i].bodied = frames[i].bodied
                       /\ frames'[i].doc = frames[i].doc /\ frames'[i].own = frames[i].own
                       /\ frames'[i].queue = frames[i].queue /\ frames'[i].form = frames[i].form
                       /\ frames'[i].literal = frames[i].literal
  BY <1>15 DEF Fields
<1>17. \A i \in 1..n : Bindings(i)' = Bindings(i) /\ Held(i)' = Held(i) /\ Held(i) \subseteq DOMAIN bodies
                       /\ IsNotes(Bindings(i))
  <2> TAKE i \in 1..n
  <2>1. Bindings(i)' = Bindings(i)
    BY <1>1, <1>16 DEF Bindings
  <2> QED BY <1>0, <1>16, <2>1, BindingsTyped DEF Held
<1>18. Bindings(n + 1)' = w /\ Held(n + 1)' = Notes(w)
  <2>1. Bindings(n + 1)' = w
    BY <1>1, <1>10, <1>13 DEF Bindings
  <2> QED BY <1>10, <1>13, <2>1 DEF Held
<1>19. \A r \in References(n + 1, w) :
          /\ DOMAIN r = {"at", "label", "def"} /\ r.label \in own /\ r.def = w[r.label]
          /\ r.at = InBlocks(n + 1) \/ \E d \in Notes(w) : r.at = InNote(d)
  BY <1>5 DEF References
<1>20. \A r \in refs' : r \in refs \/ r \in References(n + 1, w)
  BY <1>3
<1>21. TypeOK'
  <2>1. \A map : IsNotes(map) => IsNotes(map)'
    BY <1>8 DEF IsNotes
  <2>2. IsNotes(w)'
    BY <1>4, <1>5, <1>8 DEF IsNotes, Notes
  <2>3. \A i \in 1..n : IsFrame(frames[i])'
    <3> TAKE i \in 1..n
    <3>1. IsFrame(frames[i]) /\ IsNotes(frames[i].notes)
      BY <1>0, TopFacts DEF IsFrame
    <3>2. frames'[i].doc \in 0..documents'
      <4>1. frames[i].doc \in 0..documents
        BY <3>1 DEF IsFrame
      <4>2. PICK x \in 0..documents : x = frames[i].doc
        BY <4>1
      <4>3. frames'[i].doc = x
        BY <1>16, <4>2
      <4>4. x \in 0..documents'
        BY <1>2, <1>3
      <4> QED BY <4>3, <4>4
    <3>3. frames'[i].label # NoLabel => frames'[i].bodied /\ frames'[i].held \in DOMAIN bodies'
      BY <1>8, <1>16, <3>1 DEF IsFrame
    <3>4. IsNotes(frames[i].notes)'
      <4>1. PICK m : m = frames[i].notes
        OBVIOUS
      <4>2. IsNotes(m)' /\ frames'[i].notes = m
        BY <1>16, <2>1, <3>1, <4>1
      <4> QED BY <4>2
    <3> QED BY <1>15, <1>16, <3>1, <3>2, <3>3, <3>4 DEF IsFrame
  <2>4. IsFrame(f)'
    <3>1. NoLabel \in Label
      BY DEF NoLabel, Label
    <3>2. f.doc \in 0..documents' /\ f.literal \in Nat /\ f.left \in Nat
      BY <1>2, <1>3, <1>4, <1>10
    <3>3. IsNotes(f.notes)'
      BY <1>10, <2>2
    <3> QED BY <1>10, <3>1, <3>2, <3>3 DEF IsFrame
  <2>5. \A i \in 1..Level' : IsFrame(frames[i])'
    <3>1. \A i \in 1..(n + 1) : i \in 1..n \/ i = n + 1
      BY <1>1
    <3> QED BY <1>13, <2>3, <2>4, <3>1
  <2>6. \A d \in DOMAIN bodies' : d = <<d[1], d[2]>> /\ d[1] \in 0..documents'
    <3>1. \A d \in DOMAIN bodies : d = <<d[1], d[2]>> /\ d[1] \in 0..documents'
      BY <1>2, <1>3 DEF TypeOK
    <3>2. D \in 0..documents'
      BY <1>2, <1>3
    <3> QED BY <1>5, <1>8, <3>1, <3>2
  <2>7. \A r \in refs' : IsReference(r)'
    <3> TAKE r \in refs'
    <3>1. CASE r \in refs
      BY <1>8, <3>1 DEF IsReference, TypeOK
    <3>2. CASE r \in References(n + 1, w)
      <4>1. r.label \in Label /\ r.def \in Notes(w)
        BY <1>4, <1>5, <1>19, <3>2 DEF Notes
      <4>2. n + 1 \in 1..MaxLevel
        BY <1>1
      <4> QED BY <1>8, <1>19, <3>2, <4>1, <4>2 DEF IsReference
    <3> QED BY <1>20, <3>1, <3>2
  <2>8. documents' \in Nat /\ Level' <= MaxLevel
    BY <1>1, <1>2, <1>3, <1>13
  <2>9. IsNotes(defs)' /\ IsNotes(merge.notes)'
    BY <1>1, <2>1 DEF TypeOK
  <2> QED BY <1>1, <1>9, <1>13, <2>5, <2>6, <2>7, <2>8, <2>9 DEF TypeOK, Listed
<1>22. \A i \in 1..(n + 1) : i \in 1..n \/ i = n + 1
  BY <1>1
<1>23. ~(Top.bodied /\ Top.label = NoLabel)
  BY <1>0, <1>1 DEF Shape
<1>24. Shape'
  <2>1. \A i \in 1..n : ~(frames'[i].bodied /\ frames'[i].label = NoLabel)
    BY <1>0, <1>1, <1>16, <1>23 DEF Shape
  <2>2. \A i \in 1..Level' : /\ ~(frames'[i].bodied /\ frames'[i].label = NoLabel)
                             /\ frames'[i].queue \subseteq DOMAIN Bindings(i)'
    BY <1>0, <1>10, <1>13, <1>16, <1>17, <1>22, <2>1 DEF Shape
  <2>3. \A d \in DOMAIN bodies' : d[1] = 0 => d[2] \in frames'[1].own
    <3>1. D # 0
      BY <1>3
    <3> QED BY <1>0, <1>1, <1>5, <1>8, <1>16, <3>1 DEF Shape
  <2> QED BY <1>1, <1>16, <2>2, <2>3 DEF Shape
<1>25. Apart'
  <2>1. \A i, j \in 1..n : i # j => Held(i)' \cap Held(j)' = {}
    BY <1>0, <1>17 DEF Apart
  <2>2. \A i \in 1..n : Held(i)' \cap Held(n + 1)' = {}
    BY <1>6, <1>17, <1>18
  <2>3. \A i, j \in 1..Level' : i # j => Held(i)' \cap Held(j)' = {}
    BY <1>13, <1>22, <2>1, <2>2
  <2>4. \A r \in refs' : r.at[1] = "blocks" => r.at[2] \in 1..(n + 1)
    <3>1. n + 1 \in 1..(n + 1) /\ 1..n \subseteq 1..(n + 1)
      BY <1>1
    <3> QED BY <1>0, <1>1, <1>19, <1>20, <3>1 DEF Apart, InBlocks, InNote
  <2>5. frames'[1].bodied => \A d \in Notes(frames'[1].notes) : Nested(d)'
    BY <1>0, <1>1, <1>8, <1>16, <1>17 DEF Apart, Nested, Held
  <2> QED BY <1>13, <2>3, <2>4, <2>5 DEF Apart
<1>26. Merging'
  BY <1>0, <1>1, <1>23 DEF Merging, ChildDone
<1>27. OwnKept'
  BY <1>0, <1>5, <1>10, <1>13, <1>16, <1>17, <1>18, <1>22 DEF OwnKept
<1>28. BindsAsWritten'
  <2>1. Levels' = 1..(n + 1) /\ Levels = 1..n /\ 0 \notin 1..(n + 1)
    BY <1>0, <1>1, <1>13 DEF Levels
  <2> SUFFICES ASSUME NEW r \in refs', NEW level \in 1..(n + 1),
                      StandsIn(r, level)', ~Nested(r.def)',
                      r.at[1] = "note" => ~Nested(r.at[2])'
               PROVE  (r.label \in DOMAIN Bindings(level) /\ Bindings(level)[r.label] = r.def)'
    BY <2>1 DEF BindsAsWritten
  <2>2. CASE r \in refs
    <3>1. /\ r.def \in DOMAIN bodies
          /\ \/ r.at[1] = "blocks" /\ r.at[2] \in 1..n
             \/ r.at[1] = "note" /\ r.at[2] \in DOMAIN bodies
      BY <1>0, <1>1, <2>2, ReferenceFacts DEF Apart
    <3>2. level # n + 1
      <4>1. n + 1 \notin 1..n /\ n + 1 # 0
        BY <1>1
      <4> QED BY <1>6, <1>18, <3>1, <4>1 DEF StandsIn
    <3>3. level \in 1..n
      BY <1>22, <3>2
    <3>4. StandsIn(r, level)
      BY <1>17, <3>3 DEF StandsIn
    <3>5. ~Nested(r.def) /\ (r.at[1] = "note" => ~Nested(r.at[2]))
      BY <1>8, <3>1 DEF Nested
    <3>6. r.label \in DOMAIN Bindings(level) /\ Bindings(level)[r.label] = r.def
      BY <2>1, <2>2, <3>3, <3>4, <3>5 DEF BindsAsWritten
    <3> QED BY <1>17, <3>3, <3>6
  <2>3. CASE r \in References(n + 1, w)
    <3>1. level = n + 1
      <4>1. CASE r.at = InBlocks(n + 1)
        BY <2>1, <4>1 DEF StandsIn, InBlocks
      <4>2. CASE \E d \in Notes(w) : r.at = InNote(d)
        <5>1. PICK d \in Notes(w) : r.at = InNote(d)
          BY <4>2
        <5>2. d \in Notes(Bindings(level)')
          BY <5>1 DEF StandsIn, InNote
        <5>3. level \in 1..n => d \in DOMAIN bodies
          BY <1>17, <5>2 DEF Held
        <5> QED BY <1>6, <1>22, <5>3
      <4> QED BY <1>19, <2>3, <4>1, <4>2
    <3> QED BY <1>5, <1>18, <1>19, <2>3, <3>1
  <2> QED BY <1>20, <2>2, <2>3
<1> QED BY <1>21, <1>24, <1>25, <1>26, <1>27, <1>28

-----------------------------------------------------------------------------
\* A step of the merge's loop, seen from everything else: nothing has moved.
LEMMA LoopKeeps ==
  ASSUME Inv, UNCHANGED <<frames, defs, bodies, documents, refs>>,
         DOMAIN merge' = DOMAIN NoMerge, merge'.open \in BOOLEAN, IsNotes(merge'.notes)
  PROVE  TypeOK' /\ Shape' /\ Apart' /\ OwnKept' /\ BindsAsWritten'
<1> USE DEF Inv
<1>1. \A i : Bindings(i)' = Bindings(i) /\ Held(i)' = Held(i)
  BY DEF Bindings, Held
<1>2. Level' = Level /\ Levels' = Levels
  BY DEF Levels, Level
<1>3. \A map : IsNotes(map)' <=> IsNotes(map)
  BY DEF IsNotes
<1>4. \A f : IsFrame(f)' <=> IsFrame(f)
  BY <1>3 DEF IsFrame
<1>5. TypeOK'
  <2>1. \A i \in 1..Level' : IsFrame(frames[i])'
    BY <1>2, <1>4 DEF TypeOK
  <2>2. \A r \in refs' : IsReference(r)'
    BY DEF TypeOK, IsReference
  <2>3. IsNotes(defs)' /\ IsNotes(merge.notes)'
    BY <1>3 DEF TypeOK
  <2> QED BY <1>2, <2>1, <2>2, <2>3 DEF TypeOK
<1>6. Shape'
  BY <1>1, <1>2 DEF Shape
<1>7. Apart'
  BY <1>1, <1>2 DEF Apart, Nested
<1>8. OwnKept'
  BY <1>1, <1>2 DEF OwnKept
<1>9. BindsAsWritten'
  BY <1>1, <1>2 DEF BindsAsWritten, StandsIn, Nested
<1> QED BY <1>5, <1>6, <1>7, <1>8, <1>9

LEMMA StartMergeKeeps ==
  ASSUME Inv, StartMerge
  PROVE  Inv'
<1> USE DEF Inv
<1>1. /\ ChildDone /\ UNCHANGED <<frames, defs, bodies, documents, refs>>
      /\ merge'.open = TRUE /\ merge'.left = DOMAIN Top.notes /\ merge'.notes = Parent.notes
      /\ merge'.final = NoMerge.final /\ DOMAIN merge' = DOMAIN NoMerge
  BY DEF StartMerge, NoMerge
<1>2. IsNotes(Parent.notes)
  <2>1. Level - 1 \in 1..Level
    BY <1>1, TopFacts DEF ChildDone
  <2> QED BY <2>1, TopFacts DEF Parent, IsFrame
<1>3. Merging'
  <2>1. ChildDone' /\ Top' = Top /\ Parent' = Parent
    BY <1>1 DEF ChildDone, Top, Parent, Level
  <2>2. DOMAIN merge'.final = {}
    BY <1>1 DEF NoMerge
  <2> QED BY <1>1, <2>1, <2>2 DEF Merging, Extends
<1>4. TypeOK' /\ Shape' /\ Apart' /\ OwnKept' /\ BindsAsWritten'
  BY <1>1, <1>2, LoopKeeps
<1> QED BY <1>3, <1>4

\* The label a definition is inserted under was free: what the map had it keeps, and
\* so do the renames made before.
LEMMA InsertNoteKeeps ==
  ASSUME Inv, InsertNote
  PROVE  Inv'
<1> USE DEF Inv
<1>1. PICK label \in Foremost(merge.left) :
        \E final \in {Final(merge.notes, label)} :
           merge' = [merge EXCEPT !.left = @ \ {label}, !.final = With(@, label, final),
                                  !.notes = With(@, final, Top.notes[label])]
  BY DEF InsertNote
<1>2. PICK final : /\ final = Final(merge.notes, label)
                   /\ merge' = [merge EXCEPT !.left = @ \ {label}, !.final = With(@, label, final),
                                             !.notes = With(@, final, Top.notes[label])]
  BY <1>1
<1>3. /\ merge.open /\ ChildDone /\ merge.left \subseteq DOMAIN Top.notes
      /\ DOMAIN merge.final = DOMAIN Top.notes \ merge.left
      /\ Extends(merge.notes, Parent.notes)
      /\ \A l \in DOMAIN merge.final :
           merge.final[l] \in DOMAIN merge.notes /\ merge.notes[merge.final[l]] = Top.notes[l]
      /\ \A l \in DOMAIN merge.notes : l \in DOMAIN Parent.notes \/ merge.notes[l] \in Notes(Top.notes)
      /\ UNCHANGED <<frames, defs, bodies, documents, refs>>
      /\ IsNotes(merge.notes) /\ DOMAIN merge = DOMAIN NoMerge
  BY DEF InsertNote, Merging, TypeOK
<1>4. label \in merge.left /\ label \in DOMAIN Top.notes /\ IsNotes(Top.notes)
  <2>1. frames # << >>
    BY <1>3, TopFacts DEF ChildDone
  <2> QED BY <1>3, <2>1, TopFacts DEF Foremost, IsFrame
<1>5. final \in Label \ {NoLabel} /\ final \notin DOMAIN merge.notes
  BY <1>2, <1>3, <1>4, FinalIsFree DEF IsNotes
<1>6. PICK d : d = Top.notes[label]
  OBVIOUS
<1>7. /\ merge'.open = TRUE /\ merge'.left = merge.left \ {label}
      /\ merge'.final = With(merge.final, label, final)
      /\ merge'.notes = With(merge.notes, final, d)
      /\ DOMAIN merge' = DOMAIN NoMerge
  BY <1>2, <1>3, <1>6 DEF NoMerge
<1>8. /\ DOMAIN merge'.notes = DOMAIN merge.notes \cup {final} /\ merge'.notes[final] = d
      /\ \A l \in DOMAIN merge.notes : merge'.notes[l] = merge.notes[l]
      /\ DOMAIN merge'.final = DOMAIN merge.final \cup {label} /\ merge'.final[label] = final
      /\ \A l \in DOMAIN merge.final : merge'.final[l] = merge.final[l]
  <2>1. label \notin DOMAIN merge.final
    BY <1>3, <1>4
  <2> QED BY <1>5, <1>7, <2>1 DEF With
<1>9. IsNotes(merge'.notes)
  <2>1. IsFiniteSet(DOMAIN merge'.notes)
    BY <1>3, <1>8, FS_AddElement DEF IsNotes
  <2>2. d \in DOMAIN bodies
    BY <1>4, <1>6 DEF IsNotes
  <2> QED BY <1>3, <1>5, <1>8, <2>1, <2>2 DEF IsNotes
<1>10. Merging'
  <2>1. ChildDone' /\ Top' = Top /\ Parent' = Parent
    BY <1>3 DEF ChildDone, Top, Parent, Level
  <2>2. Extends(merge'.notes, Parent.notes)
    BY <1>3, <1>8 DEF Extends
  <2>3. \A l \in DOMAIN merge'.final :
          merge'.final[l] \in DOMAIN merge'.notes /\ merge'.notes[merge'.final[l]] = Top.notes[l]
    BY <1>3, <1>5, <1>6, <1>8
  <2>4. \A l \in DOMAIN merge'.notes : l \in DOMAIN Parent.notes \/ merge'.notes[l] \in Notes(Top.notes)
    <3>1. d \in Notes(Top.notes)
      BY <1>4, <1>6 DEF Notes
    <3> QED BY <1>3, <1>8, <3>1
  <2>5. DOMAIN merge'.final = DOMAIN Top.notes \ merge'.left
    BY <1>3, <1>4, <1>7, <1>8
  <2>6. merge'.left \subseteq DOMAIN Top.notes
    BY <1>3, <1>7
  <2> QED BY <2>1, <2>2, <2>3, <2>4, <2>5, <2>6 DEF Merging
<1>11. TypeOK' /\ Shape' /\ Apart' /\ OwnKept' /\ BindsAsWritten'
  BY <1>3, <1>7, <1>9, LoopKeeps
<1> QED BY <1>10, <1>11

-----------------------------------------------------------------------------
\* The end: the labels of the root's definitions are kept, what their bodies brought
\* was included from inside a note.
LEMMA ReturnKeeps ==
  ASSUME Inv, Return
  PROVE  Inv'
<1> USE DEF Inv
<1>1. /\ frames # << >> /\ Level = 1 /\ Top = frames[1] /\ IsFrame(Top) /\ Top.bodied
      /\ Top.label = NoLabel /\ defs' = Over(defs, Top.notes) /\ frames' = << >>
      /\ bodies' = bodies /\ documents' = documents /\ merge' = merge /\ refs' = refs
  BY TopFacts DEF Return, Root, Top, Level
<1>2. /\ DOMAIN defs' = DOMAIN defs \cup DOMAIN Top.notes /\ Extends(defs', defs)
      /\ \A l \in DOMAIN Top.notes : l \notin DOMAIN defs => defs'[l] = Top.notes[l]
      /\ Notes(defs') \subseteq Notes(defs) \cup Notes(Top.notes)
  <2>1. PICK m : m = Top.notes
    OBVIOUS
  <2> QED BY <1>1, <2>1 DEF Over, Notes, Extends
<1>3. Bindings(1) = defs /\ Bindings(0)' = defs' /\ Level' = 0 /\ Levels' = {0} /\ Levels = {1}
  BY <1>1 DEF Bindings, Level, Levels
<1>4. \A d \in Notes(Top.notes) : Nested(d)
  BY <1>1 DEF Apart
<1>5. TypeOK'
  <2>1. \A map : IsNotes(map)' <=> IsNotes(map)
    BY <1>1 DEF IsNotes
  <2>2. IsNotes(defs) /\ IsNotes(Top.notes) /\ IsNotes(merge.notes)
    BY <1>1 DEF TypeOK, IsFrame
  <2>3. IsNotes(defs')
    <3>1. IsFiniteSet(DOMAIN defs')
      BY <1>2, <2>2, FS_Union DEF IsNotes
    <3>2. \A l \in DOMAIN defs' : defs'[l] \in DOMAIN bodies
      BY <1>2, <2>2 DEF IsNotes, Extends
    <3> QED BY <1>2, <2>2, <3>1, <3>2 DEF IsNotes
  <2>4. \A r \in refs' : IsReference(r)'
    BY <1>1 DEF TypeOK, IsReference
  <2>5. \A i \in 1..Level' : IsFrame(frames[i])'
    BY <1>3
  <2>6. Listed(frames')
    <3>1. << >> = [i \in 1..0 |-> << >>[i]]
      OBVIOUS
    <3> QED BY <1>1 DEF Listed
  <2>7. Level' <= MaxLevel
    BY <1>3, BoundAssumption
  <2> QED BY <1>1, <2>1, <2>2, <2>3, <2>4, <2>5, <2>6, <2>7 DEF TypeOK, Listed
<1>6. Shape'
  BY <1>1, <1>3 DEF Shape
<1>7. Apart'
  <2>1. \A r \in refs' : r.at[1] = "blocks" => r.at[2] \in 1..1
    BY <1>1 DEF Apart
  <2> QED BY <1>1, <1>3, <2>1 DEF Apart
<1>8. Merging'
  BY <1>1 DEF Merging, ChildDone
<1>9. OwnKept'
  <2>1. ASSUME NEW d \in DOMAIN bodies, d[1] = 0
        PROVE  d[2] \in DOMAIN defs' /\ defs'[d[2]] = d
    <3>1. frames[1].doc = 0 /\ d[2] \in frames[1].own /\ d = <<0, d[2]>>
      BY <1>1, <2>1 DEF Shape, TypeOK
    <3>2. d[2] \in DOMAIN defs /\ defs[d[2]] = d
      BY <1>1, <1>3, <3>1 DEF OwnKept
    <3> QED BY <1>2, <3>2 DEF Extends
  <2> QED BY <1>1, <1>3, <2>1 DEF OwnKept
<1>10. BindsAsWritten'
  <2> SUFFICES ASSUME NEW r \in refs,
                      StandsIn(r, 0)', ~Nested(r.def)',
                      r.at[1] = "note" => ~Nested(r.at[2])'
               PROVE  (r.label \in DOMAIN Bindings(0) /\ Bindings(0)[r.label] = r.def)'
    BY <1>1, <1>3 DEF BindsAsWritten
  <2>1. ~Nested(r.def) /\ (r.at[1] = "note" => ~Nested(r.at[2]))
    BY <1>1 DEF Nested
  <2>2. StandsIn(r, 1)
    <3>1. CASE r.at[1] = "note"
      <4>1. r.at[2] \in Notes(defs')
        BY <1>3, <3>1 DEF StandsIn
      <4> QED BY <1>2, <1>3, <1>4, <2>1, <3>1, <4>1 DEF StandsIn
    <3>2. CASE r.at[1] # "note"
      BY <1>1, <3>2, ReferenceFacts DEF Apart, StandsIn
    <3> QED BY <3>1, <3>2
  <2>3. r.label \in DOMAIN defs /\ defs[r.label] = r.def
    BY <1>3, <2>1, <2>2 DEF BindsAsWritten
  <2> QED BY <1>2, <1>3, <2>3 DEF Extends
<1> QED BY <1>5, <1>6, <1>7, <1>8, <1>9, <1>10

LEMMA DoneKeeps ==
  ASSUME Inv, UNCHANGED vars
  PROVE  Inv'
<1> USE DEF Inv
<1>1. TypeOK' /\ Shape' /\ Apart' /\ OwnKept' /\ BindsAsWritten'
  BY LoopKeeps DEF vars, TypeOK
<1>2. Merging'
  BY DEF vars, Merging, ChildDone, Top, Parent, Level
<1> QED BY <1>1, <1>2

-----------------------------------------------------------------------------
\* A finished document leaves the stack; the one below it is changed.
LEMMA PoppedFacts ==
  ASSUME TypeOK, ChildDone, NEW p, p = Level - 1
  PROVE  /\ p \in Nat \ {0} /\ Level = p + 1 /\ p \in 1..p
         /\ \A i \in 1..(p + 1) : i \in 1..p \/ i = p + 1
         /\ \A i \in 1..p : i \in 1..Level /\ i # p + 1
         /\ Listed(Popped) /\ Len(Popped) = p /\ Popped # << >>
         /\ \A i \in 1..p : Popped[i] = frames[i]
         /\ Parent = frames[p] /\ Top = frames[p + 1] /\ IsFrame(Parent) /\ IsFrame(Top)
<1>1. p \in Nat \ {0} /\ Level = p + 1
  BY TopFacts DEF ChildDone
<1>2. /\ p \in 1..p /\ \A i \in 1..(p + 1) : i \in 1..p \/ i = p + 1
      /\ \A i \in 1..p : i \in 1..Level /\ i # p + 1
  BY <1>1
<1>3. Listed(Popped) /\ Len(Popped) = p /\ \A i \in 1..p : Popped[i] = frames[i]
  BY <1>1, TopFacts, ListedPop DEF Popped, Level
<1>4. Parent = frames[p] /\ Top = frames[p + 1]
  BY <1>1 DEF Parent, Top, Level
<1>5. IsFrame(Parent) /\ IsFrame(Top)
  <2>1. p + 1 \in 1..Level
    BY <1>1
  <2> QED BY <1>2, <1>4, <2>1, TopFacts
<1>6. Popped # << >>
  BY <1>1, <1>3
<1> QED BY <1>1, <1>2, <1>3, <1>4, <1>5, <1>6

LEMMA ParentChanged ==
  ASSUME TypeOK, ChildDone, NEW p, p = Level - 1, NEW e, frames' = Replaced(Popped, p, e)
  PROVE  /\ Listed(frames') /\ Level' = p /\ frames' # << >> /\ frames'[p] = e
         /\ \A i \in 1..p : i # p => frames'[i] = frames[i]
<1>1. PICK c : c = Popped
  OBVIOUS
<1>2. /\ p \in Nat \ {0} /\ p \in 1..p /\ Listed(c) /\ Len(c) = p
      /\ \A i \in 1..p : c[i] = frames[i]
  BY <1>1, PoppedFacts
<1>3. /\ Listed(frames') /\ Len(frames') = p /\ frames'[p] = e
      /\ \A i \in 1..p : i # p => frames'[i] = c[i]
  <2>1. frames' = Replaced(c, p, e) /\ p \in 1..Len(c)
    BY <1>1, <1>2
  <2> QED BY <1>2, <2>1, ListedExcept
<1>4. frames' # << >>
  BY <1>2, <1>3
<1> QED BY <1>2, <1>3, <1>4 DEF Level

\* The type of a state in which a document has left the stack.
LEMMA ParentTyped ==
  ASSUME TypeOK, ChildDone, NEW p, p = Level - 1, NEW e, frames' = Replaced(Popped, p, e), IsFrame(e),
         documents' = documents, defs' = defs, DOMAIN bodies' = DOMAIN bodies,
         \A d \in DOMAIN bodies' : bodies'[d] \in [left : Nat, nested : BOOLEAN],
         DOMAIN merge' = DOMAIN NoMerge, merge'.open \in BOOLEAN, IsNotes(merge'.notes),
         \A r \in refs' : IsReference(r)
  PROVE  TypeOK'
<1>1. \A map : IsNotes(map)' <=> IsNotes(map)
  BY DEF IsNotes
<1>2. \A f : IsFrame(f)' <=> IsFrame(f)
  BY <1>1 DEF IsFrame
<1>3. /\ Listed(frames') /\ Level' = p /\ frames'[p] = e
      /\ \A i \in 1..p : i # p => frames'[i] = frames[i]
  BY ParentChanged
<1>4. p \in Nat /\ Level = p + 1 /\ \A i \in 1..p : i \in 1..Level
  BY PoppedFacts
<1>5. \A i \in 1..Level' : IsFrame(frames[i])'
  BY <1>2, <1>3, <1>4, TopFacts
<1>6. \A r \in refs' : IsReference(r)'
  BY DEF IsReference
<1>7. Level' <= MaxLevel
  BY <1>3, <1>4, BoundAssumption DEF TypeOK
<1> QED BY <1>1, <1>3, <1>5, <1>6, <1>7 DEF TypeOK, Listed

\* A rejected document takes its definitions and the references in them away.
LEMMA RejectInlineKeeps ==
  ASSUME Inv, RejectInline
  PROVE  Inv'
<1> USE DEF Inv
<1>0. PICK p : p = Level - 1
  OBVIOUS
<1>1. /\ ChildDone /\ ~merge.open /\ LiteralIn(Popped, 1)
      /\ refs' = {r \in refs : /\ r.at # InBlocks(Level)
                               /\ r.at \notin {InNote(d) : d \in Notes(Top.notes)}}
      /\ defs' = defs /\ documents' = documents /\ merge' = merge
  BY DEF RejectInline
<1>2. /\ p \in Nat \ {0} /\ Level = p + 1 /\ p \in 1..p /\ Len(Popped) = p /\ 1 \in 1..p
      /\ \A i \in 1..p : i \in 1..Level /\ i # p + 1
      /\ Listed(Popped) /\ Popped[p] = Parent /\ Parent = frames[p] /\ IsFrame(Parent)
  <2>1. p \in Nat \ {0} => 1 \in 1..p
    OBVIOUS
  <2> QED BY <1>0, <1>1, <2>1, PoppedFacts
<1>3. PICK e : /\ frames' = Replaced(Popped, p, e)
               /\ DOMAIN e = Fields /\ e.literal \in Nat
               /\ \A x \in Fields \ {"literal"} : e[x] = Parent[x]
  <2> DEFINE h == [Parent EXCEPT !.literal = @ + 1]
  <2>1. CASE Parent.label = NoLabel
    <3>1. frames' = [Popped EXCEPT ![p].literal = @ + 1]
      BY <1>1, <1>2, <2>1 DEF LiteralIn
    <3>2. frames' = Replaced(Popped, p, h)
      BY <1>2, <3>1, ListedFacts DEF Replaced
    <3>3. DOMAIN h = Fields /\ h.literal \in Nat /\ \A x \in Fields \ {"literal"} : h[x] = Parent[x]
      BY <1>2 DEF IsFrame, Fields
    <3> QED BY <3>2, <3>3
  <2>2. CASE Parent.label # NoLabel
    <3>1. PICK c : c = Popped
      OBVIOUS
    <3>2. frames' = c /\ Listed(c) /\ Len(c) = p /\ c[p] = Parent
      BY <1>1, <1>2, <2>2, <3>1 DEF LiteralIn
    <3>3. c = Replaced(c, p, Parent)
      BY <1>2, <3>2, ListedFacts DEF Replaced
    <3>4. frames' = Replaced(Popped, p, Parent)
      BY <3>1, <3>2, <3>3
    <3> QED BY <1>2, <3>4 DEF IsFrame
  <2> QED BY <2>1, <2>2
<1>4. /\ e.doc = Parent.doc /\ e.own = Parent.own /\ e.notes = Parent.notes /\ e.label = Parent.label
      /\ e.held = Parent.held /\ e.bodied = Parent.bodied /\ e.queue = Parent.queue
      /\ e.left = Parent.left /\ e.form = Parent.form
  BY <1>3 DEF Fields
<1>5. SameNesting /\ \A d \in DOMAIN bodies : bodies'[d] \in [left : Nat, nested : BOOLEAN]
  <2>1. \A d \in DOMAIN bodies : bodies[d] \in [left : Nat, nested : BOOLEAN]
    BY DEF TypeOK
  <2>2. CASE Parent.label = NoLabel
    BY <1>1, <1>2, <2>1, <2>2 DEF LiteralIn, SameNesting
  <2>3. CASE Parent.label # NoLabel
    <3>1. bodies' = [bodies EXCEPT ![Parent.held].left = @ + 1]
      BY <1>1, <1>2, <2>3 DEF LiteralIn
    <3> QED BY <2>1, <3>1 DEF SameNesting
  <2> QED BY <2>2, <2>3
<1>6. /\ Level' = p /\ frames' # << >> /\ frames'[p] = e
      /\ \A i \in 1..p : i # p => frames'[i] = frames[i]
  BY <1>0, <1>1, <1>3, ParentChanged
<1>7. \A i \in 1..p : /\ frames'[i].notes = frames[i].notes /\ frames'[i].label = frames[i].label
                      /\ frames'[i].held = frames[i].held /\ frames'[i].bodied = frames[i].bodied
                      /\ frames'[i].doc = frames[i].doc /\ frames'[i].own = frames[i].own
                      /\ frames'[i].queue = frames[i].queue
  BY <1>2, <1>4, <1>6
<1>8. \A i \in 1..p : Bindings(i)' = Bindings(i) /\ Held(i)' = Held(i)
  <2> TAKE i \in 1..p
  <2>1. Bindings(i)' = Bindings(i)
    BY <1>1, <1>2, <1>7 DEF Bindings
  <2> QED BY <1>7, <2>1 DEF Held
<1>9. \A r \in refs' : r \in refs /\ (r.at[1] = "blocks" => r.at[2] \in 1..p)
  <2> TAKE r \in refs'
  <2>1. r \in refs /\ r.at # InBlocks(p + 1)
    BY <1>1, <1>2
  <2>2. frames # << >>
    BY <1>1, <1>2 DEF ChildDone, Level
  <2>3. r.at[1] = "blocks" => r.at[2] \in 1..(p + 1) /\ r.at = InBlocks(r.at[2])
    BY <1>2, <2>1, <2>2, ReferenceFacts DEF Apart, InNote
  <2> QED BY <1>0, <1>1, <2>1, <2>3, PoppedFacts
<1>10. TypeOK'
  <2>1. IsFrame(e)
    BY <1>2, <1>3, <1>4 DEF IsFrame
  <2>2. \A r \in refs' : IsReference(r)
    BY <1>9 DEF TypeOK
  <2>3. DOMAIN merge' = DOMAIN NoMerge /\ merge'.open \in BOOLEAN /\ IsNotes(merge'.notes)
    BY <1>1 DEF TypeOK
  <2> QED BY <1>0, <1>1, <1>3, <1>5, <2>1, <2>2, <2>3, ParentTyped DEF SameNesting
<1>11. Shape'
  <2>1. \A i \in 1..p : ~(frames'[i].bodied /\ frames'[i].label = NoLabel)
    BY <1>2, <1>7 DEF Shape
  <2>2. \A i \in 1..p : frames'[i].queue \subseteq DOMAIN Bindings(i)'
    BY <1>2, <1>7, <1>8 DEF Shape
  <2>3. /\ frames'[1].doc = 0 /\ \A d \in DOMAIN bodies' : d[1] = 0 => d[2] \in frames'[1].own
    BY <1>2, <1>5, <1>7, TopFacts DEF Shape, SameNesting
  <2> QED BY <1>6, <2>1, <2>2, <2>3 DEF Shape
<1>12. Apart'
  <2>1. \A i, j \in 1..p : i # j => Held(i)' \cap Held(j)' = {}
    BY <1>2, <1>8 DEF Apart
  <2>2. frames'[1].bodied => \A d \in Notes(frames'[1].notes) : Nested(d)'
    <3>1. frames[1].bodied => \A d \in Notes(frames[1].notes) : d \in DOMAIN bodies /\ Nested(d)
      BY <1>2, BindingsTyped, TopFacts DEF Apart, Held
    <3> QED BY <1>2, <1>5, <1>7, <3>1 DEF Nested, SameNesting
  <2> QED BY <1>6, <1>9, <2>1, <2>2 DEF Apart
<1>13. Merging'
  BY <1>1 DEF Merging
<1>14. OwnKept'
  BY <1>2, <1>6, <1>7, <1>8 DEF OwnKept
<1>15. BindsAsWritten'
  <2>1. Levels' = 1..p /\ \A i \in 1..p : i \in Levels /\ i # 0
    BY <1>2, <1>6, TopFacts DEF Levels
  <2> SUFFICES ASSUME NEW r \in refs', NEW level \in 1..p,
                      StandsIn(r, level)', ~Nested(r.def)',
                      r.at[1] = "note" => ~Nested(r.at[2])'
               PROVE  (r.label \in DOMAIN Bindings(level) /\ Bindings(level)[r.label] = r.def)'
    BY <2>1 DEF BindsAsWritten
  <2>2. StandsIn(r, level)
    BY <1>8 DEF StandsIn
  <2>3. ~Nested(r.def) /\ (r.at[1] = "note" => ~Nested(r.at[2]))
    BY <1>5, <1>9, ReferenceFacts DEF Nested, SameNesting
  <2>4. r.label \in DOMAIN Bindings(level) /\ Bindings(level)[r.label] = r.def
    BY <1>9, <2>1, <2>2, <2>3 DEF BindsAsWritten
  <2> QED BY <1>8, <2>4
<1> QED BY <1>10, <1>11, <1>12, <1>13, <1>14, <1>15

-----------------------------------------------------------------------------
\* A merge gives the document below what the child held and nothing else: its own
\* labels stay its own, the references of the child follow the renames, and no
\* reference of another document is touched.
LEMMA MergeKeeps ==
  ASSUME Inv, Merge
  PROVE  Inv'
<1> USE DEF Inv
<1>0. PICK p : p = Level - 1
  OBVIOUS
<1>1. /\ merge.open /\ merge.left = {} /\ merge' = NoMerge /\ defs' = defs /\ documents' = documents
      /\ refs' = {Placed(Renamed(r, merge.final, Top.notes)) : r \in refs}
  BY DEF Merge
<1>2. /\ ChildDone /\ DOMAIN merge.final = DOMAIN Top.notes
      /\ Extends(merge.notes, Parent.notes) /\ IsNotes(merge.notes)
      /\ \A l \in DOMAIN merge.final :
           merge.final[l] \in DOMAIN merge.notes /\ merge.notes[merge.final[l]] = Top.notes[l]
      /\ \A l \in DOMAIN merge.notes : l \in DOMAIN Parent.notes \/ merge.notes[l] \in Notes(Top.notes)
  BY <1>1 DEF Merging, TypeOK
<1>3. /\ p \in Nat \ {0} /\ Level = p + 1 /\ p \in 1..p /\ Len(Popped) = p /\ 1 \in 1..p
      /\ \A i \in 1..(p + 1) : i \in 1..p \/ i = p + 1
      /\ \A i \in 1..p : i \in 1..Level /\ i # p + 1
      /\ p + 1 \in 1..Level /\ p + 1 # 1 /\ Level - 1 = p
      /\ Listed(Popped) /\ Popped[p] = Parent /\ Parent = frames[p] /\ IsFrame(Parent)
      /\ Top = frames[p + 1] /\ IsFrame(Top) /\ frames # << >>
      /\ Top.bodied /\ Top.label = NoLabel
  <2>1. p \in Nat \ {0} => 1 \in 1..p /\ p + 1 \in 1..(p + 1) /\ p + 1 # 1 /\ p + 1 # 0 /\ (p + 1) - 1 = p
    OBVIOUS
  <2> QED BY <1>0, <1>2, <2>1, PoppedFacts, TopFacts DEF ChildDone
<1>4. PICK m, t, s : m = merge.notes /\ t = Top.notes /\ s = Parent.notes
  OBVIOUS
<1> DEFINE literal == IF Parent.label = NoLabel THEN 0 ELSE Top.literal
<1>5. /\ frames' = [Popped EXCEPT ![p].notes = m, ![p].literal = @ + Top.literal - literal]
      /\ bodies' = [d \in DOMAIN bodies |->
                      IF Parent.label = NoLabel THEN bodies[d]
                      ELSE IF d \in Notes(t) THEN [bodies[d] EXCEPT !.nested = TRUE]
                      ELSE IF d = Parent.held THEN [bodies[d] EXCEPT !.left = @ + literal]
                      ELSE bodies[d]]
  BY <1>3, <1>4 DEF Merge
<1>6. PICK e : /\ frames' = Replaced(Popped, p, e)
               /\ DOMAIN e = Fields /\ e.literal \in Nat /\ e.notes = m
               /\ \A x \in Fields \ {"literal", "notes"} : e[x] = Parent[x]
  <2> DEFINE more == Top.literal - literal
             h == [Parent EXCEPT !.notes = m, !.literal = @ + Top.literal - literal]
  <2>1. Top.literal \in Nat /\ Parent.literal \in Nat /\ (literal = 0 \/ literal = Top.literal)
    BY <1>3 DEF IsFrame
  <2>2. Parent.literal + Top.literal - literal \in Nat
    BY <2>1
  <2> HIDE DEF literal
  <2>3. frames' = Replaced(Popped, p, h)
    BY <1>3, <1>5, ListedFacts DEF Replaced
  <2>4. /\ DOMAIN h = Fields /\ h.literal \in Nat /\ h.notes = m
        /\ \A x \in Fields \ {"literal", "notes"} : h[x] = Parent[x]
    BY <1>3, <2>2 DEF IsFrame, Fields
  <2> QED BY <2>3, <2>4
<1>7. /\ e.doc = Parent.doc /\ e.own = Parent.own /\ e.label = Parent.label
      /\ e.held = Parent.held /\ e.bodied = Parent.bodied /\ e.queue = Parent.queue
      /\ e.left = Parent.left /\ e.form = Parent.form
  BY <1>6 DEF Fields
<1>8. /\ DOMAIN bodies' = DOMAIN bodies
      /\ \A d \in DOMAIN bodies : /\ bodies'[d] \in [left : Nat, nested : BOOLEAN]
                                  /\ bodies[d].nested => bodies'[d].nested
                                  /\ Parent.label # NoLabel /\ d \in Notes(t) => bodies'[d].nested
  <2>1. literal \in Nat
    BY <1>3 DEF IsFrame
  <2>2. \A d \in DOMAIN bodies : bodies[d] \in [left : Nat, nested : BOOLEAN]
    BY DEF TypeOK
  <2> HIDE DEF literal
  <2>3. DOMAIN bodies' = DOMAIN bodies
    BY <1>5
  <2>4. ASSUME NEW d \in DOMAIN bodies
        PROVE  /\ bodies'[d] \in [left : Nat, nested : BOOLEAN]
               /\ bodies[d].nested => bodies'[d].nested
               /\ Parent.label # NoLabel /\ d \in Notes(t) => bodies'[d].nested
    <3>1. CASE Parent.label = NoLabel
      BY <1>5, <2>2, <3>1
    <3>2. CASE Parent.label # NoLabel /\ d \in Notes(t)
      BY <1>5, <2>2, <3>2
    <3>3. CASE Parent.label # NoLabel /\ d \notin Notes(t) /\ d = Parent.held
      BY <1>5, <2>1, <2>2, <3>3
    <3>4. CASE Parent.label # NoLabel /\ d \notin Notes(t) /\ d # Parent.held
      BY <1>5, <2>2, <3>4
    <3> QED BY <3>1, <3>2, <3>3, <3>4
  <2> QED BY <2>3, <2>4
<1> HIDE DEF literal
<1>9. /\ Level' = p /\ frames' # << >> /\ frames'[p] = e
      /\ \A i \in 1..p : i # p => frames'[i] = frames[i]
  BY <1>0, <1>2, <1>6, ParentChanged
<1>10. \A i \in 1..p : /\ frames'[i].label = frames[i].label /\ frames'[i].held = frames[i].held
                       /\ frames'[i].bodied = frames[i].bodied /\ frames'[i].doc = frames[i].doc
                       /\ frames'[i].own = frames[i].own /\ frames'[i].queue = frames[i].queue
  BY <1>3, <1>7, <1>9
\* What the documents bind, before and after.
<1>11. Bindings(p + 1) = t /\ Held(p + 1) = Notes(t)
  <2>1. Bindings(p + 1) = t
    BY <1>3, <1>4 DEF Bindings
  <2> QED BY <1>3, <1>4, <2>1 DEF Held
<1>12. \A i \in 1..p : i # p => Bindings(i)' = Bindings(i) /\ Held(i)' = Held(i)
  <2> TAKE i \in 1..p
  <2> SUFFICES ASSUME i # p PROVE Bindings(i)' = Bindings(i) /\ Held(i)' = Held(i)
    OBVIOUS
  <2>1. Bindings(i)' = Bindings(i)
    BY <1>1, <1>3, <1>9, <1>10 DEF Bindings
  <2> QED BY <1>9, <2>1 DEF Held
<1>13. ~(Parent.bodied /\ Parent.label = NoLabel)
  BY <1>3 DEF Shape
<1>14. PICK b, c : b = Bindings(p) /\ c = Bindings(p)'
  OBVIOUS
<1>15. /\ Extends(c, b) /\ Notes(c) \subseteq Notes(b) \cup Notes(t)
       /\ Parent.label = NoLabel => c = m /\ b = s
       /\ Parent.label # NoLabel /\ p # 1 => Parent.held \in Notes(b)
  <2>1. Extends(m, s) /\ \A l \in DOMAIN m : l \in DOMAIN s \/ m[l] \in Notes(t)
    BY <1>2, <1>4
  <2>2. CASE Parent.label = NoLabel
    <3>1. ~Parent.bodied
      BY <1>13, <2>2
    <3>2. b = s /\ c = m
      BY <1>3, <1>4, <1>6, <1>7, <1>9, <1>14, <2>2, <3>1 DEF Bindings
    <3>3. Notes(m) \subseteq Notes(s) \cup Notes(t)
      BY <2>1 DEF Notes, Extends
    <3> QED BY <2>1, <2>2, <3>2, <3>3
  <2>3. CASE Parent.label # NoLabel /\ p = 1
    <3>1. Parent.bodied
      BY <1>3, <2>3 DEF IsFrame
    <3>2. b = defs /\ c = defs
      BY <1>1, <1>3, <1>7, <1>9, <1>14, <2>3, <3>1 DEF Bindings
    <3> QED BY <2>3, <3>2 DEF Extends
  <2>4. CASE Parent.label # NoLabel /\ p # 1
    <3>1. PICK k, d : k = Parent.label /\ d = Parent.held
      OBVIOUS
    <3>2. b = With(s, k, d) /\ c = With(m, k, d)
      BY <1>3, <1>4, <1>6, <1>7, <1>9, <1>14, <2>4, <3>1 DEF Bindings
    <3>3. /\ DOMAIN b = DOMAIN s \cup {k} /\ b[k] = d /\ \A l \in DOMAIN s : l # k => b[l] = s[l]
          /\ DOMAIN c = DOMAIN m \cup {k} /\ c[k] = d /\ \A l \in DOMAIN m : l # k => c[l] = m[l]
      BY <3>2 DEF With
    <3>4. Extends(c, b)
      BY <2>1, <3>3 DEF Extends
    <3>5. d \in Notes(b)
      BY <3>3 DEF Notes
    <3>6. Notes(c) \subseteq Notes(b) \cup Notes(t)
      <4>1. \A l \in DOMAIN c : c[l] \in Notes(b) \cup Notes(t)
        <5> TAKE l \in DOMAIN c
        <5>1. CASE l = k
          BY <3>3, <3>5, <5>1
        <5>2. CASE l # k /\ l \in DOMAIN s
          <6>1. c[l] = b[l] /\ l \in DOMAIN b
            BY <2>1, <3>3, <5>2 DEF Extends
          <6> QED BY <6>1 DEF Notes
        <5>3. CASE l # k /\ l \notin DOMAIN s
          BY <2>1, <3>3, <5>3
        <5> QED BY <5>1, <5>2, <5>3
      <4> QED BY <4>1 DEF Notes
    <3> QED BY <2>4, <3>1, <3>4, <3>5, <3>6
  <2> QED BY <2>2, <2>3, <2>4
<1>16. Notes(m) \subseteq Notes(s) \cup Notes(t)
  BY <1>2, <1>4 DEF Notes, Extends
<1>17. /\ Held(p)' \subseteq Held(p) \cup Notes(t)
       /\ Notes(b) \subseteq Held(p)
       /\ \A i \in 1..p : Held(i) \cap Notes(t) = {}
       /\ \A i \in 1..p : i # p => Held(i) \cap Held(p) = {}
  <2>1. Held(p)' = Notes(c) \cup Notes(m) /\ Held(p) = Notes(b) \cup Notes(s)
    BY <1>3, <1>4, <1>6, <1>9, <1>14 DEF Held
  <2>2. \A i \in 1..p : Held(i) \cap Held(p + 1) = {}
    BY <1>3 DEF Apart
  <2>3. \A i \in 1..p : i # p => Held(i) \cap Held(p) = {}
    BY <1>3 DEF Apart
  <2> QED BY <1>11, <1>15, <1>16, <2>1, <2>2, <2>3
<1>18. /\ b = Bindings(p) /\ IsNotes(b) /\ IsNotes(t) /\ Notes(t) \subseteq DOMAIN bodies
  <2>1. IsNotes(t)
    BY <1>3, <1>4 DEF IsFrame
  <2> QED BY <1>3, <1>14, <2>1, BindingsTyped DEF IsNotes, Notes
\* What becomes of a reference.
<1>19. ASSUME NEW r \in refs
       PROVE  LET v == Placed(Renamed(r, merge.final, t))
                  child == r.at = InBlocks(p + 1) \/ \E d \in Notes(t) : r.at = InNote(d)
              IN  /\ DOMAIN v = {"at", "label", "def"} /\ v.def = r.def
                  /\ v.at = IF r.at # InBlocks(p + 1) THEN r.at
                            ELSE IF Parent.label = NoLabel THEN InBlocks(p) ELSE InNote(Parent.held)
                  /\ v.label = IF child /\ r.label \in DOMAIN t THEN merge.final[r.label] ELSE r.label
  <2>1. DOMAIN r = {"at", "label", "def"}
    BY ReferenceFacts
  <2> DEFINE u == Renamed(r, merge.final, t)
  <2>2. /\ DOMAIN u = {"at", "label", "def"} /\ u.def = r.def /\ u.at = r.at
        /\ u.label = IF /\ r.at = InBlocks(p + 1) \/ \E d \in Notes(t) : r.at = InNote(d)
                        /\ r.label \in DOMAIN t
                     THEN merge.final[r.label] ELSE r.label
    BY <1>2, <1>3, <1>4, <2>1 DEF Renamed
  <2> HIDE DEF u
  <2>3. /\ DOMAIN Placed(u) = {"at", "label", "def"} /\ Placed(u).def = u.def /\ Placed(u).label = u.label
        /\ Placed(u).at = IF u.at = InBlocks(p + 1) THEN Place ELSE u.at
    BY <1>3, <2>2 DEF Placed
  <2>4. Place = IF Parent.label = NoLabel THEN InBlocks(p) ELSE InNote(Parent.held)
    BY <1>3 DEF Place
  <2> QED BY <2>2, <2>3, <2>4 DEF u
<1>20. \A v \in refs' : \E r \in refs : v = Placed(Renamed(r, merge.final, t))
  BY <1>1, <1>4
<1>21. TypeOK'
  <2>1. IsFrame(e)
    BY <1>2, <1>3, <1>4, <1>6, <1>7 DEF IsFrame
  <2>2. \A v \in refs' : IsReference(v)
    <3> TAKE v \in refs'
    <3>1. PICK r \in refs : v = Placed(Renamed(r, merge.final, t))
      BY <1>20
    <3>2. /\ DOMAIN v = {"at", "label", "def"} /\ v.def = r.def
          /\ v.at = IF r.at # InBlocks(p + 1) THEN r.at
                    ELSE IF Parent.label = NoLabel THEN InBlocks(p) ELSE InNote(Parent.held)
          /\ v.label = r.label \/ (r.label \in DOMAIN t /\ v.label = merge.final[r.label])
      <4> DEFINE child == r.at = InBlocks(p + 1) \/ \E d \in Notes(t) : r.at = InNote(d)
      <4>1. /\ DOMAIN v = {"at", "label", "def"} /\ v.def = r.def
            /\ v.at = IF r.at # InBlocks(p + 1) THEN r.at
                      ELSE IF Parent.label = NoLabel THEN InBlocks(p) ELSE InNote(Parent.held)
            /\ v.label = IF child /\ r.label \in DOMAIN t THEN merge.final[r.label] ELSE r.label
        BY <1>19, <3>1
      <4>2. v.label = r.label \/ (r.label \in DOMAIN t /\ v.label = merge.final[r.label])
        <5> HIDE DEF child
        <5> QED BY <4>1
      <4> QED BY <4>1, <4>2
    <3>3. IsReference(r)
      BY DEF TypeOK
    <3>4. v.label \in Label
      BY <1>2, <1>4, <3>2, <3>3 DEF IsReference, IsNotes
    <3>5. p \in 1..MaxLevel
      BY <1>3, BoundAssumption DEF TypeOK
    <3>6. Parent.label # NoLabel => Parent.held \in DOMAIN bodies
      BY <1>3 DEF IsFrame
    <3>7. v.at \in {InBlocks(i) : i \in 1..MaxLevel} \cup {InNote(d) : d \in DOMAIN bodies}
      BY <3>2, <3>3, <3>5, <3>6 DEF IsReference
    <3> QED BY <3>2, <3>3, <3>4, <3>7 DEF IsReference
  <2>3. DOMAIN merge' = DOMAIN NoMerge /\ merge'.open \in BOOLEAN /\ IsNotes(merge'.notes)
    BY <1>1, FS_EmptySet DEF NoMerge, IsNotes, NoNotes
  <2>4. \A d \in DOMAIN bodies' : bodies'[d] \in [left : Nat, nested : BOOLEAN]
    BY <1>8
  <2> QED BY <1>0, <1>1, <1>2, <1>6, <1>8, <2>1, <2>2, <2>3, <2>4, ParentTyped
<1>22. \A i \in 1..p : Extends(Bindings(i)', Bindings(i))
  BY <1>12, <1>14, <1>15 DEF Extends
<1>23. Shape'
  <2>1. \A i \in 1..p : ~(frames'[i].bodied /\ frames'[i].label = NoLabel)
    BY <1>3, <1>10 DEF Shape
  <2>2. \A i \in 1..p : frames'[i].queue \subseteq DOMAIN Bindings(i)'
    BY <1>3, <1>10, <1>22 DEF Shape, Extends
  <2>3. /\ frames'[1].doc = 0 /\ \A d \in DOMAIN bodies' : d[1] = 0 => d[2] \in frames'[1].own
    BY <1>3, <1>8, <1>10 DEF Shape
  <2> QED BY <1>9, <2>1, <2>2, <2>3 DEF Shape
<1>24. Apart'
  <2>1. \A i, j \in 1..p : i # j => Held(i)' \cap Held(j)' = {}
    <3> SUFFICES ASSUME NEW i \in 1..p, NEW j \in 1..p, i # j
                 PROVE  Held(i)' \cap Held(j)' = {}
      OBVIOUS
    <3>1. CASE i # p /\ j # p
      BY <1>3, <1>12, <3>1 DEF Apart
    <3>2. CASE i # p /\ j = p
      BY <1>12, <1>17, <3>2
    <3>3. CASE i = p /\ j # p
      BY <1>12, <1>17, <3>3
    <3> QED BY <3>1, <3>2, <3>3
  <2>2. \A v \in refs' : v.at[1] = "blocks" => v.at[2] \in 1..p
    <3> TAKE v \in refs'
    <3>1. PICK r \in refs : v = Placed(Renamed(r, merge.final, t))
      BY <1>20
    <3>2. v.at = IF r.at # InBlocks(p + 1) THEN r.at
                 ELSE IF Parent.label = NoLabel THEN InBlocks(p) ELSE InNote(Parent.held)
      BY <1>19, <3>1
    <3>3. r.at[1] = "blocks" => r.at[2] \in 1..(p + 1) /\ r.at = InBlocks(r.at[2])
      BY <1>3, ReferenceFacts DEF Apart, InNote
    <3> QED BY <1>3, <3>2, <3>3 DEF InBlocks, InNote
  <2>3. frames'[1].bodied => \A d \in Notes(frames'[1].notes) : Nested(d)'
    <3>1. frames[1].bodied => \A d \in Notes(frames[1].notes) : d \in DOMAIN bodies /\ bodies'[d].nested
      BY <1>3, <1>8, BindingsTyped DEF Apart, Held, Nested
    <3>2. CASE p = 1
      <4>1. frames'[1].bodied => Parent.label # NoLabel
        BY <1>3, <1>10, <1>13, <3>2
      <4>2. frames'[1].bodied => \A d \in Notes(t) : bodies'[d].nested
        BY <1>8, <1>18, <4>1
      <4>3. frames'[1].notes = m /\ s = frames[1].notes /\ frames'[1].bodied = frames[1].bodied
        BY <1>3, <1>4, <1>6, <1>9, <1>10, <3>2
      <4> QED BY <1>16, <3>1, <4>2, <4>3 DEF Nested
    <3>3. CASE p # 1
      BY <1>3, <1>9, <3>1, <3>3 DEF Nested
    <3> QED BY <3>2, <3>3
  <2> QED BY <1>9, <2>1, <2>2, <2>3 DEF Apart
<1>25. Merging'
  BY <1>1 DEF Merging, NoMerge
<1>26. OwnKept'
  <2>1. ASSUME NEW i \in 1..p, NEW l \in frames'[i].own
        PROVE  l \in DOMAIN Bindings(i)' /\ Bindings(i)'[l] = <<frames'[i].doc, l>>
    <3>1. l \in DOMAIN Bindings(i) /\ Bindings(i)[l] = <<frames[i].doc, l>>
      BY <1>3, <1>10, <2>1 DEF OwnKept
    <3> QED BY <1>10, <1>22, <3>1 DEF Extends
  <2> QED BY <1>9, <2>1 DEF OwnKept
<1>27. BindsAsWritten'
  <2>1. Levels' = 1..p /\ \A i \in 1..(p + 1) : i \in Levels /\ i # 0
    BY <1>3, <1>9 DEF Levels
  <2> SUFFICES ASSUME NEW v \in refs', NEW level \in 1..p,
                      StandsIn(v, level)', ~Nested(v.def)',
                      v.at[1] = "note" => ~Nested(v.at[2])'
               PROVE  (v.label \in DOMAIN Bindings(level) /\ Bindings(level)[v.label] = v.def)'
    BY <2>1 DEF BindsAsWritten
  <2>2. PICK r \in refs : v = Placed(Renamed(r, merge.final, t))
    BY <1>20
  <2> DEFINE child == r.at = InBlocks(p + 1) \/ \E d \in Notes(t) : r.at = InNote(d)
  <2>3. /\ v.def = r.def
        /\ v.at = IF r.at # InBlocks(p + 1) THEN r.at
                  ELSE IF Parent.label = NoLabel THEN InBlocks(p) ELSE InNote(Parent.held)
        /\ v.label = IF child /\ r.label \in DOMAIN t THEN merge.final[r.label] ELSE r.label
    BY <1>19, <2>2
  <2>4. /\ r.def \in DOMAIN bodies
        /\ \/ r.at[1] = "blocks" /\ r.at = InBlocks(r.at[2]) /\ r.at[2] \in 1..(p + 1)
           \/ r.at[1] = "note" /\ r.at = InNote(r.at[2]) /\ r.at[2] \in DOMAIN bodies
    BY <1>3, ReferenceFacts DEF Apart
  <2>5. ~bodies[r.def].nested /\ ~bodies'[r.def].nested
    BY <1>8, <2>3, <2>4 DEF Nested
  <2>6. r.at[1] = "note" => ~bodies[r.at[2]].nested /\ ~bodies'[r.at[2]].nested
    <3>1. r.at[1] = "note" => v.at = r.at
      BY <2>3 DEF InBlocks
    <3> QED BY <1>8, <2>4, <3>1 DEF Nested
  <2>7. \A i \in 1..(p + 1) : StandsIn(r, i) => r.label \in DOMAIN Bindings(i) /\ Bindings(i)[r.label] = r.def
    BY <2>1, <2>5, <2>6 DEF BindsAsWritten, Nested
  \* In the child: the rename leads to the definition.
  <2>8. ASSUME child
        PROVE  r.label \in DOMAIN t /\ t[r.label] = r.def
    <3>1. StandsIn(r, p + 1)
      BY <1>11, <2>8 DEF StandsIn, InBlocks, InNote
    <3> QED BY <1>3, <1>11, <2>7, <3>1
  <2>9. Parent.label # NoLabel => ~child
    <3> SUFFICES ASSUME Parent.label # NoLabel, child PROVE FALSE
      OBVIOUS
    <3>1. r.def \in Notes(t)
      BY <2>8 DEF Notes
    <3> QED BY <1>8, <2>4, <2>5, <3>1
  <2>10. level # p => ~child
    <3> SUFFICES ASSUME level # p, child PROVE FALSE
      OBVIOUS
    <3>1. Parent.label = NoLabel
      BY <2>9
    <3>2. CASE r.at = InBlocks(p + 1)
      BY <1>3, <2>1, <2>3, <3>1, <3>2 DEF StandsIn, InBlocks
    <3>3. CASE \E d \in Notes(t) : r.at = InNote(d)
      <4>1. PICK d \in Notes(t) : r.at = InNote(d)
        BY <3>3
      <4>2. v.at = InNote(d)
        BY <2>3, <4>1 DEF InBlocks, InNote
      <4>3. d \in Notes(Bindings(level))
        BY <1>12, <4>2 DEF StandsIn, InNote
      <4> QED BY <1>17, <4>1, <4>3 DEF Held
    <3> QED BY <3>2, <3>3
  <2>11. CASE child
    <3>1. level = p /\ Parent.label = NoLabel
      BY <2>9, <2>10, <2>11
    <3>2. v.label = merge.final[r.label] /\ r.label \in DOMAIN t /\ t[r.label] = r.def
      BY <2>3, <2>8, <2>11
    <3>3. v.label \in DOMAIN m /\ m[v.label] = r.def
      BY <1>2, <1>4, <3>2
    <3> QED BY <1>14, <1>15, <2>3, <3>1, <3>3
  <2>12. CASE ~child
    <3>1. v.at = r.at /\ v.label = r.label /\ v.def = r.def
      BY <2>3, <2>12
    <3>2. StandsIn(r, level)
      <4>1. CASE level # p
        BY <1>12, <3>1, <4>1 DEF StandsIn
      <4>2. CASE level = p
        <5>1. CASE r.at[1] = "note"
          <6>1. r.at[2] \in Notes(c)
            BY <1>14, <3>1, <4>2, <5>1 DEF StandsIn
          <6>2. r.at[2] \notin Notes(t)
            BY <2>4, <2>12, <5>1 DEF InBlocks, InNote
          <6> QED BY <1>14, <1>15, <4>2, <5>1, <6>1, <6>2 DEF StandsIn
        <5>2. CASE r.at[1] # "note"
          BY <3>1, <5>2 DEF StandsIn
        <5> QED BY <5>1, <5>2
      <4> QED BY <4>1, <4>2
    <3>3. r.label \in DOMAIN Bindings(level) /\ Bindings(level)[r.label] = r.def
      BY <1>3, <2>7, <3>2
    <3> QED BY <1>22, <3>1, <3>3 DEF Extends
  <2> QED BY <2>11, <2>12
<1> QED BY <1>21, <1>23, <1>24, <1>25, <1>26, <1>27

-----------------------------------------------------------------------------
LEMMA NextKeeps == Inv /\ [Next]_vars => Inv'
<1> SUFFICES ASSUME Inv, [Next]_vars PROVE Inv'
  OBVIOUS
<1>1. CASE UNCHANGED vars
  BY <1>1, DoneKeeps
<1>2. CASE \E own \in ChildLabels, n \in 0..BlockDirectives, form \in {"block", "inline"} :
             \E directives \in [own -> 0..NoteDirectives] : Enter(own, n, directives, form)
  BY <1>2, EnterKeeps
<1>3. CASE Next /\ ~UNCHANGED vars
  BY <1>2, <1>3, RefuseKeeps, BeginNotesKeeps, NextNoteKeeps, EndNoteKeeps, StartMergeKeeps,
     InsertNoteKeeps, MergeKeeps, RejectInlineKeeps, ReturnKeeps DEF Next, Done
<1> QED BY <1>1, <1>3

THEOREM Invariance == Spec => []Inv
<1>1. Init => Inv
  BY InitEstablishes
<1>2. Inv /\ [Next]_vars => Inv'
  BY NextKeeps
<1> QED BY <1>1, <1>2, PTL DEF Spec

\* Definitions, references and documents under way stay what they are.
THEOREM TypeCorrect == Spec => []TypeOK
<1>1. Inv => TypeOK
  BY DEF Inv
<1> QED BY <1>1, Invariance, PTL

\* A document keeps its own labels for its own definitions, whatever it includes.
THEOREM OwnKeptHolds == Spec => []OwnKept
<1>1. Inv => OwnKept
  BY DEF Inv
<1> QED BY <1>1, Invariance, PTL

\* A reference means the definition its author wrote after every merge and rename.
THEOREM BindsAsWrittenHolds == Spec => []BindsAsWritten
<1>1. Inv => BindsAsWritten
  BY DEF Inv
<1> QED BY <1>1, Invariance, PTL

-----------------------------------------------------------------------------
(* The report *)

\* A placeholder still to be decided has its warning where its place says; a decided
\* one has its name in the warning, or the warning is to be taken out.
Marked ==
    \A i \in DOMAIN warnings :
      IF warnings[i].rule = RenameRule
        THEN /\ warnings[i].mark \in 1..(Len(fates) + Len(pending))
             /\ IF warnings[i].mark > Len(fates)
                  THEN pending[warnings[i].mark - Len(fates)] = i
                  ELSE \/ warnings[i].named /\ fates[warnings[i].mark] = "renamed"
                       \/ \E k \in DOMAIN unsaid : unsaid[k] = i
        ELSE ~warnings[i].named

\* The places kept are those of rename warnings, in the order of the list.
PlacesKept ==
    /\ \A k \in DOMAIN pending : pending[k] # 0 =>
         /\ warnings[pending[k]].rule = RenameRule
         /\ warnings[pending[k]].mark = Len(fates) + k
    /\ \A k, l \in DOMAIN pending : k < l /\ pending[k] # 0 /\ pending[l] # 0 => pending[k] < pending[l]

Doomed ==
    /\ \A k \in DOMAIN unsaid : warnings[unsaid[k]].rule = RenameRule
    /\ \A k, l \in DOMAIN unsaid : k < l => unsaid[k] < unsaid[l]
    /\ \A k \in DOMAIN unsaid, l \in DOMAIN pending : pending[l] # 0 => unsaid[k] < pending[l]

InPhase ==
    /\ phase = "expanding" => unsaid = << >> /\ fates = << >>
    /\ phase \in {"removing", "done"} => pending = << >>
    /\ phase = "done" => unsaid = << >>

Shown(rule) == \E i \in DOMAIN warnings : warnings[i].rule = rule

Represented ==
    /\ \A r \in DOMAIN raised : raised[r] \in seen
    /\ \A rule \in seen : rule # RenameRule => Shown(rule)
    /\ phase \in {"expanding", "naming"} => Len(warnings) + suppressed = Len(raised)

ReportInv == ReportTypeOK /\ Marked /\ PlacesKept /\ Doomed /\ InPhase /\ Represented

-----------------------------------------------------------------------------
\* The program starts with an empty report.
LEMMA ReportInitEstablishes == ReportInit => ReportInv
  BY RuleAssumption
  DEF ReportInit, ReportInv, ReportTypeOK, Marked, PlacesKept, Doomed, InPhase, Represented, Shown, Rule

\* A sequence with one more element, place by place.
LEMMA AppendOf ==
  ASSUME NEW S, NEW s \in Seq(S), NEW e \in S, NEW t, t = Append(s, e)
  PROVE  /\ t \in Seq(S) /\ Len(s) \in Nat /\ Len(t) = Len(s) + 1
         /\ DOMAIN s = 1..Len(s) /\ DOMAIN t = 1..(Len(s) + 1)
         /\ \A k \in 1..Len(s) : t[k] = s[k]
         /\ t[Len(s) + 1] = e
  OBVIOUS

\* A warning of another rule is put at the end or counted: no place changes.
LEMMA WarnKeeps ==
  ASSUME ReportInv, NEW rule \in OtherRule, Warn(rule)
  PROVE  ReportInv'
<1> USE DEF ReportInv
<1>1. rule \in Rule /\ rule # RenameRule
  BY RuleAssumption DEF Rule
<1>2. /\ phase = "expanding" /\ unsaid = << >> /\ fates = << >>
      /\ pending' = pending /\ unsaid' = unsaid /\ phase' = phase /\ fates' = fates
      /\ raised' = Append(raised, rule)
  BY DEF Warn, Open, Raise, InPhase
<1>3. CASE Capped(rule)
  <2>1. warnings' = warnings /\ seen' = seen /\ suppressed' = suppressed + 1 /\ rule \in seen
    BY <1>3 DEF Warn, Raise, Capped
  <2>2. ReportTypeOK' /\ Marked' /\ PlacesKept' /\ Doomed' /\ InPhase'
    BY <1>1, <1>2, <2>1 DEF ReportTypeOK, Marked, PlacesKept, Doomed, InPhase
  <2>3. Represented'
    <3>1. /\ Len(raised') = Len(raised) + 1 /\ Len(raised) \in Nat /\ DOMAIN raised = 1..Len(raised)
          /\ \A r \in DOMAIN raised' : (r \in DOMAIN raised /\ raised'[r] = raised[r]) \/ raised'[r] = rule
      BY <1>1, <1>2, AppendOf DEF ReportTypeOK
    <3>2. Len(warnings) \in Nat /\ suppressed \in Nat
      BY DEF ReportTypeOK
    <3> QED BY <1>2, <2>1, <3>1, <3>2 DEF Represented, Shown
  <2> QED BY <2>2, <2>3
<1>4. CASE ~Capped(rule)
  <2> DEFINE w == [rule |-> rule, mark |-> 0, named |-> FALSE]
  <2>1. warnings' = Append(warnings, w) /\ seen' = seen \cup {rule} /\ suppressed' = suppressed
    BY <1>4 DEF Warn, Raise
  <2>2. w \in Warning /\ w.rule = rule /\ ~w.named
    BY <1>1 DEF Warning
  <2> HIDE DEF w
  <2>3. /\ Len(warnings') = Len(warnings) + 1
        /\ DOMAIN warnings' = 1..(Len(warnings) + 1) /\ DOMAIN warnings = 1..Len(warnings)
        /\ \A i \in DOMAIN warnings : warnings'[i] = warnings[i]
        /\ warnings'[Len(warnings) + 1] = w
    BY <2>1, <2>2 DEF ReportTypeOK
  <2>4. ReportTypeOK'
    BY <1>1, <1>2, <2>1, <2>2, <2>3 DEF ReportTypeOK
  <2>5. Marked'
    BY SMTT(30), <1>1, <1>2, <2>2, <2>3 DEF Marked, ReportTypeOK
  <2>6. PlacesKept' /\ Doomed' /\ InPhase'
    BY <1>2, <2>3 DEF PlacesKept, Doomed, InPhase, ReportTypeOK
  <2>7. Represented'
    <3>1. /\ Len(raised') = Len(raised) + 1 /\ Len(raised) \in Nat /\ DOMAIN raised = 1..Len(raised)
          /\ \A r \in DOMAIN raised' : (r \in DOMAIN raised /\ raised'[r] = raised[r]) \/ raised'[r] = rule
      BY <1>1, <1>2, AppendOf DEF ReportTypeOK
    <3>2. Len(warnings) \in Nat /\ suppressed \in Nat
      BY DEF ReportTypeOK
    <3>3. \A r \in seen' : r # RenameRule => Shown(r)'
      BY <2>1, <2>2, <2>3, <3>2 DEF Represented, Shown
    <3>4. Len(warnings') + suppressed' = Len(raised')
      <4>1. Len(warnings) + suppressed = Len(raised)
        BY <1>2 DEF Represented
      <4> QED BY <2>1, <2>3, <3>1, <3>2, <4>1
    <3>5. \A r \in DOMAIN raised' : raised'[r] \in seen'
      BY <2>1, <3>1 DEF Represented
    <3> QED BY <3>3, <3>4, <3>5 DEF Represented
  <2> QED BY <2>4, <2>5, <2>6, <2>7
<1> QED BY <1>3, <1>4

\* The place kept for a new placeholder is the end of the list, or nowhere.
LEMMA DeferRenameKeeps ==
  ASSUME ReportInv, DeferRename
  PROVE  ReportInv'
<1> USE DEF ReportInv
<1> DEFINE n == Len(pending)
<1>1. /\ phase = "expanding" /\ unsaid = << >> /\ fates = << >> /\ Len(fates) = 0 /\ n \in Nat
      /\ unsaid' = unsaid /\ phase' = phase /\ fates' = fates
      /\ raised' = Append(raised, RenameRule) /\ RenameRule \in Rule
  BY DEF DeferRename, Open, Raise, InPhase, Rule, ReportTypeOK
<1>2. CASE Capped(RenameRule)
  <2>1. warnings' = warnings /\ seen' = seen /\ suppressed' = suppressed + 1 /\ RenameRule \in seen
    BY <1>2 DEF DeferRename, Raise, Capped
  <2>2. pending' = Append(pending, 0)
    BY <2>1 DEF DeferRename, ReportTypeOK
  <2>3. /\ Len(pending') = n + 1 /\ DOMAIN pending' = 1..(n + 1) /\ DOMAIN pending = 1..n
        /\ \A k \in DOMAIN pending : pending'[k] = pending[k]
        /\ pending'[n + 1] = 0
    BY <2>2 DEF ReportTypeOK
  <2>4. ReportTypeOK'
    BY <1>1, <2>1, <2>2 DEF ReportTypeOK
  <2>5. Marked'
    BY <1>1, <2>1, <2>3 DEF Marked, ReportTypeOK, Warning
  <2>6. PlacesKept' /\ Doomed' /\ InPhase'
    BY <1>1, <2>1, <2>3 DEF PlacesKept, Doomed, InPhase
  <2>7. Represented'
    <3>1. /\ Len(raised') = Len(raised) + 1 /\ Len(raised) \in Nat /\ DOMAIN raised = 1..Len(raised)
          /\ \A r \in DOMAIN raised' : (r \in DOMAIN raised /\ raised'[r] = raised[r]) \/ raised'[r] = RenameRule
      BY <1>1, AppendOf DEF ReportTypeOK
    <3>2. Len(warnings) \in Nat /\ suppressed \in Nat
      BY DEF ReportTypeOK
    <3> QED BY <1>1, <2>1, <3>1, <3>2 DEF Represented, Shown
  <2> QED BY <2>4, <2>5, <2>6, <2>7
<1>3. CASE ~Capped(RenameRule)
  <2> DEFINE w == [rule |-> RenameRule, mark |-> n + 1, named |-> FALSE]
             m == Len(warnings)
  <2>1. warnings' = Append(warnings, w) /\ seen' = seen \cup {RenameRule} /\ suppressed' = suppressed
    BY <1>3 DEF DeferRename, Raise
  <2>2. w \in Warning /\ w.rule = RenameRule /\ w.mark = n + 1 /\ ~w.named
    BY <1>1 DEF Warning
  <2> HIDE DEF w
  <2>3. /\ m \in Nat /\ Len(warnings') = m + 1
        /\ DOMAIN warnings' = 1..(m + 1) /\ DOMAIN warnings = 1..m
        /\ \A i \in DOMAIN warnings : warnings'[i] = warnings[i]
        /\ warnings'[m + 1] = w
    BY <2>1, <2>2 DEF ReportTypeOK
  <2>4. pending' = Append(pending, m + 1)
    BY <2>3 DEF DeferRename
  <2>5. /\ Len(pending') = n + 1 /\ DOMAIN pending' = 1..(n + 1) /\ DOMAIN pending = 1..n
        /\ \A k \in DOMAIN pending : pending'[k] = pending[k] /\ pending[k] \in 0..m
        /\ pending'[n + 1] = m + 1
    BY <2>4 DEF ReportTypeOK
  <2>6. ReportTypeOK'
    BY <1>1, <2>1, <2>2, <2>3, <2>4 DEF ReportTypeOK
  <2>7. Marked'
    <3> SUFFICES ASSUME NEW i \in 1..(m + 1)
                 PROVE  IF warnings'[i].rule = RenameRule
                          THEN /\ warnings'[i].mark \in 1..(n + 1)
                               /\ pending'[warnings'[i].mark] = i
                          ELSE ~warnings'[i].named
      BY <1>1, <2>3, <2>5 DEF Marked, ReportTypeOK, Warning
    <3>1. CASE i = m + 1
      BY <1>1, <2>2, <2>3, <2>5, <3>1
    <3>2. CASE i # m + 1
      <4>1. i \in DOMAIN warnings /\ warnings'[i] = warnings[i]
        BY <2>3, <3>2
      <4>2. IF warnings[i].rule = RenameRule
              THEN warnings[i].mark \in 1..(0 + n) /\ (warnings[i].mark > 0 => pending[warnings[i].mark - 0] = i)
              ELSE ~warnings[i].named
        BY <1>1, <4>1 DEF Marked
      <4> QED BY <1>1, <2>5, <4>1, <4>2
    <3> QED BY <3>1, <3>2
  <2>8. PlacesKept'
    BY <1>1, <2>2, <2>3, <2>5 DEF PlacesKept
  <2>9. Doomed' /\ InPhase'
    BY <1>1 DEF Doomed, InPhase
  <2>10. Represented'
    <3>1. /\ Len(raised') = Len(raised) + 1 /\ Len(raised) \in Nat /\ DOMAIN raised = 1..Len(raised)
          /\ \A r \in DOMAIN raised' : (r \in DOMAIN raised /\ raised'[r] = raised[r]) \/ raised'[r] = RenameRule
      BY <1>1, AppendOf DEF ReportTypeOK
    <3>2. \A r \in seen' : r # RenameRule => Shown(r)'
      BY <2>1, <2>3 DEF Represented, Shown
    <3>3. Len(warnings) \in Nat /\ suppressed \in Nat
      BY DEF ReportTypeOK
    <3> QED BY <1>1, <2>1, <2>3, <3>1, <3>2, <3>3 DEF Represented
  <2> QED BY <2>6, <2>7, <2>8, <2>9, <2>10
<1> QED BY <1>2, <1>3

\* The tail of a sequence, place by place.
LEMMA TailOf ==
  ASSUME NEW S, NEW s \in Seq(S), s # << >>
  PROVE  /\ Tail(s) \in Seq(S) /\ Len(s) \in Nat \ {0} /\ Head(s) = s[1] /\ s[1] \in S
         /\ Len(Tail(s)) = Len(s) - 1 /\ DOMAIN Tail(s) = 1..(Len(s) - 1) /\ DOMAIN s = 1..Len(s)
         /\ \A k \in DOMAIN Tail(s) : k + 1 \in DOMAIN s /\ Tail(s)[k] = s[k + 1]
  OBVIOUS

\* A placeholder that came to nothing passes its place to the places to take out.
LEMMA UnsayKeeps ==
  ASSUME ReportInv, NEW fate \in Fate, Unsay(fate)
  PROVE  ReportInv'
<1> USE DEF ReportInv
<1> DEFINE n == Len(fates)
           m == Len(pending)
           p == pending[1]
<1>1. /\ phase = "naming" /\ pending # << >> /\ fate # "renamed"
      /\ pending' = Tail(pending) /\ fates' = Append(fates, fate)
      /\ warnings' = warnings /\ suppressed' = suppressed /\ seen' = seen /\ phase' = phase
      /\ raised' = raised
  BY DEF Unsay
<1>2. /\ m \in Nat \ {0} /\ p \in 0..Len(warnings) /\ Head(pending) = p
      /\ Len(pending') = m - 1 /\ DOMAIN pending' = 1..(m - 1) /\ DOMAIN pending = 1..m
      /\ \A k \in DOMAIN pending' : k + 1 \in DOMAIN pending /\ pending'[k] = pending[k + 1]
      /\ pending' \in Seq(0..Len(warnings))
  BY <1>1, TailOf DEF ReportTypeOK
<1>3. /\ n \in Nat /\ Len(fates') = n + 1 /\ DOMAIN fates = 1..n /\ DOMAIN fates' = 1..(n + 1)
      /\ \A k \in 1..n : fates'[k] = fates[k]
      /\ fates'[n + 1] = fate /\ fates' \in Seq(Fate)
  BY <1>1 DEF ReportTypeOK
<1>4. /\ \A k \in DOMAIN unsaid : k \in DOMAIN unsaid' /\ unsaid'[k] = unsaid[k]
      /\ \A k \in DOMAIN unsaid' : k \in DOMAIN unsaid \/ (k = Len(unsaid) + 1 /\ p # 0 /\ unsaid'[k] = p)
      /\ p # 0 => Len(unsaid) + 1 \in DOMAIN unsaid' /\ unsaid'[Len(unsaid) + 1] = p
      /\ unsaid' \in Seq(1..Len(warnings)) /\ DOMAIN unsaid = 1..Len(unsaid) /\ Len(unsaid) \in Nat
  <2>1. CASE p = 0
    <3>1. unsaid' = unsaid
      BY <1>2, <2>1 DEF Unsay
    <3> HIDE DEF p
    <3>2. unsaid \in Seq(1..Len(warnings))
      BY DEF ReportTypeOK
    <3> QED BY <2>1, <3>1, <3>2
  <2>2. CASE p # 0
    <3>1. unsaid' = Append(unsaid, p) /\ p \in 1..Len(warnings) /\ unsaid \in Seq(1..Len(warnings))
      BY <1>2, <2>2 DEF Unsay, ReportTypeOK
    <3> HIDE DEF p
    <3>2. /\ unsaid' \in Seq(1..Len(warnings)) /\ Len(unsaid) \in Nat
          /\ DOMAIN unsaid = 1..Len(unsaid) /\ DOMAIN unsaid' = 1..(Len(unsaid) + 1)
          /\ \A k \in 1..Len(unsaid) : unsaid'[k] = unsaid[k]
          /\ unsaid'[Len(unsaid) + 1] = p
      BY <3>1, AppendOf
    <3>3. \A k \in DOMAIN unsaid' : k \in DOMAIN unsaid \/ k = Len(unsaid) + 1
      BY <3>2
    <3> QED BY <2>2, <3>2, <3>3
  <2> QED BY <2>1, <2>2
<1>5. ReportTypeOK'
  BY <1>1, <1>2, <1>3, <1>4 DEF ReportTypeOK
<1>6. Marked'
  <2> SUFFICES ASSUME NEW i \in DOMAIN warnings, warnings[i].rule = RenameRule
               PROVE  /\ warnings[i].mark \in 1..(n + 1 + (m - 1))
                      /\ IF warnings[i].mark > n + 1
                           THEN pending'[warnings[i].mark - (n + 1)] = i
                           ELSE \/ warnings[i].named /\ fates'[warnings[i].mark] = "renamed"
                                \/ \E k \in DOMAIN unsaid' : unsaid'[k] = i
    BY <1>1, <1>2, <1>3 DEF Marked
  <2> DEFINE j == warnings[i].mark
  <2>1. j \in 1..(n + m)
    BY DEF Marked
  <2>2. CASE j <= n
    <3>1. \/ warnings[i].named /\ fates[j] = "renamed"
          \/ \E k \in DOMAIN unsaid : unsaid[k] = i
      BY <1>3, <2>1, <2>2 DEF Marked
    <3>2. fates'[j] = fates[j] /\ ~(j > n + 1) /\ j \in 1..(n + 1 + (m - 1))
      BY <1>2, <1>3, <2>1, <2>2
    <3>3. \A k \in DOMAIN unsaid : k \in DOMAIN unsaid' /\ unsaid'[k] = unsaid[k]
      BY <1>4
    <3> HIDE DEF j, p
    <3> QED BY <3>1, <3>2, <3>3 DEF j
  <2>3. CASE j = n + 1
    <3>1. p = i
      BY SMTT(30), <1>2, <1>3, <2>1, <2>3 DEF Marked
    <3>2. p # 0
      BY <3>1 DEF ReportTypeOK
    <3> QED BY <1>2, <1>3, <1>4, <2>1, <2>3, <3>1, <3>2
  <2>4. CASE j > n + 1
    <3>1. pending[j - n] = i
      BY <1>3, <2>1, <2>4 DEF Marked
    <3>2. j - (n + 1) \in DOMAIN pending'
      BY <1>2, <1>3, <2>1, <2>4
    <3>3. pending'[j - (n + 1)] = pending[(j - (n + 1)) + 1] /\ (j - (n + 1)) + 1 = j - n
      BY SMTT(30), <1>2, <1>3, <2>1, <3>2
    <3> QED BY <1>2, <1>3, <2>1, <2>4, <3>1, <3>3
  <2> QED BY <1>2, <1>3, <2>1, <2>2, <2>3, <2>4
<1>7. PlacesKept'
  <2>1. \A k \in DOMAIN pending' : pending'[k] # 0 =>
          warnings[pending'[k]].rule = RenameRule /\ warnings[pending'[k]].mark = n + (k + 1)
    BY <1>2 DEF PlacesKept
  <2>2. \A k, l \in DOMAIN pending' : k < l /\ pending'[k] # 0 /\ pending'[l] # 0 => pending'[k] < pending'[l]
    <3> SUFFICES ASSUME NEW k \in DOMAIN pending', NEW l \in DOMAIN pending',
                        k < l, pending'[k] # 0, pending'[l] # 0
                 PROVE  pending'[k] < pending'[l]
      OBVIOUS
    <3>1. /\ k + 1 \in DOMAIN pending /\ l + 1 \in DOMAIN pending /\ k + 1 < l + 1
          /\ pending'[k] = pending[k + 1] /\ pending'[l] = pending[l + 1]
      BY <1>2
    <3> QED BY <3>1 DEF PlacesKept
  <2> QED BY <1>1, <1>2, <1>3, <2>1, <2>2 DEF PlacesKept
<1>8. Doomed'
  <2>1. p # 0 => warnings[p].rule = RenameRule
    BY <1>2 DEF PlacesKept
  <2>2. \A k \in DOMAIN unsaid' : warnings'[unsaid'[k]].rule = RenameRule
    BY <1>1, <1>4, <2>1 DEF Doomed
  <2>3. \A k, l \in DOMAIN unsaid' : k < l => unsaid'[k] < unsaid'[l]
    <3>1. p # 0 => \A k \in DOMAIN unsaid : unsaid[k] < p
      BY <1>2 DEF Doomed
    <3>2. \A k, l \in DOMAIN unsaid : k < l => unsaid[k] < unsaid[l]
      BY DEF Doomed
    <3> HIDE DEF p
    <3>3. ASSUME NEW k \in DOMAIN unsaid', NEW l \in DOMAIN unsaid', k < l
          PROVE  unsaid'[k] < unsaid'[l]
      <4>1. CASE l \in DOMAIN unsaid
        <5>1. k \in DOMAIN unsaid
          BY <1>4, <3>3, <4>1
        <5> QED BY <1>4, <3>2, <3>3, <4>1, <5>1
      <4>2. CASE l \notin DOMAIN unsaid
        <5>1. l = Len(unsaid) + 1 /\ p # 0 /\ unsaid'[l] = p
          BY <1>4, <4>2
        <5>2. k \in DOMAIN unsaid
          BY <1>4, <3>3, <5>1
        <5> QED BY <1>4, <3>1, <5>1, <5>2
      <4> QED BY <4>1, <4>2
    <3> QED BY <3>3
  <2>4. \A k \in DOMAIN unsaid', l \in DOMAIN pending' : pending'[l] # 0 => unsaid'[k] < pending'[l]
    <3> SUFFICES ASSUME NEW k \in DOMAIN unsaid', NEW l \in DOMAIN pending', pending'[l] # 0
                 PROVE  unsaid'[k] < pending'[l]
      OBVIOUS
    <3>1. l + 1 \in DOMAIN pending /\ pending'[l] = pending[l + 1] /\ 1 \in DOMAIN pending /\ 1 < l + 1
      BY <1>2
    <3>2. p # 0 => p < pending'[l]
      BY <3>1 DEF PlacesKept
    <3>3. \A q \in DOMAIN unsaid : unsaid[q] < pending'[l]
      BY <3>1 DEF Doomed
    <3> QED BY <1>4, <3>2, <3>3
  <2> QED BY <2>2, <2>3, <2>4 DEF Doomed
<1>9. InPhase' /\ Represented'
  BY <1>1 DEF InPhase, Represented, Shown
<1> QED BY <1>5, <1>6, <1>7, <1>8, <1>9

\* A name given changes the warning at the place kept, and no other.
LEMMA NameRenameKeeps ==
  ASSUME ReportInv, NameRename
  PROVE  ReportInv'
<1> USE DEF ReportInv
<1> DEFINE n == Len(fates)
           m == Len(pending)
           p == pending[1]
<1>1. /\ phase = "naming" /\ pending # << >>
      /\ pending' = Tail(pending) /\ fates' = Append(fates, "renamed")
      /\ suppressed' = suppressed /\ seen' = seen /\ phase' = phase
      /\ raised' = raised /\ unsaid' = unsaid
  BY DEF NameRename
<1>2. /\ m \in Nat \ {0} /\ p \in 0..Len(warnings) /\ Head(pending) = p
      /\ Len(pending') = m - 1 /\ DOMAIN pending' = 1..(m - 1) /\ DOMAIN pending = 1..m
      /\ \A k \in DOMAIN pending' : k + 1 \in DOMAIN pending /\ pending'[k] = pending[k + 1]
      /\ pending' \in Seq(0..Len(warnings))
  BY <1>1, TailOf DEF ReportTypeOK
<1>3. /\ n \in Nat /\ Len(fates') = n + 1 /\ DOMAIN fates = 1..n /\ DOMAIN fates' = 1..(n + 1)
      /\ \A k \in 1..n : fates'[k] = fates[k]
      /\ fates'[n + 1] = "renamed" /\ fates' \in Seq(Fate)
  BY <1>1, AppendOf DEF ReportTypeOK, Fate
<1>4. /\ warnings' \in Seq(Warning) /\ Len(warnings') = Len(warnings) /\ DOMAIN warnings' = DOMAIN warnings
      /\ \A i \in DOMAIN warnings : /\ warnings'[i].rule = warnings[i].rule
                                    /\ warnings'[i].mark = warnings[i].mark
                                    /\ warnings'[i].named = (warnings[i].named \/ i = p)
  <2>1. CASE p = 0
    <3>1. warnings' = warnings
      BY <1>2, <2>1 DEF NameRename
    <3>2. \A i \in DOMAIN warnings : i # p
      BY <2>1 DEF ReportTypeOK
    <3>3. \A i \in DOMAIN warnings : warnings[i] \in Warning
      BY DEF ReportTypeOK
    <3> QED BY <3>1, <3>2, <3>3 DEF ReportTypeOK, Warning
  <2>2. CASE p # 0
    <3>1. warnings' = [warnings EXCEPT ![p].named = TRUE] /\ p \in DOMAIN warnings
      BY <1>2, <2>2 DEF NameRename, ReportTypeOK
    <3>2. \A i \in DOMAIN warnings : warnings[i] \in Warning
      BY DEF ReportTypeOK
    <3> HIDE DEF p
    <3>3. /\ DOMAIN warnings' = DOMAIN warnings
          /\ \A i \in DOMAIN warnings : i # p => warnings'[i] = warnings[i]
          /\ warnings'[p] = [warnings[p] EXCEPT !.named = TRUE]
      BY <3>1
    <3>4. /\ warnings'[p].rule = warnings[p].rule /\ warnings'[p].mark = warnings[p].mark
          /\ warnings'[p].named = TRUE /\ warnings'[p] \in Warning
      BY <3>1, <3>2, <3>3 DEF Warning
    <3>5. \A i \in DOMAIN warnings : warnings'[i] \in Warning
      BY <3>2, <3>3, <3>4
    <3>6. warnings' \in Seq(Warning) /\ Len(warnings') = Len(warnings)
      <4>1. DOMAIN warnings' = 1..Len(warnings) /\ Len(warnings) \in Nat
        BY <3>3 DEF ReportTypeOK
      <4>2. warnings' = [i \in 1..Len(warnings) |-> warnings'[i]]
        BY <3>1, <4>1 DEF ReportTypeOK
      <4> HIDE DEF ReportTypeOK
      <4> DEFINE f == warnings'
      <4> HIDE DEF f
      <4>3. f = [i \in 1..Len(warnings) |-> f[i]] /\ \A i \in 1..Len(warnings) : f[i] \in Warning
        BY <3>3, <3>5, <4>1, <4>2 DEF f
      <4>4. f \in Seq(Warning) /\ Len(f) = Len(warnings)
        BY <4>1, <4>3
      <4> QED BY <4>4 DEF f
    <3>7. \A i \in DOMAIN warnings : warnings[i].named \in BOOLEAN
      BY <3>2 DEF Warning
    <3> QED BY <3>3, <3>4, <3>6, <3>7
  <2> QED BY <2>1, <2>2
<1>5. ReportTypeOK'
  BY <1>1, <1>2, <1>3, <1>4 DEF ReportTypeOK
<1>6. Marked'
  <2>1. ASSUME NEW i \in DOMAIN warnings, warnings[i].rule # RenameRule
        PROVE  ~warnings[i].named /\ i # p
    <3>1. ~warnings[i].named
      BY <2>1 DEF Marked
    <3>2. p # 0 => warnings[p].rule = RenameRule
      BY <1>2 DEF PlacesKept
    <3>3. i # 0
      BY DEF ReportTypeOK
    <3> QED BY <2>1, <3>1, <3>2, <3>3
  <2>2. ASSUME NEW i \in DOMAIN warnings, warnings[i].rule = RenameRule
        PROVE  /\ warnings[i].mark \in 1..(n + 1 + (m - 1))
               /\ IF warnings[i].mark > n + 1
                    THEN pending'[warnings[i].mark - (n + 1)] = i
                    ELSE \/ warnings'[i].named /\ fates'[warnings[i].mark] = "renamed"
                         \/ \E k \in DOMAIN unsaid : unsaid[k] = i
    <3> DEFINE j == warnings[i].mark
    <3>1. j \in 1..(n + m)
      BY <2>2 DEF Marked
    <3>2. CASE j <= n
      <4>1. \/ warnings[i].named /\ fates[j] = "renamed"
            \/ \E k \in DOMAIN unsaid : unsaid[k] = i
        BY <1>3, <2>2, <3>1, <3>2 DEF Marked
      <4>2. warnings'[i].named = (warnings[i].named \/ i = p) /\ fates'[j] = fates[j]
        BY <1>3, <1>4, <3>1, <3>2
      <4>3. ~(j > n + 1) /\ j \in 1..(n + 1 + (m - 1))
        BY <1>2, <1>3, <3>1, <3>2
      <4> HIDE DEF j, p
      <4>4. warnings[i].named => warnings'[i].named
        BY <4>2
      <4> QED BY <4>1, <4>2, <4>3, <4>4 DEF j
    <3>3. CASE j = n + 1
      <4>1. p = i
        BY SMTT(30), <1>2, <1>3, <2>2, <3>1, <3>3 DEF Marked
      <4>2. fates'[j] = "renamed" /\ ~(j > n + 1) /\ j \in 1..(n + 1 + (m - 1))
        BY <1>2, <1>3, <3>3
      <4>3. warnings'[i].named = (warnings[i].named \/ i = p)
        BY <1>4
      <4> HIDE DEF j, p
      <4>4. warnings'[i].named
        BY <4>1, <4>3
      <4> QED BY <4>2, <4>4 DEF j
    <3>4. CASE j > n + 1
      <4>1. pending[j - n] = i
        BY <1>3, <2>2, <3>1, <3>4 DEF Marked
      <4>2. j - (n + 1) \in DOMAIN pending'
        BY SMTT(30), <1>2, <1>3, <3>1, <3>4
      <4>3. pending'[j - (n + 1)] = pending[(j - (n + 1)) + 1] /\ (j - (n + 1)) + 1 = j - n
        BY SMTT(30), <1>2, <1>3, <3>1, <4>2
      <4> QED BY <1>2, <1>3, <3>1, <3>4, <4>1, <4>3
    <3> QED BY <1>2, <1>3, <3>1, <3>2, <3>3, <3>4
  <2> HIDE DEF p
  <2>3. ASSUME NEW i \in DOMAIN warnings', warnings'[i].rule # RenameRule
        PROVE  ~warnings'[i].named
    BY <1>4, <2>1, <2>3
  <2>4. unsaid' = unsaid
    BY <1>1
  <2>5. \A i \in DOMAIN warnings :
          DOMAIN warnings' = DOMAIN warnings
          /\ warnings'[i].rule = warnings[i].rule /\ warnings'[i].mark = warnings[i].mark
    BY <1>4
  <2>6. Len(fates') + Len(pending') = n + 1 + (m - 1) /\ Len(fates') = n + 1
    BY <1>2, <1>3
  <2>7. ASSUME NEW i \in DOMAIN warnings', warnings'[i].rule = RenameRule
        PROVE  /\ warnings'[i].mark \in 1..(Len(fates') + Len(pending'))
               /\ IF warnings'[i].mark > Len(fates')
                    THEN pending'[warnings'[i].mark - Len(fates')] = i
                    ELSE \/ warnings'[i].named /\ fates'[warnings'[i].mark] = "renamed"
                         \/ \E k \in DOMAIN unsaid' : unsaid'[k] = i
    BY <1>4, <2>2, <2>4, <2>5, <2>6, <2>7
  <2> QED BY <2>3, <2>7 DEF Marked
<1>7. PlacesKept'
  <2>1. \A k \in DOMAIN pending' : pending'[k] # 0 =>
          warnings[pending'[k]].rule = RenameRule /\ warnings[pending'[k]].mark = n + (k + 1)
    BY <1>2 DEF PlacesKept
  <2>2. \A k \in DOMAIN pending' : pending'[k] # 0 => pending'[k] \in DOMAIN warnings
    BY SMTT(30), <1>2 DEF ReportTypeOK
  <2>3. \A k, l \in DOMAIN pending' : k < l /\ pending'[k] # 0 /\ pending'[l] # 0 => pending'[k] < pending'[l]
    <3> SUFFICES ASSUME NEW k \in DOMAIN pending', NEW l \in DOMAIN pending',
                        k < l, pending'[k] # 0, pending'[l] # 0
                 PROVE  pending'[k] < pending'[l]
      OBVIOUS
    <3>1. /\ k + 1 \in DOMAIN pending /\ l + 1 \in DOMAIN pending /\ k + 1 < l + 1
          /\ pending'[k] = pending[k + 1] /\ pending'[l] = pending[l + 1]
      BY <1>2
    <3> QED BY <3>1 DEF PlacesKept
  <2>4. \A k \in DOMAIN pending' : pending'[k] # 0 =>
          warnings'[pending'[k]].rule = RenameRule /\ warnings'[pending'[k]].mark = Len(fates') + k
    <3>1. \A k \in DOMAIN pending' : (n + 1) + k = n + (k + 1)
      BY <1>2, <1>3
    <3> QED BY <1>3, <1>4, <2>1, <2>2, <3>1
  <2> QED BY <2>3, <2>4 DEF PlacesKept
<1>8. Doomed'
  <2>1. \A k \in DOMAIN unsaid : unsaid[k] \in DOMAIN warnings
    BY DEF ReportTypeOK
  <2> QED BY ZenonT(50), <1>1, <1>2, <1>4, <2>1 DEF Doomed
<1>9. InPhase' /\ Represented'
  BY SMTT(30), <1>1, <1>4 DEF InPhase, Represented, Shown
<1> QED BY <1>5, <1>6, <1>7, <1>8, <1>9

\* A sequence without one place: what was before stays, what was after moves down.
LEMMA WithoutOf ==
  ASSUME NEW S, NEW s \in Seq(S), NEW i \in 1..Len(s)
  PROVE  /\ WithoutPlace(s, i) \in Seq(S) /\ Len(s) \in Nat
         /\ Len(WithoutPlace(s, i)) = Len(s) - 1
         /\ DOMAIN WithoutPlace(s, i) = 1..(Len(s) - 1) /\ DOMAIN s = 1..Len(s)
         /\ \A j \in 1..(Len(s) - 1) : WithoutPlace(s, i)[j] = IF j < i THEN s[j] ELSE s[j + 1]
<1> DEFINE a == SubSeq(s, 1, i - 1)
           b == SubSeq(s, i + 1, Len(s))
<1>1. a \in Seq(S) /\ Len(a) = i - 1 /\ \A j \in 1..(i - 1) : a[j] = s[j]
  OBVIOUS
<1>2. b \in Seq(S) /\ Len(b) = Len(s) - i /\ \A j \in 1..(Len(s) - i) : b[j] = s[j + i]
  OBVIOUS
<1>3. WithoutPlace(s, i) = a \o b
  BY DEF WithoutPlace
<1> HIDE DEF a, b
<1>4. Len(s) \in Nat /\ i \in Nat /\ i >= 1 /\ i <= Len(s) /\ DOMAIN s = 1..Len(s)
  OBVIOUS
<1>5. /\ a \o b \in Seq(S) /\ Len(a \o b) = Len(a) + Len(b)
      /\ \A j \in 1..(Len(a) + Len(b)) : (a \o b)[j] = IF j <= Len(a) THEN a[j] ELSE b[j - Len(a)]
  <2>1. a \in Seq(S) /\ b \in Seq(S)
    BY <1>1, <1>2
  <2> QED BY <2>1, ConcatProperties
<1>6. Len(a) + Len(b) = Len(s) - 1
  BY <1>1, <1>2, <1>4
<1>7. DOMAIN (a \o b) = 1..(Len(s) - 1)
  BY <1>5, <1>6
<1>8. ASSUME NEW j \in 1..(Len(s) - 1)
      PROVE  (a \o b)[j] = IF j < i THEN s[j] ELSE s[j + 1]
  <2>1. CASE j < i
    BY <1>1, <1>4, <1>5, <1>6, <2>1
  <2>2. CASE ~(j < i)
    <3>1. j - (i - 1) \in 1..(Len(s) - i) /\ (j - (i - 1)) + i = j + 1 /\ ~(j <= i - 1)
      BY <1>4, <2>2
    <3> QED BY <1>1, <1>2, <1>5, <1>6, <2>2, <3>1
  <2> QED BY <2>1, <2>2
<1> QED BY <1>3, <1>4, <1>5, <1>6, <1>7, <1>8

\* The last place to be taken out is above every other, so the others still hold.
LEMMA TakeOutKeeps ==
  ASSUME ReportInv, TakeOut
  PROVE  ReportInv'
<1> USE DEF ReportInv
<1> DEFINE n == Len(fates)
           u == Len(unsaid)
           g == unsaid[u]
           m == Len(warnings)
<1>1. /\ phase = "removing" /\ pending = << >> /\ unsaid # << >>
      /\ unsaid' = SubSeq(unsaid, 1, u - 1) /\ warnings' = WithoutPlace(warnings, g)
      /\ suppressed' = suppressed /\ seen' = seen /\ phase' = phase /\ pending' = pending
      /\ raised' = raised /\ fates' = fates
  BY DEF TakeOut, InPhase
<1>2. u \in Nat \ {0} /\ g \in 1..m /\ DOMAIN unsaid = 1..u
  BY <1>1 DEF ReportTypeOK
<1>3. /\ m \in Nat /\ warnings' \in Seq(Warning) /\ Len(warnings') = m - 1
      /\ DOMAIN warnings' = 1..(m - 1) /\ DOMAIN warnings = 1..m
      /\ \A j \in 1..(m - 1) : warnings'[j] = IF j < g THEN warnings[j] ELSE warnings[j + 1]
  BY <1>1, <1>2, WithoutOf DEF ReportTypeOK
<1>4. /\ Len(unsaid') = u - 1 /\ DOMAIN unsaid' = 1..(u - 1)
      /\ \A k \in 1..(u - 1) : unsaid'[k] = unsaid[k] /\ unsaid[k] < g /\ unsaid[k] \in 1..m
  <2>1. \A k \in 1..(u - 1) : unsaid[k] < g /\ unsaid[k] \in 1..m
    <3>1. \A k \in 1..(u - 1) : k \in DOMAIN unsaid /\ u \in DOMAIN unsaid /\ k < u
      BY <1>2
    <3>2. \A k \in DOMAIN unsaid : unsaid[k] \in 1..m
      BY DEF ReportTypeOK
    <3> QED BY <3>1, <3>2 DEF Doomed
  <2>2. unsaid \in Seq(1..m)
    BY DEF ReportTypeOK
  <2> QED BY <1>1, <1>2, <2>1, <2>2
<1>5. ReportTypeOK'
  <2>1. unsaid' \in Seq(1..(m - 1))
    <3>1. \A k \in 1..(u - 1) : unsaid'[k] \in 1..(m - 1)
      BY <1>2, <1>3, <1>4
    <3>2. unsaid' = [k \in 1..(u - 1) |-> unsaid'[k]]
      <4>1. unsaid' \in Seq(1..m)
        BY <1>1, <1>2 DEF ReportTypeOK
      <4> QED BY <1>4, <4>1
    <3> QED BY <1>2, <3>1, <3>2
  <2>2. pending' \in Seq(0..Len(warnings'))
    BY <1>1
  <2> QED BY <1>1, <1>3, <2>1, <2>2 DEF ReportTypeOK
<1>6. Marked'
  <2> SUFFICES ASSUME NEW j \in 1..(m - 1)
               PROVE  IF warnings'[j].rule = RenameRule
                        THEN /\ warnings'[j].mark \in 1..(n + 0)
                             /\ \/ warnings'[j].named /\ fates[warnings'[j].mark] = "renamed"
                                \/ \E k \in DOMAIN unsaid' : unsaid'[k] = j
                        ELSE ~warnings'[j].named
    <3>1. DOMAIN warnings' = 1..(m - 1) /\ fates' = fates /\ Len(pending') = 0 /\ n \in Nat
      BY <1>1, <1>3 DEF ReportTypeOK
    <3>2. \A x : x \in 1..(n + 0) => ~(x > n)
      BY <3>1
    <3> QED BY <3>1, <3>2 DEF Marked
  <2> DEFINE i == IF j < g THEN j ELSE j + 1
  <2>1. i \in DOMAIN warnings /\ warnings'[j] = warnings[i] /\ i # g
    BY <1>2, <1>3
  <2>2. n \in Nat /\ Len(pending) = 0
    BY <1>1 DEF ReportTypeOK
  <2>3. ASSUME NEW k \in DOMAIN unsaid, unsaid[k] = i
        PROVE  k \in DOMAIN unsaid' /\ unsaid'[k] = j
    <3>1. k # u
      BY <2>1, <2>3
    <3>2. k \in 1..(u - 1) /\ unsaid[k] < g
      BY <1>2, <1>4, <3>1
    <3> QED BY <1>2, <1>3, <1>4, <2>3, <3>2
  <2> HIDE DEF i
  <2>4. IF warnings[i].rule = RenameRule
          THEN /\ warnings[i].mark \in 1..(n + 0)
               /\ \/ warnings[i].named /\ fates[warnings[i].mark] = "renamed"
                  \/ \E k \in DOMAIN unsaid : unsaid[k] = i
          ELSE ~warnings[i].named
    BY <2>1, <2>2 DEF Marked
  <2> QED BY <2>1, <2>3, <2>4
<1>7. PlacesKept' /\ InPhase'
  BY <1>1 DEF PlacesKept, InPhase
<1>8. Doomed'
  <2>1. \A k \in 1..(u - 1) : warnings'[unsaid[k]] = warnings[unsaid[k]]
    BY <1>2, <1>3, <1>4
  <2>2. \A k \in 1..(u - 1) : k \in DOMAIN unsaid
    BY <1>2
  <2>3. \A k \in DOMAIN unsaid' : warnings'[unsaid'[k]].rule = RenameRule
    BY <1>4, <2>1, <2>2 DEF Doomed
  <2>4. \A k, l \in DOMAIN unsaid' : k < l => unsaid'[k] < unsaid'[l]
    BY <1>4, <2>2 DEF Doomed
  <2> QED BY <1>1, <2>3, <2>4 DEF Doomed
<1>9. Represented'
  <2>1. warnings[g].rule = RenameRule
    BY <1>2 DEF Doomed
  <2>2. ASSUME NEW r \in seen, r # RenameRule
        PROVE  Shown(r)'
    <3>1. PICK i \in DOMAIN warnings : warnings[i].rule = r
      BY <2>2 DEF Represented, Shown
    <3>2. i # g
      BY <2>1, <2>2, <3>1
    <3>3. CASE i < g
      <4>1. i \in DOMAIN warnings' /\ warnings'[i] = warnings[i]
        BY <1>2, <1>3, <3>3
      <4> QED BY <3>1, <4>1 DEF Shown
    <3>4. CASE i > g
      <4>1. i - 1 \in DOMAIN warnings' /\ warnings'[i - 1] = warnings[(i - 1) + 1] /\ (i - 1) + 1 = i
        BY <1>2, <1>3, <3>4
      <4> QED BY <3>1, <4>1 DEF Shown
    <3> QED BY <1>2, <1>3, <3>2, <3>3, <3>4
  <2> QED BY <1>1, <2>2 DEF Represented
<1> QED BY <1>5, <1>6, <1>7, <1>8, <1>9

\* The phases change nothing else.
LEMMA TurnKeeps ==
  ASSUME ReportInv, FinishRenames \/ StartRemoving \/ FinishReport
  PROVE  ReportInv'
<1>1. /\ warnings' = warnings /\ suppressed' = suppressed /\ seen' = seen /\ pending' = pending
      /\ unsaid' = unsaid /\ raised' = raised /\ fates' = fates
  BY DEF FinishRenames, StartRemoving, FinishReport
<1>2. ReportTypeOK' /\ Marked' /\ PlacesKept' /\ Doomed'
  BY <1>1 DEF ReportInv, ReportTypeOK, Marked, PlacesKept, Doomed, FinishRenames, StartRemoving, FinishReport
<1>3. InPhase' /\ Represented'
  BY <1>1 DEF ReportInv, InPhase, Represented, Shown, FinishRenames, StartRemoving, FinishReport
<1> QED BY <1>2, <1>3 DEF ReportInv

LEMMA ReportNextKeeps == ReportInv /\ [ReportNext]_reportVars => ReportInv'
<1> SUFFICES ASSUME ReportInv, [ReportNext]_reportVars
             PROVE  ReportInv'
  OBVIOUS
<1>1. CASE UNCHANGED reportVars
  BY <1>1 DEF reportVars, ReportInv, ReportTypeOK, Marked, PlacesKept, Doomed, InPhase, Represented, Shown
<1>2. CASE ReportNext
  <2>1. ASSUME NEW rule \in OtherRule, Warn(rule) PROVE ReportInv'
    BY <2>1, WarnKeeps
  <2>2. ASSUME NEW fate \in Fate, Unsay(fate) PROVE ReportInv'
    BY <2>2, UnsayKeeps
  <2>3. CASE Reported
    BY <1>1, <2>3 DEF Reported
  <2> QED
    BY <1>2, <2>1, <2>2, <2>3, DeferRenameKeeps, NameRenameKeeps, TakeOutKeeps, TurnKeeps DEF ReportNext
<1> QED BY <1>1, <1>2

THEOREM ReportInvariance == ReportSpec => []ReportInv
  BY ReportInitEstablishes, ReportNextKeeps, PTL DEF ReportSpec

-----------------------------------------------------------------------------
\* Every variable keeps its type: a place kept for a placeholder is a place in the
\* list, also while the list is taken apart.
THEOREM ReportTypeCorrect == ReportSpec => []ReportTypeOK
<1>1. ReportInv => ReportTypeOK
  BY DEF ReportInv
<1> QED BY <1>1, ReportInvariance, PTL

\* The rename warnings left at the end are those of the renames that took place, each
\* with its name in it.
THEOREM RenamesToldAsNamed == ReportSpec => []ToldAsNamed
<1>1. ReportInv => ToldAsNamed
  <2> SUFFICES ASSUME ReportInv, phase = "done", NEW i \in DOMAIN warnings
               PROVE  IF warnings[i].rule = RenameRule
                        THEN /\ warnings[i].named
                             /\ warnings[i].mark \in DOMAIN fates /\ fates[warnings[i].mark] = "renamed"
                        ELSE ~warnings[i].named
    BY DEF ToldAsNamed
  <2>1. pending = << >> /\ unsaid = << >> /\ DOMAIN fates = 1..Len(fates) /\ Len(fates) \in Nat
    BY DEF ReportInv, InPhase, ReportTypeOK
  <2> QED BY <2>1 DEF ReportInv, Marked
<1> QED BY <1>1, ReportInvariance, PTL

\* Every other rule that was raised is still shown, whatever the cap and whatever was
\* taken back; until then every warning is shown or counted.
THEOREM OtherRulesSurvive == ReportSpec => []OthersSurvive
<1>1. ReportInv => OthersSurvive
  BY DEF ReportInv, Represented, Shown, OthersSurvive
<1> QED BY <1>1, ReportInvariance, PTL

=============================================================================
