-------------------------- MODULE RenderBudget_proofs --------------------------
(***************************************************************************)
(* What a render publishes stays within its budget, for any number of      *)
(* nested renders and any sizes.                                           *)
(*                                                                         *)
(* The argument is about one render at a time: Within below says what      *)
(* holds of what it did, what is left to it and its labels' costs.  A      *)
(* step of the running render keeps it for that render, and Begin and End  *)
(* move what is left between the running variables and the guard that      *)
(* keeps it, so it holds of every render on the stack.                     *)
(***************************************************************************)
EXTENDS RenderBudget, SequenceTheorems, TLAPS

\* A label measured at nothing has no text, and its expansion no longer fits.
Measured(left, costs) ==
    \A t \in Target : costs[t] = 0 =>
      TextOf[t] = 0 /\ (ExpansionOf[t] = 0 \/ left = 0)

\* index is what is left of the index budget, found what it was when the render began.
Within(did, left, costs, index, found) ==
    /\ left \in Nat
    /\ did.published + left <= BudgetFor(did.arrived)
    /\ did.renderer = "html" => index \in Nat /\ did.listed + index <= BudgetFor(did.arrived)
    /\ did.renderer # "html" => index = found
    /\ \A t \in did.refused : costs[t] # None /\ costs[t] > left
    /\ did.state = "spent" => left = 0
    /\ Measured(left, costs)

IInv ==
    /\ TypeOK
    /\ \A i \in 1..Depth : Within(ledger[i], LeftOf(i), CostsOf(i), EntriesOf(i), guards[i].entries)

-----------------------------------------------------------------------------
\* What is left only shrinks, and what is spent was there.
LEMMA SpendNat ==
    ASSUME NEW left \in Nat, NEW cost \in Nat
    PROVE  /\ Spend(left, cost) \in Nat
           /\ Spend(left, cost) <= left
           /\ Fits(left, cost) => Spend(left, cost) = left - cost
           /\ ~Fits(left, cost) => Spend(left, cost) = 0
BY DEF Spend, Fits

\* A budget is a number of bytes.
LEMMA BudgetNat ==
    ASSUME NEW length \in Nat
    PROVE  BudgetFor(length) \in Nat
BY DEF BudgetFor, Base, Factor

\* The length a decoded tree names never buys more than the payload does.
LEMMA NamedLength ==
    ASSUME NEW source \in Nat, NEW payload \in Nat
    PROVE  /\ ExpansionLen(source, payload) \in Nat
           /\ BudgetFor(ExpansionLen(source, payload))
                <= BudgetFor(IF payload = 0 THEN source ELSE payload)
BY DEF ExpansionLen, BudgetFor, Base, Factor

\* There is something to spend from, inside a render or out of one.
LEMMA LeftNat == TypeOK => Left \in Nat
BY DEF TypeOK, Left, Left0, None, Base

\* Outside a render there is nothing to keep.
LEMMA InitIInv == Init => IInv
BY DEF Init, IInv, TypeOK, NoCosts, None, Left0, Depth

\* A step of the running render that keeps Within for it keeps it for all.
LEMMA RunningStep ==
    ASSUME IInv, TypeOK', UNCHANGED guards,
           Len(ledger') = Len(ledger),
           \A i \in 1..(Depth - 1) : ledger'[i] = ledger[i],
           Depth > 0 => Within(ledger'[Depth], remaining', labelCost', entries', guards[Depth].entries)
    PROVE  IInv'
<1> SUFFICES ASSUME NEW i \in 1..Depth
             PROVE  Within(ledger'[i], LeftOf(i)', CostsOf(i)', EntriesOf(i)', guards'[i].entries)
  BY DEF IInv, Depth
<1>0. Depth \in Nat
  BY DEF IInv, TypeOK, Depth
<1>1. CASE i = Depth
  BY <1>0, <1>1 DEF LeftOf, CostsOf, EntriesOf, Depth
<1>2. CASE i # Depth
  <2>1. i \in 1..(Depth - 1)
    BY <1>0, <1>2
  <2>2. /\ LeftOf(i)' = LeftOf(i) /\ CostsOf(i)' = CostsOf(i)
        /\ EntriesOf(i)' = EntriesOf(i)
    BY <1>2 DEF LeftOf, CostsOf, EntriesOf, Depth
  <2>3. QED  BY <2>1, <2>2 DEF IInv
<1>3. QED  BY <1>1, <1>2

-----------------------------------------------------------------------------
\* The running render's record is updated in place.
LEMMA RecordStep ==
    ASSUME IInv, NEW p \in Nat, NEW r \in SUBSET Target, NEW e \in SUBSET Target,
           NEW s \in {"open", "spent"}, Record(p, r, e, s)
    PROVE  /\ ledger' \in Seq(Ledger) /\ Len(ledger') = Len(ledger)
           /\ \A i \in 1..(Depth - 1) : ledger'[i] = ledger[i]
           /\ Depth > 0 =>
                /\ ledger'[Depth].arrived = ledger[Depth].arrived
                /\ ledger'[Depth].renderer = ledger[Depth].renderer
                /\ ledger'[Depth].listed = ledger[Depth].listed
                /\ ledger'[Depth].published = ledger[Depth].published + p
                /\ ledger'[Depth].refused = ledger[Depth].refused \cup r
                /\ ledger'[Depth].state = "spent" => ledger[Depth].state = "spent" \/ s = "spent"
<1>1. /\ ledger \in Seq(Ledger) /\ Len(ledger) = Depth /\ Depth \in Nat
  BY DEF IInv, TypeOK, Depth
<1>2. CASE ledger = << >>
  BY <1>1, <1>2 DEF Record
<1>3. CASE ledger # << >>
  <2>1. Depth \in 1..Len(ledger) /\ ledger[Depth] \in Ledger
    BY <1>1, <1>3
  <2>2. PICK did \in Ledger : did = ledger[Depth]
    BY <2>1
  <2>3. PICK new : new = Adding(did, p, r, e, s)
    OBVIOUS
  <2>4. /\ new \in Ledger
        /\ new.arrived = did.arrived /\ new.listed = did.listed
        /\ new.renderer = did.renderer
        /\ new.published = did.published + p
        /\ new.refused = did.refused \cup r
        /\ new.state = "spent" => did.state = "spent" \/ s = "spent"
    <3>1. /\ did.refused \cup r \in SUBSET Target /\ did.empty \cup e \in SUBSET Target
          /\ did.published + p \in Nat
      BY DEF Ledger
    <3>2. new \in Ledger
      BY <2>3, <3>1 DEF Adding, Ledger
    <3>3. /\ new.arrived = did.arrived /\ new.listed = did.listed
          /\ new.renderer = did.renderer
          /\ new.published = did.published + p
          /\ new.refused = did.refused \cup r
      BY <2>3 DEF Adding, Ledger
    <3>4. new.state = "spent" => did.state = "spent" \/ s = "spent"
      BY <2>3 DEF Adding, Ledger
    <3>5. QED  BY <3>2, <3>3, <3>4
  <2>5. ledger' = [ledger EXCEPT ![Depth] = new]
    BY <1>1, <1>3, <2>2, <2>3 DEF Record
  <2>6. /\ ledger' \in Seq(Ledger) /\ Len(ledger') = Len(ledger)
        /\ ledger'[Depth] = new
        /\ \A i \in 1..(Depth - 1) : ledger'[i] = ledger[i]
    BY <1>1, <2>1, <2>4, <2>5
  <2>7. QED  BY <2>2, <2>4, <2>6
<1>4. QED  BY <1>2, <1>3

\* Inside a render what is left is the thread's own number.
LEMMA Running ==
    ASSUME IInv, Depth > 0
    PROVE  /\ Left = remaining /\ remaining \in Nat
           /\ ledger[Depth] \in Ledger
           /\ Within(ledger[Depth], remaining, labelCost, entries, guards[Depth].entries)
<1>1. Depth \in 1..Depth /\ Len(ledger) = Depth /\ ledger \in Seq(Ledger)
  BY DEF IInv, TypeOK, Depth
<1>2. Within(ledger[Depth], remaining, labelCost, entries, guards[Depth].entries)
  BY <1>1 DEF IInv, LeftOf, CostsOf, EntriesOf
<1>3. QED  BY <1>1, <1>2 DEF Within, Left, None

\* A spend of the running render: what it publishes is taken from what is left, a
\* target it refuses has a cost that no longer fits, and first costs stay.
LEMMA SpendingStep ==
    ASSUME IInv, NEW p \in Nat, NEW r \in SUBSET Target, NEW e \in SUBSET Target,
           NEW s \in {"open", "spent"}, Record(p, r, e, s),
           UNCHANGED <<entries, guards>>,
           remaining' \in Left0, labelCost' \in [Target -> Left0],
           Depth > 0 =>
             /\ remaining' \in Nat /\ remaining' + p <= remaining
             /\ s = "spent" => remaining' = 0
             /\ \A t \in r : labelCost'[t] # None /\ labelCost'[t] > remaining'
             /\ \A t \in Target : labelCost[t] # None => labelCost'[t] = labelCost[t]
             /\ Measured(remaining', labelCost')
    PROVE  IInv'
<1>1. /\ ledger' \in Seq(Ledger) /\ Len(ledger') = Len(ledger)
      /\ \A i \in 1..(Depth - 1) : ledger'[i] = ledger[i]
      /\ Depth > 0 =>
           /\ ledger'[Depth].arrived = ledger[Depth].arrived
           /\ ledger'[Depth].renderer = ledger[Depth].renderer
           /\ ledger'[Depth].listed = ledger[Depth].listed
           /\ ledger'[Depth].published = ledger[Depth].published + p
           /\ ledger'[Depth].refused = ledger[Depth].refused \cup r
           /\ ledger'[Depth].state = "spent" => ledger[Depth].state = "spent" \/ s = "spent"
  BY RecordStep
<1>2. TypeOK'
  BY <1>1 DEF IInv, TypeOK, Depth
<1>3. ASSUME Depth > 0
      PROVE  Within(ledger'[Depth], remaining', labelCost', entries', guards[Depth].entries)
  <2>1. /\ remaining \in Nat /\ ledger[Depth] \in Ledger
        /\ Within(ledger[Depth], remaining, labelCost, entries, guards[Depth].entries)
    BY <1>3, Running
  <2>2. labelCost \in [Target -> Left0]
    BY DEF IInv, TypeOK
  <2>3. BudgetFor(ledger[Depth].arrived) \in Nat
    BY <2>1, BudgetNat DEF Ledger
  <2>4. remaining' \in Nat /\ remaining' + p <= remaining /\ remaining' <= remaining
    BY <1>3, <2>1
  <2>5. /\ ledger'[Depth].published + remaining' <= BudgetFor(ledger'[Depth].arrived)
        /\ ledger'[Depth].renderer = "html" =>
             entries' \in Nat /\ ledger'[Depth].listed + entries' <= BudgetFor(ledger'[Depth].arrived)
    <3>1. PICK a \in Nat, l \in Nat, b \in Nat :
            /\ a = ledger[Depth].published /\ l = ledger[Depth].listed
            /\ b = BudgetFor(ledger[Depth].arrived)
      BY <2>1, <2>3 DEF Ledger
    <3>2. /\ a + remaining <= b
          /\ ledger[Depth].renderer = "html" => entries \in Nat /\ l + entries <= b
      BY <2>1, <3>1 DEF Within
    <3>3. ledger'[Depth].published = a + p /\ ledger'[Depth].listed = l
      BY <1>1, <1>3, <3>1
    <3>4. BudgetFor(ledger'[Depth].arrived) = b
      BY <1>1, <1>3, <3>1
    <3>5. a + p + remaining' <= b
      BY <2>1, <2>4, <3>2
    <3>6. ledger'[Depth].renderer = ledger[Depth].renderer /\ entries' = entries
      BY <1>1, <1>3
    <3>7. QED  BY <3>2, <3>3, <3>4, <3>5, <3>6
  <2>6. ASSUME NEW t \in ledger'[Depth].refused
        PROVE  labelCost'[t] # None /\ labelCost'[t] > remaining'
    <3>1. CASE t \in r
      BY <1>3, <3>1
    <3>2. CASE t \in ledger[Depth].refused
      <4>1. t \in Target /\ labelCost[t] # None /\ labelCost[t] > remaining
        BY <2>1, <3>2 DEF Within, Ledger
      <4>2. labelCost'[t] = labelCost[t] /\ labelCost[t] \in Left0
        BY <1>3, <2>2, <4>1
      <4>3. QED  BY <2>1, <2>4, <4>1, <4>2 DEF Left0, None
    <3>3. t \in ledger[Depth].refused \cup r
      BY <1>1, <1>3, <2>6
    <3>4. QED  BY <3>1, <3>2, <3>3
  <2>7. ledger'[Depth].state = "spent" => remaining' = 0
    BY <1>1, <1>3, <2>1 DEF Within
  <2>8. ledger'[Depth].renderer # "html" => entries' = guards[Depth].entries
    BY <1>1, <1>3, <2>1 DEF Within
  <2>9. QED  BY <1>3, <2>1, <2>5, <2>6, <2>7, <2>8 DEF Within
<1>4. QED  BY <1>1, <1>2, <1>3, RunningStep

\* An expansion is published only if what is left pays for it.
LEMMA AbbreviationIInv ==
    ASSUME IInv, NEW cost \in Cost, Abbreviation(cost)
    PROVE  IInv'
<1>1. cost \in Nat /\ Left \in Nat
  BY CostAssumption, LeftNat DEF IInv
<1>2. PICK p \in Nat, s \in {"open", "spent"} :
        /\ p = IF Fits(Left, cost) THEN cost ELSE 0
        /\ s = After(Fits(Left, cost))
  BY <1>1 DEF After
<1>3. Record(p, {}, {}, s) /\ UNCHANGED <<entries, guards>> /\ labelCost' = labelCost
  BY <1>2 DEF Abbreviation
<1>4. /\ remaining' \in Nat /\ remaining' + p <= Left
      /\ s = "spent" => remaining' = 0
  BY <1>1, <1>2 DEF Abbreviation, Spend, Fits, After
<1>5. labelCost' \in [Target -> Left0] /\ remaining' \in Left0
  BY <1>3, <1>4 DEF IInv, TypeOK, Left0
<1>6. ASSUME Depth > 0
      PROVE  remaining' + p <= remaining /\ Measured(remaining', labelCost')
  <2>1. Left = remaining /\ remaining \in Nat
    BY <1>6, Running
  <2>2. PICK left \in Nat, after \in Nat : left = remaining /\ after = remaining'
    BY <1>4, <2>1
  <2>3. after + p <= left
    BY <1>4, <2>1, <2>2
  <2>4. remaining = 0 => remaining' = 0
    <3>1. left = 0 => after = 0
      BY <1>2, <2>3
    <3>2. QED  BY <2>2, <3>1
  <2>5. Measured(remaining, labelCost)
    BY <1>6, Running DEF Within
  <2>6. QED  BY <1>3, <2>2, <2>3, <2>4, <2>5 DEF Measured
<1>7. QED  BY <1>3, <1>4, <1>5, <1>6, SpendingStep

\* A rejected target stays rejected: its name is all that is taken.
LEMMA WriteTargetIInv ==
    ASSUME IInv, NEW t \in Target, WriteTarget(t)
    PROVE  IInv'
<1>1. Left \in Nat /\ NameOf[t] \in Nat /\ TypeOK
  BY LabelAssumption, LeftNat DEF IInv
<1>2. PICK s \in {"open", "spent"} :
        /\ Record(0, {t}, {}, s)
        /\ s = "spent" => Charges /\ ~Fits(Left, NameOf[t])
  BY DEF WriteTarget, After
<1>3. /\ UNCHANGED <<entries, guards>> /\ labelCost' = labelCost
      /\ Charges => remaining' = Spend(Left, NameOf[t])
      /\ ~Charges => remaining' = remaining
      /\ labelCost[t] # None /\ labelCost[t] > Left
  BY DEF WriteTarget, Rejected
<1>4. labelCost' \in [Target -> Left0] /\ remaining' \in Left0
  BY <1>1, <1>3, SpendNat DEF TypeOK, Left0
<1>5. ASSUME Depth > 0
      PROVE  /\ remaining' \in Nat /\ remaining' + 0 <= remaining
             /\ s = "spent" => remaining' = 0
             /\ \A u \in {t} : labelCost'[u] # None /\ labelCost'[u] > remaining'
             /\ Measured(remaining', labelCost')
  <2>1. Left = remaining /\ remaining \in Nat /\ Measured(remaining, labelCost)
    BY <1>5, Running DEF Within
  <2>2. /\ remaining' \in Nat /\ remaining' <= remaining
        /\ remaining' + 0 <= remaining
    <3>1. CASE Charges
      BY <1>1, <1>3, <2>1, <3>1 DEF Spend
    <3>2. CASE ~Charges
      BY <1>3, <2>1, <3>2
    <3>3. QED  BY <3>1, <3>2
  <2>3. s = "spent" => remaining' = 0
    BY <1>1, <1>2, <1>3 DEF Spend, Fits
  <2>4. labelCost[t] \in Left0
    BY <1>1 DEF TypeOK
  <2>5. \A u \in {t} : labelCost'[u] # None /\ labelCost'[u] > remaining'
    BY <1>3, <2>1, <2>2, <2>4 DEF Left0, None
  <2>6. Measured(remaining', labelCost')
    BY <1>3, <2>1, <2>2 DEF Measured
  <2>7. QED  BY <2>1, <2>2, <2>3, <2>5, <2>6
<1>6. {t} \in SUBSET Target /\ 0 \in Nat
  OBVIOUS
<1>7. QED  BY <1>2, <1>3, <1>4, <1>5, <1>6, SpendingStep

\* A label is charged after its expansion, at no more than what was left.
LEMMA WriteLabelIInv ==
    ASSUME IInv, NEW t \in Target, WriteLabel(t)
    PROVE  IInv'
<1> DEFINE fits == Fits(AfterRendering(t), Rendered(t))
<1>1. /\ Left \in Nat /\ TypeOK /\ TextOf[t] \in Nat /\ ExpansionOf[t] \in Nat
  BY LabelAssumption, LeftNat DEF IInv
<1>2. PICK mid \in Nat, size \in Nat :
        /\ mid = AfterRendering(t) /\ size = Rendered(t) /\ mid <= Left
        /\ size = 0 => TextOf[t] = 0 /\ (ExpansionOf[t] = 0 \/ mid = 0)
        /\ ~Fits(Left, ExpansionOf[t]) => mid = 0
  BY <1>1 DEF AfterRendering, Rendered, Spend, Fits
<1>3. /\ labelCost' = FirstCost(t, size) /\ remaining' = Spend(mid, size)
      /\ UNCHANGED <<entries, guards>> /\ ~Rejected(t)
  BY <1>2 DEF WriteLabel
<1>4. PICK p \in Nat, r \in SUBSET Target, e \in SUBSET Target, s \in {"open", "spent"} :
        /\ Record(p, r, e, s)
        /\ p = IF size <= mid THEN size ELSE 0
        /\ r = IF size <= mid THEN {} ELSE {t}
        /\ s = "spent" => mid = 0 \/ ~(size <= mid)
  <2>1. PICK e \in SUBSET Target :
          Record(IF fits THEN size ELSE 0, IF fits THEN {} ELSE {t}, e,
                 After(fits /\ Fits(Left, ExpansionOf[t])))
    BY <1>2 DEF WriteLabel
  <2>2. fits = (size <= mid)
    BY <1>2 DEF Fits
  <2>3. PICK p \in Nat, r \in SUBSET Target :
          p = (IF fits THEN size ELSE 0) /\ r = (IF fits THEN {} ELSE {t})
    BY <1>2
  <2>4. PICK s \in {"open", "spent"} : s = After(fits /\ Fits(Left, ExpansionOf[t]))
    BY DEF After
  <2>5. s = "spent" => mid = 0 \/ ~fits
    BY <1>2, <2>4 DEF After
  <2>6. Record(p, r, e, s)
    BY <2>1, <2>3, <2>4
  <2>7. QED  BY <2>2, <2>3, <2>5, <2>6
<1>5. /\ remaining' \in Nat /\ remaining' + p <= Left /\ remaining' <= mid
      /\ s = "spent" => remaining' = 0
      /\ t \in r => size > 0 /\ remaining' = 0
  BY <1>1, <1>2, <1>3, <1>4 DEF Spend
<1>6. /\ labelCost' \in [Target -> Left0]
      /\ \A u \in Target : labelCost[u] # None => labelCost'[u] = labelCost[u]
      /\ \A u \in Target : u # t => labelCost'[u] = labelCost[u]
      /\ labelCost[t] = None => labelCost'[t] = size
  BY <1>1, <1>2, <1>3 DEF FirstCost, TypeOK, Left0
<1>7. remaining' \in Left0
  BY <1>5 DEF Left0
<1>8. ASSUME Depth > 0
      PROVE  /\ remaining' + p <= remaining
             /\ \A u \in r : labelCost'[u] # None /\ labelCost'[u] > remaining'
             /\ Measured(remaining', labelCost')
  <2>1. Left = remaining /\ remaining \in Nat /\ Measured(remaining, labelCost)
    BY <1>8, Running DEF Within
  <2>2. remaining' + p <= remaining /\ remaining' <= remaining
    BY <1>2, <1>5, <2>1
  <2>3. ASSUME t \in r
        PROVE  labelCost'[t] # None /\ labelCost'[t] > remaining'
    <3>1. size > 0 /\ remaining' = 0
      BY <1>5, <2>3
    <3>2. CASE labelCost[t] = None
      BY <1>2, <1>6, <3>1, <3>2 DEF None
    <3>3. CASE labelCost[t] # None
      <4>1. ASSUME labelCost[t] = 0 PROVE FALSE
        <5>1. TextOf[t] = 0 /\ (ExpansionOf[t] = 0 \/ Left = 0)
          BY <2>1, <4>1 DEF Measured
        <5>2. Rendered(t) = 0
          BY <1>1, <5>1 DEF Rendered, Fits
        <5>3. QED  BY <1>2, <3>1, <5>2
      <4>2. labelCost[t] \in Nat /\ labelCost'[t] = labelCost[t]
        BY <1>1, <1>6, <3>3 DEF TypeOK, Left0
      <4>3. QED  BY <3>1, <4>1, <4>2 DEF None
    <3>4. QED  BY <3>2, <3>3
  <2>4. Measured(remaining', labelCost')
    <3>1. SUFFICES ASSUME NEW u \in Target, labelCost'[u] = 0
                   PROVE  TextOf[u] = 0 /\ (ExpansionOf[u] = 0 \/ remaining' = 0)
      BY DEF Measured
    <3>2. remaining = 0 => remaining' = 0
      BY <1>5, <2>1, <2>2
    <3>3. CASE u # t \/ labelCost[u] # None
      <4>1. labelCost[u] = 0
        BY <1>6, <3>1, <3>3
      <4>2. QED  BY <2>1, <3>2, <4>1 DEF Measured
    <3>4. CASE u = t /\ labelCost[u] = None
      <4>1. size = 0
        BY <1>6, <3>1, <3>4
      <4>2. mid = 0 => remaining' = 0
        BY <1>2, <1>5
      <4>3. QED  BY <1>2, <3>4, <4>1, <4>2
    <3>5. QED  BY <3>3, <3>4
  <2>5. \A u \in r : u = t
    BY <1>4
  <2>6. QED  BY <2>2, <2>3, <2>4, <2>5
<1>9. QED  BY <1>3, <1>4, <1>5, <1>6, <1>7, <1>8, SpendingStep

-----------------------------------------------------------------------------
\* Ending a render gives back what its guard found; the renders below are as they were.
LEMMA EndIInv == ASSUME IInv, End PROVE IInv'
<1>1. /\ guards \in Seq(Guard) /\ ledger \in Seq(Ledger)
      /\ Len(ledger) = Depth /\ Depth \in Nat /\ Depth > 0 /\ Len(guards) = Depth
  BY DEF IInv, TypeOK, End, Depth
<1>2. /\ guards' = SubSeq(guards, 1, Depth - 1) /\ ledger' = SubSeq(ledger, 1, Depth - 1)
      /\ remaining' = guards[Depth].previous /\ labelCost' = guards[Depth].costs
  BY DEF End
<1>3. entries' = guards[Depth].entries
  <2>1. Within(ledger[Depth], remaining, labelCost, entries, guards[Depth].entries)
    BY <1>1, Running
  <2>2. QED  BY <1>1, <2>1 DEF End, IsHtml, Within
<1>4. /\ guards' \in Seq(Guard) /\ ledger' \in Seq(Ledger)
      /\ Len(guards') = Depth - 1 /\ Len(ledger') = Depth - 1
      /\ \A i \in 1..(Depth - 1) : guards'[i] = guards[i] /\ ledger'[i] = ledger[i]
  BY <1>1, <1>2
<1>5. guards[Depth] \in Guard
  BY <1>1
<1>6. TypeOK'
  BY <1>2, <1>3, <1>4, <1>5 DEF TypeOK, Guard, Depth
<1>7. ASSUME NEW i \in 1..(Depth - 1)
      PROVE  Within(ledger'[i], LeftOf(i)', CostsOf(i)', EntriesOf(i)', guards'[i].entries)
  <2>1. Depth' = Depth - 1 /\ i # Depth /\ i \in 1..Depth
    BY <1>1, <1>4 DEF Depth
  <2>2. LeftOf(i)' = LeftOf(i) /\ CostsOf(i)' = CostsOf(i) /\ EntriesOf(i)' = EntriesOf(i)
    <3>1. CASE i = Depth - 1
      BY <1>1, <1>2, <1>3, <2>1, <3>1 DEF LeftOf, CostsOf, EntriesOf
    <3>2. CASE i # Depth - 1
      <4>1. i + 1 \in 1..(Depth - 1)
        BY <1>1, <3>2
      <4>2. guards'[i + 1] = guards[i + 1]
        BY <1>4, <4>1
      <4>3. QED  BY <2>1, <3>2, <4>2 DEF LeftOf, CostsOf, EntriesOf
    <3>3. QED  BY <3>1, <3>2
  <2>3. Within(ledger[i], LeftOf(i), CostsOf(i), EntriesOf(i), guards[i].entries)
    BY <2>1 DEF IInv
  <2>4. QED  BY <1>4, <2>2, <2>3
<1>8. QED  BY <1>4, <1>6, <1>7 DEF IInv, Depth

\* A render begins with a budget of its own; those that wait are kept by the guards.
LEMMA BeginIInv ==
    ASSUME IInv, NEW renderer \in Renderer, NEW source \in Length,
           NEW payload \in Length \cup {0}, Begin(renderer, source, payload)
    PROVE  IInv'
<1> DEFINE guard == [previous |-> remaining, costs |-> labelCost, entries |-> entries]
           did == [renderer |-> renderer, arrived |-> IF payload = 0 THEN source ELSE payload,
                   published |-> 0, listed |-> 0,
                   refused |-> {}, empty |-> {}, state |-> "open"]
           budget == BudgetFor(ExpansionLen(source, payload))
           index == IF renderer = "html" THEN budget ELSE entries
<1>1. source \in Nat /\ payload \in Nat
  BY CostAssumption
<1>2. /\ guards \in Seq(Guard) /\ ledger \in Seq(Ledger)
      /\ Len(ledger) = Depth /\ Depth \in Nat /\ Len(guards) = Depth
      /\ guard \in Guard
  BY DEF IInv, TypeOK, Depth, Guard
<1>3. did \in Ledger
  BY <1>1 DEF Ledger
<1>4. /\ guards' = Append(guards, guard) /\ ledger' = Append(ledger, did)
      /\ remaining' = budget /\ entries' = index /\ labelCost' = NoCosts
  BY DEF Begin
<1>5. /\ budget \in Nat
      /\ budget <= BudgetFor(IF payload = 0 THEN source ELSE payload)
  BY <1>1, NamedLength, BudgetNat
<1>6. /\ guards' \in Seq(Guard) /\ ledger' \in Seq(Ledger)
      /\ Len(guards') = Depth + 1 /\ Len(ledger') = Depth + 1
      /\ guards'[Depth + 1] = guard /\ ledger'[Depth + 1] = did
      /\ \A i \in 1..Depth : guards'[i] = guards[i] /\ ledger'[i] = ledger[i]
  <2> HIDE DEF guard, did
  <2> QED  BY <1>2, <1>3, <1>4
<1>7. NoCosts \in [Target -> Left0] /\ \A t \in Target : NoCosts[t] # 0
  BY DEF NoCosts, Left0, None
<1>8. TypeOK'
  <2> HIDE DEF budget
  <2> QED  BY <1>2, <1>4, <1>5, <1>6, <1>7 DEF TypeOK, Left0, Depth, Guard
<1>9. Within(did, budget, NoCosts, index, entries)
  <2> HIDE DEF budget
  <2> QED  BY <1>5, <1>7 DEF Within, Measured
<1>10. ASSUME NEW i \in 1..(Depth + 1)
       PROVE  Within(ledger'[i], LeftOf(i)', CostsOf(i)', EntriesOf(i)', guards'[i].entries)
  <2>1. Depth' = Depth + 1
    BY <1>6 DEF Depth
  <2>2. CASE i = Depth + 1
    <3>1. guards'[i].entries = entries
      BY <1>6, <2>2
    <3> HIDE DEF budget, did, index
    <3> QED  BY <1>4, <1>6, <1>9, <2>1, <2>2, <3>1 DEF LeftOf, CostsOf, EntriesOf
  <2>3. CASE i # Depth + 1
    <3>1. i \in 1..Depth
      BY <1>2, <2>3
    <3>2. LeftOf(i)' = LeftOf(i) /\ CostsOf(i)' = CostsOf(i) /\ EntriesOf(i)' = EntriesOf(i)
      <4>1. CASE i = Depth
        BY <1>2, <1>6, <2>1, <2>3, <4>1 DEF LeftOf, CostsOf, EntriesOf
      <4>2. CASE i # Depth
        <5>1. i + 1 \in 1..Depth
          BY <1>2, <3>1, <4>2
        <5>2. guards'[i + 1] = guards[i + 1]
          BY <1>6, <5>1
        <5>3. QED  BY <2>1, <2>3, <4>2, <5>2 DEF LeftOf, CostsOf, EntriesOf
      <4>3. QED  BY <4>1, <4>2
    <3>3. QED  BY <1>6, <3>1, <3>2 DEF IInv
  <2>4. QED  BY <2>2, <2>3
<1>11. QED  BY <1>6, <1>8, <1>10 DEF IInv, Depth

\* A term's bytes are taken from the index budget once, listed or not.
LEMMA IndexTermIInv ==
    ASSUME IInv, NEW entry \in Cost, NEW links \in Cost, IndexTerm(entry, links)
    PROVE  IInv'
<1>1. entry \in Nat /\ links \in Nat /\ Depth > 0 /\ ledger[Depth].renderer = "html"
  BY CostAssumption DEF IndexTerm, IsHtml
<1>2. PICK did \in Ledger, room \in Nat :
        /\ did = ledger[Depth] /\ room = entries /\ did.renderer = "html"
        /\ Within(did, remaining, labelCost, room, guards[Depth].entries)
  BY <1>1, Running DEF Within
<1>3. PICK listed \in Nat, after \in Nat :
        /\ listed = IF Listed(entry, links) THEN did.listed + entry + links ELSE did.listed
        /\ after = Spend(Spend(room, entry), links)
        /\ listed + after <= did.listed + room
  <2>1. PICK before \in Nat : before = did.listed
    BY DEF Ledger
  <2>2. PICK after \in Nat : /\ after = Spend(Spend(room, entry), links)
                            /\ after <= room
    BY <1>1 DEF Spend
  <2>3. CASE Listed(entry, links)
    <3>1. entry <= room /\ links <= room - entry
      BY <1>2, <2>3 DEF Listed, Fits
    <3>2. Spend(room, entry) = room - entry
      BY <1>1, <3>1 DEF Spend
    <3>3. after = room - entry - links
      BY <1>1, <2>2, <3>1, <3>2 DEF Spend
    <3>4. before + entry + links \in Nat
            /\ before + entry + links + after <= before + room
      BY <1>1, <3>3
    <3>5. QED  BY <2>1, <2>2, <2>3, <3>4
  <2>4. CASE ~Listed(entry, links)
    BY <2>1, <2>2, <2>4
  <2>5. QED  BY <2>3, <2>4
<1>4. PICK new : new = [did EXCEPT !.listed = listed]
  OBVIOUS
<1>5. /\ new \in Ledger /\ new.listed = listed
      /\ new.arrived = did.arrived /\ new.published = did.published
      /\ new.refused = did.refused /\ new.state = did.state /\ new.renderer = did.renderer
  BY <1>3, <1>4 DEF Ledger
<1>6. /\ ledger' = [ledger EXCEPT ![Depth] = new] /\ entries' = after
      /\ UNCHANGED <<remaining, labelCost, guards>>
  BY <1>2, <1>3, <1>4 DEF IndexTerm
<1>7. /\ ledger \in Seq(Ledger) /\ Len(ledger) = Depth /\ Depth \in 1..Len(ledger)
  BY <1>1 DEF IInv, TypeOK, Depth
<1>8. /\ ledger' \in Seq(Ledger) /\ Len(ledger') = Len(ledger)
      /\ ledger'[Depth] = new
      /\ \A i \in 1..(Depth - 1) : ledger'[i] = ledger[i]
  BY <1>5, <1>6, <1>7
<1>9. TypeOK'
  BY <1>3, <1>6, <1>8 DEF IInv, TypeOK, Left0, Depth
<1>10. Within(new, remaining, labelCost, after, guards[Depth].entries)
  <2>1. PICK b \in Nat : b = BudgetFor(did.arrived)
    BY <1>2, BudgetNat DEF Ledger
  <2>2. did.listed \in Nat /\ did.listed + room <= b
    BY <1>2, <2>1 DEF Within, Ledger
  <2>3. listed + after <= b
    BY <1>2, <1>3, <2>1, <2>2
  <2>4. BudgetFor(new.arrived) = b
    BY <1>5, <2>1
  <2>5. QED  BY <1>2, <1>3, <1>5, <2>1, <2>3, <2>4 DEF Within
<1>11. QED  BY <1>6, <1>8, <1>9, <1>10, RunningStep

\* Every step keeps the invariant.
LEMMA NextIInv == IInv /\ [Next]_vars => IInv'
<1> SUFFICES ASSUME IInv, [Next]_vars PROVE IInv'
  OBVIOUS
<1>1. ASSUME NEW renderer \in Renderer, NEW source \in Length,
             NEW payload \in Length \cup {0}, Begin(renderer, source, payload)
      PROVE  IInv'
  BY <1>1, BeginIInv
<1>2. CASE End
  BY <1>2, EndIInv
<1>3. ASSUME NEW cost \in Cost, Abbreviation(cost) PROVE IInv'
  BY <1>3, AbbreviationIInv
<1>4. ASSUME NEW t \in Target, WriteTarget(t) PROVE IInv'
  BY <1>4, WriteTargetIInv
<1>5. ASSUME NEW t \in Target, WriteLabel(t) PROVE IInv'
  BY <1>5, WriteLabelIInv
<1>6. ASSUME NEW entry \in Cost, NEW links \in Cost, IndexTerm(entry, links) PROVE IInv'
  BY <1>6, IndexTermIInv
<1>7. CASE UNCHANGED vars
  BY <1>7 DEF IInv, TypeOK, LeftOf, CostsOf, EntriesOf, Depth, vars
<1>8. QED  BY <1>1, <1>2, <1>3, <1>4, <1>5, <1>6, <1>7 DEF Next

-----------------------------------------------------------------------------
\* Every render on the stack is within its budgets, whatever is nested in it.
THEOREM Invariant == Spec => []IInv
<1>1. QED  BY InitIInv, NextIInv, PTL DEF Spec

\* The variables have their types: a spend never takes more than there is.
THEOREM TypeCorrect == Spec => []TypeOK
<1>1. IInv => TypeOK
  BY DEF IInv
<1>2. QED  BY <1>1, Invariant, PTL

\* What a render publishes of expansions and labels, and what it still may, is within
\* the budget of the bytes that arrived.
THEOREM PublishedIsBounded == Spec => []WithinBudget
<1>1. IInv => WithinBudget
  BY DEF IInv, Within, WithinBudget
<1>2. QED  BY <1>1, Invariant, PTL

\* What the indexes of a render list is within theirs.
THEOREM IndexIsBounded == Spec => []IndexWithinBudget
<1>1. IInv => IndexWithinBudget
  BY DEF IInv, Within, IndexWithinBudget
<1>2. QED  BY <1>1, Invariant, PTL

\* label_rejected answers true for good: first costs stay, what is left only shrinks,
\* and a render nested in between changes neither.
THEOREM RejectionIsFinal == Spec => []RefusedForGood
<1>1. IInv => RefusedForGood
  BY DEF IInv, Within, RefusedForGood
<1>2. QED  BY <1>1, Invariant, PTL

\* A refused spend leaves nothing for the rest of its render.
THEOREM RefusalIsFinal == Spec => []SpentForGood
<1>1. IInv => SpentForGood
  BY DEF IInv, Within, SpentForGood
<1>2. QED  BY <1>1, Invariant, PTL
===============================================================================
