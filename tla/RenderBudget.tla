----------------------------- MODULE RenderBudget -----------------------------
(***************************************************************************)
(* The budgets of text a render republishes (src/abbr_budget.rs and        *)
(* src/index_budget.rs): expansions of abbreviations, labels of            *)
(* cross-references and entries of an index, as the renderers charge them. *)
(*                                                                         *)
(* What is left is thread-local.  A render installs its budget and puts    *)
(* back what it found when it ends, so a hook that renders another         *)
(* document nests.  A profile that flattens a table cell renders without   *)
(* installing one.                                                         *)
(*                                                                         *)
(* A label is text of its own and at most one abbreviation, whose          *)
(* expansion is charged first.  Lengths whose multiple saturates are left  *)
(* out: they exceed any input.                                             *)
(***************************************************************************)
EXTENDS Integers, Sequences

CONSTANTS
    Target,         \* targets of cross-references
    TextOf,         \* [Target -> bytes of the label without its abbreviation]
    ExpansionOf,    \* [Target -> bytes of its abbreviation's expansion, 0 if none]
    NameOf,         \* [Target -> bytes of the target as written]
    Cost,           \* bytes an expansion or a part of an index can have
    Length,         \* bytes a document can have
    MaxNested       \* bound: renders within renders

ASSUME LabelAssumption ==
    /\ TextOf \in [Target -> Nat] /\ ExpansionOf \in [Target -> Nat]
    /\ NameOf \in [Target -> Nat]
ASSUME CostAssumption == Cost \subseteq Nat /\ Length \subseteq Nat
ASSUME NestedAssumption == MaxNested \in Nat

VARIABLES
    remaining,      \* REMAINING of abbr_budget, None outside a render
    labelCost,      \* LABEL_COST: a target's first cost, or None
    entries,        \* REMAINING of index_budget, None outside an HTML render
    guards,         \* the guards on the stack: what each found
    ledger          \* history: what each render on the stack did

vars == <<remaining, labelCost, entries, guards, ledger>>

None == -1
Base == 1000000
Factor == 8
Depth == Len(guards)

BudgetFor(length) == IF Factor * length > Base THEN Factor * length ELSE Base

\* Slip: the length a tree names is believed.
BelievedLen(source, payload) == source

\* A decoded tree names a length; the payload that named it bounds it.
ExpansionLen(source, payload) ==
    IF payload = 0 \/ source < payload THEN source ELSE payload

\* HTML, Markdown and terminal text, plain text.
Renderer == {"html", "styled", "plain"}
NoCosts == [t \in Target |-> None]

Init ==
    /\ remaining = None /\ labelCost = NoCosts /\ entries = None
    /\ guards = << >> /\ ledger = << >>

-----------------------------------------------------------------------------
\* Without a guard the floor is what is left.
Left == IF remaining = None THEN Base ELSE remaining

\* Slip: a refusal leaves what was left.
SpendKeeping(left, cost) == IF cost > left THEN left ELSE left - cost

\* A cost that does not fit takes the rest, so that nothing later fits either.
Spend(left, cost) == IF cost > left THEN 0 ELSE left - cost
Fits(left, cost) == cost <= left
After(fits) == IF fits THEN "open" ELSE "spent"

\* What the running render did, if one is running.
Adding(did, published, refused, empty, state) ==
    [did EXCEPT !.published = @ + published, !.refused = @ \cup refused,
                !.empty = @ \cup empty, !.state = IF state = "open" THEN @ ELSE state]
Record(published, refused, empty, state) ==
    ledger' = IF ledger = << >> THEN ledger
              ELSE [ledger EXCEPT ![Len(ledger)] = Adding(@, published, refused, empty, state)]

\* for_document, and for HTML IndexBudgetGuard::new
Begin(renderer, source, payload) ==
    /\ Depth < MaxNested
    /\ guards' = Append(guards, [previous |-> remaining, costs |-> labelCost, entries |-> entries])
    /\ remaining' = BudgetFor(ExpansionLen(source, payload))
    /\ entries' = IF renderer = "html" THEN BudgetFor(ExpansionLen(source, payload)) ELSE entries
    /\ labelCost' = NoCosts
    /\ ledger' = Append(ledger, [renderer |-> renderer,
                                 arrived |-> IF payload = 0 THEN source ELSE payload,
                                 published |-> 0, listed |-> 0,
                                 refused |-> {}, empty |-> {}, state |-> "open"])

IsHtml == Depth > 0 /\ ledger[Depth].renderer = "html"

\* Slip: the costs of the render that ended stay.
EndKeepingCosts ==
    /\ Depth > 0
    /\ remaining' = guards[Depth].previous
    /\ entries' = IF IsHtml THEN guards[Depth].entries ELSE entries
    /\ guards' = SubSeq(guards, 1, Depth - 1) /\ ledger' = SubSeq(ledger, 1, Depth - 1)
    /\ UNCHANGED labelCost

End ==
    /\ Depth > 0
    /\ remaining' = guards[Depth].previous
    /\ labelCost' = guards[Depth].costs
    /\ entries' = IF IsHtml THEN guards[Depth].entries ELSE entries
    /\ guards' = SubSeq(guards, 1, Depth - 1) /\ ledger' = SubSeq(ledger, 1, Depth - 1)

Abbreviation(cost) ==
    /\ remaining' = Spend(Left, cost)
    /\ Record(IF Fits(Left, cost) THEN cost ELSE 0, {}, {}, After(Fits(Left, cost)))
    /\ UNCHANGED <<labelCost, entries, guards>>

-----------------------------------------------------------------------------
\* label_rejected: the first cost no longer fits.
Rejected(t) == labelCost[t] # None /\ labelCost[t] > Left

FirstCost(t, cost) == [labelCost EXCEPT ![t] = IF @ = None THEN cost ELSE @]

\* Every renderer but plain text charges a target it writes.
Charges == Depth > 0 /\ ledger[Depth].renderer # "plain"

\* The target is written instead, and nothing is rendered for it.
WriteTarget(t) ==
    /\ Rejected(t)
    /\ IF Charges
       THEN /\ remaining' = Spend(Left, NameOf[t])
            /\ Record(0, {t}, {}, After(Fits(Left, NameOf[t])))
       ELSE Record(0, {t}, {}, "open") /\ UNCHANGED remaining
    /\ UNCHANGED <<labelCost, entries, guards>>

\* What the label comes to, and what is left for it once it is rendered.
Rendered(t) == TextOf[t] + (IF Fits(Left, ExpansionOf[t]) THEN ExpansionOf[t] ELSE 0)
AfterRendering(t) == Spend(Left, ExpansionOf[t])

WriteLabel(t) ==
    /\ ~Rejected(t)
    /\ labelCost' = FirstCost(t, Rendered(t))
    /\ remaining' = Spend(AfterRendering(t), Rendered(t))
    /\ LET fits == Fits(AfterRendering(t), Rendered(t))
       IN Record(IF fits THEN Rendered(t) ELSE 0,
                 IF fits THEN {} ELSE {t},
                 IF fits /\ Rendered(t) = 0 /\ ExpansionOf[t] > 0 THEN {t} ELSE {},
                 After(fits /\ Fits(Left, ExpansionOf[t])))
    /\ UNCHANGED <<entries, guards>>

-----------------------------------------------------------------------------
\* Slip: the links are listed before they are charged.
ListedAnyway(entry, links) == Fits(entries, entry)
\* An entry is listed with all of its links or not at all.
Listed(entry, links) == Fits(entries, entry) /\ Fits(entries - entry, links)

\* One term of an index, in HTML: its entry is charged, then its links until one does not fit.
IndexTerm(entry, links) ==
    /\ IsHtml /\ entries > 0
    /\ entries' = Spend(Spend(entries, entry), links)
    /\ ledger' = [ledger EXCEPT ![Depth].listed =
                    IF Listed(entry, links) THEN @ + entry + links ELSE @]
    /\ UNCHANGED <<remaining, labelCost, guards>>

Next ==
    \/ \E renderer \in Renderer, source \in Length, payload \in Length \cup {0} :
         Begin(renderer, source, payload)
    \/ End
    \/ \E cost \in Cost : Abbreviation(cost)
    \/ \E t \in Target : WriteTarget(t) \/ WriteLabel(t)
    \/ \E entry, links \in Cost : IndexTerm(entry, links)

Spec == Init /\ [][Next]_vars

-----------------------------------------------------------------------------
\* What is left of the i-th render, and its labels' costs: those of a render that
\* waits for another are what that one's guard found.
LeftOf(i) == IF i = Depth THEN remaining ELSE guards[i + 1].previous
CostsOf(i) == IF i = Depth THEN labelCost ELSE guards[i + 1].costs
EntriesOf(i) == IF i = Depth THEN entries ELSE guards[i + 1].entries

Left0 == Nat \cup {None}
Guard == [previous: Left0, costs: [Target -> Left0], entries: Left0]
Ledger == [renderer: Renderer, arrived: Nat, published: Nat, listed: Nat, refused: SUBSET Target,
           empty: SUBSET Target, state: {"open", "spent"}]

TypeOK ==
    /\ remaining \in Left0 /\ entries \in Left0
    /\ labelCost \in [Target -> Left0]
    /\ guards \in Seq(Guard) /\ ledger \in Seq(Ledger)
    /\ Len(ledger) = Depth

\* However renders nest, and whatever length a decoded tree names for itself, the
\* expansions and labels a render has published and what it may still publish are
\* within the budget of the bytes that arrived.
WithinBudget ==
    \A i \in 1..Depth :
      LeftOf(i) >= 0 /\ ledger[i].published + LeftOf(i) <= BudgetFor(ledger[i].arrived)

\* So are the entries an HTML render's indexes list, whatever renders within it.
IndexWithinBudget ==
    \A i \in 1..Depth : ledger[i].renderer = "html" =>
      EntriesOf(i) >= 0 /\ ledger[i].listed + EntriesOf(i) <= BudgetFor(ledger[i].arrived)

\* "an answer of true stays true": a target written once in place of its label is
\* rejected for the rest of its render, whatever is rendered in between.
RefusedForGood ==
    \A i \in 1..Depth : \A t \in ledger[i].refused :
      CostsOf(i)[t] # None /\ CostsOf(i)[t] > LeftOf(i)

\* "degrade this and all subsequent occurrences": once an expansion or a label did
\* not fit, nothing that costs a byte fits for the rest of that render.
SpentForGood == \A i \in 1..Depth : ledger[i].state = "spent" => LeftOf(i) = 0

\* A spent budget writes the target rather than an empty label.
NoEmptyLabel == \A i \in 1..Depth : ledger[i].empty = {}

===============================================================================
