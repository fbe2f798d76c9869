-------------------------- MODULE IncludeResolution --------------------------
(***************************************************************************)
(* The include pass of src/includes.rs seen from its control: which        *)
(* directive is handed to the resolver, which is refused and why, which    *)
(* child is entered, merged or rejected, and what the host is told about   *)
(* it (dependencies, warnings, accepted inclusions).                       *)
(*                                                                         *)
(* The recursion expand_blocks -> with_child -> expand_child ->            *)
(* expand_blocks is a stack of frames, one per document being expanded.    *)
(* A document is the number of directives still to come in it, chosen when *)
(* it is entered; the resolver is the environment and answers every call   *)
(* as it likes, so a target may change, appear or vanish between calls.    *)
(* Ids, footnotes and heading levels are the business of                   *)
(* IncludeReservations and IncludeFootnotes.                               *)
(***************************************************************************)
EXTENDS Naturals, Sequences, FiniteSets

CONSTANTS
    Target,         \* directive paths and canonical ids, one name space
    RootTarget,     \* options.source_path: a target, or NoTarget
    NoTarget,       \* stdin: the root document has no identity
    Size,           \* sizes in bytes a source may have
    Denial,         \* IncludeDenial, NonText apart
    MaxDepth, MaxCalls, MaxBytes, MaxWarnings,      \* IncludeOptions
    MaxDirectives   \* bound: directives in one document

ASSUME TargetAssumption ==
    /\ NoTarget \notin Target
    /\ RootTarget \in Target \cup {NoTarget}
ASSUME SizeAssumption == Size \subseteq Nat
ASSUME DenialAssumption == "none" \notin Denial
ASSUME LimitAssumption ==
    MaxDepth \in Nat /\ MaxCalls \in Nat /\ MaxBytes \in Nat
      /\ MaxWarnings \in Nat /\ MaxDirectives \in Nat

VARIABLES
    frames,     \* documents being expanded, the root first (stack, depth)
    calls, bytes, spent,
    deps,       \* [target -> [resolved, denial]], the dependency list
    report,     \* warnings: how many are shown, their rules, how many are not
    included,   \* serials of the reported inclusions, in report order
    includer,   \* observer: serial -> serial of the document that included it
    obtained    \* observer: targets whose source was handed back

reading == <<calls, bytes, spent, deps, obtained>>
inclusion == <<included, includer>>
vars == <<frames, reading, report, inclusion>>

UnreadRule == {"include-selection-conflict", "include-unknown-option",
               "include-duplicate-option"}
SpentRule == {"include-call-limit", "include-budget"}
\* Selections that fail once the source is in hand: these stand for those of lines,
\* records and columns too, which fail at the same two places.
SelectionRule == {"include-region-invalid", "include-section"}
\* Options checked after the source is read and before it is charged.
OptionRule == {"include-selection-conflict", "include-rows-invalid"}
\* A malformed selector is reported after the file it names was resolved all the same.
MalformedRule == {"include-lines-invalid"}
Rule == UnreadRule \cup SpentRule \cup SelectionRule \cup OptionRule \cup MalformedRule
          \cup {"include-depth", "include-unresolved", "include-non-text",
                "include-cycle", "include-block-in-inline"}
WellFormed == "well-formed"
Shape == {WellFormed} \cup MalformedRule
Position == {"block", "inline"}
Frame == [file: Target \cup {NoTarget}, left: 0..MaxDirectives, serial: Nat,
          position: Position, mark: Nat]

TypeOK ==
    /\ frames \in Seq(Frame)
    /\ calls \in Nat /\ bytes \in Nat
    /\ spent \in {"none"} \cup SpentRule
    /\ DOMAIN deps \subseteq Target
    /\ \A t \in DOMAIN deps : deps[t] \in [resolved: BOOLEAN, denial: {"none"} \cup Denial]
    /\ report \in [shown: Nat, rules: SUBSET Rule, suppressed: Nat]
    /\ included \in Seq(Nat)
    /\ includer \in Seq(Nat)
    /\ obtained \subseteq Target

-----------------------------------------------------------------------------
Top == frames[Len(frames)]
Depth == Len(frames) - 1
\* Slip: only the including document is compared.
OnTop(t) == Top.file = t
OnStack(t) == \E i \in 1..Len(frames) : frames[i].file = t

\* Slips: a warning past the cap is not counted; its rule is not recorded.
RaiseUncounted(log, rule) ==
    IF log.shown >= MaxWarnings /\ rule \in log.rules
      THEN log
      ELSE [log EXCEPT !.shown = @ + 1, !.rules = @ \cup {rule}]
\* warn_with_position: a rule not yet shown is always shown.
Raise(log, rule) ==
    IF log.shown >= MaxWarnings /\ rule \in log.rules
      THEN [log EXCEPT !.suppressed = @ + 1]
      ELSE [shown |-> log.shown + 1, rules |-> log.rules \cup {rule},
            suppressed |-> log.suppressed]

\* A malformed directive gets its own warning after that of the resolution.
RaiseFor(log, shape) == IF shape = WellFormed THEN log ELSE Raise(log, shape)

\* Slip: the latest encounter fixes the entry.
NotedLast(t, resolved, denial) ==
    [u \in DOMAIN deps \cup {t} |->
        IF u # t THEN deps[u] ELSE [resolved |-> resolved, denial |-> denial]]

\* note_denied: first encounter fixes the entry, a success upgrades it.
Noted(t, resolved, denial) ==
    [u \in DOMAIN deps \cup {t} |->
        IF u # t THEN deps[u]
        ELSE IF t \notin DOMAIN deps THEN [resolved |-> resolved, denial |-> denial]
        ELSE IF resolved THEN [resolved |-> TRUE, denial |-> "none"]
        ELSE IF deps[t].denial = "none" THEN [deps[t] EXCEPT !.denial = denial]
        ELSE deps[t]]

-----------------------------------------------------------------------------
Init ==
    /\ \E n \in 0..MaxDirectives :
         frames = <<[file |-> RootTarget, left |-> n, serial |-> 0,
                     position |-> "block", mark |-> 0]>>
    /\ calls = 0 /\ bytes = 0 /\ spent = "none"
    /\ deps = << >>
    /\ report = [shown |-> 0, rules |-> {}, suppressed |-> 0]
    /\ included = << >> /\ includer = << >>
    /\ obtained = {}

\* The next directive of the document being expanded, in document order.
AtDirective == frames # << >> /\ Top.left > 0
\* Slip: the cursor moves past the next directive too.
ConsumedTwice == [frames EXCEPT ![Len(frames)].left = @ - 2]
Consumed == [frames EXCEPT ![Len(frames)].left = @ - 1]

\* The directive stays literal text and is not looked at again.
Refuse(rule, shape) ==
    /\ frames' = Consumed
    /\ report' = RaiseFor(Raise(report, rule), shape)
    /\ UNCHANGED inclusion

\* Unknown or repeated options and conflicting selectors: nothing is resolved.
RefuseUnread(rule) ==
    /\ AtDirective
    /\ Refuse(rule, WellFormed)
    /\ UNCHANGED reading

\* Slip: the target is reported as read.
RefuseDepthResolved(t, shape) ==
    /\ AtDirective
    /\ Depth >= MaxDepth
    /\ deps' = Noted(t, TRUE, "none")
    /\ Refuse("include-depth", shape)
    /\ UNCHANGED <<calls, bytes, spent, obtained>>

RefuseDepth(t, shape) ==
    /\ AtDirective
    /\ Depth >= MaxDepth
    /\ deps' = Noted(t, FALSE, "none")
    /\ Refuse("include-depth", shape)
    /\ UNCHANGED <<calls, bytes, spent, obtained>>

RefuseSpent(t, shape) ==
    /\ AtDirective
    /\ Depth < MaxDepth
    /\ spent # "none"
    /\ deps' = Noted(t, FALSE, "none")
    /\ Refuse(spent, shape)
    /\ UNCHANGED <<calls, bytes, spent, obtained>>

RefuseCalls(t, shape) ==
    /\ AtDirective
    /\ Depth < MaxDepth
    /\ spent = "none"
    /\ calls >= MaxCalls
    /\ spent' = "include-call-limit"
    /\ deps' = Noted(t, FALSE, "none")
    /\ Refuse("include-call-limit", shape)
    /\ UNCHANGED <<calls, bytes, obtained>>

-----------------------------------------------------------------------------
AskUnlatched ==
    /\ AtDirective
    /\ Depth < MaxDepth
    /\ calls < MaxCalls
    /\ calls' = calls + 1

\* The resolver is asked: neither total is spent.
Ask ==
    /\ AtDirective
    /\ Depth < MaxDepth
    /\ spent = "none"
    /\ calls < MaxCalls
    /\ calls' = calls + 1

Obtain(t) == obtained' = obtained \cup {t}

\* Err(denial), reported under the directive's path or where it would be.
ReadDenied(t, denial, shape) ==
    /\ Ask
    /\ deps' = Noted(t, FALSE, denial)
    /\ Refuse("include-unresolved", shape)
    /\ UNCHANGED <<bytes, spent, obtained>>

\* Err(NonText): the bytes are not text, no source is handed back.
ReadNonText(t, shape) ==
    /\ Ask
    /\ deps' = Noted(t, FALSE, "none")
    /\ Refuse("include-non-text", shape)
    /\ UNCHANGED <<bytes, spent, obtained>>

\* A source with a NUL in it.
ReadBinary(t, size, shape) ==
    /\ Ask
    /\ Obtain(t)
    /\ deps' = Noted(t, FALSE, "none")
    /\ Refuse("include-non-text", shape)
    /\ UNCHANGED <<bytes, spent>>

\* A record selector beside another selector, or on something that is no table.
ReadOptionsInvalid(t, size, rule) ==
    /\ Ask
    /\ Obtain(t)
    /\ deps' = Noted(t, TRUE, "none")
    /\ Refuse(rule, WellFormed)
    /\ UNCHANGED <<bytes, spent>>

\* Canonical ids are compared after resolution.
ReadCycle(t, size, shape) ==
    /\ Ask
    /\ OnStack(t)
    /\ Obtain(t)
    /\ deps' = Noted(t, TRUE, "none")
    /\ Refuse("include-cycle", shape)
    /\ UNCHANGED <<bytes, spent>>

\* The source is charged before it is compared with the budget.
Charge(t, size) ==
    /\ Ask
    /\ ~OnStack(t)
    /\ Obtain(t)
    /\ deps' = Noted(t, TRUE, "none")
    /\ bytes' = bytes + size

\* Slip: the budget is spent when it is met.
ReadAtBudget(t, size, shape) ==
    /\ Charge(t, size)
    /\ bytes' >= MaxBytes
    /\ spent' = "include-budget"
    /\ Refuse("include-budget", shape)

ReadOverBudget(t, size, shape) ==
    /\ Charge(t, size)
    /\ bytes' > MaxBytes
    /\ spent' = "include-budget"
    /\ Refuse("include-budget", shape)

ReadSelectionFails(t, size, rule) ==
    /\ Charge(t, size)
    /\ bytes' <= MaxBytes
    /\ Refuse(rule, WellFormed)
    /\ UNCHANGED spent

\* reject_invalid_lines, reject_invalid_table: resolved for the dependency only.
ReadMalformed(t, size, rule) ==
    /\ Charge(t, size)
    /\ bytes' <= MaxBytes
    /\ frames' = Consumed
    /\ report' = Raise(report, rule)
    /\ UNCHANGED <<spent, inclusion>>

\* The child becomes the document being expanded.
Enter(t, size, position, n) ==
    /\ Charge(t, size)
    /\ bytes' <= MaxBytes
    /\ frames' = Append(Consumed, [file |-> t, left |-> n, serial |-> Len(includer) + 1,
                                   position |-> position, mark |-> Len(included)])
    /\ includer' = Append(includer, Top.serial)
    /\ UNCHANGED <<spent, report, included>>

-----------------------------------------------------------------------------
\* Slip: the root's own children are taken for the root.
ChildDoneDeep == Len(frames) > 2 /\ Top.left = 0
ChildDone == Len(frames) > 1 /\ Top.left = 0
Popped == SubSeq(frames, 1, Len(frames) - 1)

\* Some(value): the report goes in front of those of the child's own children.
Merge ==
    /\ ChildDone
    /\ frames' = Popped
    /\ included' = SubSeq(included, 1, Top.mark) \o <<Top.serial>>
                     \o SubSeq(included, Top.mark + 1, Len(included))
    /\ UNCHANGED <<reading, report, includer>>

\* Slip: the reports of a rejected child's children are kept.
RejectKeepingReports ==
    /\ ChildDone
    /\ Top.position = "inline"
    /\ frames' = Popped
    /\ report' = Raise(report, "include-block-in-inline")
    /\ UNCHANGED <<reading, inclusion>>

\* An inline directive whose child turned out to hold block content.
RejectBlockInInline ==
    /\ ChildDone
    /\ Top.position = "inline"
    /\ frames' = Popped
    /\ report' = Raise(report, "include-block-in-inline")
    /\ included' = SubSeq(included, 1, Top.mark)
    /\ UNCHANGED <<reading, includer>>

Finish ==
    /\ Len(frames) = 1 /\ Top.left = 0
    /\ frames' = << >>
    /\ UNCHANGED <<reading, report, inclusion>>

\* The result is returned; nothing is left to do.
Done == frames = << >> /\ UNCHANGED vars

Refusing ==
    \/ \E rule \in UnreadRule : RefuseUnread(rule)
    \/ \E t \in Target, shape \in Shape :
         RefuseDepth(t, shape) \/ RefuseSpent(t, shape) \/ RefuseCalls(t, shape)

Reading ==
    \E t \in Target, shape \in Shape :
      \/ \E denial \in Denial : ReadDenied(t, denial, shape)
      \/ ReadNonText(t, shape)
      \/ \E size \in Size :
           ReadBinary(t, size, shape) \/ ReadCycle(t, size, shape)
             \/ ReadOverBudget(t, size, shape)

Obtaining ==
    \E t \in Target, size \in Size :
      \/ \E rule \in OptionRule : ReadOptionsInvalid(t, size, rule)
      \/ \E rule \in SelectionRule : ReadSelectionFails(t, size, rule)
      \/ \E rule \in MalformedRule : ReadMalformed(t, size, rule)
      \/ \E position \in Position, n \in 0..MaxDirectives : Enter(t, size, position, n)

Next == Refusing \/ Reading \/ Obtaining \/ Merge \/ RejectBlockInInline \/ Finish \/ Done

Spec == Init /\ [][Next]_vars /\ WF_vars(Next)

-----------------------------------------------------------------------------
\* No document is expanded inside itself, however the resolver spells its id:
\* the cycle guard compares canonical ids with the whole stack (resolve_child).
AcyclicStack ==
    \A i, j \in 1..Len(frames) : i # j => frames[i].file # frames[j].file

\* Nesting never exceeds max_depth and the resolver is never asked more than
\* max_resolver_calls times, malformed directives that are resolved only for
\* their dependency included.
WorkBounded == Depth <= MaxDepth /\ calls <= MaxCalls

\* The budget latch is set exactly when the charged bytes exceed the budget, and
\* the call latch only when every call was made: neither can hide the other.
LatchExact ==
    /\ spent = "include-budget" <=> bytes > MaxBytes
    /\ spent = "include-call-limit" => calls = MaxCalls

\* A reported inclusion never outlives the inclusion that reached it: its includer
\* is the root, is reported too, or is still being expanded.  Reports stay in the
\* order of the document although a parent is reported after its children
\* (`included.insert(before, ..)`, `included.truncate(before)` in with_child).
ReportsNest ==
    /\ \A i \in DOMAIN included :
         LET by == includer[included[i]]
         IN \/ by \in {0} \cup {included[j] : j \in 1..(i - 1)}
            \/ \E f \in 1..Len(frames) : frames[f].serial = by
    /\ \A i, j \in DOMAIN included : i < j => included[i] < included[j]

\* A dependency is reported as resolved only if its source was obtained, and it is
\* never downgraded: a later refusal does not stop the host watching it (I11).
ResolvedWasRead == \A t \in DOMAIN deps : deps[t].resolved => t \in obtained
ResolvedStays ==
    [][\A t \in DOMAIN deps :
         t \in DOMAIN deps' /\ (deps[t].resolved => deps'[t].resolved)]_vars

\* "inclusion never silently drops a directive": a directive that is not replaced
\* by content, at once or when its child is rejected, raises a warning.
Raised(log) == log.shown + log.suppressed
NeverSilent ==
    [][\/ Len(frames') > Len(frames)
       \/ Len(frames) = 1 /\ frames' = << >>
       \/ Len(frames') < Len(frames) /\ \E i \in DOMAIN included' : included'[i] = Top.serial
       \/ Raised(report') > Raised(report)]_vars

\* The reads, charges and latches of the pass are those IncludeBudget allows.
Budget == INSTANCE IncludeBudget
ImplementsBudget == Budget!Spec

\* Every expansion ends, whatever the resolver answers.
Terminates == <>(frames = << >>)

=============================================================================
