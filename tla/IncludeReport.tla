---------------------------- MODULE IncludeReport ----------------------------
(***************************************************************************)
(* The warnings of an include expansion (src/includes.rs): a capped list   *)
(* in which a rename is announced before its name is known, and from which *)
(* finish_renames takes back the announcements that came to nothing.       *)
(* IncludeReservations says which placeholders get a name; here that is    *)
(* the environment's choice.  The two loops of finish_renames are steps:   *)
(* one for each placeholder, then one for each announcement taken back.    *)
(***************************************************************************)
EXTENDS Naturals, Sequences, FiniteSets

CONSTANTS
    OtherRule,      \* the rules of the other warnings
    MaxWarnings,    \* IncludeOptions
    MaxEvents       \* bound: warnings raised in one expansion

RenameRule == "include-id-rename"
Rule == OtherRule \cup {RenameRule}
ASSUME RuleAssumption == RenameRule \notin OtherRule
ASSUME ReportBounds == MaxWarnings \in Nat /\ MaxEvents \in Nat

VARIABLES
    warnings,   \* the warnings shown: rule, the placeholder named in it or 0, named
    suppressed,
    seen,       \* seen_rules
    pending,    \* pending_renames: where each placeholder's warning is, 0 for nowhere
    unsaid,     \* places of the warnings to take back
    phase,      \* the expansion, the loop over the placeholders, the removal, the end
    raised,     \* observer: warnings raised, one by one
    fates       \* observer: what became of each placeholder

reportVars == <<warnings, suppressed, seen, pending, unsaid, phase, raised, fates>>

ReportInit ==
    /\ warnings = << >> /\ suppressed = 0 /\ seen = {} /\ pending = << >>
    /\ unsaid = << >> /\ phase = "expanding"
    /\ raised = << >> /\ fates = << >>

Open == phase = "expanding" /\ Len(raised) < MaxEvents

\* Slip: once the list is full nothing is added.
CappedHard(rule) == Len(warnings) >= MaxWarnings
Capped(rule) == Len(warnings) >= MaxWarnings /\ rule \in seen

\* warn_with_position
Raise(rule, mark) ==
    /\ raised' = Append(raised, rule)
    /\ IF Capped(rule)
       THEN suppressed' = suppressed + 1 /\ UNCHANGED <<warnings, seen>>
       ELSE /\ warnings' = Append(warnings, [rule |-> rule, mark |-> mark, named |-> FALSE])
            /\ seen' = seen \cup {rule}
            /\ UNCHANGED suppressed

Warn(rule) ==
    /\ Open
    /\ Raise(rule, 0)
    /\ UNCHANGED <<pending, unsaid, phase, fates>>

\* defer_rename: the warning's place is kept only if it was shown.
DeferRename ==
    /\ Open
    /\ Raise(RenameRule, Len(pending) + 1)
    /\ pending' = Append(pending, IF Len(warnings') > Len(warnings) THEN Len(warnings') ELSE 0)
    /\ UNCHANGED <<unsaid, phase, fates>>

-----------------------------------------------------------------------------
\* A placeholder's element never reached the output, or its own id was free after
\* all, or it got another name.
Fate == {"absent", "free", "renamed"}

FinishRenames ==
    /\ phase = "expanding"
    /\ phase' = "naming"
    /\ UNCHANGED <<warnings, suppressed, seen, pending, unsaid, raised, fates>>

\* A rename that came to nothing: its warning, if it was shown, is to be removed.
Unsay(fate) ==
    /\ phase = "naming" /\ pending # << >>
    /\ fate # "renamed"
    /\ pending' = Tail(pending)
    /\ unsaid' = IF Head(pending) = 0 THEN unsaid ELSE Append(unsaid, Head(pending))
    /\ fates' = Append(fates, fate)
    /\ UNCHANGED <<warnings, suppressed, seen, phase, raised>>

\* A rename with its name known: the placeholder in its warning is replaced.
NameRename ==
    /\ phase = "naming" /\ pending # << >>
    /\ pending' = Tail(pending)
    /\ warnings' = IF Head(pending) = 0 THEN warnings
                   ELSE [warnings EXCEPT ![Head(pending)].named = TRUE]
    /\ fates' = Append(fates, "renamed")
    /\ UNCHANGED <<suppressed, seen, unsaid, phase, raised>>

StartRemoving ==
    /\ phase = "naming" /\ pending = << >>
    /\ phase' = "removing"
    /\ UNCHANGED <<warnings, suppressed, seen, pending, unsaid, raised, fates>>

\* Vec::remove: every later warning moves up by one.
WithoutPlace(list, i) == SubSeq(list, 1, i - 1) \o SubSeq(list, i + 1, Len(list))

\* Slip: taken out from the front, so every later place is off by one.
TakeOutForward ==
    /\ phase = "removing" /\ unsaid # << >>
    /\ warnings' = WithoutPlace(warnings, Head(unsaid))
    /\ unsaid' = Tail(unsaid)
    /\ UNCHANGED <<suppressed, seen, pending, phase, raised, fates>>

\* From the back, so that the places before it still hold.
TakeOut ==
    /\ phase = "removing" /\ unsaid # << >>
    /\ warnings' = WithoutPlace(warnings, unsaid[Len(unsaid)])
    /\ unsaid' = SubSeq(unsaid, 1, Len(unsaid) - 1)
    /\ UNCHANGED <<suppressed, seen, pending, phase, raised, fates>>

FinishReport ==
    /\ phase = "removing" /\ unsaid = << >>
    /\ phase' = "done"
    /\ UNCHANGED <<warnings, suppressed, seen, pending, unsaid, raised, fates>>

Reported == phase = "done" /\ UNCHANGED reportVars

ReportNext ==
    \/ \E rule \in OtherRule : Warn(rule)
    \/ DeferRename
    \/ FinishRenames
    \/ \E fate \in Fate : Unsay(fate)
    \/ NameRename
    \/ StartRemoving \/ TakeOut \/ FinishReport
    \/ Reported

ReportSpec == ReportInit /\ [][ReportNext]_reportVars

-----------------------------------------------------------------------------
Warning == [rule : Rule, mark : Nat, named : BOOLEAN]

ReportTypeOK ==
    /\ warnings \in Seq(Warning)
    /\ suppressed \in Nat
    /\ seen \subseteq Rule
    /\ pending \in Seq(0..Len(warnings))
    /\ unsaid \in Seq(1..Len(warnings))
    /\ phase \in {"expanding", "naming", "removing", "done"}
    /\ raised \in Seq(Rule)
    /\ fates \in Seq(Fate)

\* No rename warning is left of a rename that came to nothing, and every one that is left
\* bears the name that was given: finish_renames names and takes out the right ones.
ToldAsNamed ==
    phase = "done" =>
      \A i \in DOMAIN warnings :
        IF warnings[i].rule = RenameRule
          THEN /\ warnings[i].named
               /\ warnings[i].mark \in DOMAIN fates /\ fates[warnings[i].mark] = "renamed"
          ELSE ~warnings[i].named

\* "One warning per distinct rule always survives", whatever is taken back: of every
\* rule but that of the renames.  The warnings neither shown nor taken back are counted.
OthersSurvive ==
    /\ \A r \in DOMAIN raised : raised[r] # RenameRule =>
         \E i \in DOMAIN warnings : warnings[i].rule = raised[r]
    /\ phase \in {"expanding", "naming"} => Len(warnings) + suppressed = Len(raised)

=============================================================================
