---------------------------- MODULE IncludeBudget ----------------------------
(***************************************************************************)
(* What the include pass promises its host about the work it does: sources *)
(* are obtained one at a time, at most MaxCalls of them, and the first     *)
(* whole-expansion total to run out is latched, after which the resolver   *)
(* is never called again.  Documents, directives and nesting are not       *)
(* mentioned; IncludeResolution is the pass itself and implements this.    *)
(***************************************************************************)
EXTENDS Naturals

CONSTANTS
    MaxCalls,   \* resolver calls one expansion may make
    MaxBytes,   \* source bytes one expansion may charge
    Size        \* the sizes a source may have

VARIABLES
    calls,      \* resolver calls made
    bytes,      \* source bytes charged
    spent       \* the total that ran out, "none" before one does

vars == <<calls, bytes, spent>>

TypeOK ==
    /\ calls \in 0..MaxCalls
    /\ bytes \in Nat
    /\ spent \in {"none", "include-call-limit", "include-budget"}

Init == calls = 0 /\ bytes = 0 /\ spent = "none"

MayRead == spent = "none" /\ calls < MaxCalls

\* A target that was not handed back, or was refused before it is charged.
ReadUncharged ==
    /\ MayRead
    /\ calls' = calls + 1
    /\ UNCHANGED <<bytes, spent>>

\* A source is charged in full; the one that overruns the total latches it.
ReadCharged(size) ==
    /\ MayRead
    /\ calls' = calls + 1
    /\ bytes' = bytes + size
    /\ spent' = IF bytes' > MaxBytes THEN "include-budget" ELSE "none"

Exhaust ==
    /\ spent = "none" /\ calls = MaxCalls
    /\ spent' = "include-call-limit"
    /\ UNCHANGED <<calls, bytes>>

Next == ReadUncharged \/ (\E size \in Size : ReadCharged(size)) \/ Exhaust

Spec == Init /\ [][Next]_vars
=============================================================================
