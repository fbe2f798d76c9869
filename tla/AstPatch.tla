-------------------------------- MODULE AstPatch --------------------------------
(***************************************************************************)
(* Patches between two documents (src/ast_patch.rs): edits by path, a      *)
(* document's children as a whole where their number changes, and pairs of *)
(* patches that are applied only to the document they were made for.       *)
(***************************************************************************)
EXTENDS Integers, SequencesExt

CONSTANT Absent

Refused == Absent
Keys == <<"hint", "kind", "text">>

-----------------------------------------------------------------------------
(* Building *)

\* A field that goes, comes or changes.
BuildField(before, after, path) ==
    IF before = after THEN << >>
    ELSE IF after = Absent THEN <<[op |-> "remove", path |-> path]>>
    ELSE <<[op |-> IF before = Absent THEN "add" ELSE "replace", path |-> path, value |-> after]>>

BuildBlock(before, after, i) ==
    FlattenSeq([k \in DOMAIN Keys |->
        BuildField(before[Keys[k]], after[Keys[k]], <<i, Keys[k]>>)])

Build(before, after) ==
    IF before = after THEN << >>
    ELSE IF Len(before) = Len(after)
    THEN FlattenSeq([i \in DOMAIN before |-> BuildBlock(before[i], after[i], i)])
    ELSE <<[op |-> "replace", path |-> << >>, value |-> after]>>

\* Fingerprints stand for the documents: no two documents here have one.
Reversible(before, after) ==
    [forward |-> Build(before, after), inverse |-> Build(after, before),
     before |-> before, after |-> after]
NoPatch == Absent

-----------------------------------------------------------------------------
(* Applying *)

\* A path must exist, but for what is added.
ApplyAt(doc, edit) ==
    IF edit.path = << >> THEN edit.value
    ELSE LET i == edit.path[1]
             key == edit.path[2]
         IN  IF i > Len(doc) \/ (edit.op # "add" /\ doc[i][key] = Absent) THEN Refused
             ELSE [doc EXCEPT ![i][key] = IF edit.op = "remove" THEN Absent ELSE edit.value]

\* The edits one after the other; the first that fails fails the patch.
Apply(doc, edits) ==
    FoldLeft(LAMBDA sofar, edit : IF sofar = Refused THEN Refused ELSE ApplyAt(sofar, edit),
             doc, edits)

\* Slip: the document is compared with the one the patch leads to.
ApplyMisdirected(doc, patch, inverse) ==
    IF doc # (IF inverse THEN patch.before ELSE patch.after) THEN Refused
    ELSE Apply(doc, IF inverse THEN patch.inverse ELSE patch.forward)

ApplyReversible(doc, patch, inverse) ==
    IF doc # (IF inverse THEN patch.after ELSE patch.before) THEN Refused
    ELSE Apply(doc, IF inverse THEN patch.inverse ELSE patch.forward)
===============================================================================
