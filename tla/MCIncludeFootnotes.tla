------------------------- MODULE MCIncludeFootnotes -------------------------
(* One name, written bare and with the suffix a rename would choose.        *)
EXTENDS IncludeFootnotes

CONSTANT note

Names == {note}
AnyLabels == SUBSET {<<note>>, <<note, 2>>}
OneLabel == {{<<note>>}}
=============================================================================
