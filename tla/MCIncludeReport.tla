--------------------------- MODULE MCIncludeReport ---------------------------
(* Two rules beside that of the renames.                                     *)
EXTENDS IncludeReport
=============================================================================
