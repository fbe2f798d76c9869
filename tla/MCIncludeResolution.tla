------------------------- MODULE MCIncludeResolution -------------------------
(* Three targets, sizes on both sides of the budget, a cap of one warning.  *)
EXTENDS IncludeResolution

=============================================================================
