---------------------------- MODULE MCRenderBudget ----------------------------
(* Sizes near the floor, so that a few steps spend it.                      *)
EXTENDS RenderBudget, TLC

CONSTANTS plain, expanded
Texts == plain :> 400000 @@ expanded :> 0
Expansions == plain :> 0 @@ expanded :> 600000
Names == plain :> 200000 @@ expanded :> 200000
===============================================================================
