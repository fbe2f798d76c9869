-------------------------- MODULE MCMigrateDirectory --------------------------
(* A page, an asset, and an asset named like the page's output.               *)
EXTENDS MigrateDirectory

MCEntries == <<"a.crv", "a.md", "b.png">>
MCMarkdown == {"a.md"}
MCOutputOf == [n \in {"a.crv", "a.md", "b.png"} |-> IF n = "a.md" THEN "a.crv" ELSE n]
===============================================================================
