--------------------------- MODULE MCNodeIdentity ---------------------------
(* A parser of words: a word is a paragraph with a text in it, a bar is a     *)
(* break that has no position beside an element with no text, and a dash is   *)
(* two elements nothing tells apart.                                          *)
EXTENDS NodeIdentity, SequencesExt

MCChar == {"a", "e", "|", "-"}
MCWidth == [c \in MCChar |-> IF c = "e" THEN 2 ELSE 1]
MCFingerprint == {"document", "paragraph", "text", "break", "empty", "dash"} \X Source

InWord(s, k) == k \in DOMAIN s /\ s[k] \in {"a", "e"}
WordEnd(s, k) == CHOOSE m \in k..Len(s) : ~InWord(s, m + 1) /\ \A i \in k..m : InWord(s, i)
At(span, kind, text) == [span |-> span, print |-> <<kind, text>>]
NodesAt(s, k) ==
    CASE s[k] = "|" -> <<At(NoSpan, "break", << >>), At(<<k, k>>, "empty", << >>)>>
      [] s[k] = "-" -> <<At(<<k - 1, k>>, "dash", << >>), At(<<k - 1, k>>, "dash", << >>)>>
      [] InWord(s, k) /\ ~InWord(s, k - 1) ->
           LET word == SubSeq(s, k, WordEnd(s, k))
           IN <<At(<<k - 1, WordEnd(s, k)>>, "paragraph", word),
                At(<<k - 1, WordEnd(s, k)>>, "text", word)>>
      [] OTHER -> << >>
MCParse ==
    [s \in Source |->
      <<At(<<0, Len(s)>>, "document", s)>> \o FlattenSeq([k \in 1..Len(s) |-> NodesAt(s, k)])]
=============================================================================
