----------------------------- MODULE MCDocumentIds -----------------------------
(* Small documents for DocumentIds: bodies of up to three sites that ask for *)
(* the ids a and a-2, some of them in containers that not every walk enters, *)
(* up to two notes in either order, and citations.                           *)
EXTENDS DocumentIds

CONSTANTS wa, wb, wk    \* the words of slugs and keys

Bare(kind, id, authored, name, use) ==
    [kind |-> kind, id |-> id, authored |-> authored, name |-> name, use |-> use, within |-> "open"]
In(site, container) == [site EXCEPT !.within = container]
Auto(name) == Bare("heading", NoId, FALSE, name, 0)
Own(kind, id) == Bare(kind, id, TRUE, <<wb>>, 0)
Widget(name) == Bare("widget", NoId, FALSE, name, 0)
Citation(n) == Bare("cite", NoId, FALSE, <<wk>>, n)
Entry == Bare("entry", NoId, FALSE, <<wk>>, 0)
Nested == Bare("nest", NoId, FALSE, <<wb>>, 0)
A == <<wa>>
A2 == <<wa, 2>>

Doc(parts, source, refs) ==
    [parts |-> [n \in 0..Len(source) |-> parts[n + 1]], source |-> source, refs |-> refs]

Bodies == SeqOf({Auto(A), Auto(A2), Own("heading", A2), Own("inline", A2), Own("block", A), Widget(A)}, 3)
Cited == {<<Auto(<<Cite, wk, 1>>), Citation(1), Citation(2), Entry>>,
          <<Citation(1), Own("block", <<Ref, wk>>), Widget(<<Ref, wk>>), Entry>>,
          <<Widget(<<Cite, wk, 1>>), Citation(0), Citation(1), Entry>>}
Nesting == {<<Widget(A), Nested, Widget(A)>>, <<Nested, Auto(A), Widget(A)>>}

Held == SeqOf({Auto(A), Own("heading", A2), In(Auto(A), "closed"), In(Auto(A2), "closed"),
               In(Own("block", A2), "closed"), In(Auto(A), "figure"), In(Own("heading", A), "figure")}, 3)

Notes == {<<Auto(A)>>, <<Own("inline", <<wa, 3>>), Auto(A)>>, <<Auto(A), Auto(A)>>}

MCWord == {wa, wb, wk, Cite, Ref}
MCDocument ==
    {Doc(<<body>>, << >>, << >>) : body \in Bodies \cup Held \cup Cited \cup Nesting}
    \cup {Doc(<<body, note>>, <<1>>, refs) :
             body \in Bodies, note \in Notes, refs \in {<< >>, <<1>>}}
    \cup {Doc(<<body, <<Auto(A)>>, note>>, source, refs) :
             body \in {b \in Bodies : Len(b) < 3}, note \in Notes,
             source \in {<<1, 2>>, <<2, 1>>},
             refs \in {<<1>>, <<2>>, <<1, 2>>, <<2, 1>>}}
MCInner == {Doc(<<<<Auto(A), Widget(A)>>>>, << >>, << >>)}
MCAdded == {Auto(A), In(Auto(A), "closed")}
Ast == <<"stamp", "extend", "index", "render">>
Facade == <<"index", "stamp", "render", "render">>
Extended == <<"index", "stamp", "extend", "index", "render", "render">>
Raw == <<"index", "render", "render">>
MCPlan == {Ast, Facade, Extended, Raw}
FacadeOnly == {Facade}
===============================================================================
