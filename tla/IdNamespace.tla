------------------------------ MODULE IdNamespace ------------------------------
(***************************************************************************)
(* What the ids of a render promise (src/document_ids.rs): renders nest,   *)
(* each has its own namespace, only the innermost one hands out ids, an id *)
(* it hands out was free, and none is given back before the render ends.   *)
(***************************************************************************)
EXTENDS Naturals, Sequences

VARIABLES
    taken,      \* the ids in use in each render under way
    handed      \* the ids each of them handed out, in order

vars == <<taken, handed>>

Innermost == Len(taken)

Init == taken = << >> /\ handed = << >>

\* A render starts with the ids its document has, and has handed out none.
Open ==
    /\ Len(taken') = Innermost + 1
    /\ \A i \in 1..Innermost : taken'[i] = taken[i]
    /\ handed' = Append(handed, << >>)

\* An id that was free is handed out, and is in use from now on.
Take ==
    /\ Innermost > 0 /\ Len(taken') = Innermost
    /\ \E id \in taken'[Innermost] \ taken[Innermost] :
           /\ taken' = [taken EXCEPT ![Innermost] = @ \cup {id}]
           /\ handed' = [handed EXCEPT ![Innermost] = Append(@, id)]

Close ==
    /\ Innermost > 0
    /\ taken' = SubSeq(taken, 1, Innermost - 1)
    /\ handed' = SubSeq(handed, 1, Innermost - 1)

Next == Open \/ Take \/ Close

Spec == Init /\ [][Next]_vars
===============================================================================
