------------------------------ MODULE GrantLog ------------------------------
(***************************************************************************)
(* What the agreement on the scroll holder promises, without messages.     *)
(* An authority issues numbered grants, and begins again at number 0 when  *)
(* it restarts.  Each party holds one issued grant, or none.  A party that *)
(* moves to another grant moves to one with a higher number, except that   *)
(* it may always move to a grant that answers a request of its own: one    *)
(* that names the party itself or the authority.  So a party never takes   *)
(* an older word about another party for a newer one, and never holds a    *)
(* grant nobody issued.                                                    *)
(***************************************************************************)
EXTENDS Naturals

CONSTANTS Parties, Authority, Nobody

VARIABLES
    current, \* the authority's latest grant
    issued,  \* every grant made so far
    held     \* per party, the grant it holds

vars == <<current, issued, held>>

Nothing == [peer |-> Nobody, clock |-> 0, epoch |-> 0]

Init ==
    /\ current = [Nothing EXCEPT !.epoch = 1]
    /\ issued = {}
    /\ held = [p \in Parties |-> Nothing]

\* The authority makes the next grant, to a party or to itself.
Issue ==
    /\ \E p \in Parties \cup {Authority} :
           current' = [peer |-> p, clock |-> current.clock + 1, epoch |-> current.epoch]
    /\ issued' = issued \cup {current'}
    /\ UNCHANGED held

\* The authority restarts: nobody holds the scroll and the numbers start over.
Restart ==
    /\ current' = [Nothing EXCEPT !.epoch = current.epoch + 1]
    /\ UNCHANGED <<issued, held>>

\* A party learns of a grant.
Adopt(p) ==
    /\ \E g \in issued :
           /\ g.clock > held[p].clock \/ g.peer \in {p, Authority}
           /\ held' = [held EXCEPT ![p] = g]
    /\ UNCHANGED <<current, issued>>

\* A party restarts, or is told to start over.
Forget(p) ==
    /\ held' = [held EXCEPT ![p] = Nothing]
    /\ UNCHANGED <<current, issued>>

Next == Issue \/ Restart \/ \E p \in Parties : Adopt(p) \/ Forget(p)

Spec == Init /\ [][Next]_vars
=============================================================================
