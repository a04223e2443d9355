--------------------------- MODULE RouteRegister ---------------------------
(***************************************************************************)
(* What the publication store promises its callers, without tables,        *)
(* attempts, events or sessions: every product has one route, which is the *)
(* source or one generation, and a revision that counts the changes of the *)
(* route.  A generation enters service once by being published, may come   *)
(* back by a rollback while it has not been withdrawn, and never serves    *)
(* again through a change made after it was withdrawn.                     *)
(***************************************************************************)
EXTENDS Naturals

CONSTANTS Products, Generations, Source

VARIABLES
    route,      \* product -> Source or the generation that serves it
    revision,   \* product -> number of route changes so far
    used,       \* generations some product has published
    withdrawn   \* generations a rollback has taken out of service

vars == <<route, revision, used, withdrawn>>

Init ==
    /\ route = [p \in Products |-> Source]
    /\ revision = [p \in Products |-> 0]
    /\ used = {}
    /\ withdrawn = {}

MoveTo(p, target) ==
    /\ route' = [route EXCEPT ![p] = target]
    /\ revision' = [revision EXCEPT ![p] = @ + 1]

(* A generation that never served is put in service. *)
Publish(p, g) ==
    /\ g \notin used \cup withdrawn
    /\ MoveTo(p, g)
    /\ used' = used \cup {g}
    /\ UNCHANGED withdrawn

(* Service returns to the source; the generation keeps its standing. *)
Fallback(p) ==
    /\ route[p] # Source
    /\ MoveTo(p, Source)
    /\ UNCHANGED <<used, withdrawn>>

(* Service moves to another generation that served before and was not
   withdrawn; the one that served is withdrawn. *)
Rollback(p, g) ==
    /\ route[p] \notin {Source, g}
    /\ g \in used \ withdrawn
    /\ MoveTo(p, g)
    /\ withdrawn' = withdrawn \cup {route[p]}
    /\ UNCHANGED used

Next ==
    \E p \in Products :
        \/ Fallback(p)
        \/ \E g \in Generations : Publish(p, g) \/ Rollback(p, g)

Spec == Init /\ [][Next]_vars
=============================================================================
