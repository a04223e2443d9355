--------------------------- MODULE MCOrchestrator ---------------------------
(* Instances of Orchestrator for TLC. *)
EXTENDS Orchestrator, TLC

CONSTANTS orders, g1, g2, a1, a2, k1, k2, k3, r1, r2, s1, s2

Asks(action, generation, attempt, expected) ==
    [attempt |-> attempt, action |-> action, product |-> orders,
     generation |-> generation, expected |-> expected]

First == [op |-> "publish", run |-> r1, request |-> Asks("PUBLISH", g1, a1, 0), pin |-> k1]
Second == [op |-> "publish", run |-> r2, request |-> Asks("PUBLISH", g2, a2, 1), pin |-> k2]
Back == [op |-> "fallback", run |-> r1, request |-> Asks("FALLBACK", Null, a2, 1), pin |-> k3]

(* Two publications, each in a run of its own, the second over the first, and
   a fallback of the first run that names the attempt of the second.  Either
   process may make the first publication, again and while the other does. *)
TwoOperators == s1 :> {First, Back} @@ s2 :> {First, Second}
=============================================================================
