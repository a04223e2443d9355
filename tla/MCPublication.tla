--------------------------- MODULE MCPublication ---------------------------
(* Instances of Publication for TLC. *)
EXTENDS Publication, TLC

(* These identities are only compared for equality. *)
Interchangeable ==
    Permutations(Products) \cup Permutations(Generations)
        \cup Permutations(Attempts) \cup Permutations(Sessions)

(* A pin or a flag is in use: the two are looked at apart, because a pin reads
   no flag and a flag no pin. *)
PinInUse ==
    \/ \E k \in Pins : pins[k] # Null
    \/ \E s \in Sessions : pc[s] \in {"pinning", "resolved"}
Flagged == \E g \in Generations : barred[g] # {}

(* Which states are explored further.  One product is followed through three
   revisions, and through two with a pin or with a flag; two products, which
   share the generations, through two revisions each. *)
Explored ==
    /\ ~(PinInUse /\ Flagged)
    /\ PinInUse \/ Flagged => Cardinality(events) <= 2
    /\ (\A p \in Products : clock[p].route # "NO_ROW") =>
         /\ ~PinInUse /\ ~Flagged
         /\ \A p \in Products : clock[p].revision <= 2
=============================================================================
