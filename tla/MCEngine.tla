------------------------------- MODULE MCEngine -------------------------------
(* Instances of Engine for TLC. *)
EXTENDS Engine, TLC

CONSTANTS k1, k2, old, new, newer, g1, g2

T(id, lsn, writes) == [id |-> id, lsn |-> lsn, writes |-> writes]
T2 == T("t2", 2, k1 :> new)
T3 == T("t3", 3, k1 :> Null @@ k2 :> new)
T4 == T("t4", 4, k1 :> newer)
Source == {T2, T3, T4}
AtStart == k1 :> old @@ k2 :> Null

Batch(id, start, end, txns) == [id |-> id, start |-> start, end |-> end, txns |-> txns]

(* Batches of one and of several transactions, which overlap; one that brings
   a transaction again with other contents.  The second generation gets only
   its snapshot. *)
Sent == g1 :> {Batch("b12", 1, 2, <<T2>>), Batch("b13", 1, 3, <<T2, T3>>),
               Batch("b23", 2, 3, <<T3>>), Batch("b24", 2, 4, <<T3, T4>>),
               Batch("b34", 3, 4, <<T4>>),
               Batch("changed", 2, 4, <<T("t2", 4, k2 :> newer)>>)}
        @@ g2 :> {}
=============================================================================
