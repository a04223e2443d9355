----------------------------- MODULE MCCdcApply -----------------------------
(* Instances of CdcApply for TLC: a source of three transactions on two
   tables, with every operation, a transaction on both tables, an update that
   changes nothing and a row that is deleted and inserted again. *)
EXTENDS CdcApply, TLC

CONSTANTS k1, k2, a, b

Rec(seq, table, key, before, after) ==
    [seq |-> seq, table |-> table, key |-> key, before |-> before, after |-> after]

TwoKeys == {k1, k2}
TwoValues == {a, b}
OldOrders == <<[k \in TwoKeys |-> Null], [k \in TwoKeys |-> IF k = k1 THEN a ELSE Null]>>

ThreeTransactions == <<
    {Rec(1, 1, k1, Null, a), Rec(2, 2, k1, a, b), Rec(3, 1, k2, Null, b)},
    {Rec(1, 1, k1, a, a), Rec(2, 2, k1, b, Null)},
    {Rec(1, 2, k1, Null, a), Rec(2, 1, k1, a, b)} >>

(* Two transactions change one row in turn, the second of them back. *)
BackAndForth == <<
    {Rec(1, 1, k1, Null, a), Rec(2, 2, k1, a, b)},
    {Rec(1, 2, k1, b, a)} >>

OneEach == {[previous |-> t - 1, terminal |-> t] : t \in Txns}
OneEachOrAll == OneEach \cup {[previous |-> 0, terminal |-> Len(History)]}

(* The captured changes are those of a source: each before image is what the
   row was, and a row changes at most once in a transaction. *)
ASSUME ChangesFitTheSource ==
    \A t \in Txns : \A c, d \in History[t] :
        /\ SourceRows[t - 1][c.table][c.key] = c.before
        /\ (c.table = d.table /\ c.key = d.key) => c = d

Interchangeable == Permutations(Workers)
=============================================================================
