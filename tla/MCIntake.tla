------------------------------- MODULE MCIntake -------------------------------
(* Instances of Intake for TLC. *)
EXTENDS Intake, TLC

CONSTANTS k1, k2, a, b, g

Of(op, key, before, after, tx, lsn, txseq, seq) ==
    [op |-> op, key |-> key, before |-> before, after |-> after, tx |-> tx,
     lsn |-> lsn, txseq |-> txseq, seq |-> seq, generation |-> g]

AtStart == k1 :> a @@ k2 :> None

(* A transaction of two events, and one that takes them back. *)
First == Of("update", k1, a, b, "t1", 2, 1, 1)
Second == Of("insert", k2, None, a, "t1", 2, 1, 2)
Third == Of("update", k1, b, a, "t2", 3, 2, 1)
Fourth == Of("delete", k2, a, None, "t2", 3, 2, 2)
There == {First, Second, Third, Fourth}

(* An event with another image, one from before the interval, one of another
   generation, one in another's place in its transaction. *)
Others == {[First EXCEPT !.after = a], [Third EXCEPT !.lsn = 1, !.tx = "t0"],
           [Third EXCEPT !.generation = None],
           Of("insert", k2, None, b, "t2", 3, 2, 1)}

(* The two writers of the workload: the one with the lower sequence commits
   second (materialize_workload, concurrency_schedule). *)
WriterA == Of("insert", k1, None, a, "writer-a", 3, 1, 1)
WriterB == Of("insert", k2, None, b, "writer-b", 2, 2, 1)
Concurrent == {WriterA, WriterB}
NoRows == k1 :> None @@ k2 :> None
Forgery == {[WriterA EXCEPT !.after = b]}

Object(s, e) == [start |-> s, end |-> e]
Cut == {Object(1, 2), Object(2, 3), Object(1, 3)}
=============================================================================
