----------------------------- MODULE SourceReplay -----------------------------
(***************************************************************************)
(* What the SQLite engine promises to readers: the rows of a generation    *)
(* are empty, and then those of the source at one commit position, which   *)
(* moves forwards only.                                                    *)
(***************************************************************************)
EXTENDS Naturals

CONSTANTS Generations,
          RowsAt,      \* commit position -> the rows of the source
          Empty        \* no rows
VARIABLES rows, position   \* of each generation; position 0 is none yet

vars == <<rows, position>>

Init ==
    /\ rows = [g \in Generations |-> Empty]
    /\ position = [g \in Generations |-> 0]

Advance(g, n) ==
    /\ n > position[g]
    /\ position' = [position EXCEPT ![g] = n]
    /\ rows' = [rows EXCEPT ![g] = RowsAt[n]]

Next == \E g \in Generations, n \in DOMAIN RowsAt : Advance(g, n)
Spec == Init /\ [][Next]_vars
=============================================================================
