-------------------------- MODULE AdmittedSnapshot --------------------------
(***************************************************************************)
(* What loading promises of one generation: the rows of a table land, then *)
(* the table is reconciled, and the generation is admitted to CDC once all *)
(* of its tables are.  Nothing is taken back.                              *)
(***************************************************************************)
CONSTANT Tables
VARIABLES landed, reconciled, admitted

vars == <<landed, reconciled, admitted>>

Init == landed = {} /\ reconciled = {} /\ admitted = FALSE

Land(t) == landed' = landed \cup {t} /\ UNCHANGED <<reconciled, admitted>>

Reconcile(t) ==
    /\ t \in landed
    /\ reconciled' = reconciled \cup {t}
    /\ UNCHANGED <<landed, admitted>>

Admit == reconciled = Tables /\ admitted' = TRUE /\ UNCHANGED <<landed, reconciled>>

Next == Admit \/ \E t \in Tables : Land(t) \/ Reconcile(t)
Spec == Init /\ [][Next]_vars
=============================================================================
