--------------------------- MODULE MCSnapshotLoad ---------------------------
(* Instances of SnapshotLoad for TLC. *)
EXTENDS SnapshotLoad

CONSTANT good
SameSource == [t \in Tables |-> good]
=============================================================================
