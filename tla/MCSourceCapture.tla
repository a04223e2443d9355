--------------------------- MODULE MCSourceCapture ---------------------------
(* Instances of SourceCapture for TLC: two runs of one seed, as the lab makes. *)
EXTENDS SourceCapture

SameSeed == <<"same_a", "same_b">>
=============================================================================
