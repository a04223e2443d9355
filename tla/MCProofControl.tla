---------------------------- MODULE MCProofControl ----------------------------
(* An instance of ProofControl for TLC. *)
EXTENDS ProofControl

CONSTANTS x1, x2

Of(seal, revision, bound, verdict) ==
    [seal |-> seal, revision |-> revision, bound |-> bound, verdict |-> verdict]

(* Passed on either seal, in the first attempt or in one of the revision that
   a race may leave; failed; of a stale revision; of another generation. *)
Offered ==
    {Of(x1, 1, TRUE, "PASS"), Of(x2, 1, TRUE, "PASS"), Of(x1, 2, TRUE, "PASS"),
     Of(x1, 1, TRUE, "FAIL"), Of(x2, 0, TRUE, "PASS"), Of(x2, 1, FALSE, "PASS")}
=============================================================================
