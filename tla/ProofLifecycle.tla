--------------------------- MODULE ProofLifecycle ---------------------------
(***************************************************************************)
(* The life of a candidate as ADR-020 has it: registered, sealed once,     *)
(* proving, and proven by gates that all passed on that seal.              *)
(***************************************************************************)
EXTENDS Naturals

CONSTANTS
    Seals,
    Verdicts,   \* what a proof may consist of: gate -> seal it was evaluated on
    Null

VARIABLES
    state, seal,
    proof       \* Null, or gate -> seal

vars == <<state, seal, proof>>

Init == state = "NO_ROW" /\ seal = Null /\ proof = Null

Register ==
    /\ state = "NO_ROW"
    /\ state' = "CDC_APPLYING"
    /\ UNCHANGED <<seal, proof>>

Seal ==
    /\ state = "CDC_APPLYING"
    /\ state' = "SEALED"
    /\ seal' \in Seals
    /\ UNCHANGED proof

Begin ==
    /\ state = "SEALED"
    /\ state' = "PROVING"
    /\ UNCHANGED <<seal, proof>>

Prove ==
    /\ state = "PROVING"
    /\ state' = "PROVEN"
    /\ proof' \in Verdicts
    /\ \A g \in DOMAIN proof' : proof'[g] = seal
    /\ UNCHANGED seal

Next == Register \/ Seal \/ Begin \/ Prove

Spec == Init /\ [][Next]_vars
=============================================================================
