---------------------------- MODULE ProofControl ----------------------------
(***************************************************************************)
(* The proof ledger of one candidate generation (proof_control.py) with    *)
(* the gate records and the manifest of proof_gates.py.                    *)
(*                                                                         *)
(* Sessions are processes with a connection of their own.  Every operation *)
(* of the store reads first and writes in a later transaction, so the two  *)
(* are separate steps and other sessions may come between them.  A proof   *)
(* run is begin_proof, record_gate for each gate, seal_manifest; a session *)
(* that dies begins it again.                                              *)
(*                                                                         *)
(* Abstracted: payloads are compared as values; a gate record says which   *)
(* seal its evaluator looked at (its input digests), whether it is bound   *)
(* to this generation, frontier and schema set, and its verdict.  Shapes   *)
(* of records are taken to be valid, which validate_gate checks.           *)
(***************************************************************************)
EXTENDS Naturals

CONSTANTS
    Gates,      \* the required gates, eight in proof_gates.py
    Seals,      \* seals that callers may offer
    Results,    \* gate records that evaluators may offer
    Sessions,
    Null

VARIABLES
    alone,      \* whether operators run one session at a time; never changes
    generation, \* row of generations
    attempts,   \* input revision -> state of its row of attempts, or Null
    gates,      \* input revision -> gate -> row of gates, or Null
    pc,         \* session -> where it stands
    job         \* session -> what it has been given and has read

ledger == <<generation, attempts, gates>>
vars == <<alone, ledger, pc, job>>

-----------------------------------------------------------------------------
Revisions == 0 .. 2
States == {"NO_ROW", "CDC_APPLYING", "SEALED", "PROVING", "PROVEN"}
GateRecord == [seal : Seals, revision : Revisions, bound : BOOLEAN,
               verdict : {"PASS", "FAIL"}]
Manifest == [seal : Seals, revision : Revisions, gates : [Gates -> GateRecord]]
Row == [state : States, revision : Revisions, seal : Seals \cup {Null},
        manifest : Manifest \cup {Null}]
Job == [seal : Seals \cup {Null}, revision : Revisions, gate : Gates \cup {Null},
        record : GateRecord \cup {Null}, manifest : Manifest \cup {Null}]
NoJob == [seal |-> Null, revision |-> 0, gate |-> Null, record |-> Null, manifest |-> Null]
Labels == {"idle", "sealing", "beginning", "proving", "recording",
           "assembling", "proven"}

ASSUME NullAssumption ==
    Null \notin Seals \cup Gates \cup GateRecord \cup Manifest \cup {"OPEN", "SEALED"}
ASSUME ResultsAssumption == Results \subseteq GateRecord

TypeOK ==
    /\ alone \in BOOLEAN
    /\ generation \in Row
    /\ attempts \in [Revisions -> {"OPEN", "SEALED", Null}]
    /\ gates \in [Revisions -> [Gates -> GateRecord \cup {Null}]]
    /\ pc \in [Sessions -> Labels]
    /\ job \in [Sessions -> Job]

Init ==
    /\ alone \in BOOLEAN
    /\ generation = [state |-> "NO_ROW", revision |-> 0, seal |-> Null, manifest |-> Null]
    /\ attempts = [r \in Revisions |-> Null]
    /\ gates = [r \in Revisions |-> [g \in Gates |-> Null]]
    /\ pc = [s \in Sessions |-> "idle"]
    /\ job = [s \in Sessions |-> NoJob]

Goto(s, l, j) ==
    /\ pc' = [pc EXCEPT ![s] = l]
    /\ job' = [job EXCEPT ![s] = j]
    /\ UNCHANGED alone

(* A session that may begin a call. *)
Free(s) == pc[s] = "idle" /\ (alone => \A t \in Sessions : pc[t] = "idle")

-----------------------------------------------------------------------------
(* register_candidate: INSERT OR IGNORE. *)
RegisterCandidate(s) ==
    /\ Free(s)
    /\ generation' = IF generation.state = "NO_ROW"
                       THEN [generation EXCEPT !.state = "CDC_APPLYING"] ELSE generation
    /\ UNCHANGED <<alone, attempts, gates, pc, job>>

(* seal: what it wants of the row it reads.  The mutant wants nothing. *)
SealableAlways(seal) == generation.state # "NO_ROW"
Sealable(seal) ==
    generation.state \in {"CDC_APPLYING", "SEALED"} /\ generation.seal \in {Null, seal}

CheckSeal(s, seal) ==
    /\ Free(s)
    /\ Sealable(seal)
    /\ Goto(s, "sealing", [NoJob EXCEPT !.seal = seal])
    /\ UNCHANGED ledger

(* and what it writes, whatever the row has become. *)
WriteSeal(s) ==
    /\ pc[s] = "sealing"
    /\ generation' = [generation EXCEPT !.state = "SEALED", !.revision = 1, !.seal = job[s].seal]
    /\ Goto(s, "idle", NoJob)
    /\ UNCHANGED <<attempts, gates>>

(* begin_proof.  The mutant does not take up a proof that has begun. *)
ProvableOnce == generation.state = "SEALED"
Provable == generation.state \in {"SEALED", "PROVING"}

CheckBegin(s) ==
    /\ Free(s)
    /\ Provable
    /\ Goto(s, "beginning", [NoJob EXCEPT !.revision = generation.revision])
    /\ UNCHANGED ledger

(* The identity of an attempt is a digest of the generation and its revision. *)
WriteBegin(s) ==
    /\ pc[s] = "beginning"
    /\ attempts' = IF attempts[job[s].revision] = Null
                     THEN [attempts EXCEPT ![job[s].revision] = "OPEN"] ELSE attempts
    /\ generation' = [generation EXCEPT !.state = "PROVING"]
    /\ Goto(s, "proving", job[s])
    /\ UNCHANGED gates

-----------------------------------------------------------------------------
(* A result may be of another seal or revision, or of another frontier, schema
   set or generation: nothing here looks at that (validate_gate).  Where one
   session works at a time its gates are taken to be evaluated on the seal of
   the moment, which the code leaves to the evaluators. *)
Evaluated == {record \in Results : alone => record.seal = generation.seal}

(* record_gate: a different record of the same gate is a conflict, *)
CheckGate(s, g, record) ==
    /\ pc[s] = "proving"
    /\ record \in Evaluated
    /\ gates[job[s].revision][g] \in {Null, record}
    /\ Goto(s, "recording", [job[s] EXCEPT !.gate = g, !.record = record])
    /\ UNCHANGED ledger

(* if it is there to be seen: the write ignores one that came in between. *)
WriteGate(s) ==
    /\ pc[s] = "recording"
    /\ gates' = IF gates[job[s].revision][job[s].gate] = Null
                  THEN [gates EXCEPT ![job[s].revision][job[s].gate] = job[s].record]
                  ELSE gates
    /\ Goto(s, "proving", [NoJob EXCEPT !.revision = job[s].revision])
    /\ UNCHANGED <<generation, attempts>>

-----------------------------------------------------------------------------
(* seal_manifest reads the seal of the generation, *)
ReadSeal(s) ==
    /\ pc[s] = "proving"
    /\ attempts[job[s].revision] # Null
    /\ generation.seal # Null
    /\ Goto(s, "assembling", [job[s] EXCEPT !.seal = generation.seal])
    /\ UNCHANGED ledger

(* then the gates, of which it wants every one, passed and bound to this
   generation and revision (assemble_manifest).  The mutant does not look at
   the verdict. *)
AnyVerdict(record, revision) ==
    record # Null /\ record.bound /\ record.revision = revision
Passes(record, revision) ==
    record # Null /\ record.bound /\ record.revision = revision /\ record.verdict = "PASS"

Assemble(s) ==
    /\ pc[s] = "assembling"
    /\ IF \A g \in Gates : Passes(gates[job[s].revision][g], job[s].revision)
         THEN Goto(s, "proven", [job[s] EXCEPT !.manifest =
                 [seal |-> job[s].seal, revision |-> job[s].revision,
                  gates |-> gates[job[s].revision]]])
         ELSE Goto(s, "proving", [NoJob EXCEPT !.revision = job[s].revision])
    /\ UNCHANGED ledger

(* and writes the proof, whatever the row has become. *)
WriteManifest(s) ==
    /\ pc[s] = "proven"
    /\ attempts' = [attempts EXCEPT ![job[s].revision] = "SEALED"]
    /\ generation' = [generation EXCEPT !.state = "PROVEN", !.revision = 2,
                                        !.manifest = job[s].manifest]
    /\ Goto(s, "proving", [NoJob EXCEPT !.revision = job[s].revision])
    /\ UNCHANGED gates

(* A session dies, or is done. *)
Leave(s) ==
    /\ pc[s] # "idle"
    /\ Goto(s, "idle", NoJob)
    /\ UNCHANGED ledger

Next ==
    \E s \in Sessions :
        \/ RegisterCandidate(s)
        \/ \E seal \in Seals : CheckSeal(s, seal)
        \/ WriteSeal(s) \/ CheckBegin(s) \/ WriteBegin(s)
        \/ \E g \in Gates, record \in Results : CheckGate(s, g, record)
        \/ WriteGate(s) \/ ReadSeal(s) \/ Assemble(s) \/ WriteManifest(s)
        \/ Leave(s)

Spec == Init /\ [][Next]_vars

-----------------------------------------------------------------------------
(* Properties. *)

Backed(m) ==
    /\ attempts[m.revision] # Null
    /\ \A g \in Gates :
         /\ m.gates[g] = gates[m.revision][g]
         /\ m.gates[g].revision = m.revision
         /\ m.gates[g].bound
         /\ m.gates[g].verdict = "PASS"

(* However sessions race, a generation in state PROVEN has a manifest, and a
   manifest is the gates of the ledger: every required one, recorded in one
   attempt, passed and bound to this generation, frontier and schema set
   (seal_manifest with assemble_manifest). *)
ManifestBacked ==
    /\ generation.state = "PROVEN" => generation.manifest # Null
    /\ generation.manifest # Null => Backed(generation.manifest)

(* A gate that has been recorded is never replaced (record_gate). *)
GatesStay ==
    [][\A r \in Revisions, g \in Gates : gates[r][g] # Null => gates'[r][g] = gates[r][g]]_vars

(* What else a session in mid-call has to hold for ManifestBacked. *)
SessionSound(s) ==
    /\ pc[s] = "recording" => job[s].gate # Null /\ job[s].record # Null
    /\ pc[s] \in {"proving", "recording", "assembling", "proven"} =>
         attempts[job[s].revision] # Null
    /\ pc[s] = "assembling" => job[s].seal # Null
    /\ pc[s] = "proven" => job[s].manifest # Null /\ Backed(job[s].manifest)
IInv == TypeOK /\ ManifestBacked /\ \A s \in Sessions : SessionSound(s)

(* The state of a candidate never goes back.  The code does not keep this with
   two sessions (see Disagreements in the README). *)
Rank == [NO_ROW |-> 0, CDC_APPLYING |-> 1, SEALED |-> 2, PROVING |-> 3, PROVEN |-> 4]
StatesForward == [][Rank[generation.state] <= Rank[generation'.state]]_vars

(* Only a candidate that one session at a time works on is held to it. *)
Lifecycle == INSTANCE ProofLifecycle WITH
    Verdicts <- [Gates -> Seals],
    state <- IF alone THEN generation.state ELSE "NO_ROW",
    seal <- IF alone THEN generation.seal ELSE Null,
    proof <- IF alone /\ generation.manifest # Null
               THEN [g \in Gates |-> generation.manifest.gates[g].seal] ELSE Null

(* One session at a time, replays and deaths included, takes a candidate
   through the life of ADR-020: forwards, on one seal. *)
ImplementsProofLifecycle == Lifecycle!Spec

(* Proof runs are made again until the candidate is proven, every gate is
   evaluated again and again, and sessions stop dying in the end. *)
Finish(s) ==
    WriteSeal(s) \/ WriteBegin(s) \/ WriteGate(s) \/ Assemble(s)
        \/ WriteManifest(s)
Work(s) ==
    \/ RegisterCandidate(s) \/ Finish(s) \/ CheckBegin(s) \/ ReadSeal(s)
    \/ \E seal \in Seals : CheckSeal(s, seal)
    \/ \E g \in Gates, record \in Results : CheckGate(s, g, record)
Fairness ==
    /\ WF_vars(\E s \in Sessions : RegisterCandidate(s))
    /\ \A s \in Sessions : WF_vars(Finish(s))
    /\ SF_vars(\E s \in Sessions, seal \in Seals : CheckSeal(s, seal))
    /\ SF_vars(\E s \in Sessions : CheckBegin(s))
    /\ SF_vars(\E s \in Sessions : ReadSeal(s))
    /\ \A g \in Gates :
         SF_vars(\E s \in Sessions, record \in Results : CheckGate(s, g, record))
    /\ <>[][\E s \in Sessions : Work(s)]_vars
FairSpec == Spec /\ Fairness

(* One session at a time, the candidate is proven in the end, or a gate is in
   the ledger that can never pass: dying between two commits of a proof run
   costs nothing. *)
EventuallyProven ==
    alone ~> \/ generation.state = "PROVEN"
             \/ \E r \in Revisions, g \in Gates :
                  gates[r][g] # Null /\ ~Passes(gates[r][g], r)
=============================================================================
