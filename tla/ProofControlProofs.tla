------------------------- MODULE ProofControlProofs -------------------------
(***************************************************************************)
(* Theorems of ProofControl for any number of sessions, gates and seals.   *)
(* IInv is inductive; the properties follow from it.                       *)
(***************************************************************************)
EXTENDS ProofControl, TLAPS

-----------------------------------------------------------------------------
(* Types. *)

LEMMA NoJobType == NoJob \in Job
  BY DEF NoJob, Job, Revisions

LEMMA NullApart ==
    /\ Null \notin GateRecord
    /\ Null \notin Manifest
    /\ Null \notin Seals
    /\ Null \notin Gates
    /\ Null # "OPEN" /\ Null # "SEALED"
  BY NullAssumption

LEMMA RevisionNumbers == 0 \in Revisions /\ 1 \in Revisions /\ 2 \in Revisions
  BY DEF Revisions

(* Moving a session keeps the session variables well typed. *)
LEMMA GotoType ==
    ASSUME TypeOK, NEW s \in Sessions, NEW l \in Labels, NEW j \in Job, Goto(s, l, j)
    PROVE  /\ pc' \in [Sessions -> Labels] /\ job' \in [Sessions -> Job]
           /\ alone' \in BOOLEAN
  BY DEF Goto, TypeOK

(* A session that goes on without its reads keeps the revision of its attempt. *)
LEMMA RevisionOnlyType ==
    ASSUME TypeOK, NEW s \in Sessions
    PROVE  [NoJob EXCEPT !.revision = job[s].revision] \in Job
  <1>1. job[s].revision \in Revisions
    BY DEF TypeOK, Job
  <1> QED
    BY <1>1, NoJobType DEF NoJob, Job

LEMMA InitInv == Init => IInv
  <1> SUFFICES ASSUME Init PROVE IInv
    OBVIOUS
  <1>1. TypeOK
    BY NoJobType DEF Init, TypeOK, Row, States, Revisions, Labels
  <1>2. ManifestBacked
    BY DEF Init, ManifestBacked
  <1>3. \A s \in Sessions : SessionSound(s)
    BY DEF Init, SessionSound
  <1> QED
    BY <1>1, <1>2, <1>3 DEF IInv

(* What assembling leaves with the session: a manifest of the gates as they
   are, each passed, or only the revision. *)
LEMMA AssembleType ==
    ASSUME IInv, NEW s \in Sessions, Assemble(s)
    PROVE  /\ pc' \in [Sessions -> Labels] /\ job' \in [Sessions -> Job]
           /\ alone' \in BOOLEAN
           /\ pc'[s] \in {"proven", "proving"}
           /\ job'[s].revision = job[s].revision
           /\ pc'[s] = "proven" => job'[s].manifest # Null /\ Backed(job'[s].manifest)
  <1> DEFINE r == job[s].revision
             m == [seal |-> job[s].seal, revision |-> r, gates |-> gates[r]]
             j == [job[s] EXCEPT !.manifest = m]
             k == [NoJob EXCEPT !.revision = r]
  <1>1. TypeOK /\ SessionSound(s) /\ job[s] \in Job /\ r \in Revisions /\ pc[s] = "assembling"
    BY DEF IInv, TypeOK, Job, Assemble
  <1>2. CASE \A g \in Gates : Passes(gates[r][g], r)
    <2>1. \A g \in Gates : gates[r][g] \in GateRecord
      <3>1. \A g \in Gates : gates[r][g] # Null
        BY <1>2 DEF Passes
      <3>2. gates[r] \in [Gates -> GateRecord \cup {Null}]
        BY <1>1 DEF TypeOK
      <3> QED
        BY <3>1, <3>2
    <2>2. gates[r] \in [Gates -> GateRecord]
      BY <1>1, <2>1 DEF TypeOK
    <2>3. job[s].seal \in Seals
      BY <1>1 DEF SessionSound, Job
    <2>4. m \in Manifest
      BY <1>1, <2>2, <2>3 DEF Manifest
    <2>5. m # Null
      BY <2>4, NullApart
    <2>6. Backed(m)
      BY <1>1, <1>2, <2>1 DEF Backed, SessionSound, Passes
    <2>7. j \in Job /\ j.manifest = m /\ j.revision = r
      BY <1>1, <2>4 DEF Job
    <2>8. Goto(s, "proven", j)
      BY <1>2 DEF Assemble
    <2>9. pc' \in [Sessions -> Labels] /\ job' \in [Sessions -> Job] /\ alone' \in BOOLEAN
      BY <1>1, <2>7, <2>8, GotoType DEF Labels
    <2>10. pc'[s] = "proven" /\ job'[s] = j
      BY <1>1, <2>8 DEF Goto, TypeOK
    <2> QED
      BY <2>5, <2>6, <2>7, <2>9, <2>10
  <1>3. CASE ~(\A g \in Gates : Passes(gates[r][g], r))
    <2>1. Goto(s, "proving", k)
      BY <1>3 DEF Assemble
    <2>2. k \in Job /\ k.revision = r
      BY <1>1, RevisionOnlyType, NoJobType DEF Job
    <2>3. pc' \in [Sessions -> Labels] /\ job' \in [Sessions -> Job] /\ alone' \in BOOLEAN
      BY <1>1, <2>1, <2>2, GotoType DEF Labels
    <2>4. pc'[s] = "proving" /\ job'[s] = k
      BY <1>1, <2>1 DEF Goto, TypeOK
    <2> QED
      BY <2>2, <2>3, <2>4
  <1> QED
    BY <1>2, <1>3

(* Every step keeps the types. *)
LEMMA TypeStep ==
    ASSUME IInv, Next
    PROVE  TypeOK'
  <1> USE DEF IInv
  <1>1. PICK s \in Sessions :
           \/ RegisterCandidate(s)
           \/ \E seal \in Seals : CheckSeal(s, seal)
           \/ WriteSeal(s) \/ CheckBegin(s) \/ WriteBegin(s)
           \/ \E g \in Gates, record \in Results : CheckGate(s, g, record)
           \/ WriteGate(s) \/ ReadSeal(s) \/ Assemble(s) \/ WriteManifest(s)
           \/ Leave(s)
    BY DEF Next
  <1>2. /\ job[s] \in Job
        /\ generation \in Row
        /\ job[s].revision \in Revisions
        /\ SessionSound(s)
        /\ TypeOK
    BY DEF TypeOK, Job
  <1>3. CASE RegisterCandidate(s)
    BY <1>2, <1>3 DEF RegisterCandidate, TypeOK, Row, States
  <1>4. CASE \E seal \in Seals : CheckSeal(s, seal)
    <2> PICK seal \in Seals : CheckSeal(s, seal)
      BY <1>4
    <2>1. [NoJob EXCEPT !.seal = seal] \in Job
      BY NoJobType DEF NoJob, Job
    <2> QED
      BY <1>2, <2>1, GotoType DEF CheckSeal, TypeOK, ledger, Labels
  <1>5. CASE WriteSeal(s)
    <2>1. generation' \in Row
      <3>1. job[s].seal \in Seals \cup {Null}
        BY <1>2 DEF Job
      <3> QED
        BY <1>2, <1>5, <3>1, RevisionNumbers DEF WriteSeal, Row, States
    <2> QED
      BY <1>2, <1>5, <2>1, NoJobType, GotoType DEF WriteSeal, TypeOK, Labels
  <1>6. CASE CheckBegin(s)
    <2>1. [NoJob EXCEPT !.revision = generation.revision] \in Job
      BY <1>2, NoJobType DEF NoJob, Job, Row
    <2> QED
      BY <1>2, <1>6, <2>1, GotoType DEF CheckBegin, TypeOK, ledger, Labels
  <1>7. CASE WriteBegin(s)
    <2>1. generation' \in Row /\ attempts' \in [Revisions -> {"OPEN", "SEALED", Null}]
      BY <1>2, <1>7 DEF WriteBegin, Row, States, TypeOK
    <2> QED
      BY <1>2, <1>7, <2>1, GotoType DEF WriteBegin, TypeOK, Labels
  <1>8. CASE \E g \in Gates, record \in Results : CheckGate(s, g, record)
    <2> PICK g \in Gates, record \in Results : CheckGate(s, g, record)
      BY <1>8
    <2>1. [job[s] EXCEPT !.gate = g, !.record = record] \in Job
      BY <1>2, ResultsAssumption DEF Job
    <2> QED
      BY <1>2, <2>1, GotoType DEF CheckGate, TypeOK, ledger, Labels
  <1>9. CASE WriteGate(s)
    <2>1. job[s].gate \in Gates /\ job[s].record \in GateRecord
      BY <1>2, <1>9 DEF WriteGate, SessionSound, Job
    <2>2. gates' \in [Revisions -> [Gates -> GateRecord \cup {Null}]]
      BY <1>2, <1>9, <2>1 DEF WriteGate, TypeOK
    <2> QED
      BY <1>2, <1>9, <2>2, RevisionOnlyType, GotoType DEF WriteGate, TypeOK, Labels
  <1>10. CASE ReadSeal(s)
    <2>1. [job[s] EXCEPT !.seal = generation.seal] \in Job
      BY <1>2 DEF Job, Row
    <2> QED
      BY <1>2, <1>10, <2>1, GotoType DEF ReadSeal, TypeOK, ledger, Labels
  <1>11. CASE Assemble(s)
    BY <1>2, <1>11, AssembleType DEF Assemble, TypeOK, ledger, Labels
  <1>12. CASE WriteManifest(s)
    <2>1. generation' \in Row /\ attempts' \in [Revisions -> {"OPEN", "SEALED", Null}]
      <3>1. job[s].manifest \in Manifest \cup {Null}
        BY <1>2 DEF Job
      <3> QED
        BY <1>2, <1>12, <3>1, RevisionNumbers DEF WriteManifest, Row, States, TypeOK
    <2> QED
      BY <1>2, <1>12, <2>1, RevisionOnlyType, GotoType DEF WriteManifest, TypeOK, Labels
  <1>13. CASE Leave(s)
    BY <1>2, <1>13, NoJobType, GotoType DEF Leave, TypeOK, ledger, Labels
  <1> QED
    BY <1>1, <1>3, <1>4, <1>5, <1>6, <1>7, <1>8, <1>9, <1>10, <1>11, <1>12, <1>13

-----------------------------------------------------------------------------
(* What steps leave alone. *)

(* A gate that is there stays as it is; an attempt does not go away. *)
LEMMA Growth ==
    ASSUME IInv, Next, NEW r \in Revisions
    PROVE  /\ \A g \in Gates : gates[r][g] # Null => gates'[r][g] = gates[r][g]
           /\ attempts[r] # Null => attempts'[r] # Null
  <1>1. PICK s \in Sessions :
           \/ RegisterCandidate(s)
           \/ \E seal \in Seals : CheckSeal(s, seal)
           \/ WriteSeal(s) \/ CheckBegin(s) \/ WriteBegin(s)
           \/ \E g \in Gates, record \in Results : CheckGate(s, g, record)
           \/ WriteGate(s) \/ ReadSeal(s) \/ Assemble(s) \/ WriteManifest(s)
           \/ Leave(s)
    BY DEF Next
  <1>2. TypeOK
    BY DEF IInv
  <1>3. CASE WriteBegin(s)
    BY <1>2, <1>3, NullApart DEF WriteBegin, TypeOK
  <1>4. CASE WriteManifest(s)
    BY <1>2, <1>4, NullApart DEF WriteManifest, TypeOK
  <1>5. CASE WriteGate(s)
    <2>1. attempts' = attempts
      BY <1>5 DEF WriteGate
    <2>2. \A g \in Gates : gates[r][g] # Null => gates'[r][g] = gates[r][g]
      BY <1>2, <1>5 DEF WriteGate, TypeOK
    <2> QED
      BY <2>1, <2>2
  <1>6. CASE /\ ~WriteBegin(s) /\ ~WriteManifest(s) /\ ~WriteGate(s)
    <2>1. gates' = gates /\ attempts' = attempts
      BY <1>1, <1>6 DEF RegisterCandidate, CheckSeal, WriteSeal, CheckBegin, CheckGate,
           ReadSeal, Assemble, Leave, ledger
    <2> QED
      BY <2>1
  <1> QED
    BY <1>3, <1>4, <1>5, <1>6

(* Backed, with the attempts and gates it is about as parameters. *)
BackedBy(m, as, gs) ==
    /\ as[m.revision] # Null
    /\ \A g \in Gates :
         /\ m.gates[g] = gs[m.revision][g]
         /\ m.gates[g].revision = m.revision
         /\ m.gates[g].bound
         /\ m.gates[g].verdict = "PASS"

(* So a manifest that is backed stays backed. *)
LEMMA BackedStays ==
    ASSUME IInv, Next, NEW m \in Manifest, Backed(m)
    PROVE  BackedBy(m, attempts', gates')
  <1>1. m.revision \in Revisions /\ m.gates \in [Gates -> GateRecord]
    BY DEF Manifest
  <1>2. attempts'[m.revision] # Null
    BY <1>1, Growth DEF Backed
  <1>3. \A g \in Gates : m.gates[g] = gates'[m.revision][g]
    <2> TAKE g \in Gates
    <2>1. m.gates[g] = gates[m.revision][g] /\ m.gates[g] \in GateRecord
      BY <1>1 DEF Backed
    <2> QED
      BY <1>1, <2>1, NullApart, Growth
  <1> QED
    BY <1>2, <1>3 DEF Backed, BackedBy

(* Only WriteManifest writes a manifest, and the one its session assembled. *)
LEMMA ManifestStep ==
    ASSUME IInv, Next
    PROVE  ManifestBacked'
  <1>1. PICK s \in Sessions :
           \/ RegisterCandidate(s)
           \/ \E seal \in Seals : CheckSeal(s, seal)
           \/ WriteSeal(s) \/ CheckBegin(s) \/ WriteBegin(s)
           \/ \E g \in Gates, record \in Results : CheckGate(s, g, record)
           \/ WriteGate(s) \/ ReadSeal(s) \/ Assemble(s) \/ WriteManifest(s)
           \/ Leave(s)
    BY DEF Next
  <1>2. /\ generation \in Row
        /\ generation.manifest \in Manifest \cup {Null}
        /\ job[s].manifest \in Manifest \cup {Null}
        /\ SessionSound(s)
        /\ ManifestBacked
    BY DEF IInv, TypeOK, Row, Job
  <1>3. CASE WriteManifest(s)
    <2>1. job[s].manifest \in Manifest /\ Backed(job[s].manifest)
      BY <1>2, <1>3 DEF WriteManifest, SessionSound
    <2>2. BackedBy(job[s].manifest, attempts', gates')
      BY <2>1, BackedStays
    <2>3. generation'.manifest = job[s].manifest
      BY <1>2, <1>3 DEF WriteManifest, Row
    <2>4. generation'.manifest # Null /\ BackedBy(generation'.manifest, attempts', gates')
      BY <2>1, <2>2, <2>3, NullApart
    <2> QED
      BY <2>4 DEF ManifestBacked, Backed, BackedBy
  <1>4. CASE ~WriteManifest(s)
    <2>1. generation'.manifest = generation.manifest
      BY <1>1, <1>2, <1>4 DEF Row, RegisterCandidate, CheckSeal, WriteSeal, CheckBegin, WriteBegin,
           CheckGate, WriteGate, ReadSeal, Assemble, Leave, ledger
    <2>2. generation'.state = "PROVEN" => generation.state = "PROVEN"
      BY <1>1, <1>2, <1>4 DEF Row, RegisterCandidate, CheckSeal, WriteSeal, CheckBegin, WriteBegin,
           CheckGate, WriteGate, ReadSeal, Assemble, Leave, ledger
    <2>3. generation.manifest # Null => BackedBy(generation.manifest, attempts', gates')
      BY <1>2, BackedStays DEF ManifestBacked
    <2>4. generation'.manifest # Null => BackedBy(generation'.manifest, attempts', gates')
      BY <2>1, <2>3
    <2> QED
      BY <1>2, <2>1, <2>2, <2>4 DEF ManifestBacked, Backed, BackedBy
  <1> QED
    BY <1>3, <1>4

(* A session's own soundness, after a step of its own or of another. *)
SoundBy(as, gs, l, j) ==
    /\ l = "recording" => j.gate # Null /\ j.record # Null
    /\ l \in {"proving", "recording", "assembling", "proven"} =>
         as[j.revision] # Null
    /\ l = "assembling" => j.seal # Null
    /\ l = "proven" => j.manifest # Null /\ BackedBy(j.manifest, as, gs)

LEMMA SessionStep ==
    ASSUME IInv, Next, NEW t \in Sessions
    PROVE  SessionSound(t)'
  <1>1. PICK s \in Sessions :
           \/ RegisterCandidate(s)
           \/ \E seal \in Seals : CheckSeal(s, seal)
           \/ WriteSeal(s) \/ CheckBegin(s) \/ WriteBegin(s)
           \/ \E g \in Gates, record \in Results : CheckGate(s, g, record)
           \/ WriteGate(s) \/ ReadSeal(s) \/ Assemble(s) \/ WriteManifest(s)
           \/ Leave(s)
    BY DEF Next
  <1>2. TypeOK /\ SessionSound(s) /\ SessionSound(t)
    BY DEF IInv
  <1>3. /\ job[t].revision \in Revisions /\ job[t].manifest \in Manifest \cup {Null}
        /\ job[s].revision \in Revisions /\ job[s] \in Job /\ generation \in Row
    BY <1>2 DEF TypeOK, Job
  <1> SUFFICES SoundBy(attempts', gates', pc'[t], job'[t])
    BY DEF SessionSound, SoundBy, Backed, BackedBy
  (* The ledger of a step keeps what the session held. *)
  <1>4. CASE pc'[t] = pc[t] /\ job'[t] = job[t]
    <2>1. attempts[job[t].revision] # Null => attempts'[job[t].revision] # Null
      BY <1>3, Growth
    <2>2. job[t].manifest # Null /\ Backed(job[t].manifest)
             => BackedBy(job[t].manifest, attempts', gates')
      BY <1>3, BackedStays
    <2> QED
      BY <1>2, <1>4, <2>1, <2>2 DEF SessionSound, SoundBy
  <1>5. CASE pc'[t] = "idle" \/ pc'[t] \in {"sealing", "beginning"}
    BY <1>5 DEF SoundBy
  <1>6. CASE t = s
    <2>1. CASE RegisterCandidate(s)
      BY <2>1, <1>4, <1>6 DEF RegisterCandidate
    <2>2. CASE \/ \E seal \in Seals : CheckSeal(s, seal)
               \/ WriteSeal(s) \/ CheckBegin(s) \/ Leave(s)
      BY <2>2, <1>2, <1>5, <1>6 DEF CheckSeal, WriteSeal, CheckBegin, Leave, Goto, TypeOK
    <2>3. CASE WriteBegin(s)
      <3>1. pc'[t] = "proving" /\ job'[t] = job[s]
        BY <2>3, <1>2, <1>6 DEF WriteBegin, Goto, TypeOK
      <3>2. attempts'[job[s].revision] # Null
        BY <2>3, <1>2, <1>3, NullApart DEF WriteBegin, TypeOK
      <3> QED
        BY <3>1, <3>2 DEF SoundBy
    <2>4. CASE \E g \in Gates, record \in Results : CheckGate(s, g, record)
      <3> PICK g \in Gates, record \in Results : CheckGate(s, g, record)
        BY <2>4
      <3>1. pc'[t] = "recording" /\ job'[t] = [job[s] EXCEPT !.gate = g, !.record = record]
        BY <1>2, <1>6 DEF CheckGate, Goto, TypeOK
      <3>2. job'[t].gate = g /\ job'[t].record = record /\ job'[t].revision = job[s].revision
        BY <3>1, <1>3 DEF Job
      <3>3. attempts'[job[s].revision] # Null
        BY <1>2, <1>3, Growth DEF CheckGate, SessionSound
      <3> QED
        BY <3>1, <3>2, <3>3, NullApart, ResultsAssumption DEF SoundBy
    <2>5. CASE WriteGate(s) \/ WriteManifest(s)
      <3>1. /\ pc'[t] = "proving" /\ job'[t] = [NoJob EXCEPT !.revision = job[s].revision]
            /\ pc[s] \in {"recording", "proven"}
        BY <2>5, <1>2, <1>6 DEF WriteGate, WriteManifest, Goto, TypeOK
      <3>2. job'[t].revision = job[s].revision
        BY <3>1 DEF NoJob
      <3>3. attempts'[job[s].revision] # Null
        BY <3>1, <1>2, <1>3, Growth DEF SessionSound
      <3> QED
        BY <3>1, <3>2, <3>3 DEF SoundBy
    <2>6. CASE ReadSeal(s)
      <3>1. /\ pc'[t] = "assembling" /\ job'[t] = [job[s] EXCEPT !.seal = generation.seal]
            /\ pc[s] = "proving" /\ generation.seal # Null
        BY <2>6, <1>2, <1>6 DEF ReadSeal, Goto, TypeOK
      <3>2. job'[t].revision = job[s].revision /\ job'[t].seal = generation.seal
        BY <3>1, <1>3 DEF Job
      <3>3. attempts'[job[s].revision] # Null
        BY <3>1, <1>2, <1>3, Growth DEF SessionSound
      <3> QED
        BY <3>1, <3>2, <3>3 DEF SoundBy
    <2>7. CASE Assemble(s)
      <3>1. /\ pc'[t] \in {"proven", "proving"}
            /\ job'[t].revision = job[s].revision
            /\ pc'[t] = "proven" => job'[t].manifest # Null /\ Backed(job'[t].manifest)
            /\ job' \in [Sessions -> Job]
        BY <2>7, <1>6, AssembleType
      <3>2. attempts'[job[s].revision] # Null
        BY <2>7, <1>2, <1>3, Growth DEF Assemble, SessionSound
      <3>3. pc'[t] = "proven" => BackedBy(job'[t].manifest, attempts', gates')
        <4>1. job'[t].manifest \in Manifest \cup {Null}
          BY <3>1 DEF Job
        <4> QED
          BY <3>1, <4>1, BackedStays
      <3> QED
        BY <3>1, <3>2, <3>3 DEF SoundBy
    <2> QED
      BY <1>1, <2>1, <2>2, <2>3, <2>4, <2>5, <2>6, <2>7
  <1>7. CASE t # s
    <2>1. pc'[t] = pc[t] /\ job'[t] = job[t]
      BY <1>1, <1>2, <1>7 DEF RegisterCandidate, CheckSeal, WriteSeal, CheckBegin, WriteBegin,
           CheckGate, WriteGate, ReadSeal, Assemble, WriteManifest, Leave, Goto, TypeOK
    <2> QED
      BY <2>1, <1>4
  <1> QED
    BY <1>6, <1>7

-----------------------------------------------------------------------------
(* The theorems. *)

LEMMA StutterInv ==
    ASSUME IInv, UNCHANGED vars
    PROVE  IInv'
  BY DEF IInv, TypeOK, ManifestBacked, SessionSound, Backed, vars, ledger

(* IInv is an invariant of the store, whatever its sessions race or die. *)
THEOREM Invariance == Spec => []IInv
  <1>1. IInv /\ [Next]_vars => IInv'
    <2> SUFFICES ASSUME IInv, [Next]_vars PROVE IInv'
      OBVIOUS
    <2>1. CASE Next
      BY <2>1, TypeStep, ManifestStep, SessionStep DEF IInv
    <2>2. CASE UNCHANGED vars
      BY <2>2, StutterInv
    <2> QED
      BY <2>1, <2>2
  <1> QED
    BY InitInv, <1>1, PTL DEF Spec

(* Every row has the shape its table declares. *)
THEOREM TypeCorrect == Spec => []TypeOK
  <1>1. IInv => TypeOK
    BY DEF IInv
  <1> QED
    BY <1>1, Invariance, PTL

(* A generation in state PROVEN has a manifest, which is the gates of one
   attempt in the ledger, every one of them passed and bound to it. *)
THEOREM ProvenIsBacked == Spec => []ManifestBacked
  <1>1. IInv => ManifestBacked
    BY DEF IInv
  <1> QED
    BY <1>1, Invariance, PTL

(* A gate that has been recorded is never replaced. *)
THEOREM GatesAreKept == Spec => GatesStay
  <1>1. IInv /\ [Next]_vars =>
          [\A r \in Revisions, g \in Gates : gates[r][g] # Null => gates'[r][g] = gates[r][g]]_vars
    <2> SUFFICES ASSUME IInv, Next
                 PROVE \A r \in Revisions, g \in Gates :
                          gates[r][g] # Null => gates'[r][g] = gates[r][g]
      OBVIOUS
    <2> QED
      BY Growth
  <1> QED
    BY <1>1, Invariance, PTL DEF Spec, GatesStay

-----------------------------------------------------------------------------
(* One session at a time implements the life of a candidate.  In mid-call    *)
(* the session still finds the row as it read it, and every gate in the      *)
(* ledger was evaluated on the one seal there is.                            *)

FoundAlone(s) ==
    /\ pc[s] = "sealing" =>
         /\ generation.state \in {"CDC_APPLYING", "SEALED"}
         /\ job[s].seal # Null
         /\ generation.seal \in {Null, job[s].seal}
    /\ pc[s] = "beginning" => generation.state \in {"SEALED", "PROVING"}
    /\ pc[s] \in {"proving", "recording", "assembling", "proven"} =>
         generation.state \in {"PROVING", "PROVEN"}
    /\ pc[s] = "recording" => job[s].record.seal = generation.seal

RowsAlone ==
    /\ generation.state \in {"NO_ROW", "CDC_APPLYING"} <=> generation.seal = Null
    /\ generation.state # "PROVEN" => generation.manifest = Null
    /\ \A r \in Revisions, g \in Gates : gates[r][g] # Null =>
         /\ generation.state \in {"PROVING", "PROVEN"}
         /\ gates[r][g].seal = generation.seal

OneCall == \A s, t \in Sessions : pc[s] # "idle" /\ pc[t] # "idle" => s = t

AloneInv == alone => OneCall /\ RowsAlone /\ \A s \in Sessions : FoundAlone(s)

LEMMA AloneInit == Init => AloneInv
  BY DEF Init, AloneInv, OneCall, RowsAlone, FoundAlone

LEMMA AloneSame == ASSUME Next PROVE alone' = alone
  BY DEF Next, RegisterCandidate, CheckSeal, WriteSeal, CheckBegin, WriteBegin, CheckGate,
     WriteGate, ReadSeal, Assemble, WriteManifest, Leave, Goto

(* A step is one session's, from which the others are told apart by being idle. *)
LEMMA OneCallStep ==
    ASSUME IInv, AloneInv, Next, alone
    PROVE  OneCall'
  <1>1. PICK s \in Sessions :
           \/ RegisterCandidate(s)
           \/ \E seal \in Seals : CheckSeal(s, seal)
           \/ WriteSeal(s) \/ CheckBegin(s) \/ WriteBegin(s)
           \/ \E g \in Gates, record \in Results : CheckGate(s, g, record)
           \/ WriteGate(s) \/ ReadSeal(s) \/ Assemble(s) \/ WriteManifest(s)
           \/ Leave(s)
    BY DEF Next
  <1>2. TypeOK /\ OneCall
    BY DEF IInv, AloneInv
  <1>3. \A t \in Sessions : t # s => pc'[t] = pc[t]
    BY <1>1, <1>2 DEF RegisterCandidate, CheckSeal, WriteSeal, CheckBegin, WriteBegin,
         CheckGate, WriteGate, ReadSeal, Assemble, WriteManifest, Leave, Goto, TypeOK
  <1>4. \A t \in Sessions : t # s => pc[t] = "idle"
    <2>1. CASE Free(s)
      BY <2>1 DEF Free
    <2>2. CASE pc[s] # "idle"
      BY <1>2, <2>2 DEF OneCall
    <2> QED
      BY <1>1, <2>1, <2>2 DEF RegisterCandidate, CheckSeal, WriteSeal, CheckBegin, WriteBegin,
         CheckGate, WriteGate, ReadSeal, Assemble, WriteManifest, Leave
  <1> QED
    BY <1>3, <1>4 DEF OneCall

(* What a step makes of the row and the gates, and what its session finds. *)
LEMMA RowsStep ==
    ASSUME IInv, AloneInv, Next, alone
    PROVE  RowsAlone' /\ \A t \in Sessions : FoundAlone(t)'
  <1>1. PICK s \in Sessions :
           \/ RegisterCandidate(s)
           \/ \E seal \in Seals : CheckSeal(s, seal)
           \/ WriteSeal(s) \/ CheckBegin(s) \/ WriteBegin(s)
           \/ \E g \in Gates, record \in Results : CheckGate(s, g, record)
           \/ WriteGate(s) \/ ReadSeal(s) \/ Assemble(s) \/ WriteManifest(s)
           \/ Leave(s)
    BY DEF Next
  <1>2. /\ TypeOK /\ RowsAlone /\ FoundAlone(s) /\ SessionSound(s)
        /\ generation \in Row /\ job[s] \in Job /\ job[s].revision \in Revisions
    BY DEF IInv, AloneInv, TypeOK, Job
  <1>3. \A t \in Sessions : t # s => pc'[t] = "idle"
    <2>1. \A t \in Sessions : t # s => pc'[t] = pc[t]
      BY <1>1, <1>2 DEF RegisterCandidate, CheckSeal, WriteSeal, CheckBegin, WriteBegin,
           CheckGate, WriteGate, ReadSeal, Assemble, WriteManifest, Leave, Goto, TypeOK
    <2>2. CASE Free(s)
      BY <2>1, <2>2 DEF Free
    <2>3. CASE pc[s] # "idle"
      BY <2>1, <2>3 DEF AloneInv, OneCall
    <2> QED
      BY <1>1, <2>2, <2>3 DEF RegisterCandidate, CheckSeal, WriteSeal, CheckBegin, WriteBegin,
         CheckGate, WriteGate, ReadSeal, Assemble, WriteManifest, Leave
  <1> SUFFICES RowsAlone' /\ FoundAlone(s)'
    BY <1>3 DEF FoundAlone
  <1>4. CASE RegisterCandidate(s)
    BY <1>2, <1>4 DEF RegisterCandidate, Free, RowsAlone, FoundAlone, Row
  <1>5. CASE \E seal \in Seals : CheckSeal(s, seal)
    <2> PICK seal \in Seals : CheckSeal(s, seal)
      BY <1>5
    <2>1. pc'[s] = "sealing" /\ job'[s].seal = seal /\ seal # Null
      BY <1>2, NullApart DEF CheckSeal, Goto, TypeOK, NoJob
    <2>2. generation' = generation /\ gates' = gates /\ Sealable(seal)
      BY DEF CheckSeal, ledger
    <2> QED
      BY <1>2, <2>1, <2>2 DEF RowsAlone, FoundAlone, Sealable
  <1>6. CASE WriteSeal(s)
    <2>1. pc'[s] = "idle" /\ gates' = gates
      BY <1>2, <1>6 DEF WriteSeal, Goto, TypeOK
    <2>2. /\ generation'.state = "SEALED" /\ generation'.seal = job[s].seal
          /\ generation'.manifest = generation.manifest /\ job[s].seal # Null
          /\ generation.state \in {"CDC_APPLYING", "SEALED"}
      BY <1>2, <1>6 DEF WriteSeal, Row, FoundAlone
    <2> QED
      BY <1>2, <2>1, <2>2 DEF RowsAlone, FoundAlone
  <1>7. CASE CheckBegin(s)
    <2>1. pc'[s] = "beginning" /\ generation' = generation /\ gates' = gates /\ Provable
      BY <1>2, <1>7 DEF CheckBegin, Goto, TypeOK, ledger
    <2> QED
      BY <1>2, <2>1 DEF RowsAlone, FoundAlone, Provable
  <1>8. CASE WriteBegin(s)
    <2>1. pc'[s] = "proving" /\ gates' = gates
      BY <1>2, <1>8 DEF WriteBegin, Goto, TypeOK
    <2>2. /\ generation'.state = "PROVING" /\ generation'.seal = generation.seal
          /\ generation'.manifest = generation.manifest
          /\ generation.state \in {"SEALED", "PROVING"}
      BY <1>2, <1>8 DEF WriteBegin, Row, FoundAlone
    <2> QED
      BY <1>2, <2>1, <2>2 DEF RowsAlone, FoundAlone
  <1>9. CASE \E g \in Gates, record \in Results : CheckGate(s, g, record)
    <2> PICK g \in Gates, record \in Results : CheckGate(s, g, record)
      BY <1>9
    <2>1. /\ pc'[s] = "recording" /\ job'[s] = [job[s] EXCEPT !.gate = g, !.record = record]
          /\ generation' = generation /\ gates' = gates /\ pc[s] = "proving"
      BY <1>2 DEF CheckGate, Goto, TypeOK, ledger
    <2>2. job'[s].record = record
      BY <1>2, <2>1 DEF Job
    <2>3. record.seal = generation.seal
      BY DEF CheckGate, Evaluated
    <2> QED
      BY <1>2, <2>1, <2>2, <2>3 DEF RowsAlone, FoundAlone
  <1>10. CASE WriteGate(s)
    <2>1. /\ pc'[s] = "proving" /\ generation' = generation /\ pc[s] = "recording"
          /\ generation.state \in {"PROVING", "PROVEN"}
          /\ job[s].record.seal = generation.seal
      BY <1>2, <1>10 DEF WriteGate, Goto, TypeOK, FoundAlone
    <2>2. \A r \in Revisions, g \in Gates : gates'[r][g] # Null =>
             gates'[r][g] = gates[r][g] \/ gates'[r][g] = job[s].record
      BY <1>2, <1>10 DEF WriteGate, TypeOK
    <2> QED
      BY <1>2, <2>1, <2>2 DEF RowsAlone, FoundAlone
  <1>11. CASE ReadSeal(s) \/ Assemble(s)
    <2>1. /\ pc'[s] \in {"assembling", "proven", "proving"} /\ generation' = generation
          /\ gates' = gates /\ pc[s] \in {"proving", "assembling"}
      BY <1>2, <1>11, AssembleType DEF ReadSeal, Assemble, Goto, TypeOK, ledger
    <2> QED
      BY <1>2, <2>1 DEF RowsAlone, FoundAlone
  <1>12. CASE WriteManifest(s)
    <2>1. pc'[s] = "proving" /\ gates' = gates /\ generation.state \in {"PROVING", "PROVEN"}
      BY <1>2, <1>12 DEF WriteManifest, Goto, TypeOK, FoundAlone
    <2>2. generation'.state = "PROVEN" /\ generation'.seal = generation.seal
      BY <1>2, <1>12 DEF WriteManifest, Row
    <2> QED
      BY <1>2, <2>1, <2>2 DEF RowsAlone, FoundAlone
  <1>13. CASE Leave(s)
    <2>1. pc'[s] = "idle" /\ generation' = generation /\ gates' = gates
      BY <1>2, <1>13 DEF Leave, Goto, TypeOK, ledger
    <2> QED
      BY <1>2, <2>1 DEF RowsAlone, FoundAlone
  <1> QED
    BY <1>1, <1>4, <1>5, <1>6, <1>7, <1>8, <1>9, <1>10, <1>11, <1>12, <1>13

LEMMA AloneStep == IInv /\ AloneInv /\ [Next]_vars => AloneInv'
  <1> SUFFICES ASSUME IInv, AloneInv, [Next]_vars PROVE AloneInv'
    OBVIOUS
  <1>1. CASE Next
    BY <1>1, AloneSame, OneCallStep, RowsStep DEF AloneInv
  <1>2. CASE UNCHANGED vars
    BY <1>2 DEF vars, ledger, AloneInv, OneCall, RowsAlone, FoundAlone
  <1> QED
    BY <1>1, <1>2

(* The proof of a manifest that is backed: every gate on the one seal. *)
LEMMA ProofIsSeal ==
    ASSUME IInv, AloneInv, alone, NEW m \in Manifest, Backed(m)
    PROVE  [g \in Gates |-> m.gates[g].seal] = [g \in Gates |-> generation.seal]
  <1>1. m.revision \in Revisions /\ m.gates \in [Gates -> GateRecord]
    BY DEF Manifest
  <1>2. ASSUME NEW g \in Gates PROVE m.gates[g].seal = generation.seal
    <2>1. m.gates[g] = gates[m.revision][g] /\ gates[m.revision][g] # Null
      BY <1>1, NullApart DEF Backed
    <2> QED
      BY <1>1, <2>1 DEF AloneInv, RowsAlone
  <1> QED
    BY <1>2

(* The proof as the lifecycle sees it, once there is a manifest. *)
LEMMA ProofSeen ==
    ASSUME IInv, AloneInv, alone, generation.manifest # Null
    PROVE  [g \in Gates |-> generation.manifest.gates[g].seal] = [g \in Gates |-> generation.seal]
  <1>1. generation.manifest \in Manifest /\ Backed(generation.manifest)
    BY DEF IInv, TypeOK, Row, ManifestBacked
  <1> QED
    BY <1>1, ProofIsSeal

LEMMA LifecycleStep ==
    ASSUME IInv, AloneInv, IInv', AloneInv', Next, alone
    PROVE  [Lifecycle!Next]_(Lifecycle!vars)
  <1>1. PICK s \in Sessions :
           \/ RegisterCandidate(s)
           \/ \E seal \in Seals : CheckSeal(s, seal)
           \/ WriteSeal(s) \/ CheckBegin(s) \/ WriteBegin(s)
           \/ \E g \in Gates, record \in Results : CheckGate(s, g, record)
           \/ WriteGate(s) \/ ReadSeal(s) \/ Assemble(s) \/ WriteManifest(s)
           \/ Leave(s)
    BY DEF Next
  <1>2. /\ generation \in Row /\ job[s] \in Job /\ RowsAlone /\ FoundAlone(s)
        /\ alone' = alone
    BY AloneSame DEF IInv, AloneInv, TypeOK
  <1>3. CASE generation' = generation
    BY <1>2, <1>3 DEF Lifecycle!vars
  <1>4. CASE RegisterCandidate(s)
    <2>1. CASE generation.state # "NO_ROW"
      BY <1>3, <1>4, <2>1 DEF RegisterCandidate
    <2>2. CASE generation.state = "NO_ROW"
      <3>1. generation'.state = "CDC_APPLYING" /\ generation'.seal = generation.seal
            /\ generation'.manifest = generation.manifest
        BY <1>2, <1>4, <2>2 DEF RegisterCandidate, Row
      <3>2. Lifecycle!Register
        BY <1>2, <2>2, <3>1 DEF Lifecycle!Register
      <3> QED
        BY <3>2 DEF Lifecycle!Next
    <2> QED
      BY <2>1, <2>2
  <1>5. CASE WriteSeal(s)
    <2>1. /\ generation'.state = "SEALED" /\ generation'.seal = job[s].seal
          /\ generation'.manifest = generation.manifest
          /\ job[s].seal \in Seals /\ generation.seal \in {Null, job[s].seal}
          /\ generation.state \in {"CDC_APPLYING", "SEALED"}
      BY <1>2, <1>5 DEF WriteSeal, FoundAlone, Row, Job
    <2>2. generation.manifest = Null
      BY <1>2, <2>1 DEF RowsAlone
    <2>3. CASE generation.state = "CDC_APPLYING"
      <3>1. Lifecycle!Seal
        BY <1>2, <2>1, <2>2, <2>3 DEF Lifecycle!Seal
      <3> QED
        BY <3>1 DEF Lifecycle!Next
    <2>4. CASE generation.state = "SEALED"
      <3>1. generation.seal = job[s].seal
        BY <1>2, <2>1, <2>4 DEF RowsAlone
      <3> QED
        BY <1>2, <2>1, <2>2, <2>4, <3>1 DEF Lifecycle!vars
    <2> QED
      BY <2>1, <2>3, <2>4
  <1>6. CASE WriteBegin(s)
    <2>1. /\ generation'.state = "PROVING" /\ generation'.seal = generation.seal
          /\ generation'.manifest = generation.manifest
          /\ generation.state \in {"SEALED", "PROVING"}
      BY <1>2, <1>6 DEF WriteBegin, FoundAlone, Row
    <2>2. generation.manifest = Null
      BY <1>2, <2>1 DEF RowsAlone
    <2>3. CASE generation.state = "SEALED"
      <3>1. Lifecycle!Begin
        BY <1>2, <2>1, <2>2, <2>3 DEF Lifecycle!Begin
      <3> QED
        BY <3>1 DEF Lifecycle!Next
    <2>4. CASE generation.state = "PROVING"
      BY <1>2, <2>1, <2>2, <2>4 DEF Lifecycle!vars
    <2> QED
      BY <2>1, <2>3, <2>4
  <1>7. CASE WriteManifest(s)
    <2>1. /\ generation'.state = "PROVEN" /\ generation'.seal = generation.seal
          /\ generation.state \in {"PROVING", "PROVEN"}
      BY <1>2, <1>7 DEF WriteManifest, FoundAlone, Row
    <2>2. generation'.manifest # Null
      BY <2>1 DEF IInv, ManifestBacked
    <2>3. [g \in Gates |-> generation'.manifest.gates[g].seal] = [g \in Gates |-> generation.seal]
      <3>1. (alone /\ generation.manifest # Null =>
               [g \in Gates |-> generation.manifest.gates[g].seal] = [g \in Gates |-> generation.seal])'
        <4>1. generation'.manifest \in Manifest /\ Backed(generation.manifest)'
          BY <2>2 DEF IInv, TypeOK, Row, ManifestBacked
        <4>2. \A r \in Revisions, g \in Gates :
                 gates'[r][g] # Null => gates'[r][g].seal = generation'.seal
          BY <1>2 DEF AloneInv, RowsAlone
        <4>3. /\ generation'.manifest.revision \in Revisions
              /\ generation'.manifest.gates \in [Gates -> GateRecord]
          BY <4>1 DEF Manifest
        <4>4. ASSUME NEW g \in Gates PROVE generation'.manifest.gates[g].seal = generation'.seal
          <5>1. /\ generation'.manifest.gates[g] = gates'[generation'.manifest.revision][g]
                /\ generation'.manifest.gates[g] # Null
            BY <4>1, <4>3, NullApart DEF Backed
          <5> QED
            BY <4>2, <4>3, <5>1
        <4> QED
          BY <4>4
      <3> QED
        BY <1>2, <2>1, <2>2, <3>1
    <2>4. CASE generation.state = "PROVING"
      <3>1. generation.seal \in Seals /\ generation.manifest = Null
        BY <1>2, <2>4 DEF RowsAlone, Row
      <3>2. Lifecycle!Prove
        BY <1>2, <2>1, <2>2, <2>3, <2>4, <3>1 DEF Lifecycle!Prove
      <3> QED
        BY <3>2 DEF Lifecycle!Next
    <2>5. CASE generation.state = "PROVEN"
      <3>1. generation.manifest # Null
        BY <2>5 DEF IInv, ManifestBacked
      <3>2. [g \in Gates |-> generation.manifest.gates[g].seal] = [g \in Gates |-> generation.seal]
        BY <3>1, ProofSeen
      <3> QED
        BY <1>2, <2>1, <2>2, <2>3, <2>5, <3>1, <3>2 DEF Lifecycle!vars
    <2> QED
      BY <2>1, <2>4, <2>5
  <1> QED
    BY <1>1, <1>3, <1>4, <1>5, <1>6, <1>7 DEF CheckSeal, CheckBegin, CheckGate, WriteGate,
       ReadSeal, Assemble, Leave, ledger

(* The proof ledger implements the life of a candidate: whoever works on it
   one at a time, dying and replaying at will, takes it forwards only, on one
   seal, and proves it by gates evaluated on that seal. *)
THEOREM Refinement == Spec => ImplementsProofLifecycle
  <1>1. Init => Lifecycle!Init
    BY DEF Init, Lifecycle!Init
  <1>2. IInv /\ IInv' /\ AloneInv /\ AloneInv' /\ [Next]_vars => [Lifecycle!Next]_(Lifecycle!vars)
    <2> SUFFICES ASSUME IInv, IInv', AloneInv, AloneInv', [Next]_vars
                 PROVE  [Lifecycle!Next]_(Lifecycle!vars)
      OBVIOUS
    <2>1. CASE Next /\ alone
      BY <2>1, LifecycleStep
    <2>2. CASE Next /\ ~alone
      BY <2>2, AloneSame DEF Lifecycle!vars
    <2>3. CASE UNCHANGED vars
      BY <2>3 DEF vars, ledger, Lifecycle!vars
    <2> QED
      BY <2>1, <2>2, <2>3
  <1>3. Spec => []AloneInv
    BY AloneInit, AloneStep, Invariance, PTL DEF Spec
  <1> QED
    BY <1>1, <1>2, <1>3, Invariance, PTL DEF Spec, ImplementsProofLifecycle, Lifecycle!Spec
=============================================================================
