------------------------- MODULE SchemaControlProofs -------------------------
(***************************************************************************)
(* Theorems of SchemaControl for any contracts, changes, tables and number *)
(* of workers: what the policy lets through preserves every row, and the   *)
(* safety properties, which follow from the inductive invariant SchemaInv. *)
(***************************************************************************)
EXTENDS SchemaControl, TLAPS

-----------------------------------------------------------------------------
(* The policy. *)

LEMMA AskedType ==
    ASSUME NEW d \in Changes
    PROVE  /\ TableOf(d) \in Tables
           /\ Asked[d].previous \in Contracts /\ Asked[d].candidate \in Contracts
  BY ContractAssumption DEF TableOf

LEMMA CompatibleIs ==
    ASSUME NEW d \in Compatible
    PROVE  /\ d \in Changes /\ Known(d)
           /\ RemovesNone(d) /\ KeepsFields(d) /\ AddsNullable(d)
  BY DEF Compatible, Verdict

(* A field is the one of its name. *)
LEMMA FieldIs ==
    ASSUME NEW c \in Contracts, NEW f \in Contract[c].fields
    PROVE  FieldOf(Contract[c], f.name) = f
  <1>1. \A g \in Contract[c].fields : g.name = f.name => g = f
    BY ContractAssumption
  <1> QED
    BY <1>1 DEF FieldOf

(* A change that the policy finds compatible preserves every row: each row
   that is valid under the old contract is valid under the new one, read with
   null in the columns it was written without, and loses no column. *)
THEOREM PolicyPreservesRows == Compatible \subseteq PreservesRows
  <1> SUFFICES ASSUME NEW d \in Compatible, NEW r \in RowsOf(Old(d))
               PROVE  /\ Row(New(d), ReadUnder(New(d), r))
                      /\ DOMAIN r \subseteq Names(New(d))
    BY CompatibleIs DEF PreservesRows
  <1>1. /\ d \in Changes /\ RemovesNone(d) /\ KeepsFields(d) /\ AddsNullable(d)
        /\ Asked[d].previous \in Contracts /\ Asked[d].candidate \in Contracts
    BY CompatibleIs, AskedType
  <1>2. DOMAIN r = Names(Old(d)) /\ Row(Old(d), r)
    BY DEF RowsOf
  <1>3. DOMAIN r \subseteq Names(New(d))
    BY <1>1, <1>2 DEF RemovesNone
  <1>4. ASSUME NEW f \in New(d).fields
        PROVE  LET read == ReadUnder(New(d), r)[f.name] IN
               read = f.type \/ (f.nullable /\ read = "null")
    <2>1. /\ f.name \in Names(New(d)) /\ FieldOf(New(d), f.name) = f
          /\ ReadUnder(New(d), r)[f.name] = IF f.name \in DOMAIN r THEN r[f.name] ELSE "null"
      BY <1>1, FieldIs DEF Names, New, ReadUnder
    <2>2. CASE f.name \in Names(Old(d))
      <3>1. PICK g \in Old(d).fields : g.name = f.name
        BY <2>2 DEF Names
      <3>2. FieldOf(Old(d), f.name) = g
        BY <1>1, <3>1, FieldIs DEF Old
      <3>3. g.type = f.type /\ (g.nullable => f.nullable)
        BY <1>1, <2>1, <2>2, <3>2 DEF KeepsFields
      <3>4. r[g.name] = g.type \/ (g.nullable /\ r[g.name] = "null")
        BY <1>2 DEF Row
      <3> QED
        BY <1>2, <2>1, <2>2, <3>1, <3>3, <3>4
    <2>3. CASE f.name \notin Names(Old(d))
      <3>1. f.nullable
        BY <1>1, <2>3 DEF AddsNullable, Added
      <3> QED
        BY <1>2, <2>1, <2>3, <3>1
    <2> QED
      BY <2>2, <2>3
  <1>5. Row(New(d), ReadUnder(New(d), r))
    BY <1>4 DEF Row
  <1> QED
    BY <1>3, <1>5

(* The columns of a compatible change are those it started from and its own. *)
LEMMA ColumnsAddUp ==
    ASSUME NEW d \in Compatible
    PROVE  Names(New(d)) = Names(Old(d)) \cup AddedNames(d)
  <1>1. Names(Old(d)) \subseteq Names(New(d))
    BY CompatibleIs DEF RemovesNone
  <1> QED
    BY <1>1 DEF Names, AddedNames, Added

LEMMA AddedType ==
    ASSUME NEW d \in Compatible
    PROVE  AddedNames(d) \subseteq UNION {Names(Contract[c]) : c \in Contracts}
  <1>1. AddedNames(d) \subseteq Names(New(d))
    BY DEF AddedNames, Added, Names
  <1>2. New(d) = Contract[Asked[d].candidate] /\ Asked[d].candidate \in Contracts
    BY CompatibleIs, AskedType DEF New
  <1> QED
    BY <1>1, <1>2

-----------------------------------------------------------------------------
(* The invariant. *)

LEMMA NoJobType == NoJob \in Job
  BY DEF NoJob, Job

LEMMA InitInv == Init => SchemaInv
  <1> SUFFICES ASSUME Init PROVE SchemaInv
    OBVIOUS
  <1>1. SchemaTypeOK
    <2>1. target \in Metadata
      BY ContractAssumption DEF Init, Metadata
    <2> QED
      BY <2>1, NoJobType DEF Init, SchemaTypeOK, Labels
  <1>2. ReceiptsPreserveRows /\ NoLatePlan
    BY DEF Init, ReceiptsPreserveRows, NoLatePlan
  <1>3. AloneSound
    <2>1. target.token = Null /\ target.columns = Names(Contract[Base])
      BY DEF Init
    <2> QED
      BY <2>1 DEF Init, AloneSound
  <1>4. \A w \in Workers : WorkerSound(w)
    BY DEF Init, WorkerSound, NoJob
  <1>5. TokenSound
    BY DEF Init, TokenSound
  <1> QED
    BY <1>1, <1>2, <1>3, <1>4, <1>5 DEF SchemaInv

LEMMA GotoType ==
    ASSUME SchemaInv, NEW w \in Workers, NEW l \in Labels, NEW j \in Job, Goto(w, l, j)
    PROVE  /\ pc' \in [Workers -> Labels] /\ job' \in [Workers -> Job]
           /\ alone' \in BOOLEAN /\ alone' = alone /\ pc'[w] = l
           /\ l # "idle" => job'[w] = j
           /\ l = "idle" => job'[w] = NoJob
           /\ \A v \in Workers \ {w} : pc'[v] = pc[v] /\ job'[v] = job[v]
  BY NoJobType DEF Goto, SchemaInv, SchemaTypeOK

(* Nothing decided is taken back and no column goes away. *)
Grows ==
    /\ decisions \subseteq decisions'
    /\ \A d \in Changes : quarantines[d] # Null => quarantines'[d] # Null
    /\ target.columns \subseteq target'.columns

LEMMA OthersSound ==
    ASSUME NEW v \in Workers, WorkerSound(v), Grows, pc'[v] = pc[v], job'[v] = job[v]
    PROVE  WorkerSound(v)'
  <1> DEFINE d == job[v].change
  <1>1. d \in Compatible => TableOf(d) \in Tables
    BY AskedType DEF Compatible
  <1>2. pc[v] = "reject" => d \in Changes
    BY DEF WorkerSound
  <1>3. pc[v] = "receipt" => d \in Compatible
    BY DEF WorkerSound
  <1> QED
    BY <1>1, <1>2, <1>3 DEF WorkerSound, Grows

(* A worker that is idle is sound. *)
LEMMA IdleSound ==
    ASSUME SchemaInv, NEW w \in Workers, Leave(w)
    PROVE  WorkerSound(w)'
  <1>1. pc'[w] = "idle" /\ job'[w] = NoJob
    BY GotoType, NoJobType DEF Leave, Labels
  <1> QED
    BY <1>1 DEF WorkerSound, NoJob

(* With one process at a time, the one that acts is the only one. *)
OnlyOne(w) == alone => \A v \in Workers \ {w} : pc[v] = "idle"

LEMMA ActiveIsOnly ==
    ASSUME SchemaInv, NEW w \in Workers, pc[w] # "idle"
    PROVE  OnlyOne(w)
  BY DEF OnlyOne, SchemaInv, AloneSound

(* A step that only moves a worker keeps the invariant if what the worker
   takes along is sound. *)
LEMMA MoveStep ==
    ASSUME SchemaInv, UNCHANGED target, UNCHANGED <<quarantines, rejection, receipts>>,
           decisions \subseteq decisions', decisions' \in SUBSET Changes,
           NEW w \in Workers, NEW l \in Labels, NEW j \in Job, Goto(w, l, j),
           OnlyOne(w), WorkerSound(w)',
           alone /\ l = "commit" => target.token = Null,
           alone /\ l \in {"visible", "receipt"} => target.token = j.change
    PROVE  SchemaInv'
  <1>1. /\ pc' \in [Workers -> Labels] /\ job' \in [Workers -> Job]
        /\ alone' \in BOOLEAN /\ alone' = alone /\ pc'[w] = l
        /\ l # "idle" => job'[w] = j
        /\ \A v \in Workers \ {w} : pc'[v] = pc[v] /\ job'[v] = job[v]
    BY GotoType
  <1>2. Grows
    BY DEF Grows
  <1>3. SchemaTypeOK'
    BY <1>1 DEF SchemaInv, SchemaTypeOK
  <1>4. \A v \in Workers : WorkerSound(v)'
    BY <1>1, <1>2, OthersSound DEF SchemaInv
  <1>5. ReceiptsPreserveRows' /\ TokenSound'
    BY DEF SchemaInv, ReceiptsPreserveRows, TokenSound
  <1>6. NoLatePlan'
    BY <1>4 DEF SchemaInv, NoLatePlan, WorkerSound
  <1>7. AloneSound'
    <2> SUFFICES ASSUME alone
                 PROVE  /\ \A u, v \in Workers : pc'[u] # "idle" /\ pc'[v] # "idle" => u = v
                        /\ \A v \in Workers :
                             /\ pc'[v] = "commit" => target.token = Null
                             /\ pc'[v] \in {"visible", "receipt"} => target.token = job'[v].change
      BY <1>1 DEF AloneSound, SchemaInv
    <2>1. \A v \in Workers \ {w} : pc'[v] = "idle"
      BY <1>1 DEF OnlyOne
    <2> QED
      BY <1>1, <2>1
  <1> QED
    BY <1>3, <1>4, <1>5, <1>6, <1>7 DEF SchemaInv

LEMMA LeaveStep ==
    ASSUME SchemaInv, UNCHANGED <<control, target>>, NEW w \in Workers, pc[w] # "idle", Leave(w)
    PROVE  SchemaInv'
  <1>1. Goto(w, "idle", NoJob) /\ "idle" \in Labels
    BY DEF Leave, Labels
  <1>2. decisions' \in SUBSET Changes
    BY DEF SchemaInv, SchemaTypeOK, control
  <1> QED
    BY <1>1, <1>2, ActiveIsOnly, IdleSound, NoJobType, MoveStep DEF control

-----------------------------------------------------------------------------
(* The steps that only move a worker. *)

LEMMA JobType ==
    ASSUME SchemaInv, NEW w \in Workers
    PROVE  job[w] \in Job /\ WorkerSound(w) /\ pc[w] \in Labels
  BY DEF SchemaInv, SchemaTypeOK

LEMMA TargetType ==
    ASSUME SchemaInv
    PROVE  target \in Metadata /\ target.location \in Nat /\ TokenSound
  BY DEF SchemaInv, SchemaTypeOK, Metadata

LEMMA ExecuteStep ==
    ASSUME SchemaInv, NEW w \in Workers, NEW d \in Changes, NEW r \in Nat, Execute(w, d, r)
    PROVE  SchemaInv'
  <1> DEFINE j == [NoJob EXCEPT !.change = d, !.revision = r]
             l == IF d \in Compatible THEN "token" ELSE "metadata"
  <1>1. j \in Job /\ j.change = d /\ ~j.closed
    BY DEF NoJob, Job
  <1>2. l \in Labels /\ l # "idle" /\ l # "commit" /\ l \notin {"visible", "receipt"}
    BY DEF Labels
  <1>3. /\ Goto(w, l, j) /\ OnlyOne(w) /\ UNCHANGED target
        /\ UNCHANGED <<quarantines, rejection, receipts>>
        /\ decisions' = decisions \cup {d}
    BY DEF Execute, Begin, OnlyOne
  <1>4. decisions \subseteq decisions' /\ decisions' \in SUBSET Changes
    BY <1>3 DEF SchemaInv, SchemaTypeOK
  <1> HIDE DEF j
  <1>5. pc'[w] = l /\ job'[w] = j
    BY <1>1, <1>2, <1>3, GotoType
  <1>6. WorkerSound(w)'
    BY <1>1, <1>3, <1>5 DEF WorkerSound
  <1> QED
    BY <1>1, <1>2, <1>3, <1>4, <1>6, MoveStep

LEMMA AssembleStep ==
    ASSUME SchemaInv, NEW w \in Workers, NEW ds \in SUBSET Changes,
           NEW n \in 1 .. MaxEvents, Assemble(w, ds, n)
    PROVE  SchemaInv'
  <1> DEFINE j == [NoJob EXCEPT !.plan = ds, !.left = n, !.closed = Closed]
  <1>1. j \in Job
    <2>1. Closed \in BOOLEAN
      BY DEF Closed
    <2>2. n \in Nat
      BY BoundAssumption
    <2> QED
      BY <2>1, <2>2 DEF NoJob, Job
  <1>2. j.left = n /\ j.closed = Closed
    BY DEF NoJob
  <1>3. n > 0
    BY BoundAssumption
  <1>4. /\ Goto(w, "rejection", j) /\ OnlyOne(w)
        /\ UNCHANGED target /\ UNCHANGED control
    BY DEF Assemble, Begin, OnlyOne
  <1>5. decisions \subseteq decisions' /\ decisions' \in SUBSET Changes
    BY <1>4 DEF SchemaInv, SchemaTypeOK, control
  <1>6. Closed => \E e \in Changes : quarantines[e] # Null
    BY DEF Closed, SchemaInv, NoLatePlan, SchemaTypeOK
  <1> HIDE DEF j
  <1>7. pc'[w] = "rejection" /\ job'[w] = j
    BY <1>1, <1>4, GotoType DEF Labels
  <1>8. WorkerSound(w)'
    BY <1>2, <1>3, <1>4, <1>6, <1>7 DEF WorkerSound, control
  <1> QED
    BY <1>1, <1>4, <1>5, <1>8, MoveStep DEF Labels, control

(* A worker in a call that moves on with its job. *)
LEMMA OnStep ==
    ASSUME SchemaInv, UNCHANGED <<control, target>>, NEW w \in Workers, pc[w] # "idle",
           NEW l \in Labels, NEW j \in Job, Goto(w, l, j), WorkerSound(w)',
           alone /\ l = "commit" => target.token = Null,
           alone /\ l \in {"visible", "receipt"} => target.token = j.change
    PROVE  SchemaInv'
  <1>1. decisions' \in SUBSET Changes /\ decisions \subseteq decisions'
    BY DEF SchemaInv, SchemaTypeOK, control
  <1> QED
    BY <1>1, ActiveIsOnly, MoveStep DEF control

LEMMA ReadMetadataStep ==
    ASSUME SchemaInv, NEW w \in Workers, ReadMetadata(w) PROVE SchemaInv'
  <1> DEFINE d == job[w].change
             j == [job[w] EXCEPT !.location = target.location]
  <1>1. job[w] \in Job /\ WorkerSound(w) /\ pc[w] = "metadata" /\ d \in Changes
    BY JobType DEF ReadMetadata, WorkerSound
  <1>2. target.location \in Nat
    BY <1>1, AskedType, TargetType
  <1>3. j \in Job /\ j.change = d /\ j.closed = job[w].closed
    BY <1>1, <1>2 DEF Job
  <1>4. Goto(w, "quarantine", j) /\ UNCHANGED <<control, target>>
    BY DEF ReadMetadata
  <1> HIDE DEF j
  <1>5. pc'[w] = "quarantine" /\ job'[w] = j
    BY <1>3, <1>4, GotoType DEF Labels
  <1>6. WorkerSound(w)'
    BY <1>1, <1>3, <1>4, <1>5 DEF WorkerSound, control
  <1> QED
    BY <1>1, <1>3, <1>4, <1>6, OnStep DEF Labels

LEMMA LookTokenStep ==
    ASSUME SchemaInv, NEW w \in Workers, LookToken(w) PROVE SchemaInv'
  <1> DEFINE d == job[w].change
             j == [job[w] EXCEPT !.location = target.location]
  <1>1. /\ job[w] \in Job /\ WorkerSound(w) /\ pc[w] = "token"
        /\ d \in decisions \cap Compatible
        /\ UNCHANGED <<control, target>>
    BY JobType DEF LookToken, WorkerSound
  <1>2. d \in Changes /\ target.location \in Nat /\ TokenSound
    BY <1>1, AskedType, TargetType DEF Compatible
  <1>3. CASE target.token = d
    <2>1. d # Null
      BY <1>2, BoundAssumption
    <2>2. j \in Job /\ j.change = d /\ j.closed = job[w].closed
      BY <1>1, <1>2 DEF Job
    <2>3. Goto(w, "receipt", j)
      BY <1>3 DEF LookToken
    <2>4. AddedNames(d) \subseteq target.columns
      BY <1>2, <1>3, <2>1 DEF TokenSound
    <2> HIDE DEF j
    <2>5. pc'[w] = "receipt" /\ job'[w] = j
      BY <2>2, <2>3, GotoType DEF Labels
    <2>6. WorkerSound(w)'
      BY <1>1, <2>2, <2>4, <2>5 DEF WorkerSound, control
    <2> QED
      BY <1>1, <1>3, <2>2, <2>3, <2>6, OnStep DEF Labels
  <1>4. CASE target.token # d /\ target.token = Null /\ Supported(d)
    <2>1. Goto(w, "commit", job[w])
      BY <1>4 DEF LookToken
    <2>2. pc'[w] = "commit" /\ job'[w] = job[w]
      BY <1>1, <2>1, GotoType DEF Labels
    <2>3. WorkerSound(w)'
      BY <1>1, <2>2 DEF WorkerSound, control
    <2> QED
      BY <1>1, <1>4, <2>1, <2>3, OnStep DEF Labels
  <1>5. CASE target.token # d /\ ~(target.token = Null /\ Supported(d))
    <2>1. Leave(w)
      BY <1>5 DEF LookToken
    <2> QED
      BY <1>1, <2>1, LeaveStep
  <1> QED
    BY <1>3, <1>4, <1>5

LEMMA SeeCommitStep ==
    ASSUME SchemaInv, NEW w \in Workers, SeeCommit(w) PROVE SchemaInv'
  <1> DEFINE d == job[w].change
             j == [job[w] EXCEPT !.location = target.location]
  <1>1. /\ job[w] \in Job /\ WorkerSound(w) /\ pc[w] = "visible"
        /\ d \in decisions \cap Compatible
        /\ UNCHANGED <<control, target>>
    BY JobType DEF SeeCommit, WorkerSound
  <1>2. d \in Changes /\ target.location \in Nat /\ TokenSound
    BY <1>1, AskedType, TargetType DEF Compatible
  <1>3. CASE target.token = d
    <2>1. d # Null
      BY <1>2, BoundAssumption
    <2>2. j \in Job /\ j.change = d /\ j.closed = job[w].closed
      BY <1>1, <1>2 DEF Job
    <2>3. Goto(w, "receipt", j)
      BY <1>3 DEF SeeCommit
    <2>4. AddedNames(d) \subseteq target.columns
      BY <1>2, <1>3, <2>1 DEF TokenSound
    <2> HIDE DEF j
    <2>5. pc'[w] = "receipt" /\ job'[w] = j
      BY <2>2, <2>3, GotoType DEF Labels
    <2>6. WorkerSound(w)'
      BY <1>1, <2>2, <2>4, <2>5 DEF WorkerSound, control
    <2> QED
      BY <1>1, <1>3, <2>2, <2>3, <2>6, OnStep DEF Labels
  <1>4. CASE target.token # d
    <2>1. Leave(w)
      BY <1>4 DEF SeeCommit
    <2> QED
      BY <1>1, <2>1, LeaveStep
  <1> QED
    BY <1>3, <1>4

LEMMA AdmissionStep ==
    ASSUME SchemaInv, NEW w \in Workers,
           ReadRejection(w) \/ ReadQuarantines(w) \/ ReadAdmission(w) \/ HandOver(w)
    PROVE  SchemaInv'
  <1>1. /\ job[w] \in Job /\ WorkerSound(w) /\ UNCHANGED <<control, target>>
        /\ pc[w] \in {"rejection", "quarantined", "admission", "planned"}
        /\ job[w].left \in Nat
    BY JobType DEF ReadRejection, ReadQuarantines, ReadAdmission, HandOver, Job
  <1>2. CASE Leave(w)
    BY <1>1, <1>2, LeaveStep
  <1>3. CASE ReadRejection(w) /\ Goto(w, "quarantined", job[w])
    <2>1. pc'[w] = "quarantined" /\ job'[w] = job[w] /\ pc[w] = "rejection"
      BY <1>1, <1>3, GotoType DEF Labels, ReadRejection
    <2>2. WorkerSound(w)'
      BY <1>1, <2>1 DEF WorkerSound, control
    <2> QED
      BY <1>1, <1>3, <2>2, OnStep DEF Labels
  <1>4. CASE ReadQuarantines(w) /\ ~Quarantined(w)
    <2>1. Goto(w, "admission", job[w]) /\ pc[w] = "quarantined"
      BY <1>4 DEF ReadQuarantines
    <2>2. pc'[w] = "admission" /\ job'[w] = job[w]
      BY <1>1, <2>1, GotoType DEF Labels
    <2>3. ~job[w].closed
      BY <1>1, <1>4 DEF WorkerSound, Quarantined
    <2>4. WorkerSound(w)'
      BY <1>1, <2>1, <2>2, <2>3 DEF WorkerSound, control
    <2> QED
      BY <1>1, <2>1, <2>4, OnStep DEF Labels
  <1>5. CASE ReadAdmission(w) /\ ~Leave(w)
    <2> DEFINE j == [job[w] EXCEPT !.left = @ - 1]
               l == IF job[w].left = 1 THEN "planned" ELSE "rejection"
    <2>1. Goto(w, l, j) /\ pc[w] = "admission"
      BY <1>5 DEF ReadAdmission
    <2>2. job[w].left > 0 /\ ~job[w].closed
      BY <1>1, <2>1 DEF WorkerSound
    <2>3. job[w].left - 1 \in Nat
      BY <1>1, <2>2
    <2>4. j \in Job /\ j.left = job[w].left - 1 /\ j.closed = job[w].closed
      BY <1>1, <2>3 DEF Job
    <2>5. l = "rejection" => j.left > 0
      BY <1>1, <2>2, <2>4
    <2>6. l \in {"planned", "rejection"} /\ l \in Labels
      BY DEF Labels
    <2> HIDE DEF j, l
    <2>7. pc'[w] = l /\ job'[w] = j
      BY <2>1, <2>4, <2>6, GotoType
    <2>8. WorkerSound(w)'
      BY <2>2, <2>4, <2>5, <2>6, <2>7 DEF WorkerSound
    <2> QED
      BY <1>1, <2>1, <2>4, <2>6, <2>8, OnStep
  <1> QED
    BY <1>2, <1>3, <1>4, <1>5 DEF ReadRejection, ReadQuarantines, HandOver, Quarantined

-----------------------------------------------------------------------------
(* The steps that write the control store. *)

LEMMA OpenQuarantineStep ==
    ASSUME SchemaInv, NEW w \in Workers, OpenQuarantine(w) PROVE SchemaInv'
  <1> DEFINE d == job[w].change
             l == IF d \in Incompatible THEN "reject" ELSE "idle"
  <1>1. /\ job[w] \in Job /\ WorkerSound(w) /\ pc[w] = "quarantine" /\ d \in Changes
        /\ job[w].location \in Nat
        /\ UNCHANGED <<decisions, rejection, receipts, target>>
    BY JobType DEF OpenQuarantine, WorkerSound, Job
  <1>2. CASE quarantines[d] \notin {Null, job[w].location}
    <2>1. Leave(w) /\ UNCHANGED <<control, target>>
      BY <1>1, <1>2 DEF OpenQuarantine, control
    <2> QED
      BY <1>1, <2>1, LeaveStep
  <1>3. CASE quarantines[d] \in {Null, job[w].location}
    <2>1. quarantines' = [quarantines EXCEPT ![d] = job[w].location] /\ Goto(w, l, job[w])
      BY <1>3 DEF OpenQuarantine
    <2>2. l \in Labels /\ l \in {"reject", "idle"}
      BY DEF Labels
    <2> HIDE DEF l
    <2>3. /\ pc' \in [Workers -> Labels] /\ job' \in [Workers -> Job]
          /\ alone' \in BOOLEAN /\ alone' = alone /\ pc'[w] = l
          /\ l # "idle" => job'[w] = job[w]
          /\ l = "idle" => job'[w] = NoJob
          /\ \A v \in Workers \ {w} : pc'[v] = pc[v] /\ job'[v] = job[v]
      BY <1>1, <2>1, <2>2, GotoType
    <2>4. /\ quarantines' \in [Changes -> Nat \cup {Null}]
          /\ quarantines'[d] # Null
          /\ \A e \in Changes : quarantines[e] # Null => quarantines'[e] # Null
      BY <1>1, <2>1, BoundAssumption DEF SchemaInv, SchemaTypeOK
    <2>5. SchemaTypeOK'
      BY <1>1, <2>3, <2>4 DEF SchemaInv, SchemaTypeOK
    <2>6. Grows
      BY <1>1, <2>4 DEF Grows
    <2>7. WorkerSound(w)'
      <3>1. CASE l = "idle"
        BY <2>3, <3>1 DEF WorkerSound, NoJob
      <3>2. CASE l = "reject"
        BY <1>1, <2>3, <2>4, <3>2 DEF WorkerSound
      <3> QED
        BY <2>2, <3>1, <3>2
    <2>8. \A v \in Workers \ {w} : WorkerSound(v)'
      BY <2>3, <2>6, OthersSound DEF SchemaInv
    <2>9. ReceiptsPreserveRows' /\ TokenSound'
      BY <1>1 DEF SchemaInv, ReceiptsPreserveRows, TokenSound
    <2>10. NoLatePlan'
      <3>1. rejection' # Null => quarantines'[rejection'.change] # Null
        BY <1>1, <2>4 DEF SchemaInv, NoLatePlan, SchemaTypeOK
      <3>2. \A v \in Workers : pc'[v] = "planned" => ~job'[v].closed
        BY <2>7, <2>8 DEF WorkerSound
      <3> QED
        BY <3>1, <3>2 DEF NoLatePlan
    <2>11. AloneSound'
      <3>1. OnlyOne(w)
        BY <1>1, ActiveIsOnly
      <3>2. alone => \A v \in Workers \ {w} : pc'[v] = "idle"
        BY <2>3, <3>1 DEF OnlyOne
      <3> QED
        BY <1>1, <2>2, <2>3, <3>2 DEF SchemaInv, AloneSound
    <2> QED
      BY <2>5, <2>7, <2>8, <2>9, <2>10, <2>11 DEF SchemaInv
  <1> QED
    BY <1>2, <1>3

LEMMA RejectStep ==
    ASSUME SchemaInv, NEW w \in Workers, RejectGeneration(w) PROVE SchemaInv'
  <1> DEFINE d == job[w].change
             new == [change |-> d, revision |-> job[w].revision + 1]
  <1>1. /\ job[w] \in Job /\ WorkerSound(w) /\ pc[w] = "reject" /\ d \in Changes
        /\ quarantines[d] # Null /\ Leave(w)
        /\ UNCHANGED <<decisions, quarantines, receipts, target>>
        /\ rejection' = IF rejection # Null THEN rejection ELSE new
    BY JobType DEF RejectGeneration, WorkerSound
  <1>2. new \in [change : Changes, revision : Nat] /\ new.change = d
    BY <1>1 DEF Job
  <1> HIDE DEF new
  <1>3. /\ pc' \in [Workers -> Labels] /\ job' \in [Workers -> Job]
        /\ alone' \in BOOLEAN /\ alone' = alone /\ pc'[w] = "idle"
        /\ \A v \in Workers \ {w} : pc'[v] = pc[v] /\ job'[v] = job[v]
    BY <1>1, GotoType, NoJobType DEF Leave, Labels
  <1>4. SchemaTypeOK'
    BY <1>1, <1>2, <1>3 DEF SchemaInv, SchemaTypeOK
  <1>5. Grows
    BY <1>1 DEF Grows
  <1>6. \A v \in Workers : WorkerSound(v)'
    BY <1>1, <1>3, <1>5, IdleSound, OthersSound DEF SchemaInv
  <1>7. ReceiptsPreserveRows' /\ TokenSound'
    BY <1>1 DEF SchemaInv, ReceiptsPreserveRows, TokenSound
  <1>8. NoLatePlan'
    <2>1. rejection' # Null => quarantines'[rejection'.change] # Null
      BY <1>1, <1>2 DEF SchemaInv, NoLatePlan
    <2> QED
      BY <1>6, <2>1 DEF NoLatePlan, WorkerSound
  <1>9. AloneSound'
    <2>1. alone => \A v \in Workers \ {w} : pc'[v] = "idle"
      BY <1>1, <1>3, ActiveIsOnly DEF OnlyOne
    <2> QED
      BY <1>1, <1>3, <2>1 DEF SchemaInv, AloneSound
  <1> QED
    BY <1>4, <1>6, <1>7, <1>8, <1>9 DEF SchemaInv

LEMMA SaveReceiptStep ==
    ASSUME SchemaInv, NEW w \in Workers, SaveReceipt(w) PROVE SchemaInv'
  <1> DEFINE d == job[w].change
  <1>1. /\ job[w] \in Job /\ WorkerSound(w) /\ pc[w] = "receipt"
        /\ d \in decisions \cap Compatible /\ d \in Changes
        /\ AddedNames(d) \subseteq target.columns
        /\ job[w].location \in Nat /\ Leave(w)
        /\ UNCHANGED <<decisions, quarantines, rejection, target>>
    BY JobType, CompatibleIs DEF SaveReceipt, WorkerSound, Job
  <1>2. CASE Receipted(d)
    <2>1. UNCHANGED <<control, target>>
      BY <1>1, <1>2 DEF SaveReceipt, control
    <2> QED
      BY <1>1, <2>1, LeaveStep
  <1>3. CASE ~Receipted(d)
    <2>1. receipts' = [receipts EXCEPT ![d] = job[w].location]
      BY <1>3 DEF SaveReceipt
    <2>2. /\ pc' \in [Workers -> Labels] /\ job' \in [Workers -> Job]
          /\ alone' \in BOOLEAN /\ alone' = alone /\ pc'[w] = "idle"
          /\ \A v \in Workers \ {w} : pc'[v] = pc[v] /\ job'[v] = job[v]
      BY <1>1, GotoType, NoJobType DEF Leave, Labels
    <2>3. SchemaTypeOK'
      BY <1>1, <2>1, <2>2 DEF SchemaInv, SchemaTypeOK
    <2>4. \A v \in Workers : WorkerSound(v)'
      <3>1. Grows
        BY <1>1 DEF Grows
      <3> QED
        BY <1>1, <2>2, <3>1, IdleSound, OthersSound DEF SchemaInv
    <2>5. \A e \in Changes : receipts'[e] # Null => e = d \/ receipts[e] # Null
      BY <2>1 DEF SchemaInv, SchemaTypeOK
    <2>6. ReceiptsPreserveRows'
      BY <1>1, <2>5, PolicyPreservesRows DEF SchemaInv, ReceiptsPreserveRows
    <2>7. NoLatePlan' /\ TokenSound'
      BY <1>1, <2>4 DEF SchemaInv, NoLatePlan, TokenSound, WorkerSound
    <2>8. AloneSound'
      <3> SUFFICES ASSUME alone PROVE AloneSound'
        BY <2>2 DEF AloneSound
      <3>1. \A v \in Workers \ {w} : pc'[v] = "idle"
        BY <1>1, <2>2, ActiveIsOnly DEF OnlyOne
      <3>2. target.token = d
        BY <1>1 DEF SchemaInv, AloneSound
      <3>3. \A e \in Changes : receipts'[e] # Null => target'.token = e
        BY <1>1, <2>5, <3>2 DEF SchemaInv, AloneSound
      <3> QED
        BY <1>1, <2>2, <3>1, <3>3 DEF SchemaInv, AloneSound
    <2> QED
      BY <2>3, <2>4, <2>6, <2>7, <2>8 DEF SchemaInv
  <1> QED
    BY <1>2, <1>3

-----------------------------------------------------------------------------
(* The steps that write the table's metadata. *)

LEMMA CommitStep ==
    ASSUME SchemaInv, NEW w \in Workers, Commit(w) PROVE SchemaInv'
  <1> DEFINE d == job[w].change
  <1>1. /\ job[w] \in Job /\ WorkerSound(w) /\ pc[w] = "commit"
        /\ d \in decisions \cap Compatible /\ d \in Changes
        /\ UNCHANGED control
    BY JobType, CompatibleIs, AskedType DEF Commit, WorkerSound
  <1>2. CASE AddedNames(d) \cap target.columns # {}
    <2>1. Leave(w) /\ UNCHANGED target
      BY <1>2 DEF Commit
    <2> QED
      BY <1>1, <2>1, LeaveStep
  <1>3. CASE AddedNames(d) \cap target.columns = {}
    <2>1. /\ target' = [target EXCEPT !.columns = @ \cup AddedNames(d),
                                      !.token = d, !.location = @ + 1]
          /\ Goto(w, "visible", job[w])
      BY <1>3 DEF Commit
    <2>2. /\ pc' \in [Workers -> Labels] /\ job' \in [Workers -> Job]
          /\ alone' \in BOOLEAN /\ alone' = alone /\ pc'[w] = "visible" /\ job'[w] = job[w]
          /\ \A v \in Workers \ {w} : pc'[v] = pc[v] /\ job'[v] = job[v]
      BY <1>1, <2>1, GotoType DEF Labels
    <2>3. target \in Metadata
      BY <1>1 DEF SchemaInv, SchemaTypeOK
    <2>4. /\ target'.columns = target.columns \cup AddedNames(d)
          /\ target'.token = d
          /\ target'.location = target.location + 1
          /\ target' \in Metadata
      <3>1. /\ target.columns \cup AddedNames(d)
                 \in SUBSET UNION {Names(Contract[c]) : c \in Contracts}
            /\ target.location + 1 \in Nat /\ d \in Changes \cup {Null}
        BY <1>1, <2>3, AddedType DEF Metadata
      <3> QED
        BY <1>1, <2>1, <2>3, <3>1 DEF Metadata
    <2>5. SchemaTypeOK'
      BY <1>1, <2>2, <2>4 DEF SchemaInv, SchemaTypeOK, control
    <2>6. Grows
      BY <1>1, <2>4 DEF Grows, control
    <2>7. WorkerSound(w)'
      BY <1>1, <2>2 DEF WorkerSound, control
    <2>8. \A v \in Workers \ {w} : WorkerSound(v)'
      BY <2>2, <2>6, OthersSound DEF SchemaInv
    <2>9. ReceiptsPreserveRows'
      <3> SUFFICES ASSUME NEW e \in Changes, receipts[e] # Null
                   PROVE  /\ e \in decisions \cap PreservesRows
                          /\ AddedNames(e) \subseteq target'.columns
        BY <1>1 DEF ReceiptsPreserveRows, control
      <3> QED
        BY <2>4, AskedType DEF SchemaInv, ReceiptsPreserveRows
    <2>10. TokenSound'
      BY <1>1, <2>4 DEF SchemaInv, TokenSound
    <2>11. NoLatePlan'
      BY <1>1, <2>7, <2>8 DEF SchemaInv, NoLatePlan, WorkerSound, control
    <2>12. AloneSound'
      <3> SUFFICES ASSUME alone PROVE AloneSound'
        BY <2>2 DEF AloneSound
      <3>1. \A v \in Workers \ {w} : pc'[v] = "idle"
        BY <1>1, <2>2, ActiveIsOnly DEF OnlyOne
      <3>2. target.token = Null
        BY <1>1 DEF SchemaInv, AloneSound
      <3>3. \A e \in Changes : receipts[e] = Null
        BY <3>2, BoundAssumption DEF SchemaInv, AloneSound
      <3>4. \A e \in Changes : receipts'[e] # Null => target'.token = e
        BY <1>1, <2>4, <3>3, AskedType DEF SchemaInv, AloneSound, control
      <3>5. target'.columns = Names(Contract[Base]) \cup
                (IF target'.token = Null THEN {} ELSE AddedNames(target'.token))
        BY <1>1, <2>4, <3>2, BoundAssumption DEF SchemaInv, AloneSound
      <3> QED
        BY <2>2, <2>4, <3>1, <3>4, <3>5 DEF AloneSound
    <2> QED
      BY <2>5, <2>7, <2>8, <2>9, <2>10, <2>11, <2>12 DEF SchemaInv
  <1> QED
    BY <1>2, <1>3

LEMMA DataCommitStep ==
    ASSUME SchemaInv, DataCommit PROVE SchemaInv'
  <1>1. /\ UNCHANGED <<alone, control, pc, job>>
        /\ target' = [target EXCEPT !.location = @ + 1]
    BY DEF DataCommit
  <1>2. target \in Metadata
    BY DEF SchemaInv, SchemaTypeOK
  <1>3. /\ target'.columns = target.columns /\ target'.token = target.token
        /\ target' \in Metadata
    BY <1>1, <1>2 DEF Metadata
  <1>4. SchemaTypeOK'
    BY <1>1, <1>3 DEF SchemaInv, SchemaTypeOK, control
  <1>5. \A v \in Workers : WorkerSound(v)'
    <2>1. Grows
      BY <1>1, <1>3 DEF Grows, control
    <2> QED
      BY <1>1, <2>1, OthersSound DEF SchemaInv
  <1>6. NoLatePlan' /\ ReceiptsPreserveRows' /\ TokenSound'
    BY <1>1, <1>3, AskedType
       DEF SchemaInv, NoLatePlan, ReceiptsPreserveRows, TokenSound, control
  <1>7. AloneSound'
    <2> SUFFICES ASSUME alone PROVE AloneSound'
      BY <1>1 DEF AloneSound
    <2> QED
      BY <1>1, <1>3 DEF SchemaInv, AloneSound, control
  <1> QED
    BY <1>4, <1>5, <1>6, <1>7 DEF SchemaInv

-----------------------------------------------------------------------------
LEMMA NextStep == SchemaInv /\ [Next]_vars => SchemaInv'
  <1> SUFFICES ASSUME SchemaInv, [Next]_vars PROVE SchemaInv'
    OBVIOUS
  <1>1. ASSUME NEW w \in Workers, NEW d \in Duty[w], NEW r \in Revisions, Execute(w, d, r)
        PROVE  SchemaInv'
    BY <1>1, ExecuteStep, ContractAssumption, BoundAssumption
  <1>2. ASSUME NEW w \in Workers, NEW ds \in SUBSET Changes, NEW n \in 1 .. MaxEvents,
               Assemble(w, ds, n)
        PROVE  SchemaInv'
    BY <1>2, AssembleStep
  <1>3. ASSUME NEW w \in Workers, Work(w) PROVE SchemaInv'
    BY <1>3, ReadMetadataStep, OpenQuarantineStep, RejectStep, LookTokenStep, CommitStep,
       SeeCommitStep, SaveReceiptStep, AdmissionStep DEF Work
  <1>4. CASE DataCommit
    BY <1>4, DataCommitStep
  <1>5. ASSUME NEW w \in Workers, Die(w) PROVE SchemaInv'
    BY <1>5, LeaveStep DEF Die
  <1>6. CASE UNCHANGED vars
    <2>1. UNCHANGED <<alone, decisions, quarantines, rejection, receipts, target, pc, job>>
      BY <1>6 DEF vars, control
    <2>2. SchemaTypeOK' /\ ReceiptsPreserveRows' /\ NoLatePlan' /\ AloneSound'
      BY <2>1 DEF SchemaInv, SchemaTypeOK, ReceiptsPreserveRows, NoLatePlan, AloneSound
    <2>3. /\ \A w \in Workers : WorkerSound(w)'
          /\ TokenSound'
      BY <2>1 DEF SchemaInv, WorkerSound, TokenSound
    <2> QED
      BY <2>2, <2>3 DEF SchemaInv
  <1> QED
    BY <1>1, <1>2, <1>3, <1>4, <1>5, <1>6 DEF Next, Live

(* The inductive invariant holds of every behaviour. *)
THEOREM Invariance == Spec => []SchemaInv
  BY InitInv, NextStep, PTL DEF Spec

(* A receipt is only of a decided change that preserves every row, and whose
   column is on its table. *)
THEOREM ReceiptsAreSafe == Spec => []ReceiptsPreserveRows
  <1>1. SchemaInv => ReceiptsPreserveRows
    BY DEF SchemaInv
  <1> QED
    BY <1>1, Invariance, PTL

(* An assembly that begins when the generation is closed gets no plan. *)
THEOREM ClosedGetsNoPlan == Spec => []NoLatePlan
  <1>1. SchemaInv => NoLatePlan
    BY DEF SchemaInv
  <1> QED
    BY <1>1, Invariance, PTL

(* With one process at a time, which may die anywhere, a receipted change is
   the one on its table, and the table has exactly its contract's columns. *)
THEOREM AloneIsExact == Spec => []AloneReceiptsTarget
  <1>1. SchemaInv => AloneReceiptsTarget
    <2> SUFFICES ASSUME SchemaInv, alone, NEW d \in Changes, receipts[d] # Null
                 PROVE  /\ target.token = d
                        /\ Asked[d].previous = Base =>
                             target.columns = Names(New(d))
      BY DEF AloneReceiptsTarget
    <2>1. TableOf(d) \in Tables /\ d # Null
      BY AskedType, BoundAssumption
    <2>2. target.token = d
      BY DEF SchemaInv, AloneSound
    <2>3. d \in Compatible
      BY <2>1, <2>2 DEF SchemaInv, TokenSound
    <2>4. target.columns = Names(Contract[Base]) \cup AddedNames(d)
      BY <2>1, <2>2 DEF SchemaInv, AloneSound
    <2> QED
      BY <2>2, <2>3, <2>4, ColumnsAddUp DEF Old
  <1> QED
    BY <1>1, Invariance, PTL
=============================================================================
