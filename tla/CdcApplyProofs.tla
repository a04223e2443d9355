--------------------------- MODULE CdcApplyProofs ---------------------------
(***************************************************************************)
(* Theorems of CdcApply for any number of workers, transactions, tables,   *)
(* keys and manifests.  IInv is inductive; Refinement shows that the       *)
(* coordinator, with its claims, receipts and recovery by token,           *)
(* implements AppliedPrefix.                                               *)
(***************************************************************************)
EXTENDS CdcApply, FiniteSetTheorems, SequenceTheorems, WellFoundedInduction, TLAPS

-----------------------------------------------------------------------------
(* The data. *)

(* A plan belongs to a transaction of the history, after its manifest's start. *)
LEMMA PlanFacts ==
    ASSUME NEW p \in Plans
    PROVE  /\ p.txn \in Txns
           /\ p.txn \in Nat
           /\ p.manifest.previous \in Nat
           /\ p.manifest.previous < p.txn
  <1>1. p \in [txn : Txns, manifest : Manifests] /\ p.manifest.previous < p.txn
    BY DEF Plans
  <1>2. Len(History) \in Nat
    BY SourceAssumption
  <1>3. p.txn \in Txns /\ p.txn \in Nat
    BY <1>1, <1>2 DEF Txns
  <1>4. p.manifest.previous \in Nat
    BY <1>1, ManifestAssumption
  <1> QED
    BY <1>1, <1>3, <1>4

LEMMA ChangeType ==
    ASSUME NEW t \in Txns
    PROVE  History[t] \in SUBSET Change
  BY SourceAssumption DEF Txns

LEMMA TableFacts ==
    ASSUME NEW t \in Txns
    PROVE  /\ TablesOf[t] = PlanTables(t)
           /\ TablesOf[t] \subseteq Tables
  <1>1. \A c \in History[t] : c.table \in Tables
    BY ChangeType DEF Change
  <1> QED
    BY <1>1 DEF TablesOf, PlanTables

LEMMA TablesAreNumbers ==
    /\ Tables \subseteq Nat
    /\ \A table \in Tables : table \in 1 .. TableCount + 1 /\ table + 1 \in 1 .. TableCount + 1
    /\ 1 \in 1 .. TableCount + 1
  BY SourceAssumption DEF Tables

(* A MERGE of some of a transaction's changes gives rows again. *)
LEMMA MergedType ==
    ASSUME NEW rows \in Content, NEW t \in Txns, NEW table
    PROVE  Merged(rows, Changes(t, table)) \in Content
  <1> DEFINE cs == Changes(t, table)
             hit(k) == \E c \in cs : c.key = k /\ ((c.before = Null) <=> (rows[k] = Null))
             m(k) == IF hit(k) THEN (CHOOSE c \in cs : c.key = k).after ELSE rows[k]
  <1>1. \A c \in cs : c.after \in Images
    BY ChangeType DEF Changes, Change
  <1>2. \A k \in Keys : m(k) \in Images
    <2> SUFFICES ASSUME NEW k \in Keys PROVE m(k) \in Images
      OBVIOUS
    <2>1. CASE hit(k)
      <3>1. (CHOOSE c \in cs : c.key = k) \in cs
        BY <2>1
      <3> QED
        BY <2>1, <3>1, <1>1
    <2>2. CASE ~hit(k)
      BY <2>2 DEF Content
    <2> QED
      BY <2>1, <2>2
  <1>3. Merged(rows, cs) = [k \in Keys |-> m(k)]
    BY DEF Merged
  <1> QED
    BY <1>2, <1>3 DEF Content

LEMMA RowsType ==
    ASSUME TypeOK, NEW table \in Tables
    PROVE  Rows(table) \in Content
  <1>1. log[table] \in Seq(SnapshotRow) /\ Snapshot[table] \in Content
    BY SourceAssumption DEF TypeOK
  <1>2. CASE log[table] = <<>>
    BY <1>1, <1>2 DEF Rows
  <1>3. CASE log[table] # <<>>
    <2>1. Len(log[table]) \in 1 .. Len(log[table])
      BY <1>1, <1>3
    <2>2. log[table][Len(log[table])] \in SnapshotRow
      BY <1>1, <2>1
    <2> QED
      BY <1>3, <2>2 DEF Rows, SnapshotRow
  <1> QED
    BY <1>2, <1>3

-----------------------------------------------------------------------------
(* Types. *)

Job == [plan : Plans \cup {Null}, revision : Nat,
        table : 1 .. TableCount + 1, digest : Content \cup {Null}]

LEMMA NoJobType == NoJob \in Job
  BY TablesAreNumbers DEF NoJob, Job

(* Moving a worker keeps the worker variables well typed. *)
LEMMA GotoType ==
    ASSUME pc \in [Workers -> Labels], job \in [Workers -> Job],
           NEW w \in Workers, NEW l \in Labels, NEW j \in Job, Goto(w, l, j)
    PROVE  pc' \in [Workers -> Labels] /\ job' \in [Workers -> Job]
  BY DEF Goto

LEMMA LeaveType ==
    ASSUME pc \in [Workers -> Labels], job \in [Workers -> Job],
           NEW w \in Workers, Leave(w)
    PROVE  pc' \in [Workers -> Labels] /\ job' \in [Workers -> Job]
  BY GotoType, NoJobType DEF Leave, Labels

(* A worker that is not idle has a plan of the history. *)
LEMMA WorkerPlan ==
    ASSUME IInv, NEW w \in Workers, pc[w] # "idle"
    PROVE  /\ job[w] \in Job
           /\ job[w].plan \in Plans
           /\ Txn(w) \in Txns
           /\ checkpoint \in CheckpointRow
  <1>1. job[w] \in Job /\ checkpoint \in CheckpointRow \cup {Null}
    BY DEF IInv, TypeOK, Job
  <1>2. job[w].plan # Null /\ checkpoint # Null
    BY DEF IInv, WorkerInv, WorkerSound
  <1>3. job[w].plan \in Plans
    BY <1>1, <1>2 DEF Job
  <1> QED
    BY <1>1, <1>2, <1>3, PlanFacts DEF Txn

LEMMA InitInv == Init => IInv
  <1> SUFFICES ASSUME Init PROVE IInv
    OBVIOUS
  <1>1. NoJob \in [plan : Plans \cup {Null}, revision : Nat,
                   table : 1 .. TableCount + 1, digest : Content \cup {Null}]
    BY NoJobType DEF Job
  <1>2. TypeOK
    BY <1>1 DEF Init, TypeOK, Labels
  <1>3. Done = {}
    BY DEF Init, Done
  <1>4. WorkerInv /\ ClaimsNeedCheckpoint
    BY DEF Init, WorkerInv, WorkerSound, ClaimsNeedCheckpoint
  <1>5. CheckpointBehindReceipts /\ FrontierIsLast
    BY <1>3 DEF CheckpointBehindReceipts, FrontierIsLast, Init
  <1>6. ReceiptsHaveSnapshots
    BY DEF Init, ReceiptsHaveSnapshots
  <1> QED
    BY <1>2, <1>4, <1>5, <1>6 DEF IInv

-----------------------------------------------------------------------------
(* Steps keep the types.  Most steps only move a worker. *)

LEMMA MoveType ==
    ASSUME IInv, NEW w \in Workers, NEW l \in Labels, NEW j \in Job, Goto(w, l, j),
           UNCHANGED <<control, log>>
    PROVE  TypeOK'
  <1>1. pc \in [Workers -> Labels] /\ job \in [Workers -> Job]
    BY DEF IInv, TypeOK, Job
  <1>2. pc' \in [Workers -> Labels] /\ job' \in [Workers -> Job]
    BY <1>1, GotoType
  <1> QED
    BY <1>2 DEF IInv, TypeOK, control, Job

LEMMA WorkerTypes ==
    ASSUME IInv
    PROVE  /\ pc \in [Workers -> Labels]
           /\ job \in [Workers -> Job]
  BY DEF IInv, TypeOK, Job

LEMMA StepBusy ==
    ASSUME NEW w \in Workers, Step(w) \/ Crash(w)
    PROVE  pc[w] # "idle"
  BY DEF Step, Crash, ReadCheckpoint, Claim, Reclaim, SkipTable, TakeTable, TablesDone,
         LookToken, LookAgain, CheckFails, CheckPasses, Merge, Verify, RecordReceipt,
         RecordTombstones, Finalize, FinalizeNothing

LEMMA TypeStep ==
    ASSUME IInv, [Next]_vars
    PROVE  TypeOK'
  <1> USE WorkerTypes, TablesAreNumbers
  <1>1. CASE UNCHANGED vars
    BY <1>1 DEF IInv, TypeOK, vars, control
  <1>2. ASSUME NEW w \in Workers, NEW p \in Plans, Begin(w, p) PROVE TypeOK'
    <2>1. [NoJob EXCEPT !.plan = p] \in Job
      BY NoJobType DEF Job
    <2>2. pc' \in [Workers -> Labels] /\ job' \in [Workers -> Job]
      BY <1>2, <2>1, GotoType DEF Begin, Labels
    <2>3. [frontier |-> p.manifest.previous, revision |-> 0] \in CheckpointRow
      BY PlanFacts DEF CheckpointRow
    <2>4. checkpoint' \in CheckpointRow \cup {Null}
      BY <1>2, <2>3 DEF Begin, IInv, TypeOK
    <2> QED
      BY <1>2, <2>2, <2>4 DEF Begin, IInv, TypeOK, Job
  <1>3. ASSUME NEW w \in Workers, Step(w) \/ Crash(w), pc[w] # "idle" PROVE TypeOK'
    <2> DEFINE t == Txn(w)
               tb == job[w].table
    <2>0. /\ job[w] \in Job /\ job[w].plan \in Plans /\ t \in Txns
          /\ checkpoint \in CheckpointRow
      BY <1>3, WorkerPlan
    <2>1. CASE ReadCheckpoint(w)
      <3>1. [job[w] EXCEPT !.revision = checkpoint.revision] \in Job
        BY <2>0 DEF Job, CheckpointRow
      <3> QED
        BY <2>1, <3>1, MoveType, NoJobType DEF ReadCheckpoint, Leave, Labels
    <2>2. CASE Claim(w)
      <3>1. [plan |-> job[w].plan, state |-> "APPLYING"] \in ClaimRow
        BY <2>0 DEF ClaimRow
      <3>2. claims' \in [Txns -> ClaimRow \cup {Null}]
        BY <2>2, <2>0, <3>1 DEF Claim, IInv, TypeOK
      <3>3. pc' \in [Workers -> Labels] /\ job' \in [Workers -> Job]
        BY <2>2, <2>0, GotoType DEF Claim, Labels
      <3> QED
        BY <2>2, <3>2, <3>3 DEF Claim, IInv, TypeOK, Job
    <2>3. CASE Reclaim(w)
      BY <2>3, <2>0, MoveType, NoJobType DEF Reclaim, Leave, Labels
    <2>4. CASE SkipTable(w)
      <3>1. PICK table \in Tables : Goto(w, "table", [job[w] EXCEPT !.table = table + 1])
        BY <2>4 DEF SkipTable
      <3>2. [job[w] EXCEPT !.table = table + 1] \in Job
        BY <2>0 DEF Job
      <3> QED
        BY <2>4, <3>1, <3>2, MoveType DEF SkipTable, Labels
    <2>5. CASE TakeTable(w)
      <3>1. PICK table \in Tables : Goto(w, "looking", [job[w] EXCEPT !.table = table])
        BY <2>5 DEF TakeTable
      <3>2. [job[w] EXCEPT !.table = table] \in Job
        BY <2>0 DEF Job
      <3> QED
        BY <2>5, <3>1, <3>2, MoveType DEF TakeTable, Labels
    <2>6. CASE TablesDone(w)
      BY <2>6, <2>0, MoveType DEF TablesDone, Labels
    <2>7. CASE LookToken(w) \/ LookAgain(w)
      BY <2>7, <2>0, MoveType DEF LookToken, LookAgain, Labels
    <2>8. CASE CheckFails(w) \/ CheckPasses(w)
      BY <2>8, <2>0, MoveType, NoJobType DEF CheckFails, CheckPasses, Leave, Labels
    <2>9. CASE Merge(w)
      <3>1. tb \in Tables
        BY <2>9, <2>0, TableFacts DEF Merge, IInv, WorkerInv, WorkerSound
      <3>2. Merged(Rows(tb), Changes(t, tb)) \in Content
        BY <2>0, <3>1, RowsType, MergedType DEF IInv
      <3>3. [txn |-> t, rows |-> Merged(Rows(tb), Changes(t, tb))] \in SnapshotRow
        BY <2>0, <3>2 DEF SnapshotRow
      <3>4. log \in [Tables -> Seq(SnapshotRow)]
        BY DEF IInv, TypeOK
      <3>5. log' \in [Tables -> Seq(SnapshotRow)]
        <4> DEFINE row == [txn |-> t, rows |-> Merged(Rows(tb), Changes(t, tb))]
        <4>1. log' = [log EXCEPT ![tb] = Append(log[tb], row)]
          BY <2>9 DEF Merge, Commit
        <4>2. row \in SnapshotRow
          BY <3>3
        <4> HIDE DEF row
        <4>3. log[tb] \in Seq(SnapshotRow)
          BY <3>1, <3>4
        <4>4. Append(log[tb], row) \in Seq(SnapshotRow)
          BY <4>2, <4>3, AppendProperties
        <4> QED
          BY <4>1, <4>4, <3>4
      <3>6. pc' \in [Workers -> Labels] /\ job' \in [Workers -> Job]
        BY <2>9, <2>0, GotoType DEF Merge, Labels
      <3> QED
        BY <2>9, <3>5, <3>6 DEF Merge, control, IInv, TypeOK, Job
    <2>10. CASE Verify(w)
      <3>1. tb \in Tables
        BY <2>10, <2>0, TableFacts DEF Verify, IInv, WorkerInv, WorkerSound
      <3>2. [job[w] EXCEPT !.digest = Rows(tb)] \in Job
        BY <2>0, <3>1, RowsType DEF Job, IInv
      <3> QED
        BY <2>10, <3>2, MoveType DEF Verify, Labels
    <2>11. CASE RecordReceipt(w)
      <3>1. tb \in Tables /\ job[w].digest # Null
        BY <2>11, <2>0, TableFacts DEF RecordReceipt, IInv, WorkerInv, WorkerSound
      <3>2. PICK i \in DOMAIN log[tb] :
              LET receipt == [snapshot |-> i, digest |-> job[w].digest] IN
                /\ IF receipts[t][tb] = Null
                     THEN receipts' = [receipts EXCEPT ![t][tb] = receipt]
                     ELSE UNCHANGED receipts
                /\ IF receipts[t][tb] \in {Null, receipt}
                     THEN Goto(w, "table", [job[w] EXCEPT !.table = tb + 1, !.digest = Null])
                     ELSE Leave(w)
        BY <2>11 DEF RecordReceipt
      <3>3. i \in Nat
        <4>1. log[tb] \in Seq(SnapshotRow)
          BY <3>1 DEF IInv, TypeOK
        <4> QED
          BY <4>1
      <3>4. [snapshot |-> i, digest |-> job[w].digest] \in ReceiptRow
        BY <2>0, <3>1, <3>3 DEF ReceiptRow, Job
      <3>5. receipts' \in [Txns -> [Tables -> ReceiptRow \cup {Null}]]
        <4>1. receipts \in [Txns -> [Tables -> ReceiptRow \cup {Null}]]
          BY DEF IInv, TypeOK
        <4> QED
          BY <2>0, <3>1, <3>2, <3>4, <4>1
      <3>6. [job[w] EXCEPT !.table = tb + 1, !.digest = Null] \in Job
        BY <2>0, <3>1 DEF Job
      <3>7. pc' \in [Workers -> Labels] /\ job' \in [Workers -> Job]
        BY <3>2, <3>6, GotoType, LeaveType DEF Labels
      <3> QED
        BY <2>11, <3>5, <3>7 DEF RecordReceipt, IInv, TypeOK, Job
    <2>12. CASE RecordTombstones(w)
      <3>1. \A c \in History[t] : c.table \in Tables /\ c.key \in Keys
        BY <2>0, ChangeType DEF Change
      <3>2. Deleted(t) \subseteq [txn : Txns, table : Tables, key : Keys]
        BY <2>0, <3>1 DEF Deleted
      <3>3. pc' \in [Workers -> Labels] /\ job' \in [Workers -> Job]
        BY <2>12, <2>0, GotoType DEF RecordTombstones, Labels
      <3> QED
        BY <2>12, <3>2, <3>3 DEF RecordTombstones, IInv, TypeOK, Job
    <2>13. CASE Finalize(w)
      <3>1. claims[t] \in ClaimRow
        BY <2>13, <2>0 DEF Finalize, IInv, TypeOK, WorkerInv, WorkerSound
      <3>2. [claims[t] EXCEPT !.state = "CHECKPOINTED"] \in ClaimRow
        BY <3>1 DEF ClaimRow
      <3>3. claims' \in [Txns -> ClaimRow \cup {Null}]
        BY <2>13, <2>0, <3>2 DEF Finalize, IInv, TypeOK
      <3>4. checkpoint' \in CheckpointRow
        BY <2>13, <2>0, PlanFacts DEF Finalize, CheckpointRow, Txn
      <3>5. pc' \in [Workers -> Labels] /\ job' \in [Workers -> Job]
        BY <2>13, LeaveType DEF Finalize
      <3> QED
        BY <2>13, <3>3, <3>4, <3>5 DEF Finalize, IInv, TypeOK, Job
    <2>14. CASE FinalizeNothing(w) \/ Crash(w)
      BY <2>14, NoJobType, MoveType DEF FinalizeNothing, Crash, Leave, Labels
    <2> QED
      BY <1>3, <2>1, <2>2, <2>3, <2>4, <2>5, <2>6, <2>7, <2>8, <2>9, <2>10, <2>11,
         <2>12, <2>13, <2>14 DEF Step
  <1> QED
    BY <1>1, <1>2, <1>3, StepBusy DEF Next

-----------------------------------------------------------------------------
(* Rows of the control store and snapshots are never lost. *)

GrowthFacts ==
    /\ checkpoint # Null => checkpoint' # Null
    /\ \A t \in Txns : claims[t] # Null =>
         claims'[t] # Null /\ claims'[t].plan = claims[t].plan
    /\ \A t \in Txns, table \in Tables :
         receipts[t][table] # Null => receipts'[t][table] = receipts[t][table]
    /\ \A table \in Tables : \A i \in DOMAIN log[table] :
         i \in DOMAIN log'[table] /\ log'[table][i] = log[table][i]

LEMMA Growth ==
    ASSUME IInv, [Next]_vars
    PROVE  GrowthFacts
  <1> USE DEF GrowthFacts
  <1>0. TypeOK
    BY DEF IInv
  <1>1. CASE UNCHANGED <<control, log>>
    BY <1>1 DEF control
  <1>2. ASSUME NEW w \in Workers, NEW p \in Plans, Begin(w, p) PROVE GrowthFacts
    BY <1>2 DEF Begin
  <1>3. ASSUME NEW w \in Workers, Claim(w) PROVE GrowthFacts
    <2>1. Txn(w) \in Txns /\ job[w].plan \in Plans
      BY <1>3, WorkerPlan DEF Claim
    <2>2. [plan |-> job[w].plan, state |-> "APPLYING"] # Null
      BY <2>1, NullAssumption DEF ClaimRow
    <2> QED
      BY <1>0, <1>3, <2>1, <2>2 DEF Claim, TypeOK
  <1>4. ASSUME NEW w \in Workers, Merge(w) PROVE GrowthFacts
    <2> DEFINE tb == job[w].table
               row == [txn |-> Txn(w), rows |-> Merged(Rows(tb), Changes(Txn(w), tb))]
    <2>1. log' = [log EXCEPT ![tb] = Append(log[tb], row)] /\ UNCHANGED control
      BY <1>4 DEF Merge, Commit
    <2>2. log \in [Tables -> Seq(SnapshotRow)]
      BY <1>0 DEF TypeOK
    <2>3. row \in SnapshotRow
      <3>1. job[w].plan \in Plans /\ Txn(w) \in Txns
        BY <1>4, WorkerPlan DEF Merge
      <3>2. tb \in Tables
        BY <1>4, <3>1, TableFacts DEF Merge, IInv, WorkerInv, WorkerSound
      <3> QED
        BY <1>0, <3>1, <3>2, RowsType, MergedType DEF SnapshotRow
    <2> HIDE DEF row, tb
    <2>4. ASSUME NEW table \in Tables, NEW i \in DOMAIN log[table]
          PROVE  i \in DOMAIN log'[table] /\ log'[table][i] = log[table][i]
      <3>1. log[table] \in Seq(SnapshotRow)
        BY <2>2
      <3>2. /\ Len(Append(log[table], row)) = Len(log[table]) + 1
            /\ \A j \in 1 .. Len(log[table]) : Append(log[table], row)[j] = log[table][j]
            /\ Append(log[table], row) \in Seq(SnapshotRow)
        BY <2>3, <3>1, AppendProperties
      <3>3. log'[table] \in {log[table], Append(log[table], row)}
        BY <2>1, <2>2
      <3>4. i \in 1 .. Len(log[table]) /\ Len(log[table]) \in Nat
        BY <3>1
      <3>5. CASE log'[table] = Append(log[table], row)
        BY <3>2, <3>4, <3>5
      <3> QED
        BY <3>3, <3>5
    <2> QED
      BY <2>1, <2>4 DEF control
  <1>5. ASSUME NEW w \in Workers, RecordReceipt(w) PROVE GrowthFacts
    <2>1. Txn(w) \in Txns
      BY <1>5, WorkerPlan DEF RecordReceipt
    <2>2. \/ UNCHANGED receipts
          \/ \E r : receipts' = [receipts EXCEPT ![Txn(w)][job[w].table] = r]
                    /\ receipts[Txn(w)][job[w].table] = Null
      BY <1>5 DEF RecordReceipt
    <2>3. \A t \in Txns, table \in Tables :
             receipts[t][table] # Null => receipts'[t][table] = receipts[t][table]
      <3> SUFFICES ASSUME NEW t \in Txns, NEW table \in Tables, receipts[t][table] # Null
                   PROVE  receipts'[t][table] = receipts[t][table]
        OBVIOUS
      <3>1. receipts \in [Txns -> [Tables -> ReceiptRow \cup {Null}]]
        BY <1>0 DEF TypeOK
      <3>2. CASE UNCHANGED receipts
        BY <3>2
      <3>3. ASSUME NEW r, receipts' = [receipts EXCEPT ![Txn(w)][job[w].table] = r],
                   receipts[Txn(w)][job[w].table] = Null
            PROVE  receipts'[t][table] = receipts[t][table]
        <4>1. receipts[t] \in [Tables -> ReceiptRow \cup {Null}]
          BY <3>1
        <4>2. CASE t = Txn(w)
          <5>1. table # job[w].table
            BY <3>3, <4>2
          <5>2. receipts'[t] = [receipts[t] EXCEPT ![job[w].table] = r]
            BY <3>1, <3>3, <4>2
          <5> QED
            BY <4>1, <5>1, <5>2
        <4>3. CASE t # Txn(w)
          BY <3>1, <3>3, <4>3
        <4> QED
          BY <4>2, <4>3
      <3> QED
        BY <2>2, <3>2, <3>3
    <2> QED
      BY <1>5, <2>3 DEF RecordReceipt
  <1>6. ASSUME NEW w \in Workers, RecordTombstones(w) PROVE GrowthFacts
    BY <1>6 DEF RecordTombstones
  <1>7. ASSUME NEW w \in Workers, Finalize(w) PROVE GrowthFacts
    <2>1. Txn(w) \in Txns /\ job[w].plan \in Plans
      BY <1>7, WorkerPlan DEF Finalize
    <2>2. claims[Txn(w)] \in ClaimRow
      BY <1>0, <1>7, <2>1 DEF Finalize, IInv, WorkerInv, WorkerSound, TypeOK
    <2>3. [claims[Txn(w)] EXCEPT !.state = "CHECKPOINTED"] \in ClaimRow
          /\ [claims[Txn(w)] EXCEPT !.state = "CHECKPOINTED"].plan = claims[Txn(w)].plan
      BY <2>2 DEF ClaimRow
    <2>4. \A t \in Txns : claims[t] # Null =>
             claims'[t] # Null /\ claims'[t].plan = claims[t].plan
      BY <1>0, <1>7, <2>1, <2>3, NullAssumption DEF Finalize, TypeOK
    <2>5. checkpoint' # Null
      <3>1. checkpoint \in CheckpointRow /\ Txn(w) \in Nat
        BY <1>7, WorkerPlan, PlanFacts DEF Finalize, Txn
      <3>2. checkpoint' = [frontier |-> Txn(w), revision |-> checkpoint.revision + 1]
        BY <1>7 DEF Finalize
      <3>3. checkpoint' \in CheckpointRow
        BY <3>1, <3>2 DEF CheckpointRow
      <3> QED
        BY <3>3, NullAssumption
    <2> QED
      BY <1>7, <2>4, <2>5 DEF Finalize
  <1> QED
    BY <1>1, <1>2, <1>3, <1>4, <1>5, <1>6, <1>7
    DEF Next, Step, vars, ReadCheckpoint, Reclaim, SkipTable, TakeTable, TablesDone,
        LookToken, LookAgain, CheckFails, CheckPasses, Verify, FinalizeNothing, Crash

-----------------------------------------------------------------------------
(* Workers. *)

Others(w) == \A v \in Workers \ {w} : pc'[v] = pc[v] /\ job'[v] = job[v]

LEMMA GotoFacts ==
    ASSUME IInv, NEW w \in Workers, NEW l, NEW j, Goto(w, l, j)
    PROVE  pc'[w] = l /\ job'[w] = j /\ Others(w)
  BY WorkerTypes DEF Goto, Others

LEMMA LeaveFacts ==
    ASSUME IInv, NEW w \in Workers, Leave(w)
    PROVE  pc'[w] = "idle" /\ Others(w)
  BY GotoFacts DEF Leave

(* A worker that does not move stays sound. *)
LEMMA StaysSound ==
    ASSUME IInv, GrowthFacts, NEW v \in Workers,
           pc'[v] = pc[v], job'[v] = job[v]
    PROVE  WorkerSound(v)'
  <1>1. WorkerSound(v) /\ (pc[v] # "idle" => Txn(v) \in Txns)
    BY WorkerPlan DEF IInv, WorkerInv
  <1>2. Txn(v)' = Txn(v)
    BY DEF Txn
  <1> QED
    BY <1>1, <1>2 DEF WorkerSound, GrowthFacts

LEMMA WorkerStep ==
    ASSUME IInv, [Next]_vars
    PROVE  WorkerInv'
  <1>0. GrowthFacts
    BY Growth
  <1>1. CASE UNCHANGED vars
    BY <1>0, <1>1, StaysSound DEF WorkerInv, vars
  <1>2. ASSUME NEW w \in Workers, Others(w), WorkerSound(w)' PROVE WorkerInv'
    BY <1>0, <1>2, StaysSound DEF WorkerInv, Others
  <1>3. ASSUME NEW w \in Workers, NEW p \in Plans, Begin(w, p) PROVE WorkerInv'
    <2>1. pc'[w] = "opened" /\ job'[w] = [NoJob EXCEPT !.plan = p] /\ Others(w)
      BY <1>3, GotoFacts DEF Begin
    <2>2. job'[w].plan # Null
      BY <2>1, NullAssumption DEF NoJob
    <2>3. checkpoint' # Null
      <3>1. [frontier |-> p.manifest.previous, revision |-> 0] \in CheckpointRow
        BY PlanFacts DEF CheckpointRow
      <3> QED
        BY <1>3, <3>1, NullAssumption DEF Begin
    <2> QED
      BY <1>2, <2>1, <2>2, <2>3 DEF WorkerSound
  <1>4. ASSUME NEW w \in Workers, Step(w) \/ Crash(w), pc[w] # "idle" PROVE WorkerInv'
    <2>0. /\ WorkerSound(w) /\ job[w] \in Job /\ Txn(w) \in Txns /\ job[w].plan \in Plans
          /\ job[w].plan # Null /\ checkpoint' # Null
      BY <1>0, <1>4, WorkerPlan, NullAssumption DEF IInv, WorkerInv, GrowthFacts
    <2>1. CASE Leave(w)
      <3>1. pc'[w] = "idle" /\ Others(w)
        BY <2>1, LeaveFacts
      <3> QED
        BY <1>2, <3>1 DEF WorkerSound
    (* Where the claim holds already, a move that keeps the plan keeps it. *)
    <2>2. ASSUME NEW l, NEW j, Goto(w, l, j), j.plan = job[w].plan,
                 claims'[Txn(w)] # Null, claims'[Txn(w)].plan = job[w].plan,
                 l \in {"looking", "applying", "checking", "merging", "verifying",
                        "recording"} => j.table \in TablesOf[Txn(w)],
                 l = "recording" => j.digest # Null
          PROVE  WorkerInv'
      <3>1. pc'[w] = l /\ job'[w] = j /\ Others(w)
        BY <2>2, GotoFacts
      <3>2. Txn(w)' = Txn(w)
        BY <2>2, <3>1 DEF Txn
      <3>3. WorkerSound(w)'
        BY <2>0, <2>2, <3>1, <3>2 DEF WorkerSound
      <3> QED
        BY <1>2, <3>1, <3>3
    <2>3. pc[w] \notin {"opened", "claiming"} =>
            claims'[Txn(w)] # Null /\ claims'[Txn(w)].plan = job[w].plan
      BY <1>0, <1>4, <2>0 DEF WorkerSound, GrowthFacts
    <2>4. CASE ReadCheckpoint(w)
      <3> SUFFICES ASSUME Goto(w, "claiming", [job[w] EXCEPT !.revision = checkpoint.revision])
                   PROVE  WorkerInv'
        BY <2>1, <2>4 DEF ReadCheckpoint
      <3>1. /\ pc'[w] = "claiming" /\ Others(w)
            /\ job'[w] = [job[w] EXCEPT !.revision = checkpoint.revision]
        BY GotoFacts
      <3>2. job'[w].plan = job[w].plan
        BY <2>0, <3>1 DEF Job
      <3>3. WorkerSound(w)'
        BY <2>0, <3>1, <3>2 DEF WorkerSound
      <3> QED
        BY <1>2, <3>1, <3>3
    <2>5. CASE Claim(w)
      <3>1. claims'[Txn(w)] = [plan |-> job[w].plan, state |-> "APPLYING"]
        BY <2>0, <2>5 DEF Claim, IInv, TypeOK
      <3>2. claims'[Txn(w)] # Null
        BY <2>0, <3>1, NullAssumption DEF ClaimRow
      <3>3. Goto(w, "table", job[w])
        BY <2>5 DEF Claim
      <3> QED
        BY <2>2, <3>1, <3>2, <3>3
    <2>6. CASE Reclaim(w)
      <3> SUFFICES ASSUME Goto(w, "table", job[w]), claims[Txn(w)].plan = job[w].plan
                   PROVE  WorkerInv'
        BY <2>1, <2>6 DEF Reclaim
      <3>1. claims'[Txn(w)] # Null /\ claims'[Txn(w)].plan = job[w].plan
        BY <1>0, <2>0, <2>6 DEF Reclaim, GrowthFacts
      <3> QED
        BY <2>2, <3>1
    <2>7. CASE SkipTable(w)
      <3>1. PICK table \in Tables : Goto(w, "table", [job[w] EXCEPT !.table = table + 1])
        BY <2>7 DEF SkipTable
      <3>2. [job[w] EXCEPT !.table = table + 1].plan = job[w].plan
        BY <2>0 DEF Job
      <3>3. pc[w] = "table"
        BY <2>7 DEF SkipTable
      <3> QED
        BY <2>2, <2>3, <3>1, <3>2, <3>3
    <2>8. CASE TakeTable(w)
      <3>1. PICK table \in Tables : /\ table \in PlanTables(Txn(w))
                                    /\ Goto(w, "looking", [job[w] EXCEPT !.table = table])
        BY <2>8 DEF TakeTable, IsNext
      <3>2. [job[w] EXCEPT !.table = table].plan = job[w].plan
            /\ [job[w] EXCEPT !.table = table].table = table
        BY <2>0 DEF Job
      <3>3. pc[w] = "table" /\ table \in TablesOf[Txn(w)]
        BY <2>0, <2>8, <3>1, TableFacts DEF TakeTable
      <3> QED
        BY <2>2, <2>3, <3>1, <3>2, <3>3
    <2>9. CASE TablesDone(w) \/ LookToken(w) \/ LookAgain(w) \/ Merge(w) \/ RecordTombstones(w)
      <3>1. \E l \in Labels : /\ Goto(w, l, job[w])
                              /\ l # "recording"
                              /\ l \in {"looking", "applying", "checking", "merging", "verifying"}
                                   => job[w].table \in TablesOf[Txn(w)]
        BY <2>0, <2>9 DEF TablesDone, LookToken, LookAgain, Merge, RecordTombstones,
                          WorkerSound, Labels
      <3>2. pc[w] \notin {"opened", "claiming"}
        BY <2>9 DEF TablesDone, LookToken, LookAgain, Merge, RecordTombstones
      <3> QED
        BY <2>2, <2>3, <3>1, <3>2
    <2>10. CASE CheckPasses(w)
      <3>1. Goto(w, "merging", job[w]) /\ pc[w] = "checking"
        BY <2>10 DEF CheckPasses
      <3>2. job[w].table \in TablesOf[Txn(w)]
        BY <2>0, <3>1 DEF WorkerSound
      <3> QED
        BY <2>2, <2>3, <3>1, <3>2
    <2>11. CASE Verify(w)
      <3>1. /\ pc[w] = "verifying"
            /\ Goto(w, "recording", [job[w] EXCEPT !.digest = Rows(job[w].table)])
        BY <2>11 DEF Verify
      <3>2. job[w].table \in TablesOf[Txn(w)]
        BY <2>0, <3>1 DEF WorkerSound
      <3>3. Rows(job[w].table) # Null
        BY <2>0, <3>2, TableFacts, RowsType, NullAssumption DEF IInv
      <3>4. /\ [job[w] EXCEPT !.digest = Rows(job[w].table)].plan = job[w].plan
            /\ [job[w] EXCEPT !.digest = Rows(job[w].table)].table = job[w].table
            /\ [job[w] EXCEPT !.digest = Rows(job[w].table)].digest = Rows(job[w].table)
        BY <2>0 DEF Job
      <3> QED
        BY <2>2, <2>3, <3>1, <3>2, <3>3, <3>4
    <2>12. CASE RecordReceipt(w)
      <3> SUFFICES ASSUME Goto(w, "table",
                            [job[w] EXCEPT !.table = job[w].table + 1, !.digest = Null])
                   PROVE  WorkerInv'
        BY <2>1, <2>12 DEF RecordReceipt
      <3>1. [job[w] EXCEPT !.table = job[w].table + 1, !.digest = Null].plan = job[w].plan
        BY <2>0 DEF Job
      <3>2. pc[w] = "recording"
        BY <2>12 DEF RecordReceipt
      <3> QED
        BY <2>2, <2>3, <3>1, <3>2
    <2>13. CASE CheckFails(w) \/ Finalize(w) \/ FinalizeNothing(w) \/ Crash(w)
      BY <2>1, <2>13 DEF CheckFails, Finalize, FinalizeNothing, Crash
    <2> QED
      BY <1>4, <2>4, <2>5, <2>6, <2>7, <2>8, <2>9, <2>10, <2>11, <2>12, <2>13 DEF Step
  <1> QED
    BY <1>1, <1>3, <1>4, StepBusy DEF Next

-----------------------------------------------------------------------------
(* Receipts, the checkpoint and what is checkpointed. *)

(* A new receipt is the one a worker records, of a snapshot of its own
   transaction and with the digest it has read. *)
LEMMA NewReceipt ==
    ASSUME IInv, [Next]_vars, NEW t \in Txns, NEW table \in Tables,
           receipts[t][table] = Null, receipts'[t][table] # Null
    PROVE  /\ \E w \in Workers :
                /\ RecordReceipt(w) /\ t = Txn(w) /\ table = job[w].table
                /\ receipts'[t][table].digest = job[w].digest
           /\ receipts'[t][table].snapshot \in DOMAIN log'[table]
           /\ log'[table][receipts'[t][table].snapshot].txn = t
  <1>1. PICK w \in Workers : RecordReceipt(w)
    BY DEF Next, Step, vars, control, Begin, ReadCheckpoint, Claim, Reclaim, SkipTable,
        TakeTable, TablesDone, LookToken, LookAgain, CheckFails, CheckPasses, Merge, Verify,
        RecordTombstones, Finalize, FinalizeNothing, Crash
  <1>2. PICK i \in DOMAIN log[job[w].table] :
          /\ IsSnapshotOf(i, Txn(w), job[w].table)
          /\ \/ UNCHANGED receipts
             \/ receipts' = [receipts EXCEPT ![Txn(w)][job[w].table] =
                               [snapshot |-> i, digest |-> job[w].digest]]
    BY <1>1 DEF RecordReceipt
  <1>3. receipts \in [Txns -> [Tables -> ReceiptRow \cup {Null}]] /\ log' = log
    BY <1>1 DEF IInv, TypeOK, RecordReceipt
  <1>4. receipts[t] \in [Tables -> ReceiptRow \cup {Null}]
    BY <1>3
  <1>5. receipts' = [receipts EXCEPT ![Txn(w)][job[w].table] =
                         [snapshot |-> i, digest |-> job[w].digest]]
    BY <1>2
  <1>6. t = Txn(w)
    BY <1>3, <1>5
  <1>7. receipts'[t] = [receipts[t] EXCEPT ![job[w].table] =
                            [snapshot |-> i, digest |-> job[w].digest]]
    BY <1>3, <1>5, <1>6
  <1>8. table = job[w].table
    BY <1>4, <1>7
  <1>9. receipts'[t][table] = [snapshot |-> i, digest |-> job[w].digest]
    BY <1>4, <1>7, <1>8
  <1>10. receipts'[t][table].snapshot = i /\ receipts'[t][table].digest = job[w].digest
    BY <1>9
  <1>11. i \in DOMAIN log'[table] /\ log'[table][i].txn = t
    BY <1>2, <1>3, <1>6, <1>8 DEF IsSnapshotOf
  <1> QED
    BY <1>1, <1>6, <1>8, <1>10, <1>11

LEMMA RecordedThere ==
    ASSUME IInv, NEW w \in Workers, RecordReceipt(w),
           Txn(w) \in Txns, job[w].table \in Tables
    PROVE  receipts'[Txn(w)][job[w].table] # Null
  <1> DEFINE t == Txn(w)
             tb == job[w].table
  <1>1. PICK i \in DOMAIN log[tb] :
          IF receipts[t][tb] = Null
            THEN receipts' = [receipts EXCEPT ![t][tb] = [snapshot |-> i, digest |-> job[w].digest]]
            ELSE UNCHANGED receipts
    BY DEF RecordReceipt
  <1>2. receipts \in [Txns -> [Tables -> ReceiptRow \cup {Null}]]
    BY DEF IInv, TypeOK
  <1>3. CASE receipts[t][tb] = Null
    <2>1. i \in Nat
      <3>1. log[tb] \in Seq(SnapshotRow)
        BY DEF IInv, TypeOK
      <3> QED
        BY <3>1
    <2>2. job[w].digest \in Content
      BY WorkerPlan DEF RecordReceipt, IInv, WorkerInv, WorkerSound, Job
    <2>3. [snapshot |-> i, digest |-> job[w].digest] # Null
      BY <2>1, <2>2, NullAssumption DEF ReceiptRow
    <2> QED
      BY <1>1, <1>2, <1>3, <2>3
  <1>4. CASE receipts[t][tb] # Null
    BY <1>1, <1>4
  <1> QED
    BY <1>3, <1>4

LEMMA ReceiptStep ==
    ASSUME IInv, [Next]_vars
    PROVE  ReceiptsHaveSnapshots'
  <1> SUFFICES ASSUME NEW t \in Txns, NEW table \in Tables, receipts'[t][table] # Null
               PROVE  /\ receipts'[t][table].snapshot \in DOMAIN log'[table]
                      /\ log'[table][receipts'[t][table].snapshot].txn = t
    BY DEF ReceiptsHaveSnapshots
  <1>0. GrowthFacts
    BY Growth
  <1>1. CASE receipts[t][table] # Null
    <2>1. receipts'[t][table] = receipts[t][table]
      BY <1>0, <1>1 DEF GrowthFacts
    <2>2. /\ receipts[t][table].snapshot \in DOMAIN log[table]
          /\ log[table][receipts[t][table].snapshot].txn = t
      BY <1>1 DEF IInv, ReceiptsHaveSnapshots
    <2> QED
      BY <1>0, <2>1, <2>2 DEF GrowthFacts
  <1>2. CASE receipts[t][table] = Null
    BY <1>2, NewReceipt
  <1> QED
    BY <1>1, <1>2

LEMMA DoneStep ==
    ASSUME IInv, [Next]_vars
    PROVE  \/ Done' = Done /\ checkpoint' = checkpoint
           \/ /\ Done' = Done
              /\ checkpoint = Null
              /\ \E p \in Plans :
                   checkpoint' = [frontier |-> p.manifest.previous, revision |-> 0]
           \/ \E w \in Workers :
                Finalize(w) /\ Txn(w) \in Txns \ Done /\ Done' = Done \cup {Txn(w)}
  <1>0. claims \in [Txns -> ClaimRow \cup {Null}]
    BY DEF IInv, TypeOK
  <1>1. CASE UNCHANGED <<checkpoint, claims>>
    BY <1>1 DEF Done
  <1>2. ASSUME NEW w \in Workers, NEW p \in Plans, Begin(w, p)
        PROVE  /\ Done' = Done
               /\ \/ checkpoint' = checkpoint
                  \/ /\ checkpoint = Null
                     /\ checkpoint' = [frontier |-> p.manifest.previous, revision |-> 0]
    BY <1>2 DEF Begin, Done
  <1>3. ASSUME NEW w \in Workers, Claim(w)
        PROVE  Done' = Done /\ checkpoint' = checkpoint
    <2>1. Txn(w) \in Txns
      BY <1>3, WorkerPlan DEF Claim
    <2>2. claims'[Txn(w)].state = "APPLYING" /\ claims[Txn(w)] = Null
      BY <1>0, <1>3, <2>1 DEF Claim
    <2>3. \A t \in Txns : t # Txn(w) => claims'[t] = claims[t]
      BY <1>0, <1>3 DEF Claim
    <2> QED
      BY <1>3, <2>2, <2>3 DEF Done, Claim
  <1>4. ASSUME NEW w \in Workers, Finalize(w)
        PROVE  Txn(w) \in Txns \ Done /\ Done' = Done \cup {Txn(w)}
    <2>1. Txn(w) \in Txns
      BY <1>4, WorkerPlan DEF Finalize
    <2>2. claims[Txn(w)] \in ClaimRow /\ claims[Txn(w)].state = "APPLYING"
      BY <1>0, <1>4, <2>1 DEF Finalize, IInv, WorkerInv, WorkerSound
    <2>3. claims'[Txn(w)].state = "CHECKPOINTED"
      BY <1>0, <1>4, <2>1, <2>2 DEF Finalize, ClaimRow
    <2>4. claims'[Txn(w)] # Null
      BY <2>1, <2>2, Growth, NullAssumption DEF GrowthFacts
    <2>5. \A t \in Txns : t # Txn(w) => claims'[t] = claims[t]
      BY <1>0, <1>4 DEF Finalize
    <2> QED
      BY <2>1, <2>2, <2>3, <2>4, <2>5 DEF Done
  <1> QED
    BY <1>1, <1>2, <1>3, <1>4
    DEF Next, Step, vars, control, ReadCheckpoint, Reclaim, SkipTable, TakeTable, TablesDone,
        LookToken, LookAgain, CheckFails, CheckPasses, Merge, Verify, RecordReceipt,
        RecordTombstones, FinalizeNothing, Crash

LEMMA CheckpointStep ==
    ASSUME IInv, [Next]_vars
    PROVE  CheckpointBehindReceipts'
  <1>1. \A t \in Txns : \A table \in TablesOf[t] :
          receipts[t][table] # Null => receipts'[t][table] # Null
    BY Growth, TableFacts DEF GrowthFacts
  <1>2. CASE Done' = Done
    BY <1>1, <1>2 DEF CheckpointBehindReceipts, IInv, Done
  <1>3. ASSUME NEW w \in Workers, Finalize(w), Txn(w) \in Txns, Done' = Done \cup {Txn(w)}
        PROVE  CheckpointBehindReceipts'
    <2>1. \A table \in TablesOf[Txn(w)] : receipts[Txn(w)][table] # Null
      BY <1>3, TableFacts DEF Finalize, Finalizable
    <2> QED
      BY <1>1, <1>3, <2>1 DEF CheckpointBehindReceipts, IInv, Done
  <1> QED
    BY <1>2, <1>3, DoneStep

LEMMA ClaimStep ==
    ASSUME IInv, [Next]_vars
    PROVE  ClaimsNeedCheckpoint'
  <1>1. CASE checkpoint # Null
    BY <1>1, Growth DEF GrowthFacts, ClaimsNeedCheckpoint
  <1>2. CASE checkpoint = Null
    <2>1. \A t \in Txns : claims[t] = Null
      BY <1>2 DEF IInv, ClaimsNeedCheckpoint
    <2>2. \A w \in Workers : pc[w] = "idle"
      BY <1>2 DEF IInv, WorkerInv, WorkerSound
    <2>3. claims' = claims
      BY <2>2, StepBusy DEF Next, vars, control, Begin
    <2> QED
      BY <2>1, <2>3 DEF ClaimsNeedCheckpoint
  <1> QED
    BY <1>1, <1>2

LEMMA DoneFinite == IsFiniteSet(Done)
  <1>1. IsFiniteSet(1 .. Len(History))
    BY SourceAssumption, FS_Interval
  <1> QED
    BY <1>1, FS_Subset DEF Done, Txns

LEMMA FrontierStep ==
    ASSUME IInv, [Next]_vars
    PROVE  FrontierIsLast'
  <1>0. FrontierIsLast /\ checkpoint \in CheckpointRow \cup {Null}
    BY DEF IInv, TypeOK
  <1>1. CASE Done' = Done /\ checkpoint' = checkpoint
    BY <1>0, <1>1 DEF FrontierIsLast
  <1>2. ASSUME Done' = Done, checkpoint = Null, NEW p \in Plans,
               checkpoint' = [frontier |-> p.manifest.previous, revision |-> 0]
        PROVE  FrontierIsLast'
    <2>1. Done = {}
      BY <1>2 DEF IInv, ClaimsNeedCheckpoint, Done
    <2>2. Cardinality(Done) = 0
      BY <2>1, FS_EmptySet
    <2> QED
      BY <1>2, <2>1, <2>2 DEF FrontierIsLast
  <1>3. ASSUME NEW w \in Workers, Finalize(w), Txn(w) \in Txns \ Done,
               Done' = Done \cup {Txn(w)}
        PROVE  FrontierIsLast'
    <2>1. /\ checkpoint \in CheckpointRow
          /\ job[w].plan \in Plans
          /\ Txn(w) \in Nat
          /\ checkpoint.frontier < Txn(w)
      BY <1>3, WorkerPlan, PlanFacts DEF Finalize, Finalizable, Txn
    <2>2. checkpoint' = [frontier |-> Txn(w), revision |-> checkpoint.revision + 1]
      BY <1>3 DEF Finalize
    <2>3. checkpoint.revision = Cardinality(Done) /\ \A t \in Done : t <= checkpoint.frontier
      BY <1>0, <2>1, NullAssumption DEF FrontierIsLast
    <2>4. Cardinality(Done') = Cardinality(Done) + 1
      BY <1>3, DoneFinite, FS_AddElement
    <2>5. \A t \in Done' : t <= Txn(w)
      <3>1. \A t \in Done : t \in Nat
        BY SourceAssumption DEF Done, Txns
      <3>2. checkpoint.frontier \in Nat
        BY <2>1 DEF CheckpointRow
      <3> QED
        BY <1>3, <2>1, <2>3, <3>1, <3>2
    <2> QED
      BY <1>3, <2>2, <2>3, <2>4, <2>5 DEF FrontierIsLast
  <1> QED
    BY <1>1, <1>2, <1>3, DoneStep

(* IInv holds in every reachable state. *)
THEOREM Invariance == Spec => []IInv
  <1>1. IInv /\ [Next]_vars => IInv'
    BY TypeStep, WorkerStep, ClaimStep, CheckpointStep, ReceiptStep, FrontierStep DEF IInv
  <1> QED
    BY InitInv, <1>1, PTL DEF Spec

(* In every reachable state the variables have their types. *)
THEOREM TypeCorrect == Spec => []TypeOK
  BY Invariance, PTL DEF IInv

(* A checkpointed transaction has a receipt for every table it changes. *)
THEOREM CheckpointLast == Spec => []CheckpointBehindReceipts
  BY Invariance, PTL DEF IInv

(* A receipt names a snapshot of its own transaction. *)
THEOREM ReceiptsTruthful == Spec => []ReceiptsHaveSnapshots
  BY Invariance, PTL DEF IInv

(* The checkpoint's revision counts what is checkpointed, and its frontier is
   the last of it. *)
THEOREM FrontierTruthful == Spec => []FrontierIsLast
  BY Invariance, PTL DEF IInv

-----------------------------------------------------------------------------
(* CdcApply implements AppliedPrefix. *)

LEMMA LandedStep ==
    ASSUME IInv, [Next]_vars
    PROVE  \/ LandedPairs' = LandedPairs
           \/ \E w \in Workers :
                /\ Merge(w)
                /\ LandedPairs' = LandedPairs \cup {<<Txn(w), job[w].table>>}
  <1>1. CASE UNCHANGED log
    BY <1>1 DEF LandedPairs
  <1>2. ASSUME NEW w \in Workers, Merge(w)
        PROVE  LandedPairs' = LandedPairs \cup {<<Txn(w), job[w].table>>}
    <2> DEFINE tb == job[w].table
               row == [txn |-> Txn(w), rows |-> Merged(Rows(tb), Changes(Txn(w), tb))]
    <2>1. Txn(w) \in Txns /\ tb \in Tables
      BY <1>2, WorkerPlan, TableFacts DEF Merge, IInv, WorkerInv, WorkerSound
    <2>2. log \in [Tables -> Seq(SnapshotRow)] /\ row.txn = Txn(w) /\ row \in SnapshotRow
      <3>1. Merged(Rows(tb), Changes(Txn(w), tb)) \in Content
        BY <2>1, RowsType, MergedType DEF IInv
      <3> QED
        BY <2>1, <3>1 DEF IInv, TypeOK, SnapshotRow
    <2>3. log' = [log EXCEPT ![tb] = Append(log[tb], row)]
      BY <1>2 DEF Merge, Commit
    <2> HIDE DEF row, tb
    <2>4. /\ log[tb] \in Seq(SnapshotRow)
          /\ DOMAIN log'[tb] = 1 .. Len(log[tb]) + 1
          /\ \A i \in 1 .. Len(log[tb]) : log'[tb][i] = log[tb][i]
          /\ log'[tb][Len(log[tb]) + 1] = row
      <3>1. log[tb] \in Seq(SnapshotRow) /\ log'[tb] = Append(log[tb], row)
        BY <2>1, <2>2, <2>3
      <3> QED
        BY <2>2, <3>1, AppendProperties
    <2>5. \A table \in Tables : table # tb => log'[table] = log[table]
      BY <2>2, <2>3
    <2>6. ASSUME NEW t \in Txns, NEW table \in Tables
          PROVE  (\E i \in DOMAIN log'[table] : log'[table][i].txn = t)
                 <=> \/ \E i \in DOMAIN log[table] : log[table][i].txn = t
                     \/ t = Txn(w) /\ table = tb
      <3>1. CASE table # tb
        BY <2>5, <3>1
      <3>2. CASE table = tb
        <4>1. DOMAIN log[tb] = 1 .. Len(log[tb]) /\ Len(log[tb]) \in Nat
          BY <2>4
        <4>2. \A i \in 1 .. Len(log[tb]) + 1 : i \in 1 .. Len(log[tb]) \/ i = Len(log[tb]) + 1
          BY <4>1
        <4>3. \A i \in 1 .. Len(log[tb]) : i \in 1 .. Len(log[tb]) + 1
          BY <4>1
        <4>4. Len(log[tb]) + 1 \in 1 .. Len(log[tb]) + 1
          BY <4>1
        <4> QED
          BY <2>2, <2>4, <3>2, <4>1, <4>2, <4>3, <4>4
      <3> QED
        BY <3>1, <3>2
    <2>7. ASSUME NEW q \in Txns \X Tables
          PROVE  q \in LandedPairs' <=> q \in LandedPairs \/ q = <<Txn(w), tb>>
      <3>1. PICK t \in Txns, table \in Tables : q = <<t, table>>
        OBVIOUS
      <3> QED
        BY <2>6, <3>1 DEF LandedPairs
    <2>8. <<Txn(w), tb>> \in Txns \X Tables
      BY <2>1
    <2>9. LandedPairs \subseteq Txns \X Tables /\ LandedPairs' \subseteq Txns \X Tables
      BY DEF LandedPairs
    <2>10. LandedPairs' = LandedPairs \cup {<<Txn(w), tb>>}
      BY <2>7, <2>8, <2>9
    <2> QED
      BY <2>10 DEF tb
  <1> QED
    BY <1>1, <1>2
    DEF Next, Step, vars, control, Begin, ReadCheckpoint, Claim, Reclaim, SkipTable, TakeTable,
        TablesDone, LookToken, LookAgain, CheckFails, CheckPasses, Verify, RecordReceipt,
        RecordTombstones, Finalize, FinalizeNothing, Crash

LEMMA RefinementStep ==
    ASSUME IInv, [Next]_vars
    PROVE  [Abstract!Next]_(Abstract!vars)
  <1> USE DEF Abstract!vars
  <1>1. ASSUME NEW w \in Workers, Merge(w)
        PROVE  [Abstract!Next]_(Abstract!vars)
    <2>1. /\ Txn(w) \in Txns
          /\ job[w].table \in TablesOf[Txn(w)]
          /\ checkpoint # Null
          /\ checkpoint.frontier # Null
      BY <1>1, WorkerPlan, NullAssumption DEF Merge, IInv, WorkerInv, WorkerSound, CheckpointRow
    <2>2. checkpoint' = checkpoint /\ Done' = Done
      BY <1>1 DEF Merge, control, Done
    <2>3. LandedPairs' = LandedPairs \/ LandedPairs' = LandedPairs \cup {<<Txn(w), job[w].table>>}
      <3>1. log' # log => \A v \in Workers : Merge(v) => Txn(v) = Txn(w) /\ job[v].table = job[w].table
        <4>1. \A v \in Workers : Merge(v) => pc'[v] = "verifying" /\ Others(v) /\ pc[v] = "merging"
          BY GotoFacts DEF Merge
        <4> QED
          BY <1>1, <4>1 DEF Others
      <3>2. log' = log => LandedPairs' = LandedPairs
        BY DEF LandedPairs
      <3> QED
        BY <3>1, <3>2, LandedStep
    <2>4. CASE LandedPairs' = LandedPairs
      BY <2>2, <2>4
    <2>5. CASE LandedPairs' = LandedPairs \cup {<<Txn(w), job[w].table>>}
      <3>1. Abstract!Land(Txn(w), job[w].table)
        BY <2>1, <2>2, <2>5 DEF Abstract!Land
      <3> QED
        BY <2>1, <3>1 DEF Abstract!Next
    <2> QED
      BY <2>3, <2>4, <2>5
  <1>2. CASE ~ \E w \in Workers : Merge(w)
    <2>1. LandedPairs' = LandedPairs
      BY <1>2, LandedStep
    <2>2. CASE Done' = Done /\ checkpoint' = checkpoint
      BY <2>1, <2>2
    <2>3. ASSUME Done' = Done, checkpoint = Null, NEW p \in Plans,
                 checkpoint' = [frontier |-> p.manifest.previous, revision |-> 0]
          PROVE  Abstract!Next
      <3>1. checkpoint' # Null
        <4>1. [frontier |-> p.manifest.previous, revision |-> 0] \in CheckpointRow
          BY PlanFacts DEF CheckpointRow
        <4> QED
          BY <2>3, <4>1, NullAssumption
      <3>2. Abstract!Open(p.manifest.previous)
        BY <2>1, <2>3, <3>1 DEF Abstract!Open
      <3>3. p.manifest.previous \in {m.previous : m \in Manifests}
        BY DEF Plans
      <3> QED
        BY <3>2, <3>3 DEF Abstract!Next
    <2>4. ASSUME NEW w \in Workers, Finalize(w), Txn(w) \in Txns, Done' = Done \cup {Txn(w)}
          PROVE  Abstract!Next
      <3>1. /\ checkpoint \in CheckpointRow
            /\ checkpoint # Null
            /\ checkpoint.frontier # Null
            /\ checkpoint.frontier < Txn(w)
        BY <2>4, WorkerPlan, PlanFacts, NullAssumption
           DEF Finalize, Finalizable, Txn, CheckpointRow
      <3>2. \A table \in TablesOf[Txn(w)] : <<Txn(w), table>> \in LandedPairs
        BY <2>4, TableFacts DEF Finalize, Finalizable, IInv, ReceiptsHaveSnapshots, LandedPairs
      <3>3. checkpoint' = [frontier |-> Txn(w), revision |-> checkpoint.revision + 1]
        BY <2>4 DEF Finalize
      <3>4. checkpoint' # Null /\ checkpoint'.frontier = Txn(w)
        BY <3>1, <3>3, Growth DEF GrowthFacts
      <3>5. Abstract!Advance(Txn(w))
        BY <2>1, <2>4, <3>1, <3>2, <3>4 DEF Abstract!Advance
      <3> QED
        BY <2>4, <3>5 DEF Abstract!Next
    <2> QED
      BY <2>2, <2>3, <2>4, DoneStep
  <1> QED
    BY <1>1, <1>2

(* Every behaviour of the coordinator is one of AppliedPrefix. *)
THEOREM Refinement == Spec => ImplementsAppliedPrefix
  <1>1. Init => Abstract!Init
    BY DEF Init, Abstract!Init, LandedPairs, Done
  <1>2. IInv /\ [Next]_vars => [Abstract!Next]_(Abstract!vars)
    BY RefinementStep
  <1> QED
    BY <1>1, <1>2, Invariance, PTL DEF Spec, ImplementsAppliedPrefix, Abstract!Spec

-----------------------------------------------------------------------------
(* One worker at a time, plans in source order: the rows of the source. *)

LEMMA SourceStart ==
    ASSUME NEW table \in Tables
    PROVE  SourceRows[0][table] = Snapshot[table]
  <1>1. Snapshot[table] \in [Keys -> Images]
    BY SourceAssumption DEF Content
  <1>2. \A k \in Keys : Touching(0, table, k) = {}
    BY DEF Touching
  <1>3. 0 \in 0 .. Len(History)
    BY SourceAssumption
  <1>4. SourceRows[0][table] = [k \in Keys |-> Snapshot[table][k]]
    BY <1>2, <1>3 DEF SourceRows
  <1> QED
    BY <1>1, <1>4

(* A transaction changes the keys it names, and leaves the others. *)
LEMMA SourceNext ==
    ASSUME NEW t \in Txns, NEW table \in Tables, NEW k \in Keys
    PROVE  /\ (\E c \in Changes(t, table) : c.key = k) =>
                 SourceRows[t][table][k] = Last(Changes(t, table), k).after
           /\ ~(\E c \in Changes(t, table) : c.key = k) =>
                 SourceRows[t][table][k] = SourceRows[t - 1][table][k]
  <1> DEFINE touched == \E c \in Changes(t, table) : c.key = k
             rows(ts) == IF ts = {} THEN Snapshot[table][k]
                           ELSE Last(Changes(Latest(ts), table), k).after
  <1>1. /\ t \in Nat /\ t \in 1 .. t /\ t - 1 \in Nat
        /\ t \in 0 .. Len(History) /\ t - 1 \in 0 .. Len(History)
    BY SourceAssumption DEF Txns
  <1>2. \A n \in 0 .. Len(History) : SourceRows[n][table][k] = rows(Touching(n, table, k))
    BY DEF SourceRows
  <1>3. ASSUME touched PROVE SourceRows[t][table][k] = Last(Changes(t, table), k).after
    <2> DEFINE ts == Touching(t, table, k)
    <2>1. t \in ts /\ \A u \in ts : u \in Nat /\ u <= t
      BY <1>1, <1>3 DEF Touching
    <2> HIDE DEF ts
    <2>2. Latest(ts) \in ts /\ \A u \in ts : u <= Latest(ts)
      BY <2>1 DEF Latest
    <2>3. Latest(ts) = t
      <3> DEFINE last == Latest(ts)
      <3> HIDE DEF last
      <3>1. last \in ts /\ \A u \in ts : u <= last
        BY <2>2 DEF last
      <3>2. last \in Nat /\ last <= t
        BY <2>1, <3>1
      <3>3. t <= last
        BY <2>1, <3>1
      <3>4. last = t
        BY <1>1, <3>2, <3>3
      <3> QED
        BY <3>4 DEF last
    <2>4. rows(ts) = Last(Changes(t, table), k).after
      BY <2>1, <2>3
    <2> QED
      BY <1>1, <1>2, <2>4 DEF ts
  <1>4. ASSUME ~touched PROVE SourceRows[t][table][k] = SourceRows[t - 1][table][k]
    <2>1. \A u : u \in 1 .. t <=> u \in 1 .. t - 1 \/ u = t
      BY <1>1
    <2>2. Touching(t, table, k) = Touching(t - 1, table, k)
      BY <1>4, <2>1 DEF Touching
    <2> QED
      BY <1>1, <1>2, <2>2
  <1> QED
    BY <1>3, <1>4

LEMMA SourceShape ==
    ASSUME NEW n \in 0 .. Len(History), NEW table \in Tables
    PROVE  SourceRows[n][table] = [k \in Keys |-> SourceRows[n][table][k]]
  BY DEF SourceRows

LEMMA ChangeFields ==
    ASSUME NEW t \in Txns, NEW table \in Tables, NEW c \in Changes(t, table)
    PROVE  c.seq \in Nat /\ c.key \in Keys /\ c.table = table /\ table \in TablesOf[t]
           /\ c \in History[t] /\ (c.before # Null \/ c.after # Null)
  BY ChangeType DEF Changes, Change, TablesOf

(* After a transaction that fits, a row it changed is its after image. *)
LEMMA AfterImages ==
    ASSUME NEW t \in Txns, NEW table \in Tables, FitsSource(t, table),
           NEW c \in Changes(t, table)
    PROVE  SourceRows[t][table][c.key] = c.after
  <1> DEFINE cs == Changes(t, table)
             last(d) == d.key = c.key /\ \A e \in cs : e.key = c.key => e.seq <= d.seq
  <1>1. \A d \in cs : d.key = c.key => d = c
    BY DEF FitsSource
  <1>2. last(c)
    BY <1>1, ChangeFields
  <1>3. (CHOOSE d \in cs : last(d)) = c
    BY <1>1, <1>2
  <1>4. Last(cs, c.key) = c
    BY <1>3 DEF Last
  <1> QED
    BY <1>4, SourceNext, ChangeFields

(* The MERGE of a transaction that fits makes of the rows before it the rows
   after it. *)
LEMMA MergedIsSource ==
    ASSUME NEW t \in Txns, NEW table \in Tables, FitsSource(t, table)
    PROVE  Merged(SourceRows[t - 1][table], Changes(t, table)) = SourceRows[t][table]
  <1> DEFINE cs == Changes(t, table)
             rows == SourceRows[t - 1][table]
             hit(k) == \E c \in cs : c.key = k /\ ((c.before = Null) <=> (rows[k] = Null))
             m(k) == IF hit(k) THEN (CHOOSE c \in cs : c.key = k).after ELSE rows[k]
  <1>1. ASSUME NEW k \in Keys PROVE m(k) = SourceRows[t][table][k]
    <2>1. ASSUME NEW c \in cs, c.key = k PROVE m(k) = SourceRows[t][table][k]
      <3>1. rows[k] = c.before
        BY <2>1 DEF FitsSource
      <3>2. \A d \in cs : d.key = k => d = c
        BY <2>1 DEF FitsSource
      <3>3. (CHOOSE d \in cs : d.key = k) = c
        BY <2>1, <3>2
      <3>4. hit(k)
        BY <2>1, <3>1
      <3>5. m(k) = c.after
        BY <3>3, <3>4
      <3> QED
        BY <2>1, <3>5, AfterImages
    <2>2. ASSUME ~ \E c \in cs : c.key = k PROVE m(k) = SourceRows[t][table][k]
      BY <2>2, SourceNext
    <2> QED
      BY <2>1, <2>2
  <1>2. Merged(rows, cs) = [k \in Keys |-> m(k)]
    BY DEF Merged
  <1>3. t \in 0 .. Len(History)
    BY SourceAssumption DEF Txns
  <1>4. SourceRows[t][table] = [k \in Keys |-> SourceRows[t][table][k]]
    BY <1>3, SourceShape
  <1> QED
    BY <1>1, <1>2, <1>4

(* A table that a transaction does not change stays. *)
LEMMA OtherTables ==
    ASSUME NEW t \in Txns, NEW table \in Tables, table \notin TablesOf[t]
    PROVE  SourceRows[t][table] = SourceRows[t - 1][table]
  <1>1. Changes(t, table) = {}
    BY ChangeFields
  <1>2. \A k \in Keys : SourceRows[t][table][k] = SourceRows[t - 1][table][k]
    BY <1>1, SourceNext
  <1>3. t \in 0 .. Len(History) /\ t - 1 \in 0 .. Len(History)
    BY SourceAssumption DEF Txns
  <1>4. /\ SourceRows[t][table] = [k \in Keys |-> SourceRows[t][table][k]]
        /\ SourceRows[t - 1][table] = [k \in Keys |-> SourceRows[t - 1][table][k]]
    BY <1>3, SourceShape
  <1> QED
    BY <1>2, <1>4

(* A row that a transaction deletes is deleted by one of its changes. *)
LEMMA DeletedRows ==
    ASSUME NEW t \in Txns, NEW table \in Tables, NEW k \in Keys,
           table \in TablesOf[t] => FitsSource(t, table)
    PROVE  [txn |-> t, table |-> table, key |-> k] \in Deleted(t) <=>
             SourceRows[t - 1][table][k] # Null /\ SourceRows[t][table][k] = Null
  <1> DEFINE s == [txn |-> t, table |-> table, key |-> k]
  <1>1. ASSUME s \in Deleted(t)
        PROVE  SourceRows[t - 1][table][k] # Null /\ SourceRows[t][table][k] = Null
    <2>1. PICK c \in History[t] : c.after = Null /\ s = [txn |-> t, table |-> c.table, key |-> c.key]
      BY <1>1 DEF Deleted
    <2>2. c \in Changes(t, table) /\ c.key = k
      BY <2>1 DEF Changes
    <2>3. c.before # Null /\ FitsSource(t, table)
      BY <2>1, <2>2, ChangeFields
    <2>4. SourceRows[t - 1][table][k] = c.before
      BY <2>2, <2>3 DEF FitsSource
    <2> QED
      BY <2>1, <2>2, <2>3, <2>4, AfterImages
  <1>2. ASSUME SourceRows[t - 1][table][k] # Null, SourceRows[t][table][k] = Null
        PROVE  s \in Deleted(t)
    <2>1. PICK c \in Changes(t, table) : c.key = k
      BY <1>2, SourceNext
    <2>2. FitsSource(t, table) /\ c \in History[t] /\ c.table = table
      BY <2>1, ChangeFields
    <2>3. c.after = Null
      BY <1>2, <2>1, <2>2, AfterImages
    <2> QED
      BY <2>1, <2>2, <2>3 DEF Deleted
  <1> QED
    BY <1>1, <1>2

-----------------------------------------------------------------------------
(* One worker at a time, plans in source order: the steps. *)

LEMMA FrontierType ==
    ASSUME IInv
    PROVE  Frontier \in Nat
  BY DEF IInv, TypeOK, Frontier, CheckpointRow

(* The frontier only moves when the next transaction is finalized. *)
LEMMA FrontierInTurn ==
    ASSUME OneInTurn, IInv, TurnInv, [Next]_vars
    PROVE  \/ Frontier' = Frontier /\ Done' = Done
           \/ \E w \in Workers :
                /\ Finalize(w)
                /\ Txn(w) \in Txns
                /\ Txn(w) = Frontier + 1
                /\ Frontier' = Txn(w)
                /\ Done' = Done \cup {Txn(w)}
  <1>1. CASE UNCHANGED vars
    BY <1>1 DEF vars, control, Frontier, Done
  <1>2. ASSUME NEW w \in Workers, NEW p \in Plans, Begin(w, p)
        PROVE  Frontier' = Frontier /\ Done' = Done
    <2>1. Done' = Done
      BY <1>2 DEF Begin, Done
    <2>2. CASE checkpoint # Null
      BY <1>2, <2>1, <2>2 DEF Begin, Frontier
    <2>3. CASE checkpoint = Null
      <3>1. p.txn <= 1 /\ p.txn \in Nat /\ p.manifest.previous \in Nat /\ p.manifest.previous < p.txn
        BY <1>2, <2>3, PlanFacts DEF Begin, Frontier, OneInTurn
      <3>2. p.manifest.previous = 0
        BY <3>1
      <3>3. checkpoint' = [frontier |-> p.manifest.previous, revision |-> 0]
        BY <1>2, <2>3 DEF Begin
      <3>4. checkpoint'.frontier = 0
        BY <3>2, <3>3
      <3> QED
        BY <2>1, <2>3, <3>4 DEF Frontier
    <2> QED
      BY <2>2, <2>3
  <1>3. ASSUME NEW w \in Workers, Finalize(w)
        PROVE  /\ Txn(w) \in Txns
               /\ Txn(w) = Frontier + 1
               /\ Frontier' = Txn(w)
               /\ Done' = Done \cup {Txn(w)}
    <2>1. Txn(w) \in Txns /\ checkpoint \in CheckpointRow
      BY <1>3, WorkerPlan DEF Finalize
    <2>2. Txn(w) = Frontier + 1
      BY <1>3 DEF Finalize, TurnInv, TurnSound, Past
    <2>3. checkpoint' = [frontier |-> Txn(w), revision |-> checkpoint.revision + 1]
      BY <1>3 DEF Finalize
    <2>4. checkpoint' # Null
      BY <2>1, Growth, NullAssumption DEF GrowthFacts
    <2>5. Frontier' = Txn(w)
      BY <2>3, <2>4 DEF Frontier
    <2>6. \A t \in Txns : t \in Done' <=> t \in Done \/ t = Txn(w)
      <3>1. claims \in [Txns -> ClaimRow \cup {Null}]
        BY DEF IInv, TypeOK
      <3>2. claims[Txn(w)] \in ClaimRow /\ claims[Txn(w)] # Null
        BY <1>3, <2>1, <3>1 DEF Finalize, IInv, WorkerInv, WorkerSound
      <3>3. claims'[Txn(w)] # Null
        BY <2>1, <3>2, Growth DEF GrowthFacts
      <3>4. claims' = [claims EXCEPT ![Txn(w)].state = "CHECKPOINTED"]
        BY <1>3 DEF Finalize
      <3>5. claims'[Txn(w)].state = "CHECKPOINTED"
        BY <2>1, <3>1, <3>2, <3>4 DEF ClaimRow
      <3>6. \A t \in Txns : t # Txn(w) => claims'[t] = claims[t]
        BY <3>1, <3>4
      <3> QED
        BY <2>1, <3>3, <3>5, <3>6 DEF Done
    <2>7. Done' = Done \cup {Txn(w)}
      BY <2>1, <2>6 DEF Done
    <2> QED
      BY <2>1, <2>2, <2>5, <2>7
  <1>4. ASSUME NEW w \in Workers, Step(w) \/ Crash(w), ~Finalize(w)
        PROVE  Frontier' = Frontier /\ Done' = Done
    <2>1. checkpoint' = checkpoint
      BY <1>4 DEF Step, Crash, ReadCheckpoint, Claim, Reclaim, SkipTable, TakeTable, TablesDone,
          LookToken, LookAgain, CheckFails, CheckPasses, Merge, Verify, RecordReceipt,
          RecordTombstones, FinalizeNothing, control
    <2>2. ~ \E v \in Workers : Finalize(v)
      BY <1>4 DEF OneInTurn
    <2>3. Done' = Done
      BY <2>2, DoneStep
    <2> QED
      BY <2>1, <2>3 DEF Frontier
  <1> QED
    BY <1>1, <1>2, <1>3, <1>4 DEF Next

LEMMA DoneInTurn ==
    ASSUME OneInTurn, IInv, TurnInv, [Next]_vars
    PROVE  Done' = 1 .. Frontier'
  <1>1. Frontier \in Nat /\ Done = 1 .. Frontier
    BY FrontierType DEF TurnInv
  <1>2. 1 .. (Frontier + 1) = (1 .. Frontier) \cup {Frontier + 1}
    BY <1>1
  <1> QED
    BY <1>1, <1>2, FrontierInTurn

(* The rows a merge meets are those of the source before its transaction, and
   what it leaves are those after it. *)
LEMMA MergeInTurn ==
    ASSUME OneInTurn, IInv, TurnInv, NEW w \in Workers, Merge(w)
    PROVE  LET t == Txn(w)
               tb == job[w].table
           IN  /\ t \in Txns /\ t = Frontier + 1 /\ tb \in Tables /\ tb \in TablesOf[t]
               /\ <<t, tb>> \notin LandedPairs
               /\ FitsSource(t, tb)
               /\ log' = [log EXCEPT ![tb] =
                            Append(@, [txn |-> t, rows |-> SourceRows[t][tb]])]
               /\ log \in [Tables -> Seq(SnapshotRow)]
               /\ [txn |-> t, rows |-> SourceRows[t][tb]] \in SnapshotRow
  <1> DEFINE t == Txn(w)
             tb == job[w].table
  <1>1. pc[w] = "merging" /\ t \in Txns
    BY WorkerPlan DEF Merge
  <1>2. tb \in TablesOf[t] /\ tb \in Tables
    BY <1>1, TableFacts DEF IInv, WorkerInv, WorkerSound
  <1>3. t = Frontier + 1 /\ <<t, tb>> \notin LandedPairs /\ MergeAllowed(t, tb)
    BY <1>1 DEF TurnInv, TurnSound, Past, Here
  <1>4. Rows(tb) = SourceRows[Frontier][tb]
    BY <1>2, <1>3 DEF TurnInv, RowsTrackFrontier
  <1>5. Frontier = t - 1
    BY <1>3, FrontierType
  <1>6. FitsSource(t, tb)
    BY <1>3, <1>4, <1>5 DEF MergeAllowed, FitsSource
  <1>7. Merged(Rows(tb), Changes(t, tb)) = SourceRows[t][tb]
    BY <1>1, <1>2, <1>4, <1>5, <1>6, MergedIsSource
  <1>8. Merged(Rows(tb), Changes(t, tb)) \in Content
    BY <1>1, <1>2, RowsType, MergedType DEF IInv
  <1>9. [txn |-> t, rows |-> SourceRows[t][tb]] \in SnapshotRow
    BY <1>1, <1>7, <1>8 DEF SnapshotRow
  <1>10. log' = [log EXCEPT ![tb] = Append(@, [txn |-> t, rows |-> SourceRows[t][tb]])]
    BY <1>7 DEF Merge, Commit
  <1> QED
    BY <1>1, <1>2, <1>3, <1>6, <1>9, <1>10 DEF IInv, TypeOK

(* Nothing but a merge writes a table. *)
LEMMA LogStep ==
    ASSUME [Next]_vars
    PROVE  log' = log \/ \E w \in Workers : Merge(w)
  BY DEF Next, Step, vars, control, Begin, ReadCheckpoint, Claim, Reclaim, SkipTable, TakeTable,
         TablesDone, LookToken, LookAgain, CheckFails, CheckPasses, Verify, RecordReceipt,
         RecordTombstones, Finalize, FinalizeNothing, Crash

LEMMA LandedInTurnStep ==
    ASSUME OneInTurn, IInv, TurnInv, [Next]_vars
    PROVE  LandedInTurn'
  <1> SUFFICES ASSUME NEW t \in Txns, NEW table \in Tables, <<t, table>> \in LandedPairs'
               PROVE  t <= Frontier' + 1 /\ table \in TablesOf[t] /\ FitsSource(t, table)
    BY DEF LandedInTurn, FitsSource
  <1> DEFINE f == Frontier
             g == Frontier'
  <1>1. f \in Nat /\ g \in Nat /\ f <= g /\ t \in Nat
    BY FrontierType, FrontierInTurn, SourceAssumption DEF Txns
  <1>2. t <= f + 1 /\ table \in TablesOf[t] /\ FitsSource(t, table)
    <2>1. CASE <<t, table>> \in LandedPairs
      BY <2>1 DEF TurnInv, LandedInTurn
    <2>2. CASE <<t, table>> \notin LandedPairs
      <3>1. PICK w \in Workers : Merge(w) /\ LandedPairs' = LandedPairs \cup {<<Txn(w), job[w].table>>}
        BY <2>2, LandedStep
      <3>2. t = Txn(w) /\ table = job[w].table
        BY <2>2, <3>1
      <3>3. t = f + 1 /\ table \in TablesOf[t] /\ FitsSource(t, table)
        BY <3>1, <3>2, MergeInTurn
      <3>4. t <= f + 1
        BY <1>1, <3>3
      <3> QED
        BY <3>3, <3>4
    <2> QED
      BY <2>1, <2>2
  <1>3. t <= g + 1
    <2> HIDE DEF f, g
    <2>1. t <= f + 1
      BY <1>2
    <2> QED
      BY <1>1, <2>1
  <1> QED
    BY <1>2, <1>3

LEMMA AppendedLast ==
    ASSUME NEW S, NEW s \in Seq(S), NEW e \in S
    PROVE  /\ Append(s, e) # <<>>
           /\ Append(s, e)[Len(Append(s, e))] = e
           /\ Append(s, e)[Len(s) + 1] = e
           /\ DOMAIN Append(s, e) = 1 .. Len(s) + 1
           /\ Len(s) + 1 \in DOMAIN Append(s, e)
           /\ Len(s) \in Nat
           /\ \A i \in 1 .. Len(s) : Append(s, e)[i] = s[i]
  <1>1. Len(s) \in Nat
    OBVIOUS
  <1>2. Append(s, e) \in Seq(S) /\ Len(Append(s, e)) = Len(s) + 1 /\ Append(s, e)[Len(s) + 1] = e
        /\ \A i \in 1 .. Len(s) : Append(s, e)[i] = s[i]
    BY AppendProperties
  <1> QED
    BY <1>1, <1>2

LEMMA MergedLands ==
    ASSUME OneInTurn, IInv, TurnInv, NEW w \in Workers, Merge(w)
    PROVE  <<Txn(w), job[w].table>> \in LandedPairs'
  <1> DEFINE t == Txn(w)
             tb == job[w].table
             row == [txn |-> t, rows |-> SourceRows[t][tb]]
  <1>1. /\ t \in Txns /\ tb \in Tables
        /\ log' = [log EXCEPT ![tb] = Append(@, row)]
        /\ log \in [Tables -> Seq(SnapshotRow)] /\ row \in SnapshotRow
    BY MergeInTurn
  <1>2. row.txn = t
    OBVIOUS
  <1> HIDE DEF t, tb, row
  <1>3. log[tb] \in Seq(SnapshotRow) /\ log'[tb] = Append(log[tb], row)
    BY <1>1
  <1>4. /\ Len(log[tb]) + 1 \in DOMAIN log'[tb]
        /\ log'[tb][Len(log[tb]) + 1] = row
    BY <1>1, <1>3, AppendedLast
  <1>5. log'[tb][Len(log[tb]) + 1].txn = t
    BY <1>2, <1>4
  <1>6. <<t, tb>> \in LandedPairs'
    BY <1>1, <1>4, <1>5 DEF LandedPairs
  <1> QED
    BY <1>6 DEF t, tb

LEMMA RowsInTurn ==
    ASSUME OneInTurn, IInv, TurnInv, [Next]_vars
    PROVE  RowsTrackFrontier'
  <1> SUFFICES ASSUME NEW table \in Tables
               PROVE  Rows(table)' = SourceRows[IF <<Frontier' + 1, table>> \in LandedPairs'
                                                  THEN Frontier' + 1 ELSE Frontier'][table]
    BY DEF RowsTrackFrontier
  <1>0. /\ Frontier \in Nat
        /\ Rows(table) = SourceRows[IF <<Frontier + 1, table>> \in LandedPairs
                                      THEN Frontier + 1 ELSE Frontier][table]
    BY FrontierType DEF TurnInv, RowsTrackFrontier
  <1>1. ASSUME NEW w \in Workers, Merge(w)
        PROVE  Rows(table)' = SourceRows[IF <<Frontier' + 1, table>> \in LandedPairs'
                                           THEN Frontier' + 1 ELSE Frontier'][table]
    <2> DEFINE t == Txn(w)
               tb == job[w].table
               row == [txn |-> t, rows |-> SourceRows[t][tb]]
    <2>1. /\ t \in Txns /\ t = Frontier + 1 /\ tb \in Tables
          /\ log' = [log EXCEPT ![tb] = Append(@, row)]
          /\ log \in [Tables -> Seq(SnapshotRow)] /\ row \in SnapshotRow
      BY <1>1, MergeInTurn
    <2> HIDE DEF row, t, tb
    <2>2. Frontier' = Frontier
      BY <1>1 DEF Merge, control, Frontier
    <2>3. LandedPairs' = LandedPairs \cup {<<t, tb>>}
      <3>1. PICK v \in Workers :
              \/ Merge(v) /\ LandedPairs' = LandedPairs \cup {<<Txn(v), job[v].table>>}
              \/ LandedPairs' = LandedPairs
        BY <1>1, LandedStep
      <3>2. <<t, tb>> \in LandedPairs'
        BY <1>1, MergedLands DEF t, tb
      <3>3. <<t, tb>> \notin LandedPairs
        BY <1>1, MergeInTurn DEF t, tb
      <3> QED
        BY <3>1, <3>2, <3>3 DEF OneInTurn
    <2>4. CASE table = tb
      <3>1. log[table] \in Seq(SnapshotRow) /\ log'[table] = Append(log[table], row)
        BY <2>1, <2>4
      <3>2. log'[table] # <<>> /\ log'[table][Len(log'[table])] = row
        BY <2>1, <3>1, AppendedLast
      <3>3. Rows(table)' = row.rows
        BY <3>2 DEF Rows
      <3>4. row.rows = SourceRows[Frontier + 1][table]
        BY <2>1, <2>4 DEF row
      <3>5. <<Frontier' + 1, table>> \in LandedPairs'
        BY <2>1, <2>2, <2>3, <2>4
      <3> QED
        BY <2>2, <3>3, <3>4, <3>5
    <2>5. CASE table # tb
      <3>1. log'[table] = log[table]
        BY <2>1, <2>5
      <3>2. Rows(table)' = Rows(table)
        BY <3>1 DEF Rows
      <3> QED
        BY <1>0, <2>2, <2>3, <2>5, <3>2
    <2> QED
      BY <2>4, <2>5
  <1>2. CASE log' = log
    <2>1. Rows(table)' = Rows(table) /\ LandedPairs' = LandedPairs
      BY <1>2 DEF Rows, LandedPairs
    <2>2. CASE Frontier' = Frontier
      BY <1>0, <2>1, <2>2
    <2>3. ASSUME NEW w \in Workers, Finalize(w), Txn(w) \in Txns, Txn(w) = Frontier + 1,
                 Frontier' = Txn(w)
          PROVE  Rows(table)' = SourceRows[IF <<Frontier' + 1, table>> \in LandedPairs'
                                             THEN Frontier' + 1 ELSE Frontier'][table]
      <3> DEFINE t == Txn(w)
      <3>1. <<t + 1, table>> \notin LandedPairs
        <4>1. ASSUME <<t + 1, table>> \in LandedPairs PROVE FALSE
          <5>1. t + 1 \in Txns
            BY <4>1 DEF LandedPairs
          <5>2. t + 1 <= Frontier + 1
            BY <4>1, <5>1 DEF TurnInv, LandedInTurn
          <5> QED
            BY <1>0, <2>3, <5>2
        <4> QED
          BY <4>1
      <3>2. CASE table \in TablesOf[t]
        <4>1. receipts[t][table] # Null
          BY <2>3, <3>2, TableFacts DEF Finalize, Finalizable
        <4>2. <<t, table>> \in LandedPairs
          BY <2>3, <4>1 DEF IInv, ReceiptsHaveSnapshots, LandedPairs
        <4> QED
          BY <1>0, <2>1, <2>3, <3>1, <4>2
      <3>3. CASE table \notin TablesOf[t]
        <4>1. <<t, table>> \notin LandedPairs
          BY <2>3, <3>3 DEF TurnInv, LandedInTurn
        <4>2. SourceRows[t][table] = SourceRows[t - 1][table]
          BY <2>3, <3>3, OtherTables
        <4>3. t - 1 = Frontier
          BY <1>0, <2>3
        <4> QED
          BY <1>0, <2>1, <2>3, <3>1, <4>1, <4>2, <4>3
      <3> QED
        BY <3>2, <3>3
    <2> QED
      BY <2>2, <2>3, FrontierInTurn
  <1> QED
    BY <1>1, <1>2, LogStep

LEMMA ReceiptsFit ==
    ASSUME IInv, TurnInv, NEW t \in Txns, NEW table \in Tables, receipts[t][table] # Null
    PROVE  <<t, table>> \in LandedPairs /\ FitsSource(t, table)
  <1>1. <<t, table>> \in LandedPairs
    BY DEF IInv, ReceiptsHaveSnapshots, LandedPairs
  <1> QED
    BY <1>1 DEF TurnInv, LandedInTurn

(* A table has one snapshot per token. *)
LEMMA TokensInTurn ==
    ASSUME OneInTurn, IInv, TurnInv, [Next]_vars,
           NEW table \in Tables, NEW i \in DOMAIN log'[table], NEW j \in DOMAIN log'[table],
           log'[table][i].txn = log'[table][j].txn
    PROVE  i = j
  <1>1. CASE log' = log
    BY <1>1 DEF TurnInv, RecordsExact
  <1>2. ASSUME NEW w \in Workers, Merge(w) PROVE i = j
    <2> DEFINE t == Txn(w)
               tb == job[w].table
               row == [txn |-> t, rows |-> SourceRows[t][tb]]
    <2>1. /\ t \in Txns /\ tb \in Tables /\ <<t, tb>> \notin LandedPairs
          /\ log' = [log EXCEPT ![tb] = Append(@, row)]
          /\ log \in [Tables -> Seq(SnapshotRow)] /\ row \in SnapshotRow
      BY <1>2, MergeInTurn
    <2>2. row.txn = t
      OBVIOUS
    <2> HIDE DEF row, t, tb
    <2>3. CASE table # tb
      <3>1. log'[table] = log[table]
        BY <2>1, <2>3
      <3> QED
        BY <3>1 DEF TurnInv, RecordsExact
    <2>4. CASE table = tb
      <3> DEFINE s == log[table]
                 n == Len(s)
      <3>1. s \in Seq(SnapshotRow) /\ log'[table] = Append(s, row)
        BY <2>1, <2>4
      <3>2. /\ n \in Nat /\ i \in 1 .. n + 1 /\ j \in 1 .. n + 1
            /\ log'[table][n + 1] = row /\ DOMAIN s = 1 .. n
            /\ \A k \in 1 .. n : log'[table][k] = s[k]
        BY <2>1, <3>1, AppendedLast
      <3>3. \A k \in 1 .. n : s[k].txn # t
        BY <2>1, <2>4, <3>2 DEF LandedPairs
      <3>4. \A k, l \in 1 .. n : s[k].txn = s[l].txn => k = l
        BY <3>2 DEF TurnInv, RecordsExact
      <3> HIDE DEF s, n
      <3>5. \A k \in 1 .. n : log'[table][k].txn # log'[table][n + 1].txn
        BY <2>2, <3>2, <3>3
      <3>6. (i \in 1 .. n \/ i = n + 1) /\ (j \in 1 .. n \/ j = n + 1)
        BY <3>2
      <3> QED
        BY <3>2, <3>4, <3>5, <3>6
    <2> QED
      BY <2>3, <2>4
  <1> QED
    BY <1>1, <1>2, LogStep

(* The digest of a receipt is that of the rows after its transaction. *)
LEMMA DigestsInTurn ==
    ASSUME OneInTurn, IInv, TurnInv, [Next]_vars,
           NEW t \in Txns, NEW table \in Tables, receipts'[t][table] # Null
    PROVE  receipts'[t][table].digest = SourceRows[t][table]
  <1>1. CASE receipts[t][table] # Null
    <2>1. receipts'[t][table] = receipts[t][table]
      BY <1>1, Growth DEF GrowthFacts
    <2> QED
      BY <1>1, <2>1 DEF TurnInv, RecordsExact
  <1>2. CASE receipts[t][table] = Null
    <2>1. PICK w \in Workers : /\ RecordReceipt(w) /\ t = Txn(w) /\ table = job[w].table
                               /\ receipts'[t][table].digest = job[w].digest
      BY <1>2, NewReceipt
    <2>2. job[w].digest = SourceRows[Txn(w)][job[w].table]
      BY <2>1 DEF RecordReceipt, TurnInv, TurnSound
    <2> QED
      BY <2>1, <2>2
  <1> QED
    BY <1>1, <1>2

LEMMA TombstoneStep ==
    ASSUME [Next]_vars
    PROVE  \/ tombstones' = tombstones
           \/ \E w \in Workers :
                RecordTombstones(w) /\ tombstones' = tombstones \cup Deleted(Txn(w))
  BY DEF Next, Step, vars, control, Begin, ReadCheckpoint, Claim, Reclaim, SkipTable, TakeTable,
         TablesDone, LookToken, LookAgain, CheckFails, CheckPasses, Merge, Verify, RecordReceipt,
         RecordTombstones, Finalize, FinalizeNothing, Crash

(* Every row a checkpointed transaction deleted has its tombstone, *)
LEMMA TombstonesThere ==
    ASSUME OneInTurn, IInv, TurnInv, [Next]_vars,
           NEW t \in Done', NEW table \in Tables, NEW k \in Keys,
           SourceRows[t - 1][table][k] # Null, SourceRows[t][table][k] = Null
    PROVE  [txn |-> t, table |-> table, key |-> k] \in tombstones'
  <1> DEFINE s == [txn |-> t, table |-> table, key |-> k]
  <1>1. tombstones \subseteq tombstones'
    BY TombstoneStep
  <1>2. CASE t \in Done
    <2>1. s \in tombstones
      BY <1>2 DEF TurnInv, RecordsExact
    <2> QED
      BY <1>1, <2>1
  <1>3. CASE t \notin Done
    <2>1. PICK w \in Workers : Finalize(w) /\ Txn(w) \in Txns /\ t = Txn(w)
      BY <1>3, FrontierInTurn
    <2>2. table \in TablesOf[t] => FitsSource(t, table)
      BY <2>1, ReceiptsFit, TableFacts DEF Finalize, Finalizable
    <2>3. Deleted(t) \subseteq tombstones
      BY <2>1 DEF Finalize, TurnInv, TurnSound
    <2>4. s \in Deleted(t)
      BY <2>1, <2>2, DeletedRows
    <2> QED
      BY <1>1, <2>3, <2>4
  <1> QED
    BY <1>2, <1>3

(* and there is no other tombstone. *)
LEMMA TombstonesTrue ==
    ASSUME OneInTurn, IInv, TurnInv, [Next]_vars, NEW s \in tombstones'
    PROVE  /\ SourceRows[s.txn - 1][s.table][s.key] # Null
           /\ SourceRows[s.txn][s.table][s.key] = Null
           /\ \A table \in TablesOf[s.txn] : receipts'[s.txn][table] # Null
  <1>1. CASE s \in tombstones
    <2>1. /\ SourceRows[s.txn - 1][s.table][s.key] # Null
          /\ SourceRows[s.txn][s.table][s.key] = Null
          /\ \A table \in TablesOf[s.txn] : receipts[s.txn][table] # Null
      BY <1>1 DEF TurnInv, RecordsExact
    <2>2. s.txn \in Txns
      BY <1>1 DEF IInv, TypeOK
    <2>3. \A table \in TablesOf[s.txn] : receipts'[s.txn][table] # Null
      BY <2>1, <2>2, Growth, TableFacts DEF GrowthFacts
    <2> QED
      BY <2>1, <2>3
  <1>2. CASE s \notin tombstones
    <2>1. PICK w \in Workers : RecordTombstones(w) /\ s \in Deleted(Txn(w))
      BY <1>2, TombstoneStep
    <2> DEFINE t == Txn(w)
    <2>2. t \in Txns /\ pc[w] = "finishing"
      BY <2>1, WorkerPlan DEF RecordTombstones
    <2>3. \A table \in TablesOf[t] : receipts[t][table] # Null
      BY <2>2 DEF TurnInv, TurnSound, Past
    <2>4. PICK c \in History[t] : c.after = Null /\ s = [txn |-> t, table |-> c.table, key |-> c.key]
      BY <2>1 DEF Deleted
    <2>5. c.table \in Tables /\ c.key \in Keys /\ c.table \in TablesOf[t]
      BY <2>2, <2>4, ChangeType DEF Change, TablesOf
    <2>6. FitsSource(t, c.table)
      BY <2>2, <2>3, <2>5, ReceiptsFit
    <2>7. SourceRows[t - 1][c.table][c.key] # Null /\ SourceRows[t][c.table][c.key] = Null
      BY <2>1, <2>2, <2>4, <2>5, <2>6, DeletedRows
    <2>8. \A table \in TablesOf[t] : receipts'[t][table] # Null
      BY <2>1, <2>3 DEF RecordTombstones
    <2>9. s.txn = t /\ s.table = c.table /\ s.key = c.key
      BY <2>4
    <2> QED
      BY <2>7, <2>8, <2>9
  <1> QED
    BY <1>1, <1>2

LEMMA RecordsInTurn ==
    ASSUME OneInTurn, IInv, TurnInv, [Next]_vars
    PROVE  RecordsExact'
  BY TokensInTurn, DigestsInTurn, TombstonesThere, TombstonesTrue DEF RecordsExact

(* A table that comes next from a worker's position on exists as long as one is
   left. *)
LEMMA NextTable ==
    ASSUME NEW w \in Workers, job[w].table \in Nat, Txn(w) \in Txns,
           NEW u \in PlanTables(Txn(w)), job[w].table <= u
    PROVE  \E table \in Tables : IsNext(w, table)
  <1> DEFINE n == job[w].table
             left == {v \in PlanTables(Txn(w)) : n <= v}
  <1>1. left \subseteq Nat /\ left \subseteq Tables /\ left # {}
    BY TableFacts, TablesAreNumbers
  <1> HIDE DEF left
  <1>2. PICK v \in left : \A x \in left : ~(<<x, v>> \in OpToRel(<, Nat))
    BY <1>1, WFMin, NatLessThanWellFounded, Zenon
  <1>3. \A x \in left : ~(x < v)
    BY <1>1, <1>2 DEF OpToRel
  <1>4. v \in Tables /\ v \in PlanTables(Txn(w)) /\ n <= v
    BY <1>1 DEF left
  <1>5. \A x \in n .. v - 1 : x \notin PlanTables(Txn(w))
    <2> SUFFICES ASSUME NEW x \in n .. v - 1, x \in PlanTables(Txn(w)) PROVE FALSE
      OBVIOUS
    <2>1. v \in Nat /\ n <= x /\ x < v
      BY <1>4, TablesAreNumbers
    <2> QED
      BY <1>3, <2>1 DEF left
  <1>6. v \in n .. TableCount
    BY <1>4, SourceAssumption DEF Tables
  <1> QED
    BY <1>4, <1>5, <1>6 DEF IsNext

(* What a transaction that is claimed and not checkpointed says of its place. *)
LEMMA ClaimedIsNext ==
    ASSUME OneInTurn, IInv, TurnInv, NEW w \in Workers, pc[w] # "idle", Txn(w) \notin Done
    PROVE  Txn(w) = Frontier + 1
  <1>1. Txn(w) \in Nat /\ Txn(w) >= 1 /\ Frontier \in Nat
    BY WorkerPlan, FrontierType, SourceAssumption DEF Txns
  <1>2. Txn(w) <= Frontier + 1 /\ Txn(w) \notin 1 .. Frontier
    BY DEF TurnInv, TurnSound
  <1> QED
    BY <1>1, <1>2

LEMMA IdleSound ==
    ASSUME NEW w \in Workers, pc'[w] = "idle"
    PROVE  TurnSound(w)'
  BY DEF TurnSound, Past

(* The parts of a worker's knowledge after a step of its own. *)
LEMMA TurnStep ==
    ASSUME OneInTurn, IInv, IInv', TurnInv, [Next]_vars, NEW w \in Workers
    PROVE  TurnSound(w)'
  <1>0. /\ TurnSound(w) /\ Frontier \in Nat
        /\ WorkerSound(w) /\ WorkerSound(w)'
    BY FrontierType DEF TurnInv, IInv, WorkerInv
  <1>1. CASE UNCHANGED vars
    <2>1. /\ Txn(w)' = Txn(w) /\ Frontier' = Frontier /\ LandedPairs' = LandedPairs
          /\ MergeAllowed(Txn(w), job[w].table)' = MergeAllowed(Txn(w), job[w].table)
      BY <1>1 DEF vars, control, Txn, Frontier, LandedPairs, MergeAllowed, Rows
    <2> QED
      BY <1>0, <1>1, <2>1 DEF vars, control, TurnSound, Past, Here
  <1>2. ASSUME NEW p \in Plans, Begin(w, p) PROVE TurnSound(w)'
    <2>1. pc'[w] = "opened" /\ job'[w] = [NoJob EXCEPT !.plan = p]
      BY <1>2, GotoFacts DEF Begin
    <2>2. Txn(w)' = p.txn /\ job'[w].table = 1
      BY <2>1 DEF Txn, NoJob
    <2>3. p.txn <= Frontier + 1
      BY <1>2 DEF Begin, OneInTurn
    <2>4. Frontier' = Frontier
      <3>1. ~ \E v \in Workers : Finalize(v)
        BY <1>2 DEF OneInTurn, Begin, Finalize
      <3> QED
        BY <3>1, FrontierInTurn
    <2> QED
      BY <2>1, <2>2, <2>3, <2>4 DEF TurnSound, Past
  <1>3. ASSUME Leave(w) PROVE TurnSound(w)'
    BY <1>3, LeaveFacts, IdleSound
  <1>4. ASSUME pc[w] # "idle", NEW l \in Labels, NEW j, Goto(w, l, j), checkpoint' = checkpoint,
               j.plan = job[w].plan
        PROVE  /\ Txn(w)' = Txn(w) /\ Frontier' = Frontier
               /\ pc'[w] = l /\ job'[w] = j
               /\ Txn(w) \in Txns /\ job[w].table \in 1 .. TableCount + 1
               /\ Txn(w) <= Frontier + 1
    <2>1. pc'[w] = l /\ job'[w] = j
      BY <1>4, GotoFacts
    <2>2. Txn(w)' = Txn(w) /\ Frontier' = Frontier
      BY <1>4, <2>1 DEF Txn, Frontier
    <2>3. Txn(w) \in Txns /\ job[w].table \in 1 .. TableCount + 1
      BY <1>4, WorkerPlan DEF Job
    <2> QED
      BY <1>0, <1>4, <2>1, <2>2, <2>3 DEF TurnSound
  <1>5. CASE ReadCheckpoint(w)
    <2> DEFINE j == [job[w] EXCEPT !.revision = checkpoint.revision]
    <2>1. CASE Leave(w)
      BY <1>3, <2>1
    <2>2. CASE Goto(w, "claiming", j)
      <3>1. job[w] \in Job /\ pc[w] = "opened" /\ checkpoint' = checkpoint
        BY <1>5, WorkerPlan DEF ReadCheckpoint, control
      <3>2. j.plan = job[w].plan /\ j.table = job[w].table
        BY <3>1 DEF Job
      <3>3. /\ Txn(w)' = Txn(w) /\ Frontier' = Frontier
            /\ pc'[w] = "claiming" /\ job'[w].table = job[w].table
            /\ Txn(w) <= Frontier + 1
        BY <1>4, <2>2, <3>1, <3>2 DEF Labels
      <3> QED
        BY <1>0, <3>1, <3>3 DEF TurnSound, Past
    <2> QED
      BY <1>5, <2>1, <2>2 DEF ReadCheckpoint
  <1>6. CASE Claim(w) \/ Reclaim(w)
    <2>1. CASE Leave(w)
      BY <1>3, <2>1
    <2>2. CASE Goto(w, "table", job[w])
      <3>1. pc[w] = "claiming" /\ checkpoint' = checkpoint
        BY <1>6 DEF Claim, Reclaim, control
      <3>2. /\ Txn(w)' = Txn(w) /\ Frontier' = Frontier
            /\ pc'[w] = "table" /\ job'[w] = job[w] /\ Txn(w) \in Txns
            /\ Txn(w) <= Frontier + 1
        BY <1>4, <2>2, <3>1 DEF Labels
      <3>3. Txn(w) \notin Done
        <4>1. CASE Claim(w)
          BY <4>1 DEF Claim, Done
        <4>2. CASE Reclaim(w)
          <5>1. ~Leave(w)
            BY <3>2, LeaveFacts
          <5>2. claims[Txn(w)].state = "APPLYING"
            BY <4>2, <5>1 DEF Reclaim
          <5> QED
            BY <5>2 DEF Done
        <4> QED
          BY <1>6, <4>1, <4>2
      <3>4. Txn(w) = Frontier + 1
        BY <3>1, <3>3, ClaimedIsNext
      <3>5. \A table \in TablesOf[Txn(w)] : ~(table < job'[w].table)
        <4>1. job'[w].table = 1
          BY <1>0, <3>1, <3>2 DEF TurnSound
        <4>2. \A table \in TablesOf[Txn(w)] : table \in Nat /\ table >= 1
          BY <3>2, TableFacts, SourceAssumption DEF Tables
        <4> QED
          BY <4>1, <4>2
      <3> QED
        BY <3>2, <3>4, <3>5 DEF TurnSound, Past
    <2> QED
      BY <1>6, <2>1, <2>2 DEF Claim, Reclaim
  <1> DEFINE t == Txn(w)
             tb == job[w].table
             Behind(n) == \A u \in TablesOf[t] : u < n => receipts'[t][u] # Null
  <1>7. ASSUME Past(w), checkpoint' = checkpoint
        PROVE  /\ t = Frontier + 1 /\ t \in Txns /\ job[w] \in Job
               /\ Frontier' = Frontier
               /\ tb \in 1 .. TableCount + 1 /\ tb \in Nat
               /\ Behind(tb)
               /\ \A u \in TablesOf[t] : u \in Nat /\ u \in PlanTables(t)
    <2>1. t \in Txns /\ job[w] \in Job
      BY <1>7, WorkerPlan DEF Past
    <2>2. \A u \in TablesOf[t] : receipts[t][u] # Null => receipts'[t][u] # Null
      BY <2>1, TableFacts, Growth DEF GrowthFacts
    <2>3. \A u \in TablesOf[t] : u < tb => receipts[t][u] # Null
      BY <1>0, <1>7 DEF TurnSound
    <2>4. Behind(tb)
      BY <2>2, <2>3
    <2>5. tb \in 1 .. TableCount + 1 /\ tb \in Nat
      BY <2>1 DEF Job
    <2>6. t = Frontier + 1 /\ Frontier' = Frontier
      BY <1>0, <1>7 DEF TurnSound, Frontier
    <2>7. TablesOf[t] = PlanTables(t) /\ TablesOf[t] \subseteq Tables
      BY <2>1, TableFacts
    <2>8. \A u \in TablesOf[t] : u \in Nat /\ u \in PlanTables(t)
      BY <2>7, TablesAreNumbers
    <2> QED
      BY <2>1, <2>4, <2>5, <2>6, <2>8
  (* a step between the claim and the tombstones, by where it leads *)
  <1>8. ASSUME Past(w), checkpoint' = checkpoint, NEW l \in Labels, NEW j, Goto(w, l, j),
               l \notin {"idle", "opened", "claiming", "merging", "finishing", "finalizing"},
               j.plan = job[w].plan, Behind(j.table),
               l = "checking" => <<t, j.table>> \notin LandedPairs',
               l \in {"verifying", "recording"} => <<t, j.table>> \in LandedPairs',
               l = "recording" => j.digest = SourceRows[t][j.table]
        PROVE  TurnSound(w)'
    <2>1. pc'[w] = l /\ job'[w] = j
      BY <1>8, GotoFacts
    <2>2. Txn(w)' = t /\ Frontier' = Frontier /\ t = Frontier + 1
      BY <1>7, <1>8, <2>1 DEF Txn
    <2>3. Here(w)' = <<t, j.table>>
      BY <2>1, <2>2 DEF Here
    <2> HIDE DEF t
    <2>4. t <= Frontier + 1
      BY <1>0, <2>2
    <2> QED
      BY <1>8, <2>1, <2>2, <2>3, <2>4 DEF TurnSound, Past
  <1>9. CASE SkipTable(w)
    <2>1. PICK table \in Tables :
            /\ IsNext(w, table) /\ receipts[t][table] # Null
            /\ Goto(w, "table", [job[w] EXCEPT !.table = table + 1])
      BY <1>9 DEF SkipTable
    <2> DEFINE j == [job[w] EXCEPT !.table = table + 1]
    <2>2. pc[w] = "table" /\ checkpoint' = checkpoint /\ receipts' = receipts
      BY <1>9 DEF SkipTable, control
    <2>3. Past(w)
      BY <2>2 DEF Past
    <2>4. j.plan = job[w].plan /\ j.table = table + 1
      BY <1>7, <2>2, <2>3 DEF Job
    <2>5. Behind(table + 1)
      <3> SUFFICES ASSUME NEW u \in TablesOf[t], u < table + 1 PROVE receipts'[t][u] # Null
        OBVIOUS
      <3>1. u \in Nat /\ table \in Nat /\ tb \in Nat /\ u \in PlanTables(t)
        BY <1>7, <2>2, <2>3, TablesAreNumbers
      <3>2. u < tb \/ u \in tb .. table - 1 \/ u = table
        BY <3>1
      <3>3. u \notin tb .. table - 1
        BY <2>1, <3>1 DEF IsNext
      <3> QED
        BY <1>7, <2>1, <2>2, <2>3, <3>2, <3>3
    <2> QED
      BY <1>8, <2>1, <2>2, <2>3, <2>4, <2>5 DEF Labels
  <1>10. CASE TakeTable(w)
    <2>1. PICK table \in Tables :
            IsNext(w, table) /\ Goto(w, "looking", [job[w] EXCEPT !.table = table])
      BY <1>10 DEF TakeTable
    <2> DEFINE j == [job[w] EXCEPT !.table = table]
    <2>2. pc[w] = "table" /\ checkpoint' = checkpoint /\ receipts' = receipts
      BY <1>10 DEF TakeTable, control
    <2>3. Past(w)
      BY <2>2 DEF Past
    <2>4. j.plan = job[w].plan /\ j.table = table
      BY <1>7, <2>2, <2>3 DEF Job
    <2>5. Behind(table)
      <3> SUFFICES ASSUME NEW u \in TablesOf[t], u < table PROVE receipts'[t][u] # Null
        OBVIOUS
      <3>1. u \in Nat /\ table \in Nat /\ tb \in Nat /\ u \in PlanTables(t)
        BY <1>7, <2>2, <2>3, TablesAreNumbers
      <3>2. u < tb \/ u \in tb .. table - 1
        BY <3>1
      <3>3. u \notin tb .. table - 1
        BY <2>1, <3>1 DEF IsNext
      <3> QED
        BY <1>7, <2>2, <2>3, <3>2, <3>3
    <2> QED
      BY <1>8, <2>1, <2>2, <2>3, <2>4, <2>5 DEF Labels
  <1>11. CASE TablesDone(w)
    <2>1. /\ pc[w] = "table" /\ checkpoint' = checkpoint /\ receipts' = receipts
          /\ pc'[w] = "finishing" /\ job'[w] = job[w]
          /\ ~ \E table \in Tables : IsNext(w, table)
      BY <1>11, GotoFacts DEF TablesDone, control
    <2>2. Past(w)
      BY <2>1 DEF Past
    <2>3. \A u \in TablesOf[t] : receipts'[t][u] # Null
      <3> SUFFICES ASSUME NEW u \in TablesOf[t] PROVE receipts'[t][u] # Null
        OBVIOUS
      <3>1. u \in Nat /\ tb \in Nat /\ u \in PlanTables(t) /\ t \in Txns
        BY <1>7, <2>1, <2>2
      <3>2. ~(tb <= u)
        BY <2>1, <3>1, NextTable
      <3>3. u < tb
        BY <3>1, <3>2
      <3> QED
        BY <1>7, <2>1, <2>2, <3>3
    <2>4. Txn(w)' = t /\ t = Frontier' + 1
      BY <1>7, <2>1, <2>2 DEF Txn
    <2>5. t <= Frontier' + 1
      BY <1>0, <1>7, <2>1, <2>2, <2>4
    <2> QED
      BY <2>1, <2>3, <2>4, <2>5 DEF TurnSound, Past
  <1>12. CASE LookToken(w) \/ LookAgain(w)
    <2>1. /\ pc[w] \in {"looking", "applying"} /\ checkpoint' = checkpoint /\ log' = log
          /\ Goto(w, IF Landed(t, tb) THEN "verifying"
                       ELSE IF pc[w] = "looking" THEN "applying" ELSE "checking", job[w])
      BY <1>12 DEF LookToken, LookAgain, control
    <2>2. Past(w)
      BY <2>1 DEF Past
    <2>3. t \in Txns /\ tb \in Tables /\ Behind(tb)
      BY <1>0, <1>7, <2>1, <2>2, TableFacts DEF WorkerSound
    <2>4. Landed(t, tb) <=> <<t, tb>> \in LandedPairs
      BY <2>3 DEF Landed, LandedPairs
    <2>5. LandedPairs' = LandedPairs
      BY <2>1 DEF LandedPairs
    <2>6. CASE Landed(t, tb)
      BY <1>8, <2>1, <2>2, <2>3, <2>4, <2>5, <2>6 DEF Labels
    <2>7. CASE ~Landed(t, tb) /\ pc[w] = "looking"
      BY <1>8, <2>1, <2>2, <2>3, <2>7 DEF Labels
    <2>8. CASE ~Landed(t, tb) /\ pc[w] = "applying"
      BY <1>8, <2>1, <2>2, <2>3, <2>4, <2>5, <2>8 DEF Labels
    <2> QED
      BY <2>1, <2>6, <2>7, <2>8
  <1>13. CASE CheckPasses(w)
    <2>1. /\ pc[w] = "checking" /\ checkpoint' = checkpoint /\ log' = log /\ receipts' = receipts
          /\ pc'[w] = "merging" /\ job'[w] = job[w] /\ MergeAllowed(t, tb)
      BY <1>13, GotoFacts DEF CheckPasses, control
    <2>2. Past(w)
      BY <2>1 DEF Past
    <2>3. t = Frontier' + 1 /\ t <= Frontier' + 1 /\ Behind(tb) /\ Txn(w)' = t
      BY <1>0, <1>7, <2>1, <2>2 DEF Txn
    <2>4. Here(w)' \notin LandedPairs'
      BY <1>0, <2>1, <2>3 DEF TurnSound, Here, LandedPairs
    <2>5. MergeAllowed(Txn(w), job[w].table)'
      BY <2>1, <2>3 DEF MergeAllowed, Rows
    <2> QED
      BY <2>1, <2>3, <2>4, <2>5 DEF TurnSound, Past
  <1>14. CASE Merge(w)
    <2>1. /\ pc[w] = "merging" /\ checkpoint' = checkpoint
          /\ Goto(w, "verifying", job[w])
      BY <1>14 DEF Merge, control
    <2>2. Past(w)
      BY <2>1 DEF Past
    <2>3. <<t, tb>> \in LandedPairs'
      BY <1>14, MergedLands
    <2> QED
      BY <1>7, <1>8, <2>1, <2>2, <2>3 DEF Labels
  <1>15. CASE Verify(w)
    <2> DEFINE j == [job[w] EXCEPT !.digest = Rows(tb)]
    <2>1. /\ pc[w] = "verifying" /\ checkpoint' = checkpoint /\ log' = log
          /\ Goto(w, "recording", j)
      BY <1>15 DEF Verify, control
    <2>2. Past(w)
      BY <2>1 DEF Past
    <2>3. j.plan = job[w].plan /\ j.table = tb /\ j.digest = Rows(tb)
      BY <1>7, <2>1, <2>2 DEF Job
    <2>4. tb \in Tables /\ <<t, tb>> \in LandedPairs /\ LandedPairs' = LandedPairs
      BY <1>0, <1>7, <2>1, <2>2, TableFacts DEF WorkerSound, TurnSound, Here, LandedPairs
    <2>5. Rows(tb) = SourceRows[t][tb]
      BY <1>7, <2>1, <2>2, <2>4 DEF TurnInv, RowsTrackFrontier
    <2>6. Behind(tb)
      BY <1>7, <2>1, <2>2
    <2>7. j.digest = SourceRows[t][j.table] /\ <<t, j.table>> \in LandedPairs' /\ Behind(j.table)
      BY <2>3, <2>4, <2>5, <2>6
    <2> HIDE DEF j
    <2> QED
      BY <1>8, <2>1, <2>2, <2>3, <2>7 DEF Labels
  <1>16. CASE RecordReceipt(w)
    <2> DEFINE j == [job[w] EXCEPT !.table = tb + 1, !.digest = Null]
    <2>1. CASE Leave(w)
      BY <1>3, <2>1
    <2>2. CASE Goto(w, "table", j)
      <3>1. /\ pc[w] = "recording" /\ checkpoint' = checkpoint
        BY <1>16 DEF RecordReceipt
      <3>2. Past(w)
        BY <3>1 DEF Past
      <3>3. j.plan = job[w].plan /\ j.table = tb + 1
        BY <1>7, <3>1, <3>2 DEF Job
      <3>4. t \in Txns /\ tb \in Tables
        BY <1>0, <1>7, <3>1, <3>2, TableFacts DEF WorkerSound
      <3>5. receipts'[t][tb] # Null
        BY <1>16, <3>4, RecordedThere
      <3>6. Behind(tb + 1)
        <4> SUFFICES ASSUME NEW u \in TablesOf[t], u < tb + 1 PROVE receipts'[t][u] # Null
          OBVIOUS
        <4>1. u \in Nat /\ tb \in Nat
          BY <3>4, TableFacts, TablesAreNumbers
        <4>2. u < tb \/ u = tb
          BY <4>1
        <4> QED
          BY <1>7, <3>1, <3>2, <3>5, <4>2
      <3> QED
        BY <1>8, <2>2, <3>1, <3>2, <3>3, <3>6 DEF Labels
    <2> QED
      BY <1>16, <2>1, <2>2 DEF RecordReceipt
  <1>17. CASE RecordTombstones(w)
    <2>1. /\ pc[w] = "finishing" /\ checkpoint' = checkpoint /\ receipts' = receipts
          /\ pc'[w] = "finalizing" /\ job'[w] = job[w]
          /\ Deleted(t) \subseteq tombstones'
      BY <1>17, GotoFacts DEF RecordTombstones
    <2>2. Past(w)
      BY <2>1 DEF Past
    <2>3. t = Frontier' + 1 /\ t <= Frontier' + 1 /\ Txn(w)' = t
      BY <1>0, <1>7, <2>1, <2>2 DEF Txn
    <2>4. \A u \in TablesOf[t] : receipts'[t][u] # Null
      BY <1>0, <2>1, <2>2 DEF TurnSound
    <2> QED
      BY <2>1, <2>3, <2>4 DEF TurnSound, Past
  <1>18. CASE CheckFails(w) \/ Finalize(w) \/ FinalizeNothing(w) \/ Crash(w)
    BY <1>3, <1>18 DEF CheckFails, Finalize, FinalizeNothing, Crash
  <1>19. \A v \in Workers : v = w
    BY DEF OneInTurn
  <1>20. CASE Step(w)
    BY <1>5, <1>6, <1>9, <1>10, <1>11, <1>12, <1>13, <1>14, <1>15, <1>16, <1>17, <1>18, <1>20
    DEF Step
  <1> QED
    BY <1>1, <1>2, <1>18, <1>19, <1>20 DEF Next

LEMMA TurnInitially ==
    ASSUME Init
    PROVE  TurnInv
  <1>1. Done = {} /\ LandedPairs = {} /\ Frontier = 0 /\ (1 .. Frontier) = {}
    BY DEF Init, Done, LandedPairs, Frontier
  <1>2. RowsTrackFrontier
    <2> SUFFICES ASSUME NEW table \in Tables PROVE Rows(table) = SourceRows[0][table]
      BY <1>1 DEF RowsTrackFrontier
    <2>1. Rows(table) = Snapshot[table]
      BY DEF Init, Rows
    <2> QED
      BY <2>1, SourceStart
  <1>3. RecordsExact
    BY <1>1 DEF RecordsExact, Init
  <1>4. \A w \in Workers : TurnSound(w)
    BY DEF TurnSound, Past, Init
  <1>5. LandedInTurn
    BY <1>1 DEF LandedInTurn
  <1> QED
    BY <1>1, <1>2, <1>3, <1>4, <1>5 DEF TurnInv

(* With one worker at a time and plans in source order, for any source, whether
   its changes fit its rows or not, and any manifests. *)
LEMMA TurnInvariance ==
    ASSUME OneInTurn
    PROVE  Spec => []TurnInv
  <1>1. TurnInv /\ IInv /\ IInv' /\ [Next]_vars => TurnInv'
    BY DoneInTurn, LandedInTurnStep, TurnStep, RowsInTurn, RecordsInTurn DEF TurnInv
  <1>2. Init => TurnInv
    BY TurnInitially
  <1> QED
    BY <1>1, <1>2, Invariance, PTL DEF Spec

(* The tables hold the source's rows at the frontier, or one transaction later
   where the next one has landed, wherever the worker dies. *)
THEOREM RowsFollowSource ==
    ASSUME OneInTurn
    PROVE  Spec => []RowsTrackFrontier
  <1>1. TurnInv => RowsTrackFrontier
    BY DEF TurnInv
  <1> QED
    BY <1>1, TurnInvariance, PTL

(* One snapshot per token, digests of receipts and tombstones are exact. *)
THEOREM RecordsFollowSource ==
    ASSUME OneInTurn
    PROVE  Spec => []RecordsExact
  <1>1. TurnInv => RecordsExact
    BY DEF TurnInv
  <1> QED
    BY <1>1, TurnInvariance, PTL
-----------------------------------------------------------------------------
(* One worker at a time, plans in source order, a manifest per transaction. *)

LEMMA ClaimsTrueStep ==
    ASSUME IInv, NextSound, [Next]_vars
    PROVE  \A t \in Txns : claims'[t] # Null => claims'[t].plan.txn = t
  <1> SUFFICES ASSUME NEW t \in Txns, claims'[t] # Null PROVE claims'[t].plan.txn = t
    OBVIOUS
  <1>1. CASE claims[t] # Null
    BY <1>1, Growth DEF GrowthFacts, NextSound
  <1>2. CASE claims[t] = Null
    <2>0. claims \in [Txns -> ClaimRow \cup {Null}]
      BY DEF IInv, TypeOK
    <2>1. ASSUME NEW w \in Workers, Claim(w) PROVE claims'[t].plan.txn = t
      <3>1. Txn(w) \in Txns
        BY <2>1, WorkerPlan DEF Claim
      <3>2. t = Txn(w) /\ claims'[t].plan = job[w].plan
        BY <1>2, <2>0, <2>1, <3>1 DEF Claim
      <3> QED
        BY <3>2 DEF Txn
    <2>2. ASSUME NEW w \in Workers, Finalize(w) PROVE FALSE
      <3>1. Txn(w) \in Txns /\ claims[Txn(w)] # Null
        BY <2>2, WorkerPlan DEF Finalize, IInv, WorkerInv, WorkerSound
      <3> QED
        BY <1>2, <2>0, <2>2, <3>1 DEF Finalize
    <2>3. \/ claims' = claims
          \/ \E w \in Workers : Claim(w) \/ Finalize(w)
      BY DEF Next, Step, vars, control, Begin, ReadCheckpoint, Reclaim, SkipTable, TakeTable,
          TablesDone, LookToken, LookAgain, CheckFails, CheckPasses, Merge, Verify, RecordReceipt,
          RecordTombstones, FinalizeNothing, Crash
    <2> QED
      BY <1>2, <2>1, <2>2, <2>3
  <1> QED
    BY <1>1, <1>2

Taken == {"looking", "applying", "checking", "merging", "verifying", "recording"}

(* What a worker knows of checkpoint and receipts. *)
Ready(w) ==
    /\ pc[w] \notin {"idle", "opened"} => job[w].revision = checkpoint.revision
    /\ pc[w] \in Taken => receipts[Txn(w)][job[w].table] = Null

LEMMA ReadyStep ==
    ASSUME OneInTurn, IInv, NEW w \in Workers, Ready(w), [Next]_vars
    PROVE  Ready(w)'
  <1>1. CASE UNCHANGED vars
    BY <1>1 DEF vars, control, Ready, Txn
  <1>2. ASSUME NEW p \in Plans, Begin(w, p) PROVE Ready(w)'
    <2>1. pc'[w] = "opened"
      BY <1>2, GotoFacts DEF Begin
    <2> QED
      BY <2>1 DEF Ready, Taken
  <1>3. ASSUME Leave(w) PROVE Ready(w)'
    <2>1. pc'[w] = "idle"
      BY <1>3, LeaveFacts
    <2> QED
      BY <2>1 DEF Ready, Taken
  (* a step between claim and checkpoint, by where it leads *)
  <1>4. ASSUME pc[w] # "idle", checkpoint' = checkpoint, NEW l, NEW j, Goto(w, l, j),
               j.plan = job[w].plan, j.revision = checkpoint.revision,
               l \in Taken => receipts'[Txn(w)][j.table] = Null
        PROVE  Ready(w)'
    <2>1. pc'[w] = l /\ job'[w] = j
      BY <1>4, GotoFacts
    <2>2. Txn(w)' = Txn(w)
      BY <1>4, <2>1 DEF Txn
    <2> QED
      BY <1>4, <2>1, <2>2 DEF Ready
  <1>5. CASE ReadCheckpoint(w)
    <2> DEFINE j == [job[w] EXCEPT !.revision = checkpoint.revision]
    <2>1. pc[w] # "idle" /\ checkpoint' = checkpoint
      BY <1>5 DEF ReadCheckpoint, control
    <2>2. j.plan = job[w].plan /\ j.revision = checkpoint.revision
      BY <2>1, WorkerPlan DEF Job
    <2>3. Leave(w) \/ Goto(w, "claiming", j)
      BY <1>5 DEF ReadCheckpoint
    <2> HIDE DEF j
    <2> QED
      BY <1>3, <1>4, <2>1, <2>2, <2>3 DEF Taken
  <1>6. CASE Claim(w) \/ Reclaim(w) \/ TablesDone(w) \/ RecordTombstones(w)
    <2>1. /\ pc[w] \notin {"idle", "opened"} /\ checkpoint' = checkpoint
          /\ Leave(w) \/ \E l \in Labels \ Taken : Goto(w, l, job[w])
      BY <1>6 DEF Claim, Reclaim, TablesDone, RecordTombstones, control, Labels, Taken
    <2> QED
      BY <1>3, <1>4, <2>1 DEF Ready
  <1>7. CASE LookToken(w) \/ LookAgain(w) \/ CheckPasses(w) \/ Merge(w)
    <2>1. /\ pc[w] \in Taken /\ checkpoint' = checkpoint /\ receipts' = receipts
          /\ \E l \in Labels : Goto(w, l, job[w])
      BY <1>7 DEF LookToken, LookAgain, CheckPasses, Merge, control, Labels, Taken
    <2> QED
      BY <1>4, <2>1 DEF Ready, Taken
  <1>8. CASE Verify(w)
    <2> DEFINE j == [job[w] EXCEPT !.digest = Rows(job[w].table)]
    <2>1. /\ pc[w] \in Taken /\ checkpoint' = checkpoint /\ receipts' = receipts
          /\ Goto(w, "recording", j)
      BY <1>8 DEF Verify, control, Taken
    <2>2. j.plan = job[w].plan /\ j.revision = job[w].revision /\ j.table = job[w].table
      BY <2>1, WorkerPlan DEF Job, Taken
    <2> HIDE DEF j
    <2> QED
      BY <1>4, <2>1, <2>2 DEF Ready, Taken
  <1>9. CASE SkipTable(w)
    <2>1. PICK table \in Tables : Goto(w, "table", [job[w] EXCEPT !.table = table + 1])
      BY <1>9 DEF SkipTable
    <2> DEFINE j == [job[w] EXCEPT !.table = table + 1]
    <2>2. pc[w] = "table" /\ checkpoint' = checkpoint
      BY <1>9 DEF SkipTable, control
    <2>3. j.plan = job[w].plan /\ j.revision = job[w].revision
      BY <2>2, WorkerPlan DEF Job
    <2> HIDE DEF j
    <2> QED
      BY <1>4, <2>1, <2>2, <2>3 DEF Ready, Taken, j
  <1>10. CASE TakeTable(w)
    <2>1. PICK table \in Tables :
            receipts[Txn(w)][table] = Null /\ Goto(w, "looking", [job[w] EXCEPT !.table = table])
      BY <1>10 DEF TakeTable
    <2> DEFINE j == [job[w] EXCEPT !.table = table]
    <2>2. pc[w] = "table" /\ checkpoint' = checkpoint /\ receipts' = receipts
      BY <1>10 DEF TakeTable, control
    <2>3. j.plan = job[w].plan /\ j.revision = job[w].revision /\ j.table = table
      BY <2>2, WorkerPlan DEF Job
    <2>4. Goto(w, "looking", j) /\ receipts'[Txn(w)][j.table] = Null
      BY <2>1, <2>2, <2>3
    <2> HIDE DEF j
    <2> QED
      BY <1>4, <2>2, <2>3, <2>4 DEF Ready
  <1>11. CASE RecordReceipt(w)
    <2> DEFINE j == [job[w] EXCEPT !.table = job[w].table + 1, !.digest = Null]
    <2>1. pc[w] = "recording" /\ checkpoint' = checkpoint
      BY <1>11 DEF RecordReceipt
    <2>2. j.plan = job[w].plan /\ j.revision = job[w].revision
      BY <2>1, WorkerPlan DEF Job
    <2>3. Leave(w) \/ Goto(w, "table", j)
      BY <1>11 DEF RecordReceipt
    <2> HIDE DEF j
    <2> QED
      BY <1>3, <1>4, <2>1, <2>2, <2>3 DEF Ready, Taken
  <1>12. CASE CheckFails(w) \/ Finalize(w) \/ FinalizeNothing(w) \/ Crash(w)
    BY <1>3, <1>12 DEF CheckFails, Finalize, FinalizeNothing, Crash
  <1>13. \A v \in Workers : v = w
    BY DEF OneInTurn
  <1>14. CASE Step(w)
    BY <1>5, <1>6, <1>7, <1>8, <1>9, <1>10, <1>11, <1>12, <1>14 DEF Step
  <1> QED
    BY <1>1, <1>2, <1>12, <1>13, <1>14 DEF Next

LEMMA NextSoundInvariance ==
    ASSUME OneInTurn
    PROVE  Spec => []NextSound
  <1>1. ASSUME IInv, NextSound, [Next]_vars PROVE NextSound'
    <2>1. \A w \in Workers : Ready(w)'
      BY <1>1, ReadyStep DEF NextSound, Ready, Taken
    <2>2. \A t \in Txns : claims'[t] # Null => claims'[t].plan.txn = t
      BY <1>1, ClaimsTrueStep
    <2> QED
      BY <2>1, <2>2 DEF NextSound, Ready, Taken
  <1>2. Init => NextSound
    BY DEF Init, NextSound
  <1> QED
    BY <1>1, <1>2, Invariance, PTL DEF Spec

(* A manifest of one transaction makes one plan, which starts right before it. *)
LEMMA OnePlan ==
    ASSUME OneByOne, NEW p \in Plans
    PROVE  /\ p.manifest.previous = p.txn - 1
           /\ \A q \in Plans : q.txn = p.txn => q = p
  <1>1. ASSUME NEW q \in Plans
        PROVE  /\ q.txn \in Nat /\ q.manifest = [previous |-> q.txn - 1, terminal |-> q.txn]
               /\ q.manifest.previous = q.txn - 1
               /\ q = [txn |-> q.txn, manifest |-> q.manifest]
    <2>1. q \in [txn : Txns, manifest : Manifests]
          /\ q.manifest.previous < q.txn /\ q.txn <= q.manifest.terminal
      BY DEF Plans
    <2>2. q.manifest \in [previous : Nat, terminal : Nat]
          /\ q.manifest.terminal = q.manifest.previous + 1
      BY <2>1, ManifestAssumption DEF OneByOne
    <2>3. q.txn \in Nat
      BY PlanFacts
    <2>4. q.manifest.previous = q.txn - 1 /\ q.manifest.terminal = q.txn
      BY <2>1, <2>2, <2>3
    <2>5. q.manifest = [previous |-> q.manifest.previous, terminal |-> q.manifest.terminal]
      BY <2>2
    <2>6. q.manifest = [previous |-> q.txn - 1, terminal |-> q.txn]
      BY <2>4, <2>5
    <2>7. q = [txn |-> q.txn, manifest |-> q.manifest]
      BY <2>1
    <2> QED
      BY <2>3, <2>4, <2>6, <2>7
  <1>2. \A q \in Plans : q.txn = p.txn => q = p
    <2> SUFFICES ASSUME NEW q \in Plans, q.txn = p.txn PROVE q = p
      OBVIOUS
    <2>1. q.manifest = p.manifest
      BY <1>1
    <2> QED
      BY <1>1, <2>1
  <1>3. p.manifest.previous = p.txn - 1
    BY <1>1
  <1> QED
    BY <1>2, <1>3

LEMMA NextFits ==
    ASSUME OneInTurn, OneByOne, SourceFits, IInv, TurnInv, NextSound
    PROVE  NextIsNotRefused
  <1> SUFFICES ASSUME NEW w \in Workers, pc[w] # "idle", Txn(w) = Frontier + 1
               PROVE
        /\ pc[w] = "opened" => checkpoint.frontier = job[w].plan.manifest.previous
        /\ pc[w] = "claiming" =>
             claims[Txn(w)] \in {Null, [plan |-> job[w].plan, state |-> "APPLYING"]}
        /\ pc[w] = "checking" => MergeAllowed(Txn(w), job[w].table)
        /\ pc[w] = "recording" =>
             /\ \E i \in DOMAIN log[job[w].table] : IsSnapshotOf(i, Txn(w), job[w].table)
             /\ receipts[Txn(w)][job[w].table] = Null
        /\ pc[w] = "finalizing" => claims[Txn(w)].state = "APPLYING" /\ Finalizable(w)
    BY DEF NextIsNotRefused
  <1> DEFINE t == Txn(w)
             tb == job[w].table
  <1>1. /\ t \in Txns /\ t \in Nat /\ job[w].plan \in Plans /\ job[w].plan.txn = t
        /\ Frontier \in Nat /\ t = Frontier + 1
    BY WorkerPlan, FrontierType, PlanFacts DEF Txn
  <1>2. TurnSound(w) /\ WorkerSound(w)
    BY DEF TurnInv, IInv, WorkerInv
  <1>3. checkpoint.frontier = job[w].plan.manifest.previous
    <2>1. checkpoint # Null
      BY <1>2 DEF WorkerSound
    <2>2. checkpoint.frontier = Frontier
      BY <2>1 DEF Frontier
    <2>3. job[w].plan.manifest.previous = t - 1
      BY <1>1, OnePlan
    <2> QED
      BY <1>1, <2>2, <2>3
  <1>4. claims[t] \in {Null, [plan |-> job[w].plan, state |-> "APPLYING"]}
    <2> SUFFICES ASSUME claims[t] # Null
                 PROVE  claims[t] = [plan |-> job[w].plan, state |-> "APPLYING"]
      OBVIOUS
    <2>1. claims[t] \in ClaimRow
      BY <1>1 DEF IInv, TypeOK
    <2>2. claims[t].plan.txn = t
      BY <1>1 DEF NextSound
    <2>3. claims[t].plan = job[w].plan
      BY <1>1, <2>1, <2>2, OnePlan DEF ClaimRow
    <2>4. t \notin Done
      BY <1>1 DEF TurnInv
    <2>5. claims[t].state = "APPLYING"
      BY <1>1, <2>1, <2>4 DEF Done, ClaimRow
    <2> QED
      BY <2>1, <2>3, <2>5 DEF ClaimRow
  <1>5. ASSUME pc[w] = "checking" PROVE MergeAllowed(t, tb)
    <2>1. tb \in Tables /\ <<t, tb>> \notin LandedPairs
      BY <1>1, <1>2, <1>5, TableFacts DEF WorkerSound, TurnSound, Here
    <2>2. Rows(tb) = SourceRows[t - 1][tb]
      BY <1>1, <2>1 DEF TurnInv, RowsTrackFrontier
    <2>3. FitsSource(t, tb)
      BY <1>1, <2>1 DEF SourceFits
    <2> QED
      BY <2>2, <2>3 DEF FitsSource, MergeAllowed
  <1>6. ASSUME pc[w] = "recording"
        PROVE  \E i \in DOMAIN log[tb] : IsSnapshotOf(i, t, tb)
    <2>1. tb \in Tables /\ <<t, tb>> \in LandedPairs
      BY <1>1, <1>2, <1>6, TableFacts DEF WorkerSound, TurnSound, Here
    <2>2. PICK i \in DOMAIN log[tb] : log[tb][i].txn = t
      BY <2>1 DEF LandedPairs
    <2>3. log[tb] \in Seq(SnapshotRow)
      BY <2>1 DEF IInv, TypeOK
    <2>4. i \in Nat /\ \A j \in 1 .. i - 1 : j \in DOMAIN log[tb] /\ j # i
      BY <2>3
    <2>5. \A j \in 1 .. i - 1 : log[tb][j].txn # t
      BY <2>1, <2>2, <2>4 DEF TurnInv, RecordsExact
    <2> QED
      BY <2>2, <2>5 DEF IsSnapshotOf
  <1>7. ASSUME pc[w] = "recording" PROVE receipts[t][tb] = Null
    BY <1>7 DEF NextSound
  <1>8. ASSUME pc[w] = "finalizing" PROVE claims[t].state = "APPLYING" /\ Finalizable(w)
    <2>1. claims[t].state = "APPLYING"
      BY <1>2, <1>4, <1>8 DEF WorkerSound
    <2>2. \A table \in PlanTables(t) : receipts[t][table] # Null
      BY <1>1, <1>2, <1>8, TableFacts DEF TurnSound, Past
    <2>3. checkpoint.revision = job[w].revision
      BY <1>8 DEF NextSound
    <2> QED
      BY <1>3, <2>1, <2>2, <2>3 DEF Finalizable
  <1> QED
    BY <1>3, <1>4, <1>5, <1>6, <1>7, <1>8

(* A transaction of a database that comes in a manifest of its own is refused by
   nothing on its way, wherever earlier attempts died: not by the initial
   checkpoint, the claim, the before images, the receipt or finalize. *)
THEOREM NextGoesThrough ==
    ASSUME OneInTurn, OneByOne, SourceFits
    PROVE  Spec => []NextIsNotRefused
  <1>1. IInv /\ TurnInv /\ NextSound => NextIsNotRefused
    BY NextFits
  <1> QED
    BY <1>1, Invariance, TurnInvariance, NextSoundInvariance, PTL

(* In such manifests partial progress is recoverable: the frontier never leaves
   the start of a plan behind whose transaction has landed somewhere. *)
THEOREM OneByOneRecovers ==
    ASSUME OneInTurn, OneByOne
    PROVE  Spec => []ProgressIsRecoverable
  <1>1. ASSUME IInv, TurnInv, NextSound PROVE ProgressIsRecoverable
    <2> SUFFICES ASSUME NEW t \in Txns, claims[t] # Null, t \notin Done
                 PROVE  checkpoint.frontier <= claims[t].plan.manifest.previous
      BY DEF ProgressIsRecoverable
    <2>1. claims[t].plan \in Plans /\ claims[t].plan.txn = t
      BY <1>1 DEF IInv, TypeOK, ClaimRow, NextSound
    <2>2. t \in Nat /\ t >= 1 /\ Frontier \in Nat /\ t \notin 1 .. Frontier
      BY <1>1, <2>1, FrontierType, SourceAssumption DEF TurnInv, Txns
    <2>3. checkpoint # Null
      BY <1>1 DEF IInv, ClaimsNeedCheckpoint
    <2>4. checkpoint.frontier = Frontier
      BY <2>3 DEF Frontier
    <2>5. claims[t].plan.manifest.previous = t - 1
      BY <2>1, OnePlan
    <2> QED
      BY <2>2, <2>4, <2>5
  <1> QED
    BY <1>1, Invariance, TurnInvariance, NextSoundInvariance, PTL
=============================================================================
