------------------------------ MODULE CdcApply ------------------------------
(***************************************************************************)
(* Transactional CDC apply to one candidate generation: the coordinator    *)
(* (cdc_apply.py), the control store it keeps in SQLite (cdc_control.py)   *)
(* and the Iceberg tables it merges into (iceberg_cdc.py), which commit    *)
(* separately.  Workers are processes that run apply_transaction on a      *)
(* plan; any of them may die between two commits and another may run the   *)
(* same plan, or another one, meanwhile or later.                          *)
(*                                                                         *)
(* The source is a history of transactions, numbered by commit position,   *)
(* and a plan is what transaction_assembler.py makes of one of them and    *)
(* the manifest it arrives in.  Every read and every commit of             *)
(* apply_transaction that other workers can fall between is a step; the    *)
(* reads of the several rows of one table transaction are one.             *)
(*                                                                         *)
(* Abstracted: digests are injective, so a commit token is the pair of a   *)
(* transaction and a table, a plan its own digest, and a table's rows      *)
(* their digest; the checks that compare a receipt's or a snapshot's       *)
(* digests with those of the transaction that owns it cannot then fail and *)
(* are left out.  The generation is in state CDC_APPLYING, which the       *)
(* registry never leaves, and its tables exist since the snapshot load.    *)
(***************************************************************************)
EXTENDS Naturals, Sequences, FiniteSets

CONSTANTS
    TableCount,   \* tables are 1 .. TableCount, in the order of their names
    Keys, Values, \* primary keys and row images
    Null,         \* SQL NULL, an absent row, "nothing"
    Snapshot,     \* table -> key -> image, what the snapshot load left
    History,      \* sequence of transactions, each a set of changes
    Manifests,    \* intervals of the apply manifests, previous and terminal frontier
    Workers,
    InTurn        \* whether operators run plans in source order (runbook.md, step 5)

VARIABLES
    checkpoint,   \* row of cdc_checkpoints, or Null
    claims,       \* transaction -> row of cdc_transactions, or Null
    receipts,     \* transaction -> table -> row of cdc_table_receipts, or Null
    tombstones,   \* rows of cdc_tombstones
    log,          \* table -> the snapshots of the Iceberg table, oldest first
    pc,           \* worker -> where its call of apply_transaction stands
    job           \* worker -> its plan and what it has read

control == <<checkpoint, claims, receipts, tombstones>>
vars == <<control, log, pc, job>>

-----------------------------------------------------------------------------
(* The source. *)

Tables == 1 .. TableCount
Txns == 1 .. Len(History)
Images == Values \cup {Null}
Content == [Keys -> Images]

(* An event: seq orders those of a transaction, before is Null for an insert
   and after for a delete, and none is both. *)
Change == {c \in [seq : Nat, table : Tables, key : Keys, before : Images, after : Images] :
             c.before # Null \/ c.after # Null}

Changes(t, table) == {c \in History[t] : c.table = table}

(* The rows of the source after n transactions: the last transaction that
   changes a key decides, and its last change of it. *)
Last(cs, k) == CHOOSE c \in cs : c.key = k /\ \A d \in cs : d.key = k => d.seq <= c.seq
Touching(n, table, k) == {t \in 1 .. n : \E c \in Changes(t, table) : c.key = k}
Latest(ts) == CHOOSE t \in ts : \A u \in ts : u <= t
SourceRows == [n \in 0 .. Len(History) |-> [table \in Tables |-> [k \in Keys |->
    IF Touching(n, table, k) = {} THEN Snapshot[table][k]
      ELSE Last(Changes(Latest(Touching(n, table, k)), table), k).after]]]

(* The capture is of a database: one transaction inserts a key twice only if
   it deletes the row in between. *)
ASSUME SourceAssumption ==
    /\ TableCount \in Nat
    /\ Snapshot \in [Tables -> Content]
    /\ History \in Seq(SUBSET Change)
    /\ Null \notin Values
    /\ \A t \in Txns : \A table \in Tables : \A c, d \in Changes(t, table) :
         c.key = d.key /\ c.before = Null /\ d.before = Null =>
           c = d \/ \E e \in Changes(t, table) : e.key = c.key /\ e.after = Null

ASSUME ManifestAssumption ==
    \A m \in Manifests : m \in [previous : Nat, terminal : Nat] /\ m.previous < m.terminal

-----------------------------------------------------------------------------
(* assemble_transactions: every plan of a manifest gets the frontier that
   the manifest starts from. *)
Plans == {p \in [txn : Txns, manifest : Manifests] :
            p.manifest.previous < p.txn /\ p.txn <= p.manifest.terminal}

(* Mutant: a plan lists the table of its first event only. *)
FirstTable(t) == {c.table : c \in {c \in History[t] : \A d \in History[t] : c.seq <= d.seq}}
PlanTables(t) == {c.table : c \in History[t]}

Deleted(t) == {[txn |-> t, table |-> c.table, key |-> c.key] : c \in {c \in History[t] : c.after = Null}}

(* The current rows of a target table, and whether a snapshot of it carries
   the token of a transaction. *)
Rows(table) ==
    IF log[table] = <<>> THEN Snapshot[table] ELSE log[table][Len(log[table])].rows
NeverLanded(t, table) == FALSE    \* mutant: the look for the token finds nothing
Landed(t, table) == \E i \in DOMAIN log[table] : log[table][i].txn = t

(* snapshot_for_token returns the oldest snapshot with the token. *)
IsSnapshotOf(i, t, table) ==
    log[table][i].txn = t /\ \A j \in 1 .. i - 1 : log[table][j].txn # t

(* The MERGE: inserts where nothing matches, updates and deletes where
   something does.  The mutant has no DELETE clause. *)
MergedNoDelete(rows, cs) ==
    [k \in Keys |->
        IF \E c \in cs : c.key = k /\ ((c.before = Null) <=> (rows[k] = Null)) /\ c.after # Null
          THEN (CHOOSE c \in cs : c.key = k).after
          ELSE rows[k]]
Merged(rows, cs) ==
    [k \in Keys |->
        IF \E c \in cs : c.key = k /\ ((c.before = Null) <=> (rows[k] = Null))
          THEN (CHOOSE c \in cs : c.key = k).after
          ELSE rows[k]]

(* _check_preconditions on the rows as they are, and the MERGE's own demand
   that no two source rows meet one target row.  Two inserts of one key, which
   would meet none, come with a delete of it (SourceAssumption), and of an
   insert and a delete one does not fit the rows. *)
MergeAllowed(t, table) ==
    /\ \A c \in Changes(t, table) : Rows(table)[c.key] = c.before
    /\ \A c, d \in Changes(t, table) : c.key = d.key => c = d

-----------------------------------------------------------------------------
NoJob == [plan |-> Null, revision |-> 0, table |-> 1, digest |-> Null]
Labels == {"idle", "opened", "claiming", "table", "looking", "applying", "merging",
           "checking", "verifying", "recording", "finishing", "finalizing"}

CheckpointRow == [frontier : Nat, revision : Nat]
ClaimRow == [plan : Plans, state : {"APPLYING", "CHECKPOINTED"}]
ReceiptRow == [snapshot : Nat, digest : Content]
SnapshotRow == [txn : Txns, rows : Content]

ASSUME NullAssumption ==
    Null \notin CheckpointRow \cup ClaimRow \cup ReceiptRow \cup Plans \cup Content \cup Nat

TypeOK ==
    /\ checkpoint \in CheckpointRow \cup {Null}
    /\ claims \in [Txns -> ClaimRow \cup {Null}]
    /\ receipts \in [Txns -> [Tables -> ReceiptRow \cup {Null}]]
    /\ tombstones \subseteq [txn : Txns, table : Tables, key : Keys]
    /\ log \in [Tables -> Seq(SnapshotRow)]
    /\ pc \in [Workers -> Labels]
    /\ job \in [Workers -> [plan : Plans \cup {Null}, revision : Nat,
                            table : 1 .. TableCount + 1, digest : Content \cup {Null}]]

Init ==
    /\ checkpoint = Null
    /\ claims = [t \in Txns |-> Null]
    /\ receipts = [t \in Txns |-> [table \in Tables |-> Null]]
    /\ tombstones = {}
    /\ log = [table \in Tables |-> <<>>]
    /\ pc = [w \in Workers |-> "idle"]
    /\ job = [w \in Workers |-> NoJob]

Txn(w) == job[w].plan.txn

(* Worker w goes to label l with job j; it is done, or has failed, when idle. *)
Goto(w, l, j) == pc' = [pc EXCEPT ![w] = l] /\ job' = [job EXCEPT ![w] = j]
Leave(w) == Goto(w, "idle", NoJob)

-----------------------------------------------------------------------------
(* initialize_checkpoint: INSERT OR IGNORE, then a SELECT. *)

Frontier == IF checkpoint = Null THEN 0 ELSE checkpoint.frontier

Begin(w, p) ==
    /\ pc[w] = "idle"
    /\ InTurn => p.txn <= Frontier + 1
    /\ checkpoint' = IF checkpoint = Null THEN [frontier |-> p.manifest.previous, revision |-> 0]
                     ELSE checkpoint
    /\ Goto(w, "opened", [NoJob EXCEPT !.plan = p])
    /\ UNCHANGED <<claims, receipts, tombstones, log>>

(* A checkpoint at another frontier is refused while its revision is 0; the
   revision read here is the one finalize will expect. *)
ReadCheckpoint(w) ==
    /\ pc[w] = "opened"
    /\ IF checkpoint.frontier # job[w].plan.manifest.previous /\ checkpoint.revision = 0
         THEN Leave(w)
         ELSE Goto(w, "claiming", [job[w] EXCEPT !.revision = checkpoint.revision])
    /\ UNCHANGED <<control, log>>

(* claim: a new row, the row of the same plan, or a refusal. *)
Claim(w) ==
    /\ pc[w] = "claiming"
    /\ claims[Txn(w)] = Null
    /\ claims' = [claims EXCEPT ![Txn(w)] = [plan |-> job[w].plan, state |-> "APPLYING"]]
    /\ Goto(w, "table", job[w])
    /\ UNCHANGED <<checkpoint, receipts, tombstones, log>>

Reclaim(w) ==
    /\ pc[w] = "claiming"
    /\ claims[Txn(w)] # Null
    /\ IF claims[Txn(w)].plan = job[w].plan /\ claims[Txn(w)].state = "APPLYING"
         THEN Goto(w, "table", job[w])
         ELSE Leave(w)    \* already checkpointed, or CB24C002
    /\ UNCHANGED <<control, log>>

-----------------------------------------------------------------------------
(* The loop over the sorted tables of the plan. *)

(* Whether a table is the next one to do, from the worker's position on. *)
IsNext(w, table) ==
    /\ table \in job[w].table .. TableCount
    /\ table \in PlanTables(Txn(w))
    /\ \A u \in job[w].table .. table - 1 : u \notin PlanTables(Txn(w))

SkipTable(w) ==
    /\ pc[w] = "table"
    /\ \E table \in Tables :
         /\ IsNext(w, table)
         /\ receipts[Txn(w)][table] # Null
         /\ Goto(w, "table", [job[w] EXCEPT !.table = table + 1])
    /\ UNCHANGED <<control, log>>

TakeTable(w) ==
    /\ pc[w] = "table"
    /\ \E table \in Tables :
         /\ IsNext(w, table)
         /\ receipts[Txn(w)][table] = Null
         /\ Goto(w, "looking", [job[w] EXCEPT !.table = table])
    /\ UNCHANGED <<control, log>>

TablesDone(w) ==
    /\ pc[w] = "table"
    /\ ~ \E table \in Tables : IsNext(w, table)
    /\ Goto(w, "finishing", job[w])
    /\ UNCHANGED <<control, log>>

(* The coordinator looks for a snapshot with the token: it is there after a
   crash between the commit and its receipt. *)
LookToken(w) ==
    /\ pc[w] = "looking"
    /\ Goto(w, IF Landed(Txn(w), job[w].table) THEN "verifying" ELSE "applying", job[w])
    /\ UNCHANGED <<control, log>>

(* apply_table looks for it again, *)
LookAgain(w) ==
    /\ pc[w] = "applying"
    /\ Goto(w, IF Landed(Txn(w), job[w].table) THEN "verifying" ELSE "checking", job[w])
    /\ UNCHANGED <<control, log>>

(* checks the rows it will change (here a failure is repeated by every later
   attempt on the same rows), *)
CheckFails(w) ==
    /\ pc[w] = "checking"
    /\ ~MergeAllowed(Txn(w), job[w].table)
    /\ Leave(w)
    /\ UNCHANGED <<control, log>>

CheckPasses(w) ==
    /\ pc[w] = "checking"
    /\ MergeAllowed(Txn(w), job[w].table)
    /\ Goto(w, "merging", job[w])
    /\ UNCHANGED <<control, log>>

(* and merges: one atomic commit of the table as it is by then.  The mutant
   takes the logical digest from before the commit. *)
Commit(t, table) ==
    log' = [log EXCEPT ![table] = Append(@,
              [txn |-> t, rows |-> Merged(Rows(table), Changes(t, table))])]
MergeStaleDigest(w) ==
    /\ pc[w] = "merging"
    /\ Commit(Txn(w), job[w].table)
    /\ Goto(w, "recording", [job[w] EXCEPT !.digest = Rows(job[w].table)])
    /\ UNCHANGED control
Merge(w) ==
    /\ pc[w] = "merging"
    /\ Commit(Txn(w), job[w].table)
    /\ Goto(w, "verifying", job[w])
    /\ UNCHANGED control

(* verify_table: the logical digest of the table as it is now. *)
Verify(w) ==
    /\ pc[w] = "verifying"
    /\ Goto(w, "recording", [job[w] EXCEPT !.digest = Rows(job[w].table)])
    /\ UNCHANGED <<control, log>>

(* record_receipt: insert, or compare with the row that is there. *)
RecordReceipt(w) ==
    /\ pc[w] = "recording"
    /\ \E i \in DOMAIN log[job[w].table] :
         LET t == Txn(w)
             table == job[w].table
             receipt == [snapshot |-> i, digest |-> job[w].digest] IN
           /\ IsSnapshotOf(i, t, table)
           /\ IF receipts[t][table] = Null
                THEN receipts' = [receipts EXCEPT ![t][table] = receipt]
                ELSE UNCHANGED receipts
           /\ IF receipts[t][table] \in {Null, receipt}
                THEN Goto(w, "table", [job[w] EXCEPT !.table = table + 1, !.digest = Null])
                ELSE Leave(w)
    /\ UNCHANGED <<checkpoint, claims, tombstones, log>>

-----------------------------------------------------------------------------
RecordTombstones(w) ==
    /\ pc[w] = "finishing"
    /\ tombstones' = tombstones \cup Deleted(Txn(w))
    /\ Goto(w, "finalizing", job[w])
    /\ UNCHANGED <<checkpoint, claims, receipts, log>>

(* What finalize requires of the rows it reads.  It reads before it writes,
   but claims, receipts and frontiers only move forwards and the UPDATE
   compares revision and frontier again, so it succeeds exactly when this
   holds at its commit.  The mutant compares the revision only. *)
FinalizableByRevision(w) ==
    /\ \A table \in PlanTables(Txn(w)) : receipts[Txn(w)][table] # Null
    /\ checkpoint.revision = job[w].revision
Finalizable(w) ==
    /\ \A table \in PlanTables(Txn(w)) : receipts[Txn(w)][table] # Null
    /\ checkpoint.revision = job[w].revision
    /\ checkpoint.frontier = job[w].plan.manifest.previous

Finalize(w) ==
    /\ pc[w] = "finalizing"
    /\ claims[Txn(w)].state = "APPLYING"
    /\ Finalizable(w)
    /\ checkpoint' = [frontier |-> Txn(w), revision |-> checkpoint.revision + 1]
    /\ claims' = [claims EXCEPT ![Txn(w)].state = "CHECKPOINTED"]
    /\ Leave(w)
    /\ UNCHANGED <<receipts, tombstones, log>>

(* Already checkpointed by another worker: an idempotent answer; or refused. *)
FinalizeNothing(w) ==
    /\ pc[w] = "finalizing"
    /\ claims[Txn(w)].state = "APPLYING" => ~Finalizable(w)
    /\ Leave(w)
    /\ UNCHANGED <<control, log>>

(* A worker dies, or a statement or a commit of its own fails. *)
Crash(w) ==
    /\ pc[w] # "idle"
    /\ Leave(w)
    /\ UNCHANGED <<control, log>>

-----------------------------------------------------------------------------
Step(w) ==
    \/ ReadCheckpoint(w) \/ Claim(w) \/ Reclaim(w) \/ SkipTable(w) \/ TakeTable(w)
    \/ TablesDone(w) \/ LookToken(w) \/ LookAgain(w) \/ CheckFails(w) \/ CheckPasses(w) \/ Merge(w)
    \/ Verify(w) \/ RecordReceipt(w) \/ RecordTombstones(w) \/ Finalize(w) \/ FinalizeNothing(w)

Next ==
    \E w \in Workers : (\E p \in Plans : Begin(w, p)) \/ Step(w) \/ Crash(w)

Spec == Init /\ [][Next]_vars

-----------------------------------------------------------------------------
(* Properties. *)

Done == {t \in Txns : claims[t] # Null /\ claims[t].state = "CHECKPOINTED"}
TablesOf == [t \in Txns |-> {c.table : c \in History[t]}]
LandedPairs ==
    {q \in Txns \X Tables : \E i \in DOMAIN log[q[2]] : log[q[2]][i].txn = q[1]}

(* The checkpoint comes last: a transaction counts as checkpointed only when
   every table it changes has a durable receipt (finalize). *)
CheckpointBehindReceipts ==
    \A t \in Done : \A table \in TablesOf[t] : receipts[t][table] # Null

(* A receipt names a snapshot that this very transaction committed to this
   table, whoever committed it and whoever recorded it (record_receipt). *)
ReceiptsHaveSnapshots ==
    \A t \in Txns, table \in Tables :
        receipts[t][table] # Null =>
            /\ receipts[t][table].snapshot \in DOMAIN log[table]
            /\ log[table][receipts[t][table].snapshot].txn = t

(* The revision counts the checkpointed transactions, none of them is ahead
   of the frontier, and once it has moved the frontier is one of them
   (finalize's compare-and-swap). *)
FrontierIsLast ==
    checkpoint # Null =>
        /\ checkpoint.revision = Cardinality(Done)
        /\ \A t \in Done : t <= checkpoint.frontier
        /\ checkpoint.revision > 0 => checkpoint.frontier \in Done

(* With plans run in source order by one worker at a time, a table holds the
   rows of the source at the frontier, or one transaction later where the
   next transaction has already landed: crashes, retries and recovery by
   token never lose, repeat or reorder a change (apply_transaction). *)
RowsTrackFrontier ==
    \A table \in Tables :
        Rows(table) = SourceRows[IF <<Frontier + 1, table>> \in LandedPairs
                                   THEN Frontier + 1 ELSE Frontier][table]

(* What one worker at a time leaves behind is exact, wherever it died: a table
   has one snapshot per token; a receipt has the digest of the table right
   after the transaction, even when a later attempt recorded it; every row a
   checkpointed transaction deleted has a tombstone, and no other row has
   one, nor before all the receipts of its transaction. *)
RecordsExact ==
    /\ \A table \in Tables : \A i, j \in DOMAIN log[table] :
         log[table][i].txn = log[table][j].txn => i = j
    /\ \A t \in Txns, table \in Tables :
         receipts[t][table] # Null => receipts[t][table].digest = SourceRows[t][table]
    /\ \A t \in Done, table \in Tables, k \in Keys :
         SourceRows[t - 1][table][k] # Null /\ SourceRows[t][table][k] = Null
            => [txn |-> t, table |-> table, key |-> k] \in tombstones
    /\ \A s \in tombstones :
         /\ SourceRows[s.txn - 1][s.table][s.key] # Null
         /\ SourceRows[s.txn][s.table][s.key] = Null
         /\ \A table \in TablesOf[s.txn] : receipts[s.txn][table] # Null

(* Partial progress is recoverable: while a transaction has landed somewhere
   and is not checkpointed, the frontier its plan starts from can still be the
   checkpoint (finalize accepts no other, and frontiers only grow). *)
ProgressIsRecoverable ==
    \A t \in Txns :
        (claims[t] # Null /\ t \notin Done /\ \E table \in Tables : <<t, table>> \in LandedPairs)
            => checkpoint.frontier <= claims[t].plan.manifest.previous

(* The checkpointed transactions are a prefix of the source's.  The code keeps
   this only if the first plan is the first (see Disagreements in the README). *)
ContiguousChain == \A t \in Done : 1 .. t \subseteq Done

(* What makes the properties above inductive: a worker holds a plan and has
   found a checkpoint, from claiming on the claim of its transaction is its
   plan's, and the table it is at is one of its transaction's. *)
WorkerSound(w) ==
    /\ pc[w] # "idle" => job[w].plan # Null /\ checkpoint # Null
    /\ pc[w] \notin {"idle", "opened", "claiming"} =>
         claims[Txn(w)] # Null /\ claims[Txn(w)].plan = job[w].plan
    /\ pc[w] \in {"looking", "applying", "checking", "merging", "verifying", "recording"} =>
         job[w].table \in TablesOf[Txn(w)]
    /\ pc[w] = "recording" => job[w].digest # Null
WorkerInv == \A w \in Workers : WorkerSound(w)

(* Nothing is claimed before there is a checkpoint. *)
ClaimsNeedCheckpoint == (\E t \in Txns : claims[t] # Null) => checkpoint # Null

IInv ==
    /\ TypeOK
    /\ WorkerInv
    /\ ClaimsNeedCheckpoint
    /\ CheckpointBehindReceipts
    /\ ReceiptsHaveSnapshots
    /\ FrontierIsLast

(* What holds besides where one worker at a time runs plans in source order.
   The checkpointed transactions are those up to the frontier, a call past its
   claim is at the next one, and what it is about to merge has not landed. *)
OneInTurn == InTurn /\ \A v, w \in Workers : v = w

Past(w) == pc[w] \notin {"idle", "opened", "claiming"}
Here(w) == <<Txn(w), job[w].table>>
TurnSound(w) ==
    /\ pc[w] # "idle" => Txn(w) <= Frontier + 1
    /\ pc[w] \in {"opened", "claiming"} => job[w].table = 1
    /\ Past(w) => Txn(w) = Frontier + 1
    /\ pc[w] \in {"checking", "merging"} => Here(w) \notin LandedPairs
    /\ pc[w] = "merging" => MergeAllowed(Txn(w), job[w].table)
    /\ pc[w] \in {"verifying", "recording"} => Here(w) \in LandedPairs
    /\ pc[w] = "recording" => job[w].digest = SourceRows[Txn(w)][job[w].table]
    /\ Past(w) => \A table \in TablesOf[Txn(w)] :
         table < job[w].table \/ pc[w] \in {"finishing", "finalizing"}
            => receipts[Txn(w)][table] # Null
    /\ pc[w] = "finalizing" => Deleted(Txn(w)) \subseteq tombstones

(* A transaction that was merged was as the source had it: its before images
   are the rows it met, and it changes a row once. *)
FitsSource(t, table) ==
    /\ \A c \in Changes(t, table) : c.before = SourceRows[t - 1][table][c.key]
    /\ \A c, d \in Changes(t, table) : c.key = d.key => c = d
LandedInTurn ==
    \A t \in Txns, table \in Tables : <<t, table>> \in LandedPairs =>
        t <= Frontier + 1 /\ table \in TablesOf[t] /\ FitsSource(t, table)

TurnInv ==
    /\ Done = 1 .. Frontier
    /\ LandedInTurn
    /\ \A w \in Workers : TurnSound(w)
    /\ RowsTrackFrontier
    /\ RecordsExact

(* The source is a database, and each of its transactions comes in a manifest of
   its own. *)
SourceFits == \A t \in Txns, table \in Tables : FitsSource(t, table)
OneByOne == \A m \in Manifests : m.terminal = m.previous + 1

(* No check of the coordinator, the control store or the adapter refuses the
   transaction after the frontier, whatever earlier attempts have left behind:
   only a death ends its call before it is checkpointed. *)
NextIsNotRefused ==
    \A w \in Workers : pc[w] # "idle" /\ Txn(w) = Frontier + 1 =>
        /\ pc[w] = "opened" => checkpoint.frontier = job[w].plan.manifest.previous
        /\ pc[w] = "claiming" =>
             claims[Txn(w)] \in {Null, [plan |-> job[w].plan, state |-> "APPLYING"]}
        /\ pc[w] = "checking" => MergeAllowed(Txn(w), job[w].table)
        /\ pc[w] = "recording" =>
             /\ \E i \in DOMAIN log[job[w].table] : IsSnapshotOf(i, Txn(w), job[w].table)
             /\ receipts[Txn(w)][job[w].table] = Null
        /\ pc[w] = "finalizing" => claims[Txn(w)].state = "APPLYING" /\ Finalizable(w)

(* What that rests on: a claim is of its own transaction, the revision that is
   expected is the checkpoint's, and a table is taken that has no receipt. *)
NextSound ==
    /\ \A t \in Txns : claims[t] # Null => claims[t].plan.txn = t
    /\ \A w \in Workers :
         /\ pc[w] \notin {"idle", "opened"} => job[w].revision = checkpoint.revision
         /\ pc[w] \in {"looking", "applying", "checking", "merging", "verifying", "recording"} =>
              receipts[Txn(w)][job[w].table] = Null

(* What CDC apply implements. *)
Abstract == INSTANCE AppliedPrefix WITH
    Starts <- {m.previous : m \in Manifests},
    None <- Null,
    frontier <- IF checkpoint = Null THEN Null ELSE checkpoint.frontier,
    landed <- LandedPairs,
    done <- Done

(* Transactions land table by table and the frontier moves, forwards only, to
   transactions that have landed everywhere. *)
ImplementsAppliedPrefix == Abstract!Spec

(* A call that has begun goes on unless its worker dies, every plan is run
   again and again (runbook.md, step 8), and workers stop dying in the end:
   from some time on every step is one of the code. *)
Fairness ==
    /\ \A w \in Workers : WF_vars(Step(w)) /\ \A p \in Plans : SF_vars(Begin(w, p))
    /\ <>[][\E w \in Workers : (\E p \in Plans : Begin(w, p)) \/ Step(w)]_vars
FairSpec == Spec /\ Fairness

(* Every transaction is checkpointed in the end, wherever workers died. *)
EventuallyCheckpointed == \A t \in Txns : <>(t \in Done)
=============================================================================
