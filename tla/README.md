# ChangeBridge in TLA+

Specifications of the ChangeBridge CDC migration platform
(`src/changebridge`), the TLC runs that check them on small instances and the
theorems about them that TLAPS checks for all instances. Paths below are
relative to the repository unless they are files of this directory.

## 1. The system

ChangeBridge moves PostgreSQL tables into Iceberg *generations*: a generation
is loaded from a snapshot, brought forward by whole source transactions, sealed
at a frontier, proven by a fixed set of reconciliation gates, and published by
moving one revisioned pointer per product. Every control component is a class
over its own SQLite file (WAL, autocommit unless a transaction is opened), and
a component may be driven by several processes, each with a connection. What
is hard is what happens between those commits: reads made before a transaction
and used in it, two stores that commit separately (a control database and
Iceberg), crashes between them, retries, replays under the same identity, and
sequences of legal calls across components that no single test writes down.

| Component (file) | State it keeps | Operations | Hard behaviour | Correct when |
|---|---|---|---|---|
| Publication store (`publication.py`) | revision clock, active pointer, generations, attempts, events, pins, runs | initialize, register, publish, fallback, rollback, reconcile, pin, eligibility, run transitions | compare-and-swap races, lost acknowledgement, reads outside transactions | the route changes only by CAS, the ledger is its history, an answer is the receipt of the request |
| Publication orchestrator and consumer (`publication_orchestrator.py`, `consumer.py`) | orchestration run (in the store), pin and resolution results | publish_and_verify, fallback | several store calls per run, crash and retry between them, concurrent runs | a run that is ACTIVE verified what it published; a run ends |
| CDC coordinator and control store (`cdc_apply.py`, `cdc_control.py`) | checkpoint, claimed transactions, table receipts, tombstones | apply_transaction | two stores, crash after a table commit, replays, several workers | each table transaction once, checkpoint only behind all receipts, frontier in order |
| Iceberg CDC adapter (`iceberg_cdc.py`) | table snapshots with tokens, rows | apply_table, snapshot_for_token | check then commit, recovery by token | one snapshot per token, rows are those of the applied prefix |
| Transaction assembly and ordering (`transaction_assembler.py`, `cdc_ordering.py`) | none | build_apply_manifest, assemble_transactions, ordered_events | boundary positions, gaps, duplicates, incomplete transactions | every event in exactly one plan, in source order |
| Generation registry (`generation_registry.py`) | generation state, shards, target commits, admission proofs | register, transition, claim, commit, admit | leases and races of loaders, replay after admission | states move along the lifecycle; a shard is committed once |
| Snapshot loader and Iceberg snapshot adapter (`snapshot_loader.py`, `iceberg_snapshot.py`) | Iceberg snapshots, shard rows in the registry | load_shard, admit_snapshot | two stores, check then append | admission counts each shard's rows once |
| Proof control and gates (`proof_control.py`, `proof_gates.py`) | candidate, seal, attempt, gate records | register_candidate, seal, begin_proof, record_gate, seal_manifest | reads before writes, gate races, restarts | a proven candidate has every gate passed on its seal; states do not go back |
| Schema control, policy, migration, admission, Iceberg schema adapter (`schema_control.py`, `schema_policy.py`, `schema_migration.py`, `schema_admission.py`, `iceberg_schema.py`) | decisions, quarantines, rejections, receipts | record_decision, open_quarantine, reject_generation, apply, require_admission | two stores, retry after a crash, several decisions in a row | rows of a schema are admitted only behind an applied decision |
| SQLite oracle engine (`engine.py`, `model.py`, `cutover.py`, `reconciliation.py`, `schema.py`) | generations, rows, quarantine, active pointer | create, load, apply_batch, mark_ready, activate | checks outside the transaction | a failed batch changes nothing; the active generation is stable |
| Reference applier (`reference_cdc.py`) | rows and tombstones in memory | apply | duplicates, tombstones | equal to the adapter |
| Hierarchical reconciliation (`hierarchical_reconciliation.py`) | none | reconcile | partition digests that agree while rows differ | reports a difference exactly when rows differ |
| Source boundary (`source_boundary.py`) and source laboratory (`scripts/run_stage21_postgres_lab.py`, `scripts/stage21_postgres_adapter.py`) | PostgreSQL schema, slot and commits, two writer threads, receipt | execute workload, create slot, import, decode, validate, clean up | threads and timeouts, other clients, failing statements, kills | snapshot and stream fit without gap or overlap; nothing waits for ever |
| Contracts (`contracts.py`) | none | compare positions, classify_replay, publication_verdict | order and boundaries | total order, consistent verdicts |
| Normalizer (`normalizer.py`) | an output bundle on disk | normalize_manifest, write_bundle_atomic | duplicates, quarantine | every record is normalised or quarantined, once |
| Release evidence (`scripts/build_stage2*_evidence.py`, `build_stage32_evidence.py`, `validate_part2_stage*.py`, `validate_part3_stage2.py`) | an evidence directory per stage, in git | build, validate, freeze, merge | a builder dies between files, later edits, evidence changed after its merge | a green gate speaks for a finished build, and later work keeps it green |
| Snapshot hand-off (`snapshot_handoff.py`), source workload (`source_workload.py`), simulator (`simulator.py`) | files, generated data | build, verify, generate | - | deterministic |
| CLI, canonical JSON, oracle reports (`cli.py`, `canonical.py`, `oracles.py`), authority validators (the other `scripts/`), `jobs/`, `infra/`, `deployment/` | none of their own | entry points, validators, evidence builders, provisioning | - | not modelled |

Interactions: the snapshot loader and the CDC coordinator write Iceberg and
record it in the generation registry and the control store; proof control seals
a candidate at the control store's frontier; the orchestrator publishes what
proof control has proven through the publication store; consumers pin through
the publication store. The registry, the control stores and Iceberg never share
a transaction.

## 2. Plan

In order of importance; each module is written to be proved about (parameters
as CONSTANTS, one action per operation, invariants as named conjunctions, no
RECURSIVE operators).

1. `Publication` with the abstract `RouteRegister`, and `PublicationProofs`. *Done.*
2. `CdcApply`: coordinator, control store and Iceberg tables together, with the
   crash points between their commits; abstract `AppliedPrefix`;
   `CdcApplyProofs`. *Done.*
3. `ProofControl` with the abstract `ProofLifecycle`; `ProofControlProofs`,
   with the refinement. *Done.*
4. `Orchestrator`, composing `Publication` with runs, consumer verification and
   retries; its theorems stand in `PublicationProofs`. *Done.*
5. `SnapshotLoad`: registry, shards, target commits, admission, Iceberg appends;
   abstract `AdmittedSnapshot`; `SnapshotLoadProofs`. *Done.*
6. `SchemaControl` with the policy, the Iceberg schema adapter and admission;
   `SchemaControlProofs`. *Done.* A `Pipeline` composing apply, sealing and
   rejection is not written: no code ties these stores to each other (see
   Not modelled).
7. `Engine`: the SQLite oracle; abstract `SourceReplay`; `EngineProofs`. *Done.*
8. `Intake`: normaliser, assembly, reference applier and reconciliation as one
   pipeline over a transport that loses, repeats and alters; its theorems stand in
   `SourceProofs`. *Done.*
9. `SourceCapture`: the source laboratory with its threads, slot and boundary;
   `SourceProofs`. *Done.*
10. `EvidenceChain`: builders, validators and gates of the release evidence;
    `EvidenceChainProofs`. *Done.*
Every invariant, action property and refinement of the passing runs is stated by
a theorem. What is left to TLC alone is liveness; each section names it at its
end.

### Conventions of all modules

A process, session, worker or connection is a caller with a program counter
`pc` and what it has read so far (`req` and `view`, `job`, `row`). A read
outside a transaction is a step of its own; a `BEGIN IMMEDIATE ... COMMIT`
block, an UPDATE with its WHERE, and a commit to one Iceberg table is one step.
SQLite's isolation and the atomicity of one Iceberg commit are taken as given.
A death ends a call between any two steps and leaves what was committed.

Four modules have a variable `alone` that is chosen at the beginning and never
changes: where it is true, operators run one process at a time, which may die
anywhere and be started again, and otherwise processes race. So one run checks
what holds of any number of racing processes together with what holds only of
one at a time (properties that say `alone => ...`), and a theorem states both.

Operators whose comment begins with "Mutant" are not part of a model: each is
a definition that follows with a plausible mistake in it, kept to show that the
property it belongs to notices the mistake. No action refers to them.

## 3. Publication store

`Publication.tla` models `PublicationStore`. Each table is a variable (`clock`,
`pointer`, `attempts`, `events`, `pins`; the columns of `generations` that
change are `state`, `ever` and `barred`, the set of the flags retained,
readable, retired, evidence_valid that are against the generation). `pc` is
where a session's call stands, `req` its request, `view` what it has read
outside a transaction.

Publish, fallback and rollback are two steps: the look for an earlier attempt
(`Submit...`) and the transaction (`Publish`, `FirstPublicationFallback`,
`Rollback`, `Refuse`). `reconcile_attempt` and `pin` read the clock and the
pointer in separate steps. `Acknowledge` either returns the receipt or raises
AmbiguousPublication after the commit. `Crash` ends a call at any point.

Abstractions: digests are injective, so a request stands for its digest; table
maps and proofs of a generation never change and are left out;
`reconcile_attempt` is called after an ambiguous outcome only, as the
orchestrator does. `MaxRevision` bounds the expected revisions callers name.

`RouteRegister.tla` is what the store promises: one route per product and a
revision that counts its changes; a generation enters by Publish once, may come
back by Rollback until a rollback withdraws it. `ImplementsRouteRegister` maps
the pointer to the route, the clock to the revision, `ever_published` to
`used`, and state ROLLED_BACK to `withdrawn`.

Run `pub_race` (2 products that share 2 generations, 4 attempts, 2 sessions,
1 pin, 1 flag, expected revisions to 3): under every interleaving of two callers
the event ledger replays to the pointer, an answer is the receipt of the very
request, a pin is never older than its revision, a generation that one product's
rollback took out of service is routed to by no product again
(`WithdrawnStaysOut`), and the store implements `RouteRegister`. `Explored` keeps
the run small: one product is followed through the three revisions it takes to
publish, publish again and roll back (or fall back and publish again), and
through two with a pin or with a flag in play; two products through two
revisions each, which is what one needs to roll back to what the other has
withdrawn. One flag stands for the four, since the code only takes their
conjunction. Deadlock is not checked: with all attempts used and no flag to
change, the store rightly stops.

`PublicationProofs.tla` proves, for any constants with `MaxRevision` a positive
natural number and `Null` outside the other sets: `IInv` is invariant, hence
`TypeOK`, `PointerClockAgreement`, `LedgerReplaysToPointer`, `ReceiptsBacked`,
`AnswersTruthful`, `PublishedOnce` and `PinNeverOlder`; the action properties
`RouteChangesByCAS` and `WithdrawnStaysOut`; and the refinement
`ImplementsRouteRegister`. So nothing of `pub_race` is only model-checked.

The argument: lemma `StepKinds` reduces `Next` to commits (`CommitBy`), quiet
steps and four administrative writes; only a commit changes a route, an attempt
or the ledger (`RouteSameOrCommit`), and `CommitFacts` says what it writes.
`IInv` adds to the safety properties what makes them inductive:
`ServedWasPublished` (needed to know that a rollback withdraws a generation
that was published) and what a session holds between its reads: its own receipt
once it has committed; a clock that was true when read and is not ahead now;
for a pin about to be inserted, a generation that served at its revision or
later. `Growth` (rows are never lost, revisions never decrease) carries the last
two across other sessions' steps. `WithdrawnStaysOut` speaks of the ledger before
and after a step; its invariant is `WithdrawnMarked`, that the generation a
rollback event left is ROLLED_BACK, a state no step of any product takes away.

## 4. Orchestrator and consumer

`Orchestrator.tla` EXTENDS `Publication`: a session is now a process that
executes `publish_and_verify` or `fallback`, and a store call it makes is the
sequence of Publication's own steps for that call. `runs` is the table
orchestration_runs, `play` the call, `at` where it stands, `row` the run as last
read. `Moves` is the table of transitions each part of a call makes;
`ReadRun`/`Transition`/`StaleRun` are `transition_run`, `Submit` and `StoreCall`
the call of the store with its refusals and its reconciliation, `Resolve` is
`resolve_and_verify`, `Die` and `Abandon` the end of a process.

Run `orch`: one product, two publications in runs of their own, the second over
the first, and a fallback of the first run whose attempt identity is also that
of the second publication; either of two processes may make the first call,
again and at the same time. Checked: `RunStatesBacked` (VERIFYING means
committed; ACTIVE means that after the commit a consumer resolved the product
to a generation; SOURCE_FALLBACK_VERIFIED that after the fallback one resolved
it to the source), `RunAheadOfRoute` (no publication moves a pointer before its
run says PUBLISHING), and liveness, `PublishedRunEnds`. Two runs and two
processes are what a step of another run between any two steps of one's own
takes.

Fairness: a call that has begun goes on (`WF` of `Advance`); operators make a
publication again and again (`SF` of its calls: the runbook has them run the
orchestrator again with the same identities); processes stop dying at some time
(`<>[][Live]`). Nothing is assumed of the outcome of a store call. Deadlock is
not checked: bounded pins and attempts end the run.

The second half of `PublicationProofs.tla` proves, for any sessions, runs and
calls that meet `PlayAssumption` (a publication asks the store to publish, a
fallback to fall back), `RunStatesBacked` and `RunAheadOfRoute`, and first that
the composition is no more than it says: `OrchestratorUsesStore` (every
behaviour of the orchestrator is one of the store), by which all invariants
proved of the store hold here too. `OrchInv` adds to the two properties what a
call in the middle has behind it: a store call is under way only where the code
makes one (`StoreSound`); past it, the attempt's receipt is there, a pin about
to be written was read no earlier than the call's own commit, and a call that
verified has its pin (`CallSound`); a publication is sent only once its run has
left PLANNED and ELIGIBLE (`RunSound`); a row as last read is the run's, or the
run has a later revision by now (`RowSound`), which is why a transition decided
on a stale row cannot take a run anywhere. Attempts, pins and events are never
lost and runs only go forward (`Growth`, `PinsKeptStep`, `ForwardStep`), and so
what one call knows outlives the steps of the others. Only model-checked:
`PublishedRunEnds`.

What the model shows besides: publish raises on a refusal and leaves the run in
PUBLISHING, and no call but its own repetition takes it further; a publication
that is overtaken by a fallback resolves to the source, has no verification
digest and leaves its run in VERIFYING, which is why `PublishedRunEnds` excludes
products that were routed on.

## 5. CDC apply

`CdcApply.tla` models `CDCApplyCoordinator.apply_transaction` on one generation
with the two stores it writes: the control store (`checkpoint`, `claims`,
`receipts`, `tombstones`, one variable per table) and the Iceberg tables
(`log`, the sequence of snapshots of each table, each with its token, its
transaction and the rows it leaves). The actions follow the code from top to
bottom:

| Action | Code |
|---|---|
| `Begin`, `ReadCheckpoint`, `Claim`, `Reclaim` | initialize_checkpoint, claim |
| `SkipTable`, `TakeTable` | the loop over tables; a table with a receipt is skipped |
| `LookToken`, `LookAgain` | the two looks for the commit token |
| `CheckPasses`, `CheckFails`, `Merge` | before images, MERGE as one Iceberg commit |
| `Verify`, `RecordReceipt` | digest of the table, receipt |
| `TablesDone`, `RecordTombstones`, `Finalize`, `FinalizeNothing` | tombstones, then checkpoint in a transaction of its own |
| `Crash` | the process dies, or a caller gives up, between any two of these |

The source is a constant `History` of transactions with before and after
images; `Plans` is what `assemble_transactions` makes of a transaction and the
manifest it arrives in, with the frontier of the manifest's start for every
plan. `InTurn` is a switch for the environment: operators run plans in source
order (runbook, step 5), or any plan at any time. Not represented: the injected
faults as such (they are crashes), a generation in another state than
CDC_APPLYING (the registry never leaves it), and digest comparisons that cannot
fail with injective digests.

`AppliedPrefix.tla` is the promise: transactions land table by table, and the
frontier moves forwards only, to a transaction all of whose tables have landed.
`ImplementsAppliedPrefix` maps the checkpoint to the frontier, snapshots with a
token to landed pairs, CHECKPOINTED claims to `done`.

| Run | Instance | Shows |
|---|---|---|
| `cdc_recovery` | 3 transactions, 2 tables, 2 keys, one worker, in turn, crashes anywhere | rows are those of the source at the frontier (plus what has landed of the next transaction); one snapshot per token; receipts and tombstones are exact; all is checkpointed in the end |
| `cdc_workers` | 2 transactions, 2 tables, 2 workers, overlapping manifests, any order | the inductive invariant (checkpoint behind receipts among it), refinement |
| `cdc_wedge` | one worker, a manifest of all three transactions | a violation: see Findings |

`ThreeTransactions` has every kind of change, a transaction on both tables, an
update that changes nothing and a row deleted and inserted again. `BackAndForth` changes a row and changes it
back, which is what lets a late MERGE pass its before-image check. What one
worker guarantees is checked with one worker; what two workers cannot break is
checked with two, enough for a step of another between any two of one's own.

Fairness of `cdc_recovery`: a call that has begun goes on (`WF` of `Step`),
every plan is run again and again (`SF` of `Begin`; the runbook has operators
replay, step 8), and workers stop dying at some time.

`CdcApplyProofs.tla` proves for any number of workers, transactions, tables,
keys and manifests, from `SourceAssumption` (the types of the source; an event
has an image before or after, as `normalizer.py:333` demands; a transaction that
inserts a key twice deletes it in between, as any database makes it),
`ManifestAssumption` (an interval has positive length) and `NullAssumption`:
`IInv`, `TypeOK`, `CheckpointBehindReceipts`, `ReceiptsHaveSnapshots`,
`FrontierIsLast`, and the refinement of `AppliedPrefix`. `IInv` adds to the
properties what a worker in mid-call holds (`WorkerSound`: a plan and a
checkpoint; past the claim, the claim of its plan; a table of its transaction;
the digest it is about to record) and that no claim exists before a checkpoint
(`ClaimsNeedCheckpoint`). Lemma `Growth` says that claims, receipts and
snapshots only grow, which carries each worker's part across the steps of the
others; `FrontierStep` uses that `finalize` compares the frontier and the
revision in its own transaction, the reason why the revision read at the start
does no harm when it is stale.

Under `OneInTurn` (one worker at a time, plans in source order, as
`cdc_recovery` has it) it also proves `RowsTrackFrontier` and `RecordsExact`, for
any source and any manifests: the source need not be consistent, since changes
that do not fit the rows are refused by the check of the before images. The rows of
the source are stated through the last transaction that changes a key, so
that a step from one transaction to the next needs no induction (`SourceNext`).
`TurnInv` adds that the checkpointed transactions are exactly those up to the
frontier, hence a call past its claim is at the next one; that nothing else has
landed ahead, and that what has landed met the rows it expected
(`FitsSource`); and for the worker, that what it is about to merge has not landed
and may be merged, that a digest about to be recorded is that of the source's
rows, and that the tables behind it have receipts. `MergedIsSource` is the heart:
a MERGE whose before images fit turns the source's rows before its transaction
into those after it. `TurnInv` is needed for all of it: `RowsTrackFrontier` alone
allows a call that merges a transaction behind the frontier.

Where in addition each transaction comes in a manifest of its own (`OneByOne`) and
the before images fit the rows (`SourceFits`, as in any database), theorem
`NextGoesThrough` says that the transaction after the frontier is refused by no
check of its call, whatever earlier attempts have left behind: not by the start of
its plan, the claim, the before images, the receipt (whose snapshot is in the log)
or `finalize`. This is the safety half of `EventuallyCheckpointed`, for
every source. `NextSound` adds that a claim is of its own transaction, that the
revision a call carries is the checkpoint's, and that a table that is being
applied has no receipt. `OneByOne` alone gives `OneByOneRecovers`, that partial
progress stays recoverable (`ProgressIsRecoverable`), which manifests of several
transactions violate (section 13). Both need `OneInTurn`: with several workers at
once, a call is refused when another one has moved the frontier.

Only model-checked: `EventuallyCheckpointed`, a liveness property.

## 6. Snapshot loading and admission

`SnapshotLoad.tla` models `load_shard`, `admit_snapshot` and the driver's first
transition over the registry (`generation`, `shards`, `commits`, `proof`, one
variable per table of `generation_registry.py`) and the Iceberg tables (`log`:
the inputs appended to a table, in order). A worker executes one call; its
actions in the order of the code: `ClaimState`, `ClaimLook`, `ClaimInsert`
(claim_shard), `MarkRead`, `MarkWrite` (mark_shard_state, whose UPDATE asks for
the state read but does not look whether it found it), `LookToken`, `Write`,
`Verify` (append_snapshot and verify_table), `LedgerLook`, `LedgerInsert`
(record_target_commit), then `CheckShards`, `CheckRows`, `CheckCount`,
`ProofLook`, `ProofInsert`, `ReadRevision` (admit_snapshot) and
`TransitionRead`, `TransitionWrite`. An input stands for its events, key, token,
count and digest; each table is one shard. A replay of a load after admission is
refused by `claim_shard`, which wants SNAPSHOT_LOADING.

`AdmittedSnapshot.tla` is the promise: rows land, tables are reconciled,
the generation is admitted once all are, and nothing is taken back.

Run `load` (2 tables, the source's input and another one, 2 workers, at most 2
appends to a table): `LedgerBacked` whatever workers race, die or come late;
`OnceIfAlone` (one process at a time, dying anywhere, appends once, and an
admitted generation holds exactly the source's snapshot); `EventuallyAdmitted`
and the refinement. Two appends are what a duplicate takes. Without `alone` two
loaders of one shard may both find no token and append twice; verification then
fails for ever and nothing is admitted, so the rows are wrong in a generation
that cannot be served.

Fairness: `WF` of a begun call, `SF` of the call the registry shows to be next,
processes stop dying at some time. `EventuallyAdmitted` excepts a shard claimed
for another input, since a claim is never given back.

`SnapshotLoadProofs.tla` proves, for any tables, inputs and workers,
`LedgerBacked`, `OnceIfAlone` and the refinement, from `SnapInv`: the ledger,
`AloneSound`, and `WorkerSound` of every worker (what it has read is still so
when it goes by it). The lemmas on advances (rows are only added, commits once
recorded stay, shard states move along `ShardMoves`) carry a worker's part
across the steps of others. Only model-checked: `EventuallyAdmitted`.

## 7. Schema control

`SchemaControl.tla` models schema changes of one generation: the policy, as a
function of two field lists (`Verdict`); the coordinator's `execute` over the
control store (`decisions`, `quarantines`, `rejection`, `receipts`) and the
Iceberg table metadata (`target`: columns, apply token, metadata location); and
policy-bound assembly with its three admission reads for every event. There is
one `target`: the adapter writes `stage25.rehearsal.orders`
(`iceberg_schema.py:49`) whatever table a decision is of.
`LookToken`, `Commit`, `SeeCommit`, `SaveReceipt` are the compatible path,
`ReadMetadata`, `OpenQuarantine`, `RejectGeneration` the other one,
`ReadRejection`, `ReadQuarantines`, `ReadAdmission`, `HandOver` are
`require_admission` and the hand-over of the plans. `DataCommit` is a data
commit of others, which moves the metadata location and nothing else.

Run `schema` (2 source tables, 4 changes: for each a compatible one, one
incompatible, one to an unknown contract; 2 workers, 2 events): every receipt is
of a decided change that preserves all rows; alone, a receipted change describes
exactly the columns of the target table; a call that begins once the generation is
quarantined or rejected gets no plan; a change that reached the table gets its
receipt. Two workers and two compatible changes are what it takes to overwrite
a token; two events are what it takes to look twice.

What the model shows besides, and the properties allow for: two compatible
changes that race overwrite each other's token, since the commit does not look
again, although docs/part2/stage5/FAILURE_MODES.md has "Stop; no overwrite" for
CB25I004 (hence `# d` in `CommittedIsReceipted`); apply never compares the
decision's table or its `previous` with the table it changes (hence the condition
on `previous` in `AloneReceiptsTarget`): a change of another table adds its column
to the orders table, and the next change of any table is a conflict; a candidate equal to its previous is
COMPATIBLE and refused by the adapter; a receipt is refused again (CB25C004)
after any data commit; two decisions for one candidate violate a UNIQUE
constraint at the second receipt; no quarantine is ever closed.

Fairness: `WF` of a begun call, `SF` of the repetition of a change that is on
its table without a receipt, processes stop dying at some time. Deadlock is not
checked: metadata locations are bounded.

`SchemaControlProofs.tla` proves, for any tables, contracts and changes that
meet `ContractAssumption`: `PolicyPreservesRows` (under a COMPATIBLE verdict
every row of the old contract reads as a row of the new one, with all its
columns: the policy's rules are sufficient), `ReceiptsPreserveRows`,
`NoLatePlan` and `AloneReceiptsTarget`, from `SchemaInv`, which adds what a
worker has decided and seen (`WorkerSound`), that a token is a compatible
change's whose columns are there (`TokenSound`) and what holds alone
(`AloneSound`). Only model-checked: `CommittedIsReceipted`.

## 8. SQLite oracle engine

`Engine.tla` models `ChangeBridgeEngine` on one database file with several
connections, and the cutover that the simulator makes of it: `LoadSnapshot`,
`CountRecords`, `InsertSnapshot`; `ReadGeneration`, `LookBatch`, `CommitBatch`
(apply_batch: status, frontier and earlier answers are read before BEGIN
IMMEDIATE and not again in it); `Gate`, `MarkReadyRead`, `MarkReady`,
`ActivateRead`, `Activate`. Batches are the source's own transactions between
two positions, or altered ones that bring an earlier transaction again with
other contents.

Run `engine` (2 generations, one of which gets only its snapshot, 3
transactions, 6 overlapping, replayed and altered batches, 2 connections, 2
activations): rows are always those of a prefix of the source's log, only a
gated generation is served, a generation catches up, and the engine implements
`SourceReplay`: readers see the source at one commit position that only grows,
although `current_lsn` itself may go back when two batches race. The instance
has a tombstone that is overwritten, and batches of one and of two transactions
from every position.

Fairness: as above; the call made again and again is a batch of the source's
that starts at the frontier. Deadlock is not checked: activations are bounded.

`ActiveIsReady` is about connections that are used one at a time, and about
those that race while the snapshot has a row (`LateLoadFails`): a load that
comes late then violates the primary key. With an empty snapshot nothing stops
it, and it takes a ready generation, even one that is served, back to candidate
(Ready taken back, under Disagreements). The other properties have no such
condition; a generation without rows counts as one at position 0, whether or not
its empty snapshot is in (`Reached`).

`EngineProofs.tla` proves the two invariants and the refinement for any source,
its snapshot empty or not, batches that are the source's or altered, generations and connections. The
heart of `EngineInv` is that a connection about to commit
(`ConnectionSound`) read a frontier whose transactions are all applied, and
nothing applied is taken back, so the batch may be stale and still extends a
prefix. `OneCall` is what it takes where connections are used one at a time: what
a load has read of the status is still so when it inserts. Only model-checked: `CatchesUp`.

## 9. Intake: from landed files to proven rows

`Intake.tla` follows one landing through `validate_manifest`, the loop of
`normalize_manifest`, `write_bundle_atomic`, `build_apply_manifest`,
`assemble_transactions`, `ReferenceCDCStore.apply` and reconciliation. The
transport may list objects in any order and number, lose records, repeat them,
and mix in strays: an altered image, a record from before the interval, one of
another generation, one in another's place. `Assemble` takes a manifest built
from the source's history or from the bundle itself. `Die` leaves a temporary
directory that nobody reads.

`Publish` is the rename alone: a bundle with quarantined records may then lie
there, also after its process died before its exit code said so
(`cli.py:61-63`). What keeps it from assembly is the hand-off
(`normalize_full_handoff`, CBH005), a step of its own that every run takes
anew (`HandOff`). The code has that check where it normalises: the fixtures of
assembly are written behind it (`build_stage23_fixtures.py:24-25`), and the
assembler itself does not look at `quarantine.json`. A caller that fed it the
command line's bundle would have to look at the exit code or at that file.

`stage` is where the process stands. Each record read is a step; the order in
which they come is the transport's, so every order is explored. From assembly on
the order is the code's and follows from the records themselves
(`event_order_key`, `Before`), so a transaction is the set of its events and the
plans are a set: `Apply` takes any plan of `todo` that no other comes before. What a table
holds after some events is stated by the last of them that touches a key
(`Value`, `Changed`), and an event fits if it finds the image that those before
it leave (`Fits`), which is what the loop of `apply` computes one event at a
time. Plans of one transaction sequence are taken in any order, where the code
goes by the spelling of their identities.

Run `intake` (2 keys, 2 transactions of 2 events, 4 strays, 3 objects, 2 copies
of a record): of two records that claim to be one event and differ neither is
ever applied, in whatever order they came (`DoubtIsNeverApplied`); what a
manifest of the source's history lets through is whole transactions in commit
order and rows and tombstones are those of the source at the last of them
(`AppliesPrefixes`); a clean bundle is proven (`CleanBundlePasses`). Two copies are what a duplicate takes, and objects (1,2], (2,3], (1,3] make every tiling,
gap and overlap of the interval. Fairness: the process goes on, and is not
killed or given its plans again for ever. Deadlock is not checked: a landing
that was refused, or is done, is over.

The first half of `SourceProofs.tla` proves both invariants for any keys,
history, strays, objects and number of deliveries, from `HistoryAssumption` (a
finite history inside the interval, a transaction at one position with one
sequence number, no two of its events of one number; strays are not the
source's) and `NoneAssumption`. Nothing is assumed of the order of delivery, of
losses, or of what strays claim.

* `DoubtIsNeverApplied` needs to know what the normaliser has let in
  (`AcceptedSound`: nothing that is rejected, and one record per identity), that
  what was landed is accepted or quarantined (`IntakeTypeOK`), and that a bundle
  with anything in quarantine is never assembled (`StagesSound`). The argument
  is then short: two records of one identity cannot both have been accepted, so
  the other one would be in quarantine.
* `AppliesPrefixes` has the hypothesis `InSequence`: sequence numbers follow
  commits, as in the instance. Without it the statement is false (Sorted by
  sequence, under Disagreements). `PlansSound` says that the plans are the transactions of the bundle
  and match one of the two manifests; where it is that of the history and no
  stray is applied, a plan is a transaction of the source, event for event
  (`OwnPlan`), and plans come in the order of their commits (`CommitOrder`).
  `OrderSound` says that all that comes before an applied plan is applied, also
  while plans are replayed. So one more transaction takes a prefix to a prefix,
  and `RowsSound` is kept since what changes the rows afterwards comes after all
  that did before (`ValueLater`, `ChangedLater`, `FitsLater`).
* It also proves `CleanIsNotRefused`, the safety half of `CleanBundlePasses`: no
  check of assembler, reference store or reconciliation refuses a bundle of the
  source's records. It has the hypothesis `SoundSource`: sequences follow commits,
  the events of a transaction are numbered from 1 on, and each finds the row that
  those before it left. Its heart is `CleanFits`: what is applied is all that
  comes before the next plan, so the plan meets the rows it met in the source
  (`FitsLater`, which splits a history at any point).

The induction that this takes over finite sets of records, that one ordered by
`Before` has a last element (`FiniteLast`), is made by a smallest counterexample
and the well-foundedness of `<` on the natural numbers, and needs no theorem
with an operator as its parameter. Only model-checked: `CleanBundlePasses`, that
the end is reached.

## 10. Source capture

`SourceCapture.tla` models a run of the source laboratory: the process (`pc`,
`run`), the two writer threads with their permits and done events, PostgreSQL
as far as it is used (`commits` in WAL order, `slot`, `namespaces`, the state of
the admin connection), other clients (`ForeignCommit`), statements that fail
anywhere (`Fails`), waits that time out, and a kill. `Raise` and `CleanUp`,
`DropNamespace` are the finally clauses.

Run `capture` (two runs per process, three processes, one foreign commit):
writer A never commits before writer B has finished, whatever times out; a
receipt stands for a snapshot and a stream without gap or overlap (the snapshot
holds all that the workload committed before, and nothing of what the stream
starts with); outside of a capture there is a slot only for one of four
reasons (`SlotGoesWithRun`); every run ends. Three processes are what it takes to meet what a
killed one and a failed one have left behind.

The reasons, recorded in the history variable `left`: CREATE_REPLICATION_SLOT
made the slot and its answer was lost or refused (CBPG002, CBPG004), before
`slot_created` is set (`stage21_postgres_adapter.py:303`); a failed statement
aborted the transaction of `admin_connection`, on which the finally clause would
drop the slot; the finally clause itself failed, at the rollback (`:426`) or the
connect (`:431`) before the drop or at the COMMIT; the process was killed. After
every other failure the slot is dropped. While one is left, later runs of the
workload fail at CREATE_REPLICATION_SLOT. A killed process leaves its schema too,
which the next one refuses (CBSRC024). Failures of DROP SCHEMA are not modelled.

Fairness: `WF` of the process and of each thread: each of their waits has a
timeout. Deadlock is not checked: no process is started after the last one
allowed; that a process never gets stuck is `EveryRunEnds`.

The second half of `SourceProofs.tla` proves, for any number of runs, processes and foreign
commits and from `RunsAssumption` (a sequence of run names that is not empty),
`WritersInOrder`, `BoundaryExact` and `SlotGoesWithRun`. None of them is
inductive. `IInv` has to know how far the threads are where the process stands
and who has a permit (`ThreadsInv`), what is committed in each phase
(`PhasesInv`), that writers and post-snapshot transaction commit once, B before
A, and the latter after all of the others (`OrderInv`), that what the slot gave
is a stretch of the commits (`StreamInv`) and in which phases the process has a
slot of its own, without which the cleanup would pass it by (`SlotInv`). `BoundaryExact` then follows for any position of
the slot: the first transaction decoded must be the workload's own, a foreign
one in between makes `validate_boundary_receipt` refuse, and what came before it
in the log came before the slot. Only model-checked: `EveryRunEnds`.

## 11. Release evidence

`EvidenceChain.tla` models a stage's evidence from its builder to the gates of
CI: `Begin`, `WriteReport`, `WritePaths`, `WriteManifest`, `WriteReceipt` are a
builder (stages 1, 2 and 8 overwrite in place, 3 to 7 refuse a directory that
exists), `Crash` ends it between two files; `Edit`, `EditEvidence`, `Remove`,
`Commit` and `Merge` are the work around it; `Validate1` to `Validate8` are the
validators, with `Frozen1` and `Frozen3` for the stages that are checked on
their merge commit. Stage 8 is Part 3 Stage 2; directory 0 is the evidence of
Part 1, which `Preserved` checks. What a report must say is taken to be right.
What a validator asks of the tree beside the evidence is one predicate, `Fits`:
stage 2's runs the normalizer of the tree on its contracts and fixtures
(`validate_part2_stage2.py:227`), stage 3's rebuilds its snapshot, all of them
read claims, an acceptance registry or schemas there. The constant `Refused` is
the set of trees that fail it; any change by hand may lead into it and out again.

Run `evidence` follows windows of consecutive stages ({1,2,3}, {3,4,5}, {5,6},
{7,8}), since a validator looks at no more than its own stage, its base and the
directories before it; 3 builds, 2 edits and 4 commits are enough to build,
merge, edit and build again. Checked: a gate of stages 1 to 7 passes only on a
directory that a builder finished (`GreenIsFinished`); a finished build of an
undisturbed tree verifies (`FinishedBuildVerifies`); on a committed tree with
green gates the evidence that a merged stage 2, 4, 5 or 8 follows is what was
merged, that of 5 and 6 aside (`EvidenceAsMerged`); later work does not make the
evidence of stages 1 to 6 stale (`LaterWorkKeepsGates`): the gates of 1 and 3
stay green whatever is changed, those of 2, 4, 5 and 6 as long as the tree `Fits`
their validators. Later work does turn these four red where it breaks the
normalizer, a contract, a fixture, a schema or a claim they read in the tree; in
the run the second change of a shared file does so, and the first does not. The
exclusions are what the code does: stage 8's
validator never reads its receipt and its builder overwrites, so one killed
before the receipt passes; stages 7 and 8 read the working tree, so later edits
turn them red; stages 6 and 7 do not compare the evidence before them (the
runbook of stage 7 tells the operator to). Deadlock is not checked: development
may stop. No fairness: nobody has to build.

`EvidenceChainProofs.tla` proves all four, `LaterWorkKeepsGates` included, for
any files, any window of consecutive stages, and any number of builds, edits and
commits, from `ChainAssumption`; nothing is assumed of `Refused`. `IInv` consists of the history (stages are
merged in order; the evidence of Part 1 is as it was or edited for good), of
what merges leave (`MergeInv`: the commit that merged a stage holds the evidence
merged before it), of `DirectoryInv` (a receipt stands for a manifest with which
a builder left the directory, or for one whose report is gone for good: contents
of reports are numbered, an edit by hand counts above all, and none comes back),
of what the running builder has written so far, and whether it is undisturbed
(`BuilderInv`), and of `FreshInv`, that the last finished build verifies. The
alternative in `DirectoryInv` is needed because an older receipt may stand in a
directory that is being overwritten: the gate is red then since its manifest
names a report that will not be there again.

Two properties were weaker in fact than first written, and the proofs showed it:

* A file that stage 1's paths list as changed may be put back to what it was at
  the base before the evidence is committed. The commit then shortens what git
  calls changed, and `Validate1` refuses a finished build whose files are as they
  were built. `FinishedBuildVerifies` names the case.
* The gates of 6 and 7 look at no directory before their own, so the evidence of
  5 and 6 may be built again and committed until 7 is merged, with all gates
  green. From then on stage 8's gate compares it with its base. `EvidenceAsMerged`
  leaves 5 and 6 out.

## 12. Proof ledger

`ProofControl.tla` models `ProofControlStore` for one candidate: `generation`,
`attempts` and `gates` are its tables (an attempt is identified by its input
revision, of which its identity is a digest), sessions call it. Every method
reads in one statement and writes in a later transaction, so each is two
actions: `CheckSeal`/`WriteSeal`, `CheckBegin`/`WriteBegin`,
`CheckGate`/`WriteGate`, and `ReadSeal`/`Assemble`/`WriteManifest` for
`seal_manifest`. `Passes` is the conjunction that `assemble_manifest` asks of a
gate. A gate record is the seal its evaluator looked at, its revision, whether
it is bound to this generation, frontier and schema set, and its verdict.
Evaluators may offer any record of the constant `Results`, on either seal, of a
stale revision, of another generation, failed; only the manifest's assembly
looks. Where one session works at a time, its gates are taken to be evaluated on
the seal of the moment (`Evaluated`): no line of the code compares a gate's
input digests with the seal, so the refinement, which says that a proof rests on
one seal, takes that from the evaluators. `ManifestBacked` does not.
`Leave` is a session that dies or is done.

`ProofLifecycle.tla` is the ladder of ADR-020: sealed once, proven by gates
evaluated on that seal.

Run `proof` (2 gates, 2 seals, 2 sessions, alone or at once): a proven candidate
has every gate passed and in the ledger of one attempt (`ManifestBacked`),
however sessions race; alone, the store implements `ProofLifecycle` and in the
end the candidate is PROVEN or a gate is in the ledger that can never pass
(`EventuallyProven`). Two gates stand for eight, since the code treats them
alike; two seals are what a conflict needs; the six results of `MCProofControl`
are a pass on each seal, one of the revision that a race may leave, a failure, a
stale one and one of another generation. Revisions are 0, 1 and 2, which are
the only ones the code writes. Fairness: a call that has begun ends, the driver
runs register, seal, begin, every gate and the manifest again and again, and
sessions stop dying at some time.

`ProofControlProofs.tla` proves, for any number of sessions, gates and seals
and from `NullAssumption` and `ResultsAssumption` (results are gate records) only: `IInv`, `TypeOK`, `ManifestBacked`, `GatesStay`
and the refinement. What makes `ManifestBacked` inductive is `SessionSound`: a
session that has assembled holds a manifest that is backed already, and by lemma
`Growth` (gates are kept, attempts are not lost) `BackedStays`, so it may be
written however late. The refinement needs in addition what a session alone may
rely on: the row it has read is the row it writes over. Only model-checked:
`EventuallyProven`.

## 13. Findings

* **Only the first of a manifest** (`cdc_wedge`, `transaction_assembler.py:178`).
  All plans of a manifest start at its previous frontier; `finalize` accepts
  only a plan that starts at the checkpoint. Further transactions of the
  manifest land in Iceberg and can never be checkpointed, against
  TRANSACTIONAL_APPLY.md ("turn partial progress into recoverable state"). With
  one transaction per manifest it cannot happen: theorem `OneByOneRecovers`.

## 14. Disagreements

What else a document says and the code does not keep. Each is stated as a
definition that no run checks; TLC shows the behaviour when the definition is
added to the cfg named here.

* **Torn pin**: `PinMatchesRevision` of `Publication`, `MCPublication_race.cfg`.
  `pin` resolves with two SELECTs (`publication.py:181`). If a publication
  commits between them while a generation is already served, the pin pairs the
  old revision with the new generation, against ADR-021 ("Consumers pin one
  revision, one generation, and its complete table map before reading"). What
  is true, and proved, is `PinNeverOlder`.
* **Rollback to a foreign generation**: `RollbackToOwnPast` of `Publication`,
  `MCPublication_race.cfg` with `Products = {orders, items}` and one session.
  Eligibility looks at the generation only (`publication.py:443`), so a product
  can be rolled back to a generation that only another product served, against
  docs/part2/stage7/PUBLICATION_AND_CLOSURE.md:28.
* **First plan decides the start**: `ContiguousChain` of `CdcApply`,
  `MCCdcApply_recovery.cfg` with `InTurn = FALSE` and a `History` of two
  transactions that insert different rows (where one changes what another
  wrote, the before images refuse it). The checkpoint is created
  from the first plan (`cdc_control.py:97`), not from the snapshot frontier in
  the registry: a first plan that is not the first leaves a gap.
* **Double merge**: `RowsTrackFrontier` of `CdcApply`, `MCCdcApply_workers.cfg`
  with `InTurn = TRUE`. Token look, before-image check and MERGE are not tied
  together (`iceberg_cdc.py:167`, `iceberg_cdc.py:187`); two workers on one
  transaction can lose a later change.
* **Going back**: `StatesForward` of `ProofControl`, `MCProofControl.cfg`.
  Unconditional updates after an earlier read (`proof_control.py:65`) take a
  PROVEN candidate back to SEALED, against ADR-020. With one session at a time
  it cannot happen: that is the refinement.
* **Ready taken back**: `ActiveIsReady` of `Engine` without `LateLoadFails`,
  `MCEngine.cfg` with a `Snapshot` that is `Null` for every key. `load_snapshot`
  reads the status (`engine.py:127`) and the count (`:129`) before its transaction
  and sets the status in it without asking again (`:150`); with no row to insert,
  a late load succeeds and a generation that has become ready and active is a
  candidate again, against README.md:75 ("Only a ready generation can become
  active").
* **Token overwritten**: section 7, against FAILURE_MODES.md of stage 5.
* **Sorted by sequence, not by commit**: `AppliedInCommitOrder` of `Intake`,
  `MCIntake.cfg` with `History <- Concurrent`, `Snapshot <- NoRows`,
  `Strays <- Forgery`. Events are ordered by LSN first, plans by transaction
  sequence and identity only (`transaction_assembler.py:186`). The workload's
  writers cross (`source_workload.py:297`, `:317`, `:444`): of the two the one that
  committed second has the lower sequence and is applied first, against
  contracts/transactional-apply-v1.json:6 (`"ordering"` begins with
  `"typed postgres_lsn"`) and REQUIREMENT_CATALOG.md:375 ("consistent with
  committed source order"). The hand-off sends the transaction after the
  boundary only, so this pair does not meet the assembler there; nothing in the
  assembler excludes it. Where sequences follow commits the two orders agree,
  which is what `PrefixesApplied` proves.
* **Slot left behind**: section 10, against docs/part2/stage1/RUNBOOK.md:50
  ("Every laboratory run drops its persistent logical slot in a `finally`
  path"). Each of the four reasons of `left` is a way out without the drop; to
  see them, take `left = "none"` out of `SlotGoesWithRun`.
* **One place, two events**: section 9. The normaliser's order key
  (`contracts.py:161`) ends in the event's identity, and a record of a known
  identity is a duplicate or a conflict before the key is looked up
  (`normalizer.py:449`), so CBN020_ORDER_KEY_CONFLICT cannot be reached: of two
  records with one position and sequence and different keys both are accepted,
  against docs/adr/ADR-004-source-position-ordering.md:29 ("Duplicate order keys
  with different payloads are conflicts"). `DoubtIsNeverApplied` does not hold them against
  each other; the assembler refuses the transaction (`ordered_events`), which is
  part of what `AppliesPrefixes` checks.

* **Writes after sealing**: docs/part2/stage6/RECONCILIATION_PROOF.md:13 has
  "The durable ledger prevents writes after sealing". For the rows of the
  generation no code does: the seal is a
  row of the proof store, and `apply_transaction` (`cdc_apply.py:37`) reads the
  generation registry, where the generation stays CDC_APPLYING, and the CDC
  control store, neither of which learns of a seal. The modules show it by what
  they leave out: `CdcApply` has no variable of `ProofControl` to depend on.

## 15. Not modelled

* *What ties the stores together*: a composition of CDC apply with sealing,
  rejection and publication, which are recorded in stores that apply does not
  read, would only show that operators are trusted to stop (see "Writes after
  sealing" above).
* *Command line, canonical JSON, oracle reports*: entry points and encodings
  without state. Digests are taken to be injective everywhere.
* *Authority validators* (the other `scripts/validate_*`): one pass over
  documents and catalogues, comparing fixed tables, texts and digests. A model
  would repeat the tables.
* *Snapshot hand-off, source workload and simulator*: how they make their
  deterministic data; their records, transactions and order of calls are the
  inputs and drivers of `Intake`, `SourceCapture` and `Engine`.
* *Jobs, infrastructure, deployment*: entry points that call what is modelled,
  and provisioning. SQL syntax, file formats, Spark and Iceberg internals are
  outside every module.
* Hazards of PROJECT.json with a note and no property: a served generation that
  is disqualified later, a transaction that changes one row twice (which the
  adapter refuses for ever and the reference store applies), and the first
  frontier of a generation; the note says why.
