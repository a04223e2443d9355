-------------------------------- MODULE Engine --------------------------------
(***************************************************************************)
(* The SQLite correctness oracle (engine.py): generations, their records,  *)
(* applied transactions and batches, and the active pointer, with the      *)
(* cutover the simulator and the tests make of it (cutover.py,             *)
(* reconciliation.py).  A connection is a process of its own on the one    *)
(* database file.  What a call checks it checks before BEGIN IMMEDIATE; the*)
(* transaction is one step.                                                *)
(*                                                                         *)
(* Abstracted: tables and keys are one key space; payloads are values and  *)
(* a digest is what it digests; the schema check, the lag and the two      *)
(* flags of evaluate_cutover pass or do not.                               *)
(***************************************************************************)
EXTENDS Naturals, FiniteSets, Sequences, Functions

CONSTANTS
    Generations,
    Keys,
    Values,
    Start,        \* the snapshot's position
    Snapshot,     \* key -> value at Start, or Null
    Log,          \* the source's transactions: [id, lsn, writes]
    Batches,      \* generation -> batches it is sent: [id, start, end, txns]
    Connections,
    MaxVersion,   \* bound: activations
    Null

Transaction == [id : STRING, lsn : Nat, writes : UNION {[S -> Values \cup {Null}] : S \in SUBSET Keys}]
Record == [value : Values \cup {Null}, lsn : Nat]

ASSUME SourceAssumption ==
    /\ Start \in Nat \ {0} /\ Snapshot \in [Keys -> Values \cup {Null}]
    /\ Null \notin Values \cup Generations \cup Record
    /\ \A t \in Log : t \in Transaction /\ t.lsn > Start
    /\ \A t, u \in Log : t.id = u.id \/ t.lsn = u.lsn => t = u
    /\ MaxVersion \in Nat

(* A batch of the source's holds its transactions between two positions.  One
   that was altered brings a transaction from before its start again, with
   other contents. *)
OfSource(b) == Range(b.txns) = {t \in Log : b.start < t.lsn /\ t.lsn <= b.end}
Altered(b) ==
    \E t \in Range(b.txns), u \in Log : t.id = u.id /\ t # u /\ u.lsn <= b.start

ASSUME BatchAssumption ==
    \A g \in Generations : \A b \in Batches[g] :
        /\ b.start \in Nat /\ b.end \in Nat /\ b.start < b.end
        /\ b.txns \in Seq(Transaction)
        /\ OfSource(b) \/ Altered(b)

VARIABLES
    alone,        \* whether one connection is used at a time; never changes
    generation,   \* generation -> its row of generations
    records,      \* generation -> key -> row of records, or Null
    transactions, \* generation -> applied_transactions
    batches,      \* generation -> applied_batches
    pointer,      \* active_pointer
    pc,           \* connection -> where its call stands
    job           \* connection -> its arguments and what it has read

database == <<generation, records, transactions, batches, pointer>>
vars == <<alone, database, pc, job>>

Statuses == {"NO_ROW", "loading", "candidate", "ready"}
Labels == {"idle", "count", "load", "batch", "commit", "gated", "mark", "marked", "swap"}

NoJob == [generation |-> Null, batch |-> Null, lsn |-> 0, version |-> 0]

Job == [generation : Generations \cup {Null},
        batch : (UNION {Batches[g] : g \in Generations}) \cup {Null},
        lsn : Nat, version : Nat]

EngineTypeOK ==
    /\ alone \in BOOLEAN
    /\ generation \in [Generations -> [status : Statuses, lsn : Nat]]
    /\ records \in [Generations -> [Keys -> Record \cup {Null}]]
    /\ transactions \in [Generations -> SUBSET Log]
    /\ batches \in [Generations -> SUBSET UNION {Batches[g] : g \in Generations}]
    /\ pointer \in [generation : Generations \cup {Null}, version : 0 .. MaxVersion]
    /\ pc \in [Connections -> Labels]
    /\ job \in [Connections -> Job]

Init ==
    /\ alone \in BOOLEAN
    /\ generation = [g \in Generations |-> [status |-> "NO_ROW", lsn |-> 0]]
    /\ records = [g \in Generations |-> [k \in Keys |-> Null]]
    /\ transactions = [g \in Generations |-> {}]
    /\ batches = [g \in Generations |-> {}]
    /\ pointer = [generation |-> Null, version |-> 0]
    /\ pc = [c \in Connections |-> "idle"]
    /\ job = [c \in Connections |-> NoJob]

-----------------------------------------------------------------------------
Goto(c, l, j) ==
    /\ pc' = [pc EXCEPT ![c] = l]
    /\ job' = [job EXCEPT ![c] = IF l = "idle" THEN NoJob ELSE j]
    /\ UNCHANGED alone

(* The call returns or raises; a transaction that raises leaves nothing. *)
Leave(c) == Goto(c, "idle", NoJob)

Free(c) == pc[c] = "idle" /\ (alone => \A d \in Connections : pc[d] = "idle")

Die(c) == pc[c] # "idle" /\ Leave(c) /\ UNCHANGED database

SetStatus(g, s) == generation' = [generation EXCEPT ![g].status = s]

CreateGeneration(c, g) ==
    /\ Free(c)
    /\ generation[g].status = "NO_ROW"
    /\ generation' = [generation EXCEPT ![g] = [status |-> "loading", lsn |-> Start]]
    /\ UNCHANGED <<alone, records, transactions, batches, pointer, pc, job>>

-----------------------------------------------------------------------------
(* load_snapshot: the status is read, the records are counted, all rows are
   inserted and the status is set.  A row that has come in between violates the
   primary key; if there are none to insert, nothing tells that it is late. *)

LoadSnapshot(c, g) ==
    /\ Free(c)
    /\ generation[g].status = "loading"
    /\ Goto(c, "count", [NoJob EXCEPT !.generation = g])
    /\ UNCHANGED database

Loaded == {k \in Keys : Snapshot[k] # Null}
RecordsOf(g) == {k \in Keys : records[g][k] # Null}

CountRecords(c) ==
    /\ pc[c] = "count"
    /\ IF RecordsOf(job[c].generation) = {} THEN Goto(c, "load", job[c]) ELSE Leave(c)
    /\ UNCHANGED database

InsertSnapshot(c) ==
    LET g == job[c].generation IN
    /\ pc[c] = "load"
    /\ IF RecordsOf(g) \cap Loaded = {}
         THEN /\ records' = [records EXCEPT ![g] = [k \in Keys |->
                    IF k \in Loaded THEN [value |-> Snapshot[k], lsn |-> Start] ELSE @[k]]]
              /\ SetStatus(g, "candidate")
         ELSE UNCHANGED <<records, generation>>
    /\ Leave(c)
    /\ UNCHANGED <<transactions, batches, pointer>>

-----------------------------------------------------------------------------
(* apply_batch *)

ReadGeneration(c, g, b) ==
    /\ Free(c)
    /\ generation[g].status \in {"candidate", "ready"}
    /\ Goto(c, "batch", [NoJob EXCEPT !.generation = g, !.batch = b,
                                      !.lsn = generation[g].lsn])
    /\ UNCHANGED database

Ordered(b) ==
    \A i \in DOMAIN b.txns :
        /\ b.txns[i].lsn <= b.end
        /\ b.txns[i].lsn > IF i = 1 THEN b.start ELSE b.txns[i - 1].lsn

FromFrontier(b, lsn) == b.start = lsn

(* Answers of a batch that was applied before: "replayed", or a conflict if
   its contents differ; the frontier is compared with the one read first. *)
LookBatch(c) ==
    LET b == job[c].batch IN
    /\ pc[c] = "batch"
    /\ IF \E a \in batches[job[c].generation] : a.id = b.id THEN Leave(c)
       ELSE IF FromFrontier(b, job[c].lsn) /\ Ordered(b) THEN Goto(c, "commit", job[c])
       ELSE Leave(c)
    /\ UNCHANGED database

(* Mutant: a transaction that differs from the one applied is skipped. *)
ConflictNever(g, b) == FALSE

(* A transaction of the batch has been applied with other contents. *)
Conflict(g, b) ==
    \E i \in DOMAIN b.txns : \E t \in transactions[g] \cup {b.txns[j] : j \in 1 .. i - 1} :
        t.id = b.txns[i].id /\ t # b.txns[i]

(* Mutant: transactions that were applied before are applied again. *)
FreshAll(g, b) == Range(b.txns)

(* The transactions of the batch that have not been applied before. *)
Fresh(g, b) == {t \in Range(b.txns) : \A u \in transactions[g] : u.id # t.id}

Writers(txns, k) == {t \in txns : k \in DOMAIN t.writes}
LastWriter(txns, k) ==
    CHOOSE t \in Writers(txns, k) : \A u \in Writers(txns, k) : u.lsn <= t.lsn

(* The rows after txns, in commit order, were written over rows. *)
Written(rows, txns) ==
    [k \in Keys |->
        IF Writers(txns, k) = {} THEN rows[k]
        ELSE [value |-> LastWriter(txns, k).writes[k], lsn |-> LastWriter(txns, k).lsn]]

CommitBatch(c) ==
    LET g == job[c].generation  b == job[c].batch IN
    /\ pc[c] = "commit"
    /\ IF Conflict(g, b) \/ \E a \in batches[g] : a.id = b.id
         THEN UNCHANGED <<records, transactions, batches, generation>>
         ELSE /\ records' = [records EXCEPT ![g] = Written(@, Fresh(g, b))]
              /\ transactions' = [transactions EXCEPT ![g] = @ \cup Fresh(g, b)]
              /\ batches' = [batches EXCEPT ![g] = @ \cup {b}]
              /\ generation' = [generation EXCEPT ![g].lsn = b.end]
    /\ Leave(c)
    /\ UNCHANGED pointer

-----------------------------------------------------------------------------
(* state() and the source's rows at a position, tombstones left out. *)
Live(rows) == [k \in Keys |-> IF rows[k] = Null THEN Null ELSE rows[k].value]

SourceAt(n) ==
    LET until == {t \in Log : t.lsn <= n} IN
    [k \in Keys |-> IF Writers(until, k) = {} THEN Snapshot[k]
                    ELSE LastWriter(until, k).writes[k]]

(* Cutover: reconcile at a frontier and evaluate the gate, which needs a row
   to compare; mark_ready; activate. *)
Gate(c, g, n) ==
    /\ Free(c) /\ pointer.version < MaxVersion
    /\ generation[g].status # "NO_ROW"
    /\ Live(records[g]) = SourceAt(n)
    /\ \E k \in Keys : SourceAt(n)[k] # Null
    /\ Goto(c, "gated", [NoJob EXCEPT !.generation = g, !.version = pointer.version])
    /\ UNCHANGED database

MarkReadyRead(c) ==
    /\ pc[c] = "gated"
    /\ IF generation[job[c].generation].status = "candidate"
         THEN Goto(c, "mark", job[c]) ELSE Leave(c)
    /\ UNCHANGED database

MarkReady(c) ==
    /\ pc[c] = "mark"
    /\ SetStatus(job[c].generation, "ready")
    /\ Goto(c, "marked", job[c])
    /\ UNCHANGED <<records, transactions, batches, pointer>>

(* Mutant: a candidate may be activated. *)
MayActivateCandidate(g) == generation[g].status \in {"candidate", "ready"}

MayActivate(g) == generation[g].status = "ready"

ActivateRead(c) ==
    /\ pc[c] = "marked"
    /\ IF MayActivate(job[c].generation) THEN Goto(c, "swap", job[c]) ELSE Leave(c)
    /\ UNCHANGED database

(* A cutover that died after mark_ready is activated by a later call. *)
ActivateAgain(c, g) ==
    /\ Free(c) /\ pointer.version < MaxVersion
    /\ MayActivate(g)
    /\ Goto(c, "swap", [NoJob EXCEPT !.generation = g, !.version = pointer.version])
    /\ UNCHANGED database

(* A compare-and-swap of the version. *)
Activate(c) ==
    /\ pc[c] = "swap"
    /\ pointer' = IF pointer.version = job[c].version
                    THEN [generation |-> job[c].generation, version |-> pointer.version + 1]
                    ELSE pointer
    /\ Leave(c)
    /\ UNCHANGED <<generation, records, transactions, batches>>

-----------------------------------------------------------------------------
Work(c) ==
    \/ CountRecords(c) \/ InsertSnapshot(c) \/ LookBatch(c) \/ CommitBatch(c)
    \/ MarkReadyRead(c) \/ MarkReady(c) \/ ActivateRead(c) \/ Activate(c)

Call(c, g) ==
    \/ CreateGeneration(c, g) \/ LoadSnapshot(c, g) \/ ActivateAgain(c, g)
    \/ \E b \in Batches[g] : ReadGeneration(c, g, b)
    \/ \E t \in Log : Gate(c, g, t.lsn)

Proceed == \E c \in Connections : Work(c) \/ \E g \in Generations : Call(c, g)

Next == Proceed \/ \E c \in Connections : Die(c)

Spec == Init /\ [][Next]_vars

(* The call a driver makes next: a batch of the source's that comes next. *)
NextCall(c, g) ==
    \/ CreateGeneration(c, g) \/ LoadSnapshot(c, g)
    \/ \E b \in Batches[g] \ batches[g] :
         /\ Range(b.txns) \subseteq Log
         /\ b.start = generation[g].lsn
         /\ ReadGeneration(c, g, b)

Fairness ==
    /\ \A c \in Connections : WF_vars(Work(c))
    /\ \A g \in Generations : SF_vars(\E c \in Connections : NextCall(c, g))
    /\ <>[][Proceed]_vars

FairSpec == Spec /\ Fairness
-----------------------------------------------------------------------------
Base == [k \in Keys |-> IF k \in Loaded THEN [value |-> Snapshot[k], lsn |-> Start] ELSE Null]
Applying == {"candidate", "ready"}

(* Connections that race, replay batches or resend part of them leave no
   transaction out and none in twice: what is applied is a prefix of the
   source's log that reaches the frontier, every batch that was answered
   "applied" is in it as it was sent, and each row, tombstones included, is
   as the last transaction of the prefix that wrote it left it. *)
RowsTrackTransactions ==
    \A g \in Generations :
        /\ \A b \in batches[g] : Range(b.txns) \subseteq transactions[g]
        /\ \A t \in Log : t.lsn <= generation[g].lsn => t \in transactions[g]
        /\ \A t \in transactions[g], u \in Log : u.lsn <= t.lsn => u \in transactions[g]
        /\ generation[g].status \in Applying => records[g] = Written(Base, transactions[g])

(* A load that comes after another's fails: calls do not race, or there is a row
   that both insert. *)
LateLoadFails == alone \/ Loaded # {}

(* Only a generation that passed its gate is served, and no racing call takes
   its status back, save a late load of an empty snapshot (activate). *)
ActiveIsReady ==
    LateLoadFails /\ pointer.generation # Null =>
        generation[pointer.generation].status = "ready"

(* What a connection has read and not used yet is still good for what it
   goes on to do: statuses only advance and nothing applied is taken back. *)
ConnectionSound(c) ==
    LET g == job[c].generation  b == job[c].batch IN
    /\ pc[c] # "idle" => g \in Generations
    /\ pc[c] \in {"count", "load"} =>
          generation[g].status # "NO_ROW" /\ (alone => generation[g].status = "loading")
    /\ pc[c] \in {"batch", "commit"} =>
          /\ generation[g].status \in Applying /\ b \in Batches[g]
          /\ \A t \in Log : t.lsn <= job[c].lsn => t \in transactions[g]
    /\ pc[c] = "commit" => FromFrontier(b, job[c].lsn) /\ Ordered(b)
    /\ pc[c] \in {"gated", "mark", "marked", "swap"} => job[c].version < MaxVersion
    /\ pc[c] = "mark" => generation[g].status \in Applying
    /\ pc[c] = "swap" /\ LateLoadFails => generation[g].status = "ready"

(* Where connections are used one at a time, one is in a call. *)
OneCall == alone => \A c, d \in Connections : pc[c] # "idle" /\ pc[d] # "idle" => c = d

(* A generation without its snapshot has nothing applied. *)
NothingBeforeLoad ==
    \A g \in Generations :
        generation[g].status \notin Applying =>
            /\ transactions[g] = {} /\ batches[g] = {}
            /\ records[g] = [k \in Keys |-> Null]
            /\ generation[g].lsn \in {0, Start}

(* The inductive invariant. *)
EngineInv ==
    /\ EngineTypeOK /\ RowsTrackTransactions /\ ActiveIsReady /\ NothingBeforeLoad /\ OneCall
    /\ \A c \in Connections : ConnectionSound(c)

(* A generation catches up with the source whatever dies, racing or not. *)
CatchesUp ==
    \A g \in Generations : Batches[g] # {} => <>(Log \subseteq transactions[g])

Positions == {Start} \cup {t.lsn : t \in Log}

(* The position of the last transaction applied, once there is a row: until then
   a generation cannot be told from one without its snapshot. *)
Reached(g) ==
    IF RecordsOf(g) = {} THEN 0
    ELSE CHOOSE n \in {Start} \cup {t.lsn : t \in transactions[g]} :
           \A t \in transactions[g] : t.lsn <= n

Replay == INSTANCE SourceReplay WITH
    RowsAt <- [n \in Positions |-> SourceAt(n)],
    Empty <- [k \in Keys |-> Null],
    rows <- [g \in Generations |-> Live(records[g])],
    position <- [g \in Generations |-> Reached(g)]

(* Every reader of a generation sees the source at one commit position, and
   later readers at a later one, although the frontier column may go back. *)
ImplementsSourceReplay == Replay!Spec
=============================================================================
