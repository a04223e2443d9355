---------------------------- MODULE SnapshotLoad ----------------------------
(***************************************************************************)
(* Loading and admitting the snapshot of one generation                    *)
(* (snapshot_loader.py) over its two stores: the generation registry, one  *)
(* SQLite file (generation_registry.py), and the Iceberg tables            *)
(* (iceberg_snapshot.py).  A worker is a process that executes load_shard  *)
(* or admit_snapshot, or the driver's first transition.                    *)
(*                                                                         *)
(* Each table has one shard.  The token, key and digest of a shard are     *)
(* functions of its table and input, so an input stands for all of them,   *)
(* and a physical snapshot for the input it appended.  The contents of a   *)
(* table are the inputs appended to it, in order: row counts and digests   *)
(* match an input exactly if it alone was appended, once.                  *)
(***************************************************************************)
EXTENDS Naturals, Sequences, FiniteSets

CONSTANTS
    Tables,    \* source tables, of which each is one shard
    Inputs,    \* event lists that pass validate_snapshot_events
    Source,    \* table -> the input that is the source's snapshot
    Workers,   \* processes
    MaxAppends,\* bound: appends to one table
    Null

ASSUME InputAssumption ==
    Source \in [Tables -> Inputs] /\ Null \notin Inputs \cup Tables \cup [Tables -> Nat]
ASSUME BoundAssumption == MaxAppends \in Nat \ {0} /\ IsFiniteSet(Tables)

VARIABLES
    alone,       \* whether operators run one process at a time; never changes
    generation,  \* its row of generation_registry
    shards,      \* table -> row of snapshot_shards
    commits,     \* table -> input -> physical_snapshot_id in target_commits, or 0
    proof,       \* snapshot_admission_proofs: table -> snapshot count, or Null
    log,         \* table -> inputs appended to the Iceberg table
    pc,          \* worker -> where its call stands
    job          \* worker -> its arguments and what it has read

registry == <<generation, shards, commits, proof>>
vars == <<alone, registry, log, pc, job>>

GenerationStates == {"NO_ROW", "CREATED", "SNAPSHOT_LOADING", "CDC_APPLYING"}
ShardStates == {"NO_ROW", "CLAIMED", "STAGED", "COMMITTED", "RECONCILED"}

(* A job: the shard at hand, the state a shard transition was read to leave
   and is to reach, a physical snapshot, the counts of a proof, and the state
   and revision a generation transition goes by. *)
Job == [table : Tables \cup {Null}, input : Inputs \cup {Null},
        from : ShardStates, to : ShardStates \cup GenerationStates,
        snapshot : Nat, counts : [Tables -> Nat], revision : Nat]

NoJob == [table |-> Null, input |-> Null, from |-> "NO_ROW", to |-> "NO_ROW",
          snapshot |-> 0, counts |-> [t \in Tables |-> 0], revision |-> 0]

Labels == {"idle", "claim", "look", "insert", "mark", "marking", "append", "write",
           "verify", "ledger", "record", "shards", "rows", "count", "proof",
           "saveproof", "revision", "transition", "advance"}

SnapTypeOK ==
    /\ alone \in BOOLEAN
    /\ generation \in [state : GenerationStates, revision : Nat]
    /\ shards \in [Tables -> [state : ShardStates, input : Inputs \cup {Null}]]
    /\ commits \in [Tables -> [Inputs -> Nat]]
    /\ proof \in [Tables -> Nat] \cup {Null}
    /\ log \in [Tables -> Seq(Inputs)]
    /\ pc \in [Workers -> Labels]
    /\ job \in [Workers -> Job]

Init ==
    /\ alone \in BOOLEAN
    /\ generation = [state |-> "NO_ROW", revision |-> 0]
    /\ shards = [t \in Tables |-> [state |-> "NO_ROW", input |-> Null]]
    /\ commits = [t \in Tables |-> [i \in Inputs |-> 0]]
    /\ proof = Null
    /\ log = [t \in Tables |-> <<>>]
    /\ pc = [w \in Workers |-> "idle"]
    /\ job = [w \in Workers |-> NoJob]

-----------------------------------------------------------------------------
Goto(w, l, j) ==
    /\ pc' = [pc EXCEPT ![w] = l]
    /\ job' = [job EXCEPT ![w] = IF l = "idle" THEN NoJob ELSE j]
    /\ UNCHANGED alone

(* The call returns, raises or dies; what it has committed stays. *)
Leave(w) == Goto(w, "idle", NoJob)

(* register_generation: a second registration finds its row. *)
Register ==
    /\ generation.state = "NO_ROW"
    /\ generation' = [state |-> "CREATED", revision |-> 0]
    /\ UNCHANGED <<alone, shards, commits, proof, log, pc, job>>

(* A call begins; operators who run one process at a time wait for its end. *)
Begin(w, l, j) ==
    /\ pc[w] = "idle"
    /\ generation.state # "NO_ROW"
    /\ alone => \A v \in Workers : pc[v] = "idle"
    /\ Goto(w, l, j)
    /\ UNCHANGED <<registry, log>>

(* The driver's transition names revision 0. *)
CallStart(w) == Begin(w, "transition", [NoJob EXCEPT !.to = "SNAPSHOT_LOADING"])
CallLoad(w, t, i) == Begin(w, "claim", [NoJob EXCEPT !.table = t, !.input = i])
CallAdmit(w) == Begin(w, "shards", [NoJob EXCEPT !.to = "CDC_APPLYING"])

Call(w) ==
    \/ CallStart(w) \/ CallAdmit(w)
    \/ \E t \in Tables, i \in Inputs : CallLoad(w, t, i)

Die(w) == pc[w] # "idle" /\ Leave(w) /\ UNCHANGED <<registry, log>>

-----------------------------------------------------------------------------
(* claim_shard reads the generation, then the shard, then inserts. *)

ClaimState(w) ==
    /\ pc[w] = "claim"
    /\ IF generation.state = "SNAPSHOT_LOADING" THEN Goto(w, "look", job[w]) ELSE Leave(w)
    /\ UNCHANGED <<registry, log>>

(* Mutant: the claim of another input is taken for one's own. *)
ResumeAny(row, input) ==
    IF row.state = "RECONCILED" THEN "idle"
    ELSE IF row.state = "CLAIMED" THEN "mark" ELSE "append"

(* Where a claim goes on from: another input is a conflict (CBG016), and a
   reconciled shard is answered from the ledger. *)
Resume(row, input) ==
    IF row.input # input \/ row.state = "RECONCILED" THEN "idle"
    ELSE IF row.state = "CLAIMED" THEN "mark" ELSE "append"

ClaimLook(w) ==
    LET row == shards[job[w].table] IN
    /\ pc[w] = "look"
    /\ IF row.state = "NO_ROW" THEN Goto(w, "insert", job[w])
       ELSE Goto(w, Resume(row, job[w].input), [job[w] EXCEPT !.to = "STAGED"])
    /\ UNCHANGED <<registry, log>>

(* The row inserted is read again, as ClaimLook does; a row that has come in
   between violates the primary key. *)
ClaimInsert(w) ==
    LET t == job[w].table IN
    /\ pc[w] = "insert"
    /\ IF shards[t].state = "NO_ROW"
         THEN /\ shards' = [shards EXCEPT ![t] = [state |-> "CLAIMED", input |-> job[w].input]]
              /\ Goto(w, "look", job[w])
         ELSE Leave(w) /\ UNCHANGED shards
    /\ UNCHANGED <<generation, commits, proof, log>>

-----------------------------------------------------------------------------
(* mark_shard_state: the state is read, and the update asks for it but does
   not look whether it found it. *)

ShardMoves == {<<"CLAIMED", "STAGED">>, <<"CLAIMED", "COMMITTED">>,
               <<"STAGED", "COMMITTED">>, <<"COMMITTED", "RECONCILED">>}

(* What load_shard does once the shard is in state s. *)
Then(s) == [STAGED |-> "append", COMMITTED |-> "mark", RECONCILED |-> "idle"][s]

Marked(w) ==
    Goto(w, Then(job[w].to), [job[w] EXCEPT !.to = "RECONCILED", !.from = "NO_ROW"])

MarkRead(w) ==
    LET now == shards[job[w].table].state IN
    /\ pc[w] = "mark"
    /\ IF now = job[w].to THEN Marked(w)
       ELSE IF <<now, job[w].to>> \in ShardMoves
              THEN Goto(w, "marking", [job[w] EXCEPT !.from = now])
              ELSE Leave(w)
    /\ UNCHANGED <<registry, log>>

(* Mutant: the update does not ask for the state that was read. *)
SameStateAlways(w) == TRUE

SameState(w) == shards[job[w].table].state = job[w].from

MarkWrite(w) ==
    /\ pc[w] = "marking"
    /\ shards' = IF SameState(w) THEN [shards EXCEPT ![job[w].table].state = job[w].to]
                 ELSE shards
    /\ Marked(w)
    /\ UNCHANGED <<generation, commits, proof, log>>

-----------------------------------------------------------------------------
(* append_snapshot and the verification of what it left. *)

(* Where input i is first in the inputs s, 0 if it is not. *)
First(s, i) ==
    IF \E n \in DOMAIN s : s[n] = i
      THEN CHOOSE n \in DOMAIN s : s[n] = i /\ \A m \in 1 .. n - 1 : s[m] # i
      ELSE 0

(* Mutant: snapshots are not looked through for the token. *)
NoSnapshot(t, i) == 0

(* snapshot_for_token: the first snapshot of the token, 0 if there is none. *)
SnapshotForToken(t, i) == First(log[t], i)

LookToken(w) ==
    LET n == SnapshotForToken(job[w].table, job[w].input) IN
    /\ pc[w] = "append"
    /\ Goto(w, IF n = 0 THEN "write" ELSE "verify", [job[w] EXCEPT !.snapshot = n])
    /\ UNCHANGED <<registry, log>>

(* One Iceberg commit; then the snapshot is looked up by its token. *)
Write(w) ==
    LET t == job[w].table IN
    /\ pc[w] = "write"
    /\ Len(log[t]) < MaxAppends
    /\ log' = [log EXCEPT ![t] = Append(@, job[w].input)]
    /\ Goto(w, "verify", [job[w] EXCEPT !.snapshot =
          IF SnapshotForToken(t, job[w].input) # 0
            THEN SnapshotForToken(t, job[w].input) ELSE Len(log[t]) + 1])
    /\ UNCHANGED registry

(* verify_table against an input: row count and digest. *)
Holds(t, i) == log[t] = <<i>>

Verify(w) ==
    /\ pc[w] = "verify"
    /\ IF Holds(job[w].table, job[w].input) THEN Goto(w, "ledger", job[w]) ELSE Leave(w)
    /\ UNCHANGED <<registry, log>>

-----------------------------------------------------------------------------
(* record_target_commit, and then the two last shard states. *)

Recorded(w) == Goto(w, "mark", [job[w] EXCEPT !.to = "COMMITTED"])

LedgerLook(w) ==
    LET known == commits[job[w].table][job[w].input] IN
    /\ pc[w] = "ledger"
    /\ IF known = 0 THEN Goto(w, "record", job[w])
       ELSE IF known = job[w].snapshot THEN Recorded(w) ELSE Leave(w)
    /\ UNCHANGED <<registry, log>>

LedgerInsert(w) ==
    LET t == job[w].table  i == job[w].input IN
    /\ pc[w] = "record"
    /\ IF commits[t][i] = 0
         THEN commits' = [commits EXCEPT ![t][i] = job[w].snapshot] /\ Recorded(w)
         ELSE Leave(w) /\ UNCHANGED commits
    /\ UNCHANGED <<generation, shards, proof, log>>

-----------------------------------------------------------------------------
(* admit_snapshot: the shards; rows, then snapshot count, of one table after
   the other; the proof; the generation. *)

Complete == \A t \in Tables : shards[t].state = "RECONCILED"

CheckShards(w) ==
    /\ pc[w] = "shards"
    /\ IF Complete THEN Goto(w, "rows", job[w]) ELSE Leave(w)
    /\ UNCHANGED <<registry, log>>

(* A table has been counted once its count is not 0: it has rows by then.  The
   code takes the tables in the order of their names, this in any order. *)
CheckRows(w) ==
    LET left == {t \in Tables : job[w].counts[t] = 0} IN
    /\ pc[w] = "rows"
    /\ IF left = {} THEN Goto(w, "proof", job[w])
       ELSE \E t \in left :
              IF Holds(t, Source[t]) THEN Goto(w, "count", [job[w] EXCEPT !.table = t])
              ELSE Leave(w)
    /\ UNCHANGED <<registry, log>>

CheckCount(w) ==
    LET t == job[w].table IN
    /\ pc[w] = "count"
    /\ Goto(w, "rows", [job[w] EXCEPT !.counts[t] = Len(log[t]), !.table = Null])
    /\ UNCHANGED <<registry, log>>

(* record_admission_proof: the shards again, and an earlier proof. *)
ProofLook(w) ==
    /\ pc[w] = "proof"
    /\ IF ~Complete \/ proof \notin {Null, job[w].counts} THEN Leave(w)
       ELSE Goto(w, IF proof = Null THEN "saveproof" ELSE "revision", job[w])
    /\ UNCHANGED <<registry, log>>

ProofInsert(w) ==
    /\ pc[w] = "saveproof"
    /\ IF proof = Null THEN proof' = job[w].counts /\ Goto(w, "revision", job[w])
       ELSE Leave(w) /\ UNCHANGED proof
    /\ UNCHANGED <<generation, shards, commits, log>>

ReadRevision(w) ==
    /\ pc[w] = "revision"
    /\ Goto(w, "transition", [job[w] EXCEPT !.revision = generation.revision])
    /\ UNCHANGED <<registry, log>>

-----------------------------------------------------------------------------
(* transition: the row and, for admission, the proof are read; the update
   compares revision and state. *)

GenerationMoves == {<<"CREATED", "SNAPSHOT_LOADING">>, <<"SNAPSHOT_LOADING", "CDC_APPLYING">>}

MayMove(w) ==
    /\ generation.revision = job[w].revision
    /\ <<generation.state, job[w].to>> \in GenerationMoves
    /\ job[w].to = "CDC_APPLYING" => proof = job[w].counts

TransitionRead(w) ==
    /\ pc[w] = "transition"
    /\ IF MayMove(w) THEN Goto(w, "advance", job[w]) ELSE Leave(w)
    /\ UNCHANGED <<registry, log>>

TransitionWrite(w) ==
    /\ pc[w] = "advance"
    /\ generation' = IF generation.revision = job[w].revision
                       THEN [state |-> job[w].to, revision |-> job[w].revision + 1]
                       ELSE generation
    /\ Leave(w)
    /\ UNCHANGED <<shards, commits, proof, log>>

-----------------------------------------------------------------------------
Work(w) ==
    \/ ClaimState(w) \/ ClaimLook(w) \/ ClaimInsert(w) \/ MarkRead(w) \/ MarkWrite(w)
    \/ LookToken(w) \/ Write(w) \/ Verify(w) \/ LedgerLook(w) \/ LedgerInsert(w)
    \/ CheckShards(w) \/ CheckRows(w) \/ CheckCount(w) \/ ProofLook(w) \/ ProofInsert(w)
    \/ ReadRevision(w) \/ TransitionRead(w) \/ TransitionWrite(w)

Live == Register \/ \E w \in Workers : Call(w) \/ Work(w)

Next == Live \/ \E w \in Workers : Die(w)

Spec == Init /\ [][Next]_vars

(* The call the driver makes next, as far as the registry shows. *)
NextCall(w) ==
    \/ generation.state = "CREATED" /\ CallStart(w)
    \/ /\ generation.state = "SNAPSHOT_LOADING"
       /\ IF Complete THEN CallAdmit(w)
          ELSE \E t \in Tables : shards[t].state # "RECONCILED" /\ CallLoad(w, t, Source[t])

(* A call that has begun goes on, the driver is run again and again, and
   processes stop dying at some time. *)
Fairness ==
    /\ WF_vars(Register)
    /\ \A w \in Workers : WF_vars(Work(w))
    /\ SF_vars(\E w \in Workers : NextCall(w))
    /\ <>[][Live]_vars

FairSpec == Spec /\ Fairness
-----------------------------------------------------------------------------
(* The ledger tells the truth about Iceberg whatever workers race, die or come
   late: a recorded commit names a snapshot of its own token, the first; a
   shard that is committed has its commit recorded; a proof stands on
   reconciled shards only, and an admitted generation on a proof. *)
LedgerBacked ==
    /\ \A t \in Tables, i \in Inputs :
         commits[t][i] # 0 => commits[t][i] = SnapshotForToken(t, i)
    /\ \A t \in Tables :
         shards[t].state \in {"COMMITTED", "RECONCILED"} => commits[t][shards[t].input] # 0
    /\ proof # Null => \A t \in Tables : shards[t].state = "RECONCILED"
    /\ generation.state = "CDC_APPLYING" => proof # Null

(* With one process at a time, which may die anywhere and be started again,
   rows are appended once: no table has two snapshots, an admitted generation
   holds exactly the source's snapshot, and its proof counts what is there. *)
OnceIfAlone ==
    alone =>
        /\ \A t \in Tables : Len(log[t]) <= 1
        /\ generation.state = "CDC_APPLYING" =>
              \A t \in Tables : log[t] = <<Source[t]>> /\ proof[t] = 1

(* However often processes die, one at a time they get the generation
   admitted, unless a shard has been claimed for another input than the
   source's: claims are never given back. *)
EventuallyAdmitted ==
    alone ~> \/ generation.state = "CDC_APPLYING"
             \/ \E t \in Tables : shards[t].input \notin {Null, Source[t]}

-----------------------------------------------------------------------------
Promised == INSTANCE AdmittedSnapshot WITH
    landed <- {t \in Tables : log[t] # <<>>},
    reconciled <- {t \in Tables : shards[t].state = "RECONCILED"},
    admitted <- generation.state = "CDC_APPLYING"

(* Loading implements the promise, with any number of workers: nothing is
   reconciled before rows have landed, or admitted before all is reconciled,
   and neither is ever undone. *)
ImplementsAdmittedSnapshot == Promised!Spec

-----------------------------------------------------------------------------
(* Why the ledger is backed: what a worker has read is still so when it goes
   by it, as rows are only added and states only advance. *)
WorkerSound(w) ==
    LET t == job[w].table  i == job[w].input IN
    /\ pc[w] \in {"claim", "look", "insert", "mark", "marking", "append", "write",
                  "verify", "ledger", "record"} => t \in Tables /\ i \in Inputs
    /\ pc[w] \in {"mark", "marking", "append", "write", "verify", "ledger", "record"} =>
          shards[t].state # "NO_ROW" /\ shards[t].input = i
    /\ pc[w] \in {"mark", "marking"} =>
          /\ job[w].to \in {"STAGED", "COMMITTED", "RECONCILED"}
          /\ job[w].to # "STAGED" => commits[t][i] # 0
    /\ pc[w] = "marking" => <<job[w].from, job[w].to>> \in ShardMoves
    /\ pc[w] \in {"verify", "ledger", "record"} =>
          job[w].snapshot = SnapshotForToken(t, i) /\ job[w].snapshot # 0
    /\ pc[w] = "count" => t \in Tables
    /\ pc[w] = "saveproof" => Complete
    /\ pc[w] \in {"shards", "rows", "count", "proof", "saveproof", "revision"} =>
          job[w].to = "CDC_APPLYING"
    /\ pc[w] = "transition" => job[w].to \in {"SNAPSHOT_LOADING", "CDC_APPLYING"}
    /\ pc[w] = "advance" =>
          /\ job[w].to = "CDC_APPLYING" => proof # Null
          /\ job[w].revision <= generation.revision
          /\ job[w].revision = generation.revision =>
                <<generation.state, job[w].to>> \in GenerationMoves

(* With one process at a time: what it has counted is there, and it writes to
   an empty table. *)
AloneWorker(w) ==
    /\ pc[w] = "write" => log[job[w].table] = <<>>
    /\ pc[w] = "count" => Holds(job[w].table, Source[job[w].table])
    /\ \A t \in Tables : job[w].counts[t] # 0 => job[w].counts[t] = 1 /\ Holds(t, Source[t])
    /\ pc[w] \in {"proof", "saveproof"} => \A t \in Tables : job[w].counts[t] # 0

AloneSound ==
    alone =>
        /\ \A v, w \in Workers : pc[v] # "idle" /\ pc[w] # "idle" => v = w
        /\ \A w \in Workers : AloneWorker(w)
        /\ \A t \in Tables :
             log[t] = <<>> \/ (shards[t].state # "NO_ROW" /\ Holds(t, shards[t].input))
        /\ proof # Null => \A t \in Tables : proof[t] = 1 /\ Holds(t, Source[t])

(* The inductive invariant. *)
SnapInv ==
    /\ SnapTypeOK /\ LedgerBacked /\ AloneSound
    /\ \A w \in Workers : WorkerSound(w)
    /\ \A t \in Tables : shards[t].state # "NO_ROW" => shards[t].input \in Inputs
    /\ generation.state = "NO_ROW" => \A w \in Workers : pc[w] = "idle"
=============================================================================
