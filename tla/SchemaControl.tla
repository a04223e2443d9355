----------------------------- MODULE SchemaControl -----------------------------
(***************************************************************************)
(* Schema changes of one generation: the policy (schema_policy.py), the    *)
(* coordinator (schema_migration.py) over its two stores, the control      *)
(* store (schema_control.py) and the Iceberg table metadata                *)
(* (iceberg_schema.py), and the admission of CDC events                    *)
(* (schema_admission.py).  A worker is a process that executes one schema  *)
(* change or assembles one list of events.                                 *)
(*                                                                         *)
(* A decision is a function of what it decides on, so the change asked for *)
(* stands for its identity, digest, quarantine and apply token.  Where the *)
(* control store looks for a row and then inserts it, look and insert are  *)
(* one step: a process whose insert finds a row that came in between       *)
(* raises, and a worker may Die anywhere.  The optimistic commit of        *)
(* Iceberg that fails for a concurrent one is such a death too.  The       *)
(* adapter has one target table, whatever table a decision is of.          *)
(***************************************************************************)
EXTENDS Naturals, Sequences, FiniteSets, Functions

CONSTANTS
    Tables,       \* source tables
    Contract,     \* identity -> source contract: [table, fields, key], a key in its order
    Registered,   \* identities the registry resolves
    Base,         \* identity the target table was created from
    Changes,      \* the schema changes processes ask for
    Asked,        \* change -> what it is: [table, previous, candidate, policy]
    Revisions,    \* the generation revisions they name
    Workers,      \* processes
    Duty,         \* worker -> the changes it executes
    Assemblers,   \* the workers that assemble events
    MaxLocation,  \* bound: metadata files the target table gets
    MaxEvents,    \* bound: events assembled by one call
    Null

Field == [name : STRING, type : STRING, nullable : BOOLEAN]

Contracts == DOMAIN Contract

ASSUME ContractAssumption ==
    /\ \A c \in Contracts :
         /\ Contract[c].table \in Tables
         /\ \A f \in Contract[c].fields : f \in Field
         /\ \A f, g \in Contract[c].fields : f.name = g.name => f = g
         /\ \A k \in Range(Contract[c].key) : \E f \in Contract[c].fields : f.name = k /\ ~f.nullable
    /\ Registered \subseteq Contracts
    /\ Base \in Contracts
    /\ DOMAIN Asked = Changes /\ Duty \in [Workers -> SUBSET Changes]
    /\ \A d \in Changes : /\ Asked[d].table \in Tables
                         /\ {Asked[d].previous, Asked[d].candidate} \subseteq Contracts
ASSUME BoundAssumption ==
    /\ MaxLocation \in Nat /\ MaxEvents \in Nat /\ Revisions \subseteq Nat
    /\ Null \notin Nat \cup Changes \cup [change : Changes, revision : Nat]

VARIABLES
    alone,        \* whether operators run one process at a time; never changes
    decisions,    \* schema_decisions
    quarantines,  \* schema_quarantines, all OPEN: change -> metadata location
    rejection,    \* the generation's row of schema_generation_rejections, or Null
    receipts,     \* schema_apply_receipts: change -> metadata location, or Null
    target,       \* Iceberg metadata of the target table
    pc,           \* worker -> where its call stands
    job           \* worker -> its arguments and what it has read

control == <<decisions, quarantines, rejection, receipts>>
vars == <<alone, control, target, pc, job>>

Names(c) == {f.name : f \in c.fields}

Labels == {"idle", "metadata", "quarantine", "reject", "token", "commit",
           "visible", "receipt", "rejection", "quarantined", "admission", "planned"}

TableOf(d) == Asked[d].table
Old(d) == Contract[Asked[d].previous]
New(d) == Contract[Asked[d].candidate]

Metadata == [columns : SUBSET UNION {Names(Contract[c]) : c \in Contracts},
             token : Changes \cup {Null}, location : Nat]

(* closed, of a worker that assembles events, is what its call found had
   happened before it began; the code has no such variable. *)
NoJob == [change |-> Null, revision |-> 0, location |-> 0, plan |-> {}, left |-> 0,
          closed |-> FALSE]

Job == [change : Changes \cup {Null}, revision : Nat, location : Nat,
        plan : SUBSET Changes, left : Nat, closed : BOOLEAN]

SchemaTypeOK ==
    /\ alone \in BOOLEAN
    /\ decisions \in SUBSET Changes
    /\ quarantines \in [Changes -> Nat \cup {Null}]
    /\ rejection \in [change : Changes, revision : Nat] \cup {Null}
    /\ receipts \in [Changes -> Nat \cup {Null}]
    /\ target \in Metadata
    /\ pc \in [Workers -> Labels]
    /\ job \in [Workers -> Job]

Init ==
    /\ alone \in BOOLEAN
    /\ decisions = {}
    /\ quarantines = [d \in Changes |-> Null]
    /\ rejection = Null
    /\ receipts = [d \in Changes |-> Null]
    /\ target = [columns |-> Names(Contract[Base]), token |-> Null, location |-> 0]
    /\ pc = [w \in Workers |-> "idle"]
    /\ job = [w \in Workers |-> NoJob]

-----------------------------------------------------------------------------
(* SchemaPolicy.decide *)

FieldOf(c, n) == CHOOSE f \in c.fields : f.name = n
Added(d) == {f \in New(d).fields : f.name \notin Names(Old(d))}
AddedNames(d) == {f.name : f \in Added(d)}

Known(d) ==
    /\ Asked[d].policy = "current"
    /\ {Asked[d].previous, Asked[d].candidate} \subseteq Registered
    /\ Old(d).table = TableOf(d) /\ New(d).table = TableOf(d)

KeepsKey(d) == Old(d).key = New(d).key
RemovesNone(d) == Names(Old(d)) \subseteq Names(New(d))

(* Mutant: a field that is no longer nullable passes. *)
KeepsFieldsType(d) ==
    \A n \in Names(Old(d)) \cap Names(New(d)) :
        FieldOf(Old(d), n).type = FieldOf(New(d), n).type

KeepsFields(d) ==
    \A n \in Names(Old(d)) \cap Names(New(d)) :
        LET old == FieldOf(Old(d), n)  new == FieldOf(New(d), n) IN
        old.type = new.type /\ (old.nullable => new.nullable)

AddsNullable(d) == \A f \in Added(d) : f.nullable

Verdict(d) ==
    IF ~Known(d) THEN "UNKNOWN"
    ELSE IF KeepsKey(d) /\ RemovesNone(d) /\ KeepsFields(d) /\ AddsNullable(d)
      THEN "COMPATIBLE" ELSE "INCOMPATIBLE"

Compatible == {d \in Changes : Verdict(d) = "COMPATIBLE"}
Incompatible == {d \in Changes : Verdict(d) = "INCOMPATIBLE"}

-----------------------------------------------------------------------------
Goto(w, l, j) ==
    /\ pc' = [pc EXCEPT ![w] = l]
    /\ job' = [job EXCEPT ![w] = IF l = "idle" THEN NoJob ELSE j]
    /\ UNCHANGED alone

(* The call returns, raises or dies; what it has committed stays. *)
Leave(w) == Goto(w, "idle", NoJob)

Begin(w, l, j) ==
    /\ pc[w] = "idle"
    /\ alone => \A v \in Workers : pc[v] = "idle"
    /\ Goto(w, l, j)
    /\ UNCHANGED target

(* SchemaMigrationCoordinator.execute begins with the decision's row. *)
Execute(w, d, r) ==
    /\ Begin(w, IF d \in Compatible THEN "token" ELSE "metadata",
             [NoJob EXCEPT !.change = d, !.revision = r])
    /\ decisions' = decisions \cup {d}
    /\ UNCHANGED <<quarantines, rejection, receipts>>

Closed == rejection # Null \/ \E d \in Changes : quarantines[d] # Null

(* assemble_policy_bound_transactions of n events, with one decision per table;
   all but COMPATIBLE ones are refused (CB25A001). *)
Assemble(w, ds, n) ==
    /\ ds \subseteq Compatible
    /\ \A d, e \in ds : TableOf(d) = TableOf(e) => d = e
    /\ Begin(w, "rejection", [NoJob EXCEPT !.plan = ds, !.left = n,
                                          !.closed = Closed])
    /\ UNCHANGED control

Die(w) == pc[w] # "idle" /\ Leave(w) /\ UNCHANGED <<control, target>>

(* Data is loaded or applied by others: a new metadata file, the same schema. *)
DataCommit ==
    /\ target.location < MaxLocation
    /\ target' = [target EXCEPT !.location = @ + 1]
    /\ UNCHANGED <<alone, control, pc, job>>

-----------------------------------------------------------------------------
(* An unknown or incompatible change. *)

ReadMetadata(w) ==
    /\ pc[w] = "metadata"
    /\ Goto(w, "quarantine", [job[w] EXCEPT !.location = target.location])
    /\ UNCHANGED <<control, target>>

(* A quarantine of the same change at another metadata file is a conflict
   (CB25C003).  Nothing closes a quarantine. *)
OpenQuarantine(w) ==
    LET d == job[w].change IN
    /\ pc[w] = "quarantine"
    /\ IF quarantines[d] \in {Null, job[w].location}
         THEN /\ quarantines' = [quarantines EXCEPT ![d] = job[w].location]
              /\ Goto(w, IF d \in Incompatible THEN "reject" ELSE "idle", job[w])
         ELSE Leave(w) /\ UNCHANGED quarantines
    /\ UNCHANGED <<decisions, rejection, receipts, target>>

(* One rejection per generation; another decision or revision is a conflict
   (CB25C008).  The look at the metadata that follows changes nothing. *)
RejectGeneration(w) ==
    /\ pc[w] = "reject"
    /\ rejection' = IF rejection # Null THEN rejection
                    ELSE [change |-> job[w].change, revision |-> job[w].revision + 1]
    /\ Leave(w)
    /\ UNCHANGED <<decisions, quarantines, receipts, target>>

(* One nullable field outside the key is all the adapter can add (CB25I005,
   CB25I006). *)
Supported(d) ==
    /\ Cardinality(Added(d)) = 1
    /\ \A f \in Added(d) : f.nullable /\ f.name \notin Range(New(d).key)

(* Mutant: any token is taken for the change's own. *)
LookTokenAny(w) ==
    LET d == job[w].change IN
    /\ pc[w] = "token"
    /\ IF target.token # Null THEN Goto(w, "receipt", [job[w] EXCEPT !.location = target.location])
       ELSE IF Supported(d) THEN Goto(w, "commit", job[w]) ELSE Leave(w)
    /\ UNCHANGED <<control, target>>

(* Mutant: a change that is on the table already is refused. *)
LookTokenNone(w) ==
    LET d == job[w].change IN
    /\ pc[w] = "token"
    /\ IF target.token = Null /\ Supported(d) THEN Goto(w, "commit", job[w])
       ELSE Leave(w)
    /\ UNCHANGED <<control, target>>

(* apply: a table that carries a token is not touched again; another's token
   is a conflict (CB25I004). *)
LookToken(w) ==
    LET d == job[w].change IN
    /\ pc[w] = "token"
    /\ IF target.token = d THEN Goto(w, "receipt", [job[w] EXCEPT !.location = target.location])
       ELSE IF target.token = Null /\ Supported(d) THEN Goto(w, "commit", job[w])
       ELSE Leave(w)
    /\ UNCHANGED <<control, target>>

(* The table is loaded anew and column and token are added in one commit: a
   column that is there makes it fail, a token that is there does not. *)
Commit(w) ==
    LET d == job[w].change IN
    /\ pc[w] = "commit"
    /\ IF AddedNames(d) \cap target.columns # {}
         THEN Leave(w) /\ UNCHANGED target
         ELSE /\ target.location < MaxLocation
              /\ target' = [target EXCEPT !.columns = @ \cup AddedNames(d),
                                          !.token = d, !.location = @ + 1]
              /\ Goto(w, "visible", job[w])
    /\ UNCHANGED control

(* The metadata is read again (CB25I007); a data snapshot that others have
   committed since makes the call fail (CB25I008), as Die does. *)
SeeCommit(w) ==
    /\ pc[w] = "visible"
    /\ IF target.token = job[w].change
         THEN Goto(w, "receipt", [job[w] EXCEPT !.location = target.location])
         ELSE Leave(w)
    /\ UNCHANGED <<control, target>>

(* A receipt of the table, candidate and policy, of any decision. *)
Receipted(d) ==
    \E e \in Compatible :
        receipts[e] # Null /\ TableOf(e) = TableOf(d) /\ Asked[e].candidate = Asked[d].candidate

(* A receipt at another metadata file is a conflict (CB25C004); a receipt of
   another decision for the same candidate violates UNIQUE. *)
SaveReceipt(w) ==
    LET d == job[w].change IN
    /\ pc[w] = "receipt"
    /\ receipts' = IF Receipted(d) THEN receipts
                   ELSE [receipts EXCEPT ![d] = job[w].location]
    /\ Leave(w)
    /\ UNCHANGED <<decisions, quarantines, rejection, target>>

-----------------------------------------------------------------------------
(* require_admission, once for each event of each table: three reads. *)

ReadRejection(w) ==
    /\ pc[w] = "rejection"
    /\ IF rejection = Null THEN Goto(w, "quarantined", job[w]) ELSE Leave(w)
    /\ UNCHANGED <<control, target>>

(* Mutant: the quarantines of the table at hand only. *)
QuarantinedTable(w) ==
    \E d \in Changes : quarantines[d] # Null /\ TableOf(d) \in {TableOf(e) : e \in job[w].plan}

Quarantined(w) == \E d \in Changes : quarantines[d] # Null

ReadQuarantines(w) ==
    /\ pc[w] = "quarantined"
    /\ IF Quarantined(w) THEN Leave(w) ELSE Goto(w, "admission", job[w])
    /\ UNCHANGED <<control, target>>

ReadAdmission(w) ==
    /\ pc[w] = "admission"
    /\ \E d \in job[w].plan :
         IF ~Receipted(d) THEN Leave(w)
         ELSE Goto(w, IF job[w].left = 1 THEN "planned" ELSE "rejection",
                   [job[w] EXCEPT !.left = @ - 1])
    /\ UNCHANGED <<control, target>>

(* The plans go to the CDC coordinator. *)
HandOver(w) == pc[w] = "planned" /\ Leave(w) /\ UNCHANGED <<control, target>>

-----------------------------------------------------------------------------
Work(w) ==
    \/ ReadMetadata(w) \/ OpenQuarantine(w) \/ RejectGeneration(w)
    \/ LookToken(w) \/ Commit(w) \/ SeeCommit(w) \/ SaveReceipt(w)
    \/ ReadRejection(w) \/ ReadQuarantines(w) \/ ReadAdmission(w) \/ HandOver(w)

Live ==
    \/ \E w \in Workers :
         \/ \E d \in Duty[w], r \in Revisions : Execute(w, d, r)
         \/ w \in Assemblers /\ \E ds \in SUBSET Changes \ {{}}, n \in 1 .. MaxEvents : Assemble(w, ds, n)
         \/ Work(w)
    \/ DataCommit

Next == Live \/ \E w \in Workers : Die(w)

Spec == Init /\ [][Next]_vars

(* A change that is on its table and has no receipt is asked for again. *)
Retry(w) ==
    \E d \in Duty[w], r \in Revisions :
        target.token = d /\ receipts[d] = Null /\ Execute(w, d, r)

(* A call that has begun goes on, operators repeat a change that was cut off,
   and processes stop dying at some time. *)
Fairness ==
    /\ \A w \in Workers : WF_vars(Work(w))
    /\ SF_vars(\E w \in Workers : Retry(w))
    /\ <>[][Live]_vars

FairSpec == Spec /\ Fairness
-----------------------------------------------------------------------------
(* What a contract says of a row, by the types of its values; a column the
   row was written without reads as null. *)
Row(c, r) == \A f \in c.fields : r[f.name] = f.type \/ (f.nullable /\ r[f.name] = "null")

RowsOf(c) ==
    {r \in [Names(c) -> {f.type : f \in c.fields} \cup {"null"}] : Row(c, r)}

ReadUnder(c, r) == [n \in Names(c) |-> IF n \in DOMAIN r THEN r[n] ELSE "null"]

PreservesRows ==
    {d \in Changes : \A r \in RowsOf(Old(d)) :
        /\ Row(New(d), ReadUnder(New(d), r))
        /\ DOMAIN r \subseteq Names(New(d))}

(* A receipt is of a change that was decided, and under whose candidate every
   row written before reads as a valid row with all its columns, and the target
   table has the candidate's new column. *)
ReceiptsPreserveRows ==
    \A d \in Changes : receipts[d] # Null =>
        /\ d \in decisions \cap PreservesRows
        /\ AddedNames(d) \subseteq target.columns

(* One process at a time, dying anywhere and started again: the target table
   evolves once, whatever tables the changes are of, and a receipted change
   that started from its contract describes exactly the columns it has. *)
AloneReceiptsTarget ==
    alone => \A d \in Changes :
        receipts[d] # Null =>
            /\ target.token = d
            /\ Asked[d].previous = Base =>
                   target.columns = Names(New(d))

(* A call that begins when the generation is quarantined or rejected never
   gets a plan, though it reads rejection and quarantines one after the other
   and table by table: a rejection never comes without its quarantine. *)
NoLatePlan ==
    /\ rejection # Null => quarantines[rejection.change] # Null
    /\ \A w \in Workers : pc[w] = "planned" => ~job[w].closed

(* A schema change that reached the table gets its receipt, wherever the
   process died, unless a racing change has overwritten its token or got a
   receipt for the same candidate. *)
CommittedIsReceipted ==
    \A d \in Compatible :
        target.token = d ~> (Receipted(d) \/ target.token # d)

-----------------------------------------------------------------------------
(* Why these hold.  Of a worker: what it has decided and seen stays so. *)
WorkerSound(w) ==
    LET d == job[w].change IN
    /\ pc[w] \in {"metadata", "quarantine", "reject"} => d \in Changes
    /\ pc[w] = "reject" => quarantines[d] # Null
    /\ pc[w] \in {"token", "commit", "visible", "receipt"} => d \in decisions \cap Compatible
    /\ pc[w] = "receipt" => AddedNames(d) \subseteq target.columns
    /\ pc[w] \in {"rejection", "quarantined", "admission"} => job[w].left > 0
    /\ job[w].closed => \E e \in Changes : quarantines[e] # Null
    /\ pc[w] \in {"admission", "planned"} => ~job[w].closed

(* A token is a compatible change's whose columns are on the table. *)
TokenSound ==
    target.token # Null =>
        /\ target.token \in Compatible
        /\ AddedNames(target.token) \subseteq target.columns

(* With one process at a time a worker past its look at the token is the only
   one, the table has the columns of its first contract and of its token, and
   the token is the receipted change. *)
AloneSound ==
    alone =>
        /\ \A v, w \in Workers : pc[v] # "idle" /\ pc[w] # "idle" => v = w
        /\ \A w \in Workers :
             /\ pc[w] = "commit" => target.token = Null
             /\ pc[w] \in {"visible", "receipt"} => target.token = job[w].change
        /\ \A d \in Changes : receipts[d] # Null => target.token = d
        /\ target.columns = Names(Contract[Base]) \cup
               (IF target.token = Null THEN {} ELSE AddedNames(target.token))

(* The inductive invariant. *)
SchemaInv ==
    /\ SchemaTypeOK /\ ReceiptsPreserveRows /\ NoLatePlan /\ AloneSound
    /\ TokenSound /\ \A w \in Workers : WorkerSound(w)
=============================================================================
