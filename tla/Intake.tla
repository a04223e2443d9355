-------------------------------- MODULE Intake --------------------------------
(***************************************************************************)
(* From landed files to proven rows: the transport leaves the objects of a *)
(* raw landing; the normaliser (normalizer.py, contracts.py) accepts, drops*)
(* or quarantines each record and publishes a bundle by one rename; the    *)
(* assembler (cdc_ordering.py, transaction_assembler.py) makes plans of it,*)
(* bound to a manifest; the reference store (reference_cdc.py) applies them*)
(* and reconciliation (hierarchical_reconciliation.py) compares the rows.  *)
(*                                                                         *)
(* The transport may lose, repeat, alter and misplace records and objects. *)
(* Abstracted: tables and keys are one key space, rows are values, a digest*)
(* is what it digests; a record that names another run, contract or schema *)
(* names another generation; the checks of shape and encoding do not fail. *)
(***************************************************************************)
EXTENDS Naturals, FiniteSets, Sequences, Functions

CONSTANTS
    Keys,
    Values,
    Generation,
    Snapshot,     \* key -> value at Start, or None
    Start, End,   \* the manifest's interval
    History,      \* the records of the committed transactions in the interval
    Strays,       \* records the source never wrote: altered, misplaced, foreign
    Objects,      \* what a landing may list: [start, end]
    Copies,       \* bound: deliveries of one record
    None

Operations == {"insert", "update", "delete", "snapshot"}
Record == [op : Operations, key : Keys, before : Values \cup {None},
           after : Values \cup {None}, tx : STRING, lsn : Nat, txseq : Nat,
           seq : Nat \ {0}, generation : {Generation, None}]

SnapshotRecords ==
    {[op |-> "snapshot", key |-> k, before |-> None, after |-> Snapshot[k],
      tx |-> "snapshot-batch", lsn |-> Start, txseq |-> 0, seq |-> 1,
      generation |-> Generation] : k \in {k \in Keys : Snapshot[k] # None}}
Source == SnapshotRecords \cup History

ASSUME HistoryAssumption ==
    /\ Snapshot \in [Keys -> Values \cup {None}]
    /\ Start \in Nat /\ End \in Nat /\ Copies \in Nat
    /\ History \cup Strays \subseteq Record /\ IsFiniteSet(History \cup Strays)
    /\ Strays \cap Source = {}
    /\ \A r \in History : /\ r.op # "snapshot" /\ r.generation = Generation
                         /\ Start < r.lsn /\ r.lsn <= End
    /\ \A r, s \in History : r.tx = s.tx <=> r.lsn = s.lsn
    /\ \A r, s \in History : r.tx = s.tx => r.txseq = s.txseq
    /\ \A r, s \in History : r.tx = s.tx /\ r.seq = s.seq => r = s

VARIABLES
    stage,
    landing,     \* the objects that are left to read, after validation
    landed,      \* record -> how often it has been read
    accepted,    \* accepted_by_id
    quarantine,  \* the records quarantined
    temp,        \* files in the temporary directory
    output,      \* the published bundle, or None
    plans,       \* the plans assembled
    todo,        \* the plans that are left to apply
    rows,        \* reference store: key -> value, or None
    applied,     \* reference store: the plans of its transactions
    tombstones,  \* reference store: identities of deletes
    verdict      \* of reconciliation

intakeVars == <<stage, landing, landed, accepted, quarantine, temp, output, plans,
                todo, rows, applied, tombstones, verdict>>
reading == <<landing, landed, accepted, quarantine>>
applying == <<plans, todo, rows, applied, tombstones, verdict>>

Records == Source \cup Strays
Files == <<"canonical.json", "quarantine.json", "report.json">>
Bundle == [files : SUBSET Range(Files), canonical : SUBSET Records, quarantine : SUBSET Records]

ASSUME NoneAssumption == None \notin Values \cup Bundle

IntakeInit ==
    /\ stage = "idle"
    /\ landing = <<>>
    /\ landed = [r \in Records |-> 0]
    /\ accepted = {} /\ quarantine = {}
    /\ temp = <<>> /\ output = None
    /\ plans = {} /\ todo = {}
    /\ rows = [k \in Keys |-> None]
    /\ applied = {} /\ tombstones = {} /\ verdict = None

-----------------------------------------------------------------------------
(* validate_manifest: the objects, in their order, must tile the interval;
   an object that is missing, repeated or out of order leaves a gap. *)
Tiles(objects) ==
    /\ objects # <<>>
    /\ objects[1].start = Start
    /\ objects[Len(objects)].end = End
    /\ \A i \in DOMAIN objects :
         /\ objects[i].start < objects[i].end
         /\ i > 1 => objects[i].start = objects[i - 1].end

ValidateManifest(objects) ==
    /\ stage = "idle" /\ output = None
    /\ IF Tiles(objects)
         THEN stage' = "normalize" /\ landing' = objects
         ELSE stage' = "refused" /\ UNCHANGED landing
    /\ UNCHANGED <<landed, accepted, quarantine, temp, output, applying>>

(* The records of the source that belong in an object. *)
Within(o) == {r \in Source : \/ o.start < r.lsn /\ r.lsn <= o.end
                             \/ r.lsn = Start /\ o.start = Start}

WrongImages(r) ==
    \/ r.op \in {"snapshot", "insert"} /\ (r.before # None \/ r.after = None)
    \/ r.op = "update" /\ (r.before = None \/ r.after = None)
    \/ r.op = "delete" /\ (r.before = None \/ r.after # None)

(* The snapshot is at Start, a change after it and not after the end. *)
Misplaced(r) == IF r.op = "snapshot" THEN r.lsn # Start ELSE r.lsn \notin (Start + 1) .. End

Rejected(r) == r.generation # Generation \/ WrongImages(r) \/ Misplaced(r)

(* event_id: everything but the images. *)
Identity(r) == <<r.lsn, r.tx, r.txseq, r.seq, r.key, r.op>>

(* Mutant: the first record of an identity is kept in silence. *)
ConflictsNever(r) == FALSE

(* Another record of the identity was accepted, with other images. *)
Conflicts(r) == \E a \in accepted : Identity(a) = Identity(r) /\ a # r

(* The loop body of normalize_manifest.  A record that is accepted again is a
   duplicate and changes nothing. *)
NormalizeRecord(r) ==
    /\ stage = "normalize"
    /\ landed[r] < Copies
    /\ landed' = [landed EXCEPT ![r] = @ + 1]
    /\ IF Rejected(r) \/ Conflicts(r)
         THEN quarantine' = quarantine \cup {r} /\ UNCHANGED accepted
         ELSE IF \E a \in accepted : Identity(a) = Identity(r)
                THEN UNCHANGED <<accepted, quarantine>>
                ELSE accepted' = accepted \cup {r} /\ UNCHANGED quarantine
    /\ UNCHANGED <<stage, landing, temp, output, applying>>

(* The object has no more records; after the last one the bundle is written. *)
EndObject ==
    /\ stage = "normalize"
    /\ landing' = Tail(landing)
    /\ stage' = IF Len(landing) = 1 THEN "write" ELSE stage
    /\ UNCHANGED <<landed, accepted, quarantine, temp, output, applying>>

-----------------------------------------------------------------------------
(* write_bundle_atomic: three files in a temporary directory, then a rename. *)

WriteFile ==
    /\ stage = "write" /\ Len(temp) < Len(Files)
    /\ temp' = Append(temp, Files[Len(temp) + 1])
    /\ UNCHANGED <<stage, reading, output, applying>>

Written == Len(temp) = Len(Files)

(* os.replace: a bundle may be there and hold quarantined records. *)
Publish ==
    /\ stage = "write" /\ Written
    /\ output' = [files |-> Range(temp), canonical |-> accepted, quarantine |-> quarantine]
    /\ temp' = <<>>
    /\ stage' = "published"
    /\ UNCHANGED <<reading, applying>>

(* Only what the hand-off lets through is assembled (normalize_full_handoff,
   CBH005); the command line's exit code says the same.  A process that died
   before it said so leaves the question to the next run. *)
HandOff ==
    /\ stage = "published"
    /\ stage' = IF output.quarantine = {} THEN "assemble" ELSE "refused"
    /\ UNCHANGED <<reading, temp, output, applying>>

-----------------------------------------------------------------------------
(* event_order_key of cdc_ordering.py *)
Before(r, s) ==
    \/ r.lsn < s.lsn
    \/ r.lsn = s.lsn /\ r.txseq < s.txseq
    \/ r.lsn = s.lsn /\ r.txseq = s.txseq /\ r.seq < s.seq

(* ordered_events fails if a transaction has two events of one sequence. *)
Orderable(events) == \A r, s \in events : r.tx = s.tx /\ r.seq = s.seq => r = s

TransactionsIn(events) == {r.tx : r \in events}
EventsOf(events, t) == {r \in events : r.tx = t}
Ids(events) == {Identity(r) : r \in events}

(* build_apply_manifest: what each transaction consists of; in their order,
   its events are numbered from 1 on.  Identities are listed in that order,
   which they determine, so the list is their set. *)
Describable(events) ==
    /\ Orderable(events)
    /\ \A r \in events :
         r.seq = Cardinality({s \in EventsOf(events, r.tx) : Before(s, r)}) + 1
Manifest(events) ==
    [t \in TransactionsIn(events) |-> Ids(EventsOf(events, t))]

(* Mutant: a transaction is complete when it has no event too many. *)
CompleteEnough(events, manifest) ==
    /\ DOMAIN manifest = TransactionsIn(events)
    /\ \A t \in DOMAIN manifest : Ids(EventsOf(events, t)) \subseteq manifest[t]

(* assemble_transactions: the same transactions, of the same events. *)
Complete(events, manifest) ==
    /\ DOMAIN manifest = TransactionsIn(events)
    /\ \A t \in DOMAIN manifest : Ids(EventsOf(events, t)) = manifest[t]

Plans(events, manifest) ==
    {[tx |-> t, events |-> EventsOf(events, t), manifest |-> manifest] :
        t \in TransactionsIn(events)}

FirstOf(events) == CHOOSE r \in events : \A s \in events : s = r \/ Before(r, s)

(* The order plans are given in: the sequence of a plan's first event.  Equal
   ones go by transaction identity, here in any order. *)
BySequence(p, q) == FirstOf(p.events).txseq < FirstOf(q.events).txseq

(* The manifest was built from the source's history, or from the bundle
   itself (build_stage24_fixtures.py).  The interval is that of the landing;
   the checks of operations, images and generation repeat the normaliser's. *)
Assemble(own) ==
    LET events == {r \in output.canonical : r.op # "snapshot"}
        from == IF own THEN events ELSE History
    IN
    /\ stage = "assemble"
    /\ IF Describable(from) /\ Orderable(events) /\ Complete(events, Manifest(from))
         THEN /\ stage' = "apply"
              /\ plans' = Plans(events, Manifest(from)) /\ todo' = plans'
              /\ rows' = Snapshot      \* initialize
         ELSE stage' = "refused" /\ UNCHANGED <<plans, todo, rows>>
    /\ UNCHANGED <<reading, temp, output, applied, tombstones, verdict>>

-----------------------------------------------------------------------------
(* ReferenceCDCStore.apply: the value of a key after some events, in their
   order, were applied to a table. *)
Touching(events, k) == {r \in events : r.key = k}
LastOf(events) == CHOOSE r \in events : \A s \in events : s = r \/ Before(s, r)
Value(table, events, k) ==
    IF Touching(events, k) = {} THEN table[k] ELSE LastOf(Touching(events, k)).after

(* Every event finds the row it says it changes. *)
Fits(table, events) ==
    \A r \in events : r.before = Value(table, {s \in events : Before(s, r)}, r.key)
Changed(table, events) == [k \in Keys |-> Value(table, events, k)]
Deletes(events) == {Identity(r) : r \in {r \in events : r.op = "delete"}}

(* Mutant: a transaction is applied however often it comes. *)
SeenNever(p) == FALSE

Seen(p) == \E q \in applied : q.tx = p.tx

(* The next plan, in one SQLite transaction, or nothing of it if an event is
   refused. *)
Apply(p) ==
    /\ stage = "apply" /\ p \in todo
    /\ \A q \in todo : ~BySequence(q, p)
    /\ \/ /\ Seen(p) /\ p \in applied
          /\ todo' = todo \ {p}
          /\ UNCHANGED <<stage, rows, applied, tombstones>>
       \/ /\ ~Seen(p) /\ Fits(rows, p.events)
          /\ rows' = Changed(rows, p.events)
          /\ applied' = applied \cup {p}
          /\ tombstones' = tombstones \cup Deletes(p.events)
          /\ todo' = todo \ {p}
          /\ UNCHANGED stage
       \/ /\ IF Seen(p) THEN p \notin applied ELSE ~Fits(rows, p.events)
          /\ stage' = "refused"
          /\ UNCHANGED <<todo, rows, applied, tombstones>>
    /\ UNCHANGED <<reading, temp, output, plans, verdict>>

(* The plans are given again, in the same store. *)
Replay ==
    /\ stage = "apply" /\ todo # plans
    /\ todo' = plans
    /\ UNCHANGED <<stage, reading, temp, output, plans, rows, applied, tombstones, verdict>>

(* What the source holds at the end of the interval. *)
SourceRows == Changed(Snapshot, History)

Mismatches == {k \in Keys : rows[k] # SourceRows[k]}

Reconcile ==
    /\ stage = "apply" /\ todo = {}
    /\ verdict' = IF Mismatches = {} THEN "PASS" ELSE "FAIL"
    /\ stage' = "done"
    /\ UNCHANGED <<reading, temp, output, plans, todo, rows, applied, tombstones>>

-----------------------------------------------------------------------------
(* The process dies; a temporary directory stays behind that nobody reads. A
   later run has the bundle, which it takes through the hand-off again, or reads
   a landing of its own; it has a reference store of its own. *)
Die ==
    /\ stage \notin {"idle", "refused", "done"}
    /\ stage' = IF output = None THEN "idle" ELSE "published"
    /\ IF output = None THEN landing' = <<>> /\ landed' = [r \in Records |-> 0]
                             /\ accepted' = {} /\ quarantine' = {}
                        ELSE UNCHANGED reading
    /\ temp' = <<>>
    /\ plans' = {} /\ todo' = {}
    /\ rows' = [k \in Keys |-> None] /\ applied' = {} /\ tombstones' = {}
    /\ UNCHANGED <<output, verdict>>

Sequences == UNION {[1 .. n -> Objects] : n \in 0 .. Cardinality(Objects)}

Land ==
    \/ \E objects \in Sequences : ValidateManifest(objects)
    \/ landing # <<>> /\ \E r \in Within(landing[1]) \cup Strays : NormalizeRecord(r)

Work ==
    \/ EndObject \/ WriteFile \/ Publish \/ HandOff
    \/ \E own \in BOOLEAN : Assemble(own)
    \/ \E p \in todo : Apply(p)
    \/ Reconcile

IntakeNext == Land \/ Work \/ Replay \/ Die
IntakeSpec == IntakeInit /\ [][IntakeNext]_intakeVars

(* The process goes on while it runs; it is not killed, nor given its plans
   again, for ever. *)
FairIntake == IntakeSpec /\ WF_intakeVars(Work) /\ <>[][Land \/ Work]_intakeVars
-----------------------------------------------------------------------------
(* The shape of the state; a bundle that can be read has all of its files,
   and no record that was landed is missing from it. *)
IntakeTypeOK ==
    /\ stage \in {"idle", "normalize", "write", "published", "assemble", "apply", "done",
                "refused"}
    /\ landed \in [Records -> 0 .. Copies]
    /\ accepted \cup quarantine = {r \in Records : landed[r] > 0}
    /\ output # None => /\ output.files = Range(Files)
                        /\ output.canonical = accepted /\ output.quarantine = quarantine
    /\ rows \in [Keys -> Values \cup {None}]
    /\ verdict \in {None, "PASS", "FAIL"}

(* Of two records that claim to be one event and differ, the objects' order
   decides which is accepted: neither is ever applied, whatever the order,
   and neither is a record from outside the landing's interval. *)
DoubtIsNeverApplied ==
    \A p \in applied : \A r \in p.events :
        /\ r.lsn \in (Start + 1) .. End
        /\ \A s \in Records : landed[s] > 0 /\ Identity(s) = Identity(r) => s = r

CommittedBy(n) == {r \in History : r.lsn <= n}
Applied == UNION {p.events : p \in applied}

(* What is applied is the source's own, under a manifest of its history. *)
OwnHistory ==
    /\ stage \in {"apply", "done"}
    /\ Applied \cap Strays = {}
    /\ \A p \in plans : p.manifest = Manifest(History)

(* However the records were delivered, lost, repeated and replayed, and
   wherever the process died: what a manifest of the source's history lets
   through, strays apart, is whole transactions in commit order, and the rows
   and tombstones are those of the source at the last of them. *)
AppliesPrefixes ==
    OwnHistory =>
        \E n \in {Start} \cup {r.lsn : r \in History} :
            /\ Applied = CommittedBy(n)
            /\ Fits(Snapshot, CommittedBy(n)) /\ rows = Changed(Snapshot, CommittedBy(n))
            /\ tombstones = Deletes(CommittedBy(n))

(* The sequence numbers of the source's transactions follow its commits. *)
InSequence == \A r, s \in History : r.lsn < s.lsn => r.txseq < s.txseq

(* contracts/transactional-apply-v1.json orders transactions by their LSN, then
   by sequence: one is applied when those that committed before it are. *)
AppliedInCommitOrder ==
    \A p \in applied, q \in plans :
        (\E r \in p.events, s \in q.events : s.lsn < r.lsn) => q \in applied

CleanBundle == output # None /\ output.canonical = Source /\ output.quarantine = {}

(* The source is a database: the events of a transaction are numbered from 1 on,
   and each finds the row that those before it left. *)
SoundSource == InSequence /\ Describable(History) /\ Fits(Snapshot, History)

(* A bundle of the source's records, however it was put together, is refused by
   no check of assembler, reference store or reconciliation, whichever manifest
   it is bound to, wherever the process died and whatever was replayed. *)
CleanIsNotRefused ==
    SoundSource /\ CleanBundle =>
        stage # "refused" /\ (stage = "done" => verdict = "PASS")

(* A bundle of the source's records is proven, whatever it went through and
   whichever manifest it is bound to. *)
CleanBundlePasses == CleanBundle ~> verdict = "PASS"
-----------------------------------------------------------------------------
(* What every state satisfies, and every step preserves. *)

(* The temporary directory holds the first of the files. *)
FilesSound == \E n \in 0 .. Len(Files) : temp = [i \in 1 .. n |-> Files[i]]

(* Nothing is accepted that is rejected, nor twice under one identity. *)
AcceptedSound ==
    /\ \A r \in accepted : ~Rejected(r)
    /\ \A r, s \in accepted : Identity(r) = Identity(s) => r = s

(* A bundle is there once the normaliser is through; what is assembled and
   applied comes from one in which nothing is quarantined. *)
StagesSound ==
    /\ stage \in {"idle", "normalize", "write"} => output = None
    /\ stage = "published" => output # None
    /\ stage \in {"assemble", "apply", "done"} \/ plans # {} =>
         output # None /\ output.quarantine = {}
    /\ stage \notin {"apply", "done", "refused"} => plans = {}

Events == {r \in accepted : r.op # "snapshot"}

(* The plans are the bundle's transactions, as a manifest describes them. *)
PlansSound ==
    stage \in {"apply", "done"} \/ plans # {} =>
        \E manifest \in {Manifest(Events), Manifest(History)} :
            /\ plans = Plans(Events, manifest)
            /\ Orderable(Events) /\ Complete(Events, manifest)

(* What is behind the next plan is applied, and all that comes before a plan
   that is applied. *)
OrderSound ==
    /\ todo \subseteq plans /\ applied \subseteq plans /\ plans \ todo \subseteq applied
    /\ \A p \in applied, q \in plans : BySequence(q, p) => q \in applied

RowsSound ==
    /\ tombstones = Deletes(Applied)
    /\ OwnHistory /\ InSequence => Fits(Snapshot, Applied) /\ rows = Changed(Snapshot, Applied)

IntakeInv ==
    IntakeTypeOK /\ FilesSound /\ AcceptedSound /\ StagesSound /\ PlansSound /\ OrderSound /\ RowsSound
=============================================================================
