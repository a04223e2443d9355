----------------------------- MODULE SourceCapture -----------------------------
(***************************************************************************)
(* The source lab (run_stage21_postgres_lab.py, stage21_postgres_adapter.py*)
(* and the guards of source_boundary.py): a process runs a workload on     *)
(* PostgreSQL, two of whose transactions are open at the same time in      *)
(* threads; it creates a logical slot with an exported snapshot, takes the *)
(* rows from the snapshot and the first transaction after it from the slot,*)
(* and gives a receipt that the two fit.                                   *)
(*                                                                         *)
(* The threads, the process, other clients of the database and a kill of   *)
(* the process interleave; any statement may fail; any wait may time out.  *)
(* Abstracted: an LSN is an index into the commits; rows are the set of    *)
(* transactions committed; identities and versions agree, unless an answer *)
(* is refused, and digests do.                                             *)
(***************************************************************************)
EXTENDS Naturals, FiniteSets, Sequences, Functions

CONSTANTS
    Runs,          \* the runs of one process, in order; one workload, one slot name
    MaxProcesses,  \* bound: processes
    MaxForeign,    \* bound: commits of other clients during a run
    Null

ASSUME RunsAssumption == Runs \in Seq(STRING) /\ Runs # <<>>

VARIABLES
    pc,         \* where the process stands; "idle" when there is none
    run,        \* the run it is at
    raised,     \* whether it is unwinding
    processes,
    namespaces, \* the schemas that exist
    commits,    \* what was committed since the run began, in WAL order
    slot,       \* consistent point of the slot that exists, or Null
    writer,     \* thread -> its state
    permits,    \* the commit permissions that are set
    done,       \* the done events that are set
    admin,      \* admin_connection
    mine,       \* slot_created and not slot_dropped
    decoded,    \* what the slot gave
    receipt,    \* the receipt of the run, or Null
    left        \* history: why the slot that exists is nobody's, or "none"

vars == <<pc, run, raised, processes, namespaces, commits, slot, writer, permits,
          done, admin, mine, decoded, receipt, left>>
threads == <<writer, permits, done>>
capture == <<slot, admin, mine, decoded, receipt, left>>

Writers == {"writer_a", "writer_b"}
Pre == {"before", "after"} \cup Writers
Post == "post"
Foreign == "foreign"

Phases == {"before", "pair", "ready", "permit_a", "join", "after", "create"}
Capturing == {"import", "post", "decode", "select", "unslot", "validate"}
Labels == {"idle", "namespace", "cleanup", "final", "release"} \cup Phases \cup Capturing

Init ==
    /\ pc = "idle" /\ run = 1 /\ raised = FALSE /\ processes = 0
    /\ namespaces = {} /\ commits = <<>>
    /\ writer = [w \in Writers |-> "none"] /\ permits = {} /\ done = {}
    /\ slot = Null /\ admin = "none" /\ mine = FALSE /\ decoded = <<>> /\ receipt = Null
    /\ left = "none"

-----------------------------------------------------------------------------
Go(from, to) == pc = from /\ pc' = to

StartProcess ==
    /\ Go("idle", "namespace")
    /\ processes < MaxProcesses
    /\ processes' = processes + 1
    /\ run' = 1 /\ raised' = FALSE /\ admin' = "none" /\ mine' = FALSE
    /\ UNCHANGED <<namespaces, commits, slot, threads, decoded, receipt, left>>

(* initialize_source_namespace: a schema that exists is refused. *)
InitializeNamespace ==
    /\ pc = "namespace"
    /\ IF Runs[run] \in namespaces
         THEN pc' = "idle" /\ UNCHANGED <<namespaces, commits, threads>>
         ELSE /\ pc' = "before"
              /\ namespaces' = namespaces \cup {Runs[run]}
              /\ commits' = <<>>
              /\ writer' = [w \in Writers |-> "none"] /\ permits' = {} /\ done' = {}
    /\ receipt' = Null /\ decoded' = <<>>
    /\ UNCHANGED <<run, raised, processes, slot, admin, mine, left>>

(* _execute_transaction on the process's own thread. *)
Execute(tx, from, to) ==
    /\ Go(from, to)
    /\ commits' = Append(commits, tx)
    /\ UNCHANGED <<run, raised, processes, namespaces, threads, capture>>

-----------------------------------------------------------------------------
(* _execute_concurrent_pair *)

StartThreads ==
    /\ Go("pair", "ready")
    /\ writer' = [w \in Writers |-> "begun"]
    /\ UNCHANGED <<run, raised, processes, namespaces, commits, permits, done, capture>>

Thread(w, from, to) ==
    /\ writer[w] = from
    /\ writer' = [writer EXCEPT ![w] = to]
    /\ UNCHANGED <<pc, run, raised, processes, namespaces, permits, capture>>

(* The statements are done, the transaction is open, ready is set. *)
WriterReady(w) == Thread(w, "begun", "ready") /\ UNCHANGED <<commits, done>>

(* A failure sets ready too. *)
WriterFails(w) ==
    /\ \/ Thread(w, "begun", "failed")
       \/ w \in permits /\ Thread(w, "ready", "failed")
    /\ UNCHANGED <<commits, done>>

(* Mutant: the permission is awaited for ever. *)
WriterWaits(w) == FALSE

(* Fifteen seconds without permission; the connection is closed. *)
WriterTimesOut(w) ==
    /\ w \notin permits
    /\ Thread(w, "ready", "failed") /\ UNCHANGED <<commits, done>>

WriterCommits(w) ==
    /\ w \in permits
    /\ Thread(w, "ready", "committed")
    /\ commits' = Append(commits, w)
    /\ UNCHANGED done

WriterDone(w) ==
    /\ writer[w] \in {"committed", "failed"}
    /\ w \notin done
    /\ done' = done \cup {w}
    /\ UNCHANGED <<pc, run, raised, processes, namespaces, commits, writer, permits, capture>>

Open(w) == writer[w] \in {"begun", "ready"}

(* Where an exception takes the process: the finally clauses. *)
Raise(from) ==
    /\ pc = from
    /\ \/ from \in Phases \cup {"cleanup", "final"} /\ pc' = "release"
       \/ from \in Capturing /\ pc' = "cleanup"
       \/ from = "namespace" /\ pc' = "idle"
    /\ raised' = TRUE
    /\ UNCHANGED <<run, processes, namespaces, commits, threads, mine, decoded, receipt>>

Permit(w, from, to) ==
    /\ Go(from, to)
    /\ permits' = permits \cup {w}
    /\ UNCHANGED <<run, raised, processes, namespaces, commits, writer, done, capture>>

AllReady == (\A w \in Writers : writer[w] # "begun") /\ Permit("writer_b", "ready", "permit_a")

(* Mutant: the second writer is permitted as soon as the first is. *)
PermitBoth == Permit("writer_a", "permit_a", "join")

(* The second writer is permitted when the first is done. *)
PermitSecond == "writer_b" \in done /\ Permit("writer_a", "permit_a", "join")

Join ==
    /\ Go("join", "after") /\ done = Writers
    /\ \A w \in Writers : writer[w] = "committed"
    /\ UNCHANGED <<run, raised, processes, namespaces, commits, threads, capture>>

(* CBSRC021, CBSRC022, or a writer's own error. *)
PairFails ==
    /\ \/ pc = "ready" /\ \E w \in Writers : writer[w] = "begun"
       \/ pc = "permit_a" /\ "writer_b" \notin done
       \/ pc = "join" /\ (done # Writers \/ \E w \in Writers : writer[w] = "failed")
    /\ Raise(pc)
    /\ UNCHANGED <<admin, slot, left>>

-----------------------------------------------------------------------------
(* capture_boundary *)

Committed == Range(commits) \cap (Pre \cup {Post})

(* CREATE_REPLICATION_SLOT; the name is taken if a slot was left behind. *)
CreateSlot ==
    /\ pc = "create" /\ slot = Null
    /\ pc' = "import"
    /\ slot' = Len(commits) /\ mine' = TRUE /\ left' = "none"
    /\ UNCHANGED <<run, raised, processes, namespaces, commits, threads, admin, decoded, receipt>>

(* The rows of the imported snapshot are those of the workload so far. *)
ImportSnapshot ==
    /\ Go("import", "post")
    /\ Range(SubSeq(commits, 1, slot)) \cap (Pre \cup {Post}) = Pre
    /\ UNCHANGED <<run, raised, processes, namespaces, commits, threads, capture>>

(* pg_logical_slot_get_changes moves the slot to the end of what it gave. *)
GetChanges ==
    /\ Go("decode", "select")
    /\ decoded' = SubSeq(commits, slot + 1, Len(commits))
    /\ slot' = Len(commits)
    /\ admin' = "open"
    /\ UNCHANGED <<run, raised, processes, namespaces, commits, threads, mine, receipt, left>>

SelectFirst ==
    /\ Go("select", "unslot")
    /\ decoded # <<>>
    /\ UNCHANGED <<run, raised, processes, namespaces, commits, threads, capture>>

DropSlot ==
    /\ Go("unslot", "validate")
    /\ slot' = Null /\ mine' = FALSE /\ left' = "none"
    /\ UNCHANGED <<run, raised, processes, namespaces, commits, threads, admin, decoded, receipt>>

(* Mutant: the first decoded transaction is not compared with the first one
   executed. *)
FirstIsAny == TRUE

(* CBSNP019: the first decoded transaction is the first one executed. *)
FirstIsOurs == decoded[1] = Post

ValidateReceipt ==
    /\ Go("validate", "final")
    /\ FirstIsOurs
    /\ receipt' = Runs[run]
    /\ admin' = "none"
    /\ UNCHANGED <<run, raised, processes, namespaces, commits, threads, slot, mine, decoded,
                   left>>

(* What a step leaves of the slot, and why if it is then nobody's. *)
SlotBecomes(point, reason) ==
    slot' = point /\ left' = IF point = Null THEN "none" ELSE reason

(* A statement fails or a check does not hold.  CREATE_REPLICATION_SLOT may have
   made the slot when its answer is lost or refused (CBPG002, CBPG004), before
   slot_created is set; pg_drop_replication_slot may have dropped it when its
   answer or the COMMIT fails.  A statement that fails on the admin connection
   leaves its transaction aborted. *)
Fails ==
    /\ pc \in (Labels \ {"idle", "ready", "permit_a", "join", "cleanup", "release"})
    /\ Raise(pc)
    /\ \/ UNCHANGED <<slot, left>>
       \/ pc = "create" /\ slot = Null /\ SlotBecomes(Len(commits), "unanswered")
       \/ pc = "unslot" /\ SlotBecomes(Null, "none")
    /\ CASE pc = "decode" -> admin' \in {"none", "aborted"}
         [] pc = "unslot" -> admin' = "aborted"
         [] OTHER -> UNCHANGED admin

(* Mutant: the slot of a failed capture is left to the next one. *)
CleanUpConnections ==
    /\ pc = "cleanup" /\ pc' = "release"
    /\ admin' = "none"
    /\ UNCHANGED <<run, raised, processes, namespaces, commits, threads, slot, mine, decoded,
                   receipt, left>>

(* The finally clause drops the slot on the admin connection, if there is one,
   or on a new one; PostgreSQL refuses every statement of an aborted
   transaction. *)
CleanUp ==
    /\ pc = "cleanup" /\ pc' = "release"
    /\ \/ ~mine /\ UNCHANGED <<slot, mine, left>>
       \/ mine /\ admin # "aborted" /\ SlotBecomes(Null, "none") /\ mine' = FALSE
       \/ mine /\ admin = "aborted" /\ SlotBecomes(slot, "admin") /\ UNCHANGED mine
    /\ UNCHANGED <<run, raised, processes, namespaces, commits, threads, admin, decoded, receipt>>

(* The finally clause fails: the rollback of the snapshot's connection or the
   new connection, before the slot is dropped, or the COMMIT after it. *)
CleanUpFails ==
    /\ pc = "cleanup" /\ pc' = "release"
    /\ mine
    /\ \E point \in {slot, Null} : SlotBecomes(point, "cleanup")
    /\ UNCHANGED <<run, raised, processes, namespaces, commits, threads, admin, mine, decoded,
                   receipt>>

-----------------------------------------------------------------------------
(* The final state is compared with the replay. *)
CompareFinal ==
    /\ Go("final", "release")
    /\ Committed = Pre \cup {Post}
    /\ UNCHANGED <<run, raised, processes, namespaces, commits, threads, capture>>

(* DROP SCHEMA waits for the locks of transactions that are open.  An error
   ends the process; otherwise the next run begins. *)
DropNamespace ==
    /\ pc = "release"
    /\ \A w \in Writers : ~Open(w)
    /\ namespaces' = namespaces \ {Runs[run]}
    /\ IF raised \/ run = Len(Runs)
         THEN pc' = "idle" /\ UNCHANGED run
         ELSE pc' = "namespace" /\ run' = run + 1
    /\ UNCHANGED <<raised, processes, commits, threads, capture>>

(* The process is killed: its transactions roll back, its schema and slot
   stay. *)
Kill ==
    /\ pc # "idle" /\ pc' = "idle"
    /\ writer' = [w \in Writers |-> IF Open(w) THEN "failed" ELSE writer[w]]
    /\ SlotBecomes(slot, IF left = "none" THEN "killed" ELSE left)
    /\ UNCHANGED <<run, raised, processes, namespaces, commits, permits, done, admin, mine,
                   decoded, receipt>>

(* Another client of the database commits. *)
ForeignCommit ==
    /\ pc # "idle"
    /\ Cardinality({i \in DOMAIN commits : commits[i] = Foreign}) < MaxForeign
    /\ commits' = Append(commits, Foreign)
    /\ UNCHANGED <<pc, run, raised, processes, namespaces, threads, capture>>

Main ==
    \/ InitializeNamespace
    \/ Execute("before", "before", "pair") \/ StartThreads \/ AllReady \/ PermitSecond
    \/ Join \/ PairFails \/ Execute("after", "after", "create")
    \/ CreateSlot \/ ImportSnapshot \/ Execute(Post, "post", "decode")
    \/ GetChanges \/ SelectFirst \/ DropSlot \/ ValidateReceipt
    \/ Fails \/ CleanUp \/ CleanUpFails \/ CompareFinal \/ DropNamespace

WriterStep(w) ==
    \/ WriterReady(w) \/ WriterFails(w) \/ WriterTimesOut(w)
    \/ WriterCommits(w) \/ WriterDone(w)

Next ==
    \/ StartProcess \/ Main \/ Kill \/ ForeignCommit
    \/ \E w \in Writers : WriterStep(w)

Spec == Init /\ [][Next]_vars

(* The process and its threads run on; a wait ends, if only by its timeout. *)
FairSpec == Spec /\ WF_vars(Main) /\ \A w \in Writers : WF_vars(WriterStep(w))
-----------------------------------------------------------------------------
Transactions == Pre \cup {Post, Foreign}

CaptureTypeOK ==
    /\ pc \in Labels /\ run \in DOMAIN Runs /\ raised \in BOOLEAN /\ processes \in Nat
    /\ namespaces \subseteq Range(Runs)
    /\ commits \in Seq(Transactions) /\ decoded \in Seq(Transactions)
    /\ writer \in [Writers -> {"none", "begun", "ready", "committed", "failed"}]
    /\ permits \subseteq Writers /\ done \subseteq Writers
    /\ admin \in {"none", "open", "aborted"} /\ mine \in BOOLEAN
    /\ receipt \in {Null} \cup Range(Runs)
    /\ left \in {"none", "unanswered", "admin", "cleanup", "killed"}

IndexOf(tx) == CHOOSE i \in DOMAIN commits : commits[i] = tx

(* Whatever times out or fails, and though a writer may commit after the
   process has given it up, writer A never commits before writer B has
   finished, and a phase that returns has both, in the declared order. *)
WritersInOrder ==
    /\ "writer_a" \in Range(commits) =>
          /\ ~Open("writer_b")
          /\ "writer_b" \in Range(commits) => IndexOf("writer_b") < IndexOf("writer_a")
    /\ pc \in Capturing \cup {"after", "create", "final"} => Writers \subseteq Range(commits)

(* A receipt is for a snapshot and a stream without gap or overlap: all of the
   workload before the boundary is in the snapshot, the stream is what was
   committed from there on, and no other client's transaction is taken for the
   first. *)
BoundaryExact ==
    receipt # Null =>
        /\ decoded[1] = Post
        /\ LET before == SubSeq(commits, 1, IndexOf(Post) - 1) IN
             /\ Pre \subseteq Range(before)
             /\ \A i \in DOMAIN decoded : decoded[i] = commits[Len(before) + i]

(* Outside of a capture and its cleanup there is a slot only for one of four
   reasons: the answer to its creation was lost or refused, a statement had
   failed on the admin connection, the cleanup itself failed, or the process was
   killed.  Whatever else fails, in whichever step, the run takes its slot
   along.  While a slot is left no run of the same workload makes its own. *)
SlotGoesWithRun ==
    slot # Null /\ left = "none" => pc \in Capturing \cup {"cleanup"}

(* A run always ends: the process never waits for ever for a thread that waits
   for the process, nor PostgreSQL for both. *)
EveryRunEnds == pc # "idle" ~> pc = "idle"

-----------------------------------------------------------------------------
(* The inductive invariant. *)

Phased == Phases \cup Capturing
Committing == {"decode", "select", "unslot", "validate", "final"}

(* A commit needs its permission, the second permission needs the first writer
   to be done, and a writer that is done stays closed. *)
ThreadsInv ==
    /\ \A w \in Writers :
         /\ w \in Range(commits) <=> (writer[w] = "committed")
         /\ writer[w] = "committed" => w \in permits
         /\ w \in done => writer[w] \in {"committed", "failed"}
    /\ "writer_a" \in permits => "writer_b" \in done
    /\ pc \in {"before", "pair"} =>
          permits = {} /\ done = {} /\ \A w \in Writers : writer[w] = "none"

(* What a phase finds committed. *)
PhasesInv ==
    /\ pc \in Phased \ {"before"} => "before" \in Range(commits)
    /\ pc \in {"after", "create", "final"} \cup Capturing => Writers \subseteq Range(commits)
    /\ pc \in {"create"} \cup Capturing => "after" \in Range(commits)
    /\ pc \in Committing => Post \in Range(commits)
    /\ pc \in Phases \cup {"import", "post"} => Post \notin Range(commits)

(* What is committed once, and in which order. *)
OrderInv ==
    \A i, j \in DOMAIN commits :
        /\ commits[i] = commits[j] /\ commits[i] \in Writers \cup {Post} => i = j
        /\ commits[i] = "writer_b" /\ commits[j] = "writer_a" => i < j
        /\ commits[j] = Post =>
              \A tx \in Pre : \E k \in DOMAIN commits : k < j /\ commits[k] = tx

(* What the slot gave is a stretch of the commits. *)
StreamInv ==
    /\ \E k \in Nat :
          /\ k + Len(decoded) <= Len(commits)
          /\ \A i \in DOMAIN decoded : decoded[i] = commits[k + i]
    /\ pc \in {"unslot", "validate"} => decoded # <<>>
    /\ pc \in Phased => receipt = Null
    /\ receipt # Null => decoded # <<>> /\ decoded[1] = Post /\ Post \in Range(commits)

(* Whose the slot is. *)
SlotInv ==
    /\ pc \in {"import", "post", "decode"} => mine /\ slot \in 0 .. Len(commits)
    /\ mine => pc \in (Capturing \ {"validate"}) \cup {"cleanup", "release", "idle"}
    /\ mine /\ pc \in {"cleanup", "release"} => raised
    /\ slot # Null /\ left = "none" =>
          mine /\ pc \in (Capturing \ {"validate"}) \cup {"cleanup"}

IInv ==
    /\ CaptureTypeOK
    /\ ThreadsInv
    /\ PhasesInv
    /\ OrderInv
    /\ StreamInv
    /\ SlotInv
=============================================================================
