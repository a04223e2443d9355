---------------------------- MODULE Publication ----------------------------
(***************************************************************************)
(* The durable publication store (publication.py, class PublicationStore): *)
(* the revision clock and active pointer of every product, the registered  *)
(* generations, the immutable attempts with their receipts, the event      *)
(* ledger and the consumer pins, all tables of one SQLite file.            *)
(*                                                                         *)
(* Several sessions (processes, each with its own connection) call the     *)
(* store at the same time.  Every SELECT outside a transaction sees the    *)
(* last committed state, so an operation whose reads are not inside BEGIN  *)
(* IMMEDIATE is several steps here, one per read; a transaction is one.    *)
(*                                                                         *)
(* Abstracted: digests are injective, so a request or a binding stands for *)
(* its digest; the authorization string (an empty one is refused before    *)
(* any read) and a generation's table map and proof, which are written     *)
(* once and never change, are not represented.  A call that raises before  *)
(* it writes leaves the tables as they are.                                *)
(***************************************************************************)
EXTENDS Naturals, FiniteSets

CONSTANTS
    Products,       \* product identities
    Generations,    \* generation identities
    Attempts,       \* attempt identities chosen by callers
    Pins,           \* consumer pin identities
    Sessions,       \* concurrent callers of the store
    Disqualifiers,  \* eligibility flags that can be against a generation:
                    \* not retained, unreadable, retired, evidence invalid
    MaxRevision,    \* bound: no caller names an expected revision beyond it
    Null            \* SQL NULL, and "no row"

ASSUME BoundAssumption == MaxRevision \in Nat \ {0}

VARIABLES
    clock,     \* product -> row of publication_clock, route "NO_ROW" if none
    pointer,   \* product -> row of active_pointer, generation Null if none
    state,     \* generation -> generations.state, "NO_ROW" if not registered
    ever,      \* generation -> generations.ever_published
    barred,    \* generation -> the eligibility flags set against it
    attempts,  \* attempt -> its receipt, Null if none
    events,    \* rows of events
    pins,      \* pin -> row of consumer_pins, Null if none
    pc,        \* session -> where its call stands
    req,       \* session -> the publication request it carries, or Null
    view       \* session -> what it has read outside a transaction

tables == <<clock, pointer, state, ever, barred, attempts, events, pins>>
vars == <<tables, pc, req, view>>

-----------------------------------------------------------------------------
(* Rows and requests. *)

Actions == {"PUBLISH", "FALLBACK", "ROLLBACK"}
Routes == {"SOURCE_FALLBACK", "GENERATION"}
OptGeneration == Generations \cup {Null}
Revisions == 0 .. MaxRevision

Request ==
    { r \in [attempt : Attempts, action : Actions, product : Products,
             generation : OptGeneration, expected : 0 .. MaxRevision - 1] :
        (r.action = "FALLBACK") <=> (r.generation = Null) }

Receipt == [request : Request, prior : OptGeneration]
ClockRow == [revision : Revisions, route : Routes \cup {"NO_ROW"}]
PointerRow == [generation : OptGeneration, revision : Revisions]
PinRow == [product : Products, revision : Revisions, route : Routes,
           generation : OptGeneration]
Event == [product : Products, attempt : Attempts, action : Actions,
          to : Revisions, fromGen : OptGeneration, toGen : OptGeneration]

(* NULL is none of the values a column or a call can hold. *)
ASSUME NullAssumption ==
    /\ Null \notin Products \cup Generations \cup Attempts \cup Pins
    /\ Null \notin Request \cup Receipt \cup PinRow

(* A view of a session that is not between two reads. *)
NoView == [product |-> Null, pin |-> Null,
           clock |-> [revision |-> 0, route |-> "NO_ROW"], generation |-> Null]

(* The revision an attempt left the clock at: receipts record expected + 1. *)
Resulting(receipt) == receipt.request.expected + 1

(* The check PublicationStore.current makes between the two rows it reads. *)
Consistent(route, generation) ==
    (route = "SOURCE_FALLBACK") <=> (generation = Null)

(* Mutant: a rollback does not ask whether its target ever served. *)
RollbackTargetUntried(g) == state[g] \in {"PROVEN", "PUBLISHED"} /\ barred[g] = {}

(* PublicationStore._eligible for a publication, and for a rollback. *)
Publishable(g) == state[g] = "PROVEN" /\ barred[g] = {}
RollbackTarget(g) == state[g] \in {"PROVEN", "PUBLISHED"} /\ barred[g] = {} /\ ever[g]

TypeOK ==
    /\ clock \in [Products -> ClockRow]
    /\ pointer \in [Products -> PointerRow]
    /\ state \in [Generations -> {"NO_ROW", "PROVEN", "PUBLISHED", "ROLLED_BACK"}]
    /\ ever \in [Generations -> BOOLEAN]
    /\ barred \in [Generations -> SUBSET Disqualifiers]
    /\ attempts \in [Attempts -> Receipt \cup {Null}]
    /\ events \subseteq Event
    /\ pins \in [Pins -> PinRow \cup {Null}]
    /\ pc \in [Sessions -> {"idle", "checked", "ambiguous", "reconciling",
                            "answered", "pinning", "resolved"}]
    /\ req \in [Sessions -> Request \cup {Null}]
    /\ view \in [Sessions -> [product : Products \cup {Null}, pin : Pins \cup {Null},
                              clock : ClockRow, generation : OptGeneration]]

Init ==
    /\ clock = [p \in Products |-> [revision |-> 0, route |-> "NO_ROW"]]
    /\ pointer = [p \in Products |-> [generation |-> Null, revision |-> 0]]
    /\ state = [g \in Generations |-> "NO_ROW"]
    /\ ever = [g \in Generations |-> FALSE]
    /\ barred = [g \in Generations |-> {}]
    /\ attempts = [a \in Attempts |-> Null]
    /\ events = {}
    /\ pins = [k \in Pins |-> Null]
    /\ pc = [s \in Sessions |-> "idle"]
    /\ req = [s \in Sessions |-> Null]
    /\ view = [s \in Sessions |-> NoView]

(* A session that may start a call. *)
Free(s) == pc[s] \in {"idle", "answered"}

(* Session s goes to label l holding request r and view v. *)
Goto(s, l, r, v) ==
    /\ pc' = [pc EXCEPT ![s] = l]
    /\ req' = [req EXCEPT ![s] = r]
    /\ view' = [view EXCEPT ![s] = v]

-----------------------------------------------------------------------------
(* Product, generation and eligibility administration: one statement each. *)

InitializeProduct(p) ==
    /\ clock[p].route = "NO_ROW"
    /\ clock' = [clock EXCEPT ![p] = [revision |-> 0, route |-> "SOURCE_FALLBACK"]]
    /\ UNCHANGED <<pointer, state, ever, barred, attempts, events, pins, pc, req, view>>

(* A second registration of the same binding returns the row it finds, and
   one of another binding is refused. *)
RegisterGeneration(g) ==
    /\ state[g] = "NO_ROW"
    /\ state' = [state EXCEPT ![g] = "PROVEN"]
    /\ UNCHANGED <<clock, pointer, ever, barred, attempts, events, pins, pc, req, view>>

(* The flags are written whatever the generation is doing, active or not. *)
SetEligibility(g, flags) ==
    /\ state[g] # "NO_ROW"
    /\ barred' = [barred EXCEPT ![g] = flags]
    /\ UNCHANGED <<clock, pointer, state, ever, attempts, events, pins, pc, req, view>>

-----------------------------------------------------------------------------
(* A publication request: the look for an earlier attempt is a read of its
   own, and the transaction follows. *)

(* _prior_attempt finds no row: the call goes on to its transaction. *)
SubmitFresh(s, r) ==
    /\ Free(s)
    /\ attempts[r.attempt] = Null
    /\ Goto(s, "checked", r, NoView)
    /\ UNCHANGED tables

(* Mutant: the payload digest is not compared. *)
SubmitReplayUnchecked(s, r) ==
    /\ Free(s)
    /\ attempts[r.attempt] # Null
    /\ Goto(s, "answered", r, NoView)
    /\ UNCHANGED tables

(* The same request under the same attempt: its receipt is the answer. *)
SubmitReplay(s, r) ==
    /\ Free(s)
    /\ attempts[r.attempt] # Null
    /\ attempts[r.attempt].request = r
    /\ Goto(s, "answered", r, NoView)
    /\ UNCHANGED tables

(* Another request under a used attempt identity. *)
SubmitConflict(s, r) ==
    /\ Free(s)
    /\ attempts[r.attempt] # Null
    /\ attempts[r.attempt].request # r
    /\ Goto(s, "idle", Null, NoView)
    /\ UNCHANGED tables

(* The compare of the compare-and-swap, with a mutant that lets more through,
   and the primary key of attempts. *)
LaterThanExpected(r) == clock[r.product].revision >= r.expected
AtExpected(r) == clock[r.product].revision = r.expected
NewAttempt(r) == attempts[r.attempt] = Null

(* What the transaction of each action requires of the rows it reads. *)
Accepts(r) ==
    LET p == r.product IN
    /\ clock[p].route # "NO_ROW"
    /\ Consistent(clock[p].route, pointer[p].generation)
    /\ AtExpected(r)
    /\ CASE r.action = "PUBLISH" -> Publishable(r.generation)
         [] r.action = "FALLBACK" ->
                pointer[p].generation # Null /\ pointer[p].revision = r.expected
         [] r.action = "ROLLBACK" ->
                /\ pointer[p].generation \notin {Null, r.generation}
                /\ RollbackTarget(r.generation)
    /\ NewAttempt(r)

(* The rows every accepted action writes: clock, attempt and event. *)
Record(r, route) ==
    LET p == r.product
        prior == pointer[p].generation IN
    /\ clock' = [clock EXCEPT ![p] = [revision |-> r.expected + 1, route |-> route]]
    /\ attempts' = [attempts EXCEPT ![r.attempt] = [request |-> r, prior |-> prior]]
    /\ events' = events \cup
         {[product |-> p, attempt |-> r.attempt, action |-> r.action,
           to |-> r.expected + 1, fromGen |-> prior, toGen |-> r.generation]}
    /\ UNCHANGED <<barred, pins>>

MovePointer(r) ==
    pointer' = [pointer EXCEPT ![r.product] =
        [generation |-> r.generation, revision |-> r.expected + 1]]

PublishTables(r) ==
    /\ Record(r, "GENERATION")
    /\ MovePointer(r)
    /\ state' = [state EXCEPT ![r.generation] = "PUBLISHED"]
    /\ ever' = [ever EXCEPT ![r.generation] = TRUE]

(* DELETE of the pointer row: the generation it named keeps its state. *)
FallbackTables(r) ==
    /\ Record(r, "SOURCE_FALLBACK")
    /\ pointer' = [pointer EXCEPT ![r.product] = [generation |-> Null, revision |-> 0]]
    /\ UNCHANGED <<state, ever>>

(* Mutant: the generation that served is not marked. *)
RollbackForgetsOld(r) ==
    /\ Record(r, clock[r.product].route)
    /\ MovePointer(r)
    /\ UNCHANGED <<state, ever>>

(* The clock's route is left alone; it is GENERATION while a pointer exists. *)
RollbackTables(r) ==
    /\ Record(r, clock[r.product].route)
    /\ MovePointer(r)
    /\ state' = [state EXCEPT ![pointer[r.product].generation] = "ROLLED_BACK"]
    /\ UNCHANGED ever

(* The caller gets the receipt, or AmbiguousPublication after COMMIT when the
   acknowledgement is lost. *)
Acknowledge(s) ==
    \E label \in {"answered", "ambiguous"} : Goto(s, label, req[s], NoView)

Committing(s, action) ==
    pc[s] = "checked" /\ req[s].action = action /\ Accepts(req[s])

Publish(s) ==
    /\ Committing(s, "PUBLISH")
    /\ PublishTables(req[s])
    /\ Acknowledge(s)

FirstPublicationFallback(s) ==
    /\ Committing(s, "FALLBACK")
    /\ FallbackTables(req[s])
    /\ Acknowledge(s)

Rollback(s) ==
    /\ Committing(s, "ROLLBACK")
    /\ RollbackTables(req[s])
    /\ Goto(s, "answered", req[s], NoView)

(* A failed check, or the primary key of an attempt committed since the read,
   rolls the transaction back. *)
Refuse(s) ==
    /\ pc[s] = "checked"
    /\ ~Accepts(req[s])
    /\ Goto(s, "idle", Null, NoView)
    /\ UNCHANGED tables

(* The caller dies in the middle of a call: SQLite rolls back what it had not
   committed, and its successor starts over, knowing nothing. *)
Crash(s) ==
    /\ ~Free(s)
    /\ Goto(s, "idle", Null, NoView)
    /\ UNCHANGED tables

-----------------------------------------------------------------------------
(* reconcile_attempt, which callers use after AmbiguousPublication only, so
   that the attempt row is there: that row, the clock, then the pointer. *)

ReconcileClock(s) ==
    /\ pc[s] = "ambiguous"
    /\ LET p == attempts[req[s].attempt].request.product IN
         Goto(s, "reconciling", req[s], [NoView EXCEPT !.product = p, !.clock = clock[p]])
    /\ UNCHANGED tables

(* Inconsistent reads, or a clock behind the receipt, fail the call; the
   caller may reconcile again. *)
ReconcilePointer(s) ==
    /\ pc[s] = "reconciling"
    /\ LET seen == view[s].clock
           ok == /\ Consistent(seen.route, pointer[view[s].product].generation)
                 /\ seen.revision >= Resulting(attempts[req[s].attempt])
       IN Goto(s, IF ok THEN "answered" ELSE "ambiguous", req[s], NoView)
    /\ UNCHANGED tables

-----------------------------------------------------------------------------
(* pin: the clock, then the pointer, then the row is inserted. *)

PinClock(s, p, k) ==
    /\ Free(s)
    /\ clock[p].route # "NO_ROW"
    /\ Goto(s, "pinning", Null,
            [NoView EXCEPT !.product = p, !.pin = k, !.clock = clock[p]])
    /\ UNCHANGED tables

PinPointer(s) ==
    /\ pc[s] = "pinning"
    /\ LET g == pointer[view[s].product].generation IN
         IF Consistent(view[s].clock.route, g)
           THEN Goto(s, "resolved", Null, [view[s] EXCEPT !.generation = g])
           ELSE Goto(s, "idle", Null, NoView)
    /\ UNCHANGED tables

(* Mutant: the revision is read again when the row is inserted. *)
PinBodyReread(v) ==
    [product |-> v.product, revision |-> clock[v.product].revision, route |-> v.clock.route,
     generation |-> v.generation]

PinBody(v) ==
    [product |-> v.product, revision |-> v.clock.revision, route |-> v.clock.route,
     generation |-> v.generation]

(* An existing pin is returned if it is the same and a conflict otherwise;
   either way its row stays. *)
PinInsert(s) ==
    /\ pc[s] = "resolved"
    /\ LET k == view[s].pin IN
         pins' = IF pins[k] = Null THEN [pins EXCEPT ![k] = PinBody(view[s])] ELSE pins
    /\ Goto(s, "idle", Null, NoView)
    /\ UNCHANGED <<clock, pointer, state, ever, barred, attempts, events>>

-----------------------------------------------------------------------------
Administer ==
    \/ \E p \in Products : InitializeProduct(p)
    \/ \E g \in Generations :
         \/ RegisterGeneration(g)
         \/ \E flags \in SUBSET Disqualifiers : SetEligibility(g, flags)

Call(s) ==
    \/ \E r \in Request : SubmitFresh(s, r) \/ SubmitReplay(s, r) \/ SubmitConflict(s, r)
    \/ Publish(s) \/ FirstPublicationFallback(s) \/ Rollback(s) \/ Refuse(s) \/ Crash(s)
    \/ ReconcileClock(s) \/ ReconcilePointer(s)
    \/ \E p \in Products, k \in Pins : PinClock(s, p, k)
    \/ PinPointer(s) \/ PinInsert(s)

Next == Administer \/ \E s \in Sessions : Call(s)

Spec == Init /\ [][Next]_vars
-----------------------------------------------------------------------------
(* Safety. *)

(* The two rows a product is read through agree: the clock says GENERATION
   exactly while a pointer row exists, and the pointer carries the clock's
   revision.  publish, fallback and rollback each write both rows, in one
   transaction, and `current` fails (CB27C002) when they disagree. *)
PointerClockAgreement ==
    \A p \in Products :
        /\ (clock[p].route = "GENERATION") <=> (pointer[p].generation # Null)
        /\ pointer[p].generation # Null => pointer[p].revision = clock[p].revision
        /\ clock[p].route = "NO_ROW" => clock[p].revision = 0

(* The event ledger is the whole history of the route: each revision of a
   product from 1 to the clock's has exactly one event, each starts from the
   generation the one before it ended in, and the last one ends in what the
   pointer names.  At most one caller therefore won any revision, whatever
   expected revision the others named and however their reads interleaved. *)
LedgerReplaysToPointer ==
    /\ \A e, f \in events : e.product = f.product /\ e.to = f.to => e = f
    /\ \A e \in events : e.to \in 1 .. clock[e.product].revision
    /\ \A p \in Products : \A n \in 1 .. clock[p].revision :
         \E e \in events : e.product = p /\ e.to = n
    /\ \A e \in events : e.to = 1 => e.fromGen = Null
    /\ \A e, f \in events :
         e.product = f.product /\ f.to = e.to + 1 => f.fromGen = e.toGen
    /\ \A e \in events :
         e.to = clock[e.product].revision => e.toGen = pointer[e.product].generation
    /\ \A p \in Products : clock[p].revision = 0 => pointer[p].generation = Null

(* A receipt is the record of one committed transition and of no other: every
   attempt row has one event that says the same, every event an attempt row,
   and no receipt is ahead of its product's clock, so that the divergence
   reconcile_attempt checks for (CB27P010) is never the store's doing. *)
ReceiptsBacked ==
    /\ \A e \in events :
         /\ attempts[e.attempt] # Null
         /\ attempts[e.attempt].prior = e.fromGen
         /\ LET r == attempts[e.attempt].request IN
              e = [product |-> r.product, attempt |-> r.attempt, action |-> r.action,
                   to |-> r.expected + 1, fromGen |-> e.fromGen, toGen |-> r.generation]
    /\ \A a \in Attempts : attempts[a] # Null =>
         /\ \E e \in events : e.attempt = a
         /\ Resulting(attempts[a]) <= clock[attempts[a].request.product].revision

(* Whoever holds an answer, from the commit itself, from a replay or from a
   reconciliation after a lost acknowledgement, holds the receipt of the very
   request it made. *)
AnswersTruthful ==
    \A s \in Sessions : pc[s] = "answered" =>
        /\ attempts[req[s].attempt] # Null
        /\ attempts[req[s].attempt].request = req[s]

(* A generation is put in service by publication at most once, by any
   product, and generations.state and ever_published say so. *)
PublishedOnce ==
    /\ \A e, f \in events :
         e.action = "PUBLISH" /\ f.action = "PUBLISH" /\ e.toGen = f.toGen => e = f
    /\ \A g \in Generations :
         /\ ever[g] <=> \E e \in events : e.action = "PUBLISH" /\ e.toGen = g
         /\ ever[g] <=> state[g] \in {"PUBLISHED", "ROLLED_BACK"}

(* A rollback moves a product to a generation that product served before.  The
   code keeps this for one product only (see Disagreements in the README). *)
RollbackToOwnPast ==
    \A e \in events : e.action = "ROLLBACK" =>
        \E f \in events : f.product = e.product /\ f.toGen = e.toGen /\ f.to < e.to

(* A pin body whose generation served at the pinned revision or later. *)
NotOlder(n) ==
    IF n.generation = Null THEN n.route = "SOURCE_FALLBACK"
    ELSE \E e \in events :
           e.product = n.product /\ e.to >= n.revision /\ e.toGen = n.generation

(* A pin is taken with reads of its own, so another session may move the
   route between them; even then its generation is one that served at the
   pinned revision or later: a reader never resolves to older data than the
   revision it pins. *)
PinNeverOlder == \A k \in Pins : pins[k] # Null => NotOlder(pins[k])

(* "Consumers pin generation and pointer revision for a logical operation":
   the generation of a pin is the one the product was routed to at the
   pinned revision.  The code does not keep this when a route changes between
   the two reads of a pin (see Disagreements in the README). *)
PinMatchesRevision ==
    \A k \in Pins : pins[k] # Null =>
        LET n == pins[k] IN
        IF n.revision = 0 THEN n.generation = Null
        ELSE \E e \in events :
               e.product = n.product /\ e.to = n.revision /\ e.toGen = n.generation

-----------------------------------------------------------------------------
(* The inductive invariant behind the safety properties. *)

(* What a product is routed to has been published, by some product. *)
ServedWasPublished ==
    \A p \in Products : pointer[p].generation # Null => ever[pointer[p].generation]

(* What a session carries between two of its reads: its own receipt once it
   has committed, a clock that was true when read and is not ahead now. *)
SessionSound(s) ==
    /\ pc[s] \in {"checked", "ambiguous", "reconciling", "answered"} => req[s] # Null
    /\ pc[s] \in {"ambiguous", "reconciling", "answered"} =>
         /\ attempts[req[s].attempt] # Null
         /\ attempts[req[s].attempt].request = req[s]
    /\ pc[s] = "reconciling" => view[s].clock.revision >= req[s].expected + 1
    /\ pc[s] \in {"pinning", "resolved"} =>
         /\ view[s].product # Null /\ view[s].pin # Null
         /\ view[s].clock.route # "NO_ROW"
         /\ view[s].clock.revision <= clock[view[s].product].revision
    /\ pc[s] = "resolved" => NotOlder(PinBody(view[s]))

SessionInv == \A s \in Sessions : SessionSound(s)

(* Every part of the safety argument together: what the store's rows say of
   one another, and what each session knows of them. *)
IInv ==
    /\ TypeOK
    /\ PointerClockAgreement
    /\ LedgerReplaysToPointer
    /\ ReceiptsBacked
    /\ PublishedOnce
    /\ ServedWasPublished
    /\ SessionInv
    /\ PinNeverOlder

-----------------------------------------------------------------------------
(* Action properties. *)

(* The route of a product changes only by a caller that named the revision it
   replaces, and then the revision moves by one: a stale writer changes
   nothing, and a revision is never reused, not even after the pointer row is
   deleted. *)
RouteChangesByCAS ==
    [][\A p \in Products :
         pointer'[p] # pointer[p] =>
           /\ clock'[p].revision = clock[p].revision + 1
           /\ \E s \in Sessions :
                /\ pc[s] = "checked"
                /\ req[s].product = p
                /\ req[s].expected = clock[p].revision]_vars

(* What a rollback has taken out of service stays out: once the ledger records
   a rollback away from a generation, no event that comes after it, of any
   product and by any caller, routes to that generation.  The mark that keeps
   this is the generation's row, which all products share, not the product's
   history. *)
WithdrawnStaysOut ==
    [][\A e \in events, f \in events' \ events :
         e.action = "ROLLBACK" => f.toGen # e.fromGen]_vars

-----------------------------------------------------------------------------
(* The store implements the abstract route register. *)

Routed == INSTANCE RouteRegister WITH
    Source <- Null,
    route <- [p \in Products |-> pointer[p].generation],
    revision <- [p \in Products |-> clock[p].revision],
    used <- {g \in Generations : ever[g]},
    withdrawn <- {g \in Generations : state[g] = "ROLLED_BACK"}

(* Every behaviour of the store, seen through its routes and revisions, is a
   behaviour of the register: administration, reads, refusals, crashes and
   reconciliations are invisible there. *)
ImplementsRouteRegister == Routed!Spec
=============================================================================
