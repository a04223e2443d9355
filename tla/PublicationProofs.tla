------------------------- MODULE PublicationProofs -------------------------
(***************************************************************************)
(* Proofs about Publication, for any number of products, generations,      *)
(* attempts, pins, sessions and revisions: its type invariant, its         *)
(* inductive invariant and the safety properties that follow from it, its  *)
(* action properties, and that it implements RouteRegister. Then about     *)
(* Orchestrator, which drives it, for any runs and calls: that it takes    *)
(* none but the store's steps, so that what is proved of the store holds   *)
(* under it, and that its runs say what is so.                             *)
(***************************************************************************)
EXTENDS Orchestrator, TLAPS

USE DEF Actions, Routes, OptGeneration, Revisions

(* The shape of a request, for leaves that need not unfold Request. *)
LEMMA RequestShape ==
    ASSUME NEW r \in Request
    PROVE  /\ r.attempt \in Attempts /\ r.product \in Products
           /\ r.action \in Actions /\ r.generation \in OptGeneration
           /\ r.expected \in 0 .. MaxRevision - 1
           /\ (r.action = "FALLBACK") <=> (r.generation = Null)
BY DEF Request


-----------------------------------------------------------------------------
(* Types. *)

StoreLabels == {"idle", "checked", "ambiguous", "reconciling", "answered", "pinning",
           "resolved"}
View == [product : Products \cup {Null}, pin : Pins \cup {Null},
         clock : ClockRow, generation : OptGeneration]

(* The part of TypeOK about the tables, and the part about the sessions. *)
TablesType ==
    /\ clock \in [Products -> ClockRow]
    /\ pointer \in [Products -> PointerRow]
    /\ state \in [Generations -> {"NO_ROW", "PROVEN", "PUBLISHED", "ROLLED_BACK"}]
    /\ ever \in [Generations -> BOOLEAN]
    /\ barred \in [Generations -> SUBSET Disqualifiers]
    /\ attempts \in [Attempts -> Receipt \cup {Null}]
    /\ events \subseteq Event
    /\ pins \in [Pins -> PinRow \cup {Null}]
SessionsType ==
    /\ pc \in [Sessions -> StoreLabels]
    /\ req \in [Sessions -> Request \cup {Null}]
    /\ view \in [Sessions -> View]

LEMMA TypeParts == TypeOK <=> TablesType /\ SessionsType
BY DEF TypeOK, TablesType, SessionsType, StoreLabels, View

LEMMA TypePartsNext == TablesType' /\ SessionsType' => TypeOK'
BY DEF TypeOK, TablesType, SessionsType, StoreLabels, View

LEMMA NoViewType == NoView \in View
BY BoundAssumption DEF NoView, ClockRow, View

(* Moving a session keeps the session variables well typed. *)
LEMMA GotoType ==
    ASSUME SessionsType, NEW s \in Sessions, NEW l \in StoreLabels,
           NEW r \in Request \cup {Null}, NEW v \in View, Goto(s, l, r, v)
    PROVE  SessionsType'
BY DEF SessionsType, Goto

LEMMA TablesSame == TablesType /\ UNCHANGED tables => TablesType'
BY DEF TablesType, tables

LEMMA SessionsSame == SessionsType /\ UNCHANGED <<pc, req, view>> => SessionsType'
BY DEF SessionsType

(* What a session is about to commit is a request. *)
LEMMA CheckedRequest ==
    ASSUME IInv, NEW s \in Sessions, pc[s] = "checked"
    PROVE  req[s] \in Request
BY DEF IInv, SessionInv, SessionSound, TypeOK

(* The rows every accepted action writes are well typed. *)
LEMMA RecordType ==
    ASSUME TablesType, NEW r \in Request, NEW route \in Routes, Record(r, route)
    PROVE  /\ clock' \in [Products -> ClockRow]
           /\ attempts' \in [Attempts -> Receipt \cup {Null}]
           /\ events' \subseteq Event
           /\ barred' \in [Generations -> SUBSET Disqualifiers]
           /\ pins' \in [Pins -> PinRow \cup {Null}]
<1> DEFINE p == r.product
           prior == pointer[p].generation
           e == [product |-> p, attempt |-> r.attempt, action |-> r.action,
                 to |-> r.expected + 1, fromGen |-> prior, toGen |-> r.generation]
<1>1. p \in Products /\ prior \in OptGeneration /\ r.expected + 1 \in Revisions
  BY RequestShape, BoundAssumption DEF TablesType, PointerRow
<1>2. [revision |-> r.expected + 1, route |-> route] \in ClockRow
  BY <1>1 DEF ClockRow
<1>3. [request |-> r, prior |-> prior] \in Receipt
  BY <1>1 DEF Receipt
<1>4. e \in Event
  BY <1>1, RequestShape DEF Event
<1>5. clock' \in [Products -> ClockRow]
  BY <1>1, <1>2 DEF Record, TablesType
<1>6. attempts' \in [Attempts -> Receipt \cup {Null}]
  BY <1>3, RequestShape DEF Record, TablesType
<1>7. events' \subseteq Event
  BY <1>4 DEF Record, TablesType
<1> QED
  BY <1>5, <1>6, <1>7 DEF Record, TablesType

LEMMA InitType == Init => TypeOK
BY BoundAssumption, NoViewType, TypeParts
   DEF Init, TablesType, SessionsType, StoreLabels, View, ClockRow, PointerRow

-----------------------------------------------------------------------------
(* What a step can be.  A transaction that commits writes the clock, the
   pointer, the attempt, the event and the standing of generations together;
   every other step leaves the route and the ledger alone. *)

Commit(r) ==
    /\ r \in Request
    /\ Accepts(r)
    /\ \E route \in Routes :
         Record(r, route) /\ ((route = "GENERATION") <=> (r.generation # Null))
    /\ \E n \in Revisions :
         /\ pointer' = [pointer EXCEPT ![r.product] =
                          [generation |-> r.generation, revision |-> n]]
         /\ r.generation # Null => n = r.expected + 1
    /\ \/ /\ r.action = "PUBLISH"
          /\ state' = [state EXCEPT ![r.generation] = "PUBLISHED"]
          /\ ever' = [ever EXCEPT ![r.generation] = TRUE]
       \/ r.action = "FALLBACK" /\ UNCHANGED <<state, ever>>
       \/ /\ r.action = "ROLLBACK"
          /\ state' = [state EXCEPT ![pointer[r.product].generation] = "ROLLED_BACK"]
          /\ UNCHANGED ever

(* A committing session names its own request, and ends with its answer. *)
CommitBy(s) ==
    /\ pc[s] = "checked"
    /\ Commit(req[s])
    /\ \E l \in {"answered", "ambiguous"} : Goto(s, l, req[s], NoView)

(* A step that leaves every table alone and moves one session. *)
Quiet(s) ==
    /\ UNCHANGED tables
    /\ \/ \E r \in Request : SubmitFresh(s, r) \/ SubmitReplay(s, r) \/ SubmitConflict(s, r)
       \/ Refuse(s) \/ Crash(s) \/ ReconcileClock(s) \/ ReconcilePointer(s)
       \/ \E p \in Products, k \in Pins : PinClock(s, p, k)
       \/ PinPointer(s)

LEMMA CommitStep ==
    ASSUME IInv, NEW s \in Sessions,
           Publish(s) \/ FirstPublicationFallback(s) \/ Rollback(s)
    PROVE  CommitBy(s)
<1> DEFINE r == req[s]
<1>1. pc[s] = "checked" /\ Accepts(r)
  BY DEF Publish, FirstPublicationFallback, Rollback, Committing
<1>2. r \in Request
  BY <1>1, CheckedRequest
<1>3. /\ r.product \in Products
      /\ r.expected + 1 \in Revisions
      /\ 0 \in Revisions
      /\ (r.action = "FALLBACK") <=> (r.generation = Null)
  BY <1>2, RequestShape, BoundAssumption
<1>4. CASE Publish(s)
  <2>1. r.action = "PUBLISH" /\ PublishTables(r) /\ Acknowledge(s)
    BY <1>4 DEF Publish, Committing
  <2> QED
    BY <1>1, <1>2, <1>3, <2>1 DEF CommitBy, Commit, PublishTables, MovePointer, Acknowledge
<1>5. CASE FirstPublicationFallback(s)
  <2>1. r.action = "FALLBACK" /\ FallbackTables(r) /\ Acknowledge(s)
    BY <1>5 DEF FirstPublicationFallback, Committing
  <2> QED
    BY <1>1, <1>2, <1>3, <2>1 DEF CommitBy, Commit, FallbackTables, Acknowledge
<1>6. CASE Rollback(s)
  <2>1. r.action = "ROLLBACK" /\ RollbackTables(r) /\ Goto(s, "answered", r, NoView)
    BY <1>6 DEF Rollback, Committing
  <2>2. clock[r.product].route = "GENERATION"
    BY <1>1, <1>3, <2>1 DEF Accepts, IInv, PointerClockAgreement
  <2> QED
    BY <1>1, <1>2, <1>3, <2>1, <2>2 DEF CommitBy, Commit, RollbackTables, MovePointer
<1> QED
  BY <1>4, <1>5, <1>6

LEMMA StepKinds ==
    ASSUME IInv, Next
    PROVE  \/ \E p \in Products : InitializeProduct(p)
           \/ \E g \in Generations : RegisterGeneration(g)
           \/ \E g \in Generations, flags \in SUBSET Disqualifiers : SetEligibility(g, flags)
           \/ \E s \in Sessions : CommitBy(s)
           \/ \E s \in Sessions : PinInsert(s)
           \/ \E s \in Sessions : Quiet(s)
<1>1. CASE Administer
  BY <1>1 DEF Administer
<1>2. ASSUME NEW s \in Sessions, Call(s)
      PROVE  CommitBy(s) \/ PinInsert(s) \/ Quiet(s)
  <2>1. CASE Publish(s) \/ FirstPublicationFallback(s) \/ Rollback(s)
    BY <2>1, CommitStep
  <2>2. CASE \/ \E r \in Request : SubmitFresh(s, r) \/ SubmitReplay(s, r)
                                   \/ SubmitConflict(s, r)
             \/ Refuse(s) \/ Crash(s) \/ ReconcileClock(s) \/ ReconcilePointer(s)
             \/ \E p \in Products, k \in Pins : PinClock(s, p, k)
             \/ PinPointer(s)
    BY <2>2 DEF Quiet, SubmitFresh, SubmitReplay, SubmitConflict, Refuse, Crash,
                ReconcileClock, ReconcilePointer, PinClock, PinPointer
  <2>3. CASE PinInsert(s)
    BY <2>3
  <2> QED
    BY <1>2, <2>1, <2>2, <2>3 DEF Call
<1> QED
  BY <1>1, <1>2 DEF Next

-----------------------------------------------------------------------------
(* Each conjunct of the inductive invariant is preserved. *)

LEMMA CommitType ==
    ASSUME TypeOK, NEW s \in Sessions, CommitBy(s)
    PROVE  TypeOK'
<1> DEFINE r == req[s]
<1>1. TablesType /\ SessionsType /\ r \in Request
  BY TypeParts DEF CommitBy, Commit
<1>2. SessionsType'
  BY <1>1, GotoType, NoViewType DEF CommitBy, StoreLabels
<1>3. /\ r.product \in Products /\ r.generation \in OptGeneration
      /\ r.action # "FALLBACK" => r.generation \in Generations
  BY <1>1, RequestShape
<1>4. PICK route \in Routes : Record(r, route)
  BY DEF CommitBy, Commit
<1>5. pointer' \in [Products -> PointerRow]
  BY <1>1, <1>3 DEF CommitBy, Commit, TablesType, PointerRow
<1>6. /\ state' \in [Generations -> {"NO_ROW", "PROVEN", "PUBLISHED", "ROLLED_BACK"}]
      /\ ever' \in [Generations -> BOOLEAN]
  BY <1>1, <1>3 DEF CommitBy, Commit, TablesType
<1>7. TablesType'
  BY <1>1, <1>4, <1>5, <1>6, RecordType DEF TablesType
<1> QED
  BY <1>2, <1>7, TypePartsNext

LEMMA QuietType ==
    ASSUME IInv, NEW s \in Sessions, Quiet(s)
    PROVE  TypeOK'
<1>1. TablesType /\ SessionsType
  BY TypeParts DEF IInv
<1>2. TablesType'
  BY <1>1, TablesSame DEF Quiet
<1>3. SessionsType'
  <2>1. CASE \E r \in Request : \/ SubmitFresh(s, r) \/ SubmitReplay(s, r)
                                \/ SubmitConflict(s, r)
    BY <1>1, <2>1, GotoType, NoViewType
       DEF StoreLabels, SubmitFresh, SubmitReplay, SubmitConflict
  <2>2. CASE Refuse(s) \/ Crash(s)
    BY <1>1, <2>2, GotoType, NoViewType DEF StoreLabels, Refuse, Crash
  <2>3. CASE ReconcileClock(s)
    <3> DEFINE p == attempts[req[s].attempt].request.product
               v == [NoView EXCEPT !.product = p, !.clock = clock[p]]
    <3>1. attempts[req[s].attempt].request \in Request
      BY <2>3 DEF ReconcileClock, IInv, SessionInv, SessionSound, TypeOK
    <3>2. p \in Products
      BY <3>1, RequestShape
    <3>3. v \in View
      BY <1>1, <3>2, NoViewType DEF View, TablesType
    <3>4. Goto(s, "reconciling", req[s], v) /\ req[s] \in Request \cup {Null}
      BY <1>1, <2>3 DEF ReconcileClock, SessionsType
    <3> HIDE DEF v
    <3> QED
      BY <1>1, <3>3, <3>4, GotoType DEF StoreLabels
  <2>4. CASE ReconcilePointer(s)
    <3>1. \E l \in {"answered", "ambiguous"} : Goto(s, l, req[s], NoView)
      BY <2>4 DEF ReconcilePointer
    <3>2. req[s] \in Request \cup {Null}
      BY <1>1 DEF SessionsType
    <3> QED
      BY <1>1, <3>1, <3>2, GotoType, NoViewType DEF StoreLabels
  <2>5. ASSUME NEW p \in Products, NEW k \in Pins, PinClock(s, p, k)
        PROVE  SessionsType'
    <3> DEFINE v == [NoView EXCEPT !.product = p, !.pin = k, !.clock = clock[p]]
    <3>1. v \in View
      BY <1>1, NoViewType DEF View, TablesType
    <3>2. Goto(s, "pinning", Null, v)
      BY <2>5 DEF PinClock
    <3> HIDE DEF v
    <3> QED
      BY <1>1, <3>1, <3>2, GotoType DEF StoreLabels
  <2>6. CASE PinPointer(s)
    <3> DEFINE g == pointer[view[s].product].generation
               v == [view[s] EXCEPT !.generation = g]
    <3>1. Goto(s, "resolved", Null, v) \/ Goto(s, "idle", Null, NoView)
      BY <2>6 DEF PinPointer
    <3>2. view[s] \in View /\ view[s].product \in Products
      BY <1>1, <2>6 DEF PinPointer, SessionsType, View, IInv, SessionInv, SessionSound
    <3>3. g \in OptGeneration
      BY <1>1, <3>2 DEF TablesType, PointerRow
    <3>4. v \in View
      BY <3>2, <3>3 DEF View
    <3> HIDE DEF v, g
    <3> QED
      BY <1>1, <3>1, <3>4, GotoType, NoViewType DEF StoreLabels
  <2> QED
    BY <2>1, <2>2, <2>3, <2>4, <2>5, <2>6 DEF Quiet
<1> QED
  BY <1>2, <1>3, TypePartsNext

(* The body of a pin is a row once its product has been read. *)
LEMMA PinBodyType ==
    ASSUME IInv, NEW s \in Sessions, pc[s] = "resolved"
    PROVE  PinBody(view[s]) \in PinRow
BY DEF IInv, TypeOK, SessionInv, SessionSound, PinBody, PinRow, ClockRow

LEMMA TypeStep ==
    ASSUME IInv, [Next]_vars
    PROVE  TypeOK'
<1>1. TypeOK /\ TablesType /\ SessionsType
  BY TypeParts DEF IInv
<1>2. ASSUME NEW p \in Products, InitializeProduct(p)
      PROVE  TypeOK'
  <2>1. [revision |-> 0, route |-> "SOURCE_FALLBACK"] \in ClockRow
    BY BoundAssumption DEF ClockRow
  <2>2. TablesType'
    BY <1>1, <1>2, <2>1 DEF InitializeProduct, TablesType
  <2> QED
    BY <1>1, <1>2, <2>2, SessionsSame, TypePartsNext DEF InitializeProduct
<1>3. ASSUME NEW g \in Generations, RegisterGeneration(g)
      PROVE  TypeOK'
  BY <1>1, <1>3, SessionsSame, TypePartsNext DEF RegisterGeneration, TablesType
<1>4. ASSUME NEW g \in Generations, NEW flags \in SUBSET Disqualifiers,
             SetEligibility(g, flags)
      PROVE  TypeOK'
  BY <1>1, <1>4, SessionsSame, TypePartsNext DEF SetEligibility, TablesType
<1>5. ASSUME NEW s \in Sessions, PinInsert(s)
      PROVE  TypeOK'
  <2>1. PinBody(view[s]) \in PinRow
    BY <1>5, PinBodyType DEF PinInsert
  <2>2. TablesType'
    BY <1>1, <1>5, <2>1 DEF PinInsert, TablesType
  <2>3. SessionsType'
    BY <1>1, <1>5, GotoType, NoViewType DEF PinInsert, StoreLabels
  <2> QED
    BY <2>2, <2>3, TypePartsNext
<1>6. CASE UNCHANGED vars
  BY <1>1, <1>6, TablesSame, SessionsSame, TypePartsNext DEF vars
<1> QED
  BY <1>1, <1>2, <1>3, <1>4, <1>5, <1>6, CommitType, QuietType, StepKinds

-----------------------------------------------------------------------------
(* The ledger conjuncts.  Only a commit moves them. *)

(* Everything else leaves routes, attempts, events and revisions alone. *)
RouteSame ==
    /\ UNCHANGED <<pointer, attempts, events, ever>>
    /\ \A p \in Products : clock'[p].revision = clock[p].revision

LEMMA RouteSameOrCommit ==
    ASSUME IInv, [Next]_vars
    PROVE  RouteSame \/ \E s \in Sessions : CommitBy(s)
<1>1. ASSUME NEW p \in Products, InitializeProduct(p)
      PROVE  RouteSame
  BY <1>1 DEF InitializeProduct, RouteSame, IInv, PointerClockAgreement, TypeOK
<1>2. ASSUME NEW s \in Sessions, PinInsert(s) \/ Quiet(s)
      PROVE  RouteSame
  BY <1>2 DEF PinInsert, Quiet, tables, RouteSame
<1>3. CASE \E g \in Generations : \/ RegisterGeneration(g)
                                  \/ \E flags \in SUBSET Disqualifiers : SetEligibility(g, flags)
  BY <1>3 DEF RegisterGeneration, SetEligibility, RouteSame
<1>4. CASE UNCHANGED vars
  BY <1>4 DEF vars, tables, RouteSame
<1> QED
  BY <1>1, <1>2, <1>3, <1>4, StepKinds

(* The row a commit adds to the ledger. *)
NewEvent(r) ==
    [product |-> r.product, attempt |-> r.attempt, action |-> r.action,
     to |-> r.expected + 1, fromGen |-> pointer[r.product].generation,
     toGen |-> r.generation]

(* What a commit does to the rows the ledger conjuncts speak of. *)
LEMMA CommitFacts ==
    ASSUME IInv, NEW s \in Sessions, CommitBy(s), NEW r, r = req[s]
    PROVE  /\ r \in Request /\ r.product \in Products /\ r.attempt \in Attempts
           /\ r.expected \in Nat /\ clock[r.product].revision = r.expected
           /\ attempts[r.attempt] = Null
           /\ events' = events \cup {NewEvent(r)}
           /\ attempts' = [attempts EXCEPT ![r.attempt] =
                [request |-> r, prior |-> pointer[r.product].generation]]
           /\ clock'[r.product].revision = r.expected + 1
           /\ (clock'[r.product].route = "GENERATION") <=> (r.generation # Null)
           /\ clock'[r.product].route \in Routes
           /\ pointer'[r.product].generation = r.generation
           /\ r.generation # Null => pointer'[r.product].revision = r.expected + 1
           /\ \A q \in Products \ {r.product} :
                clock'[q] = clock[q] /\ pointer'[q] = pointer[q]
<1>1. r \in Request /\ Accepts(r)
  BY DEF CommitBy, Commit
<1>2. /\ r.product \in Products /\ r.attempt \in Attempts
      /\ r.expected \in 0 .. MaxRevision - 1
  BY <1>1, RequestShape
<1>3. PICK route \in Routes :
        Record(r, route) /\ ((route = "GENERATION") <=> (r.generation # Null))
  BY DEF CommitBy, Commit
<1>4. PICK n \in Revisions :
        /\ pointer' = [pointer EXCEPT ![r.product] =
                         [generation |-> r.generation, revision |-> n]]
        /\ r.generation # Null => n = r.expected + 1
  BY DEF CommitBy, Commit
<1>5. clock \in [Products -> ClockRow] /\ pointer \in [Products -> PointerRow]
  BY DEF IInv, TypeOK
<1>6. clock' = [clock EXCEPT ![r.product] =
                  [revision |-> r.expected + 1, route |-> route]]
  BY <1>3 DEF Record
<1> QED
  BY <1>1, <1>2, <1>3, <1>4, <1>5, <1>6, BoundAssumption
     DEF Record, Accepts, AtExpected, NewAttempt, NewEvent

(* A committing request has its receipt. *)
LEMMA CommitReceipt ==
    ASSUME IInv, NEW s \in Sessions, CommitBy(s)
    PROVE  attempts'[req[s].attempt] # Null
<1> DEFINE r == req[s]
           receipt == [request |-> r, prior |-> pointer[r.product].generation]
<1>1. /\ r \in Request /\ r.product \in Products /\ r.attempt \in Attempts
      /\ attempts' = [attempts EXCEPT ![r.attempt] = receipt]
  BY CommitFacts
<1>2. receipt \in Receipt
  BY <1>1 DEF Receipt, IInv, TypeOK, PointerRow
<1>3. attempts'[r.attempt] = receipt
  BY <1>1 DEF IInv, TypeOK
<1> QED
  BY <1>2, <1>3, NullAssumption

LEMMA PointerClockStep ==
    ASSUME IInv, [Next]_vars
    PROVE  PointerClockAgreement'
<1>1. ASSUME NEW s \in Sessions, CommitBy(s)
      PROVE  PointerClockAgreement'
  <2> DEFINE r == req[s]
  <2>1. /\ r.product \in Products
        /\ clock'[r.product].revision = r.expected + 1
        /\ (clock'[r.product].route = "GENERATION") <=> (r.generation # Null)
        /\ clock'[r.product].route \in Routes
        /\ pointer'[r.product].generation = r.generation
        /\ r.generation # Null => pointer'[r.product].revision = r.expected + 1
        /\ \A q \in Products \ {r.product} :
             clock'[q] = clock[q] /\ pointer'[q] = pointer[q]
    BY <1>1, CommitFacts
  <2> QED
    BY <2>1 DEF PointerClockAgreement, IInv
<1>2. ASSUME NEW p \in Products, InitializeProduct(p)
      PROVE  PointerClockAgreement'
  BY <1>2 DEF InitializeProduct, PointerClockAgreement, IInv, TypeOK
<1>3. CASE UNCHANGED <<clock, pointer>>
  BY <1>3 DEF PointerClockAgreement, IInv
<1>4. \/ \E s \in Sessions : CommitBy(s)
      \/ \E p \in Products : InitializeProduct(p)
      \/ UNCHANGED <<clock, pointer>>
  BY StepKinds DEF RegisterGeneration, SetEligibility, PinInsert, Quiet, tables, vars
<1> QED
  BY <1>1, <1>2, <1>3, <1>4

LEMMA LedgerStep ==
    ASSUME IInv, [Next]_vars
    PROVE  LedgerReplaysToPointer'
<1>1. LedgerReplaysToPointer /\ events \subseteq Event /\ clock \in [Products -> ClockRow]
  BY DEF IInv, TypeOK
<1>2. CASE RouteSame
  BY <1>1, <1>2 DEF RouteSame, LedgerReplaysToPointer, Event
<1>3. ASSUME NEW s \in Sessions, CommitBy(s)
      PROVE  LedgerReplaysToPointer'
  <2> DEFINE r == req[s]
             p == r.product
             n == r.expected + 1
             new == NewEvent(r)
  <2>1. /\ p \in Products /\ r.expected \in Nat /\ clock[p].revision = r.expected
        /\ events' = events \cup {new} /\ clock'[p].revision = n
        /\ pointer'[p].generation = r.generation
        /\ \A q \in Products \ {p} : clock'[q] = clock[q] /\ pointer'[q] = pointer[q]
    BY <1>3, CommitFacts
  <2>2. /\ new.product = p /\ new.to = n /\ new.toGen = r.generation
        /\ new.fromGen = pointer[p].generation
    BY DEF NewEvent
  <2>3. \A e \in events : e.product \in Products /\ e.to \in Nat
    BY <1>1 DEF Event
  <2>4. \A e \in events : e.product = p => e.to \in 1 .. r.expected
    BY <1>1, <2>1 DEF LedgerReplaysToPointer
  <2>5. \A e, f \in events' : e.product = f.product /\ e.to = f.to => e = f
    BY <1>1, <2>1, <2>2, <2>4 DEF LedgerReplaysToPointer
  <2>6. \A e \in events' : e.to \in 1 .. clock'[e.product].revision
    BY <1>1, <2>1, <2>2, <2>3, <2>4 DEF LedgerReplaysToPointer
  <2>7. \A q \in Products : \A m \in 1 .. clock'[q].revision :
          \E e \in events' : e.product = q /\ e.to = m
    <3>1. ASSUME NEW m \in 1 .. n
          PROVE  \E e \in events' : e.product = p /\ e.to = m
      <4>1. CASE m = n
        BY <2>1, <2>2, <4>1
      <4>2. CASE m # n
        <5>1. m \in 1 .. clock[p].revision
          BY <2>1, <4>2
        <5> QED
          BY <1>1, <2>1, <5>1 DEF LedgerReplaysToPointer
      <4> QED
        BY <4>1, <4>2
    <3>2. ASSUME NEW q \in Products \ {p}, NEW m \in 1 .. clock[q].revision
          PROVE  \E e \in events' : e.product = q /\ e.to = m
      BY <1>1, <2>1, <3>2 DEF LedgerReplaysToPointer
    <3> QED
      BY <2>1, <3>1, <3>2
  <2>8. \A e \in events' : e.to = 1 => e.fromGen = Null
    BY <1>1, <2>1, <2>2 DEF LedgerReplaysToPointer
  <2>9. \A e, f \in events' :
          e.product = f.product /\ f.to = e.to + 1 => f.fromGen = e.toGen
    <3>1. ASSUME NEW e \in events, e.product = p, n = e.to + 1
          PROVE  new.fromGen = e.toGen
      BY <1>1, <2>1, <2>2, <2>3, <3>1 DEF LedgerReplaysToPointer
    <3>2. ASSUME NEW f \in events, f.product = p, f.to = n + 1
          PROVE  FALSE
      BY <2>1, <2>4, <3>2
    <3> QED
      BY <1>1, <2>1, <2>2, <3>1, <3>2 DEF LedgerReplaysToPointer
  <2>10. \A e \in events' :
           e.to = clock'[e.product].revision => e.toGen = pointer'[e.product].generation
    BY <1>1, <2>1, <2>2, <2>3, <2>4 DEF LedgerReplaysToPointer
  <2>11. \A q \in Products : clock'[q].revision = 0 => pointer'[q].generation = Null
    BY <1>1, <2>1 DEF LedgerReplaysToPointer
  <2> QED
    BY <2>5, <2>6, <2>7, <2>8, <2>9, <2>10, <2>11 DEF LedgerReplaysToPointer
<1> QED
  BY <1>2, <1>3, RouteSameOrCommit

LEMMA ReceiptsStep ==
    ASSUME IInv, [Next]_vars
    PROVE  ReceiptsBacked'
<1>1. ReceiptsBacked /\ TypeOK
  BY DEF IInv
<1>2. \A a \in Attempts : attempts[a] # Null =>
        /\ attempts[a].request.product \in Products
        /\ attempts[a].request.expected \in Nat
  BY <1>1, RequestShape, BoundAssumption DEF TypeOK, Receipt
<1>3. CASE RouteSame
  BY <1>1, <1>2, <1>3 DEF RouteSame, ReceiptsBacked, Resulting
<1>4. ASSUME NEW s \in Sessions, CommitBy(s)
      PROVE  ReceiptsBacked'
  <2> DEFINE r == req[s]
             receipt == [request |-> r, prior |-> pointer[r.product].generation]
  <2>1. /\ r \in Request /\ r.product \in Products /\ r.attempt \in Attempts
        /\ r.expected \in Nat /\ attempts[r.attempt] = Null
        /\ clock[r.product].revision = r.expected
        /\ events' = events \cup {NewEvent(r)}
        /\ attempts' = [attempts EXCEPT ![r.attempt] = receipt]
        /\ clock'[r.product].revision = r.expected + 1
        /\ \A q \in Products \ {r.product} : clock'[q] = clock[q]
    BY <1>4, CommitFacts
  <2>2. receipt \in Receipt
    BY <1>1, <2>1 DEF Receipt, TypeOK, PointerRow
  <2>3. receipt # Null
    BY <2>2, NullAssumption
  <2>4. attempts'[r.attempt] = receipt
    BY <1>1, <2>1 DEF TypeOK
  <2>5. \A a \in Attempts \ {r.attempt} : attempts'[a] = attempts[a]
    BY <1>1, <2>1 DEF TypeOK
  <2>6. \A e \in events : e.attempt \in Attempts \ {r.attempt}
    BY <1>1, <2>1 DEF ReceiptsBacked, TypeOK, Event
  <2>7. ASSUME NEW e \in events'
        PROVE  /\ attempts'[e.attempt] # Null
               /\ attempts'[e.attempt].prior = e.fromGen
               /\ LET q == attempts'[e.attempt].request IN
                    e = [product |-> q.product, attempt |-> q.attempt,
                         action |-> q.action, to |-> q.expected + 1,
                         fromGen |-> e.fromGen, toGen |-> q.generation]
    <3>1. CASE e \in events
      BY <1>1, <2>5, <2>6, <3>1 DEF ReceiptsBacked
    <3>2. CASE e = NewEvent(r)
      BY <2>3, <2>4, <3>2 DEF NewEvent
    <3> QED
      BY <2>1, <2>7, <3>1, <3>2
  <2>8. ASSUME NEW a \in Attempts, attempts'[a] # Null
        PROVE  /\ \E e \in events' : e.attempt = a
               /\ Resulting(attempts'[a]) <= clock'[attempts'[a].request.product].revision
    <3>1. CASE a = r.attempt
      <4>1. NewEvent(r) \in events' /\ NewEvent(r).attempt = a
        BY <2>1, <3>1 DEF NewEvent
      <4>2. attempts'[a].request = r
        BY <2>4, <3>1
      <4>3. Resulting(attempts'[a]) = r.expected + 1
        BY <4>2 DEF Resulting
      <4> QED
        BY <2>1, <4>1, <4>2, <4>3
    <3>2. CASE a # r.attempt
      <4>1. attempts'[a] = attempts[a] /\ attempts[a] # Null
        BY <2>5, <2>8, <3>2
      <4>2. Resulting(attempts[a]) <= clock[attempts[a].request.product].revision
        BY <1>1, <4>1 DEF ReceiptsBacked
      <4>3. \E e \in events' : e.attempt = a
        BY <1>1, <2>1, <4>1 DEF ReceiptsBacked
      <4>4. clock \in [Products -> ClockRow] /\ attempts[a].request.product \in Products
        BY <1>1, <1>2, <4>1 DEF TypeOK
      <4> QED
        BY <1>2, <2>1, <4>1, <4>2, <4>3, <4>4 DEF Resulting
    <3> QED
      BY <3>1, <3>2
  <2> QED
    BY <2>7, <2>8 DEF ReceiptsBacked, Resulting
<1> QED
  BY <1>3, <1>4, RouteSameOrCommit

LEMMA PublishedOnceStep ==
    ASSUME IInv, [Next]_vars
    PROVE  PublishedOnce'
<1>1. PublishedOnce /\ TypeOK /\ ServedWasPublished
  BY DEF IInv
<1>2. ASSUME NEW s \in Sessions, CommitBy(s)
      PROVE  PublishedOnce'
  <2> DEFINE r == req[s]
             new == NewEvent(r)
  <2>1. /\ r \in Request /\ r.product \in Products /\ Accepts(r)
        /\ events' = events \cup {new}
    BY <1>2, CommitFacts DEF CommitBy, Commit
  <2>2. new.action = r.action /\ new.toGen = r.generation
    BY DEF NewEvent
  <2>3. state \in [Generations -> {"NO_ROW", "PROVEN", "PUBLISHED", "ROLLED_BACK"}]
        /\ ever \in [Generations -> BOOLEAN]
    BY <1>1 DEF TypeOK
  <2>4. CASE r.action = "PUBLISH"
    <3>1. r.generation \in Generations
      BY <2>1, <2>4, RequestShape
    <3>2. /\ state' = [state EXCEPT ![r.generation] = "PUBLISHED"]
          /\ ever' = [ever EXCEPT ![r.generation] = TRUE]
      BY <1>2, <2>4 DEF CommitBy, Commit
    <3>3. state[r.generation] = "PROVEN"
      BY <2>1, <2>4 DEF Accepts, Publishable
    <3>4. \A e \in events : e.action = "PUBLISH" => e.toGen # r.generation
      BY <1>1, <3>1, <3>3 DEF PublishedOnce
    <3>5. \A e, f \in events' :
            e.action = "PUBLISH" /\ f.action = "PUBLISH" /\ e.toGen = f.toGen => e = f
      BY <1>1, <2>1, <2>2, <3>4 DEF PublishedOnce
    <3>6. ASSUME NEW g \in Generations
          PROVE  ever'[g] <=> \E e \in events' : e.action = "PUBLISH" /\ e.toGen = g
      <4>1. CASE g = r.generation
        BY <2>1, <2>2, <2>3, <2>4, <3>1, <3>2, <4>1
      <4>2. CASE g # r.generation
        BY <1>1, <2>1, <2>2, <2>3, <3>1, <3>2, <4>2 DEF PublishedOnce
      <4> QED
        BY <4>1, <4>2
    <3>7. ASSUME NEW g \in Generations
          PROVE  ever'[g] <=> state'[g] \in {"PUBLISHED", "ROLLED_BACK"}
      BY <1>1, <2>3, <3>1, <3>2 DEF PublishedOnce
    <3> QED
      BY <3>5, <3>6, <3>7 DEF PublishedOnce
  <2>5. CASE r.action = "FALLBACK"
    <3>1. UNCHANGED <<state, ever>>
      BY <1>2, <2>5 DEF CommitBy, Commit
    <3> QED
      BY <1>1, <2>1, <2>2, <2>5, <3>1 DEF PublishedOnce
  <2>6. CASE r.action = "ROLLBACK"
    <3> DEFINE old == pointer[r.product].generation
    <3>1. /\ state' = [state EXCEPT ![old] = "ROLLED_BACK"]
          /\ UNCHANGED ever
      BY <1>2, <2>6 DEF CommitBy, Commit
    <3>2. old \in Generations /\ ever[old]
      BY <1>1, <2>1, <2>6 DEF Accepts, TypeOK, PointerRow, ServedWasPublished
    <3>3. \A g \in Generations : ever'[g] <=> state'[g] \in {"PUBLISHED", "ROLLED_BACK"}
      BY <1>1, <2>3, <3>1, <3>2 DEF PublishedOnce
    <3>4. \A e \in events' : e.action = "PUBLISH" => e \in events
      BY <2>1, <2>2, <2>6
    <3> QED
      BY <1>1, <2>1, <3>1, <3>3, <3>4 DEF PublishedOnce
  <2>7. r.action \in {"PUBLISH", "FALLBACK", "ROLLBACK"}
    BY <2>1, RequestShape
  <2> QED
    BY <2>4, <2>5, <2>6, <2>7
<1>3. ASSUME NEW g \in Generations, RegisterGeneration(g)
      PROVE  PublishedOnce'
  BY <1>1, <1>3 DEF RegisterGeneration, PublishedOnce, TypeOK
<1>4. CASE UNCHANGED <<state, ever, events>>
  BY <1>1, <1>4 DEF PublishedOnce
<1>5. \/ \E s \in Sessions : CommitBy(s)
      \/ \E g \in Generations : RegisterGeneration(g)
      \/ UNCHANGED <<state, ever, events>>
  BY StepKinds DEF InitializeProduct, SetEligibility, PinInsert, Quiet, tables, vars
<1> QED
  BY <1>2, <1>3, <1>4, <1>5

LEMMA ServedStep ==
    ASSUME IInv, [Next]_vars
    PROVE  ServedWasPublished'
<1>1. ServedWasPublished /\ TypeOK
  BY DEF IInv
<1>2. CASE RouteSame
  BY <1>1, <1>2 DEF RouteSame, ServedWasPublished
<1>3. ASSUME NEW s \in Sessions, CommitBy(s)
      PROVE  ServedWasPublished'
  <2> DEFINE r == req[s]
  <2>1. /\ r \in Request /\ r.product \in Products /\ Accepts(r)
        /\ pointer'[r.product].generation = r.generation
        /\ \A q \in Products \ {r.product} : pointer'[q] = pointer[q]
    BY <1>3, CommitFacts DEF CommitBy, Commit
  <2>2. /\ r.action \in {"PUBLISH", "FALLBACK", "ROLLBACK"}
        /\ r.generation \in Generations \cup {Null}
        /\ (r.action = "FALLBACK") <=> (r.generation = Null)
    BY <2>1, RequestShape
  <2>3. ever \in [Generations -> BOOLEAN] /\ pointer \in [Products -> PointerRow]
    BY <1>1 DEF TypeOK
  <2>4. \A g \in Generations : ever[g] => ever'[g]
    BY <1>3, <2>2, <2>3 DEF CommitBy, Commit
  <2>5. r.generation # Null => ever'[r.generation]
    <3>1. CASE r.action = "PUBLISH"
      BY <1>3, <2>2, <2>3, <3>1 DEF CommitBy, Commit
    <3>2. CASE r.action = "ROLLBACK"
      <4>1. ever[r.generation]
        BY <2>1, <3>2 DEF Accepts, RollbackTarget
      <4> QED
        BY <2>2, <2>4, <3>2, <4>1
    <3> QED
      BY <2>2, <3>1, <3>2
  <2> QED
    BY <1>1, <2>1, <2>3, <2>4, <2>5 DEF ServedWasPublished, PointerRow
<1> QED
  BY <1>2, <1>3, RouteSameOrCommit

-----------------------------------------------------------------------------
(* Sessions and pins. *)

(* The ledger only grows: no row is lost and no revision goes back. *)
Grows ==
    /\ events \subseteq events'
    /\ \A a \in Attempts : attempts[a] # Null => attempts'[a] = attempts[a]
    /\ \A p \in Products :
         clock'[p].revision \in Nat /\ clock[p].revision <= clock'[p].revision

LEMMA Growth ==
    ASSUME IInv, [Next]_vars
    PROVE  Grows
<1>1. clock \in [Products -> ClockRow] /\ attempts \in [Attempts -> Receipt \cup {Null}]
  BY DEF IInv, TypeOK
<1>2. CASE RouteSame
  BY <1>1, <1>2 DEF RouteSame, Grows, ClockRow
<1>3. ASSUME NEW s \in Sessions, CommitBy(s)
      PROVE  Grows
  <2> DEFINE r == req[s]
  <2>1. /\ r.product \in Products /\ r.attempt \in Attempts /\ r.expected \in Nat
        /\ attempts[r.attempt] = Null /\ clock[r.product].revision = r.expected
        /\ events' = events \cup {NewEvent(r)}
        /\ attempts' = [attempts EXCEPT ![r.attempt] =
             [request |-> r, prior |-> pointer[r.product].generation]]
        /\ clock'[r.product].revision = r.expected + 1
        /\ \A q \in Products \ {r.product} : clock'[q] = clock[q]
    BY <1>3, CommitFacts
  <2> QED
    BY <1>1, <2>1 DEF Grows, ClockRow
<1> QED
  BY <1>2, <1>3, RouteSameOrCommit

(* What is not older stays so while the ledger grows. *)
LEMMA NotOlderStable ==
    ASSUME Grows, NEW n, NotOlder(n)
    PROVE  NotOlder(n)'
BY DEF Grows, NotOlder

(* A session that does not move stays sound while the ledger grows. *)
LEMMA StillSound ==
    ASSUME IInv, Grows, NEW s \in Sessions,
           pc'[s] = pc[s], req'[s] = req[s], view'[s] = view[s]
    PROVE  SessionSound(s)'
<1>1. SessionSound(s) /\ TypeOK
  BY DEF IInv, SessionInv
<1>2. view[s] \in View /\ req[s] \in Request \cup {Null}
  BY <1>1 DEF TypeOK, View
<1>3. pc[s] \in {"ambiguous", "reconciling", "answered"} =>
        /\ attempts'[req[s].attempt] # Null
        /\ attempts'[req[s].attempt].request = req[s]
  <2>1. pc[s] \in {"ambiguous", "reconciling", "answered"} => req[s].attempt \in Attempts
    BY <1>1, <1>2, RequestShape DEF SessionSound
  <2> QED
    BY <1>1, <2>1 DEF SessionSound, Grows
<1>4. pc[s] \in {"pinning", "resolved"} =>
        view[s].clock.revision <= clock'[view[s].product].revision
  <2>1. ASSUME pc[s] \in {"pinning", "resolved"}
        PROVE  view[s].clock.revision <= clock'[view[s].product].revision
    <3>1. view[s].product \in Products
      BY <1>1, <1>2, <2>1 DEF SessionSound, View
    <3>2. view[s].clock.revision <= clock[view[s].product].revision
      BY <1>1, <2>1 DEF SessionSound
    <3>3. clock[view[s].product].revision <= clock'[view[s].product].revision
      BY <3>1 DEF Grows
    <3>4. /\ view[s].clock.revision \in Nat
          /\ clock[view[s].product].revision \in Nat
      BY <1>1, <1>2, <3>1 DEF TypeOK, View, ClockRow
    <3>5. clock'[view[s].product].revision \in Nat
      BY <3>1 DEF Grows
    <3> QED
      BY <3>2, <3>3, <3>4, <3>5
  <2> QED
    BY <2>1
<1>5. pc[s] = "resolved" => NotOlder(PinBody(view[s]))'
  <2>1. pc[s] = "resolved" => NotOlder(PinBody(view[s]))
    BY <1>1 DEF SessionSound
  <2> QED
    BY <2>1 DEF NotOlder, PinBody, Grows
<1> QED
  BY <1>1, <1>3, <1>4, <1>5 DEF SessionSound

(* A session that lands on a label carries what it was sent with. *)
LEMMA GotoEffect ==
    ASSUME TypeOK, NEW s \in Sessions, NEW l, NEW r, NEW v, Goto(s, l, r, v)
    PROVE  /\ pc'[s] = l /\ req'[s] = r /\ view'[s] = v
           /\ \A t \in Sessions \ {s} :
                pc'[t] = pc[t] /\ req'[t] = req[t] /\ view'[t] = view[t]
BY DEF Goto, TypeOK

(* Going idle needs no justification. *)
LEMMA IdleSound ==
    ASSUME NEW s \in Sessions, pc'[s] = "idle"
    PROVE  SessionSound(s)'
BY DEF SessionSound

LEMMA QuietSound ==
    ASSUME IInv, NEW s \in Sessions, Quiet(s)
    PROVE  SessionSound(s)'
<1>1. TypeOK /\ SessionSound(s) /\ UNCHANGED tables
  BY DEF IInv, SessionInv, Quiet
<1>2. /\ view[s] \in View /\ req[s] \in Request \cup {Null}
      /\ clock \in [Products -> ClockRow] /\ pointer \in [Products -> PointerRow]
  BY <1>1 DEF TypeOK, View
<1>3. ASSUME NEW r \in Request, SubmitFresh(s, r)
      PROVE  SessionSound(s)'
  <2>1. pc'[s] = "checked" /\ req'[s] = r
    BY <1>1, <1>3, GotoEffect DEF SubmitFresh
  <2> QED
    BY <2>1, NullAssumption DEF SessionSound
<1>4. ASSUME NEW r \in Request, SubmitReplay(s, r)
      PROVE  SessionSound(s)'
  <2>1. pc'[s] = "answered" /\ req'[s] = r
    BY <1>1, <1>4, GotoEffect DEF SubmitReplay
  <2> QED
    BY <1>1, <1>4, <2>1, NullAssumption DEF SubmitReplay, SessionSound, tables
<1>5. CASE \/ \E r \in Request : SubmitConflict(s, r)
           \/ Refuse(s) \/ Crash(s)
  <2>1. pc'[s] = "idle"
    BY <1>1, <1>5, GotoEffect DEF SubmitConflict, Refuse, Crash
  <2> QED
    BY <2>1, IdleSound
<1>6. CASE ReconcileClock(s)
  <2> DEFINE p == attempts[req[s].attempt].request.product
             v == [NoView EXCEPT !.product = p, !.clock = clock[p]]
  <2>1. /\ attempts[req[s].attempt] # Null
        /\ attempts[req[s].attempt].request = req[s]
        /\ req[s] # Null
    BY <1>1, <1>6 DEF SessionSound, ReconcileClock
  <2>2. req[s] \in Request /\ p = req[s].product /\ p \in Products
    BY <1>2, <2>1, RequestShape
  <2>3. Resulting(attempts[req[s].attempt]) <= clock[p].revision
    BY <2>1, <2>2, RequestShape DEF IInv, ReceiptsBacked
  <2>4. v.clock = clock[p]
    BY DEF NoView
  <2>5. pc'[s] = "reconciling" /\ req'[s] = req[s] /\ view'[s] = v
    BY <1>1, <1>6, GotoEffect DEF ReconcileClock
  <2>6. clock[p].revision \in Nat /\ req[s].expected \in Nat
    BY <1>2, <2>2, RequestShape, BoundAssumption DEF ClockRow
  <2>7. view'[s].clock.revision >= req'[s].expected + 1
    BY <2>1, <2>3, <2>4, <2>5, <2>6 DEF Resulting
  <2> QED
    BY <1>1, <2>1, <2>5, <2>7 DEF SessionSound, tables
<1>7. CASE ReconcilePointer(s)
  <2>1. pc'[s] \in {"answered", "ambiguous"} /\ req'[s] = req[s]
    BY <1>1, <1>7, GotoEffect DEF ReconcilePointer
  <2> QED
    BY <1>1, <1>7, <2>1 DEF ReconcilePointer, SessionSound, tables
<1>8. ASSUME NEW p \in Products, NEW k \in Pins, PinClock(s, p, k)
      PROVE  SessionSound(s)'
  <2> DEFINE v == [NoView EXCEPT !.product = p, !.pin = k, !.clock = clock[p]]
  <2>1. v.product = p /\ v.pin = k /\ v.clock = clock[p]
    BY DEF NoView
  <2>2. pc'[s] = "pinning" /\ view'[s] = v
    BY <1>1, <1>8, GotoEffect DEF PinClock
  <2>3. p # Null /\ k # Null /\ clock[p].route # "NO_ROW" /\ clock'[p] = clock[p]
        /\ clock[p].revision \in Nat
    BY <1>1, <1>2, <1>8, NullAssumption DEF PinClock, tables, ClockRow
  <2> HIDE DEF v
  <2> QED
    BY <2>1, <2>2, <2>3 DEF SessionSound
<1>9. CASE PinPointer(s)
  <2> DEFINE p == view[s].product
             g == pointer[p].generation
             v == [view[s] EXCEPT !.generation = g]
  <2>1. /\ p \in Products /\ view[s].pin # Null /\ p # Null
        /\ view[s].clock.route # "NO_ROW"
        /\ view[s].clock.revision <= clock[p].revision
    BY <1>1, <1>2, <1>9 DEF PinPointer, SessionSound, View
  <2>2. CASE ~Consistent(view[s].clock.route, g)
    <3>1. pc'[s] = "idle"
      BY <1>1, <1>9, <2>2, GotoEffect DEF PinPointer
    <3> QED
      BY <3>1, IdleSound
  <2>3. CASE Consistent(view[s].clock.route, g)
    <3>1. pc'[s] = "resolved" /\ view'[s] = v
      BY <1>1, <1>9, <2>3, GotoEffect DEF PinPointer
    <3>2. /\ v.product = p /\ v.pin = view[s].pin /\ v.clock = view[s].clock
          /\ v.generation = g
      BY <1>2 DEF View
    <3>3. NotOlder(PinBody(v))
      <4>1. CASE g = Null
        BY <2>3, <3>2, <4>1 DEF Consistent, NotOlder, PinBody
      <4>2. CASE g # Null
        <5>1. clock[p].revision \in Nat \ {0}
          BY <1>2, <2>1, <4>2 DEF ClockRow, IInv, LedgerReplaysToPointer
        <5>2. PICK e \in events : e.product = p /\ e.to = clock[p].revision
          BY <2>1, <5>1 DEF IInv, LedgerReplaysToPointer
        <5>3. e.toGen = g
          BY <5>2 DEF IInv, LedgerReplaysToPointer
        <5>4. e.to >= view[s].clock.revision
          BY <1>2, <2>1, <5>1, <5>2 DEF View, ClockRow
        <5> QED
          BY <3>2, <4>2, <5>2, <5>3, <5>4 DEF NotOlder, PinBody
      <4> QED
        BY <4>1, <4>2
    <3> HIDE DEF v
    <3>4. NotOlder(PinBody(view[s]))'
      BY <1>1, <3>1, <3>3 DEF NotOlder, PinBody, tables
    <3> QED
      BY <1>1, <2>1, <3>1, <3>2, <3>4 DEF SessionSound, tables
  <2> QED
    BY <2>2, <2>3
<1> QED
  BY <1>3, <1>4, <1>5, <1>6, <1>7, <1>8, <1>9 DEF Quiet

LEMMA SessionStep ==
    ASSUME IInv, [Next]_vars
    PROVE  SessionInv'
<1>1. TypeOK /\ Grows
  BY Growth DEF IInv
<1>2. CASE UNCHANGED <<pc, req, view>>
  BY <1>1, <1>2, StillSound DEF SessionInv
<1>3. ASSUME NEW s \in Sessions, CommitBy(s) \/ PinInsert(s) \/ Quiet(s)
      PROVE  SessionInv'
  <2>1. \A t \in Sessions \ {s} :
          pc'[t] = pc[t] /\ req'[t] = req[t] /\ view'[t] = view[t]
    BY <1>1, <1>3, GotoEffect
       DEF CommitBy, PinInsert, Quiet, SubmitFresh, SubmitReplay, SubmitConflict, Refuse,
           Crash, ReconcileClock, ReconcilePointer, PinClock, PinPointer
  <2>2. SessionSound(s)'
    <3>1. CASE CommitBy(s)
      <4> DEFINE r == req[s]
      <4>1. pc'[s] \in {"answered", "ambiguous"} /\ req'[s] = r
        BY <1>1, <3>1, GotoEffect DEF CommitBy
      <4>2. /\ r \in Request /\ r.attempt \in Attempts
            /\ attempts' = [attempts EXCEPT ![r.attempt] =
                 [request |-> r, prior |-> pointer[r.product].generation]]
        BY <3>1, CommitFacts
      <4>3. attempts'[r.attempt].request = r
        BY <1>1, <4>2 DEF TypeOK
      <4>4. attempts'[r.attempt] # Null
        BY <3>1, <4>1, CommitReceipt
      <4> QED
        BY <4>1, <4>2, <4>3, <4>4, NullAssumption DEF SessionSound
    <3>2. CASE PinInsert(s)
      <4>1. pc'[s] = "idle"
        BY <1>1, <3>2, GotoEffect DEF PinInsert
      <4> QED
        BY <4>1, IdleSound
    <3>3. CASE Quiet(s)
      BY <3>3, QuietSound
    <3> QED
      BY <1>3, <3>1, <3>2, <3>3
  <2> QED
    BY <1>1, <2>1, <2>2, StillSound DEF SessionInv
<1>4. \/ UNCHANGED <<pc, req, view>>
      \/ \E s \in Sessions : CommitBy(s) \/ PinInsert(s) \/ Quiet(s)
  BY StepKinds DEF InitializeProduct, RegisterGeneration, SetEligibility, vars
<1> QED
  BY <1>2, <1>3, <1>4

LEMMA PinStep ==
    ASSUME IInv, [Next]_vars
    PROVE  PinNeverOlder'
<1>1. TypeOK /\ Grows /\ PinNeverOlder
  BY Growth DEF IInv
<1>3. ASSUME NEW s \in Sessions, PinInsert(s)
      PROVE  PinNeverOlder'
  <2> DEFINE body == PinBody(view[s])
  <2>1. NotOlder(body) /\ events' = events
    BY <1>3 DEF PinInsert, IInv, SessionInv, SessionSound
  <2>2. pins \in [Pins -> PinRow \cup {Null}]
    BY <1>1 DEF TypeOK
  <2>3. ASSUME NEW k \in Pins, pins'[k] # Null
        PROVE  pins'[k] = body \/ (pins'[k] = pins[k] /\ pins[k] # Null)
    BY <1>3, <2>2, <2>3 DEF PinInsert
  <2> HIDE DEF body
  <2> QED
    BY <1>1, <2>1, <2>3 DEF PinNeverOlder, NotOlder
<1>4. CASE UNCHANGED pins
  BY <1>1, <1>4 DEF PinNeverOlder, NotOlder, Grows
<1>5. UNCHANGED pins \/ \E s \in Sessions : PinInsert(s)
  BY StepKinds DEF InitializeProduct, RegisterGeneration, SetEligibility, CommitBy, Commit,
                   Record, Quiet, tables, vars
<1> QED
  BY <1>3, <1>4, <1>5

-----------------------------------------------------------------------------
(* The invariant. *)

LEMMA InitInv == Init => IInv
<1> SUFFICES ASSUME Init PROVE IInv
  OBVIOUS
<1>1. TypeOK
  BY InitType
<1>2. /\ PointerClockAgreement /\ LedgerReplaysToPointer /\ ReceiptsBacked
      /\ PublishedOnce /\ ServedWasPublished /\ PinNeverOlder
  BY DEF Init, PointerClockAgreement, LedgerReplaysToPointer, ReceiptsBacked,
         PublishedOnce, ServedWasPublished, PinNeverOlder
<1>3. SessionInv
  BY DEF Init, SessionInv, SessionSound
<1> QED
  BY <1>1, <1>2, <1>3 DEF IInv

LEMMA InvStep == IInv /\ [Next]_vars => IInv'
<1> SUFFICES ASSUME IInv, [Next]_vars PROVE IInv'
  OBVIOUS
<1>1. TypeOK' /\ PointerClockAgreement' /\ LedgerReplaysToPointer' /\ ReceiptsBacked'
  BY TypeStep, PointerClockStep, LedgerStep, ReceiptsStep
<1>2. PublishedOnce' /\ ServedWasPublished' /\ SessionInv' /\ PinNeverOlder'
  BY PublishedOnceStep, ServedStep, SessionStep, PinStep
<1> QED
  BY <1>1, <1>2 DEF IInv

(* In every reachable state of the store the rows of its tables agree with
   one another, and each session in the middle of a call holds what its
   reads justify. *)
THEOREM Invariance == Spec => []IInv
<1>1. Init => IInv
  BY InitInv
<1>2. IInv /\ [Next]_vars => IInv'
  BY InvStep
<1> QED
  BY <1>1, <1>2, PTL DEF Spec

(* Every row the store ever holds has the shape its table declares: in
   particular no revision exceeds the expected revisions callers name by
   more than one. *)
THEOREM TypeCorrect == Spec => []TypeOK
<1>1. IInv => TypeOK
  BY DEF IInv
<1> QED
  BY <1>1, Invariance, PTL

(* revision_clock and active_pointer never disagree at a commit point, so
   `current` read inside a transaction never fails with CB27C002. *)
THEOREM Agreement == Spec => []PointerClockAgreement
<1>1. IInv => PointerClockAgreement
  BY DEF IInv
<1> QED
  BY <1>1, Invariance, PTL

(* The events table is a gapless, single-winner history of each product's
   route that ends in the active pointer, for any number of racing callers. *)
THEOREM LedgerIsHistory == Spec => []LedgerReplaysToPointer
<1>1. IInv => LedgerReplaysToPointer
  BY DEF IInv
<1> QED
  BY <1>1, Invariance, PTL

(* Attempt rows and events are in one-to-one correspondence. *)
THEOREM ReceiptsTruthful == Spec => []ReceiptsBacked
<1>1. IInv => ReceiptsBacked
  BY DEF IInv
<1> QED
  BY <1>1, Invariance, PTL

(* Whatever way a caller comes by an answer (commit, replay, reconciliation)
   it is the receipt of its own request. *)
THEOREM AnswersAreTruthful == Spec => []AnswersTruthful
<1>1. IInv => AnswersTruthful
  BY DEF IInv, SessionInv, SessionSound, AnswersTruthful
<1> QED
  BY <1>1, Invariance, PTL

(* No generation is put in service by two publications. *)
THEOREM PublicationIsOnce == Spec => []PublishedOnce
<1>1. IInv => PublishedOnce
  BY DEF IInv
<1> QED
  BY <1>1, Invariance, PTL

(* A pin, though read in two statements, never names a generation that left
   service before the revision it pins. *)
THEOREM PinsNeverOlder == Spec => []PinNeverOlder
<1>1. IInv => PinNeverOlder
  BY DEF IInv
<1> QED
  BY <1>1, Invariance, PTL

-----------------------------------------------------------------------------
(* The action properties. *)

(* The active pointer of a product moves only under compare-and-swap on its
   revision. *)
THEOREM CompareAndSwap == Spec => RouteChangesByCAS
<1> DEFINE A == \A p \in Products :
                  pointer'[p] # pointer[p] =>
                    /\ clock'[p].revision = clock[p].revision + 1
                    /\ \E s \in Sessions :
                         /\ pc[s] = "checked"
                         /\ req[s].product = p
                         /\ req[s].expected = clock[p].revision
<1>1. ASSUME IInv, [Next]_vars
      PROVE  A
  <2>1. CASE RouteSame
    BY <2>1 DEF RouteSame
  <2>2. ASSUME NEW s \in Sessions, CommitBy(s)
        PROVE  A
    <3> DEFINE r == req[s]
    <3>1. pc[s] = "checked"
      BY <2>2 DEF CommitBy
    <3>2. /\ clock[r.product].revision = r.expected
          /\ clock'[r.product].revision = r.expected + 1
          /\ \A q \in Products \ {r.product} : pointer'[q] = pointer[q]
      BY <1>1, <2>2, CommitFacts
    <3> QED
      BY <3>1, <3>2
  <2> QED
    BY <1>1, <2>1, <2>2, RouteSameOrCommit
<1>2. IInv /\ [Next]_vars => [A]_vars
  BY <1>1
<1> QED
  BY <1>2, Invariance, PTL DEF Spec, RouteChangesByCAS

(* The mark a rollback leaves: the generation it took out of service is
   ROLLED_BACK, for good. *)
WithdrawnMarked ==
    \A e \in events : e.action = "ROLLBACK" =>
        e.fromGen \in Generations /\ state[e.fromGen] = "ROLLED_BACK"

(* No step takes the mark away. *)
LEMMA MarkStays ==
    ASSUME IInv, [Next]_vars, NEW g \in Generations, state[g] = "ROLLED_BACK"
    PROVE  state'[g] = "ROLLED_BACK"
<1>1. state \in [Generations -> {"NO_ROW", "PROVEN", "PUBLISHED", "ROLLED_BACK"}]
  BY DEF IInv, TypeOK
<1>2. ASSUME NEW s \in Sessions, CommitBy(s)
      PROVE  state'[g] = "ROLLED_BACK"
  <2> DEFINE r == req[s]
  <2>1. Accepts(r)
    BY <1>2 DEF CommitBy, Commit
  <2>2. r.action = "PUBLISH" => r.generation # g
    BY <2>1 DEF Accepts, Publishable
  <2> QED
    BY <1>1, <1>2, <2>2 DEF CommitBy, Commit
<1>3. ASSUME NEW h \in Generations, RegisterGeneration(h)
      PROVE  state'[g] = "ROLLED_BACK"
  BY <1>1, <1>3 DEF RegisterGeneration
<1>4. ASSUME NEW s \in Sessions, PinInsert(s) \/ Quiet(s)
      PROVE  state'[g] = "ROLLED_BACK"
  BY <1>4 DEF PinInsert, Quiet, tables
<1>5. CASE \/ \E p \in Products : InitializeProduct(p)
           \/ \E h \in Generations, flags \in SUBSET Disqualifiers : SetEligibility(h, flags)
  BY <1>5 DEF InitializeProduct, SetEligibility
<1>6. CASE UNCHANGED vars
  BY <1>6 DEF vars, tables
<1> QED
  BY <1>2, <1>3, <1>4, <1>5, <1>6, StepKinds

LEMMA MarkedStep ==
    ASSUME IInv, [Next]_vars, WithdrawnMarked
    PROVE  WithdrawnMarked'
<1>1. ASSUME NEW e \in events, e.action = "ROLLBACK"
      PROVE  e.fromGen \in Generations /\ state'[e.fromGen] = "ROLLED_BACK"
  BY <1>1, MarkStays DEF WithdrawnMarked
<1>2. CASE RouteSame
  BY <1>1, <1>2 DEF RouteSame, WithdrawnMarked
<1>3. ASSUME NEW s \in Sessions, CommitBy(s)
      PROVE  WithdrawnMarked'
  <2> DEFINE r == req[s]
             old == pointer[r.product].generation
  <2>1. /\ events' = events \cup {NewEvent(r)}
        /\ r \in Request /\ r.product \in Products /\ Accepts(r)
    BY <1>3, CommitFacts DEF CommitBy, Commit
  <2>2. ASSUME r.action = "ROLLBACK"
        PROVE  old \in Generations /\ state'[old] = "ROLLED_BACK"
    <3>1. old \in Generations
      BY <2>1, <2>2 DEF Accepts, IInv, TypeOK, PointerRow
    <3>2. state' = [state EXCEPT ![old] = "ROLLED_BACK"]
      BY <1>3, <2>2 DEF CommitBy, Commit
    <3> QED
      BY <3>1, <3>2 DEF IInv, TypeOK
  <2>3. NewEvent(r).action = r.action /\ NewEvent(r).fromGen = old
    BY DEF NewEvent
  <2> QED
    BY <1>1, <2>1, <2>2, <2>3 DEF WithdrawnMarked
<1> QED
  BY <1>2, <1>3, RouteSameOrCommit

(* What a rollback took out of service is never served again, by any product
   and whoever asks: a new event of the ledger routes to a generation that is
   PROVEN or PUBLISHED, and the generation an earlier rollback left is marked
   ROLLED_BACK for good. *)
THEOREM WithdrawnIsOut == Spec => WithdrawnStaysOut
<1> DEFINE A == \A e \in events, f \in events' \ events :
                  e.action = "ROLLBACK" => f.toGen # e.fromGen
<1>1. Init => WithdrawnMarked
  BY DEF Init, WithdrawnMarked
<1>2. IInv /\ [Next]_vars /\ WithdrawnMarked => WithdrawnMarked'
  BY MarkedStep
<1>3. ASSUME IInv, [Next]_vars, WithdrawnMarked
      PROVE  A
  <2>1. CASE RouteSame
    BY <2>1 DEF RouteSame
  <2>2. ASSUME NEW s \in Sessions, CommitBy(s)
        PROVE  A
    <3> DEFINE r == req[s]
    <3>1. /\ events' = events \cup {NewEvent(r)}
          /\ r \in Request /\ Accepts(r)
      BY <1>3, <2>2, CommitFacts DEF CommitBy, Commit
    <3>2. NewEvent(r).toGen = r.generation
      BY DEF NewEvent
    <3>3. r.generation = Null \/ state[r.generation] \in {"PROVEN", "PUBLISHED"}
      BY <3>1, RequestShape DEF Accepts, Publishable, RollbackTarget
    <3>4. \A e \in events : e.action = "ROLLBACK" => r.generation # e.fromGen
      BY <1>3, <3>3, NullAssumption DEF WithdrawnMarked
    <3> QED
      BY <3>1, <3>2, <3>4
  <2> QED
    BY <1>3, <2>1, <2>2, RouteSameOrCommit
<1>4. IInv /\ [Next]_vars /\ WithdrawnMarked => [A]_vars
  BY <1>3
<1> QED
  BY <1>1, <1>2, <1>4, Invariance, PTL DEF Spec, WithdrawnStaysOut

-----------------------------------------------------------------------------
(* The refinement. *)

(* The register as the store's variables define it, for the steps below. *)
RouteOf == [p \in Products |-> pointer[p].generation]
RevisionOf == [p \in Products |-> clock[p].revision]
UsedOf == {g \in Generations : ever[g]}
WithdrawnOf == {g \in Generations : state[g] = "ROLLED_BACK"}

LEMMA RoutedInit == Init => Routed!Init
BY DEF Init, Routed!Init

(* A step that moves no route leaves the register as it is. *)
LEMMA RoutedStutter ==
    ASSUME IInv, [Next]_vars, RouteSame
    PROVE  UNCHANGED <<RouteOf, RevisionOf, UsedOf, WithdrawnOf>>
<1>1. UNCHANGED <<RouteOf, RevisionOf, UsedOf>>
  BY DEF RouteSame, RouteOf, RevisionOf, UsedOf
<1>2. CASE UNCHANGED state
  BY <1>1, <1>2 DEF WithdrawnOf
<1>3. ASSUME NEW g \in Generations, RegisterGeneration(g)
      PROVE  UNCHANGED WithdrawnOf
  BY <1>3 DEF RegisterGeneration, WithdrawnOf, IInv, TypeOK
<1>4. ASSUME NEW s \in Sessions, CommitBy(s)
      PROVE  FALSE
  <2> DEFINE r == req[s]
  <2>1. /\ r.product \in Products /\ r.expected \in Nat
        /\ clock[r.product].revision = r.expected
        /\ clock'[r.product].revision = r.expected + 1
    BY <1>4, CommitFacts
  <2> QED
    BY <2>1 DEF RouteSame
<1>5. \/ UNCHANGED state
      \/ \E g \in Generations : RegisterGeneration(g)
      \/ \E s \in Sessions : CommitBy(s)
  BY StepKinds DEF InitializeProduct, SetEligibility, PinInsert, Quiet, tables, vars
<1> QED
  BY <1>1, <1>2, <1>3, <1>4, <1>5

(* A commit moves the register by the action of the same name. *)
LEMMA RoutedCommit ==
    ASSUME IInv, NEW s \in Sessions, CommitBy(s)
    PROVE  Routed!Next
<1>0. PICK r \in Request : r = req[s]
  BY CommitFacts
<1> DEFINE p == r.product
           g == r.generation
           old == pointer[p].generation
<1>1. /\ p \in Products /\ Accepts(r)
      /\ clock[p].revision = r.expected /\ clock'[p].revision = r.expected + 1
      /\ pointer'[p].generation = g
      /\ \A q \in Products \ {p} : clock'[q] = clock[q] /\ pointer'[q] = pointer[q]
  BY <1>0, CommitFacts DEF CommitBy, Commit
<1>2. /\ r.action \in {"PUBLISH", "FALLBACK", "ROLLBACK"}
      /\ g \in Generations \cup {Null}
      /\ (r.action = "FALLBACK") <=> (g = Null)
  BY RequestShape
<1>3. TypeOK /\ PublishedOnce /\ ServedWasPublished /\ PointerClockAgreement
  BY DEF IInv
<1>4. RouteOf' = [RouteOf EXCEPT ![p] = g]
  BY <1>1 DEF RouteOf
<1>5. RevisionOf' = [RevisionOf EXCEPT ![p] = @ + 1]
  BY <1>1 DEF RevisionOf
<1>6. CASE r.action = "PUBLISH"
  <2>1. /\ state' = [state EXCEPT ![g] = "PUBLISHED"]
        /\ ever' = [ever EXCEPT ![g] = TRUE]
    BY <1>0, <1>6 DEF CommitBy, Commit
  <2>2. g \in Generations
    BY <1>2, <1>6
  <2>3. Publishable(g)
    BY <1>1, <1>6 DEF Accepts
  <2>4. state[g] = "PROVEN" /\ ~ever[g]
    BY <1>3, <2>2, <2>3 DEF Publishable, PublishedOnce
  <2>5. g \notin UsedOf \cup WithdrawnOf
    BY <2>4 DEF UsedOf, WithdrawnOf
  <2>6. UsedOf' = UsedOf \cup {g}
    BY <1>3, <2>1, <2>2 DEF UsedOf, TypeOK
  <2>7. WithdrawnOf' = WithdrawnOf
    BY <1>3, <2>1, <2>2, <2>4 DEF WithdrawnOf, TypeOK
  <2>8. Routed!Publish(p, g)
    BY <1>4, <1>5, <2>5, <2>6, <2>7
       DEF Routed!Publish, Routed!MoveTo, RouteOf, RevisionOf, UsedOf, WithdrawnOf
  <2> QED
    BY <1>1, <2>2, <2>8 DEF Routed!Next
<1>7. CASE r.action = "FALLBACK"
  <2>1. UNCHANGED <<state, ever>> /\ g = Null
    BY <1>0, <1>2, <1>7 DEF CommitBy, Commit
  <2>2. old # Null
    BY <1>1, <1>7 DEF Accepts
  <2>3. UNCHANGED <<UsedOf, WithdrawnOf>>
    BY <2>1 DEF UsedOf, WithdrawnOf
  <2>4. RouteOf[p] # Null
    BY <1>1, <2>2 DEF RouteOf
  <2>5. Routed!Fallback(p)
    BY <1>4, <1>5, <2>1, <2>3, <2>4
       DEF Routed!Fallback, Routed!MoveTo, RouteOf, RevisionOf, UsedOf, WithdrawnOf
  <2> QED
    BY <1>1, <2>5 DEF Routed!Next
<1>8. CASE r.action = "ROLLBACK"
  <2>1. state' = [state EXCEPT ![old] = "ROLLED_BACK"] /\ UNCHANGED ever
    BY <1>0, <1>8 DEF CommitBy, Commit
  <2>2. g \in Generations
    BY <1>2, <1>8
  <2>3. old \notin {Null, g} /\ RollbackTarget(g)
    BY <1>1, <1>8 DEF Accepts
  <2>4. old \in Generations
    BY <1>1, <1>3, <2>3 DEF TypeOK, PointerRow
  <2>5. g \in UsedOf \ WithdrawnOf
    BY <2>2, <2>3 DEF RollbackTarget, UsedOf, WithdrawnOf
  <2>6. RouteOf[p] = old
    BY <1>1 DEF RouteOf
  <2>7. WithdrawnOf' = WithdrawnOf \cup {RouteOf[p]}
    BY <1>3, <2>1, <2>4, <2>6 DEF WithdrawnOf, TypeOK
  <2>8. UNCHANGED UsedOf
    BY <2>1 DEF UsedOf
  <2>9. Routed!Rollback(p, g)
    BY <1>4, <1>5, <2>3, <2>5, <2>6, <2>7, <2>8
       DEF Routed!Rollback, Routed!MoveTo, RouteOf, RevisionOf, UsedOf, WithdrawnOf
  <2> QED
    BY <1>1, <2>2, <2>9 DEF Routed!Next
<1> QED
  BY <1>2, <1>6, <1>7, <1>8

(* The publication store implements the route register: every commit of a
   publication, fallback or rollback is the register's step of that name and
   everything else it does is invisible there. *)
THEOREM Refinement == Spec => ImplementsRouteRegister
<1>1. Init => Routed!Init
  BY RoutedInit
<1>2. ASSUME IInv, [Next]_vars
      PROVE  [Routed!Next]_Routed!vars
  <2>1. CASE RouteSame
    BY <1>2, <2>1, RoutedStutter
       DEF Routed!vars, RouteOf, RevisionOf, UsedOf, WithdrawnOf
  <2>2. CASE \E s \in Sessions : CommitBy(s)
    BY <1>2, <2>2, RoutedCommit
  <2> QED
    BY <1>2, <2>1, <2>2, RouteSameOrCommit
<1>3. IInv /\ [Next]_vars => [Routed!Next]_Routed!vars
  BY <1>2
<1> QED
  BY <1>1, <1>3, Invariance, PTL DEF Spec, ImplementsRouteRegister, Routed!Spec

-----------------------------------------------------------------------------
(* The orchestrator over the store, for any runs and any calls. *)

Reading == {"open", "received", "verified", "mismatch"}

LEMMA PlayShape ==
    ASSUME NEW s \in Sessions, NEW p \in Duty[s]
    PROVE  p \in Plays /\ p # Null
BY PlayAssumption DEF Plays

LEMMA PlayFields ==
    ASSUME NEW p \in Plays
    PROVE  /\ p.op \in {"publish", "fallback"} /\ p.run \in Runs /\ p.request \in Request
           /\ p.pin \in Pins /\ p # Null
           /\ (p.op = "publish") <=> (p.request.action = "PUBLISH")
<1>1. p \in Play
  BY PlayAssumption DEF Plays
<1>2. p.request.action = IF p.op = "publish" THEN "PUBLISH" ELSE "FALLBACK"
  BY PlayAssumption
<1> QED
  BY <1>1, <1>2, PlayAssumption DEF Play

(* The transitions, by the call and the label that make them. *)
LEMMA MovesFacts ==
    ASSUME NEW op \in {"publish", "fallback"}, NEW label \in Reading,
           NEW m \in Moves(op, label)
    PROVE  /\ m[1] \in RunStates \ {"NO_ROW"} /\ m[2] \in RunStates \ {"NO_ROW", "PLANNED"}
           /\ m[2] = "ELIGIBLE" => m[1] = "PLANNED"
           /\ m[2] = "VERIFYING" => op = "publish" /\ label = "received"
           /\ m[2] = "ACTIVE" => op = "publish" /\ label = "verified"
           /\ m[2] = "SOURCE_FALLBACK_VERIFIED" => op = "fallback" /\ label = "verified"
<1>1. \/ op = "publish" /\ label = "open"
           /\ m \in {<<"PLANNED", "ELIGIBLE">>, <<"ELIGIBLE", "PUBLISHING">>}
      \/ op = "publish" /\ label = "received" /\ m = <<"PUBLISHING", "VERIFYING">>
      \/ op = "publish" /\ label = "verified" /\ m = <<"VERIFYING", "ACTIVE">>
      \/ op = "publish" /\ label = "mismatch" /\ m = <<"VERIFYING", "INCIDENT">>
      \/ op = "fallback" /\ label = "open"
           /\ m \in {<<"ACTIVE", "INCIDENT">>, <<"INCIDENT", "RECOVERING">>}
      \/ op = "fallback" /\ label = "verified"
           /\ m = <<"RECOVERING", "SOURCE_FALLBACK_VERIFIED">>
  BY DEF Moves, Reading
<1> QED
  BY <1>1 DEF RunStates

LEMMA OpenMoves ==
    /\ "PLANNED" \in {m[1] : m \in Moves("publish", "open")}
    /\ "ELIGIBLE" \in {m[1] : m \in Moves("publish", "open")}
<1>1. Moves("publish", "open") = {<<"PLANNED", "ELIGIBLE">>, <<"ELIGIBLE", "PUBLISHING">>}
  BY DEF Moves
<1>2. <<"PLANNED", "ELIGIBLE">>[1] = "PLANNED" /\ <<"ELIGIBLE", "PUBLISHING">>[1] = "ELIGIBLE"
  OBVIOUS
<1>3. "PLANNED" \in {m[1] : m \in Moves("publish", "open")}
  BY <1>1, <1>2, Zenon
<1>4. "ELIGIBLE" \in {m[1] : m \in Moves("publish", "open")}
  BY <1>1, <1>2, Zenon
<1> QED
  BY <1>3, <1>4

LEMMA AfterFacts ==
    /\ \A l \in Reading : After(l) \in {"submit", "pin", "idle"}
    /\ After("open") = "submit" /\ After("received") = "pin"
    /\ After("verified") = "idle" /\ After("mismatch") = "idle"
BY DEF After, Reading

LEMMA NoRunType == NoRun \in RunRow /\ NoRun.state = "NO_ROW"
BY DEF NoRun, RunRow, RunStates

-----------------------------------------------------------------------------
(* The shape of calls. *)

Shape == OrchTypeOK /\ CallsShape

CallsType ==
    /\ play \in [Sessions -> Plays \cup {Null}]
    /\ at \in [Sessions -> Labels]
    /\ row \in [Sessions -> RunRow]
    /\ CallsShape

(* Going on, ending or dying keeps the shape of calls. *)
LEMMA ProceedShape ==
    ASSUME CallsType, NEW s \in Sessions, NEW l \in Labels, at[s] # "idle",
           row[s] = NoRun \/ l = "idle", Proceed(s, l)
    PROVE  CallsType'
<1>1. CASE l = "idle"
  BY <1>1, NoRunType DEF CallsType, CallsShape, Proceed
<1>2. CASE l # "idle"
  BY <1>2, NoRunType DEF CallsType, CallsShape, Proceed
<1> QED
  BY <1>1, <1>2

(* What a session does to its call. *)
LEMMA AdvanceKinds ==
    ASSUME Shape, NEW s \in Sessions, Advance(s)
    PROVE  \/ \E l \in Labels : at[s] # "idle" /\ (row[s] = NoRun \/ l = "idle") /\ Proceed(s, l)
           \/ ReadRun(s) \/ Transition(s) \/ Abandon(s)
<1> USE DEF Labels
<1>1. CASE StartRun(s)
  BY <1>1 DEF StartRun, Shape, CallsShape
<1>2. CASE StaleRun(s)
  BY <1>2 DEF StaleRun, Shape, CallsShape
<1>3. CASE Submit(s)
  BY <1>3 DEF Submit, Shape, CallsShape
<1>4. CASE StoreCall(s)
  BY <1>4 DEF StoreCall, Shape, CallsShape
<1>5. CASE Resolve(s)
  <2>1. \E l \in Labels : Proceed(s, l)
    BY <1>5 DEF Resolve, Outcome
  <2> QED
    BY <1>5, <2>1 DEF Resolve, Shape, CallsShape
<1> QED
  BY <1>1, <1>2, <1>3, <1>4, <1>5 DEF Advance

LEMMA ShapeStep ==
    ASSUME Shape, [OrchNext]_orchVars
    PROVE  Shape'
<1>1. CallsType /\ runs \in [Runs -> RunRow]
  BY DEF Shape, OrchTypeOK, CallsType
<1>2. ASSUME NEW s \in Sessions, NEW p \in Duty[s], Enter(s, p)
      PROVE  CallsType' /\ UNCHANGED runs
  BY <1>1, <1>2, PlayShape DEF Enter, CallsType, CallsShape, Labels
<1>3. ASSUME NEW s \in Sessions, Die(s)
      PROVE  CallsType' /\ UNCHANGED runs
  BY <1>1, <1>3, ProceedShape DEF Die, Labels
<1>4. ASSUME NEW s \in Sessions, ReadRun(s)
      PROVE  CallsType' /\ UNCHANGED runs
  <2> DEFINE r == runs[play[s].run]
  <2>1. /\ at[s] \in Reading /\ row[s] = NoRun /\ UNCHANGED runs
        /\ \/ row' = [row EXCEPT ![s] = r] /\ UNCHANGED <<play, at>>
           \/ \E l \in {"idle", After(at[s])} : Proceed(s, l)
    BY <1>4 DEF ReadRun, Reading
  <2>2. play[s] \in Plays /\ r \in RunRow
    BY <1>1, <2>1, PlayFields DEF CallsType, CallsShape, Reading
  <2>3. CASE row' = [row EXCEPT ![s] = r] /\ UNCHANGED <<play, at>>
    BY <1>1, <2>1, <2>2, <2>3 DEF CallsType, CallsShape, Reading
  <2>4. ASSUME NEW l \in {"idle", After(at[s])}, Proceed(s, l)
        PROVE  CallsType'
    BY <1>1, <2>1, <2>4, AfterFacts, ProceedShape DEF Labels, Reading
  <2> QED
    BY <2>1, <2>3, <2>4
<1>5. ASSUME NEW s \in Sessions, Transition(s)
      PROVE  CallsType' /\ runs' \in [Runs -> RunRow]
  <2>1. row[s] # NoRun /\ at[s] \in Reading
    BY <1>1, <1>5 DEF Transition, UpToDate, CallsType, CallsShape, Reading
  <2>2. play[s] \in Plays
    BY <1>1, <2>1 DEF CallsType, CallsShape, Reading
  <2>3. /\ play[s].run \in Runs /\ play[s].op \in {"publish", "fallback"}
        /\ play[s].request.attempt \in Attempts
    BY <2>2, PlayFields, RequestShape
  <2>4. PICK m \in Moves(play[s].op, at[s]) :
           runs' = [runs EXCEPT ![play[s].run] =
               [state    |-> m[2],
                revision |-> runs[play[s].run].revision + 1,
                attempt  |-> IF m[2] = "ELIGIBLE" THEN Null ELSE play[s].request.attempt]]
    BY <1>5 DEF Transition
  <2>5. m[2] \in RunStates /\ runs[play[s].run].revision + 1 \in Nat
    BY <1>1, <2>1, <2>3, <2>4, MovesFacts DEF RunRow
  <2>6. runs' \in [Runs -> RunRow]
    BY <1>1, <2>3, <2>4, <2>5 DEF RunRow
  <2>7. CallsType'
    BY <1>1, <1>5, NoRunType DEF Transition, CallsType, CallsShape
  <2> QED
    BY <2>6, <2>7
<1>6. ASSUME NEW s \in Sessions, StartRun(s)
      PROVE  runs' \in [Runs -> RunRow]
  BY <1>1, <1>6 DEF StartRun, RunRow, NoRun, RunStates
<1>7. ASSUME NEW s \in Sessions, Advance(s)
      PROVE  CallsType' /\ runs' \in [Runs -> RunRow]
  <2>1. CASE Abandon(s)
    BY <1>1, <2>1 DEF Abandon, CallsType, CallsShape
  <2>2. runs' \in [Runs -> RunRow]
    BY <1>1, <1>5, <1>6, <1>7 DEF Advance, ReadRun, StaleRun, Submit, StoreCall, Resolve,
                                  Abandon
  <2> QED
    BY <1>1, <1>4, <1>5, <1>7, <2>1, <2>2, AdvanceKinds, ProceedShape
<1>8. ASSUME UNCHANGED <<runs, play, at, row>>
      PROVE  CallsType' /\ UNCHANGED runs
  BY <1>1, <1>8 DEF CallsType, CallsShape
<1>9. CallsType' /\ runs' \in [Runs -> RunRow]
  BY <1>1, <1>2, <1>3, <1>7, <1>8 DEF OrchNext, Live, orchVars
<1> QED
  BY <1>9 DEF Shape, OrchTypeOK, CallsType

LEMMA ShapeInit == OrchInit => Shape
BY NoRunType DEF OrchInit, Shape, OrchTypeOK, CallsShape, Labels

-----------------------------------------------------------------------------
(* What a call does to the store is a step of the store. *)

LEMMA StoreStep ==
    ASSUME Shape, [OrchNext]_orchVars
    PROVE  [Next]_vars
<1>1. ASSUME NEW s \in Sessions, at[s] # "idle"
      PROVE  /\ play[s].request \in Request /\ play[s].pin \in Pins
             /\ play[s].request.product \in Products
  BY <1>1, PlayFields, RequestShape DEF Shape, CallsShape, OrchTypeOK
<1>2. ASSUME NEW s \in Sessions, Advance(s)
      PROVE  [Next]_vars
  <2>1. CASE StartRun(s) \/ ReadRun(s) \/ Transition(s) \/ StaleRun(s)
    BY <2>1 DEF StartRun, ReadRun, Transition, StaleRun
  <2>2. CASE Submit(s)
    BY <1>1, <2>2 DEF Submit, Next, Call
  <2>3. CASE StoreCall(s)
    BY <2>3 DEF StoreCall, Next, Call
  <2>4. CASE Resolve(s)
    BY <1>1, <2>4 DEF Resolve, Next, Call
  <2>5. CASE Abandon(s)
    BY <2>5 DEF Abandon, Next, Call
  <2> QED
    BY <1>2, <2>1, <2>2, <2>3, <2>4, <2>5 DEF Advance
<1>3. ASSUME NEW s \in Sessions, Die(s)
      PROVE  [Next]_vars
  BY <1>3 DEF Die, Next, Call
<1>4. ASSUME NEW s \in Sessions, NEW p \in Duty[s], Enter(s, p)
      PROVE  [Next]_vars
  BY <1>4 DEF Enter
<1> QED
  BY <1>2, <1>3, <1>4 DEF OrchNext, Live, Next, orchVars

-----------------------------------------------------------------------------
(* Pins are never rewritten, and a run only moves forward. *)

PinsKept == \A k \in Pins : pins[k] # Null => pins'[k] = pins[k]

LEMMA PinsKeptStep ==
    ASSUME IInv, [Next]_vars
    PROVE  PinsKept
<1>1. ASSUME NEW s \in Sessions, CommitBy(s)
      PROVE  UNCHANGED pins
  BY <1>1 DEF CommitBy, Commit, Record
<1>2. ASSUME NEW s \in Sessions, PinInsert(s)
      PROVE  PinsKept
  BY <1>2 DEF PinInsert, PinsKept, IInv, TypeOK
<1>3. ASSUME NEW s \in Sessions, Quiet(s)
      PROVE  UNCHANGED pins
  BY <1>3 DEF Quiet, tables
<1>4. CASE \/ \E p \in Products : InitializeProduct(p)
           \/ \E g \in Generations : RegisterGeneration(g)
           \/ \E g \in Generations, flags \in SUBSET Disqualifiers : SetEligibility(g, flags)
  BY <1>4 DEF InitializeProduct, RegisterGeneration, SetEligibility, PinsKept
<1>5. CASE UNCHANGED vars
  BY <1>5 DEF vars, tables, PinsKept
<1> QED
  BY <1>1, <1>2, <1>3, <1>4, <1>5, StepKinds DEF PinsKept

(* A run that has begun keeps a state, gets a new revision whenever it is
   written, and does not return to where nothing has been published. *)
Forward ==
    \A r \in Runs :
        /\ runs[r].state # "NO_ROW" =>
              /\ runs'[r].state # "NO_ROW"
              /\ runs[r].revision <= runs'[r].revision
              /\ runs'[r].revision = runs[r].revision => runs'[r] = runs[r]
        /\ runs[r].state \notin Early => runs'[r].state \notin Early

(* The transition that is made is the one of the row that was read, which is
   the run's row still. *)
LEMMA TransitionEffect ==
    ASSUME OrchInv, NEW s \in Sessions, Transition(s)
    PROVE  \E m \in Moves(play[s].op, at[s]) :
             /\ at[s] \in Reading /\ play[s] \in Plays
             /\ m[1] = runs[play[s].run].state
             /\ runs'[play[s].run] =
                  [state    |-> m[2],
                   revision |-> runs[play[s].run].revision + 1,
                   attempt  |-> IF m[2] = "ELIGIBLE" THEN Null ELSE play[s].request.attempt]
             /\ \A r \in Runs \ {play[s].run} : runs'[r] = runs[r]
<1>1. row[s] # NoRun /\ row[s].revision = runs[play[s].run].revision
  BY DEF Transition, UpToDate
<1>2. at[s] \in Reading /\ play[s] \in Plays
  BY <1>1 DEF OrchInv, OrchTypeOK, CallsShape, Reading
<1>3. row[s] = runs[play[s].run] /\ play[s].run \in Runs
  BY <1>1, <1>2, PlayFields DEF OrchInv, RowSound
<1>4. runs \in [Runs -> RunRow]
  BY DEF OrchInv, OrchTypeOK
<1> QED
  BY <1>2, <1>3, <1>4 DEF Transition

LEMMA ForwardStep ==
    ASSUME OrchInv, [OrchNext]_orchVars
    PROVE  Forward
<1>1. runs \in [Runs -> RunRow]
  BY DEF OrchInv, OrchTypeOK
<1>2. UNCHANGED runs => Forward
  BY <1>1 DEF Forward, RunRow
<1>3. ASSUME NEW s \in Sessions, StartRun(s)
      PROVE  Forward
  BY <1>1, <1>3 DEF StartRun, Forward, RunRow, NoRun, Early
<1>4. ASSUME NEW s \in Sessions, Transition(s)
      PROVE  Forward
  <2>1. PICK m \in Moves(play[s].op, at[s]) :
             /\ at[s] \in Reading /\ play[s] \in Plays
             /\ m[1] = runs[play[s].run].state
             /\ runs'[play[s].run] =
                  [state    |-> m[2],
                   revision |-> runs[play[s].run].revision + 1,
                   attempt  |-> IF m[2] = "ELIGIBLE" THEN Null ELSE play[s].request.attempt]
             /\ \A r \in Runs \ {play[s].run} : runs'[r] = runs[r]
    BY <1>4, TransitionEffect
  <2>2. /\ m[2] \notin {"NO_ROW", "PLANNED"} /\ (m[2] = "ELIGIBLE" => m[1] = "PLANNED")
        /\ play[s].run \in Runs
    BY <2>1, MovesFacts, PlayFields
  <2> QED
    BY <1>1, <2>1, <2>2 DEF Forward, RunRow, Early
<1> QED
  BY <1>2, <1>3, <1>4 DEF OrchNext, Live, Enter, Advance, ReadRun, StaleRun, Submit, StoreCall,
                          Resolve, Abandon, Die, orchVars

-----------------------------------------------------------------------------
(* What holds of a session goes on holding while others move. *)

LEMMA DoneStable ==
    ASSUME Grows, NEW p \in Plays, Done(p)
    PROVE  Done(p)'
BY PlayFields, RequestShape DEF Done, Grows

LEMMA ResolvedStable ==
    ASSUME PinsKept, NEW p \in Plays, NEW route, Resolved(p, route)
    PROVE  Resolved(p, route)'
BY PlayFields DEF Resolved, PinsKept

Sound(s) == StoreSound(s) /\ CallSound(s) /\ RunSound(s) /\ RowSound(s)

LEMMA OthersSound ==
    ASSUME OrchInv, OrchTypeOK', Grows, PinsKept, Forward, NEW s \in Sessions,
           pc'[s] = pc[s], req'[s] = req[s], view'[s] = view[s],
           at'[s] = at[s], play'[s] = play[s], row'[s] = row[s]
    PROVE  Sound(s)'
<1>1. Sound(s) /\ OrchTypeOK /\ CallsShape
  BY DEF OrchInv, Sound
<1>2. at[s] # "idle" => play[s] \in Plays /\ play[s].run \in Runs
  BY <1>1, PlayFields DEF OrchTypeOK, CallsShape
<1>3. StoreSound(s)'
  BY <1>1 DEF Sound, StoreSound, Free
<1>4. CallSound(s)'
  <2>1. Target(play[s])' = Target(play[s])
    BY DEF Target
  <2> QED
    BY <1>1, <1>2, <2>1, DoneStable, ResolvedStable DEF Sound, CallSound
<1>5. RunSound(s)'
  BY <1>1, <1>2 DEF Sound, RunSound, Forward
<1>6. RowSound(s)'
  <2> SUFFICES ASSUME row[s] # NoRun
               PROVE  RowSound(s)'
    BY DEF RowSound
  <2>1. play[s].run \in Runs
    BY <1>1, <1>2 DEF CallsShape
  <2>2. /\ runs[play[s].run] \in RunRow /\ runs'[play[s].run] \in RunRow
        /\ row[s] \in RunRow
    BY <1>1, <2>1 DEF OrchTypeOK
  <2>3. /\ row[s].revision \in Nat /\ runs[play[s].run].revision \in Nat
        /\ runs'[play[s].run].revision \in Nat
    BY <2>2 DEF RunRow
  <2> QED
    BY <1>1, <2>1, <2>3 DEF Sound, RowSound, Forward
<1> QED
  BY <1>3, <1>4, <1>5, <1>6 DEF Sound
-----------------------------------------------------------------------------
(* The session that moves. *)

LEMMA ProceedEffect ==
    ASSUME OrchTypeOK, NEW s \in Sessions, NEW l \in Labels, Proceed(s, l)
    PROVE  /\ at'[s] = l
           /\ l # "idle" => play'[s] = play[s] /\ row'[s] = row[s]
           /\ l = "idle" => row'[s] = NoRun
           /\ \A t \in Sessions \ {s} : at'[t] = at[t] /\ play'[t] = play[t] /\ row'[t] = row[t]
BY DEF Proceed, OrchTypeOK

(* Where a call is over nothing is claimed but that the store call is, too. *)
LEMMA OverSound ==
    ASSUME NEW s \in Sessions, at'[s] = "idle", row'[s] = NoRun,
           pc'[s] \in {"idle", "answered", "ambiguous"}
    PROVE  Sound(s)'
<1>1. StoreSound(s)'
  BY DEF StoreSound
<1>2. CallSound(s)'
  BY DEF CallSound
<1>3. RunSound(s)' /\ RowSound(s)'
  BY DEF RunSound, RowSound, NoRun
<1> QED
  BY <1>1, <1>2, <1>3 DEF Sound

(* What is known before a step of a session. *)
Known(s) ==
    /\ OrchInv /\ IInv /\ IInv' /\ OrchTypeOK' /\ Grows /\ PinsKept /\ Forward
    /\ s \in Sessions

LEMMA KnownFacts ==
    ASSUME NEW s \in Sessions, Known(s)
    PROVE  /\ Sound(s) /\ OrchTypeOK /\ CallsShape /\ TypeOK
           /\ at[s] # "idle" =>
                /\ play[s] \in Plays /\ play[s].run \in Runs /\ play[s].request \in Request
                /\ play[s].request.product \in Products /\ play[s].request.attempt \in Attempts
                /\ play[s].request.expected \in Nat /\ play[s].pin \in Pins
           /\ at[s] \notin Reading => row[s] = NoRun
           /\ Free(s) => pc[s] \in {"idle", "answered"}
<1>1. Sound(s) /\ OrchTypeOK /\ CallsShape /\ TypeOK
  BY DEF Known, OrchInv, Sound, IInv
<1>2. at[s] # "idle" => play[s] \in Plays
  BY <1>1 DEF OrchTypeOK, CallsShape
<1>3. \A r \in Request : r.expected \in Nat
  BY RequestShape, BoundAssumption
<1> QED
  BY <1>1, <1>2, <1>3, PlayFields, RequestShape DEF CallsShape, Reading, Free

LEMMA EnterSound ==
    ASSUME NEW s \in Sessions, Known(s), NEW p \in Duty[s], Enter(s, p)
    PROVE  Sound(s)'
<1>1. /\ at'[s] \in {"start", "open"} /\ row'[s] = NoRun /\ pc'[s] = pc[s] /\ Free(s)
  BY KnownFacts DEF Enter, OrchTypeOK, vars, Reading
<1>2. StoreSound(s)'
  BY <1>1 DEF StoreSound, Free
<1>3. CallSound(s)' /\ RunSound(s)' /\ RowSound(s)'
  BY <1>1 DEF CallSound, RunSound, RowSound
<1> QED
  BY <1>2, <1>3 DEF Sound

LEMMA StartSound ==
    ASSUME NEW s \in Sessions, Known(s), StartRun(s)
    PROVE  Sound(s)'
<1>1. /\ at'[s] = "open" /\ row'[s] = NoRun /\ pc'[s] = pc[s] /\ Free(s)
  BY KnownFacts, ProceedEffect DEF StartRun, vars, Reading, Labels, Sound, StoreSound
<1>2. StoreSound(s)'
  BY <1>1 DEF StoreSound, Free
<1>3. CallSound(s)' /\ RunSound(s)' /\ RowSound(s)'
  BY <1>1 DEF CallSound, RunSound, RowSound
<1> QED
  BY <1>2, <1>3 DEF Sound

LEMMA ReadSound ==
    ASSUME NEW s \in Sessions, Known(s), ReadRun(s)
    PROVE  Sound(s)'
<1> DEFINE p == play[s]
           r == runs[p.run]
<1>1. /\ at[s] \in Reading /\ row[s] = NoRun /\ UNCHANGED <<pc, req, view, attempts, pins, runs>>
      /\ Free(s)
  BY KnownFacts DEF ReadRun, vars, tables, Reading, Sound, StoreSound
<1>2. p \in Plays /\ p.run \in Runs /\ r \in RunRow /\ Sound(s) /\ OrchTypeOK
  BY <1>1, KnownFacts DEF Reading, OrchTypeOK
<1>3. CASE /\ r.state \in {m[1] : m \in Moves(p.op, at[s])}
           /\ row' = [row EXCEPT ![s] = r] /\ UNCHANGED <<play, at>>
  <2>1. r.state # "NO_ROW"
    BY <1>1, <1>2, <1>3, MovesFacts, PlayFields
  <2>2. row'[s] = r /\ at'[s] = at[s] /\ play'[s] = play[s]
    BY <1>2, <1>3 DEF OrchTypeOK
  <2>3. RowSound(s)'
    BY <1>1, <1>2, <2>1, <2>2 DEF RowSound, RunRow
  <2>4. StoreSound(s)' /\ RunSound(s)'
    BY <1>1, <1>2, <2>2 DEF Sound, StoreSound, Free, RunSound
  <2>5. CallSound(s)'
    BY <1>1, <1>2, <2>2 DEF Sound, CallSound, Done, Resolved, Target
  <2> QED
    BY <2>3, <2>4, <2>5 DEF Sound
<1>4. CASE /\ r.state \notin {m[1] : m \in Moves(p.op, at[s])}
           /\ Proceed(s, IF r.state = "NO_ROW" THEN "idle" ELSE After(at[s]))
  <2> DEFINE l == IF r.state = "NO_ROW" THEN "idle" ELSE After(at[s])
  <2>1. l \in Labels
    BY <1>1, AfterFacts DEF Labels
  <2>2. at'[s] = l /\ (l # "idle" => play'[s] = play[s] /\ row'[s] = NoRun)
        /\ (l = "idle" => row'[s] = NoRun)
    BY <1>1, <1>2, <1>4, <2>1, ProceedEffect
  <2>3. CASE l = "idle"
    BY <1>1, <2>2, <2>3, OverSound DEF Free
  <2>4. CASE l = "submit"
    <3>1. at[s] = "open" /\ r.state # "NO_ROW"
      BY <1>1, <2>4, AfterFacts DEF Reading
    <3>2. p.op = "publish" => r.state \notin Early
      BY <1>4, <3>1, OpenMoves DEF Early
    <3>3. RunSound(s)' /\ RowSound(s)' /\ StoreSound(s)' /\ CallSound(s)'
      BY <1>1, <2>2, <2>4, <3>2 DEF RunSound, RowSound, StoreSound, CallSound, Free
    <3> QED
      BY <3>3 DEF Sound
  <2>5. CASE l = "pin"
    <3>1. at[s] = "received"
      BY <1>1, <2>5, AfterFacts DEF Reading
    <3>2. Done(p) /\ pc[s] \in {"idle", "answered"}
      BY <1>1, <1>2, <3>1 DEF Sound, CallSound, Free
    <3>3. StoreSound(s)' /\ CallSound(s)'
      BY <1>1, <2>2, <2>5, <3>2 DEF StoreSound, CallSound, Done
    <3>4. RunSound(s)' /\ RowSound(s)'
      BY <1>1, <1>2, <2>2, <2>5, <3>1 DEF Sound, RunSound, RowSound
    <3> QED
      BY <3>3, <3>4 DEF Sound
  <2> QED
    BY <1>1, <2>3, <2>4, <2>5, AfterFacts
<1> QED
  BY <1>3, <1>4 DEF ReadRun

LEMMA TransitionSound ==
    ASSUME NEW s \in Sessions, Known(s), Transition(s)
    PROVE  Sound(s)'
<1>1. /\ row'[s] = NoRun /\ at'[s] = at[s] /\ play'[s] = play[s]
      /\ UNCHANGED <<pc, req, view, attempts, pins>>
      /\ at[s] \in Reading
  BY KnownFacts DEF Transition, UpToDate, vars, tables, OrchTypeOK, CallsShape, Reading
<1>2. Sound(s) /\ play[s].run \in Runs /\ Forward
  BY <1>1, KnownFacts DEF Reading, Known
<1>3. StoreSound(s)' /\ CallSound(s)'
  BY <1>1, <1>2 DEF Sound, StoreSound, Free, CallSound, Done, Resolved, Target
<1>4. RunSound(s)' /\ RowSound(s)'
  BY <1>1, <1>2 DEF Sound, RunSound, RowSound, Forward
<1> QED
  BY <1>3, <1>4 DEF Sound

LEMMA StaleSound ==
    ASSUME NEW s \in Sessions, Known(s), StaleRun(s)
    PROVE  Sound(s)'
<1>1. at[s] \in Reading
  BY KnownFacts DEF StaleRun
<1>2. pc[s] \in {"idle", "answered"}
  BY <1>1, KnownFacts DEF Sound, StoreSound, Reading
<1>3. at'[s] = "idle" /\ row'[s] = NoRun /\ pc'[s] = pc[s]
  BY KnownFacts, ProceedEffect DEF StaleRun, Labels, vars
<1> QED
  BY <1>2, <1>3, OverSound

LEMMA DieSound ==
    ASSUME NEW s \in Sessions, Known(s), Die(s) \/ Abandon(s)
    PROVE  Sound(s)'
<1>1. at'[s] = "idle" /\ row'[s] = NoRun
  BY KnownFacts, ProceedEffect DEF Die, Abandon, Labels, Reading
<1>2. pc'[s] \in {"idle", "answered"}
  BY KnownFacts, GotoEffect DEF Die, Abandon, Crash, vars
<1> QED
  BY <1>1, <1>2, OverSound

(* A run of a call in which no transition is decided stays as it was. *)
LEMMA GoesOnSound ==
    ASSUME NEW s \in Sessions, Known(s),
           at[s] \notin {"idle", "start", "open"} \cup Reading,
           play'[s] = play[s], row'[s] = row[s]
    PROVE  RunSound(s)' /\ RowSound(s)'
<1>1. Sound(s) /\ play[s].run \in Runs /\ row[s] = NoRun /\ Forward
  BY KnownFacts DEF Known
<1>2. RunSound(s)'
  BY <1>1 DEF Sound, RunSound, Forward
<1>3. RowSound(s)'
  BY <1>1 DEF RowSound
<1> QED
  BY <1>2, <1>3

(* An answered store call holds the receipt of the call. *)
LEMMA ReceivedSound ==
    ASSUME NEW s \in Sessions, Known(s), at[s] \in {"submit", "store"},
           play'[s] = play[s], row'[s] = row[s],
           pc'[s] = "answered", req'[s] = play[s].request, at'[s] = "received"
    PROVE  Sound(s)'
<1>1. Done(play[s])'
  BY DEF Known, IInv, SessionInv, SessionSound, Done
<1>2. StoreSound(s)' /\ CallSound(s)'
  BY <1>1 DEF StoreSound, Free, CallSound
<1> QED
  BY <1>2, GoesOnSound DEF Sound, Reading

LEMMA StoringSound ==
    ASSUME NEW s \in Sessions, Known(s), at[s] \in {"submit", "store"},
           play'[s] = play[s], row'[s] = row[s], at'[s] = "store",
           pc'[s] \in {"checked", "ambiguous", "reconciling"}, req'[s] = play[s].request
    PROVE  Sound(s)'
<1>1. StoreSound(s)' /\ CallSound(s)'
  BY DEF StoreSound, CallSound
<1> QED
  BY <1>1, GoesOnSound DEF Sound, Reading

LEMMA SubmitSound ==
    ASSUME NEW s \in Sessions, Known(s), Submit(s)
    PROVE  Sound(s)'
<1> USE DEF Labels
<1> DEFINE r == play[s].request
<1>1. at[s] = "submit" /\ OrchTypeOK /\ TypeOK
  BY KnownFacts DEF Submit
<1>2. CASE SubmitFresh(s, r) /\ Proceed(s, "store")
  <2>1. pc'[s] = "checked" /\ req'[s] = r
    BY <1>1, <1>2, GotoEffect DEF SubmitFresh
  <2>2. at'[s] = "store" /\ play'[s] = play[s] /\ row'[s] = row[s]
    BY <1>1, <1>2, ProceedEffect
  <2> QED
    BY <1>1, <2>1, <2>2, StoringSound
<1>3. CASE SubmitReplay(s, r) /\ Proceed(s, "received")
  <2>1. pc'[s] = "answered" /\ req'[s] = r
    BY <1>1, <1>3, GotoEffect DEF SubmitReplay
  <2>2. at'[s] = "received" /\ play'[s] = play[s] /\ row'[s] = row[s]
    BY <1>1, <1>3, ProceedEffect
  <2> QED
    BY <1>1, <2>1, <2>2, ReceivedSound
<1>4. CASE SubmitConflict(s, r) /\ Proceed(s, "idle")
  BY <1>1, <1>4, GotoEffect, ProceedEffect, OverSound DEF SubmitConflict
<1> QED
  BY <1>2, <1>3, <1>4 DEF Submit

LEMMA StoreSoundStep ==
    ASSUME NEW s \in Sessions, Known(s), StoreCall(s)
    PROVE  Sound(s)'
<1> USE DEF Labels
<1>1. at[s] = "store" /\ OrchTypeOK /\ TypeOK /\ req[s] = play[s].request
  BY KnownFacts DEF StoreCall, Sound, StoreSound
<1>2. CASE /\ Publish(s) \/ FirstPublicationFallback(s)
           /\ Proceed(s, IF pc'[s] = "answered" THEN "received" ELSE "store")
  <2>1. PICK l \in {"answered", "ambiguous"} : Goto(s, l, req[s], NoView)
    BY <1>2 DEF Publish, FirstPublicationFallback, Acknowledge
  <2>2. pc'[s] = l /\ req'[s] = req[s]
    BY <1>1, <2>1, GotoEffect
  <2>3. CASE l = "answered"
    BY <1>1, <1>2, <2>2, <2>3, ProceedEffect, ReceivedSound
  <2>4. CASE l = "ambiguous"
    BY <1>1, <1>2, <2>2, <2>4, ProceedEffect, StoringSound
  <2> QED
    BY <2>3, <2>4
<1>3. CASE Refuse(s) /\ Proceed(s, "idle")
  BY <1>1, <1>3, GotoEffect, ProceedEffect, OverSound DEF Refuse
<1>4. CASE ReconcileClock(s) /\ Proceed(s, "store")
  <2>1. pc'[s] = "reconciling" /\ req'[s] = req[s]
    BY <1>1, <1>4, GotoEffect DEF ReconcileClock
  <2> QED
    BY <1>1, <1>4, <2>1, ProceedEffect, StoringSound
<1>5. CASE /\ ReconcilePointer(s)
           /\ Proceed(s, IF pc'[s] = "answered" THEN "received" ELSE "idle")
  <2>1. PICK l \in {"answered", "ambiguous"} : Goto(s, l, req[s], NoView)
    BY <1>5 DEF ReconcilePointer
  <2>2. pc'[s] = l /\ req'[s] = req[s]
    BY <1>1, <2>1, GotoEffect
  <2>3. CASE l = "answered"
    BY <1>1, <1>5, <2>2, <2>3, ProceedEffect, ReceivedSound
  <2>4. CASE l = "ambiguous"
    BY <1>1, <1>5, <2>2, <2>4, ProceedEffect, OverSound
  <2> QED
    BY <2>3, <2>4
<1> QED
  BY <1>2, <1>3, <1>4, <1>5 DEF StoreCall

(* A pin is read after the call's receipt, hence no earlier than its commit. *)
LEMMA PinClockSound ==
    ASSUME NEW s \in Sessions, Known(s), at[s] = "pin",
           PinClock(s, play[s].request.product, play[s].pin), Proceed(s, "pin")
    PROVE  Sound(s)'
<1> DEFINE p == play[s]
           q == p.request.product
           v == [NoView EXCEPT !.product = q, !.pin = p.pin, !.clock = clock[q]]
<1>1. /\ Sound(s) /\ OrchTypeOK /\ TypeOK /\ p.request.attempt \in Attempts
      /\ q \in Products
  BY KnownFacts
<1>2. pc'[s] = "pinning" /\ view'[s] = v
  BY <1>1, GotoEffect DEF PinClock
<1>3. v.pin = p.pin /\ v.product = q /\ v.clock = clock[q]
  BY DEF NoView
<1>4. Done(p)
  BY <1>1 DEF Sound, CallSound
<1>5. clock[q].revision >= p.request.expected + 1
  <2>1. p.request.expected + 1 <= clock[q].revision
    BY <1>1, <1>4 DEF Done, Known, IInv, ReceiptsBacked, Resulting
  <2>2. p.request.expected \in Nat /\ clock[q].revision \in Nat
    BY <1>1, KnownFacts, BoundAssumption DEF TypeOK, ClockRow
  <2> QED
    BY <2>1, <2>2
<1>6. at'[s] = "pin" /\ play'[s] = p /\ row'[s] = row[s]
  BY <1>1, ProceedEffect DEF Labels
<1>7. Done(p)'
  BY <1>4, <1>6, KnownFacts, DoneStable DEF Known
<1> HIDE DEF v
<1>8. CallSound(s)'
  BY <1>2, <1>3, <1>5, <1>6, <1>7 DEF CallSound
<1>9. StoreSound(s)'
  BY <1>2, <1>6 DEF StoreSound
<1> QED
  BY <1>6, <1>8, <1>9, GoesOnSound DEF Sound, Reading

LEMMA PinPointerSound ==
    ASSUME NEW s \in Sessions, Known(s), at[s] = "pin", PinPointer(s),
           Proceed(s, IF pc'[s] = "idle" THEN "mismatch" ELSE "pin")
    PROVE  Sound(s)'
<1> DEFINE p == play[s]
           v == [view[s] EXCEPT !.generation = pointer[view[s].product].generation]
<1>1. /\ Sound(s) /\ OrchTypeOK /\ TypeOK /\ p \in Plays
  BY KnownFacts
<1>2. play'[s] = p => Done(p)'
  BY <1>1, DoneStable DEF Sound, CallSound, Known
<1>3. CASE Goto(s, "resolved", Null, v)
  <2>1. pc'[s] = "resolved" /\ view'[s] = v
    BY <1>1, <1>3, GotoEffect
  <2>2. at'[s] = "pin" /\ play'[s] = p /\ row'[s] = row[s]
    BY <1>1, <2>1, ProceedEffect DEF Labels
  <2>3. view[s] \in View
    BY <1>1 DEF TypeOK, View
  <2>4. v.pin = view[s].pin /\ v.product = view[s].product /\ v.clock = view[s].clock
    BY <2>3 DEF View
  <2>5. /\ view[s].pin = p.pin /\ view[s].product = p.request.product
        /\ view[s].clock.revision >= p.request.expected + 1
    BY <1>1 DEF Sound, CallSound, PinPointer
  <2> HIDE DEF v
  <2>6. StoreSound(s)' /\ CallSound(s)'
    BY <1>2, <2>1, <2>2, <2>4, <2>5 DEF StoreSound, CallSound
  <2> QED
    BY <2>2, <2>6, GoesOnSound DEF Sound, Reading
<1>4. CASE Goto(s, "idle", Null, NoView)
  <2>1. pc'[s] = "idle"
    BY <1>1, <1>4, GotoEffect
  <2>2. at'[s] = "mismatch" /\ play'[s] = p /\ row'[s] = row[s]
    BY <1>1, <2>1, ProceedEffect DEF Labels
  <2>3. StoreSound(s)' /\ CallSound(s)'
    BY <1>2, <2>1, <2>2 DEF StoreSound, Free, CallSound
  <2> QED
    BY <2>2, <2>3, GoesOnSound DEF Sound, Reading
<1> QED
  BY <1>3, <1>4 DEF PinPointer

(* A call that verifies has the pin it verifies. *)
LEMMA PinInsertSound ==
    ASSUME NEW s \in Sessions, Known(s), at[s] = "pin", PinInsert(s),
           NEW l \in {"idle", "verified", "mismatch"}, Proceed(s, l),
           l = "verified" => PinAnswers(s) /\ l \in Outcome(play[s].op, view[s].clock.route)
    PROVE  Sound(s)'
<1> DEFINE p == play[s]
           k == view[s].pin
<1>1. /\ Sound(s) /\ OrchTypeOK /\ TypeOK /\ p \in Plays /\ SessionSound(s)
      /\ pc[s] = "resolved" /\ p.op \in {"publish", "fallback"} /\ p.pin \in Pins
  BY KnownFacts, PlayFields DEF PinInsert, Known, IInv, SessionInv
<1>2. play'[s] = p => Done(p)'
  BY <1>1, DoneStable DEF Sound, CallSound, Known
<1>3. pc'[s] = "idle"
  BY <1>1, GotoEffect DEF PinInsert
<1>4. CASE l = "idle"
  BY <1>1, <1>3, <1>4, ProceedEffect, OverSound DEF Labels
<1>5. CASE l # "idle"
  <2>1. at'[s] = l /\ play'[s] = p /\ row'[s] = row[s]
    BY <1>1, <1>5, ProceedEffect DEF Labels
  <2>2. ASSUME l = "verified"
        PROVE  Resolved(p, Target(p))'
    <3>1. /\ k = p.pin /\ view[s].product = p.request.product
          /\ view[s].clock.revision >= p.request.expected + 1
      BY <1>1 DEF Sound, CallSound
    <3>2. view[s].clock.route \in {"SOURCE_FALLBACK", "GENERATION"}
      BY <1>1 DEF SessionSound, TypeOK, ClockRow
    <3>3. view[s].clock.route = Target(p)
      BY <1>1, <2>2, <3>2 DEF Outcome, Target
    <3>4. pins'[k] = PinBody(view[s])
      BY <1>1, <2>2, <3>1 DEF PinInsert, PinAnswers, TypeOK
    <3>5. PinBody(view[s]) # Null
      BY <1>1, PinBodyType, NullAssumption DEF Known
    <3>6. /\ PinBody(view[s]).product = view[s].product
          /\ PinBody(view[s]).route = view[s].clock.route
          /\ PinBody(view[s]).revision = view[s].clock.revision
      BY DEF PinBody
    <3> QED
      BY <2>1, <3>1, <3>3, <3>4, <3>5, <3>6 DEF Resolved, Target
  <2>3. StoreSound(s)'
    BY <1>3, <1>5, <2>1 DEF StoreSound, Free
  <2>4. CallSound(s)'
    BY <1>2, <1>5, <2>1, <2>2 DEF CallSound, Target
  <2> QED
    BY <2>1, <2>3, <2>4, GoesOnSound DEF Sound, Reading
<1> QED
  BY <1>4, <1>5

LEMMA ResolveSound ==
    ASSUME NEW s \in Sessions, Known(s), Resolve(s)
    PROVE  Sound(s)'
<1>1. at[s] = "pin"
  BY DEF Resolve
<1>2. CASE PinInsert(s) /\ PinAnswers(s)
           /\ \E l \in Outcome(play[s].op, view[s].clock.route) : Proceed(s, l)
  <2>1. PICK l \in Outcome(play[s].op, view[s].clock.route) : Proceed(s, l)
    BY <1>2
  <2>2. l \in {"idle", "verified", "mismatch"}
    BY <2>1 DEF Outcome
  <2> QED
    BY <1>1, <1>2, <2>1, <2>2, PinInsertSound
<1>3. CASE PinInsert(s) /\ Proceed(s, "mismatch")
  BY <1>1, <1>3, PinInsertSound
<1> QED
  BY <1>1, <1>2, <1>3, PinClockSound, PinPointerSound DEF Resolve

LEMMA SoundStep ==
    ASSUME OrchInv, IInv, IInv', OrchTypeOK', [Next]_vars, [OrchNext]_orchVars,
           NEW t \in Sessions
    PROVE  Sound(t)'
<1>1. Grows /\ PinsKept /\ Forward
  BY Growth, PinsKeptStep, ForwardStep
<1>2. \A s \in Sessions : Known(s)
  BY <1>1 DEF Known
<1>3. OrchTypeOK /\ TypeOK
  BY DEF OrchInv, IInv
<1> DEFINE Same == /\ pc'[t] = pc[t] /\ req'[t] = req[t] /\ view'[t] = view[t]
                   /\ at'[t] = at[t] /\ play'[t] = play[t] /\ row'[t] = row[t]
<1>4. Same => Sound(t)'
  BY <1>1, OthersSound
<1>5. ASSUME NEW s \in Sessions, Advance(s)
      PROVE  Sound(t)'
  <2>1. CASE s = t
    BY <1>2, <1>5, <2>1, StartSound, ReadSound, TransitionSound, StaleSound, SubmitSound,
       StoreSoundStep, ResolveSound, DieSound DEF Advance
  <2>2. CASE s # t
    <3>1. pc'[t] = pc[t] /\ req'[t] = req[t] /\ view'[t] = view[t]
      <4>1. UNCHANGED <<pc, req, view>> \/ \E l, r, v : Goto(s, l, r, v)
        BY <1>5 DEF Advance, StartRun, ReadRun, Transition, StaleRun, Submit, SubmitFresh,
             SubmitReplay, SubmitConflict, StoreCall, Publish, FirstPublicationFallback,
             Acknowledge, Refuse, ReconcileClock, ReconcilePointer, Resolve, PinClock,
             PinPointer, PinInsert, Abandon, Crash, vars
      <4> QED
        BY <1>3, <2>2, <4>1, GotoEffect
    <3>2. at'[t] = at[t] /\ play'[t] = play[t] /\ row'[t] = row[t]
      <4>1. CASE \E l \in Labels : Proceed(s, l)
        BY <1>3, <2>2, <4>1, ProceedEffect
      <4>2. CASE ReadRun(s)
        <5>1. at[s] \in Reading
          BY <4>2 DEF ReadRun, Reading
        <5> QED
          BY <1>3, <2>2, <4>1, <4>2, <5>1, AfterFacts DEF ReadRun, OrchTypeOK, Labels
      <4>3. CASE Transition(s) \/ Abandon(s)
        BY <1>3, <2>2, <4>3 DEF Transition, Abandon, OrchTypeOK
      <4>4. Shape
        BY DEF OrchInv, Shape
      <4> QED
        BY <1>5, <4>1, <4>2, <4>3, <4>4, AdvanceKinds
    <3> QED
      BY <1>4, <3>1, <3>2
  <2> QED
    BY <2>1, <2>2
<1>6. ASSUME NEW s \in Sessions, Die(s)
      PROVE  Sound(t)'
  <2>1. CASE s = t
    BY <1>2, <1>6, <2>1, DieSound
  <2>2. CASE s # t
    BY <1>3, <1>4, <1>6, <2>2, GotoEffect, ProceedEffect DEF Die, Crash, Labels, vars
  <2> QED
    BY <2>1, <2>2
<1>7. ASSUME NEW s \in Sessions, NEW p \in Duty[s], Enter(s, p)
      PROVE  Sound(t)'
  <2>1. CASE s = t
    BY <1>2, <1>7, <2>1, EnterSound
  <2>2. CASE s # t
    BY <1>3, <1>4, <1>7, <2>2 DEF Enter, OrchTypeOK, vars
  <2> QED
    BY <2>1, <2>2
<1>8. CASE Administer /\ UNCHANGED <<runs, play, at, row>>
  <2>1. UNCHANGED <<pc, req, view>>
    BY <1>8 DEF Administer, InitializeProduct, RegisterGeneration, SetEligibility
  <2> QED
    BY <1>4, <1>8, <2>1
<1>9. CASE UNCHANGED orchVars
  BY <1>4, <1>9 DEF orchVars, vars
<1> QED
  BY <1>5, <1>6, <1>7, <1>8, <1>9 DEF OrchNext, Live

-----------------------------------------------------------------------------
(* What the runs say. *)

(* The calls that stand behind a run's row. *)
Behind(op, r) == {p \in Plays : p.op = op /\ p.run = r /\ Done(p) /\
                                p.request.attempt = runs[r].attempt}

RunBacked(r) ==
    /\ runs[r].state = "VERIFYING" => Behind("publish", r) # {}
    /\ runs[r].state = "ACTIVE" => \E p \in Behind("publish", r) : Resolved(p, "GENERATION")
    /\ runs[r].state = "SOURCE_FALLBACK_VERIFIED" =>
          \E p \in Behind("fallback", r) : Resolved(p, "SOURCE_FALLBACK")

LEMMA BackedIsBacked == RunStatesBacked <=> \A r \in Runs : RunBacked(r)
BY DEF RunStatesBacked, RunBacked, Behind

LEMMA BackedStable ==
    ASSUME Grows, PinsKept, NEW r \in Runs, runs'[r] = runs[r], RunBacked(r)
    PROVE  RunBacked(r)'
<1>1. ASSUME NEW op, NEW p \in Behind(op, r)
      PROVE  p \in Behind(op, r)' /\ \A route : Resolved(p, route) => Resolved(p, route)'
  BY <1>1, DoneStable, ResolvedStable DEF Behind
<1>2. /\ Behind("publish", r) # {} => Behind("publish", r)' # {}
      /\ (\E p \in Behind("publish", r) : Resolved(p, "GENERATION"))
            => \E p \in Behind("publish", r)' : Resolved(p, "GENERATION")'
      /\ (\E p \in Behind("fallback", r) : Resolved(p, "SOURCE_FALLBACK"))
            => \E p \in Behind("fallback", r)' : Resolved(p, "SOURCE_FALLBACK")'
  BY <1>1
<1> QED
  BY <1>2 DEF RunBacked

LEMMA BackedStep ==
    ASSUME OrchInv, Grows, PinsKept, OrchTypeOK', [OrchNext]_orchVars, NEW r \in Runs
    PROVE  RunBacked(r)'
<1>1. RunBacked(r) /\ runs \in [Runs -> RunRow]
  BY BackedIsBacked DEF OrchInv, OrchTypeOK
<1>2. CASE runs'[r] = runs[r]
  BY <1>1, <1>2, BackedStable
<1>3. ASSUME NEW s \in Sessions, StartRun(s), runs'[r] # runs[r]
      PROVE  RunBacked(r)'
  <2>1. runs'[r].state = "PLANNED"
    BY <1>1, <1>3 DEF StartRun, NoRun
  <2> QED
    BY <2>1 DEF RunBacked
<1>4. ASSUME NEW s \in Sessions, Transition(s), runs'[r] # runs[r]
      PROVE  RunBacked(r)'
  <2>0. PICK p \in Plays : p = play[s]
    BY <1>4, TransitionEffect
  <2>1. PICK m \in Moves(p.op, at[s]) :
             /\ at[s] \in Reading
             /\ m[1] = runs[p.run].state
             /\ runs'[p.run] =
                  [state    |-> m[2],
                   revision |-> runs[p.run].revision + 1,
                   attempt  |-> IF m[2] = "ELIGIBLE" THEN Null ELSE p.request.attempt]
             /\ \A q \in Runs \ {p.run} : runs'[q] = runs[q]
    BY <1>4, <2>0, TransitionEffect
  <2>2. p.run = r /\ p.op \in {"publish", "fallback"}
    BY <1>4, <2>1, PlayFields
  <2>3. /\ m[2] = "VERIFYING" => p.op = "publish" /\ at[s] = "received"
        /\ m[2] = "ACTIVE" => p.op = "publish" /\ at[s] = "verified"
        /\ m[2] = "SOURCE_FALLBACK_VERIFIED" => p.op = "fallback" /\ at[s] = "verified"
    BY <2>1, <2>2, MovesFacts
  <2>4. CallSound(s) /\ UNCHANGED <<attempts, pins>>
    BY <1>4 DEF OrchInv, Transition, vars, tables
  <2>5. runs'[r].state = m[2] /\ (m[2] # "ELIGIBLE" => runs'[r].attempt = p.request.attempt)
    BY <2>1, <2>2
  <2>6. at[s] \in {"received", "verified"} => Done(p)'
    BY <2>0, <2>4 DEF CallSound, Done
  <2>7. at[s] = "verified" => Resolved(p, Target(p))
    BY <2>0, <2>4 DEF CallSound
  <2>8. m[2] \in {"VERIFYING", "ACTIVE", "SOURCE_FALLBACK_VERIFIED"}
          => p \in Behind(p.op, r)'
    BY <2>2, <2>3, <2>5, <2>6 DEF Behind
  <2>9. ASSUME m[2] = "VERIFYING" PROVE Behind("publish", r)' # {}
    BY <2>3, <2>8, <2>9
  <2>10. ASSUME m[2] = "ACTIVE"
         PROVE  \E q \in Behind("publish", r)' : Resolved(q, "GENERATION")'
    <3>1. Resolved(p, "GENERATION")
      BY <2>3, <2>7, <2>10 DEF Target
    <3>2. Resolved(p, "GENERATION")'
      BY <2>4, <3>1 DEF Resolved
    <3> QED
      BY <2>3, <2>8, <2>10, <3>2
  <2>11. ASSUME m[2] = "SOURCE_FALLBACK_VERIFIED"
         PROVE  \E q \in Behind("fallback", r)' : Resolved(q, "SOURCE_FALLBACK")'
    <3>1. Resolved(p, "SOURCE_FALLBACK")
      BY <2>3, <2>7, <2>11 DEF Target
    <3>2. Resolved(p, "SOURCE_FALLBACK")'
      BY <2>4, <3>1 DEF Resolved
    <3> QED
      BY <2>3, <2>8, <2>11, <3>2
  <2> QED
    BY <2>5, <2>9, <2>10, <2>11 DEF RunBacked
<1> QED
  BY <1>2, <1>3, <1>4 DEF OrchNext, Live, Enter, Advance, ReadRun, StaleRun, Submit, StoreCall,
                          Resolve, Abandon, Die, orchVars

LEMMA AheadStep ==
    ASSUME OrchInv, IInv, Grows, Forward, [Next]_vars
    PROVE  RunAheadOfRoute'
<1>1. /\ events \subseteq Event /\ attempts \in [Attempts -> Receipt \cup {Null}]
      /\ ReceiptsBacked /\ RunAheadOfRoute
  BY DEF IInv, TypeOK, OrchInv
<1> SUFFICES ASSUME NEW e \in events', e.action = "PUBLISH"
             PROVE  \E p \in Plays :
                      /\ p.request = attempts'[e.attempt].request
                      /\ runs'[p.run].state \notin Early
  BY DEF RunAheadOfRoute, Early
<1>2. CASE e \in events
  <2>1. attempts'[e.attempt] = attempts[e.attempt]
    BY <1>1, <1>2 DEF Event, ReceiptsBacked, Grows
  <2>2. PICK p \in Plays : /\ p.request = attempts[e.attempt].request
                           /\ runs[p.run].state \notin Early
    BY <1>1, <1>2 DEF RunAheadOfRoute, Early
  <2> QED
    BY <2>1, <2>2, PlayFields DEF Forward
<1>3. ASSUME NEW s \in Sessions, CommitBy(s), e \notin events
      PROVE  \E p \in Plays : /\ p.request = attempts'[e.attempt].request
                              /\ runs'[p.run].state \notin Early
  <2> DEFINE r == req[s]
  <2>1. /\ e = NewEvent(r) /\ r.attempt \in Attempts
        /\ attempts' = [attempts EXCEPT ![r.attempt] =
                [request |-> r, prior |-> pointer[r.product].generation]]
    BY <1>3, CommitFacts
  <2>2. e.attempt = r.attempt /\ e.action = r.action /\ attempts'[e.attempt].request = r
    BY <1>1, <2>1 DEF NewEvent
  <2>3. StoreSound(s) /\ RunSound(s) /\ OrchTypeOK /\ CallsShape /\ pc[s] = "checked"
    BY <1>3 DEF OrchInv, CommitBy
  <2>4. at[s] = "store" /\ r = play[s].request
    BY <2>3 DEF StoreSound, Free
  <2>5. play[s] \in Plays
    BY <2>3, <2>4 DEF OrchTypeOK, CallsShape
  <2>6. play[s].op = "publish" /\ play[s].run \in Runs
    BY <2>2, <2>4, <2>5, PlayFields
  <2> QED
    BY <2>2, <2>3, <2>4, <2>5, <2>6 DEF RunSound, Forward
<1> QED
  BY <1>2, <1>3, RouteSameOrCommit DEF RouteSame

-----------------------------------------------------------------------------
(* Theorems of the orchestrator. *)

(* Whatever an orchestrated call does to the store, from the submission to the
   reconciliation and the pin, are the store's own steps: every behaviour of
   the orchestrator is one of the store, so that all that is proved of the
   store holds under it. *)
THEOREM OrchestratorUsesStore == OrchSpec => Spec
<1>1. OrchInit => Init /\ Shape
  BY ShapeInit DEF OrchInit
<1>2. Shape /\ [OrchNext]_orchVars => Shape' /\ [Next]_vars
  BY ShapeStep, StoreStep
<1> QED
  BY <1>1, <1>2, PTL DEF OrchSpec, Spec

LEMMA OrchInitially == OrchInit => OrchInv
<1> SUFFICES ASSUME OrchInit PROVE OrchInv
  OBVIOUS
<1>1. OrchTypeOK /\ CallsShape
  BY ShapeInit DEF Shape
<1>2. ASSUME NEW s \in Sessions
      PROVE  StoreSound(s) /\ CallSound(s) /\ RunSound(s) /\ RowSound(s)
  BY DEF OrchInit, Init, StoreSound, CallSound, RunSound, RowSound
<1>3. RunStatesBacked
  BY DEF OrchInit, RunStatesBacked, NoRun
<1>4. RunAheadOfRoute
  BY DEF OrchInit, Init, RunAheadOfRoute
<1> QED
  BY <1>1, <1>2, <1>3, <1>4 DEF OrchInv

(* In every reachable state of store and orchestrator, each call has behind it
   what its place in the code says. *)
THEOREM OrchInvariance == OrchSpec => []OrchInv
<1>1. OrchInv => Shape
  BY DEF OrchInv, Shape
<1>2. ASSUME OrchInv, IInv, IInv', [OrchNext]_orchVars
      PROVE  OrchInv'
  <2>1. Shape' /\ [Next]_vars
    BY <1>1, <1>2, ShapeStep, StoreStep
  <2>2. OrchTypeOK' /\ CallsShape'
    BY <2>1 DEF Shape
  <2>3. Grows /\ PinsKept /\ Forward
    BY <1>2, <2>1, Growth, PinsKeptStep, ForwardStep
  <2>4. \A s \in Sessions : Sound(s)'
    BY <1>2, <2>1, <2>2, SoundStep
  <2>5. RunStatesBacked'
    <3>1. \A r \in Runs : RunBacked(r)'
      BY <1>2, <2>2, <2>3, BackedStep
    <3> QED
      BY <3>1 DEF RunStatesBacked, RunBacked, Behind
  <2>6. RunAheadOfRoute'
    BY <1>2, <2>1, <2>3, AheadStep
  <2> QED
    BY <2>2, <2>4, <2>5, <2>6 DEF OrchInv, Sound
<1>3. OrchInv /\ IInv /\ IInv' /\ [OrchNext]_orchVars => OrchInv'
  BY <1>2
<1> QED
  BY <1>3, OrchInitially, OrchestratorUsesStore, Invariance, PTL DEF OrchSpec

(* VERIFYING, ACTIVE and SOURCE_FALLBACK_VERIFIED of a run are never said
   without the receipt and the pin that they stand for, for any number of
   sessions, runs and calls, whichever die or are made again. *)
THEOREM RunsAreBacked == OrchSpec => []RunStatesBacked
<1>1. OrchInv => RunStatesBacked
  BY DEF OrchInv
<1> QED
  BY <1>1, OrchInvariance, PTL

(* No publication is in the ledger whose run does not say PUBLISHING or a
   later state. *)
THEOREM RunsLeadTheRoute == OrchSpec => []RunAheadOfRoute
<1>1. OrchInv => RunAheadOfRoute
  BY DEF OrchInv
<1> QED
  BY <1>1, OrchInvariance, PTL
=============================================================================
