---------------------------- MODULE SourceProofs ----------------------------
(***************************************************************************)
(* Proofs about the two ends of a landing.                                 *)
(*                                                                         *)
(* Intake, for any history, strays, objects and deliveries: its inductive  *)
(* invariant, that nothing doubtful is applied, and that what is applied   *)
(* is a prefix of the source's history where sequences follow commits.     *)
(*                                                                         *)
(* SourceCapture, for any sequence of runs, any number of processes and of *)
(* other clients' commits: its inductive invariant, the order of the       *)
(* writers, the exactness of a receipt's boundary, and that a run takes    *)
(* its slot along.                                                         *)
(***************************************************************************)
EXTENDS Intake, SourceCapture, FiniteSetTheorems, WellFoundedInduction, TLAPS

-----------------------------------------------------------------------------
(* The intake of a landing.  Records and their order. *)

(* A finite set that a transitive relation orders has a last element: a
   smallest subset without one would have one with an element less. *)
LEMMA FiniteLast ==
    ASSUME NEW S, IsFiniteSet(S), S # {}, NEW R,
           \A x, y \in S : x = y \/ <<x, y>> \in R \/ <<y, x>> \in R,
           \A x, y, z \in S : <<x, y>> \in R /\ <<y, z>> \in R => <<x, z>> \in R
    PROVE  \E x \in S : \A y \in S : y = x \/ <<y, x>> \in R
<1> DEFINE Has(T) == \E x \in T : \A y \in T : y = x \/ <<y, x>> \in R
           Without == {T \in SUBSET S : T # {} /\ ~Has(T)}
           sizes == {Cardinality(T) : T \in Without}
<1> SUFFICES ASSUME ~Has(S) PROVE FALSE
  OBVIOUS
<1>1. \A T \in SUBSET S : IsFiniteSet(T) /\ Cardinality(T) \in Nat
  BY FS_Subset, FS_CardinalityType
<1>2. S \in Without /\ sizes \subseteq Nat
  BY <1>1
<1>3. PICK n \in sizes : \A m \in sizes : ~(m < n)
  <2>1. sizes # {}
    BY <1>2
  <2> HIDE DEF sizes
  <2>2. PICK n \in sizes : \A m \in sizes : ~(<<m, n>> \in OpToRel(<, Nat))
    BY <1>2, <2>1, WFMin, NatLessThanWellFounded, Zenon
  <2> QED
    BY <1>2, <2>2 DEF OpToRel
<1>4. PICK T \in Without : Cardinality(T) = n
  OBVIOUS
<1>5. PICK x \in T : TRUE
  OBVIOUS
<1> DEFINE U == T \ {x}
<1>6. U \in SUBSET S /\ Cardinality(U) = n - 1 /\ n \in Nat /\ n - 1 \in Nat
  <2>1. IsFiniteSet(T) /\ T \in SUBSET S
    BY <1>1
  <2>2. Cardinality(U) = n - 1
    BY <1>4, <2>1, FS_RemoveElement
  <2>3. U \in SUBSET S
    BY <2>1
  <2>4. Cardinality(U) \in Nat /\ n \in Nat
    BY <1>1, <1>4, <2>1, <2>3
  <2> QED
    BY <2>2, <2>3, <2>4
<1>7. U # {}
  <2> SUFFICES ASSUME U = {} PROVE FALSE
    OBVIOUS
  <2>1. \A y \in T : y = x
    OBVIOUS
  <2> QED
    BY <2>1, <1>4
<1>8. Has(U)
  <2> SUFFICES ASSUME ~Has(U) PROVE FALSE
    OBVIOUS
  <2>1. n - 1 \in sizes
    BY <1>6, <1>7
  <2> HIDE DEF sizes
  <2>2. ~(n - 1 < n)
    BY <1>3, <2>1
  <2> QED
    BY <1>6, <2>2
<1>9. PICK y \in U : \A z \in U : z = y \/ <<z, y>> \in R
  BY <1>8
<1>10. x \in S /\ y \in S /\ T \subseteq S /\ x # y
  BY <1>4, <1>6
<1>11. CASE <<x, y>> \in R
  <2>1. \A z \in T : z = y \/ <<z, y>> \in R
    BY <1>9, <1>11
  <2> QED
    BY <2>1, <1>4
<1>12. CASE <<y, x>> \in R
  <2>1. \A z \in T : z = x \/ <<z, x>> \in R
    BY <1>9, <1>10, <1>12
  <2> QED
    BY <2>1, <1>4
<1> QED
  BY <1>10, <1>11, <1>12

LEMMA RecordFacts ==
    /\ \A r \in Records : /\ r.lsn \in Nat /\ r.txseq \in Nat /\ r.seq \in Nat
                         /\ r.key \in Keys /\ r.after \in Values \cup {None}
    /\ \A r \in Records : r.op # "snapshot" => r \in History \cup Strays
    /\ History \subseteq Records /\ Strays \subseteq Records
<1>1. ASSUME NEW r \in SnapshotRecords
      PROVE  /\ r.lsn \in Nat /\ r.txseq \in Nat /\ r.seq \in Nat
             /\ r.key \in Keys /\ r.after \in Values \cup {None}
             /\ r.op = "snapshot"
  <2>1. PICK k \in Keys :
          r = [op |-> "snapshot", key |-> k, before |-> None, after |-> Snapshot[k],
               tx |-> "snapshot-batch", lsn |-> Start, txseq |-> 0, seq |-> 1,
               generation |-> Generation]
    BY DEF SnapshotRecords
  <2> QED
    BY <2>1, HistoryAssumption
<1>2. ASSUME NEW r \in History \cup Strays
      PROVE  /\ r.lsn \in Nat /\ r.txseq \in Nat /\ r.seq \in Nat
             /\ r.key \in Keys /\ r.after \in Values \cup {None}
  BY HistoryAssumption DEF Record
<1> QED
  BY <1>1, <1>2 DEF Records, Source

LEMMA BeforeFacts ==
    ASSUME NEW r \in Records, NEW s \in Records
    PROVE  /\ ~Before(r, r)
           /\ Before(r, s) => ~Before(s, r) /\ r # s
           /\ r.lsn < s.lsn => Before(r, s)
           /\ Before(r, s) => r.lsn <= s.lsn
           /\ r.seq # s.seq => Before(r, s) \/ Before(s, r)
           /\ \A t \in Records : Before(r, s) /\ Before(s, t) => Before(r, t)
<1>1. \A t \in Records : t.lsn \in Nat /\ t.txseq \in Nat /\ t.seq \in Nat
  BY RecordFacts
<1> QED
  BY <1>1 DEF Before

Ordered(events) == \A r, s \in events : r = s \/ Before(r, s) \/ Before(s, r)

LEMMA LastFacts ==
    ASSUME NEW E \in SUBSET Records, IsFiniteSet(E), E # {}, Ordered(E)
    PROVE  /\ LastOf(E) \in E /\ \A s \in E : s = LastOf(E) \/ Before(s, LastOf(E))
           /\ FirstOf(E) \in E /\ \A s \in E : s = FirstOf(E) \/ Before(FirstOf(E), s)
<1> DEFINE up == {rs \in E \X E : Before(rs[1], rs[2])}
           down == {rs \in E \X E : Before(rs[2], rs[1])}
<1>1. /\ \A x, y \in E : <<x, y>> \in up <=> Before(x, y)
      /\ \A x, y \in E : <<x, y>> \in down <=> Before(y, x)
  OBVIOUS
<1>2. \A x, y, z \in E : Before(x, y) /\ Before(y, z) => Before(x, z)
  BY BeforeFacts
<1> HIDE DEF up, down
<1>3. \E x \in E : \A y \in E : y = x \/ <<y, x>> \in up
  BY <1>1, <1>2, FiniteLast DEF Ordered
<1>4. \E x \in E : \A y \in E : y = x \/ <<y, x>> \in down
  BY <1>1, <1>2, FiniteLast DEF Ordered
<1>5. \E x \in E : \A y \in E : y = x \/ Before(y, x)
  BY <1>1, <1>3
<1>6. \E x \in E : \A y \in E : y = x \/ Before(x, y)
  BY <1>1, <1>4
<1> QED
  BY <1>5, <1>6 DEF LastOf, FirstOf

LEMMA LastIs ==
    ASSUME NEW E \in SUBSET Records, NEW x \in E, \A s \in E : s = x \/ Before(s, x)
    PROVE  LastOf(E) = x
<1>1. LastOf(E) \in E /\ \A s \in E : s = LastOf(E) \/ Before(s, LastOf(E))
  BY DEF LastOf
<1> QED
  BY <1>1, BeforeFacts

-----------------------------------------------------------------------------
(* The rows after some events. *)

(* Events that all come after others are applied to what those left. *)
LEMMA ValueLater ==
    ASSUME NEW table, NEW k \in Keys,
           NEW D \in SUBSET Records, NEW E \in SUBSET Records, IsFiniteSet(E), Ordered(E),
           \A r \in D, s \in E : Before(r, s)
    PROVE  Value(table, D \cup E, k) = Value(Changed(table, D), E, k)
<1> DEFINE TD == Touching(D, k)
           TE == Touching(E, k)
<1>1. Touching(D \cup E, k) = TD \cup TE
  BY DEF Touching
<1>2. Changed(table, D)[k] = Value(table, D, k)
  BY DEF Changed
<1>3. CASE TE = {}
  <2>1. Touching(D \cup E, k) = TD
    BY <1>1, <1>3
  <2>2. Value(table, D \cup E, k) = Value(table, D, k)
    BY <2>1 DEF Value
  <2> QED
    BY <1>2, <1>3, <2>2 DEF Value
<1>4. CASE TE # {}
  <2> DEFINE x == LastOf(TE)
  <2>1. TE \in SUBSET Records /\ IsFiniteSet(TE) /\ Ordered(TE)
        /\ TD \cup TE \in SUBSET Records
    BY FS_Subset DEF Touching, Ordered
  <2>2. x \in TE /\ \A s \in TE : s = x \/ Before(s, x)
    BY <1>4, <2>1, LastFacts
  <2>3. \A s \in TD \cup TE : s = x \/ Before(s, x)
    BY <2>2 DEF Touching
  <2>4. LastOf(TD \cup TE) = x
    BY <2>1, <2>2, <2>3, LastIs
  <2> QED
    BY <1>1, <1>4, <2>4 DEF Value
<1> QED
  BY <1>3, <1>4

LEMMA ChangedLater ==
    ASSUME NEW table,
           NEW D \in SUBSET Records, NEW E \in SUBSET Records, IsFiniteSet(E), Ordered(E),
           \A r \in D, s \in E : Before(r, s)
    PROVE  Changed(table, D \cup E) = Changed(Changed(table, D), E)
<1>1. \A k \in Keys : Value(table, D \cup E, k) = Value(Changed(table, D), E, k)
  BY ValueLater
<1> DEFINE rest == Changed(table, D)
<1> HIDE DEF rest
<1>2. \A k \in Keys : Value(table, D \cup E, k) = Value(rest, E, k)
  BY <1>1 DEF rest
<1>3. Changed(table, D \cup E) = Changed(rest, E)
  BY <1>2 DEF Changed
<1> QED
  BY <1>3 DEF rest

LEMMA FitsLater ==
    ASSUME NEW table,
           NEW D \in SUBSET Records, NEW E \in SUBSET Records, IsFiniteSet(E), Ordered(E),
           \A r \in D, s \in E : Before(r, s)
    PROVE  Fits(table, D \cup E) <=> Fits(table, D) /\ Fits(Changed(table, D), E)
<1>1. ASSUME NEW r \in D
      PROVE  {s \in D \cup E : Before(s, r)} = {s \in D : Before(s, r)}
  BY <1>1, BeforeFacts
<1>2. ASSUME NEW r \in E
      PROVE  Value(table, {s \in D \cup E : Before(s, r)}, r.key)
               = Value(Changed(table, D), {s \in E : Before(s, r)}, r.key)
  <2> DEFINE F == {s \in E : Before(s, r)}
  <2>1. {s \in D \cup E : Before(s, r)} = D \cup F
    BY <1>2
  <2>2. F \in SUBSET Records /\ IsFiniteSet(F) /\ Ordered(F) /\ \A d \in D, s \in F : Before(d, s)
    BY FS_Subset DEF Ordered
  <2>3. r.key \in Keys
    BY <1>2, RecordFacts
  <2> HIDE DEF F
  <2>4. Value(table, D \cup F, r.key) = Value(Changed(table, D), F, r.key)
    BY <2>2, <2>3, ValueLater
  <2> QED
    BY <2>1, <2>4 DEF F
<1> DEFINE Found(r) == r.before = Value(table, {s \in D \cup E : Before(s, r)}, r.key)
<1>3. Fits(table, D \cup E) <=> (\A r \in D : Found(r)) /\ (\A r \in E : Found(r))
  BY DEF Fits
<1>4. Fits(table, D) <=> \A r \in D : Found(r)
  BY <1>1 DEF Fits
<1>5. Fits(Changed(table, D), E) <=> \A r \in E : Found(r)
  BY <1>2 DEF Fits
<1> QED
  BY <1>3, <1>4, <1>5

(* Rows hold values, whatever is applied to them. *)
LEMMA ChangedType ==
    ASSUME NEW table \in [Keys -> Values \cup {None}],
           NEW E \in SUBSET Records, IsFiniteSet(E), Ordered(E)
    PROVE  Changed(table, E) \in [Keys -> Values \cup {None}]
<1> SUFFICES ASSUME NEW k \in Keys PROVE Value(table, E, k) \in Values \cup {None}
  BY DEF Changed
<1> DEFINE T == Touching(E, k)
<1>1. CASE T = {}
  BY <1>1 DEF Value
<1>2. CASE T # {}
  <2>1. T \in SUBSET Records /\ IsFiniteSet(T) /\ Ordered(T)
    BY FS_Subset DEF Touching, Ordered
  <2>2. LastOf(T).after \in Values \cup {None}
    BY <1>2, <2>1, LastFacts, RecordFacts
  <2> QED
    BY <1>2, <2>2 DEF Value
<1> QED
  BY <1>1, <1>2

LEMMA NothingChanges ==
    /\ Changed(Snapshot, {}) = Snapshot /\ Fits(Snapshot, {}) /\ Deletes({}) = {}
    /\ Snapshot \in [Keys -> Values \cup {None}]
<1>1. \A k \in Keys : Value(Snapshot, {}, k) = Snapshot[k]
  BY DEF Value, Touching
<1> QED
  BY <1>1, HistoryAssumption DEF Changed, Fits, Deletes

-----------------------------------------------------------------------------
(* The plans. *)

LEMMA EventFacts ==
    ASSUME IntakeTypeOK
    PROVE  /\ accepted \subseteq Records /\ Events \subseteq History \cup Strays
           /\ Events \subseteq Records /\ IsFiniteSet(Events)
<1>1. accepted \subseteq Records
  BY DEF IntakeTypeOK
<1>2. Events \subseteq History \cup Strays /\ Events \subseteq Records
  BY <1>1, RecordFacts DEF Events
<1> QED
  BY <1>1, <1>2, FS_Subset, HistoryAssumption

(* A plan holds the events of one transaction, which are in order. *)
LEMMA PlanFacts ==
    ASSUME IntakeTypeOK, PlansSound, NEW p \in plans
    PROVE  /\ p.tx \in TransactionsIn(Events) /\ p.events = EventsOf(Events, p.tx)
           /\ p.events \in SUBSET Records /\ p.events # {}
           /\ p.events \subseteq Events
           /\ IsFiniteSet(p.events) /\ Ordered(p.events)
           /\ Complete(Events, p.manifest)
           /\ \A q \in plans : q.manifest = p.manifest /\ (q.tx = p.tx => q = p)
           /\ \A t \in TransactionsIn(Events) : \E q \in plans : q.tx = t
<1>1. PICK m \in {Manifest(Events), Manifest(History)} :
        plans = Plans(Events, m) /\ Orderable(Events) /\ Complete(Events, m)
  BY DEF PlansSound
<1>2. \A q \in plans : /\ q = [tx |-> q.tx, events |-> EventsOf(Events, q.tx), manifest |-> m]
                       /\ q.tx \in TransactionsIn(Events)
  BY <1>1 DEF Plans
<1>3. \A t \in TransactionsIn(Events) :
        [tx |-> t, events |-> EventsOf(Events, t), manifest |-> m] \in plans
  BY <1>1 DEF Plans
<1>4. p.events = EventsOf(Events, p.tx) /\ p.manifest = m
  BY <1>2
<1>5. p.events \subseteq Events /\ p.events # {} /\ IsFiniteSet(p.events)
  BY <1>2, <1>4, EventFacts, FS_Subset DEF EventsOf, TransactionsIn
<1>6. \A r, s \in p.events : r.tx = s.tx /\ r.tx = p.tx
  BY <1>4 DEF EventsOf
<1>7. Ordered(p.events)
  BY <1>1, <1>5, <1>6, EventFacts, BeforeFacts DEF Ordered, Orderable
<1>8. p.events \in SUBSET Records
  BY <1>5, EventFacts
<1>9. \A q \in plans : q.manifest = p.manifest /\ (q.tx = p.tx => q = p)
  BY <1>2
<1>10. \A t \in TransactionsIn(Events) : \E q \in plans : q.tx = t
  BY <1>3
<1> QED
  BY <1>1, <1>2, <1>4, <1>5, <1>7, <1>8, <1>9, <1>10

LEMMA IdentityFacts ==
    /\ \A r, s : Identity(r) = Identity(s) =>
         r.lsn = s.lsn /\ r.tx = s.tx /\ r.txseq = s.txseq /\ r.seq = s.seq
    /\ \A r, s \in History : Identity(r) = Identity(s) => r = s
<1>1. \A r, s : Identity(r) = Identity(s) =>
         r.lsn = s.lsn /\ r.tx = s.tx /\ r.txseq = s.txseq /\ r.seq = s.seq
  BY DEF Identity
<1> QED
  BY <1>1, HistoryAssumption

(* Under a manifest of the history, the events of a plan are placed as those of
   a transaction of the history are. *)
LEMMA OwnPlan ==
    ASSUME IntakeTypeOK, PlansSound, NEW p \in plans, p.manifest = Manifest(History)
    PROVE  /\ TransactionsIn(Events) = TransactionsIn(History)
           /\ \A e \in p.events : \E r \in EventsOf(History, p.tx) : Identity(r) = Identity(e)
           /\ \A r \in EventsOf(History, p.tx) : \E e \in p.events : Identity(r) = Identity(e)
           /\ p.events \cap Strays = {} => p.events = EventsOf(History, p.tx)
<1>1. /\ DOMAIN Manifest(History) = TransactionsIn(History)
      /\ \A t \in TransactionsIn(History) : Manifest(History)[t] = Ids(EventsOf(History, t))
  BY DEF Manifest
<1>2. /\ TransactionsIn(Events) = TransactionsIn(History)
      /\ p.tx \in TransactionsIn(History)
      /\ Ids(p.events) = Ids(EventsOf(History, p.tx))
  BY <1>1, PlanFacts DEF Complete
<1>3. /\ \A e \in p.events : \E r \in EventsOf(History, p.tx) : Identity(r) = Identity(e)
      /\ \A r \in EventsOf(History, p.tx) : \E e \in p.events : Identity(r) = Identity(e)
  <2>1. \A E, i : i \in Ids(E) <=> \E e \in E : i = Identity(e)
    BY DEF Ids
  <2>2. \A E : \A e \in E : Identity(e) \in Ids(E)
    BY <2>1
  <2> QED
    BY <1>2, <2>1, <2>2
<1>4. ASSUME p.events \cap Strays = {}
      PROVE  p.events = EventsOf(History, p.tx)
  <2>1. p.events \subseteq History
    BY <1>4, PlanFacts, EventFacts
  <2>2. p.events \subseteq EventsOf(History, p.tx)
    BY <2>1, PlanFacts DEF EventsOf
  <2>3. EventsOf(History, p.tx) \subseteq History
    BY DEF EventsOf
  <2>4. \A r \in EventsOf(History, p.tx) : r \in p.events
    BY <1>3, <2>1, <2>3, IdentityFacts
  <2> QED
    BY <2>2, <2>4
<1> QED
  BY <1>2, <1>3, <1>4

(* The order in which plans are given is the order of their commits, when the
   sequence numbers of the history are. *)
LEMMA CommitOrder ==
    ASSUME IntakeTypeOK, PlansSound, InSequence,
           NEW p \in plans, NEW q \in plans, p.manifest = Manifest(History),
           NEW r \in p.events, NEW s \in q.events, s.lsn < r.lsn
    PROVE  BySequence(q, p)
<1>1. q.manifest = Manifest(History)
  BY PlanFacts
<1> DEFINE f == FirstOf(p.events)
           g == FirstOf(q.events)
<1>2. f \in p.events /\ g \in q.events
  BY PlanFacts, LastFacts
<1> HIDE DEF f, g
<1>3. PICK hr, hf \in EventsOf(History, p.tx) : Identity(hr) = Identity(r) /\ Identity(hf) = Identity(f)
  BY <1>2, OwnPlan
<1>4. PICK hs, hg \in EventsOf(History, q.tx) : Identity(hs) = Identity(s) /\ Identity(hg) = Identity(g)
  BY <1>1, <1>2, OwnPlan
<1>5. /\ hr.lsn = r.lsn /\ hs.lsn = s.lsn /\ hf.txseq = f.txseq /\ hg.txseq = g.txseq
  BY <1>3, <1>4, IdentityFacts
<1>6. /\ hr \in History /\ hf \in History /\ hs \in History /\ hg \in History
      /\ hr.tx = hf.tx /\ hs.tx = hg.tx
  BY <1>3, <1>4 DEF EventsOf
<1>7. hr.txseq = hf.txseq /\ hs.txseq = hg.txseq
  BY <1>6, HistoryAssumption
<1>8. hs.txseq < hr.txseq
  BY <1>5, <1>6 DEF InSequence
<1> QED
  BY <1>5, <1>7, <1>8 DEF BySequence, f, g

(* Events of the source are in order. *)
LEMMA HistoryOrdered ==
    ASSUME NEW E \in SUBSET History
    PROVE  E \in SUBSET Records /\ IsFiniteSet(E) /\ Ordered(E)
<1>1. E \in SUBSET Records /\ IsFiniteSet(E)
  BY RecordFacts, FS_Subset, HistoryAssumption
<1>2. ASSUME NEW r \in E, NEW s \in E PROVE r = s \/ Before(r, s) \/ Before(s, r)
  <2>1. r.lsn = s.lsn => r = s \/ r.seq # s.seq
    BY HistoryAssumption
  <2>2. r.lsn \in Nat /\ s.lsn \in Nat
    BY <1>1, RecordFacts
  <2> QED
    BY <1>1, <2>1, <2>2, BeforeFacts
<1> QED
  BY <1>1, <1>2 DEF Ordered

(* A plan that does not come before another one holds earlier events. *)
LEMMA PlanOrder ==
    ASSUME IntakeTypeOK, PlansSound, InSequence,
           NEW p \in plans, NEW q \in plans, p # q, p.manifest = Manifest(History),
           (p.events \cup q.events) \cap Strays = {}, ~BySequence(q, p),
           NEW r \in p.events, NEW s \in q.events
    PROVE  Before(r, s)
<1>1. q.manifest = Manifest(History) /\ p.tx # q.tx
  BY PlanFacts
<1>2. r \in EventsOf(History, p.tx) /\ s \in EventsOf(History, q.tx)
  BY <1>1, OwnPlan
<1>3. r \in History /\ s \in History /\ r.lsn # s.lsn
  BY <1>1, <1>2, HistoryAssumption DEF EventsOf
<1>4. ~(s.lsn < r.lsn)
  BY CommitOrder
<1>5. r \in Records /\ s \in Records /\ r.lsn \in Nat /\ s.lsn \in Nat
  BY <1>3, RecordFacts
<1> QED
  BY <1>3, <1>4, <1>5, BeforeFacts

-----------------------------------------------------------------------------
(* The steps: the shape of the state. *)

LEMMA IntakeInitially == IntakeInit => IntakeInv
<1> SUFFICES ASSUME IntakeInit PROVE IntakeInv
  OBVIOUS
<1> USE DEF IntakeInit
<1>1. IntakeTypeOK
  BY HistoryAssumption DEF IntakeTypeOK
<1>2. FilesSound
  <2>1. temp = [i \in 1 .. 0 |-> Files[i]]
    OBVIOUS
  <2>2. 0 \in 0 .. Len(Files)
    BY DEF Files
  <2> QED
    BY <2>1, <2>2 DEF FilesSound
<1>3. AcceptedSound /\ StagesSound /\ PlansSound /\ OrderSound
  BY DEF AcceptedSound, StagesSound, PlansSound, OrderSound
<1>4. RowsSound
  <2>1. Applied = {}
    BY DEF Applied
  <2> QED
    BY <2>1, NothingChanges DEF RowsSound, OwnHistory
<1> QED
  BY <1>1, <1>2, <1>3, <1>4 DEF IntakeInv

LEMMA RecordStep ==
    ASSUME IntakeInv, NEW r \in Records, NormalizeRecord(r)
    PROVE  IntakeTypeOK' /\ AcceptedSound'
<1> USE DEF IntakeInv
<1>1. landed' \in [Records -> 0 .. Copies]
  BY HistoryAssumption DEF NormalizeRecord, IntakeTypeOK
<1>2. accepted' \cup quarantine' = {s \in Records : landed'[s] > 0}
  <2>1. accepted' \cup quarantine' = accepted \cup quarantine \cup {r}
    <3>1. CASE Rejected(r) \/ Conflicts(r)
      BY <3>1 DEF NormalizeRecord
    <3>2. CASE ~(Rejected(r) \/ Conflicts(r)) /\ \E a \in accepted : Identity(a) = Identity(r)
      BY <3>2 DEF NormalizeRecord, Conflicts
    <3>3. CASE ~(Rejected(r) \/ Conflicts(r)) /\ ~\E a \in accepted : Identity(a) = Identity(r)
      BY <3>3 DEF NormalizeRecord
    <3> QED
      BY <3>1, <3>2, <3>3
  <2>2. landed'[r] > 0 /\ \A s \in Records \ {r} : landed'[s] = landed[s]
    BY DEF NormalizeRecord, IntakeTypeOK
  <2> QED
    BY <2>1, <2>2 DEF IntakeTypeOK
<1>3. AcceptedSound'
  <2>1. CASE UNCHANGED accepted
    BY <2>1 DEF AcceptedSound
  <2>2. CASE ~Rejected(r) /\ ~(\E a \in accepted : Identity(a) = Identity(r))
             /\ accepted' = accepted \cup {r}
    BY <2>2 DEF AcceptedSound
  <2> QED
    BY <2>1, <2>2 DEF NormalizeRecord
<1>4. output = None
  BY DEF NormalizeRecord, StagesSound
<1> QED
  BY <1>1, <1>2, <1>3, <1>4 DEF IntakeTypeOK, NormalizeRecord, applying

LEMMA FileStep ==
    ASSUME FilesSound, WriteFile
    PROVE  FilesSound'
<1>1. PICK n \in 0 .. Len(Files) : temp = [i \in 1 .. n |-> Files[i]]
  BY DEF FilesSound
<1>2. Len(Files) = 3 /\ Len(temp) = n
  BY <1>1 DEF Files
<1>3. n + 1 \in 0 .. Len(Files)
  BY <1>2 DEF WriteFile
<1> DEFINE F == Files
<1> HIDE DEF F
<1>4. temp' = Append([i \in 1 .. n |-> F[i]], F[n + 1])
  BY <1>1, <1>2 DEF WriteFile, F
<1>5. Append([i \in 1 .. n |-> F[i]], F[n + 1]) = [i \in 1 .. n + 1 |-> F[i]]
  BY <1>2
<1> QED
  BY <1>3, <1>4, <1>5 DEF FilesSound, F

LEMMA PublishStep ==
    ASSUME IntakeInv, Publish
    PROVE  /\ IntakeTypeOK' /\ FilesSound'
           /\ output' # None /\ output'.quarantine = quarantine
<1> USE DEF IntakeInv
<1>1. Range(temp) = Range(Files)
  <2>1. PICK n \in 0 .. Len(Files) : temp = [i \in 1 .. n |-> Files[i]]
    BY DEF FilesSound
  <2>2. Len(temp) = n /\ Len(Files) = 3
    BY <2>1 DEF Files
  <2>3. n = 3
    BY <2>2 DEF Publish, Written
  <2>4. DOMAIN Files = 1 .. 3
    BY DEF Files
  <2> QED
    BY <2>1, <2>3, <2>4 DEF Range
<1>2. accepted \subseteq Records /\ quarantine \subseteq Records
  BY DEF IntakeTypeOK
<1>3. output' \in Bundle
  BY <1>1, <1>2 DEF Publish, Bundle
<1>4. output' # None /\ output'.files = Range(Files)
      /\ output'.canonical = accepted /\ output'.quarantine = quarantine
  BY <1>1, <1>3, NoneAssumption DEF Publish
<1>5. stage' = "published"
  BY DEF Publish
<1>6. IntakeTypeOK'
  BY <1>4, <1>5 DEF IntakeTypeOK, Publish, reading, applying
<1>7. FilesSound'
  <2>1. temp' = [i \in 1 .. 0 |-> Files[i]]
    BY DEF Publish
  <2>2. 0 \in 0 .. Len(Files)
    BY DEF Files
  <2> QED
    BY <2>1, <2>2 DEF FilesSound
<1> QED
  BY <1>4, <1>6, <1>7

(* While a landing is read and written, nothing is assembled. *)
LEMMA ReadingStep ==
    ASSUME IntakeInv, stage \notin {"apply", "done", "refused"}, UNCHANGED applying,
           stage' \notin {"apply", "done"}
    PROVE  PlansSound' /\ OrderSound' /\ RowsSound'
<1>1. plans = {} /\ plans' = {}
  BY DEF IntakeInv, StagesSound, applying
<1>2. OrderSound'
  BY DEF IntakeInv, OrderSound, BySequence, applying
<1>3. PlansSound'
  BY <1>1 DEF PlansSound
<1>4. RowsSound'
  BY DEF IntakeInv, RowsSound, Applied, OwnHistory, applying
<1> QED
  BY <1>2, <1>3, <1>4

LEMMA LandStep ==
    ASSUME IntakeInv, Land
    PROVE  IntakeInv'
<1> USE DEF IntakeInv
<1>1. ASSUME NEW objects \in Sequences, ValidateManifest(objects)
      PROVE  IntakeInv'
  <2>1. /\ stage = "idle" /\ stage' \in {"normalize", "refused"} /\ output = None
        /\ UNCHANGED <<landed, accepted, quarantine, temp, output, applying>>
    BY <1>1 DEF ValidateManifest
  <2>2. PlansSound' /\ OrderSound' /\ RowsSound'
    BY <2>1, ReadingStep
  <2>3. IntakeTypeOK' /\ FilesSound'
    BY <2>1 DEF IntakeTypeOK, FilesSound, applying
  <2>4. AcceptedSound' /\ StagesSound'
    BY <2>1 DEF AcceptedSound, StagesSound, applying
  <2> QED
    BY <2>2, <2>3, <2>4
<1>2. ASSUME NEW r \in Records, NormalizeRecord(r)
      PROVE  IntakeInv'
  <2>1. /\ stage = "normalize" /\ UNCHANGED <<stage, temp, output, applying>>
    BY <1>2 DEF NormalizeRecord
  <2>2. PlansSound' /\ OrderSound' /\ RowsSound'
    BY <2>1, ReadingStep
  <2>3. StagesSound' /\ FilesSound'
    BY <2>1 DEF StagesSound, FilesSound, applying
  <2> QED
    BY <1>2, <2>2, <2>3, RecordStep
<1>3. \A o : Within(o) \cup Strays \subseteq Records
  BY DEF Within, Records
<1> QED
  BY <1>1, <1>2, <1>3 DEF Land

LEMMA WritingStep ==
    ASSUME IntakeInv, EndObject \/ WriteFile \/ Publish \/ HandOff
    PROVE  IntakeInv'
<1> USE DEF IntakeInv
<1>1. CASE EndObject
  <2>1. /\ stage = "normalize" /\ stage' \in {"normalize", "write"}
        /\ UNCHANGED <<landed, accepted, quarantine, temp, output, applying>>
    BY <1>1 DEF EndObject
  <2>2. PlansSound' /\ OrderSound' /\ RowsSound'
    BY <2>1, ReadingStep
  <2>3. IntakeTypeOK' /\ FilesSound'
    BY <2>1 DEF IntakeTypeOK, FilesSound, applying
  <2>4. AcceptedSound' /\ StagesSound'
    BY <2>1 DEF AcceptedSound, StagesSound, applying
  <2> QED
    BY <2>2, <2>3, <2>4
<1>2. CASE WriteFile
  <2>1. stage = "write" /\ UNCHANGED <<stage, reading, output, applying>>
    BY <1>2 DEF WriteFile
  <2>2. PlansSound' /\ OrderSound' /\ RowsSound'
    BY <2>1, ReadingStep
  <2>3. IntakeTypeOK'
    BY <2>1 DEF IntakeTypeOK, reading, applying
  <2>4. AcceptedSound' /\ StagesSound'
    BY <2>1 DEF AcceptedSound, StagesSound, reading, applying
  <2> QED
    BY <1>2, <2>2, <2>3, <2>4, FileStep
<1>3. CASE Publish
  <2>1. /\ stage = "write" /\ stage' = "published"
        /\ UNCHANGED <<reading, applying>>
    BY <1>3 DEF Publish
  <2>2. PlansSound' /\ OrderSound' /\ RowsSound'
    BY <2>1, ReadingStep
  <2>3. AcceptedSound'
    BY <2>1 DEF AcceptedSound, reading
  <2>4. plans = {} /\ plans' = {}
    BY <2>1 DEF StagesSound, applying
  <2>5. StagesSound'
    BY <1>3, <2>1, <2>4, PublishStep DEF StagesSound
  <2> QED
    BY <1>3, <2>2, <2>3, <2>5, PublishStep
<1>4. CASE HandOff
  <2>1. /\ stage = "published" /\ UNCHANGED <<reading, temp, output, applying>>
        /\ stage' = IF output.quarantine = {} THEN "assemble" ELSE "refused"
    BY <1>4 DEF HandOff
  <2>2. PlansSound' /\ OrderSound' /\ RowsSound'
    BY <2>1, ReadingStep
  <2>3. IntakeTypeOK' /\ FilesSound'
    BY <2>1 DEF IntakeTypeOK, FilesSound, reading, applying
  <2>4. AcceptedSound' /\ StagesSound'
    BY <2>1 DEF AcceptedSound, StagesSound, reading, applying
  <2> QED
    BY <2>2, <2>3, <2>4
<1> QED
  BY <1>1, <1>2, <1>3, <1>4

LEMMA AssembleStep ==
    ASSUME IntakeInv, NEW own \in BOOLEAN, Assemble(own)
    PROVE  IntakeInv'
<1> USE DEF IntakeInv
<1> DEFINE from == IF own THEN Events ELSE History
<1>1. /\ stage = "assemble" /\ output # None /\ output.quarantine = {}
      /\ output.canonical = accepted
      /\ plans = {} /\ todo = {} /\ applied = {} /\ tombstones = {}
  <2>1. stage = "assemble"
    BY DEF Assemble
  <2>2. output # None /\ output.quarantine = {} /\ output.canonical = accepted /\ plans = {}
    BY <2>1 DEF StagesSound, IntakeTypeOK
  <2>3. todo = {} /\ applied = {}
    BY <2>2 DEF OrderSound
  <2> QED
    BY <2>1, <2>2, <2>3, NothingChanges DEF RowsSound, Applied
<1>2. {r \in output.canonical : r.op # "snapshot"} = Events
  BY <1>1 DEF Events
<1>3. UNCHANGED <<reading, temp, output, applied, tombstones, verdict>>
  BY DEF Assemble
<1>4. CASE /\ Orderable(Events) /\ Complete(Events, Manifest(from))
           /\ stage' = "apply" /\ plans' = Plans(Events, Manifest(from)) /\ todo' = plans'
           /\ rows' = Snapshot
  <2>1. IntakeTypeOK' /\ FilesSound'
    BY <1>3, <1>4, NothingChanges DEF IntakeTypeOK, FilesSound, reading
  <2>2. AcceptedSound' /\ StagesSound'
    BY <1>1, <1>3, <1>4 DEF AcceptedSound, StagesSound, reading
  <2>3. Events' = Events /\ Manifest(from) \in {Manifest(Events), Manifest(History)}
    BY <1>3 DEF Events, reading
  <2>4. PlansSound'
    BY <1>4, <2>3 DEF PlansSound
  <2>5. OrderSound'
    BY <1>1, <1>3, <1>4 DEF OrderSound
  <2>6. RowsSound'
    <3>1. Applied' = {}
      BY <1>1, <1>3 DEF Applied
    <3> QED
      BY <1>1, <1>3, <1>4, <3>1, NothingChanges DEF RowsSound
  <2> QED
    BY <2>1, <2>2, <2>4, <2>5, <2>6
<1>5. CASE stage' = "refused" /\ UNCHANGED <<plans, todo, rows>>
  <2>1. PlansSound' /\ OrderSound' /\ RowsSound'
    BY <1>1, <1>3, <1>5, ReadingStep DEF applying
  <2>2. IntakeTypeOK' /\ FilesSound'
    BY <1>3, <1>5 DEF IntakeTypeOK, FilesSound, reading
  <2>3. AcceptedSound' /\ StagesSound'
    BY <1>1, <1>3, <1>5 DEF AcceptedSound, StagesSound, reading
  <2> QED
    BY <2>1, <2>2, <2>3
<1> QED
  BY <1>2, <1>4, <1>5 DEF Assemble

LEMMA DieStep ==
    ASSUME IntakeInv, Die
    PROVE  IntakeInv'
<1> USE DEF IntakeInv
<1>1. /\ plans' = {} /\ todo' = {} /\ applied' = {} /\ tombstones' = {} /\ temp' = <<>>
      /\ rows' = [k \in Keys |-> None] /\ UNCHANGED <<output, verdict>>
      /\ stage' = IF output = None THEN "idle" ELSE "published"
      /\ stage \notin {"idle", "refused", "done"}
  BY DEF Die
<1>2. FilesSound'
  <2>1. temp' = [i \in 1 .. 0 |-> Files[i]]
    BY <1>1
  <2>2. 0 \in 0 .. Len(Files)
    BY DEF Files
  <2> QED
    BY <2>1, <2>2 DEF FilesSound
<1>3. IntakeTypeOK' /\ AcceptedSound'
  <2>1. CASE output = None
    BY <1>1, <2>1, HistoryAssumption DEF Die, IntakeTypeOK, AcceptedSound
  <2>2. CASE output # None
    BY <1>1, <2>2 DEF Die, IntakeTypeOK, AcceptedSound, reading
  <2> QED
    BY <2>1, <2>2
<1>4. StagesSound'
  BY <1>1 DEF StagesSound
<1>5. PlansSound' /\ OrderSound'
  BY <1>1 DEF PlansSound, OrderSound
<1>6. RowsSound'
  <2>1. Applied' = {}
    BY <1>1 DEF Applied
  <2>2. ~OwnHistory'
    BY <1>1 DEF OwnHistory
  <2> QED
    BY <1>1, <2>1, <2>2, NothingChanges DEF RowsSound
<1> QED
  BY <1>2, <1>3, <1>4, <1>5, <1>6

(* What a step leaves alone that neither reads, assembles nor dies. *)
LEMMA ApplyingStep ==
    ASSUME IntakeInv, stage = "apply", stage' \in {"apply", "done", "refused"},
           UNCHANGED <<reading, temp, output, plans>>,
           rows' \in [Keys -> Values \cup {None}], verdict' \in {None, "PASS", "FAIL"}
    PROVE  IntakeTypeOK' /\ FilesSound' /\ AcceptedSound' /\ StagesSound' /\ PlansSound'
<1> USE DEF IntakeInv
<1>1. IntakeTypeOK' /\ FilesSound'
  BY DEF IntakeTypeOK, FilesSound, reading
<1>2. AcceptedSound' /\ StagesSound'
  BY DEF AcceptedSound, StagesSound, reading
<1>3. Events' = Events
  BY DEF Events, reading
<1>4. PlansSound'
  BY <1>3 DEF PlansSound
<1> QED
  BY <1>1, <1>2, <1>4

(* When a plan is applied, what comes before it is, and the rows are those of
   one transaction more. *)
LEMMA ApplyStep ==
    ASSUME IntakeInv, NEW p \in todo, Apply(p)
    PROVE  IntakeInv'
<1> USE DEF IntakeInv
<1>1. /\ stage = "apply" /\ p \in todo /\ \A q \in todo : ~BySequence(q, p)
      /\ UNCHANGED <<reading, temp, output, plans, verdict>>
  BY DEF Apply
<1>2. p \in plans /\ applied \subseteq plans
  BY <1>1 DEF OrderSound
<1>3. \A q \in plans : BySequence(q, p) => q \in applied
  BY <1>1 DEF OrderSound
<1>4. CASE /\ Seen(p) /\ p \in applied
           /\ todo' = todo \ {p} /\ UNCHANGED <<stage, rows, applied, tombstones>>
  <2>1. IntakeTypeOK' /\ FilesSound' /\ AcceptedSound' /\ StagesSound' /\ PlansSound'
    BY <1>1, <1>4, ApplyingStep DEF IntakeTypeOK
  <2>2. OrderSound'
    BY <1>1, <1>4 DEF OrderSound, BySequence
  <2>3. RowsSound'
    BY <1>1, <1>4 DEF RowsSound, Applied, OwnHistory
  <2> QED
    BY <2>1, <2>2, <2>3
<1>5. CASE /\ IF Seen(p) THEN p \notin applied ELSE ~Fits(rows, p.events)
           /\ stage' = "refused" /\ UNCHANGED <<todo, rows, applied, tombstones>>
  <2>1. IntakeTypeOK' /\ FilesSound' /\ AcceptedSound' /\ StagesSound' /\ PlansSound'
    BY <1>1, <1>5, ApplyingStep DEF IntakeTypeOK
  <2>2. OrderSound'
    BY <1>1, <1>5 DEF OrderSound, BySequence
  <2>3. RowsSound'
    BY <1>1, <1>5 DEF RowsSound, Applied, OwnHistory
  <2> QED
    BY <2>1, <2>2, <2>3
<1>6. CASE /\ ~Seen(p) /\ Fits(rows, p.events) /\ rows' = Changed(rows, p.events)
           /\ applied' = applied \cup {p}
           /\ tombstones' = tombstones \cup Deletes(p.events)
           /\ todo' = todo \ {p} /\ UNCHANGED stage
  <2> DEFINE E == p.events
  <2>1. E \in SUBSET Records /\ IsFiniteSet(E) /\ Ordered(E)
    BY <1>2, PlanFacts
  <2>2. rows' \in [Keys -> Values \cup {None}]
    BY <1>6, <2>1, ChangedType DEF IntakeTypeOK
  <2>3. IntakeTypeOK' /\ FilesSound' /\ AcceptedSound' /\ StagesSound' /\ PlansSound'
    BY <1>1, <1>6, <2>2, ApplyingStep DEF IntakeTypeOK
  <2>4. OrderSound'
    <3>1. \A r \in applied', q \in plans' : BySequence(q, r) => q \in applied'
      BY <1>1, <1>3, <1>6 DEF OrderSound
    <3> QED
      BY <1>1, <1>2, <1>6, <3>1 DEF OrderSound, BySequence
  <2>5. Applied' = Applied \cup E
    BY <1>6 DEF Applied
  <2>6. tombstones' = Deletes(Applied')
    <3>1. Deletes(Applied \cup E) = Deletes(Applied) \cup Deletes(E)
      BY DEF Deletes
    <3> QED
      BY <1>6, <2>5, <3>1 DEF RowsSound
  <2>7. ASSUME OwnHistory', InSequence
        PROVE  Fits(Snapshot, Applied)' /\ rows' = Changed(Snapshot, Applied)'
    <3>1. /\ Applied \cap Strays = {} /\ E \cap Strays = {}
          /\ \A q \in plans : q.manifest = Manifest(History)
      BY <1>1, <2>5, <2>7 DEF OwnHistory
    <3>2. Fits(Snapshot, Applied) /\ rows = Changed(Snapshot, Applied)
      BY <1>1, <2>7, <3>1 DEF RowsSound, OwnHistory
    <3>3. \A r \in Applied, s \in E : Before(r, s)
      <4> SUFFICES ASSUME NEW q \in applied, NEW r \in q.events, NEW s \in E
                   PROVE  Before(r, s)
        BY DEF Applied
      <4>1. q # p /\ p \notin applied /\ q \in plans
        BY <1>2, <1>6 DEF Seen
      <4>2. q.events \cap Strays = {}
        BY <3>1 DEF Applied
      <4>3. ~BySequence(p, q)
        BY <1>2, <4>1 DEF OrderSound
      <4> QED
        BY <1>2, <2>7, <3>1, <4>1, <4>2, <4>3, PlanOrder
    <3>4. Applied \in SUBSET Records
      BY <1>2, PlanFacts DEF Applied
    <3> HIDE DEF E
    <3>5. Fits(Snapshot, Applied \cup E)
      BY <1>6, <2>1, <3>2, <3>3, <3>4, FitsLater DEF E
    <3>6. Changed(Snapshot, Applied \cup E) = Changed(rows, E)
      BY <2>1, <3>2, <3>3, <3>4, ChangedLater
    <3>7. Fits(Snapshot, Applied') /\ rows' = Changed(Snapshot, Applied')
      BY <1>6, <2>5, <3>5, <3>6 DEF E
    <3> QED
      BY <3>7 DEF Fits, Changed, Value
  <2>8. RowsSound'
    BY <2>6, <2>7 DEF RowsSound, Deletes
  <2> QED
    BY <2>3, <2>4, <2>8
<1> QED
  BY <1>4, <1>5, <1>6 DEF Apply

LEMMA RestStep ==
    ASSUME IntakeInv, Replay \/ Reconcile \/ UNCHANGED intakeVars
    PROVE  IntakeInv'
<1> USE DEF IntakeInv
<1>1. CASE Replay \/ Reconcile
  <2>1. /\ stage = "apply" /\ stage' \in {"apply", "done"}
        /\ UNCHANGED <<reading, temp, output, plans, rows, applied, tombstones>>
        /\ todo' \in {todo, plans} /\ (stage' = "done" => todo' = todo)
        /\ verdict' \in {None, "PASS", "FAIL"}
    BY <1>1 DEF Replay, Reconcile, IntakeTypeOK
  <2>2. IntakeTypeOK' /\ FilesSound' /\ AcceptedSound' /\ StagesSound' /\ PlansSound'
    BY <2>1, ApplyingStep DEF IntakeTypeOK
  <2>3. OrderSound'
    BY <2>1 DEF OrderSound, BySequence
  <2>4. RowsSound'
    BY <2>1 DEF RowsSound, Applied, OwnHistory
  <2> QED
    BY <2>2, <2>3, <2>4
<1>2. CASE UNCHANGED intakeVars
  <2>1. IntakeTypeOK' /\ FilesSound' /\ AcceptedSound' /\ StagesSound'
    BY <1>2 DEF intakeVars, IntakeTypeOK, FilesSound, AcceptedSound, StagesSound
  <2>2. PlansSound'
    BY <1>2 DEF intakeVars, PlansSound, Events
  <2>3. OrderSound'
    BY <1>2 DEF intakeVars, OrderSound, BySequence
  <2>4. RowsSound'
    BY <1>2 DEF intakeVars, RowsSound, Applied, OwnHistory
  <2> QED
    BY <2>1, <2>2, <2>3, <2>4
<1> QED
  BY <1>1, <1>2

(* In every state the stages follow each other, the plans are the transactions
   of an unquarantined bundle, they are applied in the order of their sequences,
   and the rows are what the applied events make of the snapshot. *)
THEOREM IntakeInvariance == IntakeSpec => []IntakeInv
<1>1. IntakeInv /\ [IntakeNext]_intakeVars => IntakeInv'
  BY LandStep, WritingStep, AssembleStep, ApplyStep, RestStep, DieStep DEF IntakeNext, Work
<1> QED
  BY <1>1, IntakeInitially, PTL DEF IntakeSpec

-----------------------------------------------------------------------------
(* A record that is applied lies in the landing's interval and is the only one
   of its identity that was landed: normalize_manifest and the quarantine check
   of the command line together leave no doubt about it. *)
THEOREM DoubtStaysOut == IntakeSpec => []DoubtIsNeverApplied
<1>1. ASSUME IntakeInv PROVE DoubtIsNeverApplied
  <2> SUFFICES ASSUME NEW p \in applied, NEW r \in p.events
               PROVE  /\ r.lsn \in (Start + 1) .. End
                      /\ \A s \in Records :
                           landed[s] > 0 /\ Identity(s) = Identity(r) => s = r
    BY DEF DoubtIsNeverApplied
  <2> USE <1>1 DEF IntakeInv
  <2>1. p \in plans
    BY DEF OrderSound
  <2>2. r \in accepted /\ r.op # "snapshot"
    BY <2>1, PlanFacts DEF Events
  <2>3. r.lsn \in (Start + 1) .. End
    BY <2>2 DEF AcceptedSound, Rejected, Misplaced
  <2>4. quarantine = {}
    BY <2>1 DEF StagesSound, IntakeTypeOK
  <2>5. \A s \in Records : landed[s] > 0 => s \in accepted
    BY <2>4 DEF IntakeTypeOK
  <2> QED
    BY <2>2, <2>3, <2>5 DEF AcceptedSound
<1> QED
  BY <1>1, IntakeInvariance, PTL

(* Where the sequences of the source follow its commits, what is applied of its
   own events under a manifest of its history is a prefix of the history, in
   whole transactions, and rows and tombstones are the prefix's. *)
THEOREM PrefixesApplied ==
    ASSUME InSequence
    PROVE  IntakeSpec => []AppliesPrefixes
<1>1. ASSUME IntakeInv PROVE AppliesPrefixes
  <2> SUFFICES ASSUME OwnHistory
               PROVE  \E n \in {Start} \cup {r.lsn : r \in History} : Applied = CommittedBy(n)
    BY <1>1 DEF AppliesPrefixes, IntakeInv, RowsSound
  <2> USE <1>1 DEF IntakeInv
  <2>1. ASSUME NEW p \in applied
        PROVE  p \in plans /\ p.manifest = Manifest(History) /\ p.events = EventsOf(History, p.tx)
    BY <2>1, OwnPlan DEF OrderSound, OwnHistory, Applied
  <2>2. Applied \subseteq History
    BY <2>1 DEF Applied, EventsOf
  <2>3. CASE Applied = {}
    <3>1. \A r \in History : r.lsn > Start /\ r.lsn \in Nat /\ Start \in Nat
      BY HistoryAssumption, RecordFacts
    <3>2. CommittedBy(Start) = {}
      BY <3>1 DEF CommittedBy
    <3> QED
      BY <2>3, <3>2
  <2>4. CASE Applied # {}
    <3> DEFINE last == LastOf(Applied)
    <3>1. Applied \in SUBSET Records /\ IsFiniteSet(Applied) /\ Ordered(Applied)
      BY <2>2, HistoryOrdered
    <3>3. last \in Applied /\ \A r \in Applied : r = last \/ Before(r, last)
      BY <2>4, <3>1, LastFacts
    <3> HIDE DEF last
    <3>4. Applied \subseteq CommittedBy(last.lsn)
      BY <2>2, <3>1, <3>3, BeforeFacts, RecordFacts DEF CommittedBy
    <3>5. PICK p \in applied : last \in p.events
      BY <3>3 DEF Applied
    <3>6. ASSUME NEW s \in History, s.lsn <= last.lsn PROVE s \in Applied
      <4>1. PICK q \in plans : q.tx = s.tx
        <5>1. TransactionsIn(Events) = TransactionsIn(History)
          BY <2>1, <3>5, OwnPlan
        <5>2. s.tx \in TransactionsIn(Events)
          BY <5>1 DEF TransactionsIn
        <5> QED
          BY <2>1, <3>5, <5>2, PlanFacts
      <4>2. last \in History /\ last.tx = p.tx
        BY <2>1, <3>5 DEF EventsOf
      <4>3. s.lsn \in Nat /\ last.lsn \in Nat
        BY <4>2, RecordFacts
      <4>4. CASE s.lsn = last.lsn
        <5>1. s.tx = p.tx
          BY <4>2, <4>4, HistoryAssumption
        <5> QED
          BY <2>1, <3>5, <5>1 DEF EventsOf, Applied
      <4>5. CASE s.lsn < last.lsn
        <5>1. q.manifest = Manifest(History)
          BY <4>1 DEF OwnHistory
        <5>2. s \in EventsOf(History, q.tx)
          BY <4>1 DEF EventsOf
        <5>3. PICK e \in q.events : Identity(s) = Identity(e)
          BY <5>1, <5>2, OwnPlan
        <5>4. e.lsn < last.lsn
          BY <4>5, <5>3, IdentityFacts
        <5>5. BySequence(q, p)
          BY <2>1, <3>5, <5>4, CommitOrder
        <5>6. q \in applied
          BY <2>1, <3>5, <5>5 DEF OrderSound
        <5> QED
          BY <2>1, <4>1, <5>2, <5>6 DEF Applied
      <4> QED
        BY <3>6, <4>3, <4>4, <4>5
    <3>7. Applied = CommittedBy(last.lsn)
      BY <3>4, <3>6 DEF CommittedBy
    <3> QED
      BY <2>2, <3>3, <3>7
  <2> QED
    BY <2>3, <2>4
<1> QED
  BY <1>1, IntakeInvariance, PTL

-----------------------------------------------------------------------------
(* A clean bundle holds the source's transactions, which is what a manifest of
   either kind describes. *)
LEMMA CleanFacts ==
    ASSUME IntakeInv, CleanBundle
    PROVE  /\ Events = History /\ quarantine = {} /\ output.canonical = accepted
           /\ \A p \in plans : p.events = EventsOf(History, p.tx)
           /\ stage \in {"apply", "done"} =>
                /\ OwnHistory
                /\ \A r \in History : \E p \in plans : r \in p.events
<1> USE DEF IntakeInv
<1>1. quarantine = {} /\ accepted = Source /\ output.canonical = accepted
  BY DEF CleanBundle, IntakeTypeOK
<1>2. Events = History
  <2>1. \A r \in SnapshotRecords : r.op = "snapshot"
    BY DEF SnapshotRecords
  <2> QED
    BY <1>1, <2>1, HistoryAssumption DEF Events, Source
<1>3. \A p \in plans : p.events = EventsOf(History, p.tx)
  BY <1>2, PlanFacts
<1>4. ASSUME stage \in {"apply", "done"}
      PROVE  OwnHistory /\ \A r \in History : \E p \in plans : r \in p.events
  <2>1. plans = Plans(History, Manifest(History))
    BY <1>2, <1>4 DEF PlansSound
  <2>2. \A p \in plans : p.manifest = Manifest(History)
    BY <2>1 DEF Plans
  <2>3. Applied \subseteq History
    BY <1>3 DEF Applied, OrderSound, EventsOf
  <2>4. \A r \in History :
          [tx |-> r.tx, events |-> EventsOf(History, r.tx), manifest |-> Manifest(History)] \in plans
    BY <2>1 DEF Plans, TransactionsIn
  <2>5. ASSUME NEW r \in History PROVE \E p \in plans : r \in p.events
    <3>1. r \in EventsOf(History, r.tx)
      BY DEF EventsOf
    <3> QED
      BY <2>4, <3>1
  <2> QED
    BY <1>4, <2>2, <2>3, <2>5, HistoryAssumption DEF OwnHistory, Source
<1> QED
  BY <1>1, <1>2, <1>3, <1>4

(* The next plan of a clean bundle fits what the ones before it leave, since
   the source's changes do. *)
LEMMA CleanFits ==
    ASSUME IntakeInv, SoundSource, CleanBundle, stage = "apply",
           NEW p \in todo, p \notin applied, \A q \in todo : ~BySequence(q, p)
    PROVE  Fits(rows, p.events)
<1> USE DEF IntakeInv
<1> DEFINE A == Applied
           E == p.events
           R == History \ (A \cup E)
<1>1. InSequence /\ OwnHistory /\ Fits(Snapshot, History)
  BY CleanFacts DEF SoundSource
<1>2. p \in plans /\ applied \subseteq plans
  BY DEF OrderSound
<1>3. /\ \A q \in plans : q.events \subseteq History /\ q.events \cap Strays = {}
      /\ \A q \in plans : q.manifest = Manifest(History)
  <2>1. \A q \in plans : q.events \subseteq History
    BY CleanFacts DEF EventsOf
  <2> QED
    BY <1>1, <2>1, HistoryAssumption DEF OwnHistory, Source
<1>4. A \subseteq History /\ E \subseteq History
  BY <1>2, <1>3 DEF Applied
<1>5. \A q \in plans : BySequence(q, p) => q \in applied
  BY DEF OrderSound
<1>6. \A q \in applied, s \in plans : BySequence(s, q) => s \in applied
  BY DEF OrderSound
<1>7. ASSUME NEW q \in applied, NEW r \in q.events, NEW s \in E
      PROVE  Before(r, s)
  <2>1. q \in plans /\ q # p /\ ~BySequence(p, q)
    BY <1>2, <1>6
  <2> QED
    BY <1>1, <1>2, <1>3, <1>7, <2>1, PlanOrder
<1>8. \A r \in A, s \in E : Before(r, s)
  BY <1>7 DEF Applied
<1>9. ASSUME NEW r \in A \cup E, NEW s \in R
      PROVE  Before(r, s)
  <2>1. PICK q \in plans : r \in q.events /\ (q \in applied \/ q = p)
    BY <1>2 DEF Applied
  <2>2. PICK u \in plans : s \in u.events
    BY CleanFacts
  <2>3. u # p /\ u \notin applied
    BY <2>2 DEF Applied
  <2>4. u # q /\ ~BySequence(u, q)
    BY <1>5, <1>6, <2>1, <2>3
  <2> QED
    BY <1>1, <1>3, <2>1, <2>2, <2>4, PlanOrder
<1>10. /\ A \in SUBSET Records
       /\ E \in SUBSET Records /\ IsFiniteSet(E) /\ Ordered(E)
       /\ R \in SUBSET Records /\ IsFiniteSet(R) /\ Ordered(R)
       /\ A \cup E \in SUBSET Records
  BY <1>4, HistoryOrdered
<1>11. (A \cup E) \cup R = History
  BY <1>4
<1>12. rows = Changed(Snapshot, A)
  BY <1>1 DEF RowsSound
<1> HIDE DEF A, E, R
<1>13. Fits(Snapshot, (A \cup E) \cup R) => Fits(Snapshot, A \cup E)
  BY <1>9, <1>10, FitsLater
<1>14. Fits(Snapshot, A \cup E) => Fits(Changed(Snapshot, A), E)
  BY <1>8, <1>10, FitsLater
<1> QED
  BY <1>1, <1>11, <1>12, <1>13, <1>14 DEF E

(* After the last plan of a clean bundle, the rows are the source's. *)
LEMMA CleanIsWhole ==
    ASSUME IntakeInv, SoundSource, CleanBundle, stage = "apply", todo = {}
    PROVE  Mismatches = {}
<1> USE DEF IntakeInv
<1>1. applied = plans
  BY DEF OrderSound
<1>2. Applied = History
  BY <1>1, CleanFacts DEF Applied, EventsOf
<1>3. rows = Changed(Snapshot, History)
  BY <1>2, CleanFacts DEF RowsSound, SoundSource
<1> QED
  BY <1>3 DEF Mismatches, SourceRows

LEMMA CleanStep ==
    ASSUME IntakeInv, CleanIsNotRefused, IntakeNext \/ UNCHANGED intakeVars
    PROVE  CleanIsNotRefused'
<1> SUFFICES ASSUME SoundSource, CleanBundle'
             PROVE  stage' # "refused" /\ (stage' = "done" => verdict' = "PASS")
  BY DEF CleanIsNotRefused, SoundSource, InSequence, Describable, Orderable, EventsOf, Before,
         Fits, Value, Touching, LastOf
<1> USE DEF IntakeInv
<1>1. CASE Land
  <2>1. stage' = "normalize" \/ output' = None
    BY <1>1 DEF Land, ValidateManifest, NormalizeRecord
  <2> QED
    BY <2>1 DEF CleanBundle
<1>2. CASE EndObject \/ WriteFile
  BY <1>2 DEF EndObject, WriteFile
<1>3. CASE Publish \/ HandOff
  BY <1>3 DEF Publish, HandOff, CleanBundle
<1>4. ASSUME NEW own \in BOOLEAN, Assemble(own)
      PROVE  stage' = "apply"
  <2>1. CleanBundle
    BY <1>4 DEF Assemble, CleanBundle
  <2>2. {r \in output.canonical : r.op # "snapshot"} = History
    BY <2>1, CleanFacts DEF Events
  <2>3. Describable(History) /\ Orderable(History)
    BY DEF SoundSource, Describable
  <2>4. Complete(History, Manifest(History))
    BY DEF Complete, Manifest
  <2> QED
    BY <1>4, <2>2, <2>3, <2>4 DEF Assemble
<1>5. ASSUME NEW p \in todo, Apply(p)
      PROVE  stage' = "apply"
  <2>1. /\ stage = "apply" /\ \A q \in todo : ~BySequence(q, p)
        /\ CleanBundle
    BY <1>5 DEF Apply, CleanBundle
  <2>2. Seen(p) => p \in applied
    <3>1. p \in plans /\ applied \subseteq plans
      BY DEF OrderSound
    <3> QED
      BY <3>1, PlanFacts DEF Seen
  <2>3. ~Seen(p) => Fits(rows, p.events)
    BY <2>1, CleanFits DEF Seen
  <2> QED
    BY <1>5, <2>1, <2>2, <2>3 DEF Apply
<1>6. CASE Reconcile
  <2>1. stage = "apply" /\ todo = {} /\ CleanBundle
    BY <1>6 DEF Reconcile, CleanBundle
  <2> QED
    BY <1>6, <2>1, CleanIsWhole DEF Reconcile
<1>7. CASE Replay \/ Die
  BY <1>7 DEF Replay, Die
<1>8. CASE UNCHANGED intakeVars
  BY <1>8 DEF intakeVars, CleanIsNotRefused, CleanBundle
<1> QED
  BY <1>1, <1>2, <1>3, <1>4, <1>5, <1>6, <1>7, <1>8 DEF IntakeNext, Work

(* A bundle of a database's records is never refused by assemble_transactions or
   the reference store, nor failed by reconcile, whichever manifest it is bound
   to and however often its process dies or is given its plans again. *)
THEOREM CleanGoesThrough == IntakeSpec => []CleanIsNotRefused
<1>1. IntakeInit => CleanIsNotRefused
  BY DEF IntakeInit, CleanIsNotRefused
<1>2. IntakeInv /\ CleanIsNotRefused /\ [IntakeNext]_intakeVars => CleanIsNotRefused'
  BY CleanStep
<1> QED
  BY <1>1, <1>2, IntakeInvariance, PTL DEF IntakeSpec

-----------------------------------------------------------------------------
(* The source laboratory. *)

USE DEF Writers, Pre, Post, Foreign, Phases, Capturing, Committing, Phased, Transactions

-----------------------------------------------------------------------------
(* Sequences of commits. *)

(* A commit is appended; nothing that was committed moves. *)
LEMMA AppendFacts ==
    ASSUME NEW s \in Seq(Transactions), NEW tx \in Transactions
    PROVE  /\ Append(s, tx) \in Seq(Transactions)
           /\ Len(Append(s, tx)) = Len(s) + 1
           /\ DOMAIN Append(s, tx) = DOMAIN s \cup {Len(s) + 1}
           /\ \A i \in DOMAIN s : i <= Len(s) /\ Append(s, tx)[i] = s[i]
           /\ Append(s, tx)[Len(s) + 1] = tx
           /\ Range(Append(s, tx)) = Range(s) \cup {tx}
<1>1. /\ Append(s, tx) \in Seq(Transactions)
      /\ Len(Append(s, tx)) = Len(s) + 1
      /\ DOMAIN Append(s, tx) = DOMAIN s \cup {Len(s) + 1}
      /\ \A i \in DOMAIN s : i <= Len(s) /\ Append(s, tx)[i] = s[i]
      /\ Append(s, tx)[Len(s) + 1] = tx
  OBVIOUS
<1> QED
  BY <1>1 DEF Range

LEMMA EmptyFacts ==
    /\ <<>> \in Seq(Transactions) /\ Len(<<>>) = 0
    /\ DOMAIN <<>> = {} /\ Range(<<>>) = {}
BY DEF Range

(* The stretch that the slot gives. *)
LEMMA StretchFacts ==
    ASSUME NEW s \in Seq(Transactions), NEW k \in 0 .. Len(s)
    PROVE  /\ SubSeq(s, k + 1, Len(s)) \in Seq(Transactions)
           /\ Len(SubSeq(s, k + 1, Len(s))) = Len(s) - k
           /\ \A i \in DOMAIN SubSeq(s, k + 1, Len(s)) :
                 SubSeq(s, k + 1, Len(s))[i] = s[k + i]
OBVIOUS

-----------------------------------------------------------------------------
(* What a step does to the commits. *)

Grows(tx) ==
    /\ commits' = Append(commits, tx)
    /\ UNCHANGED <<decoded, receipt>>

LEMMA CommitKinds ==
    ASSUME Next
    PROVE  \/ UNCHANGED commits
           \/ commits' = <<>> /\ decoded' = <<>> /\ receipt' = Null
           \/ \E tx \in Transactions : Grows(tx)
<1>1. CASE \/ Execute("before", "before", "pair") \/ Execute("after", "after", "create")
           \/ Execute(Post, "post", "decode") \/ ForeignCommit
  BY <1>1 DEF Execute, ForeignCommit, Grows, capture
<1>2. ASSUME NEW w \in Writers, WriterStep(w)
      PROVE  UNCHANGED commits \/ Grows(w)
  BY <1>2 DEF WriterStep, WriterReady, WriterFails, WriterTimesOut, WriterCommits,
              WriterDone, Thread, Grows, capture
<1>3. CASE InitializeNamespace
  BY <1>3 DEF InitializeNamespace
<1>4. CASE \/ StartProcess \/ Kill \/ StartThreads \/ AllReady \/ PermitSecond \/ Join
           \/ PairFails \/ CreateSlot \/ ImportSnapshot \/ GetChanges \/ SelectFirst
           \/ DropSlot \/ ValidateReceipt \/ Fails \/ CleanUp \/ CleanUpFails \/ CompareFinal
           \/ DropNamespace
  BY <1>4 DEF StartProcess, Kill, StartThreads, AllReady, PermitSecond, Permit, Join,
              PairFails, Raise, CreateSlot, ImportSnapshot, GetChanges, SelectFirst,
              DropSlot, ValidateReceipt, Fails, SlotBecomes, CleanUp, CleanUpFails, CompareFinal, DropNamespace
<1> QED
  BY <1>1, <1>2, <1>3, <1>4 DEF Next, Main

-----------------------------------------------------------------------------
(* Types. *)

(* The part of the type invariant that is not about the logs. *)
RestType ==
    /\ pc \in Labels /\ run \in DOMAIN Runs /\ raised \in BOOLEAN /\ processes \in Nat
    /\ namespaces \subseteq Range(Runs)
    /\ writer \in [Writers -> {"none", "begun", "ready", "committed", "failed"}]
    /\ permits \subseteq Writers /\ done \subseteq Writers
    /\ admin \in {"none", "open", "aborted"} /\ mine \in BOOLEAN
    /\ receipt \in {Null} \cup Range(Runs)
    /\ left \in {"none", "unanswered", "admin", "cleanup", "killed"}

LEMMA RunsFacts ==
    /\ 1 \in DOMAIN Runs
    /\ \A r \in DOMAIN Runs : Runs[r] \in Range(Runs)
    /\ \A r \in DOMAIN Runs : r # Len(Runs) => r + 1 \in DOMAIN Runs
<1>1. Runs \in Seq(STRING) /\ Runs # <<>>
  BY RunsAssumption
<1>2. DOMAIN Runs = 1 .. Len(Runs) /\ Len(Runs) \in Nat /\ Len(Runs) # 0
  BY <1>1
<1> QED
  BY <1>2 DEF Range

LEMMA RestTypeStep ==
    ASSUME RestType, Next
    PROVE  RestType'
<1> USE DEF Labels
<1>1. CASE StartProcess
  <2>1. /\ pc' = "namespace" /\ run' = 1 /\ raised' = FALSE /\ processes' = processes + 1
        /\ admin' = "none" /\ mine' = FALSE
        /\ UNCHANGED <<namespaces, writer, permits, done, receipt, left>>
    BY <1>1 DEF StartProcess, Go, threads
  <2>2. processes' \in Nat
    BY <2>1 DEF RestType
  <2>3. run' \in DOMAIN Runs
    BY <2>1, RunsFacts
  <2> QED
    BY <2>1, <2>2, <2>3 DEF RestType
<1>2. CASE InitializeNamespace
  BY <1>2, RunsFacts DEF InitializeNamespace, RestType, threads
<1>3. CASE \/ Execute("before", "before", "pair") \/ Execute("after", "after", "create")
           \/ Execute(Post, "post", "decode") \/ ForeignCommit
  <2>1. pc' \in Labels
    BY <1>3 DEF Execute, Go, ForeignCommit, RestType
  <2>2. UNCHANGED <<run, raised, processes, namespaces, writer, permits, done, admin, mine,
                    receipt, left>>
    BY <1>3 DEF Execute, ForeignCommit, threads, capture
  <2> QED
    BY <2>1, <2>2 DEF RestType
<1>4. CASE StartThreads
  BY <1>4 DEF StartThreads, Go, RestType, capture
<1>5. ASSUME NEW w \in Writers, WriterStep(w)
      PROVE  RestType'
  <2>1. CASE WriterDone(w)
    BY <2>1 DEF WriterDone, RestType, capture
  <2>2. CASE WriterReady(w) \/ WriterFails(w) \/ WriterTimesOut(w) \/ WriterCommits(w)
    <3>1. PICK from, to \in {"begun", "ready", "committed", "failed"} :
              Thread(w, from, to) /\ UNCHANGED done
      BY <2>2 DEF WriterReady, WriterFails, WriterTimesOut, WriterCommits
    <3> QED
      BY <3>1 DEF Thread, RestType, capture
  <2> QED
    BY <1>5, <2>1, <2>2 DEF WriterStep
<1>6. CASE AllReady \/ PermitSecond
  BY <1>6 DEF AllReady, PermitSecond, Permit, Go, RestType, capture
<1>7. CASE Join \/ ImportSnapshot \/ SelectFirst \/ CompareFinal
  <2>1. pc' \in Labels /\ admin' = admin
    BY <1>7 DEF Join, ImportSnapshot, SelectFirst, CompareFinal, Go, capture
  <2>2. UNCHANGED <<run, raised, processes, namespaces, writer, permits, done, mine,
                    receipt, left>>
    BY <1>7 DEF Join, ImportSnapshot, SelectFirst, CompareFinal, capture, threads
  <2> QED
    BY <2>1, <2>2 DEF RestType
<1>8. CASE PairFails
  BY <1>8 DEF PairFails, Raise, RestType, threads
<1>9. CASE CreateSlot \/ GetChanges \/ DropSlot
  BY <1>9 DEF CreateSlot, GetChanges, DropSlot, Go, RestType, threads
<1>10. CASE ValidateReceipt
  BY <1>10, RunsFacts DEF ValidateReceipt, Go, RestType, threads
<1>11. CASE Fails
  <2>1. left' \in {"none", "unanswered", left}
    BY <1>11 DEF Fails, SlotBecomes
  <2>2. admin' \in {"none", "open", "aborted"}
    BY <1>11 DEF Fails, RestType
  <2>3. pc' \in Labels /\ raised' \in BOOLEAN
    BY <1>11 DEF Fails, Raise
  <2>4. UNCHANGED <<run, processes, namespaces, writer, permits, done, mine, receipt>>
    BY <1>11 DEF Fails, Raise, threads
  <2> QED
    BY <2>1, <2>2, <2>3, <2>4 DEF RestType
<1>12. CASE CleanUp \/ CleanUpFails
  BY <1>12 DEF CleanUp, CleanUpFails, SlotBecomes, RestType, threads
<1>13. CASE DropNamespace
  BY <1>13, RunsFacts DEF DropNamespace, RestType, threads, capture
<1>14. CASE Kill
  BY <1>14 DEF Kill, SlotBecomes, RestType
<1> QED
  BY <1>1, <1>2, <1>3, <1>4, <1>5, <1>6, <1>7, <1>8, <1>9, <1>10, <1>11, <1>12, <1>13,
     <1>14 DEF Next, Main

(* What is decoded is a stretch of the commits. *)
LEMMA DecodedStep ==
    ASSUME IInv, Next
    PROVE  /\ decoded' \in Seq(Transactions)
           /\ \/ UNCHANGED decoded \/ decoded' = <<>>
              \/ GetChanges
<1>1. CASE GetChanges
  <2>1. slot \in 0 .. Len(commits) /\ commits \in Seq(Transactions)
    BY <1>1 DEF GetChanges, Go, IInv, SlotInv, CaptureTypeOK
  <2> QED
    BY <1>1, <2>1, StretchFacts DEF GetChanges
<1>2. CASE ~GetChanges
  <2>1. UNCHANGED decoded \/ decoded' = <<>>
    BY <1>2 DEF Next, Main, WriterStep, StartProcess, InitializeNamespace, Execute,
         StartThreads, WriterReady, WriterFails, WriterTimesOut, WriterCommits, WriterDone,
         Thread, AllReady, PermitSecond, Permit, Join, PairFails, Raise, CreateSlot,
         ImportSnapshot, SelectFirst, DropSlot, ValidateReceipt, Fails, SlotBecomes, CleanUp, CleanUpFails,
         CompareFinal, DropNamespace, Kill, ForeignCommit, capture
  <2> QED
    BY <2>1, EmptyFacts DEF IInv, CaptureTypeOK
<1> QED
  BY <1>1, <1>2

LEMMA TypeStep ==
    ASSUME IInv, Next
    PROVE  CaptureTypeOK'
<1>1. RestType
  BY DEF IInv, CaptureTypeOK, RestType
<1>2. RestType'
  BY <1>1, RestTypeStep
<1>3. commits' \in Seq(Transactions)
  <2>1. commits \in Seq(Transactions)
    BY DEF IInv, CaptureTypeOK
  <2>2. CASE UNCHANGED commits
    BY <2>1, <2>2
  <2>3. CASE commits' = <<>>
    BY <2>3, EmptyFacts
  <2>4. ASSUME NEW tx \in Transactions, Grows(tx)
        PROVE  commits' \in Seq(Transactions)
    BY <2>1, <2>4, AppendFacts DEF Grows
  <2> QED
    BY <2>2, <2>3, <2>4, CommitKinds
<1> QED
  BY <1>2, <1>3, DecodedStep DEF RestType, CaptureTypeOK

-----------------------------------------------------------------------------
(* The parts of the inductive invariant. *)

(* Steps that leave the threads and the commits alone, and do not enter the
   phases in which no thread has begun. *)
Aside ==
    /\ UNCHANGED <<writer, permits, done, commits>>
    /\ pc' \notin {"before", "pair"}

LEMMA AsideSteps ==
    ASSUME \/ StartProcess \/ Join \/ PairFails \/ CreateSlot \/ ImportSnapshot \/ GetChanges
           \/ SelectFirst \/ DropSlot \/ ValidateReceipt \/ Fails \/ CleanUp \/ CleanUpFails \/ CompareFinal
           \/ DropNamespace
    PROVE  Aside
BY DEF Aside, StartProcess, Join, PairFails, Raise, CreateSlot, ImportSnapshot, GetChanges,
       SelectFirst, DropSlot, ValidateReceipt, Fails, SlotBecomes, CleanUp, CleanUpFails, CompareFinal, DropNamespace,
       Go, threads

LEMMA ThreadsStep ==
    ASSUME IInv, Next
    PROVE  ThreadsInv'
<1>1. CaptureTypeOK /\ ThreadsInv
  BY DEF IInv
<1>2. CASE InitializeNamespace
  <2>1. CASE UNCHANGED <<commits, threads>> /\ pc' = "idle"
    BY <1>1, <2>1 DEF ThreadsInv, threads
  <2>2. CASE /\ commits' = <<>> /\ writer' = [w \in Writers |-> "none"]
             /\ permits' = {} /\ done' = {}
    BY <2>2, EmptyFacts DEF ThreadsInv
  <2> QED
    BY <1>2, <2>1, <2>2 DEF InitializeNamespace
<1>3. CASE \/ Execute("before", "before", "pair") \/ Execute("after", "after", "create")
           \/ Execute(Post, "post", "decode") \/ ForeignCommit
  <2>1. PICK tx \in Transactions \ Writers : commits' = Append(commits, tx)
    BY <1>3 DEF Execute, ForeignCommit
  <2>2. Range(commits') = Range(commits) \cup {tx}
    BY <1>1, <2>1, AppendFacts DEF CaptureTypeOK
  <2>3. /\ UNCHANGED <<writer, permits, done>>
        /\ pc' \in {"before", "pair"} => pc \in {"before", "pair"}
    BY <1>3 DEF Execute, ForeignCommit, Go, threads
  <2> QED
    BY <1>1, <2>1, <2>2, <2>3 DEF ThreadsInv
<1>4. CASE StartThreads
  BY <1>1, <1>4 DEF StartThreads, Go, ThreadsInv
<1>5. ASSUME NEW w \in Writers, WriterStep(w)
      PROVE  ThreadsInv'
  <2>1. pc \notin {"before", "pair"} /\ pc' = pc
    BY <1>1, <1>5 DEF ThreadsInv, WriterStep, WriterReady, WriterFails, WriterTimesOut,
                      WriterCommits, WriterDone, Thread
  <2>2. CASE WriterReady(w) \/ WriterFails(w) \/ WriterTimesOut(w)
    BY <1>1, <2>1, <2>2 DEF CaptureTypeOK, ThreadsInv, WriterReady, WriterFails,
                            WriterTimesOut, Thread
  <2>3. CASE WriterCommits(w)
    <3>1. Range(commits') = Range(commits) \cup {w}
      BY <1>1, <2>3, AppendFacts DEF WriterCommits, CaptureTypeOK
    <3> QED
      BY <1>1, <2>1, <2>3, <3>1 DEF CaptureTypeOK, ThreadsInv, WriterCommits, Thread
  <2>4. CASE WriterDone(w)
    BY <1>1, <2>1, <2>4 DEF ThreadsInv, WriterDone
  <2> QED
    BY <1>5, <2>2, <2>3, <2>4 DEF WriterStep
<1>6. CASE AllReady \/ PermitSecond
  BY <1>1, <1>6 DEF AllReady, PermitSecond, Permit, Go, ThreadsInv
<1>7. CASE Aside
  BY <1>1, <1>7 DEF Aside, ThreadsInv
<1>8. CASE Kill
  BY <1>1, <1>8 DEF Kill, Open, ThreadsInv, CaptureTypeOK
<1> QED
  BY <1>2, <1>3, <1>4, <1>5, <1>6, <1>7, <1>8, AsideSteps DEF Next, Main

LEMMA PhasesStep ==
    ASSUME IInv, Next
    PROVE  PhasesInv'
<1>1. CaptureTypeOK /\ ThreadsInv /\ PhasesInv
  BY DEF IInv
<1>2. CASE InitializeNamespace
  BY <1>2, EmptyFacts DEF InitializeNamespace, PhasesInv
<1>3. ASSUME NEW tx \in Transactions, NEW from, NEW to, Execute(tx, from, to),
             <<tx, from, to>> \in {<<"before", "before", "pair">>, <<"after", "after", "create">>,
                                   <<Post, "post", "decode">>}
      PROVE  PhasesInv'
  <2>1. Range(commits') = Range(commits) \cup {tx}
    BY <1>1, <1>3, AppendFacts DEF Execute, CaptureTypeOK
  <2> QED
    BY <1>1, <1>3, <2>1 DEF Execute, Go, PhasesInv
<1>4. CASE ForeignCommit
  <2>1. Range(commits') = Range(commits) \cup {Foreign}
    BY <1>1, <1>4, AppendFacts DEF ForeignCommit, CaptureTypeOK
  <2> QED
    BY <1>1, <1>4, <2>1 DEF ForeignCommit, PhasesInv
<1>5. ASSUME NEW w \in Writers, WriterStep(w)
      PROVE  PhasesInv'
  <2>1. /\ pc' = pc
        /\ UNCHANGED commits \/ commits' = Append(commits, w)
    BY <1>5 DEF WriterStep, WriterReady, WriterFails, WriterTimesOut,
                WriterCommits, WriterDone, Thread
  <2>2. commits' = Append(commits, w) => Range(commits') = Range(commits) \cup {w}
    BY <1>1, AppendFacts DEF CaptureTypeOK
  <2> QED
    BY <1>1, <2>1, <2>2 DEF PhasesInv
<1>6. CASE StartThreads \/ AllReady \/ PermitSecond
  BY <1>1, <1>6 DEF StartThreads, AllReady, PermitSecond, Permit, Go, PhasesInv
<1>7. CASE Join
  BY <1>1, <1>7 DEF Join, Go, PhasesInv, ThreadsInv
<1>8. CASE \/ CreateSlot \/ ImportSnapshot \/ GetChanges \/ SelectFirst \/ DropSlot
           \/ ValidateReceipt \/ CompareFinal
  BY <1>1, <1>8 DEF CreateSlot, ImportSnapshot, GetChanges, SelectFirst, DropSlot,
       ValidateReceipt, CompareFinal, Go, PhasesInv
<1>9. CASE StartProcess \/ PairFails \/ Fails \/ CleanUp \/ CleanUpFails \/ DropNamespace \/ Kill
  <2>1. pc' \in {"idle", "namespace", "cleanup", "release"}
    BY <1>9 DEF StartProcess, PairFails, Raise, Fails, SlotBecomes, CleanUp, CleanUpFails, DropNamespace, Kill, Go
  <2> QED
    BY <2>1 DEF PhasesInv
<1> QED
  BY <1>2, <1>3, <1>4, <1>5, <1>6, <1>7, <1>8, <1>9 DEF Next, Main

(* Whoever commits next keeps the order: a writer only once and the second
   only after the first, the first transaction after the boundary only once
   and only when all of the workload before it is there. *)
LEMMA GrowthInOrder ==
    ASSUME IInv, Next, NEW tx \in Transactions, Grows(tx)
    PROVE  /\ tx \in Writers \cup {Post} => tx \notin Range(commits)
           /\ tx = "writer_b" => "writer_a" \notin Range(commits)
           /\ tx = Post => Pre \subseteq Range(commits)
<1>1. CaptureTypeOK /\ ThreadsInv /\ PhasesInv
  BY DEF IInv
<1>2. commits' # commits /\ commits' # <<>> /\ commits'[Len(commits) + 1] = tx
  BY <1>1, AppendFacts, EmptyFacts DEF Grows, CaptureTypeOK
<1>3. ASSUME NEW ty \in Transactions, commits' = Append(commits, ty)
      PROVE  ty = tx
  BY <1>1, <1>2, <1>3, AppendFacts DEF CaptureTypeOK
<1>4. CASE \/ Execute("before", "before", "pair") \/ Execute("after", "after", "create")
           \/ ForeignCommit
  BY <1>3, <1>4 DEF Execute, ForeignCommit
<1>5. CASE Execute(Post, "post", "decode")
  BY <1>1, <1>3, <1>5 DEF Execute, Go, PhasesInv
<1>6. ASSUME NEW w \in Writers, WriterStep(w)
      PROVE  /\ tx = w /\ tx \notin Range(commits)
             /\ tx = "writer_b" => "writer_a" \notin Range(commits)
  <2>1. WriterCommits(w)
    BY <1>2, <1>6 DEF WriterStep, WriterReady, WriterFails, WriterTimesOut, WriterDone
  <2> QED
    BY <1>1, <1>3, <2>1 DEF WriterCommits, Thread, ThreadsInv
<1>7. CASE StartThreads \/ AllReady \/ PermitSecond \/ Kill
  BY <1>2, <1>7 DEF StartThreads, AllReady, PermitSecond, Permit, Kill
<1>8. CASE InitializeNamespace
  BY <1>2, <1>8 DEF InitializeNamespace
<1>9. CASE Aside
  BY <1>2, <1>9 DEF Aside
<1> QED
  BY <1>4, <1>5, <1>6, <1>7, <1>8, <1>9, AsideSteps DEF Next, Main

LEMMA OrderStep ==
    ASSUME IInv, Next
    PROVE  OrderInv'
<1>1. commits \in Seq(Transactions) /\ OrderInv
  BY DEF IInv, CaptureTypeOK
<1>2. CASE UNCHANGED commits
  BY <1>1, <1>2 DEF OrderInv
<1>3. CASE commits' = <<>>
  BY <1>3, EmptyFacts DEF OrderInv
<1>4. ASSUME NEW tx \in Transactions, Grows(tx)
      PROVE  OrderInv'
  <2> DEFINE n == Len(commits) + 1
  <2>1. /\ DOMAIN commits' = DOMAIN commits \cup {n}
        /\ \A i \in DOMAIN commits : i \in Nat /\ i < n /\ commits'[i] = commits[i]
        /\ commits'[n] = tx
        /\ n \in Nat
    BY <1>1, <1>4, AppendFacts DEF Grows
  <2>2. \A t : t \in Range(commits) <=> \E i \in DOMAIN commits : commits[i] = t
    BY DEF Range
  <2>3. /\ tx \in Writers \cup {Post} => \A i \in DOMAIN commits : commits[i] # tx
        /\ tx = "writer_b" => \A i \in DOMAIN commits : commits[i] # "writer_a"
        /\ tx = Post => \A t \in Pre : \E i \in DOMAIN commits : commits[i] = t
    BY <1>4, <2>2, GrowthInOrder
  <2> SUFFICES ASSUME NEW i \in DOMAIN commits', NEW j \in DOMAIN commits'
               PROVE  /\ commits'[i] = commits'[j] /\ commits'[i] \in Writers \cup {Post} => i = j
                      /\ commits'[i] = "writer_b" /\ commits'[j] = "writer_a" => i < j
                      /\ commits'[j] = Post =>
                            \A t \in Pre : \E k \in DOMAIN commits' : k < j /\ commits'[k] = t
    BY DEF OrderInv
  <2> HIDE DEF n
  <2>4. /\ commits'[i] = commits'[j] /\ commits'[i] \in Writers \cup {Post} => i = j
        /\ commits'[i] = "writer_b" /\ commits'[j] = "writer_a" => i < j
    BY <1>1, <2>1, <2>3 DEF OrderInv
  <2>5. ASSUME commits'[j] = Post, NEW t \in Pre
        PROVE  \E k \in DOMAIN commits' : k < j /\ commits'[k] = t
    <3>1. PICK k \in DOMAIN commits : commits[k] = t /\ (k < j \/ j = n)
      BY <1>1, <2>1, <2>3, <2>5 DEF OrderInv
    <3> QED
      BY <2>1, <3>1
  <2> QED
    BY <2>4, <2>5
<1> QED
  BY <1>2, <1>3, <1>4, CommitKinds

LEMMA StreamStep ==
    ASSUME IInv, Next
    PROVE  StreamInv'
<1>1. CaptureTypeOK /\ StreamInv /\ PhasesInv
  BY DEF IInv
<1>2. \E k \in Nat : /\ k + Len(decoded') <= Len(commits')
                    /\ \A i \in DOMAIN decoded' : decoded'[i] = commits'[k + i]
  <2>1. CASE GetChanges
    <3>1. slot \in 0 .. Len(commits) /\ commits \in Seq(Transactions)
      BY <2>1 DEF GetChanges, Go, IInv, SlotInv, CaptureTypeOK
    <3>2. commits' = commits /\ decoded' = SubSeq(commits, slot + 1, Len(commits))
      BY <2>1 DEF GetChanges
    <3>3. slot + Len(decoded') <= Len(commits') /\ slot \in Nat
      BY <3>1, <3>2, StretchFacts
    <3>4. \A i \in DOMAIN decoded' : decoded'[i] = commits'[slot + i]
      BY <3>1, <3>2, StretchFacts
    <3> QED
      BY <3>3, <3>4
  <2>2. CASE decoded' = <<>>
    <3>1. commits' \in Seq(Transactions)
      BY TypeStep DEF CaptureTypeOK
    <3>2. 0 + Len(decoded') <= Len(commits') /\ DOMAIN decoded' = {}
      BY <2>2, <3>1, EmptyFacts
    <3> QED
      BY <3>2
  <2>3. CASE UNCHANGED decoded /\ UNCHANGED commits
    BY <1>1, <2>3 DEF StreamInv
  <2>4. ASSUME UNCHANGED decoded, NEW tx \in Transactions, Grows(tx)
        PROVE  \E k \in Nat : /\ k + Len(decoded') <= Len(commits')
                             /\ \A i \in DOMAIN decoded' : decoded'[i] = commits'[k + i]
    <3>1. PICK k \in Nat : /\ k + Len(decoded) <= Len(commits)
                          /\ \A i \in DOMAIN decoded : decoded[i] = commits[k + i]
      BY <1>1 DEF StreamInv
    <3>2. /\ commits \in Seq(Transactions) /\ decoded \in Seq(Transactions)
          /\ commits' = Append(commits, tx) /\ decoded' = decoded
      BY <1>1, <2>4 DEF CaptureTypeOK, Grows
    <3>3. \A i \in DOMAIN decoded : k + i \in DOMAIN commits
      BY <3>1, <3>2
    <3>4. \A i \in DOMAIN decoded' : decoded'[i] = commits'[k + i]
      BY <3>1, <3>2, <3>3, AppendFacts
    <3>5. k + Len(decoded') <= Len(commits')
      BY <3>1, <3>2, AppendFacts
    <3> QED
      BY <3>4, <3>5
  <2> QED
    BY <2>1, <2>2, <2>3, <2>4, CommitKinds, DecodedStep
<1>3. /\ pc' \in {"unslot", "validate"} => decoded' # <<>>
      /\ pc' \in Phased => receipt' = Null
  <2>1. CASE \/ StartProcess \/ PairFails \/ Fails \/ CleanUp \/ CleanUpFails \/ DropNamespace \/ Kill
             \/ ValidateReceipt \/ CompareFinal
    BY <2>1 DEF StartProcess, PairFails, Raise, Fails, SlotBecomes, CleanUp, CleanUpFails, DropNamespace, Kill,
                ValidateReceipt, CompareFinal, Go
  <2>2. CASE InitializeNamespace \/ GetChanges
    BY <1>1, <2>2 DEF InitializeNamespace, GetChanges, Go, StreamInv
  <2>3. CASE \/ Execute("before", "before", "pair") \/ Execute("after", "after", "create")
             \/ Execute(Post, "post", "decode") \/ ForeignCommit
             \/ StartThreads \/ AllReady \/ PermitSecond \/ Join
    BY <1>1, <2>3 DEF Execute, ForeignCommit, StartThreads, AllReady, PermitSecond, Permit,
                      Join, Go, capture, StreamInv
  <2>4. CASE CreateSlot \/ ImportSnapshot \/ SelectFirst \/ DropSlot
    BY <1>1, <2>4 DEF CreateSlot, ImportSnapshot, SelectFirst, DropSlot, Go, capture, StreamInv
  <2>5. ASSUME NEW w \in Writers, WriterStep(w)
        PROVE  UNCHANGED <<pc, decoded, receipt>>
    BY <2>5 DEF WriterStep, WriterReady, WriterFails, WriterTimesOut, WriterCommits,
                WriterDone, Thread, capture
  <2> QED
    BY <1>1, <2>1, <2>2, <2>3, <2>4, <2>5 DEF Next, Main, StreamInv
<1>4. receipt' # Null => decoded' # <<>> /\ decoded'[1] = Post /\ Post \in Range(commits')
  <2>1. CASE ValidateReceipt
    BY <1>1, <2>1 DEF ValidateReceipt, FirstIsOurs, Go, StreamInv, PhasesInv
  <2>2. CASE GetChanges
    BY <1>1, <2>2 DEF GetChanges, Go, StreamInv
  <2>3. CASE \/ StartProcess \/ InitializeNamespace \/ PairFails \/ Fails \/ CleanUp \/ CleanUpFails
             \/ DropNamespace \/ Kill \/ CompareFinal \/ StartThreads \/ AllReady
             \/ PermitSecond \/ Join \/ CreateSlot \/ ImportSnapshot \/ SelectFirst
             \/ DropSlot
    <3>1. receipt' # Null => UNCHANGED <<receipt, decoded, commits>>
      BY <2>3 DEF StartProcess, InitializeNamespace, PairFails, Raise, Fails, SlotBecomes, CleanUp, CleanUpFails,
                  DropNamespace, Kill, CompareFinal, StartThreads, AllReady, PermitSecond,
                  Permit, Join, CreateSlot, ImportSnapshot, SelectFirst, DropSlot, capture
    <3> QED
      BY <1>1, <3>1 DEF StreamInv
  <2>4. CASE \/ Execute("before", "before", "pair") \/ Execute("after", "after", "create")
             \/ Execute(Post, "post", "decode") \/ ForeignCommit
             \/ \E w \in Writers : WriterStep(w)
    <3>1. UNCHANGED <<receipt, decoded>>
      BY <2>4 DEF Execute, ForeignCommit, WriterStep, WriterReady, WriterFails,
                  WriterTimesOut, WriterCommits, WriterDone, Thread, capture
    <3>2. ASSUME NEW tx \in Transactions, Grows(tx)
          PROVE  Range(commits) \subseteq Range(commits')
      BY <1>1, <3>2, AppendFacts DEF Grows, CaptureTypeOK
    <3>3. receipt' # Null => Range(commits) \subseteq Range(commits')
      BY <3>2, CommitKinds
    <3> QED
      BY <1>1, <3>1, <3>3 DEF StreamInv
  <2> QED
    BY <2>1, <2>2, <2>3, <2>4 DEF Next, Main
<1> QED
  BY <1>2, <1>3, <1>4 DEF StreamInv

LEMMA SlotStep ==
    ASSUME IInv, Next
    PROVE  SlotInv'
<1>1. CaptureTypeOK /\ SlotInv
  BY DEF IInv
<1>2. CASE \/ Execute("before", "before", "pair") \/ Execute("after", "after", "create")
           \/ Execute(Post, "post", "decode") \/ ForeignCommit
           \/ \E w \in Writers : WriterStep(w)
  <2>1. /\ UNCHANGED <<raised, slot, mine, left>>
        /\ \/ pc' = pc
           \/ pc = "before" /\ pc' = "pair"
           \/ pc = "after" /\ pc' = "create"
           \/ pc = "post" /\ pc' = "decode"
        /\ UNCHANGED commits \/ \E tx \in Transactions : commits' = Append(commits, tx)
    BY <1>2 DEF Execute, Go, ForeignCommit, WriterStep, WriterReady, WriterFails,
                WriterTimesOut, WriterCommits, WriterDone, Thread, capture
  <2>2. slot \in 0 .. Len(commits) => slot \in 0 .. Len(commits')
    BY <1>1, <2>1, AppendFacts DEF CaptureTypeOK
  <2> QED
    BY <1>1, <2>1, <2>2 DEF SlotInv
<1>3. CASE StartProcess \/ InitializeNamespace \/ DropNamespace \/ Kill
  <2>1. CASE StartProcess
    BY <1>1, <2>1 DEF StartProcess, Go, SlotInv
  <2>2. CASE InitializeNamespace
    BY <1>1, <2>2 DEF InitializeNamespace, SlotInv
  <2>3. CASE DropNamespace
    BY <1>1, <2>3 DEF DropNamespace, capture, SlotInv
  <2>4. CASE Kill
    <3>1. pc' = "idle" /\ mine' = mine /\ slot' = slot
      BY <2>4 DEF Kill, SlotBecomes
    <3>2. left' = "none" => slot = Null
      BY <2>4 DEF Kill, SlotBecomes
    <3> QED
      BY <3>1, <3>2 DEF SlotInv
  <2> QED
    BY <1>3, <2>1, <2>2, <2>3, <2>4
<1>4. CASE StartThreads \/ AllReady \/ PermitSecond \/ Join
  BY <1>1, <1>4 DEF StartThreads, AllReady, PermitSecond, Permit, Join, Go, capture, SlotInv
<1>5. CASE CreateSlot
  <2>1. Len(commits) \in 0 .. Len(commits)
    BY <1>1 DEF CaptureTypeOK
  <2> QED
    BY <1>5, <2>1 DEF CreateSlot, SlotInv
<1>6. CASE ImportSnapshot \/ GetChanges \/ SelectFirst \/ CompareFinal
  <2>1. CASE GetChanges
    BY <1>1, <2>1 DEF GetChanges, Go, SlotInv
  <2>2. CASE ImportSnapshot
    BY <1>1, <2>2 DEF ImportSnapshot, Go, capture, SlotInv
  <2>3. CASE SelectFirst \/ CompareFinal
    BY <1>1, <2>3 DEF SelectFirst, CompareFinal, Go, capture, SlotInv
  <2> QED
    BY <1>6, <2>1, <2>2, <2>3
<1>7. CASE DropSlot \/ ValidateReceipt
  BY <1>1, <1>7 DEF DropSlot, ValidateReceipt, Go, SlotInv
<1>8. CASE PairFails \/ Fails
  <2>1. /\ mine' = mine /\ raised' = TRUE
        /\ pc' \in {"release", "cleanup", "idle"}
        /\ pc \in Capturing => pc' = "cleanup"
    BY <1>8 DEF PairFails, Fails, Raise
  <2>2. \/ UNCHANGED <<slot, left>>
        \/ slot' # Null => left' = "unanswered"
        \/ slot' = Null
    BY <1>8 DEF PairFails, Fails, SlotBecomes
  <2>3. "cleanup" \notin Capturing /\ {"import", "post", "decode"} \subseteq Capturing
    OBVIOUS
  <2>4. mine => pc' = "cleanup" \/ pc \in {"cleanup", "release", "idle"}
    BY <1>1, <2>1 DEF SlotInv
  <2>5. slot' # Null /\ left' = "none" => slot # Null /\ left = "none"
    BY <2>2
  <2>6. pc # "cleanup"
    BY <1>8 DEF PairFails, Fails
  <2> QED
    BY <1>1, <2>1, <2>4, <2>5, <2>6 DEF SlotInv
<1>9. CASE CleanUp \/ CleanUpFails
  BY <1>1, <1>9 DEF CleanUp, CleanUpFails, SlotBecomes, SlotInv
<1> QED
  BY <1>2, <1>3, <1>4, <1>5, <1>6, <1>7, <1>8, <1>9 DEF Next, Main

-----------------------------------------------------------------------------
(* Theorems. *)

LEMMA Initially == Init => IInv
<1> SUFFICES ASSUME Init PROVE IInv
  OBVIOUS
<1>1. CaptureTypeOK
  BY RunsFacts, EmptyFacts DEF Init, CaptureTypeOK, Labels
<1>2. ThreadsInv /\ PhasesInv /\ OrderInv /\ SlotInv
  BY EmptyFacts DEF Init, ThreadsInv, PhasesInv, OrderInv, SlotInv
<1>3. StreamInv
  <2>1. 0 + Len(decoded) <= Len(commits) /\ DOMAIN decoded = {} /\ 0 \in Nat
    BY EmptyFacts DEF Init
  <2>2. pc = "idle" /\ receipt = Null
    BY DEF Init
  <2> QED
    BY <2>1, <2>2 DEF StreamInv
<1> QED
  BY <1>1, <1>2, <1>3 DEF IInv

LEMMA Stutters == IInv /\ UNCHANGED vars => IInv'
BY DEF vars, IInv, CaptureTypeOK, ThreadsInv, PhasesInv, OrderInv, StreamInv, SlotInv,
       Labels

(* The inductive invariant holds throughout: whatever fails, times out or is
   killed, permissions, done events, commits, the slot and what it gave stand
   in the relation the lab's code intends. *)
THEOREM Invariance == Spec => []IInv
<1>1. IInv /\ [Next]_vars => IInv'
  BY TypeStep, ThreadsStep, PhasesStep, OrderStep, StreamStep, SlotStep, Stutters DEF IInv
<1> QED
  BY <1>1, Initially, PTL DEF Spec

(* Where a transaction that is committed once is found. *)
LEMMA IndexFacts ==
    ASSUME NEW tx, tx \in Range(commits)
    PROVE  IndexOf(tx) \in DOMAIN commits /\ commits[IndexOf(tx)] = tx
BY DEF IndexOf, Range

(* Writer A never commits before writer B has finished, and a phase that
   returns has both, in the declared order (run_stage21_postgres_lab.py,
   _execute_concurrent_pair). *)
THEOREM PairInOrder == Spec => []WritersInOrder
<1>1. IInv => WritersInOrder
  <2> SUFFICES ASSUME IInv PROVE WritersInOrder
    OBVIOUS
  <2>1. ThreadsInv /\ PhasesInv /\ OrderInv
    BY DEF IInv
  <2>2. "writer_a" \in Range(commits) => ~Open("writer_b")
    BY <2>1 DEF ThreadsInv, Open
  <2>3. "writer_a" \in Range(commits) /\ "writer_b" \in Range(commits)
          => IndexOf("writer_b") < IndexOf("writer_a")
    BY <2>1, IndexFacts DEF OrderInv
  <2> QED
    BY <2>1, <2>2, <2>3 DEF WritersInOrder, PhasesInv
<1> QED
  BY <1>1, Invariance, PTL

(* A receipt names a boundary without gap or overlap: the workload before it
   is all in the snapshot and the slot's stream starts right after it, with
   the transaction executed first (capture_boundary, CBSNP019). *)
THEOREM BoundaryIsExact == Spec => []BoundaryExact
<1>1. IInv => BoundaryExact
  <2> SUFFICES ASSUME IInv, receipt # Null PROVE BoundaryExact
    BY DEF BoundaryExact
  <2> DEFINE n == IndexOf(Post)
             before == SubSeq(commits, 1, n - 1)
  <2>1. /\ commits \in Seq(Transactions) /\ decoded \in Seq(Transactions)
        /\ OrderInv /\ StreamInv
    BY DEF IInv, CaptureTypeOK
  <2>2. decoded # <<>> /\ decoded[1] = Post /\ n \in DOMAIN commits /\ commits[n] = Post
    BY <2>1, IndexFacts DEF StreamInv
  <2> HIDE DEF n
  <2>3. /\ n \in 1 .. Len(commits) /\ Len(before) = n - 1 /\ DOMAIN before = 1 .. n - 1
        /\ \A i \in 1 .. n - 1 : before[i] = commits[i]
    BY <2>1, <2>2
  <2>4. ASSUME NEW tx \in Pre
        PROVE  tx \in Range(before)
    <3>1. PICK k \in DOMAIN commits : k < n /\ commits[k] = tx
      BY <2>1, <2>2 DEF OrderInv
    <3>2. k \in DOMAIN before /\ before[k] = tx
      BY <2>1, <2>3, <3>1
    <3> QED
      BY <3>2 DEF Range
  <2>5. ASSUME NEW i \in DOMAIN decoded
        PROVE  decoded[i] = commits[Len(before) + i]
    <3>1. PICK k \in Nat : /\ k + Len(decoded) <= Len(commits)
                          /\ \A j \in DOMAIN decoded : decoded[j] = commits[k + j]
      BY <2>1 DEF StreamInv
    <3>2. 1 \in DOMAIN decoded /\ k + 1 \in DOMAIN commits
      BY <2>1, <2>2, <3>1
    <3>3. commits[k + 1] = commits[n]
      BY <2>2, <3>1, <3>2
    <3>4. k + 1 = n
      BY <2>1, <2>2, <3>2, <3>3 DEF OrderInv
    <3> QED
      BY <2>3, <3>1, <3>4
  <2> QED
    BY <2>2, <2>4, <2>5 DEF BoundaryExact, n
<1> QED
  BY <1>1, Invariance, PTL

(* Outside of a capture and its cleanup there is a slot only if its creation
   was not answered properly, a statement had failed on the admin connection,
   the cleanup failed or the process was killed (the try and finally clauses of
   capture_boundary), for any number of runs, processes and foreign commits. *)
THEOREM RunTakesItsSlot == Spec => []SlotGoesWithRun
<1>1. IInv => SlotGoesWithRun
  BY DEF IInv, SlotInv, SlotGoesWithRun
<1> QED
  BY <1>1, Invariance, PTL
=============================================================================
