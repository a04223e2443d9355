----------------------------- MODULE EngineProofs -----------------------------
(***************************************************************************)
(* Theorems of Engine for any source log, any generations and batches and  *)
(* any number of connections.  Inv, EngineInv with a bound on the applied  *)
(* positions, is inductive; the properties and the refinement follow.      *)
(***************************************************************************)
EXTENDS Engine, WellFoundedInduction, TLAPS

-----------------------------------------------------------------------------
(* The source's transactions. *)

LEMMA LogType ==
    ASSUME NEW t \in Log
    PROVE  t.lsn \in Nat /\ t.lsn > Start
  BY SourceAssumption DEF Transaction

LEMMA SameId == ASSUME NEW t \in Log, NEW u \in Log, t.id = u.id PROVE t = u
  BY SourceAssumption

LEMMA SameLsn == ASSUME NEW t \in Log, NEW u \in Log, t.lsn = u.lsn PROVE t = u
  BY SourceAssumption

LEMMA BatchType ==
    ASSUME NEW g \in Generations, NEW b \in Batches[g]
    PROVE  /\ b.start \in Nat /\ b.end \in Nat /\ b.start < b.end
           /\ OfSource(b) \/ Altered(b)
           /\ \A t \in Range(b.txns) : \E i \in DOMAIN b.txns : t = b.txns[i]
           /\ \A i \in DOMAIN b.txns : b.txns[i] \in Range(b.txns)
  BY BatchAssumption DEF Range

(* Transactions that a position bounds have a last one. *)
LEMMA HasLast ==
    ASSUME NEW T \in SUBSET Log, T # {}, NEW n \in Nat, \A t \in T : t.lsn <= n
    PROVE  \E t \in T : \A u \in T : u.lsn <= t.lsn
  <1> DEFINE D == {n - t.lsn : t \in T}
  <1>1. D \subseteq Nat /\ D # {}
    BY LogType
  <1>2. PICK d \in D : \A e \in D : <<e, d>> \notin OpToRel(<, Nat)
    BY <1>1, WFMin, NatLessThanWellFounded, Zenon
  <1>3. PICK t \in T : d = n - t.lsn
    BY <1>2
  <1>4. \A u \in T : ~(n - u.lsn < n - t.lsn)
    BY <1>1, <1>2, <1>3 DEF OpToRel
  <1> QED
    BY <1>4, LogType

(* It is the only one. *)
LEMMA LastIsUnique ==
    ASSUME NEW T \in SUBSET Log, NEW t \in T, NEW v \in T,
           \A u \in T : u.lsn <= t.lsn, \A u \in T : u.lsn <= v.lsn
    PROVE  t = v
  <1>1. t.lsn \in Nat /\ v.lsn \in Nat /\ t.lsn <= v.lsn /\ v.lsn <= t.lsn
    BY LogType
  <1>2. t.lsn = v.lsn
    BY <1>1
  <1> QED
    BY <1>2, SameLsn

LEMMA LastWriterIs ==
    ASSUME NEW T \in SUBSET Log, NEW k, NEW t \in Writers(T, k),
           \A u \in Writers(T, k) : u.lsn <= t.lsn
    PROVE  LastWriter(T, k) = t
  <1>1. Writers(T, k) \in SUBSET Log
    BY DEF Writers
  <1>2. \A v \in Writers(T, k) : (\A u \in Writers(T, k) : u.lsn <= v.lsn) => v = t
    BY <1>1, LastIsUnique
  <1> QED
    BY <1>2 DEF LastWriter

(* Of transactions that a position bounds, the last writer of a key is one of
   them and none that wrote the key comes after it. *)
LEMMA LastWriterType ==
    ASSUME NEW T \in SUBSET Log, NEW n \in Nat, \A t \in T : t.lsn <= n,
           NEW k, Writers(T, k) # {}
    PROVE  /\ LastWriter(T, k) \in Writers(T, k)
           /\ \A u \in Writers(T, k) : u.lsn <= LastWriter(T, k).lsn
  <1>1. Writers(T, k) \in SUBSET Log /\ \A t \in Writers(T, k) : t.lsn <= n
    BY DEF Writers
  <1>2. \E t \in Writers(T, k) : \A u \in Writers(T, k) : u.lsn <= t.lsn
    BY <1>1, HasLast
  <1> QED
    BY <1>2 DEF LastWriter

(* Writing a later group over the rows of an earlier one is writing both. *)
LEMMA WrittenInTurn ==
    ASSUME NEW rows \in [Keys -> Record \cup {Null}],
           NEW S \in SUBSET Log, NEW T \in SUBSET Log, NEW n \in Nat,
           \A t \in T : t.lsn <= n,
           \A s \in S, t \in T : s.lsn < t.lsn
    PROVE  Written(Written(rows, S), T) = Written(rows, S \cup T)
  <1> SUFFICES ASSUME NEW k \in Keys
               PROVE  Written(Written(rows, S), T)[k] = Written(rows, S \cup T)[k]
    BY DEF Written
  <1>1. Writers(S \cup T, k) = Writers(S, k) \cup Writers(T, k)
    BY DEF Writers
  <1>2. CASE Writers(T, k) = {}
    BY <1>1, <1>2 DEF Written, LastWriter
  <1>3. CASE Writers(T, k) # {}
    <2>1. PICK t \in Writers(T, k) : \A u \in Writers(T, k) : u.lsn <= t.lsn
      BY <1>3, LastWriterType
    <2>2. LastWriter(T, k) = t
      BY <2>1, LastWriterIs
    <2>3. \A u \in Writers(S, k) : u.lsn <= t.lsn
      <3>1. t \in T /\ \A u \in Writers(S, k) : u \in S
        BY DEF Writers
      <3>2. \A u \in Writers(S, k) : u.lsn \in Nat /\ t.lsn \in Nat /\ u.lsn < t.lsn
        BY <3>1, LogType
      <3> QED
        BY <3>2
    <2>4. LastWriter(S \cup T, k) = t
      BY <1>1, <2>1, <2>3, LastWriterIs
    <2> QED
      BY <1>1, <1>3, <2>2, <2>4 DEF Written
  <1> QED
    BY <1>2, <1>3

LEMMA WrittenNothing ==
    ASSUME NEW rows \in [Keys -> Record \cup {Null}]
    PROVE  Written(rows, {}) = rows
  BY DEF Written, Writers

(* Rows that were written are rows, and none of them goes away. *)
LEMMA WrittenType ==
    ASSUME NEW rows \in [Keys -> Record \cup {Null}], NEW T \in SUBSET Log,
           NEW n \in Nat, \A t \in T : t.lsn <= n
    PROVE  /\ Written(rows, T) \in [Keys -> Record \cup {Null}]
           /\ \A k \in Keys : rows[k] # Null => Written(rows, T)[k] # Null
  <1> SUFFICES ASSUME NEW k \in Keys
               PROVE  /\ Written(rows, T)[k] \in Record \cup {Null}
                      /\ rows[k] # Null => Written(rows, T)[k] # Null
    BY DEF Written
  <1>1. CASE Writers(T, k) = {}
    BY <1>1 DEF Written
  <1>2. CASE Writers(T, k) # {}
    <2> DEFINE t == LastWriter(T, k)
    <2>1. t \in Log /\ k \in DOMAIN t.writes
      BY <1>2, LastWriterType DEF Writers
    <2>2. t.writes[k] \in Values \cup {Null} /\ t.lsn \in Nat
      BY <2>1, SourceAssumption DEF Transaction
    <2>3. Written(rows, T)[k] = [value |-> t.writes[k], lsn |-> t.lsn]
      BY <1>2 DEF Written
    <2>4. Written(rows, T)[k] \in Record
      BY <2>2, <2>3 DEF Record
    <2> QED
      BY <2>4, SourceAssumption
  <1> QED
    BY <1>1, <1>2

LEMMA BaseType ==
    /\ Base \in [Keys -> Record \cup {Null}]
    /\ \A k \in Loaded : Base[k] # Null
    /\ Loaded \subseteq Keys
  <1>1. \A k \in Loaded : [value |-> Snapshot[k], lsn |-> Start] \in Record
    BY SourceAssumption DEF Loaded, Record
  <1> QED
    BY <1>1, SourceAssumption DEF Base, Loaded

-----------------------------------------------------------------------------
(* The inductive invariant, and its parts that are about the database. *)

Bounded == \A g \in Generations : \E n \in Nat : \A t \in transactions[g] : t.lsn <= n
Inv == EngineInv /\ Bounded

DatabaseSound == RowsTrackTransactions /\ ActiveIsReady /\ NothingBeforeLoad /\ Bounded

LEMMA NoJobType == NoJob \in Job
  BY DEF NoJob, Job

LEMMA InitInv == Init => Inv
  <1> SUFFICES ASSUME Init PROVE Inv
    OBVIOUS
  <1>1. EngineTypeOK
    BY NoJobType, SourceAssumption DEF Init, EngineTypeOK, Statuses, Labels
  <1>2. RowsTrackTransactions
    <2>1. \A t \in Log : ~(t.lsn <= 0)
      BY LogType, SourceAssumption
    <2> QED
      BY <2>1 DEF Init, RowsTrackTransactions, Applying
  <1>3. ActiveIsReady /\ NothingBeforeLoad
    BY DEF Init, ActiveIsReady, NothingBeforeLoad
  <1>4. Bounded
    BY DEF Init, Bounded
  <1>5. OneCall /\ \A c \in Connections : ConnectionSound(c)
    BY DEF Init, ConnectionSound, OneCall
  <1> QED
    BY <1>1, <1>2, <1>3, <1>4, <1>5 DEF Inv, EngineInv

(* Moving a connection. *)
LEMMA GotoType ==
    ASSUME EngineTypeOK, NEW c \in Connections, NEW l \in Labels, NEW j \in Job, Goto(c, l, j)
    PROVE  /\ pc' \in [Connections -> Labels] /\ job' \in [Connections -> Job]
           /\ alone' = alone /\ alone' \in BOOLEAN /\ pc'[c] = l
           /\ l # "idle" => job'[c] = j
           /\ \A d \in Connections \ {c} : pc'[d] = pc[d] /\ job'[d] = job[d]
  BY NoJobType DEF Goto, EngineTypeOK

LEMMA LeaveType ==
    ASSUME EngineTypeOK, NEW c \in Connections, Leave(c)
    PROVE  /\ pc' \in [Connections -> Labels] /\ job' \in [Connections -> Job]
           /\ alone' = alone /\ alone' \in BOOLEAN /\ pc'[c] = "idle"
           /\ \A d \in Connections \ {c} : pc'[d] = pc[d] /\ job'[d] = job[d]
  BY GotoType, NoJobType DEF Leave, Labels

(* A connection in a call, or one that may begin it. *)
Acts(c) == pc[c] # "idle" \/ Free(c)

LEMMA OthersIdle ==
    ASSUME Inv, NEW c \in Connections, Acts(c), alone
    PROVE  \A d \in Connections \ {c} : pc[d] = "idle"
  BY DEF Inv, EngineInv, OneCall, Acts, Free

LEMMA OneCallStays ==
    ASSUME Inv, NEW c \in Connections, Acts(c), alone' = alone,
           \A d \in Connections \ {c} : pc'[d] = pc[d]
    PROVE  OneCall'
  BY OthersIdle DEF OneCall

(* Statuses only advance and nothing applied is taken back. *)
Advances ==
    \A g \in Generations :
        /\ transactions[g] \subseteq transactions'[g]
        /\ generation[g].status # "NO_ROW" => generation'[g].status # "NO_ROW"
        /\ generation[g].status \in Applying => generation'[g].status \in Applying
        /\ LateLoadFails /\ generation[g].status = "ready" =>
             generation'[g].status = "ready"

(* What another connection has read stays good. *)
LEMMA OthersSound ==
    ASSUME NEW d \in Connections, ConnectionSound(d), Advances,
           pc'[d] = pc[d], job'[d] = job[d],
           alone' = alone, alone => pc[d] = "idle"
    PROVE  ConnectionSound(d)'
  <1> DEFINE g == job[d].generation
  <1>1. CASE pc[d] = "idle"
    BY <1>1 DEF ConnectionSound
  <1>2. CASE pc[d] # "idle"
    <2>1. g \in Generations
      BY <1>2 DEF ConnectionSound
    <2>2. /\ transactions[g] \subseteq transactions'[g]
          /\ generation[g].status # "NO_ROW" => generation'[g].status # "NO_ROW"
          /\ generation[g].status \in Applying => generation'[g].status \in Applying
          /\ LateLoadFails /\ generation[g].status = "ready" =>
               generation'[g].status = "ready"
      BY <2>1 DEF Advances
    <2>3. ~alone /\ LateLoadFails' = LateLoadFails
      BY <1>2 DEF LateLoadFails
    <2> QED
      BY <2>1, <2>2, <2>3 DEF ConnectionSound
  <1> QED
    BY <1>1, <1>2

LEMMA SameDatabase ==
    ASSUME Inv, UNCHANGED database, alone' = alone
    PROVE  DatabaseSound' /\ Advances
  <1>1. DatabaseSound'
    BY DEF Inv, EngineInv, DatabaseSound, RowsTrackTransactions, ActiveIsReady,
           LateLoadFails, NothingBeforeLoad, Bounded, database
  <1>2. Advances
    BY DEF Advances, database
  <1> QED
    BY <1>1, <1>2

(* A step that only moves a connection keeps the invariant, if what the
   connection takes along is good. *)
LEMMA MoveStep ==
    ASSUME Inv, UNCHANGED database, NEW c \in Connections, Acts(c),
           NEW l \in Labels, NEW j \in Job, Goto(c, l, j),
           ConnectionSound(c)'
    PROVE  Inv'
  <1>1. EngineTypeOK'
    <2>1. EngineTypeOK
      BY DEF Inv, EngineInv
    <2> QED
      BY <2>1, GotoType DEF EngineTypeOK, database
  <1>2. alone' = alone /\ \A d \in Connections \ {c} : pc'[d] = pc[d] /\ job'[d] = job[d]
    BY GotoType DEF Inv, EngineInv
  <1>3. DatabaseSound' /\ Advances
    BY <1>2, SameDatabase
  <1>4. \A d \in Connections \ {c} : ConnectionSound(d)'
    BY <1>2, <1>3, OthersSound, OthersIdle DEF Inv, EngineInv
  <1>5. OneCall'
    BY <1>2, OneCallStays
  <1> QED
    BY <1>1, <1>3, <1>4, <1>5 DEF Inv, EngineInv, DatabaseSound

LEMMA LeaveStep ==
    ASSUME Inv, UNCHANGED database, NEW c \in Connections, Acts(c), Leave(c)
    PROVE  Inv'
  <1>1. pc'[c] = "idle"
    BY LeaveType DEF Inv, EngineInv
  <1>2. ConnectionSound(c)'
    BY <1>1 DEF ConnectionSound
  <1> QED
    BY <1>2, MoveStep, NoJobType DEF Leave, Labels

(* The same for a step that writes the database and ends the call. *)
LEMMA WriteStep ==
    ASSUME Inv, EngineTypeOK', DatabaseSound', Advances,
           NEW c \in Connections, Acts(c), Leave(c)
    PROVE  Inv'
  <1>1. /\ pc'[c] = "idle" /\ alone' = alone
        /\ \A d \in Connections \ {c} : pc'[d] = pc[d] /\ job'[d] = job[d]
    BY LeaveType DEF Inv, EngineInv
  <1>2. ConnectionSound(c)'
    BY <1>1 DEF ConnectionSound
  <1>3. \A d \in Connections \ {c} : ConnectionSound(d)'
    BY <1>1, OthersSound, OthersIdle DEF Inv, EngineInv
  <1>4. OneCall'
    BY <1>1, OneCallStays
  <1> QED
    BY <1>2, <1>3, <1>4 DEF Inv, EngineInv, DatabaseSound

-----------------------------------------------------------------------------
(* Applying a batch. *)

Applies(c) ==
    ~(Conflict(job[c].generation, job[c].batch)
      \/ \E a \in batches[job[c].generation] : a.id = job[c].batch.id)

(* A batch that is applied is the source's own, adds its transactions to what
   is applied and none of those it adds is before one that was there. *)
LEMMA CommitFacts ==
    ASSUME Inv, NEW c \in Connections, pc[c] = "commit", Applies(c),
           NEW g, NEW b, g = job[c].generation, b = job[c].batch
    PROVE  /\ g \in Generations /\ b \in Batches[g] /\ b.end \in Nat
           /\ generation[g].status \in Applying
           /\ Range(b.txns) \subseteq Log
           /\ Fresh(g, b) \subseteq Range(b.txns)
           /\ \A t \in Fresh(g, b) : t.lsn <= b.end
           /\ \A s \in transactions[g], t \in Fresh(g, b) : s.lsn < t.lsn
           /\ transactions[g] \cup Fresh(g, b) = transactions[g] \cup Range(b.txns)
           /\ \A t \in Log : t.lsn <= b.end => t \in transactions[g] \cup Fresh(g, b)
  <1>1. /\ g \in Generations /\ b \in Batches[g] /\ generation[g].status \in Applying
        /\ \A t \in Log : t.lsn <= b.start => t \in transactions[g]
        /\ Ordered(b)
    BY DEF Inv, EngineInv, ConnectionSound, FromFrontier
  <1>2. /\ b.start \in Nat /\ b.end \in Nat /\ b.start < b.end
        /\ OfSource(b) \/ Altered(b)
        /\ \A t \in Range(b.txns) : \E i \in DOMAIN b.txns : t = b.txns[i]
        /\ \A i \in DOMAIN b.txns : b.txns[i] \in Range(b.txns)
    BY <1>1, BatchType
  <1>3. transactions[g] \subseteq Log
    BY <1>1 DEF Inv, EngineInv, EngineTypeOK
  <1>4. ~Altered(b)
    <2> SUFFICES ASSUME NEW t \in Range(b.txns), NEW u \in Log,
                        t.id = u.id, t # u, u.lsn <= b.start
                 PROVE  FALSE
      BY DEF Altered
    <2>1. u \in transactions[g]
      BY <1>1
    <2>2. Conflict(g, b)
      BY <1>2, <2>1 DEF Conflict
    <2> QED
      BY <2>2 DEF Applies
  <1>5. Range(b.txns) = {t \in Log : b.start < t.lsn /\ t.lsn <= b.end}
    BY <1>2, <1>4 DEF OfSource
  <1>6. transactions[g] \cup Fresh(g, b) = transactions[g] \cup Range(b.txns)
    BY <1>3, <1>5, SameId DEF Fresh
  <1>7. \A s \in transactions[g], t \in Fresh(g, b) : s.lsn < t.lsn
    <2> SUFFICES ASSUME NEW s \in transactions[g], NEW t \in Fresh(g, b), ~(s.lsn < t.lsn)
                 PROVE  FALSE
      OBVIOUS
    <2>1. s \in Log /\ t \in Log
      BY <1>3, <1>5 DEF Fresh
    <2>2. t.lsn <= s.lsn
      BY <2>1, LogType
    <2>3. t \in transactions[g]
      BY <1>1, <2>1, <2>2 DEF Inv, EngineInv, RowsTrackTransactions
    <2> QED
      BY <2>3 DEF Fresh
  <1>8. \A t \in Log : t.lsn <= b.end => t \in transactions[g] \cup Range(b.txns)
    BY <1>1, <1>2, <1>5, LogType
  <1> QED
    BY <1>1, <1>2, <1>5, <1>6, <1>7, <1>8 DEF Fresh

LEMMA CommitStep == ASSUME Inv, NEW c \in Connections, CommitBatch(c) PROVE Inv'
  <1> DEFINE g == job[c].generation
             b == job[c].batch
  <1>1. CASE ~Applies(c)
    <2>1. UNCHANGED database
      BY <1>1 DEF CommitBatch, Applies, database
    <2> QED
      BY <2>1, LeaveStep DEF CommitBatch, Acts
  <1>2. CASE Applies(c)
    <2>1. /\ records' = [records EXCEPT ![g] = Written(@, Fresh(g, b))]
          /\ transactions' = [transactions EXCEPT ![g] = @ \cup Fresh(g, b)]
          /\ batches' = [batches EXCEPT ![g] = @ \cup {b}]
          /\ generation' = [generation EXCEPT ![g].lsn = b.end]
          /\ Leave(c) /\ pointer' = pointer /\ pc[c] = "commit"
      BY <1>2 DEF CommitBatch, Applies
    <2>2. /\ g \in Generations /\ b \in Batches[g] /\ b.end \in Nat
          /\ generation[g].status \in Applying
          /\ Range(b.txns) \subseteq Log
          /\ Fresh(g, b) \subseteq Range(b.txns)
          /\ \A t \in Fresh(g, b) : t.lsn <= b.end
          /\ \A s \in transactions[g], t \in Fresh(g, b) : s.lsn < t.lsn
          /\ transactions[g] \cup Fresh(g, b) = transactions[g] \cup Range(b.txns)
          /\ \A t \in Log : t.lsn <= b.end => t \in transactions[g] \cup Fresh(g, b)
      BY <1>2, <2>1, CommitFacts
    <2>3. Fresh(g, b) \in SUBSET Log
      BY <2>2
    <2>4. /\ EngineTypeOK /\ records[g] \in [Keys -> Record \cup {Null}]
          /\ transactions[g] \in SUBSET Log
      BY <2>2 DEF Inv, EngineInv, EngineTypeOK
    <2>5. Written(records[g], Fresh(g, b)) \in [Keys -> Record \cup {Null}]
      BY <2>2, <2>3, <2>4, WrittenType
    <2>6. EngineTypeOK'
      <3>1. /\ pc' \in [Connections -> Labels] /\ job' \in [Connections -> Job]
            /\ alone' \in BOOLEAN
        BY <2>1, <2>4, LeaveType
      <3>2. generation' \in [Generations -> [status : Statuses, lsn : Nat]]
        BY <2>1, <2>2, <2>4 DEF EngineTypeOK
      <3>3. records' \in [Generations -> [Keys -> Record \cup {Null}]]
        BY <2>1, <2>4, <2>5 DEF EngineTypeOK
      <3>4. transactions' \in [Generations -> SUBSET Log]
        BY <2>1, <2>3, <2>4 DEF EngineTypeOK
      <3>5. batches' \in [Generations -> SUBSET UNION {Batches[h] : h \in Generations}]
        BY <2>1, <2>2, <2>4 DEF EngineTypeOK
      <3>6. pointer' \in [generation : Generations \cup {Null}, version : 0 .. MaxVersion]
        BY <2>1, <2>4 DEF EngineTypeOK
      <3> QED
        BY <3>1, <3>2, <3>3, <3>4, <3>5, <3>6 DEF EngineTypeOK
    <2>7. /\ transactions'[g] = transactions[g] \cup Fresh(g, b)
          /\ records'[g] = Written(records[g], Fresh(g, b))
          /\ batches'[g] = batches[g] \cup {b}
          /\ generation'[g].lsn = b.end
          /\ generation'[g].status = generation[g].status
          /\ \A h \in Generations \ {g} :
               /\ transactions'[h] = transactions[h] /\ records'[h] = records[h]
               /\ batches'[h] = batches[h] /\ generation'[h] = generation[h]
      BY <2>1, <2>2, <2>4 DEF EngineTypeOK
    <2>8. RowsTrackTransactions'
      <3> SUFFICES ASSUME NEW h \in Generations
                   PROVE  /\ \A a \in batches'[h] : Range(a.txns) \subseteq transactions'[h]
                          /\ \A t \in Log : t.lsn <= generation'[h].lsn => t \in transactions'[h]
                          /\ \A t \in transactions'[h], u \in Log :
                               u.lsn <= t.lsn => u \in transactions'[h]
                          /\ generation'[h].status \in Applying =>
                               records'[h] = Written(Base, transactions'[h])
        BY DEF RowsTrackTransactions
      <3>1. CASE h # g
        BY <2>7, <3>1 DEF Inv, EngineInv, RowsTrackTransactions
      <3>2. CASE h = g
        <4>1. \A a \in batches'[g] : Range(a.txns) \subseteq transactions'[g]
          BY <2>2, <2>7 DEF Inv, EngineInv, RowsTrackTransactions
        <4>2. \A t \in Log : t.lsn <= generation'[g].lsn => t \in transactions'[g]
          BY <2>2, <2>7
        <4>3. \A t \in transactions'[g], u \in Log : u.lsn <= t.lsn => u \in transactions'[g]
          <5> SUFFICES ASSUME NEW t \in transactions'[g], NEW u \in Log, u.lsn <= t.lsn
                       PROVE  u \in transactions'[g]
            OBVIOUS
          <5>1. CASE t \in transactions[g]
            BY <2>2, <2>7, <5>1 DEF Inv, EngineInv, RowsTrackTransactions
          <5>2. CASE t \in Fresh(g, b)
            <6>1. t.lsn <= b.end /\ t.lsn \in Nat /\ u.lsn \in Nat /\ b.end \in Nat
              BY <2>2, <2>3, <5>2, LogType
            <6>2. u.lsn <= b.end
              BY <6>1
            <6> QED
              BY <2>2, <2>7, <6>2
          <5> QED
            BY <2>7, <5>1, <5>2
        <4>4. records'[g] = Written(Base, transactions'[g])
          <5>1. records[g] = Written(Base, transactions[g])
            BY <2>2 DEF Inv, EngineInv, RowsTrackTransactions
          <5>2. Written(Written(Base, transactions[g]), Fresh(g, b))
                  = Written(Base, transactions[g] \cup Fresh(g, b))
            BY <2>2, <2>3, <2>4, BaseType, WrittenInTurn
          <5> QED
            BY <2>7, <5>1, <5>2
        <4> QED
          BY <3>2, <4>1, <4>2, <4>3, <4>4
      <3> QED
        BY <3>1, <3>2
    <2>9. ActiveIsReady'
      <3>1. alone' = alone
        BY <2>1, <2>4, LeaveType
      <3> QED
        BY <2>1, <2>4, <2>7, <3>1 DEF Inv, EngineInv, ActiveIsReady, LateLoadFails, EngineTypeOK
    <2>10. NothingBeforeLoad'
      BY <2>2, <2>7 DEF Inv, EngineInv, NothingBeforeLoad
    <2>11. Bounded'
      <3> SUFFICES ASSUME NEW h \in Generations
                   PROVE  \E n \in Nat : \A t \in transactions'[h] : t.lsn <= n
        BY DEF Bounded
      <3>1. PICK n \in Nat : \A t \in transactions[h] : t.lsn <= n
        BY DEF Inv, Bounded
      <3>2. CASE h # g
        BY <2>7, <3>1, <3>2
      <3>3. CASE h = g
        <4>1. \A t \in transactions'[g] : t.lsn <= n + b.end
          <5> SUFFICES ASSUME NEW t \in transactions'[g] PROVE t.lsn <= n + b.end
            OBVIOUS
          <5>1. t \in Log /\ (t.lsn <= n \/ t.lsn <= b.end)
            BY <2>2, <2>3, <2>4, <2>7, <3>1, <3>3
          <5> QED
            BY <2>2, <5>1, LogType
        <4> QED
          BY <2>2, <3>3, <4>1
      <3> QED
        BY <3>2, <3>3
    <2>12. Advances
      BY <2>7 DEF Advances
    <2> QED
      BY <2>1, <2>6, <2>8, <2>9, <2>10, <2>11, <2>12, WriteStep DEF DatabaseSound, Acts
  <1> QED
    BY <1>1, <1>2

-----------------------------------------------------------------------------
(* The other writes. *)

(* A generation that has its snapshot keeps the snapshot's rows. *)
LEMMA LoadedStays ==
    ASSUME Inv, NEW g \in Generations, generation[g].status \in Applying, Loaded # {}
    PROVE  RecordsOf(g) \cap Loaded # {}
  <1>1. PICK n \in Nat : \A t \in transactions[g] : t.lsn <= n
    BY DEF Inv, Bounded
  <1>2. transactions[g] \in SUBSET Log /\ records[g] = Written(Base, transactions[g])
    BY DEF Inv, EngineInv, EngineTypeOK, RowsTrackTransactions
  <1>3. \A k \in Loaded : records[g][k] # Null
    BY <1>1, <1>2, BaseType, WrittenType
  <1> QED
    BY <1>3, BaseType DEF RecordsOf

LEMMA CreateStep ==
    ASSUME Inv, NEW c \in Connections, NEW g \in Generations, CreateGeneration(c, g)
    PROVE  Inv'
  <1>1. /\ generation[g].status = "NO_ROW"
        /\ generation' = [generation EXCEPT ![g] = [status |-> "loading", lsn |-> Start]]
        /\ UNCHANGED <<alone, records, transactions, batches, pointer, pc, job>>
    BY DEF CreateGeneration
  <1>2. EngineTypeOK
    BY DEF Inv, EngineInv
  <1>3. /\ generation'[g] = [status |-> "loading", lsn |-> Start]
        /\ \A h \in Generations \ {g} : generation'[h] = generation[h]
        /\ generation[g].status \notin Applying /\ generation'[g].status \notin Applying
    BY <1>1, <1>2 DEF EngineTypeOK, Applying
  <1>4. EngineTypeOK'
    BY <1>1, <1>2, SourceAssumption DEF EngineTypeOK, Statuses
  <1>5. RowsTrackTransactions'
    <2> SUFFICES ASSUME NEW h \in Generations
                 PROVE  /\ \A a \in batches'[h] : Range(a.txns) \subseteq transactions'[h]
                        /\ \A t \in Log : t.lsn <= generation'[h].lsn => t \in transactions'[h]
                        /\ \A t \in transactions'[h], u \in Log :
                             u.lsn <= t.lsn => u \in transactions'[h]
                        /\ generation'[h].status \in Applying =>
                             records'[h] = Written(Base, transactions'[h])
      BY DEF RowsTrackTransactions
    <2>1. CASE h # g
      BY <1>1, <1>3, <2>1 DEF Inv, EngineInv, RowsTrackTransactions
    <2>2. CASE h = g
      <3>1. \A t \in Log : ~(t.lsn <= Start)
        BY LogType, SourceAssumption
      <3> QED
        BY <1>1, <1>3, <2>2, <3>1 DEF Inv, EngineInv, RowsTrackTransactions
    <2> QED
      BY <2>1, <2>2
  <1>6. ActiveIsReady'
    BY <1>1, <1>2, <1>3 DEF Inv, EngineInv, ActiveIsReady, LateLoadFails, EngineTypeOK
  <1>7. NothingBeforeLoad'
    BY <1>1, <1>3 DEF Inv, EngineInv, NothingBeforeLoad
  <1>8. Bounded'
    BY <1>1 DEF Inv, Bounded
  <1>9. Advances
    BY <1>1, <1>3 DEF Advances, Applying
  <1>10. alone => \A d \in Connections : pc[d] = "idle"
    BY DEF CreateGeneration, Free
  <1>11. \A d \in Connections : ConnectionSound(d)'
    BY <1>1, <1>9, <1>10, OthersSound DEF Inv, EngineInv
  <1>12. OneCall'
    BY <1>1 DEF Inv, EngineInv, OneCall
  <1> QED
    BY <1>4, <1>5, <1>6, <1>7, <1>8, <1>11, <1>12 DEF Inv, EngineInv

LEMMA InsertStep == ASSUME Inv, NEW c \in Connections, InsertSnapshot(c) PROVE Inv'
  <1> DEFINE g == job[c].generation
  <1>1. /\ g \in Generations /\ generation[g].status # "NO_ROW" /\ EngineTypeOK
        /\ alone => generation[g].status = "loading"
        /\ Acts(c) /\ Leave(c) /\ UNCHANGED <<transactions, batches, pointer>>
        /\ alone' = alone
    BY DEF InsertSnapshot, Inv, EngineInv, ConnectionSound, Acts, Leave, Goto
  <1>2. CASE RecordsOf(g) \cap Loaded # {}
    <2>1. UNCHANGED database
      BY <1>2 DEF InsertSnapshot, database
    <2> QED
      BY <1>1, <2>1, LeaveStep
  <1>3. CASE RecordsOf(g) \cap Loaded = {} /\ generation[g].status \in Applying
    <2>1. Loaded = {} /\ ~alone /\ ~LateLoadFails /\ ~LateLoadFails'
      BY <1>1, <1>3, LoadedStays DEF Applying, LateLoadFails
    <2>2. generation' = [generation EXCEPT ![g].status = "candidate"]
      BY <1>3 DEF InsertSnapshot, SetStatus
    <2>3. records' = records
      <3>1. records' = [records EXCEPT ![g] = [k \in Keys |->
                  IF k \in Loaded THEN [value |-> Snapshot[k], lsn |-> Start] ELSE @[k]]]
        BY <1>3 DEF InsertSnapshot
      <3>2. records[g] = [k \in Keys |-> records[g][k]]
        BY <1>1 DEF EngineTypeOK
      <3>3. records' = [records EXCEPT ![g] = [k \in Keys |-> records[g][k]]]
        BY <2>1, <3>1
      <3> QED
        BY <1>1, <3>2, <3>3 DEF EngineTypeOK
    <2>4. /\ generation'[g].status = "candidate" /\ generation'[g].lsn = generation[g].lsn
          /\ \A h \in Generations \ {g} : generation'[h] = generation[h]
      BY <1>1, <2>2 DEF EngineTypeOK
    <2>5. EngineTypeOK'
      <3>1. pc' \in [Connections -> Labels] /\ job' \in [Connections -> Job]
        BY <1>1, LeaveType
      <3> QED
        BY <1>1, <2>2, <2>3, <3>1 DEF EngineTypeOK, Statuses
    <2>6. RowsTrackTransactions'
      BY <1>1, <1>3, <2>3, <2>4 DEF Inv, EngineInv, RowsTrackTransactions
    <2>7. ActiveIsReady'
      BY <2>1 DEF ActiveIsReady
    <2>8. NothingBeforeLoad' /\ Bounded'
      BY <1>1, <2>3, <2>4 DEF Inv, EngineInv, NothingBeforeLoad, Bounded, Applying
    <2>9. Advances
      BY <1>1, <2>1, <2>4 DEF Advances, Applying
    <2> QED
      BY <1>1, <2>5, <2>6, <2>7, <2>8, <2>9, WriteStep DEF DatabaseSound
  <1>4. CASE RecordsOf(g) \cap Loaded = {} /\ generation[g].status \notin Applying
    <2>1. /\ generation[g].status \notin Applying
          /\ transactions[g] = {} /\ batches[g] = {}
          /\ records[g] = [k \in Keys |-> Null]
          /\ generation[g].lsn \in {0, Start}
      BY <1>1, <1>4 DEF Inv, EngineInv, NothingBeforeLoad
    <2>2. /\ records' = [records EXCEPT ![g] = [k \in Keys |->
                  IF k \in Loaded THEN [value |-> Snapshot[k], lsn |-> Start] ELSE @[k]]]
          /\ generation' = [generation EXCEPT ![g].status = "candidate"]
      BY <1>4 DEF InsertSnapshot, SetStatus
    <2>3. records'[g] = Base
      BY <1>1, <2>1, <2>2 DEF EngineTypeOK, Base
    <2>4. /\ generation'[g].status = "candidate" /\ generation'[g].lsn = generation[g].lsn
          /\ \A h \in Generations \ {g} :
               generation'[h] = generation[h] /\ records'[h] = records[h]
      BY <1>1, <2>2 DEF EngineTypeOK
    <2>5. EngineTypeOK'
      <3>1. /\ pc' \in [Connections -> Labels] /\ job' \in [Connections -> Job]
            /\ alone' \in BOOLEAN
        BY <1>1, LeaveType
      <3>2. generation' \in [Generations -> [status : Statuses, lsn : Nat]]
        BY <1>1, <2>2 DEF EngineTypeOK, Statuses
      <3>3. records' \in [Generations -> [Keys -> Record \cup {Null}]]
        BY <1>1, <2>2, <2>3, BaseType DEF EngineTypeOK
      <3> QED
        BY <1>1, <3>1, <3>2, <3>3 DEF EngineTypeOK
    <2>6. RowsTrackTransactions'
      <3> SUFFICES ASSUME NEW h \in Generations
                   PROVE  /\ \A a \in batches'[h] : Range(a.txns) \subseteq transactions'[h]
                          /\ \A t \in Log : t.lsn <= generation'[h].lsn => t \in transactions'[h]
                          /\ \A t \in transactions'[h], u \in Log :
                               u.lsn <= t.lsn => u \in transactions'[h]
                          /\ generation'[h].status \in Applying =>
                               records'[h] = Written(Base, transactions'[h])
        BY DEF RowsTrackTransactions
      <3>1. CASE h # g
        BY <1>1, <2>4, <3>1 DEF Inv, EngineInv, RowsTrackTransactions
      <3>2. CASE h = g
        <4>1. records'[g] = Written(Base, transactions'[g])
          BY <1>1, <2>1, <2>3, BaseType, WrittenNothing
        <4> QED
          BY <1>1, <2>4, <3>2, <4>1 DEF Inv, EngineInv, RowsTrackTransactions
      <3> QED
        BY <3>1, <3>2
    <2>7. ActiveIsReady'
      <3>1. LateLoadFails => pointer.generation # g
        BY <1>1, <2>1, SourceAssumption DEF Inv, EngineInv, ActiveIsReady, Applying
      <3> QED
        BY <1>1, <2>4, <3>1 DEF Inv, EngineInv, ActiveIsReady, LateLoadFails, EngineTypeOK
    <2>8. NothingBeforeLoad'
      BY <1>1, <2>4 DEF Inv, EngineInv, NothingBeforeLoad, Applying
    <2>9. Bounded'
      BY <1>1 DEF Inv, Bounded
    <2>10. Advances
      BY <1>1, <2>1, <2>4 DEF Advances, Applying
    <2> QED
      BY <1>1, <2>5, <2>6, <2>7, <2>8, <2>9, <2>10, WriteStep DEF DatabaseSound
  <1> QED
    BY <1>2, <1>3, <1>4

LEMMA MarkStep == ASSUME Inv, NEW c \in Connections, MarkReady(c) PROVE Inv'
  <1> DEFINE g == job[c].generation
  <1>1. /\ g \in Generations /\ generation[g].status \in Applying /\ EngineTypeOK
        /\ job[c] \in Job /\ job[c].version < MaxVersion
        /\ generation' = [generation EXCEPT ![g].status = "ready"]
        /\ Goto(c, "marked", job[c]) /\ UNCHANGED <<records, transactions, batches, pointer>>
        /\ Acts(c)
    BY DEF MarkReady, SetStatus, Inv, EngineInv, ConnectionSound, EngineTypeOK, Acts
  <1>2. /\ generation'[g].status = "ready" /\ generation'[g].lsn = generation[g].lsn
        /\ \A h \in Generations \ {g} : generation'[h] = generation[h]
    BY <1>1 DEF EngineTypeOK
  <1>3. /\ pc' \in [Connections -> Labels] /\ job' \in [Connections -> Job]
        /\ alone' = alone /\ alone' \in BOOLEAN /\ pc'[c] = "marked" /\ job'[c] = job[c]
        /\ \A d \in Connections \ {c} : pc'[d] = pc[d] /\ job'[d] = job[d]
    BY <1>1, GotoType DEF Labels
  <1>4. EngineTypeOK'
    BY <1>1, <1>3 DEF EngineTypeOK, Statuses
  <1>5. RowsTrackTransactions'
    <2> SUFFICES ASSUME NEW h \in Generations
                 PROVE  /\ \A a \in batches'[h] : Range(a.txns) \subseteq transactions'[h]
                        /\ \A t \in Log : t.lsn <= generation'[h].lsn => t \in transactions'[h]
                        /\ \A t \in transactions'[h], u \in Log :
                             u.lsn <= t.lsn => u \in transactions'[h]
                        /\ generation'[h].status \in Applying =>
                             records'[h] = Written(Base, transactions'[h])
      BY DEF RowsTrackTransactions
    <2>1. generation[h].lsn = generation'[h].lsn
          /\ (generation'[h].status \in Applying => generation[h].status \in Applying)
      BY <1>1, <1>2
    <2> QED
      BY <1>1, <2>1 DEF Inv, EngineInv, RowsTrackTransactions
  <1>6. ActiveIsReady'
    BY <1>1, <1>2, <1>3 DEF Inv, EngineInv, ActiveIsReady, LateLoadFails, EngineTypeOK
  <1>7. NothingBeforeLoad'
    BY <1>1, <1>2 DEF Inv, EngineInv, NothingBeforeLoad, Applying
  <1>8. Bounded'
    BY <1>1 DEF Inv, Bounded
  <1>9. Advances
    BY <1>1, <1>2 DEF Advances, Applying
  <1>10. ConnectionSound(c)'
    BY <1>1, <1>3 DEF ConnectionSound
  <1>11. \A d \in Connections \ {c} : ConnectionSound(d)'
    BY <1>1, <1>3, <1>9, OthersSound, OthersIdle DEF Inv, EngineInv
  <1>12. OneCall'
    BY <1>1, <1>3, OneCallStays
  <1> QED
    BY <1>4, <1>5, <1>6, <1>7, <1>8, <1>10, <1>11, <1>12 DEF Inv, EngineInv

LEMMA ActivateStep == ASSUME Inv, NEW c \in Connections, Activate(c) PROVE Inv'
  <1> DEFINE g == job[c].generation
  <1>1. /\ g \in Generations /\ (LateLoadFails => generation[g].status = "ready")
        /\ EngineTypeOK /\ Acts(c)
        /\ job[c] \in Job /\ job[c].version < MaxVersion
        /\ pointer' = IF pointer.version = job[c].version
                        THEN [generation |-> g, version |-> pointer.version + 1]
                        ELSE pointer
        /\ Leave(c) /\ UNCHANGED <<generation, records, transactions, batches>>
    BY DEF Activate, Inv, EngineInv, ConnectionSound, EngineTypeOK, Acts
  <1>2. pointer' \in [generation : Generations \cup {Null}, version : 0 .. MaxVersion]
    <2>1. CASE pointer.version = job[c].version
      <3>1. pointer.version + 1 \in 0 .. MaxVersion
        BY <1>1, <2>1, SourceAssumption DEF Job
      <3> QED
        BY <1>1, <2>1, <3>1
    <2>2. CASE pointer.version # job[c].version
      BY <1>1, <2>2 DEF EngineTypeOK
    <2> QED
      BY <2>1, <2>2
  <1>3. EngineTypeOK'
    <2>1. /\ pc' \in [Connections -> Labels] /\ job' \in [Connections -> Job]
          /\ alone' \in BOOLEAN
      BY <1>1, LeaveType
    <2> QED
      BY <1>1, <1>2, <2>1 DEF EngineTypeOK
  <1>4. ActiveIsReady'
    <2>1. alone' = alone
      BY <1>1, LeaveType
    <2> QED
      BY <1>1, <2>1 DEF Inv, EngineInv, ActiveIsReady, LateLoadFails
  <1>5. RowsTrackTransactions' /\ NothingBeforeLoad' /\ Bounded'
    BY <1>1 DEF Inv, EngineInv, RowsTrackTransactions, NothingBeforeLoad, Bounded
  <1>6. Advances
    BY <1>1 DEF Advances
  <1> QED
    BY <1>1, <1>3, <1>4, <1>5, <1>6, WriteStep DEF DatabaseSound

-----------------------------------------------------------------------------
(* The steps that only move a connection. *)

(* What the job of a connection that has just moved says. *)
LEMMA MovedSound ==
    ASSUME Inv, UNCHANGED database, NEW c \in Connections, Acts(c), NEW l \in Labels, l # "idle",
           NEW j \in Job, Goto(c, l, j), j.generation \in Generations,
           l \in {"count", "load"} =>
             /\ generation[j.generation].status # "NO_ROW"
             /\ alone => generation[j.generation].status = "loading",
           l \in {"batch", "commit"} =>
             /\ generation[j.generation].status \in Applying
             /\ j.batch \in Batches[j.generation]
             /\ \A t \in Log : t.lsn <= j.lsn => t \in transactions[j.generation],
           l = "commit" => FromFrontier(j.batch, j.lsn) /\ Ordered(j.batch),
           l \in {"gated", "mark", "marked", "swap"} => j.version < MaxVersion,
           l = "mark" => generation[j.generation].status \in Applying,
           l = "swap" /\ LateLoadFails => generation[j.generation].status = "ready"
    PROVE  Inv'
  <1>1. pc'[c] = l /\ job'[c] = j /\ alone' = alone
    BY GotoType DEF Inv, EngineInv
  <1>2. generation' = generation /\ transactions' = transactions
    BY DEF database
  <1>3. ConnectionSound(c)'
    BY <1>1, <1>2 DEF ConnectionSound, LateLoadFails
  <1> QED
    BY <1>3, MoveStep

LEMMA CallStep ==
    ASSUME Inv, NEW c \in Connections, NEW g \in Generations, Call(c, g)
    PROVE  Inv'
  <1>0. EngineTypeOK /\ pointer.version \in Nat /\ generation[g].lsn \in Nat
    BY SourceAssumption DEF Inv, EngineInv, EngineTypeOK
  <1>1. CASE CreateGeneration(c, g)
    BY <1>1, CreateStep
  <1>2. CASE LoadSnapshot(c, g)
    <2> DEFINE j == [NoJob EXCEPT !.generation = g]
    <2>1. j \in Job /\ j.generation = g
      BY NoJobType DEF NoJob, Job
    <2>2. /\ Acts(c) /\ Goto(c, "count", j) /\ UNCHANGED database
          /\ generation[g].status = "loading"
      BY <1>2 DEF LoadSnapshot, Acts
    <2> HIDE DEF j
    <2> QED
      BY <2>1, <2>2, MovedSound DEF Labels
  <1>3. CASE ActivateAgain(c, g)
    <2> DEFINE j == [NoJob EXCEPT !.generation = g, !.version = pointer.version]
    <2>1. j \in Job /\ j.generation = g /\ j.version = pointer.version
      BY <1>0, NoJobType DEF NoJob, Job
    <2>2. /\ Goto(c, "swap", j) /\ UNCHANGED database /\ generation[g].status = "ready"
          /\ Acts(c) /\ pointer.version < MaxVersion
      BY <1>3 DEF ActivateAgain, MayActivate, Acts
    <2> HIDE DEF j
    <2> QED
      BY <2>1, <2>2, MovedSound DEF Labels
  <1>4. CASE \E b \in Batches[g] : ReadGeneration(c, g, b)
    <2>1. PICK b \in Batches[g] : ReadGeneration(c, g, b)
      BY <1>4
    <2> DEFINE j == [NoJob EXCEPT !.generation = g, !.batch = b, !.lsn = generation[g].lsn]
    <2>2. j \in Job /\ j.generation = g /\ j.batch = b /\ j.lsn = generation[g].lsn
      BY <1>0, NoJobType DEF NoJob, Job
    <2>3. /\ Acts(c) /\ Goto(c, "batch", j) /\ UNCHANGED database
          /\ generation[g].status \in Applying
      BY <2>1 DEF ReadGeneration, Applying, Acts
    <2>4. \A t \in Log : t.lsn <= generation[g].lsn => t \in transactions[g]
      BY DEF Inv, EngineInv, RowsTrackTransactions
    <2> HIDE DEF j
    <2> QED
      BY <2>2, <2>3, <2>4, MovedSound DEF Labels
  <1>5. CASE \E t \in Log : Gate(c, g, t.lsn)
    <2>1. PICK t \in Log : Gate(c, g, t.lsn)
      BY <1>5
    <2> DEFINE j == [NoJob EXCEPT !.generation = g, !.version = pointer.version]
    <2>2. j \in Job /\ j.generation = g /\ j.version = pointer.version
      BY <1>0, NoJobType DEF NoJob, Job
    <2>3. /\ Acts(c) /\ Goto(c, "gated", j) /\ UNCHANGED database
          /\ pointer.version < MaxVersion
      BY <2>1 DEF Gate, Acts
    <2> HIDE DEF j
    <2> QED
      BY <2>2, <2>3, MovedSound DEF Labels
  <1> QED
    BY <1>1, <1>2, <1>3, <1>4, <1>5 DEF Call

LEMMA WorkStep == ASSUME Inv, NEW c \in Connections, Work(c) PROVE Inv'
  <1> DEFINE j == job[c]
  <1>0. j \in Job /\ ConnectionSound(c) /\ (pc[c] # "idle" => Acts(c))
    BY DEF Inv, EngineInv, EngineTypeOK, Acts
  <1> HIDE DEF j
  <1>1. CASE CountRecords(c)
    <2>1. pc[c] = "count" /\ UNCHANGED database /\ (Goto(c, "load", j) \/ Leave(c))
      BY <1>1 DEF CountRecords, j
    <2>2. /\ j.generation \in Generations /\ generation[j.generation].status # "NO_ROW"
          /\ alone => generation[j.generation].status = "loading"
      BY <1>0, <2>1 DEF ConnectionSound, j
    <2> QED
      BY <1>0, <2>1, <2>2, LeaveStep, MovedSound DEF Labels
  <1>2. CASE InsertSnapshot(c)
    BY <1>2, InsertStep
  <1>3. CASE LookBatch(c)
    <2>1. /\ pc[c] = "batch" /\ UNCHANGED database
          /\ \/ Leave(c)
             \/ Goto(c, "commit", j) /\ FromFrontier(j.batch, j.lsn) /\ Ordered(j.batch)
      BY <1>3 DEF LookBatch, j
    <2>2. /\ j.generation \in Generations
          /\ generation[j.generation].status \in Applying
          /\ j.batch \in Batches[j.generation]
          /\ \A t \in Log : t.lsn <= j.lsn => t \in transactions[j.generation]
      BY <1>0, <2>1 DEF ConnectionSound, j
    <2> QED
      BY <1>0, <2>1, <2>2, LeaveStep, MovedSound DEF Labels
  <1>4. CASE CommitBatch(c)
    BY <1>4, CommitStep
  <1>5. CASE MarkReadyRead(c)
    <2>1. /\ pc[c] = "gated" /\ UNCHANGED database
          /\ \/ Leave(c)
             \/ Goto(c, "mark", j) /\ generation[j.generation].status = "candidate"
      BY <1>5 DEF MarkReadyRead, j
    <2>2. j.generation \in Generations /\ j.version < MaxVersion
      BY <1>0, <2>1 DEF ConnectionSound, j
    <2> QED
      BY <1>0, <2>1, <2>2, LeaveStep, MovedSound DEF Labels, Applying
  <1>6. CASE MarkReady(c)
    BY <1>6, MarkStep
  <1>7. CASE ActivateRead(c)
    <2>1. /\ pc[c] = "marked" /\ UNCHANGED database
          /\ \/ Leave(c)
             \/ Goto(c, "swap", j) /\ generation[j.generation].status = "ready"
      BY <1>7 DEF ActivateRead, MayActivate, j
    <2>2. j.generation \in Generations /\ j.version < MaxVersion
      BY <1>0, <2>1 DEF ConnectionSound, j
    <2> QED
      BY <1>0, <2>1, <2>2, LeaveStep, MovedSound DEF Labels
  <1>8. CASE Activate(c)
    BY <1>8, ActivateStep
  <1> QED
    BY <1>1, <1>2, <1>3, <1>4, <1>5, <1>6, <1>7, <1>8 DEF Work

LEMMA NextStep == Inv /\ [Next]_vars => Inv'
  <1> SUFFICES ASSUME Inv, [Next]_vars PROVE Inv'
    OBVIOUS
  <1>1. CASE Proceed
    BY <1>1, WorkStep, CallStep DEF Proceed
  <1>2. ASSUME NEW c \in Connections, Die(c) PROVE Inv'
    BY <1>2, LeaveStep DEF Die, Acts
  <1>3. CASE UNCHANGED vars
    <2>1. UNCHANGED database /\ UNCHANGED <<alone, pc, job>>
      BY <1>3 DEF vars, database
    <2>2. DatabaseSound' /\ Advances
      BY <2>1, SameDatabase
    <2>3. EngineTypeOK'
      BY <2>1 DEF Inv, EngineInv, EngineTypeOK, database
    <2>4. OneCall' /\ \A d \in Connections : ConnectionSound(d)'
      BY <2>1 DEF Inv, EngineInv, OneCall, ConnectionSound, LateLoadFails, database
    <2> QED
      BY <2>2, <2>3, <2>4 DEF Inv, EngineInv, DatabaseSound
  <1> QED
    BY <1>1, <1>2, <1>3 DEF Next

(* The inductive invariant holds: whatever connections race or die, with any
   log, batches and generations. *)
THEOREM Invariance == Spec => []Inv
  BY InitInv, NextStep, PTL DEF Spec

(* The rows of every generation are the snapshot's with a prefix of the
   source's transactions, and the batches answered "applied" are in it. *)
THEOREM RowsAreAPrefix == Spec => []RowsTrackTransactions
  <1>1. Inv => RowsTrackTransactions
    BY DEF Inv, EngineInv
  <1> QED
    BY <1>1, Invariance, PTL

(* Where calls do not race, or the snapshot has a row, only a generation marked
   ready is ever served. *)
THEOREM ServedIsReady == Spec => []ActiveIsReady
  <1>1. Inv => ActiveIsReady
    BY DEF Inv, EngineInv
  <1> QED
    BY <1>1, Invariance, PTL

-----------------------------------------------------------------------------
(* The promise to readers. *)

Shown(g) == Live(records[g])

(* Once it has a row, a generation shows the source at the position of the last
   transaction applied to it. *)
LEMMA ShowsReached ==
    ASSUME Inv, NEW g \in Generations, RecordsOf(g) # {}
    PROVE  /\ Reached(g) \in Positions
           /\ Reached(g) \in Nat /\ Reached(g) >= Start
           /\ \A t \in transactions[g] : t.lsn <= Reached(g)
           /\ Shown(g) = SourceAt(Reached(g))
           /\ transactions[g] = {} => Reached(g) = Start
           /\ transactions[g] # {} => \E t \in transactions[g] : Reached(g) = t.lsn
  <1> DEFINE T == transactions[g]
             P == {Start} \cup {t.lsn : t \in T}
             n == Reached(g)
  <1>1. T \in SUBSET Log /\ records[g] = Written(Base, T)
    BY DEF Inv, EngineInv, EngineTypeOK, RowsTrackTransactions, NothingBeforeLoad, RecordsOf
  <1>2. \A t \in T, u \in Log : u.lsn <= t.lsn => u \in T
    BY DEF Inv, EngineInv, RowsTrackTransactions
  <1>3. PICK m \in Nat : \A t \in T : t.lsn <= m
    BY DEF Inv, Bounded
  <1>5. \E p \in P : \A t \in T : t.lsn <= p
    <2>1. CASE T = {}
      BY <2>1
    <2>2. CASE T # {}
      <3>1. \E t \in T : \A u \in T : u.lsn <= t.lsn
        BY <1>1, <1>3, <2>2, HasLast
      <3> QED
        BY <3>1
    <2> QED
      BY <2>1, <2>2
  <1>6. n \in P /\ \A t \in T : t.lsn <= n
    BY <1>5 DEF Reached
  <1>7. P \subseteq Positions /\ P \subseteq Nat /\ \A p \in P : p >= Start
    BY <1>1, LogType, SourceAssumption DEF Positions
  <1>8. T # {} => \E t \in T : n = t.lsn
    <2> SUFFICES ASSUME NEW t \in T, n = Start PROVE FALSE
      BY <1>6
    <2> QED
      BY <1>1, <1>6, LogType, SourceAssumption
  <1>9. T = {t \in Log : t.lsn <= n}
    <2>1. ASSUME NEW u \in Log, u.lsn <= n PROVE u \in T
      <3>1. CASE T # {}
        BY <1>2, <1>8, <2>1, <3>1
      <3>2. CASE T = {}
        <4>1. n = Start
          BY <1>6, <3>2
        <4> QED
          BY <2>1, <4>1, LogType, SourceAssumption
      <3> QED
        BY <3>1, <3>2
    <2> QED
      BY <1>1, <1>6, <2>1
  <1>10. Shown(g) = SourceAt(n)
    <2> SUFFICES ASSUME NEW k \in Keys PROVE Shown(g)[k] = SourceAt(n)[k]
      BY DEF Shown, Live, SourceAt
    <2>1. SourceAt(n)[k] = IF Writers(T, k) = {} THEN Snapshot[k]
                           ELSE LastWriter(T, k).writes[k]
      BY <1>9 DEF SourceAt
    <2>2. Shown(g)[k] = IF Written(Base, T)[k] = Null THEN Null ELSE Written(Base, T)[k].value
      BY <1>1 DEF Shown, Live
    <2>3. CASE Writers(T, k) = {}
      <3>1. Written(Base, T)[k] = Base[k]
        BY <2>3 DEF Written
      <3>2. CASE k \in Loaded
        <4>1. Base[k] = [value |-> Snapshot[k], lsn |-> Start] /\ Base[k] # Null
          BY <3>2, BaseType DEF Base
        <4> QED
          BY <2>1, <2>2, <2>3, <3>1, <4>1
      <3>3. CASE k \notin Loaded
        <4>1. Base[k] = Null /\ Snapshot[k] = Null
          BY <3>3 DEF Base, Loaded
        <4> QED
          BY <2>1, <2>2, <2>3, <3>1, <4>1
      <3> QED
        BY <3>2, <3>3
    <2>4. CASE Writers(T, k) # {}
      <3> DEFINE t == LastWriter(T, k)
      <3>1. t \in Log /\ k \in DOMAIN t.writes
        BY <1>1, <1>3, <2>4, LastWriterType DEF Writers
      <3>2. t.writes[k] \in Values \cup {Null} /\ t.lsn \in Nat
        BY <3>1, SourceAssumption DEF Transaction
      <3>3. [value |-> t.writes[k], lsn |-> t.lsn] \in Record
        BY <3>2 DEF Record
      <3>4. [value |-> t.writes[k], lsn |-> t.lsn] # Null
        BY <3>3, SourceAssumption
      <3>5. Written(Base, T)[k] = [value |-> t.writes[k], lsn |-> t.lsn]
        BY <2>4 DEF Written
      <3> QED
        BY <2>1, <2>2, <2>4, <3>4, <3>5
    <2> QED
      BY <2>3, <2>4
  <1> QED
    BY <1>6, <1>7, <1>8, <1>10

LEMMA ShowsNothing ==
    ASSUME NEW g \in Generations, RecordsOf(g) = {}
    PROVE  Reached(g) = 0 /\ Shown(g) = [k \in Keys |-> Null]
  BY DEF RecordsOf, Reached, Shown, Live

ReaderView ==
    \A g \in Generations :
        IF RecordsOf(g) # {}
          THEN /\ Reached(g) \in Positions
               /\ Reached(g) \in Nat /\ Reached(g) >= Start
               /\ \A t \in transactions[g] : t.lsn <= Reached(g)
               /\ Shown(g) = SourceAt(Reached(g))
               /\ transactions[g] = {} => Reached(g) = Start
               /\ transactions[g] # {} => \E t \in transactions[g] : Reached(g) = t.lsn
          ELSE Reached(g) = 0 /\ Shown(g) = [k \in Keys |-> Null]

LEMMA ReadersSee == Inv => ReaderView
  BY ShowsReached, ShowsNothing DEF ReaderView

(* What a step changes of what readers see: nothing, or one generation that had
   no rows, or one that gets a transaction after all that were applied. *)
OneGrows ==
    \/ UNCHANGED <<records, transactions>>
    \/ \E g \in Generations :
         /\ \A h \in Generations \ {g} :
              records'[h] = records[h] /\ transactions'[h] = transactions[h]
         /\ \/ RecordsOf(g) = {}
            \/ /\ RecordsOf(g) # {} /\ \E k \in Keys : records'[g][k] # Null
               /\ \E t \in transactions'[g] : \A s \in transactions[g] : s.lsn < t.lsn

LEMMA GrowStep == ASSUME Inv, [Next]_vars PROVE OneGrows
  <1>0. EngineTypeOK
    BY DEF Inv, EngineInv
  <1>1. ASSUME NEW c \in Connections, InsertSnapshot(c) PROVE OneGrows
    <2> DEFINE g == job[c].generation
    <2>1. g \in Generations
      BY <1>1 DEF InsertSnapshot, Inv, EngineInv, ConnectionSound
    <2>2. CASE RecordsOf(g) \cap Loaded # {}
      BY <1>1, <2>2 DEF InsertSnapshot, OneGrows
    <2>3. CASE RecordsOf(g) \cap Loaded = {} /\ RecordsOf(g) = {}
      <3>1. \A h \in Generations \ {g} : records'[h] = records[h]
        BY <1>0, <1>1, <2>3 DEF InsertSnapshot, EngineTypeOK
      <3>2. transactions' = transactions
        BY <1>1 DEF InsertSnapshot
      <3> QED
        BY <2>1, <2>3, <3>1, <3>2 DEF OneGrows
    <2>4. CASE RecordsOf(g) \cap Loaded = {} /\ RecordsOf(g) # {}
      <3>1. generation[g].status \in Applying
        BY <2>1, <2>4 DEF Inv, EngineInv, NothingBeforeLoad, RecordsOf
      <3>2. Loaded = {}
        BY <2>1, <2>4, <3>1, LoadedStays
      <3>3. records' = [records EXCEPT ![g] = [k \in Keys |-> records[g][k]]]
            /\ transactions' = transactions
        BY <1>1, <2>4, <3>2 DEF InsertSnapshot
      <3>4. records[g] = [k \in Keys |-> records[g][k]]
        BY <1>0, <2>1 DEF EngineTypeOK
      <3> QED
        BY <1>0, <3>3, <3>4 DEF OneGrows, EngineTypeOK
    <2> QED
      BY <2>2, <2>3, <2>4
  <1>2. ASSUME NEW c \in Connections, CommitBatch(c) PROVE OneGrows
    <2> DEFINE g == job[c].generation
               b == job[c].batch
    <2>1. CASE ~Applies(c)
      BY <1>2, <2>1 DEF CommitBatch, Applies, OneGrows
    <2>2. CASE Applies(c)
      <3>1. /\ records' = [records EXCEPT ![g] = Written(@, Fresh(g, b))]
            /\ transactions' = [transactions EXCEPT ![g] = @ \cup Fresh(g, b)]
            /\ generation' = [generation EXCEPT ![g].lsn = b.end]
            /\ pc[c] = "commit"
        BY <1>2, <2>2 DEF CommitBatch, Applies
      <3>2. /\ g \in Generations /\ generation[g].status \in Applying
            /\ \A s \in transactions[g], t \in Fresh(g, b) : s.lsn < t.lsn
        BY <2>2, <3>1, CommitFacts
      <3>3. RecordsOf(g) # {} => \E k \in Keys : records'[g][k] # Null
        <4>1. /\ Fresh(g, b) \in SUBSET Log /\ b.end \in Nat
              /\ \A t \in Fresh(g, b) : t.lsn <= b.end
          BY <2>2, <3>1, CommitFacts
        <4>2. \A k \in Keys : records[g][k] # Null => Written(records[g], Fresh(g, b))[k] # Null
          BY <1>0, <3>2, <4>1, WrittenType DEF EngineTypeOK
        <4>3. records'[g] = Written(records[g], Fresh(g, b))
          BY <1>0, <3>1, <3>2 DEF EngineTypeOK
        <4> QED
          BY <4>2, <4>3 DEF RecordsOf
      <3>4. CASE Fresh(g, b) = {}
        <4>1. Written(records[g], {}) = records[g]
          BY <1>0, <3>2, WrittenNothing DEF EngineTypeOK
        <4>2. records' = records /\ transactions' = transactions
          BY <1>0, <3>1, <3>2, <3>4, <4>1 DEF EngineTypeOK
        <4> QED
          BY <4>2 DEF OneGrows
      <3>5. CASE Fresh(g, b) # {}
        <4>1. PICK t \in Fresh(g, b) : TRUE
          BY <3>5
        <4>2. t \in transactions'[g] /\ \A s \in transactions[g] : s.lsn < t.lsn
          BY <1>0, <3>1, <3>2 DEF EngineTypeOK
        <4>3. \A h \in Generations \ {g} :
                records'[h] = records[h] /\ transactions'[h] = transactions[h]
          BY <1>0, <3>1 DEF EngineTypeOK
        <4> QED
          BY <3>2, <3>3, <4>2, <4>3 DEF OneGrows
      <3> QED
        BY <3>4, <3>5
    <2> QED
      BY <2>1, <2>2
  <1>3. ASSUME NEW c \in Connections, Work(c) \/ Die(c),
               ~InsertSnapshot(c), ~CommitBatch(c)
        PROVE  UNCHANGED <<records, transactions>>
    BY <1>3 DEF Work, Die, CountRecords, LookBatch, MarkReadyRead, MarkReady,
                ActivateRead, Activate, database
  <1>4. ASSUME NEW c \in Connections, NEW g \in Generations, Call(c, g)
        PROVE  UNCHANGED <<records, transactions>>
    BY <1>4 DEF Call, CreateGeneration, LoadSnapshot, ActivateAgain, ReadGeneration,
                Gate, database
  <1>5. CASE UNCHANGED vars
    BY <1>5 DEF vars, database, OneGrows
  <1> QED
    BY <1>1, <1>2, <1>3, <1>4, <1>5 DEF Next, Proceed, OneGrows

LEMMA SameReached ==
    ASSUME NEW h \in Generations, records'[h] = records[h], transactions'[h] = transactions[h]
    PROVE  Reached(h)' = Reached(h)
  <1> DEFINE rec == records[h]
             tx == transactions[h]
  <1>1. rec' = rec /\ tx' = tx
    OBVIOUS
  <1>2. Reached(h) = IF {k \in Keys : rec[k] # Null} = {} THEN 0
           ELSE CHOOSE m \in {Start} \cup {t.lsn : t \in tx} : \A t \in tx : t.lsn <= m
    BY DEF Reached, RecordsOf
  <1>3. Reached(h)' = IF {k \in Keys : rec'[k] # Null} = {} THEN 0
           ELSE CHOOSE m \in {Start} \cup {t.lsn : t \in tx'} : \A t \in tx' : t.lsn <= m
    BY DEF Reached, RecordsOf
  <1> HIDE DEF rec, tx
  <1> QED
    BY <1>1, <1>2, <1>3

LEMMA ReplayStep ==
    ASSUME Inv, Inv', ReaderView, ReaderView', [Next]_vars
    PROVE  [Replay!Next]_(Replay!vars)
  <1> DEFINE rows == [g \in Generations |-> Live(records[g])]
             position == [g \in Generations |-> Reached(g)]
  <1>1. CASE UNCHANGED <<records, transactions>>
    <2>1. rows' = rows
      BY <1>1 DEF Live
    <2>2. position' = position
      BY <1>1 DEF Reached, RecordsOf
    <2> QED
      BY <2>1, <2>2 DEF Replay!vars
  <1>2. ASSUME NEW g \in Generations,
               \A h \in Generations \ {g} :
                 records'[h] = records[h] /\ transactions'[h] = transactions[h],
               RecordsOf(g)' # {},
               \/ RecordsOf(g) = {}
               \/ /\ RecordsOf(g) # {}
                  /\ \E t \in transactions'[g] : \A s \in transactions[g] : s.lsn < t.lsn
        PROVE  Replay!Next
    <2> DEFINE n == Reached(g)'
    <2>1. /\ n \in Positions /\ n \in Nat /\ n >= Start
          /\ \A t \in transactions'[g] : t.lsn <= n
          /\ Live(records'[g]) = SourceAt(n)
      BY <1>2 DEF ReaderView, Shown, Live
    <2>2. n > Reached(g)
      <3>1. CASE RecordsOf(g) = {}
        BY <2>1, <3>1, SourceAssumption DEF ReaderView
      <3>2. CASE RecordsOf(g) # {}
        <4>1. PICK t \in transactions'[g] : \A s \in transactions[g] : s.lsn < t.lsn
          BY <1>2, <3>2
        <4>2. t.lsn <= n /\ t.lsn \in Nat
          <5>1. transactions'[g] \subseteq Log
            BY DEF Inv, EngineInv, EngineTypeOK
          <5> QED
            BY <2>1, <5>1, LogType
        <4>3. /\ Reached(g) \in Nat
              /\ Reached(g) = Start \/ \E s \in transactions[g] : Reached(g) = s.lsn
          BY <3>2 DEF ReaderView
        <4>4. t.lsn > Start
          BY <1>2, <4>1, LogType DEF Inv, EngineInv, EngineTypeOK
        <4> QED
          BY <2>1, <4>1, <4>2, <4>3, <4>4, SourceAssumption
      <3> QED
        BY <3>1, <3>2
    <2>3. rows' = [rows EXCEPT ![g] = SourceAt(n)]
      BY <1>2, <2>1 DEF Live
    <2>4. position' = [position EXCEPT ![g] = n]
      <3>1. \A h \in Generations \ {g} : Reached(h)' = Reached(h)
        BY <1>2, SameReached
      <3> QED
        BY <3>1
    <2>5. Replay!Advance(g, n)
      BY <2>1, <2>2, <2>3, <2>4 DEF Replay!Advance
    <2> QED
      BY <2>1, <2>5 DEF Replay!Next
  <1>3. ASSUME NEW g \in Generations,
               \A h \in Generations \ {g} :
                 records'[h] = records[h] /\ transactions'[h] = transactions[h],
               RecordsOf(g) = {}, RecordsOf(g)' = {}
        PROVE  UNCHANGED Replay!vars
    <2>1. Live(records[g]) = Live(records'[g])
      BY <1>3 DEF Live, RecordsOf
    <2>2. rows' = rows
      BY <1>3, <2>1 DEF Live
    <2>3. position' = position
      <3> SUFFICES ASSUME NEW h \in Generations PROVE Reached(h)' = Reached(h)
        OBVIOUS
      <3>1. CASE h = g
        BY <1>3, <3>1 DEF Reached
      <3>2. CASE h # g
        BY <1>3, <3>2, SameReached
      <3> QED
        BY <3>1, <3>2
    <2> QED
      BY <2>2, <2>3 DEF Replay!vars
  <1> QED
    BY <1>1, <1>2, <1>3, GrowStep DEF OneGrows, RecordsOf

(* The engine implements its promise to readers: every generation shows the
   source at one commit position, which only moves forwards. *)
THEOREM Refinement == Spec => ImplementsSourceReplay
  <1>1. Init => Replay!Init
    <2> SUFFICES ASSUME Init PROVE Replay!Init
      OBVIOUS
    <2>1. Inv
      BY InitInv
    <2>2. \A g \in Generations : Reached(g) = 0 /\ Shown(g) = [k \in Keys |-> Null]
      BY ShowsNothing DEF Init, RecordsOf
    <2> QED
      BY <2>2 DEF Replay!Init, Shown
  <1>2. Inv /\ Inv' /\ ReaderView /\ ReaderView' /\ [Next]_vars
          => [Replay!Next]_(Replay!vars)
    BY ReplayStep
  <1> QED
    BY <1>1, <1>2, Invariance, ReadersSee, PTL DEF Spec, ImplementsSourceReplay, Replay!Spec
=============================================================================
