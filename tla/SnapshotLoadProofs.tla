-------------------------- MODULE SnapshotLoadProofs --------------------------
(***************************************************************************)
(* Theorems of SnapshotLoad for any tables, inputs and number of workers:  *)
(* the ledger's truth, loading once when one process runs at a time, and   *)
(* the refinement, from the inductive invariant SnapInv.                   *)
(***************************************************************************)
EXTENDS SnapshotLoad, WellFoundedInduction, TLAPS

-----------------------------------------------------------------------------
(* Sequences of inputs. *)

LEMMA FirstIs ==
    ASSUME NEW S, NEW s \in Seq(S), NEW i, NEW n \in DOMAIN s,
           s[n] = i, \A m \in 1 .. n - 1 : s[m] # i
    PROVE  First(s, i) = n
  <1>1. DOMAIN s = 1 .. Len(s) /\ Len(s) \in Nat
    OBVIOUS
  <1>2. \A k \in DOMAIN s : (s[k] = i /\ \A m \in 1 .. k - 1 : s[m] # i) => k = n
    BY <1>1
  <1> QED
    BY <1>2 DEF First

LEMMA FirstFound ==
    ASSUME NEW S, NEW s \in Seq(S), NEW i, \E n \in DOMAIN s : s[n] = i
    PROVE  /\ First(s, i) \in DOMAIN s /\ s[First(s, i)] = i
           /\ \A m \in 1 .. First(s, i) - 1 : s[m] # i
  <1> DEFINE D == {n \in DOMAIN s : s[n] = i}
  <1>1. D \subseteq Nat /\ D # {}
    OBVIOUS
  <1>2. PICK n \in D : \A m \in D : <<m, n>> \notin OpToRel(<, Nat)
    BY <1>1, WFMin, NatLessThanWellFounded, Zenon
  <1>3. \A m \in D : ~(m < n)
    BY <1>1, <1>2 DEF OpToRel
  <1>4. \A m \in 1 .. n - 1 : s[m] # i
    BY <1>3
  <1> QED
    BY <1>4, FirstIs

LEMMA FirstType ==
    ASSUME NEW S, NEW s \in Seq(S), NEW i
    PROVE  /\ First(s, i) \in Nat
           /\ First(s, i) # 0 <=> \E n \in DOMAIN s : s[n] = i
           /\ First(s, i) # 0 => s # <<>>
  <1>1. CASE \E n \in DOMAIN s : s[n] = i
    BY <1>1, FirstFound
  <1>2. CASE ~(\E n \in DOMAIN s : s[n] = i)
    BY <1>2 DEF First
  <1> QED
    BY <1>1, <1>2

(* Appending leaves the first ones first, and a new one is first at the end. *)
LEMMA FirstAppend ==
    ASSUME NEW S, NEW s \in Seq(S), NEW x \in S, NEW i
    PROVE  /\ First(s, i) # 0 => First(Append(s, x), i) = First(s, i)
           /\ First(s, x) = 0 => First(Append(s, x), x) = Len(s) + 1
  <1> DEFINE a == Append(s, x)
  <1>1. /\ a \in Seq(S) /\ DOMAIN s \subseteq DOMAIN a /\ Len(s) + 1 \in DOMAIN a
        /\ \A n \in DOMAIN s : a[n] = s[n]
        /\ a[Len(s) + 1] = x /\ DOMAIN s = 1 .. Len(s) /\ Len(s) \in Nat
    OBVIOUS
  <1> HIDE DEF a
  <1>2. ASSUME First(s, i) # 0 PROVE First(a, i) = First(s, i)
    <2>1. /\ First(s, i) \in DOMAIN s /\ s[First(s, i)] = i
          /\ \A m \in 1 .. First(s, i) - 1 : s[m] # i
      BY <1>2, FirstType, FirstFound
    <2>2. \A m \in 1 .. First(s, i) - 1 : m \in DOMAIN s
      BY <1>1, <2>1
    <2> QED
      BY <1>1, <2>1, <2>2, FirstIs
  <1>3. ASSUME First(s, x) = 0 PROVE First(a, x) = Len(s) + 1
    <2>1. \A n \in DOMAIN s : s[n] # x
      BY <1>3, FirstType
    <2>2. \A m \in 1 .. (Len(s) + 1) - 1 : a[m] # x
      BY <1>1, <2>1
    <2> QED
      BY <1>1, <2>2, FirstIs
  <1> QED
    BY <1>2, <1>3 DEF a

LEMMA OneIsNotNone == ASSUME NEW i PROVE <<i>> # <<>>
  <1>1. Len(<<i>>) = 1 /\ Len(<<>>) = 0
    OBVIOUS
  <1> QED
    BY <1>1

LEMMA FirstOfOne == ASSUME NEW i PROVE First(<<i>>, i) = 1
  <1>1. /\ <<i>> \in Seq({i}) /\ 1 \in DOMAIN <<i>> /\ <<i>>[1] = i
        /\ \A m \in 1 .. 1 - 1 : <<i>>[m] # i
    OBVIOUS
  <1> QED
    BY <1>1, FirstIs

-----------------------------------------------------------------------------
(* The invariant. *)

LEMMA NoJobType == NoJob \in Job /\ \A t \in Tables : NoJob.counts[t] = 0
  BY DEF NoJob, Job, ShardStates

LEMMA InitInv == Init => SnapInv
  <1> SUFFICES ASSUME Init PROVE SnapInv
    OBVIOUS
  <1>1. SnapTypeOK
    BY NoJobType DEF Init, SnapTypeOK, Labels, ShardStates, GenerationStates
  <1>2. LedgerBacked
    BY DEF Init, LedgerBacked
  <1>3. AloneSound
    BY NoJobType DEF Init, AloneSound, AloneWorker
  <1>4. \A w \in Workers : WorkerSound(w)
    BY DEF Init, WorkerSound
  <1> QED
    BY <1>1, <1>2, <1>3, <1>4 DEF Init, SnapInv

LEMMA GotoType ==
    ASSUME SnapInv, NEW w \in Workers, NEW l \in Labels, NEW j \in Job, Goto(w, l, j)
    PROVE  /\ pc' \in [Workers -> Labels] /\ job' \in [Workers -> Job]
           /\ alone' \in BOOLEAN /\ alone' = alone /\ pc'[w] = l
           /\ l # "idle" => job'[w] = j
           /\ l = "idle" => job'[w] = NoJob
           /\ \A v \in Workers \ {w} : pc'[v] = pc[v] /\ job'[v] = job[v]
  BY NoJobType DEF Goto, SnapInv, SnapTypeOK

(* Rows are only added and states only advance. *)
Advances ==
    /\ \A t \in Tables :
         /\ shards[t].state # "NO_ROW" =>
              shards'[t].state # "NO_ROW" /\ shards'[t].input = shards[t].input
         /\ shards[t].state = "RECONCILED" => shards'[t].state = "RECONCILED"
         /\ \A i \in Inputs : /\ commits[t][i] # 0 => commits'[t][i] # 0
                              /\ First(log[t], i) # 0 => First(log'[t], i) = First(log[t], i)
    /\ proof # Null => proof' # Null
    /\ generation'.revision >= generation.revision
    /\ generation'.revision = generation.revision => generation'.state = generation.state

LEMMA OthersSound ==
    ASSUME SnapInv, NEW v \in Workers, Advances, generation' \in [state : GenerationStates, revision : Nat],
           pc'[v] = pc[v], job'[v] = job[v]
    PROVE  WorkerSound(v)'
  <1> DEFINE t == job[v].table
             i == job[v].input
  <1>1. WorkerSound(v) /\ generation.revision \in Nat /\ generation'.revision \in Nat
        /\ job[v].revision \in Nat
    BY DEF SnapInv, SnapTypeOK, Job
  <1>2. /\ pc[v] \in {"claim", "look", "insert", "mark", "marking", "append", "write",
                      "verify", "ledger", "record"} => t \in Tables /\ i \in Inputs
        /\ pc[v] = "count" => t \in Tables
    BY <1>1 DEF WorkerSound
  <1>3. pc[v] \in {"mark", "marking", "append", "write", "verify", "ledger", "record"} =>
          shards'[t].state # "NO_ROW" /\ shards'[t].input = i
    BY <1>1, <1>2 DEF WorkerSound, Advances
  <1>4. pc[v] \in {"mark", "marking"} =>
          /\ job[v].to \in {"STAGED", "COMMITTED", "RECONCILED"}
          /\ job[v].to # "STAGED" => commits'[t][i] # 0
    BY <1>1, <1>2 DEF WorkerSound, Advances
  <1>5. pc[v] \in {"verify", "ledger", "record"} =>
          job[v].snapshot = First(log'[t], i) /\ job[v].snapshot # 0
    BY <1>1, <1>2 DEF WorkerSound, Advances, SnapshotForToken
  <1>6. pc[v] = "saveproof" => \A u \in Tables : shards'[u].state = "RECONCILED"
    BY <1>1 DEF WorkerSound, Advances, Complete
  <1>7. pc[v] = "advance" =>
          /\ job[v].to = "CDC_APPLYING" => proof' # Null
          /\ job[v].revision <= generation'.revision
          /\ job[v].revision = generation'.revision =>
                <<generation'.state, job[v].to>> \in GenerationMoves
    BY <1>1 DEF WorkerSound, Advances
  <1>8. /\ pc[v] = "marking" => <<job[v].from, job[v].to>> \in ShardMoves
        /\ pc[v] \in {"shards", "rows", "count", "proof", "saveproof", "revision"} =>
             job[v].to = "CDC_APPLYING"
        /\ pc[v] = "transition" => job[v].to \in {"SNAPSHOT_LOADING", "CDC_APPLYING"}
    BY <1>1 DEF WorkerSound
  <1> QED
    BY <1>2, <1>3, <1>4, <1>5, <1>6, <1>7, <1>8 DEF WorkerSound, SnapshotForToken, Complete

LEMMA IdleSound ==
    ASSUME NEW w \in Workers, pc'[w] = "idle", job'[w] = NoJob
    PROVE  WorkerSound(w)' /\ AloneWorker(w)'
  BY NoJobType DEF WorkerSound, AloneWorker

OnlyOne(w) == alone => \A v \in Workers \ {w} : pc[v] = "idle"

LEMMA ActiveIsOnly ==
    ASSUME SnapInv, NEW w \in Workers, pc[w] # "idle"
    PROVE  OnlyOne(w)
  BY DEF OnlyOne, SnapInv, AloneSound

(* A step that only moves a worker. *)
LEMMA MoveStep ==
    ASSUME SnapInv, UNCHANGED <<registry, log>>, NEW w \in Workers,
           NEW l \in Labels, NEW j \in Job, Goto(w, l, j), OnlyOne(w),
           generation.state # "NO_ROW", WorkerSound(w)', alone => AloneWorker(w)'
    PROVE  SnapInv'
  <1>1. /\ pc' \in [Workers -> Labels] /\ job' \in [Workers -> Job]
        /\ alone' \in BOOLEAN /\ alone' = alone /\ pc'[w] = l
        /\ \A v \in Workers \ {w} : pc'[v] = pc[v] /\ job'[v] = job[v]
    BY GotoType
  <1>2. UNCHANGED <<generation, shards, commits, proof, log>>
    BY DEF registry
  <1>3. SnapTypeOK' /\ LedgerBacked'
    BY <1>1, <1>2 DEF SnapInv, SnapTypeOK, LedgerBacked, SnapshotForToken
  <1>4. Advances
    BY <1>2 DEF Advances, SnapInv, SnapTypeOK
  <1>5. \A v \in Workers : WorkerSound(v)'
    BY <1>1, <1>3, <1>4, OthersSound DEF SnapTypeOK
  <1>6. AloneSound'
    <2> SUFFICES ASSUME alone PROVE AloneSound'
      BY <1>1 DEF AloneSound
    <2>1. \A v \in Workers \ {w} : pc'[v] = "idle"
      BY <1>1 DEF OnlyOne
    <2>2. ASSUME NEW v \in Workers \ {w} PROVE AloneWorker(v)'
      <3>1. AloneWorker(v) /\ pc'[v] = pc[v] /\ job'[v] = job[v] /\ log' = log
        BY <1>1, <1>2 DEF SnapInv, AloneSound
      <3> QED
        BY <3>1 DEF AloneWorker, Holds
    <2> QED
      BY <1>1, <1>2, <2>1, <2>2 DEF SnapInv, AloneSound, Holds
  <1> QED
    BY <1>2, <1>3, <1>5, <1>6 DEF SnapInv

LEMMA LeaveStep ==
    ASSUME SnapInv, UNCHANGED <<registry, log>>, NEW w \in Workers, pc[w] # "idle", Leave(w)
    PROVE  SnapInv'
  <1>1. Goto(w, "idle", NoJob) /\ "idle" \in Labels
    BY DEF Leave, Labels
  <1>2. pc'[w] = "idle" /\ job'[w] = NoJob
    BY <1>1, NoJobType, GotoType
  <1>3. generation.state # "NO_ROW"
    BY DEF SnapInv
  <1> QED
    BY <1>1, <1>2, <1>3, NoJobType, ActiveIsOnly, IdleSound, MoveStep

-----------------------------------------------------------------------------
(* Moves with what they ask of the worker. *)

LEMMA JobType ==
    ASSUME SnapInv, NEW w \in Workers
    PROVE  /\ job[w] \in Job /\ WorkerSound(w) /\ pc[w] \in Labels
           /\ alone => AloneWorker(w)
           /\ pc[w] # "idle" => generation.state # "NO_ROW"
  BY DEF SnapInv, SnapTypeOK, AloneSound

LEMMA BeginStep ==
    ASSUME SnapInv, NEW w \in Workers, NEW l \in {"claim", "shards", "transition"},
           NEW j \in Job, Begin(w, l, j), j.counts = NoJob.counts,
           l = "claim" => j.table \in Tables /\ j.input \in Inputs,
           l = "shards" => j.to = "CDC_APPLYING",
           l = "transition" => j.to = "SNAPSHOT_LOADING"
    PROVE  SnapInv'
  <1>1. l \in Labels /\ l # "idle"
    BY DEF Labels
  <1>2. Goto(w, l, j) /\ OnlyOne(w) /\ generation.state # "NO_ROW" /\ UNCHANGED <<registry, log>>
    BY DEF Begin, OnlyOne
  <1>3. pc'[w] = l /\ job'[w] = j
    BY <1>1, <1>2, GotoType
  <1>4. WorkerSound(w)'
    BY <1>3 DEF WorkerSound
  <1>5. AloneWorker(w)'
    BY <1>3, NoJobType DEF AloneWorker
  <1> QED
    BY <1>1, <1>2, <1>4, <1>5, MoveStep

LEMMA CallStep == ASSUME SnapInv, NEW w \in Workers, Call(w) PROVE SnapInv'
  <1>1. CASE CallStart(w)
    <2> DEFINE j == [NoJob EXCEPT !.to = "SNAPSHOT_LOADING"]
    <2>1. j \in Job /\ j.to = "SNAPSHOT_LOADING" /\ j.counts = NoJob.counts
      BY NoJobType DEF NoJob, Job, GenerationStates
    <2>2. Begin(w, "transition", j)
      BY <1>1 DEF CallStart
    <2> HIDE DEF j
    <2> QED
      BY <2>1, <2>2, BeginStep
  <1>2. CASE CallAdmit(w)
    <2> DEFINE j == [NoJob EXCEPT !.to = "CDC_APPLYING"]
    <2>1. j \in Job /\ j.to = "CDC_APPLYING" /\ j.counts = NoJob.counts
      BY NoJobType DEF NoJob, Job, GenerationStates
    <2>2. Begin(w, "shards", j)
      BY <1>2 DEF CallAdmit
    <2> HIDE DEF j
    <2> QED
      BY <2>1, <2>2, BeginStep
  <1>3. ASSUME NEW t \in Tables, NEW i \in Inputs, CallLoad(w, t, i) PROVE SnapInv'
    <2> DEFINE j == [NoJob EXCEPT !.table = t, !.input = i]
    <2>1. j \in Job /\ j.table = t /\ j.input = i /\ j.counts = NoJob.counts
      BY NoJobType DEF NoJob, Job
    <2>2. Begin(w, "claim", j)
      BY <1>3 DEF CallLoad
    <2> HIDE DEF j
    <2> QED
      BY <2>1, <2>2, BeginStep
  <1> QED
    BY <1>1, <1>2, <1>3 DEF Call

(* A worker in a call that moves on. *)
LEMMA OnStep ==
    ASSUME SnapInv, UNCHANGED <<registry, log>>, NEW w \in Workers, pc[w] # "idle",
           NEW l \in Labels, NEW j \in Job, Goto(w, l, j), WorkerSound(w)',
           alone => AloneWorker(w)'
    PROVE  SnapInv'
  BY JobType, ActiveIsOnly, MoveStep

LEMMA Untouched ==
    ASSUME UNCHANGED <<registry, log>>
    PROVE  /\ shards' = shards /\ commits' = commits /\ log' = log
           /\ generation' = generation /\ proof' = proof
  BY DEF registry

LEMMA ClaimStep ==
    ASSUME SnapInv, NEW w \in Workers, ClaimState(w) \/ ClaimLook(w)
    PROVE  SnapInv'
  <1>1. /\ job[w] \in Job /\ WorkerSound(w) /\ (alone => AloneWorker(w))
        /\ UNCHANGED <<registry, log>> /\ pc[w] \in {"claim", "look"}
    BY JobType DEF ClaimState, ClaimLook
  <1> DEFINE t == job[w].table
             i == job[w].input
  <1>2. t \in Tables /\ i \in Inputs
    BY <1>1 DEF WorkerSound
  <1>3. CASE Leave(w)
    BY <1>1, <1>3, LeaveStep
  <1>4. ASSUME NEW l \in {"look", "insert"}, Goto(w, l, job[w]) PROVE SnapInv'
    <2>1. l \in Labels /\ l # "idle"
      BY DEF Labels
    <2>2. pc'[w] = l /\ job'[w] = job[w]
      BY <1>1, <1>4, <2>1, GotoType
    <2>3. WorkerSound(w)'
      BY <1>2, <2>2 DEF WorkerSound
    <2>4. alone => AloneWorker(w)'
      BY <1>1, <2>2, Untouched DEF AloneWorker, Holds
    <2> QED
      BY <1>1, <1>4, <2>1, <2>3, <2>4, OnStep
  <1>5. CASE ClaimLook(w) /\ shards[t].state # "NO_ROW"
    <2> DEFINE l == Resume(shards[t], i)
               j == [job[w] EXCEPT !.to = "STAGED"]
    <2>1. Goto(w, l, j)
      BY <1>5 DEF ClaimLook
    <2>2. j \in Job /\ j.table = t /\ j.input = i /\ j.to = "STAGED" /\ j.counts = job[w].counts
      BY <1>1 DEF Job, ShardStates
    <2>3. l \in {"idle", "mark", "append"} /\ (l # "idle" => shards[t].input = i)
      BY DEF Resume
    <2> HIDE DEF l, j
    <2>4. l \in Labels
      BY <2>3 DEF Labels
    <2>5. CASE l = "idle"
      <3>1. pc'[w] = "idle" /\ job'[w] = NoJob
        BY <2>1, <2>2, <2>4, <2>5, GotoType
      <3> QED
        BY <1>1, <2>1, <2>2, <2>4, <3>1, IdleSound, OnStep
    <2>6. CASE l # "idle"
      <3>1. pc'[w] = l /\ job'[w] = j
        BY <2>1, <2>2, <2>4, <2>6, GotoType
      <3>2. WorkerSound(w)'
        BY <1>1, <1>2, <1>5, <2>2, <2>3, <2>6, <3>1, Untouched DEF WorkerSound
      <3>3. alone => AloneWorker(w)'
        BY <1>1, <2>2, <2>3, <3>1, Untouched DEF AloneWorker, Holds
      <3> QED
        BY <1>1, <2>1, <2>2, <2>4, <3>2, <3>3, OnStep
    <2> QED
      BY <2>5, <2>6
  <1>6. CASE ClaimLook(w) /\ shards[t].state = "NO_ROW"
    <2>1. Goto(w, "insert", job[w])
      BY <1>6 DEF ClaimLook
    <2> QED
      BY <1>4, <2>1
  <1>7. CASE ClaimState(w)
    BY <1>3, <1>4, <1>7 DEF ClaimState
  <1> QED
    BY <1>5, <1>6, <1>7

(* What the end of mark_shard_state takes along. *)
LEMMA MarkedSound ==
    ASSUME SnapInv, NEW w \in Workers, pc[w] \in {"mark", "marking"}, Marked(w),
           shards'[job[w].table].state # "NO_ROW",
           shards'[job[w].table].input = job[w].input,
           commits' = commits, log' = log
    PROVE  /\ WorkerSound(w)' /\ (alone => AloneWorker(w)')
           /\ pc' \in [Workers -> Labels] /\ job' \in [Workers -> Job]
           /\ alone' \in BOOLEAN /\ alone' = alone
           /\ \A v \in Workers \ {w} : pc'[v] = pc[v] /\ job'[v] = job[v]
           /\ \E l \in Labels, j \in Job : Goto(w, l, j)
  <1> DEFINE l == Then(job[w].to)
             j == [job[w] EXCEPT !.to = "RECONCILED", !.from = "NO_ROW"]
             t == job[w].table
             i == job[w].input
  <1>1. /\ job[w] \in Job /\ WorkerSound(w) /\ (alone => AloneWorker(w))
        /\ t \in Tables /\ i \in Inputs
        /\ job[w].to \in {"STAGED", "COMMITTED", "RECONCILED"}
        /\ job[w].to # "STAGED" => commits[t][i] # 0
    BY JobType DEF WorkerSound
  <1>2. Goto(w, l, j)
    BY DEF Marked
  <1>3. /\ j \in Job /\ j.table = t /\ j.input = i /\ j.to = "RECONCILED"
        /\ j.counts = job[w].counts
    BY <1>1 DEF Job, ShardStates
  <1>4. /\ job[w].to = "STAGED" => l = "append"
        /\ job[w].to = "COMMITTED" => l = "mark"
        /\ job[w].to = "RECONCILED" => l = "idle"
    BY DEF Then
  <1>5. l \in Labels
    BY <1>1, <1>4 DEF Labels
  <1> HIDE DEF l, j
  <1>6. /\ pc' \in [Workers -> Labels] /\ job' \in [Workers -> Job]
        /\ alone' \in BOOLEAN /\ alone' = alone /\ pc'[w] = l
        /\ l # "idle" => job'[w] = j
        /\ l = "idle" => job'[w] = NoJob
        /\ \A v \in Workers \ {w} : pc'[v] = pc[v] /\ job'[v] = job[v]
    BY <1>2, <1>3, <1>5, GotoType
  <1>7. WorkerSound(w)' /\ (alone => AloneWorker(w)')
    <2>1. CASE l = "idle"
      BY <1>6, <2>1, IdleSound
    <2>2. CASE l # "idle"
      <3>1. l \in {"append", "mark"} /\ (l = "mark" => commits[t][i] # 0)
        BY <1>1, <1>4, <2>2
      <3>2. WorkerSound(w)'
        BY <1>1, <1>3, <1>6, <2>2, <3>1 DEF WorkerSound
      <3>3. alone => AloneWorker(w)'
        BY <1>1, <1>3, <1>6, <2>2, <3>1 DEF AloneWorker, Holds
      <3> QED
        BY <3>2, <3>3
    <2> QED
      BY <2>1, <2>2
  <1> QED
    BY <1>2, <1>3, <1>5, <1>6, <1>7

LEMMA MarkReadStep == ASSUME SnapInv, NEW w \in Workers, MarkRead(w) PROVE SnapInv'
  <1> DEFINE t == job[w].table
  <1>1. /\ job[w] \in Job /\ WorkerSound(w) /\ (alone => AloneWorker(w))
        /\ UNCHANGED <<registry, log>> /\ pc[w] = "mark"
        /\ t \in Tables /\ shards[t].state # "NO_ROW" /\ shards[t].input = job[w].input
        /\ shards[t].state \in ShardStates
    BY JobType DEF MarkRead, WorkerSound, SnapInv, SnapTypeOK
  <1>2. CASE Marked(w)
    <2>1. /\ WorkerSound(w)' /\ (alone => AloneWorker(w)')
          /\ \E l \in Labels, j \in Job : Goto(w, l, j)
      BY <1>1, <1>2, MarkedSound, Untouched
    <2> QED
      BY <1>1, <2>1, OnStep
  <1>3. CASE Leave(w)
    BY <1>1, <1>3, LeaveStep
  <1>4. CASE /\ <<shards[t].state, job[w].to>> \in ShardMoves
             /\ Goto(w, "marking", [job[w] EXCEPT !.from = shards[t].state])
    <2> DEFINE j == [job[w] EXCEPT !.from = shards[t].state]
    <2>1. /\ j \in Job /\ j.table = t /\ j.input = job[w].input /\ j.to = job[w].to
          /\ j.from = shards[t].state /\ j.counts = job[w].counts
      BY <1>1 DEF Job
    <2> HIDE DEF j
    <2>2. Goto(w, "marking", j)
      BY <1>4 DEF j
    <2>3. pc'[w] = "marking" /\ job'[w] = j
      BY <2>1, <2>2, GotoType DEF Labels
    <2>4. WorkerSound(w)'
      BY <1>1, <1>4, <2>1, <2>3, Untouched DEF WorkerSound
    <2>5. alone => AloneWorker(w)'
      BY <1>1, <2>1, <2>3, Untouched DEF AloneWorker, Holds
    <2> QED
      BY <1>1, <2>1, <2>2, <2>4, <2>5, OnStep DEF Labels
  <1> QED
    BY <1>2, <1>3, <1>4 DEF MarkRead

LEMMA LookTokenStep == ASSUME SnapInv, NEW w \in Workers, LookToken(w) PROVE SnapInv'
  <1> DEFINE t == job[w].table
             i == job[w].input
             n == SnapshotForToken(t, i)
             l == IF n = 0 THEN "write" ELSE "verify"
             j == [job[w] EXCEPT !.snapshot = n]
  <1>1. /\ job[w] \in Job /\ WorkerSound(w) /\ (alone => AloneWorker(w))
        /\ UNCHANGED <<registry, log>> /\ pc[w] = "append" /\ Goto(w, l, j)
        /\ t \in Tables /\ i \in Inputs
        /\ shards[t].state # "NO_ROW" /\ shards[t].input = i
        /\ log[t] \in Seq(Inputs)
    BY JobType DEF LookToken, WorkerSound, SnapInv, SnapTypeOK
  <1>2. n \in Nat
    BY <1>1, FirstType DEF SnapshotForToken
  <1>3. /\ j \in Job /\ j.table = t /\ j.input = i /\ j.snapshot = n
        /\ j.counts = job[w].counts
    BY <1>1, <1>2 DEF Job
  <1>4. l \in Labels /\ l \in {"write", "verify"} /\ (l = "verify" => n # 0)
    BY DEF Labels
  <1>5. n = First(log[t], i)
    BY DEF SnapshotForToken
  <1>6. alone /\ l = "write" => log[t] = <<>>
    <2> SUFFICES ASSUME alone, n = 0, log[t] = <<i>> PROVE FALSE
      BY <1>1 DEF SnapInv, AloneSound, Holds
    <2> QED
      BY <1>5, FirstOfOne
  <1> HIDE DEF n, l, j
  <1>7. pc'[w] = l /\ job'[w] = j
    BY <1>1, <1>3, <1>4, GotoType
  <1>8. WorkerSound(w)'
    BY <1>1, <1>3, <1>4, <1>5, <1>7, Untouched DEF WorkerSound, SnapshotForToken
  <1>9. alone => AloneWorker(w)'
    BY <1>1, <1>3, <1>4, <1>6, <1>7, Untouched DEF AloneWorker, Holds
  <1> QED
    BY <1>1, <1>3, <1>4, <1>8, <1>9, OnStep

(* What the ledger's record takes along. *)
LEMMA RecordedSound ==
    ASSUME SnapInv, NEW w \in Workers, pc[w] \in {"ledger", "record"}, Recorded(w),
           commits'[job[w].table][job[w].input] # 0, shards' = shards, log' = log
    PROVE  /\ WorkerSound(w)' /\ (alone => AloneWorker(w)')
           /\ pc' \in [Workers -> Labels] /\ job' \in [Workers -> Job]
           /\ alone' \in BOOLEAN /\ alone' = alone
           /\ \A v \in Workers \ {w} : pc'[v] = pc[v] /\ job'[v] = job[v]
           /\ \E l \in Labels, j \in Job : Goto(w, l, j)
  <1> DEFINE j == [job[w] EXCEPT !.to = "COMMITTED"]
  <1>1. /\ job[w] \in Job /\ WorkerSound(w) /\ (alone => AloneWorker(w)) /\ Goto(w, "mark", j)
    BY JobType DEF Recorded
  <1>2. /\ j \in Job /\ j.table = job[w].table /\ j.input = job[w].input
        /\ j.to = "COMMITTED" /\ j.counts = job[w].counts
    BY <1>1 DEF Job, ShardStates
  <1> HIDE DEF j
  <1>3. /\ pc' \in [Workers -> Labels] /\ job' \in [Workers -> Job]
        /\ alone' \in BOOLEAN /\ alone' = alone /\ pc'[w] = "mark" /\ job'[w] = j
        /\ \A v \in Workers \ {w} : pc'[v] = pc[v] /\ job'[v] = job[v]
    BY <1>1, <1>2, GotoType DEF Labels
  <1>4. WorkerSound(w)'
    BY <1>1, <1>2, <1>3 DEF WorkerSound
  <1>5. alone => AloneWorker(w)'
    BY <1>1, <1>2, <1>3 DEF AloneWorker, Holds
  <1> QED
    BY <1>1, <1>2, <1>3, <1>4, <1>5 DEF Labels

LEMMA VerifyStep ==
    ASSUME SnapInv, NEW w \in Workers, Verify(w) \/ LedgerLook(w)
    PROVE  SnapInv'
  <1>1. /\ job[w] \in Job /\ WorkerSound(w) /\ (alone => AloneWorker(w))
        /\ UNCHANGED <<registry, log>> /\ pc[w] \in {"verify", "ledger"}
    BY JobType DEF Verify, LedgerLook
  <1>2. CASE Leave(w)
    BY <1>1, <1>2, LeaveStep
  <1>3. ASSUME NEW l \in {"ledger", "record"}, Goto(w, l, job[w]) PROVE SnapInv'
    <2>1. l \in Labels /\ l # "idle"
      BY DEF Labels
    <2>2. pc'[w] = l /\ job'[w] = job[w]
      BY <1>1, <1>3, <2>1, GotoType
    <2>3. WorkerSound(w)'
      BY <1>1, <2>2, Untouched DEF WorkerSound, SnapshotForToken
    <2>4. alone => AloneWorker(w)'
      BY <1>1, <2>2, Untouched DEF AloneWorker, Holds
    <2> QED
      BY <1>1, <1>3, <2>1, <2>3, <2>4, OnStep
  <1>4. CASE LedgerLook(w) /\ Recorded(w) /\ commits[job[w].table][job[w].input] = job[w].snapshot
    <2>1. job[w].snapshot # 0 /\ pc[w] = "ledger"
      BY <1>1, <1>4 DEF WorkerSound, LedgerLook
    <2>2. /\ WorkerSound(w)' /\ (alone => AloneWorker(w)')
          /\ \E l \in Labels, j \in Job : Goto(w, l, j)
      BY <1>1, <1>4, <2>1, RecordedSound, Untouched
    <2> QED
      BY <1>1, <2>2, OnStep
  <1> QED
    BY <1>2, <1>3, <1>4 DEF Verify, LedgerLook

LEMMA AdmitStep ==
    ASSUME SnapInv, NEW w \in Workers,
           CheckShards(w) \/ CheckRows(w) \/ CheckCount(w) \/ ProofLook(w) \/ ReadRevision(w)
    PROVE  SnapInv'
  <1>1. /\ job[w] \in Job /\ WorkerSound(w) /\ (alone => AloneWorker(w))
        /\ UNCHANGED <<registry, log>>
        /\ pc[w] \in {"shards", "rows", "count", "proof", "revision"}
        /\ job[w].to = "CDC_APPLYING"
    BY JobType DEF CheckShards, CheckRows, CheckCount, ProofLook, ReadRevision, WorkerSound
  <1>2. CASE Leave(w)
    BY <1>1, <1>2, LeaveStep
  <1>3. CASE CheckShards(w) /\ Goto(w, "rows", job[w])
    <2>1. pc'[w] = "rows" /\ job'[w] = job[w]
      BY <1>1, <1>3, GotoType DEF Labels
    <2>2. WorkerSound(w)'
      BY <1>1, <2>1 DEF WorkerSound
    <2>3. alone => AloneWorker(w)'
      BY <1>1, <2>1, Untouched DEF AloneWorker, Holds
    <2> QED
      BY <1>1, <1>3, <2>2, <2>3, OnStep DEF Labels
  <1>4. CASE CheckRows(w)
    <2>1. CASE Goto(w, "proof", job[w]) /\ {t \in Tables : job[w].counts[t] = 0} = {}
      <3>1. pc'[w] = "proof" /\ job'[w] = job[w]
        BY <1>1, <2>1, GotoType DEF Labels
      <3>2. WorkerSound(w)'
        BY <1>1, <3>1 DEF WorkerSound
      <3>3. alone => AloneWorker(w)'
        BY <1>1, <2>1, <3>1, Untouched DEF AloneWorker, Holds
      <3> QED
        BY <1>1, <2>1, <3>2, <3>3, OnStep DEF Labels
    <2>2. ASSUME NEW t \in Tables, Holds(t, Source[t]),
                 Goto(w, "count", [job[w] EXCEPT !.table = t])
          PROVE  SnapInv'
      <3> DEFINE j == [job[w] EXCEPT !.table = t]
      <3>1. j \in Job /\ j.table = t /\ j.to = "CDC_APPLYING" /\ j.counts = job[w].counts
        BY <1>1 DEF Job
      <3> HIDE DEF j
      <3>2. Goto(w, "count", j)
        BY <2>2 DEF j
      <3>3. pc'[w] = "count" /\ job'[w] = j
        BY <3>1, <3>2, GotoType DEF Labels
      <3>4. WorkerSound(w)'
        BY <3>1, <3>3 DEF WorkerSound
      <3>5. alone => AloneWorker(w)'
        BY <1>1, <2>2, <3>1, <3>3, Untouched DEF AloneWorker, Holds
      <3> QED
        BY <1>1, <3>1, <3>2, <3>4, <3>5, OnStep DEF Labels
    <2> QED
      BY <1>2, <1>4, <2>1, <2>2 DEF CheckRows
  <1>5. CASE CheckCount(w)
    <2> DEFINE t == job[w].table
               j == [job[w] EXCEPT !.counts[t] = Len(log[t]), !.table = Null]
    <2>1. t \in Tables /\ Len(log[t]) \in Nat /\ pc[w] = "count" /\ Goto(w, "rows", j)
      BY <1>1, <1>5 DEF CheckCount, WorkerSound, SnapInv, SnapTypeOK
    <2>2. job[w].counts \in [Tables -> Nat]
      BY <1>1 DEF Job
    <2>3. /\ j \in Job /\ j.to = "CDC_APPLYING" /\ j.counts[t] = Len(log[t])
          /\ \A u \in Tables \ {t} : j.counts[u] = job[w].counts[u]
      BY <1>1, <2>1, <2>2 DEF Job
    <2> HIDE DEF j
    <2>4. pc'[w] = "rows" /\ job'[w] = j
      BY <2>1, <2>3, GotoType DEF Labels
    <2>5. WorkerSound(w)'
      BY <2>3, <2>4 DEF WorkerSound
    <2>6. alone => AloneWorker(w)'
      <3> SUFFICES ASSUME alone PROVE AloneWorker(w)'
        OBVIOUS
      <3>1. log[t] = <<Source[t]>>
        BY <1>1, <2>1 DEF AloneWorker, Holds
      <3>2. Len(log[t]) = 1
        BY <3>1
      <3> QED
        BY <1>1, <2>3, <2>4, <3>1, <3>2, Untouched DEF AloneWorker, Holds
    <2> QED
      BY <1>1, <2>1, <2>3, <2>5, <2>6, OnStep DEF Labels
  <1>6. ASSUME NEW l \in {"saveproof", "revision"}, Goto(w, l, job[w]), ProofLook(w), Complete
        PROVE  SnapInv'
    <2>1. l \in Labels /\ l # "idle" /\ pc[w] = "proof"
      BY <1>6 DEF Labels, ProofLook
    <2>2. pc'[w] = l /\ job'[w] = job[w]
      BY <1>1, <1>6, <2>1, GotoType
    <2>3. WorkerSound(w)'
      BY <1>1, <1>6, <2>2, Untouched DEF WorkerSound, Complete
    <2>4. alone => AloneWorker(w)'
      BY <1>1, <2>1, <2>2, Untouched DEF AloneWorker, Holds
    <2> QED
      BY <1>1, <1>6, <2>1, <2>3, <2>4, OnStep
  <1>7. CASE ReadRevision(w)
    <2> DEFINE j == [job[w] EXCEPT !.revision = generation.revision]
    <2>1. j \in Job /\ j.to = "CDC_APPLYING" /\ j.counts = job[w].counts
      BY <1>1 DEF SnapInv, SnapTypeOK, Job
    <2> HIDE DEF j
    <2>2. Goto(w, "transition", j)
      BY <1>7 DEF ReadRevision, j
    <2>3. pc'[w] = "transition" /\ job'[w] = j
      BY <2>1, <2>2, GotoType DEF Labels
    <2>4. WorkerSound(w)'
      BY <2>1, <2>3 DEF WorkerSound
    <2>5. alone => AloneWorker(w)'
      BY <1>1, <2>1, <2>3, Untouched DEF AloneWorker, Holds
    <2> QED
      BY <1>1, <2>1, <2>2, <2>4, <2>5, OnStep DEF Labels
  <1> QED
    BY <1>2, <1>3, <1>4, <1>5, <1>6, <1>7 DEF CheckShards, ProofLook

LEMMA TransitionReadStep == ASSUME SnapInv, NEW w \in Workers, TransitionRead(w) PROVE SnapInv'
  <1>1. /\ job[w] \in Job /\ WorkerSound(w) /\ (alone => AloneWorker(w))
        /\ UNCHANGED <<registry, log>> /\ pc[w] = "transition"
    BY JobType DEF TransitionRead
  <1>2. CASE ~MayMove(w)
    <2>1. Leave(w)
      BY <1>2 DEF TransitionRead
    <2> QED
      BY <1>1, <2>1, LeaveStep
  <1>3. CASE MayMove(w)
    <2>1. Goto(w, "advance", job[w])
      BY <1>3 DEF TransitionRead
    <2>2. pc'[w] = "advance" /\ job'[w] = job[w]
      BY <1>1, <2>1, GotoType DEF Labels
    <2>3. /\ generation.revision = job[w].revision /\ generation.revision \in Nat
          /\ <<generation.state, job[w].to>> \in GenerationMoves
          /\ job[w].to = "CDC_APPLYING" => proof # Null
      <3>1. job[w].counts # Null
        BY <1>1, InputAssumption DEF Job
      <3> QED
        BY <1>3, <3>1 DEF MayMove, SnapInv, SnapTypeOK
    <2>4. WorkerSound(w)'
      BY <1>1, <2>2, <2>3, Untouched DEF WorkerSound
    <2>5. alone => AloneWorker(w)'
      BY <1>1, <2>2, Untouched DEF AloneWorker, Holds
    <2> QED
      BY <1>1, <2>1, <2>4, <2>5, OnStep DEF Labels
  <1> QED
    BY <1>2, <1>3

-----------------------------------------------------------------------------
(* The writes. *)

(* The other workers after a write, if with one process at a time they are
   idle. *)
LEMMA OthersAfter ==
    ASSUME SnapInv, NEW w \in Workers, pc[w] # "idle", Advances,
           generation' \in [state : GenerationStates, revision : Nat],
           alone' = alone, WorkerSound(w)', alone => AloneWorker(w)',
           job' \in [Workers -> Job],
           \A v \in Workers \ {w} : pc'[v] = pc[v] /\ job'[v] = job[v]
    PROVE  /\ \A v \in Workers : WorkerSound(v)'
           /\ alone => /\ \A v \in Workers \ {w} : pc'[v] = "idle"
                       /\ \A u, v \in Workers : pc'[u] # "idle" /\ pc'[v] # "idle" => u = v
  <1>1. \A v \in Workers : WorkerSound(v)'
    BY OthersSound
  <1>2. alone => \A v \in Workers \ {w} : pc'[v] = "idle"
    BY ActiveIsOnly DEF OnlyOne
  <1> QED
    BY <1>1, <1>2

LEMMA WriteStep == ASSUME SnapInv, NEW w \in Workers, Write(w) PROVE SnapInv'
  <1> DEFINE t == job[w].table
             i == job[w].input
             n == IF SnapshotForToken(t, i) # 0 THEN SnapshotForToken(t, i) ELSE Len(log[t]) + 1
             j == [job[w] EXCEPT !.snapshot = n]
  <1>1. /\ job[w] \in Job /\ WorkerSound(w) /\ (alone => AloneWorker(w))
        /\ pc[w] = "write" /\ t \in Tables /\ i \in Inputs
        /\ shards[t].state # "NO_ROW" /\ shards[t].input = i
        /\ log \in [Tables -> Seq(Inputs)] /\ log[t] \in Seq(Inputs)
        /\ log' = [log EXCEPT ![t] = Append(@, i)]
        /\ Goto(w, "verify", j) /\ UNCHANGED <<generation, shards, commits, proof>>
        /\ generation.state # "NO_ROW"
    BY JobType DEF Write, WorkerSound, SnapInv, SnapTypeOK, registry
  <1>2. /\ log'[t] = Append(log[t], i) /\ \A u \in Tables \ {t} : log'[u] = log[u]
        /\ log' \in [Tables -> Seq(Inputs)]
    BY <1>1
  <1>3. n \in Nat /\ n # 0 /\ First(log'[t], i) = n
    <2>1. First(log[t], i) \in Nat /\ Len(log[t]) + 1 \in Nat /\ Len(log[t]) + 1 # 0
      BY <1>1, FirstType
    <2> QED
      BY <1>1, <1>2, <2>1, FirstAppend DEF SnapshotForToken
  <1>4. /\ j \in Job /\ j.table = t /\ j.input = i /\ j.snapshot = n
        /\ j.counts = job[w].counts
    BY <1>1, <1>3 DEF Job
  <1> HIDE DEF j, n
  <1>5. /\ pc' \in [Workers -> Labels] /\ job' \in [Workers -> Job]
        /\ alone' \in BOOLEAN /\ alone' = alone /\ pc'[w] = "verify" /\ job'[w] = j
        /\ \A v \in Workers \ {w} : pc'[v] = pc[v] /\ job'[v] = job[v]
    BY <1>1, <1>4, GotoType DEF Labels
  <1>6. SnapTypeOK'
    BY <1>1, <1>2, <1>5 DEF SnapInv, SnapTypeOK
  <1>7. \A u \in Tables, k \in Inputs : First(log[u], k) # 0 => First(log'[u], k) = First(log[u], k)
    BY <1>1, <1>2, FirstAppend
  <1>8. Advances
    BY <1>1, <1>7 DEF Advances, SnapInv, SnapTypeOK
  <1>9. WorkerSound(w)'
    BY <1>1, <1>3, <1>4, <1>5 DEF WorkerSound, SnapshotForToken
  <1>10. alone => log[t] = <<>> /\ log'[t] = <<i>>
    <2> SUFFICES ASSUME alone PROVE log[t] = <<>> /\ log'[t] = <<i>>
      OBVIOUS
    <2>1. log[t] = <<>>
      BY <1>1 DEF AloneWorker
    <2> QED
      BY <1>2, <2>1
  <1>11. alone => /\ proof = Null
                  /\ \A u \in Tables : job[w].counts[u] # 0 => u # t
    <2> SUFFICES ASSUME alone PROVE proof = Null /\ \A u \in Tables : job[w].counts[u] # 0 => u # t
      OBVIOUS
    <2>1. \A u \in Tables : log[u] = <<Source[u]>> => u # t
      BY <1>10, OneIsNotNone, Zenon
    <2> QED
      BY <1>1, <2>1 DEF SnapInv, AloneSound, AloneWorker, Holds
  <1>12. alone => AloneWorker(w)'
    BY <1>1, <1>2, <1>4, <1>5, <1>11 DEF AloneWorker, Holds
  <1>13. /\ \A v \in Workers : WorkerSound(v)'
         /\ alone => /\ \A v \in Workers \ {w} : pc'[v] = "idle"
                     /\ \A u, v \in Workers : pc'[u] # "idle" /\ pc'[v] # "idle" => u = v
    BY <1>1, <1>5, <1>6, <1>8, <1>9, <1>12, OthersAfter DEF SnapTypeOK
  <1>14. LedgerBacked'
    BY <1>1, <1>7 DEF SnapInv, LedgerBacked, SnapshotForToken
  <1>15. AloneSound'
    <2> SUFFICES ASSUME alone PROVE AloneSound'
      BY <1>5 DEF AloneSound
    <2>1. ASSUME NEW v \in Workers \ {w} PROVE AloneWorker(v)'
      <3>1. AloneWorker(v) /\ pc'[v] = "idle" /\ job'[v] = job[v]
        BY <1>5, <1>13 DEF SnapInv, AloneSound
      <3>2. \A u \in Tables : job[v].counts[u] # 0 => u # t
        <4>1. \A u \in Tables : log[u] = <<Source[u]>> => u # t
          BY <1>10, OneIsNotNone, Zenon
        <4> QED
          BY <3>1, <4>1 DEF AloneWorker, Holds
      <3> QED
        BY <1>2, <3>1, <3>2 DEF AloneWorker, Holds
    <2>2. \A u \in Tables :
            log'[u] = <<>> \/ (shards'[u].state # "NO_ROW" /\ log'[u] = <<shards'[u].input>>)
      <3> TAKE u \in Tables
      <3>1. CASE u = t
        BY <1>1, <1>10, <3>1
      <3>2. CASE u # t
        BY <1>1, <1>2, <3>2 DEF SnapInv, AloneSound, Holds
      <3> QED
        BY <3>1, <3>2
    <2> QED
      BY <1>1, <1>11, <1>12, <1>13, <2>1, <2>2 DEF AloneSound, Holds
  <1> QED
    BY <1>1, <1>6, <1>13, <1>14, <1>15 DEF SnapInv

(* A write of the registry: the rows of the tables are left alone. *)
LEMMA RegistryStep ==
    ASSUME SnapInv, NEW w \in Workers, pc[w] # "idle", log' = log, alone' = alone,
           pc' \in [Workers -> Labels], job' \in [Workers -> Job],
           \A v \in Workers \ {w} : pc'[v] = pc[v] /\ job'[v] = job[v],
           SnapTypeOK', LedgerBacked', Advances, WorkerSound(w)', alone => AloneWorker(w)',
           generation'.state # "NO_ROW",
           \A t \in Tables : shards'[t].state # "NO_ROW" => shards'[t].input \in Inputs,
           alone /\ proof' # Null => \A t \in Tables : proof'[t] = 1 /\ Holds(t, Source[t])
    PROVE  SnapInv'
  <1>1. /\ \A v \in Workers : WorkerSound(v)'
        /\ alone => /\ \A v \in Workers \ {w} : pc'[v] = "idle"
                    /\ \A u, v \in Workers : pc'[u] # "idle" /\ pc'[v] # "idle" => u = v
    BY OthersAfter DEF SnapTypeOK
  <1>2. AloneSound'
    <2> SUFFICES ASSUME alone PROVE AloneSound'
      BY DEF AloneSound
    <2>1. \A v \in Workers \ {w} : AloneWorker(v)'
      <3> TAKE v \in Workers \ {w}
      <3>1. AloneWorker(v) /\ pc'[v] = pc[v] /\ job'[v] = job[v]
        BY DEF SnapInv, AloneSound
      <3> QED
        BY <3>1 DEF AloneWorker, Holds
    <2>2. \A t \in Tables :
            log'[t] = <<>> \/ (shards'[t].state # "NO_ROW" /\ log'[t] = <<shards'[t].input>>)
      BY DEF SnapInv, AloneSound, Advances, Holds
    <2> QED
      BY <1>1, <2>1, <2>2 DEF AloneSound, Holds
  <1> QED
    BY <1>1, <1>2 DEF SnapInv

LEMMA ClaimInsertStep == ASSUME SnapInv, NEW w \in Workers, ClaimInsert(w) PROVE SnapInv'
  <1> DEFINE t == job[w].table
             i == job[w].input
  <1>1. /\ job[w] \in Job /\ WorkerSound(w) /\ (alone => AloneWorker(w))
        /\ pc[w] = "insert" /\ t \in Tables /\ i \in Inputs
        /\ UNCHANGED <<generation, commits, proof, log>> /\ generation.state # "NO_ROW"
    BY JobType DEF ClaimInsert, WorkerSound
  <1>2. CASE shards[t].state # "NO_ROW"
    <2>1. Leave(w) /\ UNCHANGED <<registry, log>>
      BY <1>1, <1>2 DEF ClaimInsert, registry
    <2> QED
      BY <1>1, <2>1, LeaveStep
  <1>3. CASE shards[t].state = "NO_ROW"
    <2>1. /\ shards' = [shards EXCEPT ![t] = [state |-> "CLAIMED", input |-> i]]
          /\ Goto(w, "look", job[w])
      BY <1>3 DEF ClaimInsert
    <2>2. /\ pc' \in [Workers -> Labels] /\ job' \in [Workers -> Job]
          /\ alone' \in BOOLEAN /\ alone' = alone /\ pc'[w] = "look" /\ job'[w] = job[w]
          /\ \A v \in Workers \ {w} : pc'[v] = pc[v] /\ job'[v] = job[v]
      BY <1>1, <2>1, GotoType DEF Labels
    <2>3. /\ shards' \in [Tables -> [state : ShardStates, input : Inputs \cup {Null}]]
          /\ shards'[t].state = "CLAIMED" /\ shards'[t].input = i
          /\ \A u \in Tables \ {t} : shards'[u] = shards[u]
      BY <1>1, <2>1 DEF SnapInv, SnapTypeOK, ShardStates
    <2>4. SnapTypeOK'
      BY <1>1, <2>2, <2>3 DEF SnapInv, SnapTypeOK
    <2>5. LedgerBacked'
      BY <1>1, <1>3, <2>3 DEF SnapInv, LedgerBacked, SnapshotForToken
    <2>6. Advances
      <3>1. /\ generation'.revision = generation.revision /\ generation'.state = generation.state
            /\ generation.revision \in Nat /\ proof' = proof /\ log' = log /\ commits' = commits
        BY <1>1 DEF SnapInv, SnapTypeOK
      <3>2. \A u \in Tables :
              shards[u].state # "NO_ROW" => shards'[u] = shards[u]
        BY <1>3, <2>3
      <3> QED
        BY <3>1, <3>2 DEF Advances
    <2>7. WorkerSound(w)'
      BY <1>1, <2>2 DEF WorkerSound
    <2>8. alone => AloneWorker(w)'
      BY <1>1, <2>2 DEF AloneWorker, Holds
    <2>9. \A u \in Tables : shards'[u].state # "NO_ROW" => shards'[u].input \in Inputs
      BY <1>1, <2>3 DEF SnapInv
    <2>10. alone /\ proof' # Null => \A u \in Tables : proof'[u] = 1 /\ Holds(u, Source[u])
      BY <1>1 DEF SnapInv, AloneSound
    <2> QED
      BY <1>1, <2>2, <2>4, <2>5, <2>6, <2>7, <2>8, <2>9, <2>10, RegistryStep
  <1> QED
    BY <1>2, <1>3

LEMMA MarkWriteStep == ASSUME SnapInv, NEW w \in Workers, MarkWrite(w) PROVE SnapInv'
  <1> DEFINE t == job[w].table
             i == job[w].input
  <1>1. /\ job[w] \in Job /\ WorkerSound(w) /\ (alone => AloneWorker(w))
        /\ pc[w] = "marking" /\ t \in Tables /\ i \in Inputs /\ Marked(w)
        /\ UNCHANGED <<generation, commits, proof, log>> /\ generation.state # "NO_ROW"
        /\ shards[t].state # "NO_ROW" /\ shards[t].input = i
        /\ <<job[w].from, job[w].to>> \in ShardMoves
        /\ job[w].to # "STAGED" => commits[t][i] # 0
    BY JobType DEF MarkWrite, WorkerSound
  <1>2. /\ job[w].from # "RECONCILED" /\ job[w].from # "NO_ROW"
        /\ job[w].to \in {"STAGED", "COMMITTED", "RECONCILED"}
    BY <1>1 DEF ShardMoves
  <1>3. /\ shards' \in [Tables -> [state : ShardStates, input : Inputs \cup {Null}]]
        /\ \A u \in Tables \ {t} : shards'[u] = shards[u]
        /\ shards'[t].input = i
        /\ \/ shards'[t].state = shards[t].state
           \/ shards'[t].state = job[w].to /\ shards[t].state = job[w].from
    <2>1. shards \in [Tables -> [state : ShardStates, input : Inputs \cup {Null}]]
      BY DEF SnapInv, SnapTypeOK
    <2>2. CASE SameState(w)
      <3>1. shards' = [shards EXCEPT ![t].state = job[w].to] /\ shards[t].state = job[w].from
        BY <2>2 DEF MarkWrite, SameState
      <3> QED
        BY <1>1, <1>2, <2>1, <3>1 DEF ShardStates
    <2>3. CASE ~SameState(w)
      BY <1>1, <2>1, <2>3 DEF MarkWrite
    <2> QED
      BY <2>2, <2>3
  <1>4. shards'[t].state # "NO_ROW"
    BY <1>1, <1>2, <1>3
  <1>5. /\ WorkerSound(w)' /\ (alone => AloneWorker(w)')
        /\ pc' \in [Workers -> Labels] /\ job' \in [Workers -> Job]
        /\ alone' \in BOOLEAN /\ alone' = alone
        /\ \A v \in Workers \ {w} : pc'[v] = pc[v] /\ job'[v] = job[v]
    BY <1>1, <1>3, <1>4, MarkedSound
  <1>6. SnapTypeOK'
    BY <1>1, <1>3, <1>5 DEF SnapInv, SnapTypeOK
  <1>7. shards[t].state = "RECONCILED" => shards'[t].state = "RECONCILED"
    BY <1>2, <1>3
  <1>8. LedgerBacked'
    <2>1. \A u \in Tables :
            shards'[u].state \in {"COMMITTED", "RECONCILED"} => commits[u][shards'[u].input] # 0
      <3> TAKE u \in Tables
      <3>1. CASE u = t
        <4>1. shards'[t].state = shards[t].state => commits[t][i] # 0 \/ shards'[t].state \notin {"COMMITTED", "RECONCILED"}
          BY <1>1 DEF SnapInv, LedgerBacked
        <4> QED
          BY <1>1, <1>3, <3>1, <4>1
      <3>2. CASE u # t
        BY <1>3, <3>2 DEF SnapInv, LedgerBacked
      <3> QED
        BY <3>1, <3>2
    <2>2. proof # Null => \A u \in Tables : shards'[u].state = "RECONCILED"
      BY <1>3, <1>7 DEF SnapInv, LedgerBacked
    <2> QED
      BY <1>1, <2>1, <2>2 DEF SnapInv, LedgerBacked, SnapshotForToken
  <1>9. Advances
    <2>1. \A u \in Tables :
            /\ shards[u].state # "NO_ROW" =>
                 shards'[u].state # "NO_ROW" /\ shards'[u].input = shards[u].input
            /\ shards[u].state = "RECONCILED" => shards'[u].state = "RECONCILED"
      BY <1>1, <1>3, <1>4, <1>7
    <2> QED
      BY <1>1, <2>1 DEF Advances, SnapInv, SnapTypeOK
  <1>10. \A u \in Tables : shards'[u].state # "NO_ROW" => shards'[u].input \in Inputs
    BY <1>1, <1>3 DEF SnapInv
  <1>11. alone /\ proof' # Null => \A u \in Tables : proof'[u] = 1 /\ Holds(u, Source[u])
    BY <1>1 DEF SnapInv, AloneSound
  <1> QED
    BY <1>1, <1>5, <1>6, <1>8, <1>9, <1>10, <1>11, RegistryStep

LEMMA LedgerInsertStep == ASSUME SnapInv, NEW w \in Workers, LedgerInsert(w) PROVE SnapInv'
  <1> DEFINE t == job[w].table
             i == job[w].input
  <1>1. /\ job[w] \in Job /\ WorkerSound(w) /\ (alone => AloneWorker(w))
        /\ pc[w] = "record" /\ t \in Tables /\ i \in Inputs
        /\ UNCHANGED <<generation, shards, proof, log>> /\ generation.state # "NO_ROW"
        /\ job[w].snapshot = First(log[t], i) /\ job[w].snapshot # 0
    BY JobType DEF LedgerInsert, WorkerSound, SnapshotForToken
  <1>2. CASE commits[t][i] # 0
    <2>1. Leave(w) /\ UNCHANGED <<registry, log>>
      BY <1>1, <1>2 DEF LedgerInsert, registry
    <2> QED
      BY <1>1, <2>1, LeaveStep
  <1>3. CASE commits[t][i] = 0
    <2>1. commits' = [commits EXCEPT ![t][i] = job[w].snapshot] /\ Recorded(w)
      BY <1>3 DEF LedgerInsert
    <2>2. commits \in [Tables -> [Inputs -> Nat]] /\ job[w].snapshot \in Nat
      BY <1>1 DEF SnapInv, SnapTypeOK, Job
    <2>3. /\ commits' \in [Tables -> [Inputs -> Nat]]
          /\ commits'[t][i] = First(log[t], i) /\ commits'[t][i] # 0
          /\ \A u \in Tables, k \in Inputs :
               u # t \/ k # i => commits'[u][k] = commits[u][k]
      BY <1>1, <2>1, <2>2
    <2>4. /\ WorkerSound(w)' /\ (alone => AloneWorker(w)')
          /\ pc' \in [Workers -> Labels] /\ job' \in [Workers -> Job]
          /\ alone' \in BOOLEAN /\ alone' = alone
          /\ \A v \in Workers \ {w} : pc'[v] = pc[v] /\ job'[v] = job[v]
      BY <1>1, <2>1, <2>3, RecordedSound
    <2>5. SnapTypeOK'
      BY <1>1, <2>3, <2>4 DEF SnapInv, SnapTypeOK
    <2>6. \A u \in Tables, k \in Inputs : commits[u][k] # 0 => commits'[u][k] # 0
      BY <2>3
    <2>7. LedgerBacked'
      <3>1. \A u \in Tables, k \in Inputs : commits'[u][k] # 0 => commits'[u][k] = First(log[u], k)
        <4> TAKE u \in Tables, k \in Inputs
        <4>1. CASE u = t /\ k = i
          BY <2>3, <4>1
        <4>2. CASE u # t \/ k # i
          BY <2>3, <4>2 DEF SnapInv, LedgerBacked, SnapshotForToken
        <4> QED
          BY <4>1, <4>2
      <3>2. \A u \in Tables :
              shards[u].state \in {"COMMITTED", "RECONCILED"} => commits'[u][shards[u].input] # 0
        <4> TAKE u \in Tables
        <4> HAVE shards[u].state \in {"COMMITTED", "RECONCILED"}
        <4>1. shards[u].input \in Inputs /\ commits[u][shards[u].input] # 0
          BY DEF SnapInv, LedgerBacked
        <4> QED
          BY <2>6, <4>1
      <3> QED
        BY <1>1, <3>1, <3>2 DEF SnapInv, LedgerBacked, SnapshotForToken
    <2>8. Advances
      BY <1>1, <2>6 DEF Advances, SnapInv, SnapTypeOK
    <2>9. alone /\ proof' # Null => \A u \in Tables : proof'[u] = 1 /\ Holds(u, Source[u])
      BY <1>1 DEF SnapInv, AloneSound
    <2>10. \A u \in Tables : shards'[u].state # "NO_ROW" => shards'[u].input \in Inputs
      BY <1>1 DEF SnapInv
    <2> QED
      BY <1>1, <2>4, <2>5, <2>7, <2>8, <2>9, <2>10, RegistryStep
  <1> QED
    BY <1>2, <1>3

LEMMA ProofInsertStep == ASSUME SnapInv, NEW w \in Workers, ProofInsert(w) PROVE SnapInv'
  <1>1. /\ job[w] \in Job /\ WorkerSound(w) /\ (alone => AloneWorker(w))
        /\ pc[w] = "saveproof" /\ Complete /\ job[w].to = "CDC_APPLYING"
        /\ UNCHANGED <<generation, shards, commits, log>> /\ generation.state # "NO_ROW"
    BY JobType DEF ProofInsert, WorkerSound
  <1>2. CASE proof # Null
    <2>1. Leave(w) /\ UNCHANGED <<registry, log>>
      BY <1>1, <1>2 DEF ProofInsert, registry
    <2> QED
      BY <1>1, <2>1, LeaveStep
  <1>3. CASE proof = Null
    <2>1. proof' = job[w].counts /\ Goto(w, "revision", job[w])
      BY <1>3 DEF ProofInsert
    <2>2. /\ pc' \in [Workers -> Labels] /\ job' \in [Workers -> Job]
          /\ alone' \in BOOLEAN /\ alone' = alone /\ pc'[w] = "revision" /\ job'[w] = job[w]
          /\ \A v \in Workers \ {w} : pc'[v] = pc[v] /\ job'[v] = job[v]
      BY <1>1, <2>1, GotoType DEF Labels
    <2>3. job[w].counts \in [Tables -> Nat] /\ job[w].counts # Null
      BY <1>1, InputAssumption DEF Job
    <2>4. SnapTypeOK'
      BY <1>1, <2>1, <2>2, <2>3 DEF SnapInv, SnapTypeOK
    <2>5. LedgerBacked'
      BY <1>1, <2>1, <2>3 DEF SnapInv, LedgerBacked, SnapshotForToken, Complete
    <2>6. Advances
      BY <1>1, <1>3 DEF Advances, SnapInv, SnapTypeOK
    <2>7. WorkerSound(w)'
      BY <1>1, <2>2 DEF WorkerSound
    <2>8. alone => AloneWorker(w)'
      BY <1>1, <2>2 DEF AloneWorker, Holds
    <2>9. alone /\ proof' # Null => \A t \in Tables : proof'[t] = 1 /\ Holds(t, Source[t])
      BY <1>1, <2>1 DEF AloneWorker
    <2>10. \A t \in Tables : shards'[t].state # "NO_ROW" => shards'[t].input \in Inputs
      BY <1>1 DEF SnapInv
    <2> QED
      BY <1>1, <2>2, <2>4, <2>5, <2>6, <2>7, <2>8, <2>9, <2>10, RegistryStep
  <1> QED
    BY <1>2, <1>3

LEMMA TransitionWriteStep == ASSUME SnapInv, NEW w \in Workers, TransitionWrite(w) PROVE SnapInv'
  <1>1. /\ job[w] \in Job /\ WorkerSound(w) /\ pc[w] = "advance" /\ Leave(w)
        /\ UNCHANGED <<shards, commits, proof, log>> /\ generation.state # "NO_ROW"
        /\ generation \in [state : GenerationStates, revision : Nat]
        /\ job[w].to = "CDC_APPLYING" => proof # Null
        /\ job[w].revision \in Nat
    BY JobType DEF TransitionWrite, WorkerSound, SnapInv, SnapTypeOK, Job
  <1>2. CASE generation.revision # job[w].revision
    <2>1. UNCHANGED <<registry, log>>
      BY <1>1, <1>2 DEF TransitionWrite, registry
    <2> QED
      BY <1>1, <2>1, LeaveStep
  <1>3. CASE generation.revision = job[w].revision
    <2>1. generation' = [state |-> job[w].to, revision |-> job[w].revision + 1]
      BY <1>3 DEF TransitionWrite
    <2>2. <<generation.state, job[w].to>> \in GenerationMoves
      BY <1>1, <1>3 DEF WorkerSound
    <2>3. /\ generation' \in [state : GenerationStates, revision : Nat]
          /\ generation'.state = job[w].to /\ generation'.state # "NO_ROW"
          /\ generation'.revision > generation.revision
      BY <1>1, <1>3, <2>1, <2>2 DEF GenerationMoves, GenerationStates
    <2>4. /\ pc' \in [Workers -> Labels] /\ job' \in [Workers -> Job]
          /\ alone' \in BOOLEAN /\ alone' = alone /\ pc'[w] = "idle" /\ job'[w] = NoJob
          /\ \A v \in Workers \ {w} : pc'[v] = pc[v] /\ job'[v] = job[v]
      BY <1>1, NoJobType, GotoType DEF Leave, Labels
    <2>5. WorkerSound(w)' /\ AloneWorker(w)'
      BY <2>4, IdleSound
    <2>6. SnapTypeOK'
      BY <1>1, <2>3, <2>4 DEF SnapInv, SnapTypeOK
    <2>7. LedgerBacked'
      BY <1>1, <2>3 DEF SnapInv, LedgerBacked, SnapshotForToken
    <2>8. Advances
      BY <1>1, <2>3 DEF Advances
    <2>9. alone /\ proof' # Null => \A t \in Tables : proof'[t] = 1 /\ Holds(t, Source[t])
      BY <1>1 DEF SnapInv, AloneSound
    <2>10. \A t \in Tables : shards'[t].state # "NO_ROW" => shards'[t].input \in Inputs
      BY <1>1 DEF SnapInv
    <2> QED
      BY <1>1, <2>3, <2>4, <2>5, <2>6, <2>7, <2>8, <2>9, <2>10, RegistryStep
  <1> QED
    BY <1>2, <1>3

LEMMA RegisterStep == ASSUME SnapInv, Register PROVE SnapInv'
  <1>1. /\ \A w \in Workers : pc[w] = "idle"
        /\ generation' = [state |-> "CREATED", revision |-> 0]
        /\ generation'.state = "CREATED"
        /\ UNCHANGED <<alone, shards, commits, proof, log, pc, job>>
    BY DEF Register, SnapInv
  <1>2. SnapTypeOK'
    BY <1>1 DEF SnapInv, SnapTypeOK, GenerationStates
  <1>3. LedgerBacked'
    BY <1>1 DEF SnapInv, LedgerBacked, SnapshotForToken
  <1>4. AloneSound'
    BY <1>1 DEF SnapInv, AloneSound, AloneWorker, Holds
  <1>5. \A w \in Workers : WorkerSound(w)'
    BY <1>1 DEF WorkerSound
  <1> QED
    BY <1>1, <1>2, <1>3, <1>4, <1>5 DEF SnapInv

LEMMA StutterStep == ASSUME SnapInv, UNCHANGED vars PROVE SnapInv'
  <1>1. UNCHANGED <<alone, generation, shards, commits, proof, log, pc, job>>
    BY DEF vars, registry
  <1>2. SnapTypeOK' /\ LedgerBacked'
    BY <1>1 DEF SnapInv, SnapTypeOK, LedgerBacked, SnapshotForToken
  <1>3. AloneSound'
    BY <1>1 DEF SnapInv, AloneSound, AloneWorker, Holds
  <1>4. \A w \in Workers : WorkerSound(w)'
    BY <1>1 DEF SnapInv, WorkerSound, SnapshotForToken, Complete
  <1> QED
    BY <1>1, <1>2, <1>3, <1>4 DEF SnapInv

LEMMA NextStep == SnapInv /\ [Next]_vars => SnapInv'
  <1> SUFFICES ASSUME SnapInv, [Next]_vars PROVE SnapInv'
    OBVIOUS
  <1>1. CASE Register
    BY <1>1, RegisterStep
  <1>2. ASSUME NEW w \in Workers, Call(w) PROVE SnapInv'
    BY <1>2, CallStep
  <1>3. ASSUME NEW w \in Workers, Work(w) PROVE SnapInv'
    BY <1>3, ClaimStep, ClaimInsertStep, MarkReadStep, MarkWriteStep, LookTokenStep, WriteStep,
       VerifyStep, LedgerInsertStep, AdmitStep, ProofInsertStep, TransitionReadStep,
       TransitionWriteStep DEF Work
  <1>4. ASSUME NEW w \in Workers, Die(w) PROVE SnapInv'
    BY <1>4, LeaveStep DEF Die
  <1> QED
    BY <1>1, <1>2, <1>3, <1>4, StutterStep DEF Next, Live

-----------------------------------------------------------------------------
(* SnapInv holds of every reachable state. *)
THEOREM Invariance == Spec => []SnapInv
  BY InitInv, NextStep, PTL DEF Spec

(* The registry's commits, shard states, proof and generation state tell the
   truth about the Iceberg tables, for any number of loading processes that
   interleave anywhere and die anywhere (record_target_commit,
   mark_shard_state, record_admission_proof and transition). *)
THEOREM LedgerIsTrue == Spec => []LedgerBacked
  <1>1. SnapInv => LedgerBacked
    BY DEF SnapInv
  <1> QED
    BY <1>1, Invariance, PTL

(* With one process at a time, load_shard appends the rows of a shard once,
   whatever deaths and repetitions come between, and the generation
   admit_snapshot admits holds the source's snapshot and nothing else. *)
THEOREM LoadedOnce == Spec => []OnceIfAlone
  <1>1. SnapInv => OnceIfAlone
    <2> SUFFICES ASSUME SnapInv, alone PROVE OnceIfAlone
      BY DEF OnceIfAlone
    <2>1. \A t \in Tables : Len(log[t]) <= 1
      <3> TAKE t \in Tables
      <3>1. CASE log[t] = <<>>
        BY <3>1
      <3>2. CASE log[t] = <<shards[t].input>>
        BY <3>2
      <3> QED
        BY <3>1, <3>2 DEF SnapInv, AloneSound, Holds
    <2>2. generation.state = "CDC_APPLYING" =>
             \A t \in Tables : log[t] = <<Source[t]>> /\ proof[t] = 1
      BY DEF SnapInv, AloneSound, LedgerBacked, Holds
    <2> QED
      BY <2>1, <2>2 DEF OnceIfAlone
  <1> QED
    BY <1>1, Invariance, PTL

(* What the promise sees. *)
Landed == {t \in Tables : log[t] # <<>>}
Reconciled == {t \in Tables : shards[t].state = "RECONCILED"}
Admitted == generation.state = "CDC_APPLYING"

LEMMA SeenUnchanged ==
    ASSUME UNCHANGED <<log, shards, generation>>
    PROVE  Landed' = Landed /\ Reconciled' = Reconciled /\ Admitted' = Admitted
  BY DEF Landed, Reconciled, Admitted

LEMMA Writes ==
    ASSUME SnapInv, NEW w \in Workers, Write(w)
    PROVE  \E t \in Tables : /\ Landed' = Landed \cup {t}
                            /\ Reconciled' = Reconciled /\ Admitted' = Admitted
  <1> DEFINE t == job[w].table
  <1>1. /\ t \in Tables /\ job[w].input \in Inputs /\ log \in [Tables -> Seq(Inputs)]
        /\ log' = [log EXCEPT ![t] = Append(@, job[w].input)]
        /\ UNCHANGED <<shards, generation>>
    BY JobType DEF Write, WorkerSound, SnapInv, SnapTypeOK, registry
  <1>2. /\ log'[t] = Append(log[t], job[w].input) /\ log'[t] # <<>>
        /\ \A u \in Tables \ {t} : log'[u] = log[u]
    <2>1. /\ log'[t] = Append(log[t], job[w].input) /\ log[t] \in Seq(Inputs)
          /\ \A u \in Tables \ {t} : log'[u] = log[u]
      BY <1>1
    <2>2. Len(log'[t]) = Len(log[t]) + 1 /\ Len(log[t]) \in Nat /\ Len(<<>>) = 0
      BY <1>1, <2>1
    <2> QED
      BY <2>1, <2>2
  <1>3. Landed' = Landed \cup {t}
    BY <1>1, <1>2 DEF Landed
  <1> QED
    BY <1>1, <1>3 DEF Reconciled, Admitted

LEMMA Marks ==
    ASSUME SnapInv, NEW w \in Workers, MarkWrite(w)
    PROVE  /\ Landed' = Landed /\ Admitted' = Admitted
           /\ \/ Reconciled' = Reconciled
              \/ \E t \in Landed : Reconciled' = Reconciled \cup {t}
  <1> DEFINE t == job[w].table
             i == job[w].input
  <1>1. /\ t \in Tables /\ i \in Inputs /\ UNCHANGED <<generation, log>>
        /\ job[w].to # "STAGED" => commits[t][i] # 0
        /\ <<job[w].from, job[w].to>> \in ShardMoves
        /\ log[t] \in Seq(Inputs)
        /\ shards \in [Tables -> [state : ShardStates, input : Inputs \cup {Null}]]
        /\ job[w].to \in ShardStates \cup GenerationStates
    BY JobType DEF MarkWrite, WorkerSound, SnapInv, SnapTypeOK, Job
  <1>2. Landed' = Landed /\ Admitted' = Admitted
    BY <1>1 DEF Landed, Admitted
  <1>3. CASE ~SameState(w)
    BY <1>2, <1>3 DEF MarkWrite, Reconciled
  <1>4. CASE SameState(w)
    <2>1. /\ shards' = [shards EXCEPT ![t].state = job[w].to]
          /\ shards[t].state = job[w].from /\ shards[t].state # "RECONCILED"
      BY <1>1, <1>4 DEF MarkWrite, SameState, ShardMoves
    <2>2. /\ shards'[t].state = job[w].to
          /\ \A u \in Tables \ {t} : shards'[u] = shards[u]
      BY <1>1, <2>1
    <2>3. CASE job[w].to # "RECONCILED"
      <3>1. Reconciled' = Reconciled
        BY <1>1, <2>1, <2>2, <2>3 DEF Reconciled
      <3> QED
        BY <1>2, <3>1
    <2>4. CASE job[w].to = "RECONCILED"
      <3>1. Reconciled' = Reconciled \cup {t}
        BY <1>1, <2>2, <2>4 DEF Reconciled
      <3>2. First(log[t], i) # 0
        BY <1>1, <2>4 DEF SnapInv, LedgerBacked, SnapshotForToken
      <3>3. t \in Landed
        BY <1>1, <3>2, FirstType DEF Landed
      <3> QED
        BY <1>2, <3>1, <3>3
    <2> QED
      BY <2>3, <2>4
  <1> QED
    BY <1>3, <1>4

LEMMA Admits ==
    ASSUME SnapInv, NEW w \in Workers, TransitionWrite(w)
    PROVE  /\ Landed' = Landed /\ Reconciled' = Reconciled
           /\ \/ Admitted' = Admitted
              \/ Reconciled = Tables /\ Admitted' = TRUE
  <1>1. /\ UNCHANGED <<shards, log>> /\ pc[w] = "advance" /\ WorkerSound(w)
        /\ job[w].revision \in Nat
    BY JobType DEF TransitionWrite, Job
  <1>2. Landed' = Landed /\ Reconciled' = Reconciled
    BY <1>1 DEF Landed, Reconciled
  <1>3. CASE generation.revision # job[w].revision
    BY <1>2, <1>3 DEF TransitionWrite, Admitted
  <1>4. CASE generation.revision = job[w].revision
    <2>1. /\ generation'.state = job[w].to
          /\ <<generation.state, job[w].to>> \in GenerationMoves
      BY <1>1, <1>4 DEF TransitionWrite, WorkerSound
    <2>2. CASE job[w].to = "CDC_APPLYING"
      <3>1. Reconciled = Tables
        BY <1>1, <2>2 DEF WorkerSound, SnapInv, LedgerBacked, Reconciled
      <3> QED
        BY <1>2, <2>1, <2>2, <3>1 DEF Admitted
    <2>3. CASE job[w].to # "CDC_APPLYING"
      BY <1>2, <2>1, <2>3 DEF Admitted, GenerationMoves
    <2> QED
      BY <2>2, <2>3
  <1> QED
    BY <1>3, <1>4

(* No other step shows. *)
LEMMA Others ==
    ASSUME SnapInv, [Next]_vars,
           \A w \in Workers : ~Write(w) /\ ~MarkWrite(w) /\ ~TransitionWrite(w)
    PROVE  Landed' = Landed /\ Reconciled' = Reconciled /\ Admitted' = Admitted
  <1>1. CASE UNCHANGED <<log, shards, generation>>
    BY <1>1, SeenUnchanged
  <1>2. CASE Register
    <2>1. /\ UNCHANGED <<shards, log>> /\ generation.state = "NO_ROW"
          /\ generation'.state = "CREATED"
      BY <1>2 DEF Register
    <2> QED
      BY <2>1 DEF Landed, Reconciled, Admitted
  <1>3. ASSUME NEW w \in Workers, ClaimInsert(w)
        PROVE  Landed' = Landed /\ Reconciled' = Reconciled /\ Admitted' = Admitted
    <2> DEFINE t == job[w].table
    <2>1. /\ t \in Tables /\ UNCHANGED <<log, generation>>
          /\ shards \in [Tables -> [state : ShardStates, input : Inputs \cup {Null}]]
      BY <1>3, JobType DEF ClaimInsert, WorkerSound, SnapInv, SnapTypeOK
    <2>2. \A u \in Tables : shards'[u].state = "RECONCILED" <=> shards[u].state = "RECONCILED"
      BY <1>3, <2>1 DEF ClaimInsert
    <2> QED
      BY <2>1, <2>2 DEF Landed, Reconciled, Admitted
  <1>4. ASSUME NEW w \in Workers, Call(w) PROVE UNCHANGED <<log, shards, generation>>
    BY <1>4 DEF Call, CallStart, CallLoad, CallAdmit, Begin, registry
  <1>5. ASSUME NEW w \in Workers, Die(w) PROVE UNCHANGED <<log, shards, generation>>
    BY <1>5 DEF Die, registry
  <1>6. ASSUME NEW w \in Workers, Work(w), ~ClaimInsert(w)
        PROVE  UNCHANGED <<log, shards, generation>>
    BY <1>6 DEF Work, ClaimState, ClaimLook, MarkRead, LookToken, Verify, LedgerLook,
       LedgerInsert, CheckShards, CheckRows, CheckCount, ProofLook, ProofInsert,
       ReadRevision, TransitionRead, registry
  <1>7. CASE UNCHANGED vars
    BY <1>1, <1>7 DEF vars, registry
  <1> QED
    BY <1>1, <1>2, <1>3, <1>4, <1>5, <1>6, <1>7 DEF Next, Live

(* Loading implements the promise: rows land by append_snapshot, a shard is
   reconciled by mark_shard_state only after its rows landed, and the generation
   is admitted by transition only once every shard is. *)
THEOREM Refinement == Spec => ImplementsAdmittedSnapshot
  <1>1. Init => Promised!Init
    BY DEF Init, Promised!Init
  <1>2. SnapInv /\ [Next]_vars => [Promised!Next]_(Promised!vars)
    <2> SUFFICES ASSUME SnapInv, [Next]_vars PROVE [Promised!Next]_(Promised!vars)
      OBVIOUS
    <2>1. ASSUME NEW w \in Workers, Write(w) PROVE Promised!Next
      <3>1. PICK t \in Tables : Landed' = Landed \cup {t} /\ Reconciled' = Reconciled
                               /\ Admitted' = Admitted
        BY <2>1, Writes
      <3>2. Promised!Land(t)
        BY <3>1 DEF Promised!Land, Landed, Reconciled, Admitted
      <3> QED
        BY <3>2 DEF Promised!Next
    <2>2. ASSUME NEW w \in Workers, MarkWrite(w) PROVE [Promised!Next]_(Promised!vars)
      <3>1. Landed' = Landed /\ Admitted' = Admitted
        BY <2>2, Marks
      <3>2. CASE Reconciled' = Reconciled
        BY <3>1, <3>2 DEF Promised!vars, Landed, Reconciled, Admitted
      <3>3. ASSUME NEW t \in Landed, Reconciled' = Reconciled \cup {t}
            PROVE  [Promised!Next]_(Promised!vars)
        <4>1. t \in Tables /\ Promised!Reconcile(t)
          BY <3>1, <3>3 DEF Promised!Reconcile, Landed, Reconciled, Admitted
        <4> QED
          BY <4>1 DEF Promised!Next
      <3> QED
        BY <2>2, <3>2, <3>3, Marks
    <2>3. ASSUME NEW w \in Workers, TransitionWrite(w) PROVE [Promised!Next]_(Promised!vars)
      <3>1. Landed' = Landed /\ Reconciled' = Reconciled
        BY <2>3, Admits
      <3>2. CASE Admitted' = Admitted
        BY <3>1, <3>2 DEF Promised!vars, Landed, Reconciled, Admitted
      <3>3. CASE Reconciled = Tables /\ Admitted' = TRUE
        <4>1. Promised!Admit
          BY <3>1, <3>3 DEF Promised!Admit, Landed, Reconciled, Admitted
        <4> QED
          BY <4>1 DEF Promised!Next
      <3> QED
        BY <2>3, <3>2, <3>3, Admits
    <2>4. CASE \A w \in Workers : ~Write(w) /\ ~MarkWrite(w) /\ ~TransitionWrite(w)
      <3>1. Landed' = Landed /\ Reconciled' = Reconciled /\ Admitted' = Admitted
        BY <2>4, Others
      <3> QED
        BY <3>1 DEF Promised!vars, Landed, Reconciled, Admitted
    <2> QED
      BY <2>1, <2>2, <2>3, <2>4
  <1> QED
    BY <1>1, <1>2, Invariance, PTL DEF Spec, ImplementsAdmittedSnapshot, Promised!Spec
=============================================================================
