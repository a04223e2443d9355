---------------------------- MODULE Orchestrator ----------------------------
(***************************************************************************)
(* Publication orchestration (publication_orchestrator.py, consumer.py and *)
(* the orchestration_runs table of publication.py) over the publication    *)
(* store: a session of module Publication is here a process that executes  *)
(* publish_and_verify or fallback, and every store call it makes is the    *)
(* sequence of Publication's own steps for that call.                      *)
(*                                                                         *)
(* A transition of a run is one step although transition_run reads before  *)
(* it updates: the update compares the revision, and a run that still has  *)
(* the revision still has the state.  The read that ends a transition is   *)
(* the read that the next transition goes by.                              *)
(*                                                                         *)
(* Abstracted: what a run's detail column says, and the fixed set of two   *)
(* table names; the reader of the tables either finds every snapshot and   *)
(* count as bound (CB27C005, CB27C006) or does not.                        *)
(***************************************************************************)
EXTENDS Publication

CONSTANTS
    Runs,    \* orchestration run identities
    Duty     \* session -> the calls it makes: operation, run, request, pin

VARIABLES
    runs,    \* run -> row of orchestration_runs
    play,    \* session -> the call it executes, or Null
    at,      \* session -> where in that call it stands
    row      \* session -> the run's row as it last read it

orchVars == <<vars, runs, play, at, row>>

Play == [op : {"publish", "fallback"}, run : Runs, request : Request, pin : Pins]

Plays == UNION {Duty[s] : s \in Sessions}

ASSUME PlayAssumption ==
    /\ Duty \in [Sessions -> SUBSET Play]
    /\ Null \notin Plays
    /\ \A p \in Plays : p.request.action =
                          IF p.op = "publish" THEN "PUBLISH" ELSE "FALLBACK"

RunStates == {"NO_ROW", "PLANNED", "ELIGIBLE", "PUBLISHING", "VERIFYING", "ACTIVE",
              "INCIDENT", "RECOVERING", "SOURCE_FALLBACK_VERIFIED"}

RunRow == [state : RunStates, revision : Nat, attempt : Attempts \cup {Null}]

Labels == {"idle", "start", "open", "submit", "store", "received", "pin",
           "verified", "mismatch"}

(* Mutants of what follows: no incident when verification fails, publishing
   without a word in the run. *)
MovesNoIncident(op, label) ==
    IF op = "publish" /\ label = "open"
      THEN {<<"PLANNED", "ELIGIBLE">>, <<"ELIGIBLE", "PUBLISHING">>}
    ELSE IF op = "publish" /\ label = "received" THEN {<<"PUBLISHING", "VERIFYING">>}
    ELSE IF op = "publish" /\ label = "verified" THEN {<<"VERIFYING", "ACTIVE">>}
    ELSE {}
MovesSilently(op, label) ==
    IF op = "publish" /\ label = "open" THEN {<<"PLANNED", "ELIGIBLE">>}
    ELSE IF op = "publish" /\ label = "received" THEN {<<"ELIGIBLE", "VERIFYING">>}
    ELSE {}

(* The transitions each part of a call makes, of the nine transition_run
   allows; the tenth state, ROLLBACK_VERIFIED, is reached by no call. *)
Moves(op, label) ==
    [publish |->
        [open     |-> {<<"PLANNED", "ELIGIBLE">>, <<"ELIGIBLE", "PUBLISHING">>},
         received |-> {<<"PUBLISHING", "VERIFYING">>},
         verified |-> {<<"VERIFYING", "ACTIVE">>},
         mismatch |-> {<<"VERIFYING", "INCIDENT">>}],
     fallback |->
        [open     |-> {<<"ACTIVE", "INCIDENT">>, <<"INCIDENT", "RECOVERING">>},
         received |-> {},
         verified |-> {<<"RECOVERING", "SOURCE_FALLBACK_VERIFIED">>},
         mismatch |-> {}]][op][label]

NoRun == [state |-> "NO_ROW", revision |-> 0, attempt |-> Null]

OrchTypeOK ==
    /\ runs \in [Runs -> RunRow]
    /\ play \in [Sessions -> Plays \cup {Null}]
    /\ at \in [Sessions -> Labels]
    /\ row \in [Sessions -> RunRow]

OrchInit ==
    /\ Init
    /\ runs = [r \in Runs |-> NoRun]
    /\ play = [s \in Sessions |-> Null]
    /\ at = [s \in Sessions |-> "idle"]
    /\ row = [s \in Sessions |-> NoRun]

-----------------------------------------------------------------------------
(* The call goes on at label l; a call that returns or raises is over. *)

Proceed(s, l) ==
    /\ at' = [at EXCEPT ![s] = l]
    /\ play' = IF l = "idle" THEN [play EXCEPT ![s] = Null] ELSE play
    /\ row' = IF l = "idle" THEN [row EXCEPT ![s] = NoRun] ELSE row

(* Operators initialize the product and register the candidates first. *)
Prepared ==
    /\ \A p \in Products : clock[p].route # "NO_ROW"
    /\ \A g \in Generations : state[g] # "NO_ROW"

Enter(s, p) ==
    /\ Prepared
    /\ at[s] = "idle" /\ Free(s)
    /\ play' = [play EXCEPT ![s] = p]
    /\ at' = [at EXCEPT ![s] = IF p.op = "publish" THEN "start" ELSE "open"]
    /\ UNCHANGED <<vars, runs, row>>

(* INSERT OR IGNORE: a row that is there stays, whatever product it is of. *)
StartRun(s) ==
    /\ at[s] = "start"
    /\ runs' = IF runs[play[s].run].state # "NO_ROW" THEN runs
               ELSE [runs EXCEPT ![play[s].run] = [NoRun EXCEPT !.state = "PLANNED"]]
    /\ Proceed(s, "open")
    /\ UNCHANGED vars

(* Where a call stands once no transition of this label is left to make. *)
After(label) ==
    [open |-> "submit", received |-> "pin", verified |-> "idle", mismatch |-> "idle"][label]

(* The run is read; a fallback of a run that is not there raises. *)
ReadRun(s) ==
    LET r == runs[play[s].run] IN
    /\ at[s] \in {"open", "received", "verified", "mismatch"}
    /\ row[s] = NoRun
    /\ IF r.state \in {m[1] : m \in Moves(play[s].op, at[s])}
         THEN row' = [row EXCEPT ![s] = r] /\ UNCHANGED <<play, at>>
         ELSE Proceed(s, IF r.state = "NO_ROW" THEN "idle" ELSE After(at[s]))
    /\ UNCHANGED <<vars, runs>>

UpToDate(s) == row[s] # NoRun /\ runs[play[s].run].revision = row[s].revision

(* transition_run; the attempt is not named before PUBLISHING. *)
Transition(s) ==
    /\ UpToDate(s)
    /\ \E m \in Moves(play[s].op, at[s]) :
         /\ m[1] = row[s].state
         /\ runs' = [runs EXCEPT ![play[s].run] =
               [state    |-> m[2],
                revision |-> runs[play[s].run].revision + 1,
                attempt  |-> IF m[2] = "ELIGIBLE" THEN Null ELSE play[s].request.attempt]]
    /\ row' = [row EXCEPT ![s] = NoRun]
    /\ UNCHANGED <<vars, play, at>>

(* CB27O001: another session has moved the run on; the call raises. *)
StaleRun(s) ==
    /\ row[s] # NoRun /\ ~UpToDate(s)
    /\ Proceed(s, "idle")
    /\ UNCHANGED <<vars, runs>>

-----------------------------------------------------------------------------
(* The call of publish or first_publication_fallback.  A refusal raises and
   leaves the run as it is; a lost acknowledgement is reconciled, and a
   reconciliation that fails raises too. *)

Submit(s) ==
    /\ at[s] = "submit"
    /\ LET r == play[s].request IN
         \/ SubmitFresh(s, r) /\ Proceed(s, "store")
         \/ SubmitReplay(s, r) /\ Proceed(s, "received")
         \/ SubmitConflict(s, r) /\ Proceed(s, "idle")
    /\ UNCHANGED runs

StoreCall(s) ==
    /\ at[s] = "store"
    /\ \/ (Publish(s) \/ FirstPublicationFallback(s)) /\
            Proceed(s, IF pc'[s] = "answered" THEN "received" ELSE "store")
       \/ Refuse(s) /\ Proceed(s, "idle")
       \/ ReconcileClock(s) /\ Proceed(s, "store")
       \/ ReconcilePointer(s) /\
            Proceed(s, IF pc'[s] = "answered" THEN "received" ELSE "idle")
    /\ UNCHANGED runs

-----------------------------------------------------------------------------
(* resolve_and_verify: pin, then read the tables of the generation. *)

(* Mutant: a publication that finds the source counts as verified. *)
OutcomeAlways(op, route) == {"verified", "mismatch"}

(* Of a resolution of the source there is nothing to verify: a fallback has
   what it wants, and a publication has no verification digest to record. *)
Outcome(op, route) ==
    IF op = "fallback" THEN IF route = "SOURCE_FALLBACK" THEN {"verified"} ELSE {"mismatch"}
    ELSE IF route = "SOURCE_FALLBACK" THEN {"idle"} ELSE {"verified", "mismatch"}

(* An existing pin with other contents is a conflict (CB27C003). *)
PinAnswers(s) == pins[view[s].pin] \in {Null, PinBody(view[s])}

Resolve(s) ==
    /\ at[s] = "pin"
    /\ \/ PinClock(s, play[s].request.product, play[s].pin) /\ Proceed(s, "pin")
       \/ PinPointer(s) /\ Proceed(s, IF pc'[s] = "idle" THEN "mismatch" ELSE "pin")
       \/ /\ PinInsert(s)
          /\ IF PinAnswers(s)
               THEN \E l \in Outcome(play[s].op, view[s].clock.route) : Proceed(s, l)
               ELSE Proceed(s, "mismatch")
    /\ UNCHANGED runs

(* The process dies; a store call in progress dies with it. *)
Die(s) ==
    /\ at[s] # "idle"
    /\ IF Free(s) THEN UNCHANGED vars ELSE Crash(s)
    /\ Proceed(s, "idle")
    /\ UNCHANGED runs

(* A call that raised while its reconciliation was open leaves the store. *)
Abandon(s) ==
    /\ at[s] = "idle"
    /\ Crash(s)
    /\ UNCHANGED <<runs, play, at, row>>

Advance(s) ==
    \/ StartRun(s) \/ ReadRun(s) \/ Transition(s) \/ StaleRun(s)
    \/ Submit(s) \/ StoreCall(s) \/ Resolve(s) \/ Abandon(s)

Live ==
    \/ Administer /\ UNCHANGED <<runs, play, at, row>>
    \/ \E s \in Sessions : (\E p \in Duty[s] : Enter(s, p)) \/ Advance(s)

OrchNext == Live \/ \E s \in Sessions : Die(s)

OrchSpec == OrchInit /\ [][OrchNext]_orchVars

(* A call that has begun goes on, operators run every call again and again
   until it is of no more use, and processes stop dying at some time. *)
Fairness ==
    /\ \A s \in Sessions : WF_orchVars(Advance(s))
    /\ \A p \in {q \in Plays : q.op = "publish"} :
         SF_orchVars(\E s \in {t \in Sessions : p \in Duty[t]} : Enter(s, p))
    /\ <>[][Live]_orchVars

OrchFairSpec == OrchSpec /\ Fairness
-----------------------------------------------------------------------------
(* The store holds the receipt of this very call. *)
Done(p) ==
    /\ attempts[p.request.attempt] # Null
    /\ attempts[p.request.attempt].request = p.request

(* The call's pin is of this route, at the revision it left or a later one. *)
Resolved(p, route) ==
    /\ pins[p.pin] # Null
    /\ pins[p.pin].product = p.request.product
    /\ pins[p.pin].route = route
    /\ pins[p.pin].revision >= p.request.expected + 1

(* What the states of a run stand for, however calls interleave, die or are
   made again: VERIFYING that its publication is committed, ACTIVE that after
   the commit a consumer resolved the product to a generation, and
   SOURCE_FALLBACK_VERIFIED that after the fallback one resolved it to the
   source. *)
RunStatesBacked ==
    \A r \in Runs :
        LET by(op) == {p \in Plays : p.op = op /\ p.run = r /\ Done(p) /\
                                     p.request.attempt = runs[r].attempt} IN
        /\ runs[r].state = "VERIFYING" => by("publish") # {}
        /\ runs[r].state = "ACTIVE" => \E p \in by("publish") : Resolved(p, "GENERATION")
        /\ runs[r].state = "SOURCE_FALLBACK_VERIFIED" =>
              \E p \in by("fallback") : Resolved(p, "SOURCE_FALLBACK")

(* The run is ahead of the route: no publication moves a pointer before the
   run it belongs to says PUBLISHING, so that after a crash at any point the
   run tells the operator that there is an attempt to look for. *)
RunAheadOfRoute ==
    \A e \in events : e.action = "PUBLISH" =>
        \E p \in Plays :
            /\ p.request = attempts[e.attempt].request
            /\ runs[p.run].state \notin {"NO_ROW", "PLANNED", "ELIGIBLE"}

(* A run whose publication is committed does not stay unresolved, whatever
   call of it died and whoever runs it again, unless the product has been
   routed on in the meantime. *)
PublishedRunEnds ==
    \A p \in Plays :
        (p.op = "publish" /\ Done(p)) ~>
            \/ runs[p.run].state \notin {"NO_ROW", "PLANNED", "ELIGIBLE",
                                         "PUBLISHING", "VERIFYING"}
            \/ clock[p.request.product].revision > p.request.expected + 1

-----------------------------------------------------------------------------
(* The inductive invariant: Publication's, and what an orchestrated call has
   behind it. *)

Early == {"NO_ROW", "PLANNED", "ELIGIBLE"}
Target(p) == IF p.op = "publish" THEN "GENERATION" ELSE "SOURCE_FALLBACK"

(* A session is in the middle of a store call only where its call is. *)
StoreSound(s) ==
    /\ at[s] = "idle" => pc[s] \in {"idle", "answered", "ambiguous"}
    /\ at[s] = "store" => /\ pc[s] \in {"checked", "ambiguous", "reconciling"}
                          /\ req[s] = play[s].request
    /\ at[s] = "pin" => pc[s] \in {"idle", "answered", "pinning", "resolved"}
    /\ at[s] \notin {"idle", "store", "pin"} => Free(s)

(* Past the store call the receipt is there, a pin is read no earlier than the
   call's own commit, and a call verifies what its pin says. *)
CallSound(s) ==
    /\ at[s] \in {"received", "pin", "verified", "mismatch"} => Done(play[s])
    /\ at[s] = "pin" /\ pc[s] \in {"pinning", "resolved"} =>
          /\ view[s].pin = play[s].pin
          /\ view[s].product = play[s].request.product
          /\ view[s].clock.revision >= play[s].request.expected + 1
    /\ at[s] = "verified" => Resolved(play[s], Target(play[s]))

(* A publication is sent only once its run says so. *)
RunSound(s) ==
    at[s] \notin {"idle", "start", "open"} /\ play[s].op = "publish" =>
        runs[play[s].run].state \notin Early

(* A row that was read is the run's, or the run has moved on. *)
RowSound(s) ==
    row[s] # NoRun =>
        /\ row[s].state # "NO_ROW" /\ runs[play[s].run].state # "NO_ROW"
        /\ row[s].revision <= runs[play[s].run].revision
        /\ row[s].revision = runs[play[s].run].revision => row[s] = runs[play[s].run]

(* A call is there exactly while a session is not idle, and a row is held only
   where the next transition is decided. *)
CallsShape ==
    \A s \in Sessions :
        /\ (at[s] = "idle") <=> (play[s] = Null)
        /\ row[s] # NoRun => at[s] \in {"open", "received", "verified", "mismatch"}

OrchInv ==
    /\ OrchTypeOK
    /\ CallsShape
    /\ \A s \in Sessions : StoreSound(s) /\ CallSound(s) /\ RunSound(s) /\ RowSound(s)
    /\ RunStatesBacked
    /\ RunAheadOfRoute
=============================================================================
