--------------------------- MODULE AppliedPrefix ---------------------------
(***************************************************************************)
(* What CDC apply promises about one generation, without workers, claims   *)
(* or receipts: a source transaction lands table by table, and the source  *)
(* frontier moves, forwards only, to the commit position of a transaction  *)
(* all of whose tables have landed.                                        *)
(***************************************************************************)
EXTENDS Naturals

CONSTANTS
    Txns,       \* commit positions of the source transactions, numbers
    TablesOf,   \* transaction -> the tables it changes
    Starts,     \* positions at which a target may start
    None        \* no frontier yet

VARIABLES
    frontier,   \* None, or the position up to which the target is accounted for
    landed,     \* pairs of a transaction and a table that holds its changes
    done        \* transactions the frontier has moved to

vars == <<frontier, landed, done>>

Init == frontier = None /\ landed = {} /\ done = {}

(* The first caller says where the generation starts. *)
Open(position) ==
    /\ frontier = None
    /\ frontier' = position
    /\ UNCHANGED <<landed, done>>

Land(t, table) ==
    /\ frontier # None
    /\ landed' = landed \cup {<<t, table>>}
    /\ UNCHANGED <<frontier, done>>

Advance(t) ==
    /\ frontier # None
    /\ frontier < t
    /\ \A table \in TablesOf[t] : <<t, table>> \in landed
    /\ frontier' = t
    /\ done' = done \cup {t}
    /\ UNCHANGED landed

Next ==
    \/ \E position \in Starts : Open(position)
    \/ \E t \in Txns : Advance(t) \/ \E table \in TablesOf[t] : Land(t, table)

Spec == Init /\ [][Next]_vars
=============================================================================
