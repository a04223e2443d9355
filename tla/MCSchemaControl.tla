-------------------------- MODULE MCSchemaControl --------------------------
(* Instances of SchemaControl for TLC. *)
EXTENDS SchemaControl, TLC

CONSTANTS orders, items, w1, w2, note, strict, strange, tag

F(n, t, null) == [name |-> n, type |-> t, nullable |-> null]
C(t, fs) == [table |-> t, fields |-> fs, key |-> <<"id">>]
Id == F("id", "integer", FALSE)
Order == {Id, F("qty", "integer", TRUE)}
Note == F("note", "string", TRUE)

Contracts1 ==
    [Order |-> C(orders, Order), Note |-> C(orders, Order \cup {Note}),
     Strict |-> C(orders, {Id, F("qty", "integer", FALSE), F("flag", "boolean", TRUE)}),
     Item |-> C(items, {Id, F("sku", "string", FALSE)}), Strange |-> C(items, {Id}),
     Tagged |-> C(items, {Id, F("sku", "string", FALSE), F("tag", "string", TRUE)})]
Resolved == DOMAIN Contracts1 \ {"Strange"}

Change(t, old, new) == [table |-> t, previous |-> old, candidate |-> new, policy |-> "current"]

(* For each of two tables a compatible change, though there is one target table;
   an incompatible change of the first, and of the second one to an unknown
   contract. *)
Changes1 ==
    note :> Change(orders, "Order", "Note") @@ tag :> Change(items, "Item", "Tagged") @@
    strict :> Change(orders, "Order", "Strict") @@ strange :> Change(items, "Item", "Strange")
Duties == w1 :> {note, strict} @@ w2 :> {note, tag, strange}
=============================================================================
