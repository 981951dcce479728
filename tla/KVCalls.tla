------------------------------- MODULE KVCalls -------------------------------
(***************************************************************************)
(* The calls of a KeyValueStorage and what they return, as records and     *)
(* tuples shared by the promised map (KVMap) and the tree (BTree).         *)
(***************************************************************************)

NoCall == [op |-> "none"]

\* arg is the value of a set and the right end of a getRange.
SetCall(key, value) == [op |-> "set", key |-> key, arg |-> value]
DelCall(key) == [op |-> "del", key |-> key]
GetCall(key) == [op |-> "get", key |-> key]
RangeCall(left, right) == [op |-> "getRange", key |-> left, arg |-> right]

NoResponse == <<"none">>
Done == <<"done">>
Thrown == <<"thrown">>
Answer(value) == <<"value", value>>
Listing(pairs) == <<"range", pairs>>

===============================================================================
