-------------------------------- MODULE KVMap --------------------------------
(***************************************************************************)
(* What a KeyValueStorage promises its client (README.md): an ordered map  *)
(* with set, del, get and getRange.  The client is one thread: a call is   *)
(* invoked, takes effect at one moment, and returns.                       *)
(***************************************************************************)
EXTENDS KVCalls, Integers, FiniteSets

CONSTANTS Calls         \* the calls a client makes

VARIABLES
    dict,       \* a function from the keys present to their values
    phase,      \* "idle", "called" or "done": where the current call is
    call,       \* the current call, or the last one
    response    \* what the last call returned

vars == <<dict, phase, call, response>>

\* The pairs with a key in [left, right), in the order of their keys.
Pairs(left, right) ==
    LET within == {k \in DOMAIN dict : left <= k /\ k < right}
        Smaller(k) == {j \in within : j < k}
        Key(i) == CHOOSE k \in within : Cardinality(Smaller(k)) = i - 1
    IN  [i \in 1 .. Cardinality(within) |-> <<Key(i), dict[Key(i)]>>]

-------------------------------------------------------------------------------
Init ==
    /\ dict = [k \in {} |-> k]
    /\ phase = "idle"
    /\ call = NoCall
    /\ response = NoResponse

Invoke(c) ==
    /\ phase = "idle"
    /\ phase' = "called"
    /\ call' = c
    /\ response' = NoResponse
    /\ UNCHANGED dict

Return(r) ==
    /\ phase' = "idle"
    /\ response' = r
    /\ UNCHANGED <<dict, call>>

\* set and del change exactly the entry of their key.
Set ==
    /\ phase = "called" /\ call.op = "set"
    /\ dict' = [k \in DOMAIN dict \cup {call.key} |->
                    IF k = call.key THEN call.arg ELSE dict[k]]
    /\ phase' = "done"
    /\ UNCHANGED <<call, response>>

Del ==
    /\ phase = "called" /\ call.op = "del"
    /\ call.key \in DOMAIN dict
    /\ dict' = [k \in DOMAIN dict \ {call.key} |-> dict[k]]
    /\ phase' = "done"
    /\ UNCHANGED <<call, response>>

Acknowledge == phase = "done" /\ Return(Done)

\* get and del of a key that is not there throw (README.md, warning 1).
Missing ==
    /\ phase = "called" /\ call.op \in {"get", "del"}
    /\ call.key \notin DOMAIN dict
    /\ Return(Thrown)

Get ==
    /\ phase = "called" /\ call.op = "get"
    /\ call.key \in DOMAIN dict
    /\ Return(Answer(dict[call.key]))

GetRange ==
    /\ phase = "called" /\ call.op = "getRange"
    /\ Return(Listing(Pairs(call.key, call.arg)))

\* getRange may throw too, but only if it had nothing to list.
GetRangeBeyondEnd ==
    /\ phase = "called" /\ call.op = "getRange"
    /\ \A k \in DOMAIN dict : k < call.key
    /\ Return(Thrown)

Next ==
    \/ \E c \in Calls : Invoke(c)
    \/ Set \/ Del \/ Acknowledge
    \/ Missing \/ Get \/ GetRange \/ GetRangeBeyondEnd

Spec == Init /\ [][Next]_vars

===============================================================================
