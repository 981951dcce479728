------------------------------- MODULE MCBTree -------------------------------
(***************************************************************************)
(* Instances of BTree for TLC.  A behaviour follows a scenario: it starts  *)
(* with the calls of prefix, which build a tree, and goes on with a few    *)
(* (more) of any calls in then.                                            *)
(***************************************************************************)
EXTENDS BTree

CONSTANTS v, w, Scenarios

VARIABLE scenario

AllKeys == 1 .. 54
AllCalls ==
    UNION {s.then \cup {s.prefix[i] : i \in DOMAIN s.prefix} : s \in Scenarios}

NextCalls ==
    LET given == Len(scenario.prefix) IN
    CASE calls < given -> {scenario.prefix[calls + 1]}
      [] calls \in given .. given + scenario.more - 1 -> scenario.then
      [] OTHER -> {}

MCNext ==
    \/ Step /\ UNCHANGED scenario
    \/ \E c \in NextCalls : Invoke(c) /\ UNCHANGED scenario

MCInit == Init /\ scenario \in Scenarios

MCSpec == MCInit /\ [][MCNext]_<<vars, scenario>> /\ WF_vars(Step)

-------------------------------------------------------------------------------
Sets(keys, value) == {SetCall(k, value) : k \in keys}
Dels(keys) == {DelCall(k) : k \in keys}
Gets(keys) == {GetCall(k) : k \in keys}
Ranges(lefts, rights) == {RangeCall(k, l) : k \in lefts, l \in rights}

\* Ascending keys: at NodeSize 3, eighteen give a tree of three rows with no key
\* to spare, in which one del is enough for joins in both lower rows and a new
\* root; 26 give inner nodes of three and five children and a last leaf of five
\* keys, which joins share unevenly.
NoPrefix == <<>>
EvenKeys(n) == [i \in 1 .. n |-> SetCall(2 * i, v)]

\* Changes at both ends and in the middle of the tree.
TightCalls == Sets({3, 20, 37}, w) \cup Dels({2, 4, 9, 18, 20, 36})
UnevenCalls == Sets({5, 41, 53, 54}, w) \cup Dels({2, 8, 18, 20, 38, 40, 42, 52})

\* A few changes and many reads.
ReadCalls ==
    Sets({5, 37}, w) \cup Dels({4, 8, 9, 34, 36})
        \cup Gets({4, 5, 36, 38}) \cup Ranges({1, 8, 36, 37}, {2, 9, 24, 40})

\* Everything on a few keys, from the empty tree.
SmallCalls ==
    Sets(1 .. 4, v) \cup Sets({2}, w) \cup Dels(1 .. 4)
        \cup Gets({2}) \cup Ranges({1, 3, 5}, {2, 6})

Tight == [prefix |-> EvenKeys(18), then |-> TightCalls, more |-> 3]
Uneven == [prefix |-> EvenKeys(26), then |-> UnevenCalls, more |-> 2]
Shrinking == [prefix |-> EvenKeys(6), then |-> Dels({2, 4, 6, 8, 10, 12}), more |-> 6]
Reads == [prefix |-> EvenKeys(18), then |-> ReadCalls, more |-> 2]
Small == [prefix |-> NoPrefix, then |-> SmallCalls, more |-> 4]

Trees == {Tight, Uneven, Shrinking, Reads, Small}
SmallTrees == {[Small EXCEPT !.more = 5]}

===============================================================================
