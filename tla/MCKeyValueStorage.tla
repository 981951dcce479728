-------------------------- MODULE MCKeyValueStorage --------------------------
(***************************************************************************)
(* Instances of KeyValueStorage for TLC: every session follows the         *)
(* scenario.                                                               *)
(***************************************************************************)
EXTENDS KeyValueStorage, MCBTree

MCKVNext ==
    \/ (Create \/ Load \/ Close \/ Crash) /\ UNCHANGED scenario
    \/ RunningCode /\ UNCHANGED scenario
    \/ \E c \in NextCalls : Begin(c) /\ UNCHANGED scenario

MCKVInit == KVInit /\ scenario \in Scenarios

MCKVSpec ==
    MCKVInit /\ [][MCKVNext]_<<kvVars, scenario>> /\ WF_kvVars(RunningCode)

-------------------------------------------------------------------------------
\* Four ascending keys split the root at NodeSize 2; the next del joins the two
\* leaves and leaves ids of nodes and values unused.
FourSets == [i \in 1 .. 4 |-> SetCall(i, v)]

SessionCalls ==
    Sets({1, 5}, w) \cup Dels({1, 2, 4}) \cup Gets({2, 6}) \cup Ranges({2}, {5})

Sessions ==
    {[prefix |-> p, then |-> SessionCalls, more |-> 2] :
        p \in {FourSets, Append(FourSets, DelCall(3))}}

===============================================================================
