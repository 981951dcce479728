--------------------------------- MODULE Demo ---------------------------------
(***************************************************************************)
(* The demonstration program (src/main.cpp), a client of the map of module *)
(* KVMap: it fills a storage with init_size keys, makes as many random     *)
(* operations, and remembers in arr which keys it may ask for.  It catches *)
(* no exception.  rand() is any number; main prints how many calls it has  *)
(* made, of which only the count of dels is kept here.                     *)
(***************************************************************************)
EXTENDS KVCalls, Integers, FiniteSets

CONSTANTS
    InitSize,       \* init_size, also the number of operations
    MaxRange,       \* max_range
    RandomValues    \* the values that set draws

\* main draws init_size from 100 on, with max_range 100: at exactly 100 the
\* left end of a range would be a remainder of a division by zero.
ASSUME SizesAssumption ==
    InitSize \in Nat /\ MaxRange \in Nat \ {0} /\ MaxRange < InitSize

VARIABLES
    dict, phase, call, response,    \* the storage: see KVMap
    pc,         \* "fill" or "work", the loop; "done", or "aborted" by an exception
    waiting,    \* a call has been made and its return not been processed
    i,          \* the counter of the loop
    arr,        \* the keys k with arr[k] other than INT_MAX
    del_cnt

storage == <<dict, phase, call, response>>
vars == <<storage, pc, waiting, i, arr, del_cnt>>

AllKeys == 0 .. InitSize - 1

\* The calls are made by this module.
Storage == INSTANCE KVMap WITH Calls <- {}

Init ==
    /\ Storage!Init
    /\ pc = "fill" /\ waiting = FALSE /\ i = 0
    /\ arr = {} /\ del_cnt = 0

-------------------------------------------------------------------------------
MakeCallTooMany(c) ==                           \* mutant of MakeCall
    /\ ~waiting /\ i <= InitSize
    /\ Storage!Invoke(c)
    /\ waiting' = TRUE
    /\ UNCHANGED <<pc, i, arr, del_cnt>>

MakeCall(c) ==
    /\ ~waiting /\ i < InitSize
    /\ Storage!Invoke(c)
    /\ waiting' = TRUE
    /\ UNCHANGED <<pc, i, arr, del_cnt>>

Fill == pc = "fill" /\ MakeCall(SetCall(i, i))

SetElement ==
    /\ pc = "work"
    /\ \E k \in AllKeys, x \in RandomValues : MakeCall(SetCall(k, x))

\* arr[k] != INT_MAX
Known(k) == k \in arr

DelElement == pc = "work" /\ \E k \in AllKeys : Known(k) /\ MakeCall(DelCall(k))

GetElement == pc = "work" /\ \E k \in AllKeys : Known(k) /\ MakeCall(GetCall(k))

AnyLeft == AllKeys                              \* mutant of LeftEnds

LeftEnds == 0 .. InitSize - MaxRange - 1

RangeQuery ==
    /\ pc = "work"
    /\ \E left \in LeftEnds, width \in 0 .. MaxRange - 1 :
        MakeCall(RangeCall(left, left + width))

\* A del or a get that has drawn a key it does not know.
Skip ==
    /\ pc = "work" /\ ~waiting /\ i < InitSize
    /\ \E k \in AllKeys : ~Known(k)
    /\ i' = i + 1
    /\ UNCHANGED <<storage, pc, waiting, arr, del_cnt>>

\* The storage at work.
StorageStep == Storage!Next /\ UNCHANGED <<pc, waiting, i, arr, del_cnt>>

\* Only the first loop enters keys into arr: a set of the second does not.
ArrKeepsKeys ==                                 \* mutant of ArrAfter
    arr' = IF pc = "fill" THEN arr \cup {call.key} ELSE arr

ArrAfter ==
    arr' = IF pc = "fill" THEN arr \cup {call.key}
           ELSE IF call.op = "del" THEN arr \ {call.key} ELSE arr

CallReturns ==
    /\ waiting /\ phase = "idle" /\ response # Thrown
    /\ waiting' = FALSE
    /\ ArrAfter
    /\ del_cnt' = IF call.op = "del" THEN del_cnt + 1 ELSE del_cnt
    /\ i' = i + 1
    /\ UNCHANGED <<storage, pc>>

\* No handler: the exception leaves main.
CallThrows ==
    /\ waiting /\ phase = "idle" /\ response = Thrown
    /\ pc' = "aborted" /\ waiting' = FALSE
    /\ UNCHANGED <<storage, i, arr, del_cnt>>

LoopEnds ==
    /\ pc \in {"fill", "work"} /\ ~waiting /\ i = InitSize
    /\ IF pc = "fill" THEN pc' = "work" /\ i' = 0 ELSE pc' = "done" /\ i' = i
    /\ UNCHANGED <<storage, waiting, arr, del_cnt>>

Next ==
    \/ Fill \/ SetElement \/ DelElement \/ GetElement \/ RangeQuery \/ Skip
    \/ StorageStep \/ CallReturns \/ CallThrows
    \/ LoopEnds

Spec == Init /\ [][Next]_vars

-------------------------------------------------------------------------------
(* Properties *)

TypeOK ==
    /\ DOMAIN dict \subseteq AllKeys /\ arr \subseteq AllKeys
    /\ phase \in {"idle", "called", "done"}
    /\ pc \in {"fill", "work", "done", "aborted"}
    /\ waiting \in BOOLEAN
    /\ i \in 0 .. InitSize /\ del_cnt \in 0 .. InitSize

\* arr is less than what the storage holds, since a set of the second loop does
\* not enter its key, but never more: no get and no del throws, although main
\* looks at arr only and catches nothing.  getRange may (it is not asked with
\* the help of arr).
OnlyRangesThrow == pc = "aborted" => call.op = "getRange"

\* A getRange can only throw when nothing is left above its left end, and main
\* keeps that end max_range below the top: it takes more than max_range dels.
AbortTakesManyDels == pc = "aborted" => del_cnt > MaxRange

===============================================================================
