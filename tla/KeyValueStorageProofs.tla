------------------------ MODULE KeyValueStorageProofs ------------------------
(***************************************************************************)
(* Proofs about module KeyValueStorage, for any calls, node size, number   *)
(* of sessions and crashes: which files there are, and that those of an    *)
(* open session hold what the tree takes for maps.  The tree's own         *)
(* invariant (BTreeShapeProofs) holds in every session, and what each      *)
(* operation of an IOStorage does to its files is proved in                *)
(* IOStorageProofs, used here for the storage of values.                   *)
(***************************************************************************)
EXTENDS KeyValueStorage, BTreeShapeProofs

-------------------------------------------------------------------------------
(* The files that exist. *)

Loading == session \in {"nodes", "root"}

\* While a storage is being loaded, its node files are the empty ones that the
\* load has just made.
LoadedNodesAreEmpty == Loading => nodesExist /\ nodeTable = <<>>

LifeInv ==
    /\ session \in {"none", "open", "nodes", "root"}
    /\ OnlyCrashLeavesFiles
    /\ LoadedNodesAreEmpty

LEMMA LifeInit == KVInit => LifeInv
BY DEF KVInit, LifeInv, OnlyCrashLeavesFiles, LoadedNodesAreEmpty, Loading

\* The steps of constructors, destructors and crashes.
LEMMA LifeEvents ==
    ASSUME LifeInv, Create \/ Load \/ Close \/ Crash \/ LoadValues \/ NoValueFiles \/ NoRoot
    PROVE  LifeInv'
<1> USE DEF LifeInv, OnlyCrashLeavesFiles, LoadedNodesAreEmpty, Loading
<1>1. CASE Create
  BY <1>1 DEF Create
<1>2. CASE Load
  BY <1>2 DEF Load, NewNodeFiles, NodesMade
<1>3. CASE Close
  BY <1>3 DEF Close, RemoveFiles, NodesGone
<1>4. CASE Crash
  BY <1>4 DEF Crash
<1>5. CASE LoadValues
  BY <1>5 DEF LoadValues, files, nodeFiles, existence
<1>6. CASE NoValueFiles
  BY <1>6 DEF NoValueFiles, NodesGone, Fail
<1>7. CASE NoRoot
  BY <1>7 DEF NoRoot, RemoveFiles, NodesGone, Fail
<1>8. QED
  BY <1>1, <1>2, <1>3, <1>4, <1>5, <1>6, <1>7

\* Calls are made in an open session and leave its lifetime alone.
LEMMA LifeCall ==
    ASSUME LifeInv, CallStep \/ \E c \in Calls : Begin(c)
    PROVE  LifeInv'
<1>1. session = "open" /\ UNCHANGED lifetime
  BY DEF CallStep, Begin
<1>2. QED
  BY <1>1 DEF LifeInv, OnlyCrashLeavesFiles, LoadedNodesAreEmpty, Loading, lifetime, existence

LEMMA LifeStep == LifeInv /\ [KVNext]_kvVars => LifeInv'
<1> SUFFICES ASSUME LifeInv, [KVNext]_kvVars PROVE LifeInv'
  OBVIOUS
<1>1. CASE UNCHANGED kvVars
  BY <1>1 DEF kvVars, files, nodeFiles, lifetime, existence, LifeInv, OnlyCrashLeavesFiles,
              LoadedNodesAreEmpty, Loading
<1>2. CASE KVNext
  BY <1>2, LifeEvents, LifeCall DEF KVNext, RunningCode
<1>3. QED
  BY <1>1, <1>2

\* A storage that was closed, or whose loading failed, has left no files,
\* whatever happened in it.
THEOREM FilesRemoved == KVSpec => []OnlyCrashLeavesFiles
<1>1. LifeInv => OnlyCrashLeavesFiles
  BY DEF LifeInv
<1>2. QED
  BY <1>1, LifeInit, LifeStep, PTL DEF KVSpec

\* No load succeeds: when the constructor looks for node 0, it is never in the
\* node files, however many nodes a crash had left.
RootIsMissing == session = "root" => N!Find(0) = N!NoPos

THEOREM NoLoadSucceeds == KVSpec => []RootIsMissing
<1>1. LifeInv => RootIsMissing
  BY DEF LifeInv, LoadedNodesAreEmpty, Loading, RootIsMissing, N!Find
<1>2. QED
  BY <1>1, LifeInit, LifeStep, PTL DEF KVSpec

-------------------------------------------------------------------------------
(* The tree's invariant holds in every session. *)

LEMMA InitTree == Init => ShapeInv
BY InitShape DEF Init, Empty, BufferIsCurrent, ShapeInv

LEMMA CreateInit == Create => Init'
BY DEF Create, Init, EmptyRoot, Empty, NoNode, NoKey, Put, Leaf, NoCall, NoResponse, Remember, Nil

LEMMA CallIsStep == CallStep => [Next]_vars
BY DEF CallStep, Compute, EraseOldValue, InsertValue, EraseValue, EraseOldNode, InsertNode,
       Next, Step

LEMMA TreeStep == ShapeInv /\ [KVNext]_kvVars => ShapeInv'
<1> SUFFICES ASSUME ShapeInv, [KVNext]_kvVars PROVE ShapeInv'
  OBVIOUS
<1>1. CASE Create
  <2>1. Init'
    BY <1>1, CreateInit
  <2>2. QED
    BY <2>1, InitTree, PTL
<1>2. CASE [Next]_vars
  BY <1>2, ShapeStep
<1>3. CASE Load \/ Close \/ Crash \/ LoadValues \/ NoValueFiles \/ NoRoot
  BY <1>3, <1>2 DEF Load, Close, Crash, LoadValues, NoValueFiles, NoRoot, Fail
<1>4. CASE CallStep
  BY <1>4, <1>2, CallIsStep
<1>5. CASE \E c \in Calls : Begin(c)
  BY <1>5, <1>2 DEF Begin, Next
<1>6. CASE UNCHANGED kvVars
  BY <1>6, <1>2 DEF kvVars
<1>7. QED
  BY <1>1, <1>3, <1>4, <1>5, <1>6 DEF KVNext, RunningCode

\* Every session of a KeyValueStorage keeps the tree's invariant, whatever crash
\* or failed load came before it.
THEOREM TreeKept == KVSpec => []ShapeInv
<1>1. KVInit => ShapeInv
  BY InitTree DEF KVInit
<1>2. QED
  BY <1>1, TreeStep, PTL DEF KVSpec

-------------------------------------------------------------------------------
(* The value storage: IOStorage's results hold of its three files. *)

VP == INSTANCE IOStorageProofs WITH
    storage <- valueFile, stack <- valueStack, table <- valueTable,
    Blocks <- Values, MaxId <- MaxIds

LEMMA SameStorage ==
    /\ \A id : V!Find(id) = VP!Find(id)
    /\ V!Contents = VP!Contents
<1>1. \A id : V!Find(id) = VP!Find(id)
  BY DEF V!Find, VP!Find, V!ReadElement, VP!ReadElement, V!NoPos, VP!NoPos
<1>2. V!Live = VP!Live
  BY <1>1 DEF V!Live, VP!Live, V!Ids, VP!Ids, V!NoPos, VP!NoPos
<1>3. V!Contents = VP!Contents
  BY <1>1, <1>2 DEF V!Contents, VP!Contents, V!ReadElement, VP!ReadElement
<1>4. QED
  BY <1>1, <1>3

ValueTableGrows(id) ==
    Len(valueTable)' = IF id = Len(valueTable) THEN Len(valueTable) + 1 ELSE Len(valueTable)

LEMMA EraseV ==
    ASSUME VP!PositionsPartitioned, NEW id \in 0 .. MaxIds - 1, V!Erase(id)
    PROVE  /\ VP!PositionsPartitioned'
           /\ id \in DOMAIN VP!Contents
           /\ VP!Contents' = [i \in DOMAIN VP!Contents \ {id} |-> VP!Contents[i]]
           /\ Len(valueTable)' = Len(valueTable)
           /\ Len(valueFile)' = Len(valueFile)
<1>1. VP!Erase(id) /\ id \in VP!Ids
  BY SameStorage DEF V!Erase, VP!Erase, V!PushBack, VP!PushBack, V!WriteElement,
        VP!WriteElement, V!NoPos, VP!NoPos, VP!Ids
<1>2. VP!PositionsPartitioned'
  BY <1>1, VP!EraseKeepsPartition, SessionsAssumption
<1>3. valueFile' = valueFile
  BY DEF V!Erase
<1>4. Len(valueTable)' = Len(valueTable)
  <2>1. valueTable \in Seq(Nat \cup {-1}) /\ -1 \in Nat \cup {-1} /\ id \in Nat
    BY SessionsAssumption DEF VP!PositionsPartitioned, VP!TypeOK, VP!NoPos
  <2>2. id < Len(valueTable)
    BY <2>1 DEF V!Erase, V!Find
  <2>3. valueTable' = VP!WriteElement(valueTable, -1, id)
    BY <1>1 DEF VP!Erase, VP!NoPos
  <2>4. VP!Writes(valueTable, -1, id, valueTable', Nat \cup {-1})
    <3>1. id <= Len(valueTable)
      BY <2>1, <2>2
    <3>2. QED
      BY <2>1, <2>3, <3>1, VP!WriteElementProperties, SessionsAssumption
  <2>5. QED
    BY <2>1, <2>2, <2>4 DEF VP!Writes
<1>5. QED
  BY <1>1, <1>2, <1>3, <1>4, VP!EraseRefines, SessionsAssumption

LEMMA InsertV ==
    ASSUME VP!PositionsPartitioned, NEW id \in 0 .. MaxIds - 1, NEW x \in Values,
           V!Insert(id, x)
    PROVE  /\ VP!PositionsPartitioned'
           /\ id \notin DOMAIN VP!Contents
           /\ VP!Contents' = [i \in DOMAIN VP!Contents \cup {id} |->
                                 IF i = id THEN x ELSE VP!Contents[i]]
           /\ id <= Len(valueTable) /\ ValueTableGrows(id)
           /\ Len(valueFile)' = Len(valueFile) \/ Len(valueStack)' = 0
<1>1. VP!Insert(id, x) /\ id \in VP!Ids
  BY SameStorage DEF V!Insert, VP!Insert, V!WriteElement, VP!WriteElement, V!PushBack, VP!PushBack,
       V!PopBack, VP!PopBack, V!FreePosition, VP!FreePosition, V!Back, VP!Back,
       V!ReadElement, VP!ReadElement, V!NoPos, VP!NoPos, VP!Ids
<1>2. VP!PositionsPartitioned'
  BY <1>1, VP!InsertKeepsPartition, SessionsAssumption
<1>3. /\ valueTable \in Seq(Nat \cup {-1}) /\ id \in Nat
      /\ valueFile \in Seq(Values) /\ Len(valueFile) \in Nat
      /\ valueStack \in Seq(Nat) /\ Len(valueStack) \in Nat
      /\ VP!FreePosition \in Nat /\ VP!FreePosition <= Len(valueFile)
      /\ Len(valueStack) > 0 => VP!FreePosition < Len(valueFile)
  <2>1. /\ VP!FreePosition \in 0 .. Len(valueFile)
        /\ Len(valueStack) > 0 => VP!FreePosition < Len(valueFile)
    BY VP!FreePositionType, SessionsAssumption
  <2>2. QED
    BY <2>1, SessionsAssumption DEF VP!PositionsPartitioned, VP!TypeOK, VP!NoPos
<1>4. /\ id <= Len(valueTable)
      /\ valueTable' = VP!WriteElement(valueTable, VP!FreePosition, id)
      /\ valueFile' = VP!WriteElement(valueFile, x, VP!FreePosition)
      /\ valueStack' = IF Len(valueStack) > 0 THEN VP!PopBack(valueStack) ELSE valueStack
  BY <1>1 DEF VP!Insert
<1>5. ValueTableGrows(id)
  <2>1. VP!Writes(valueTable, VP!FreePosition, id, valueTable', Nat \cup {-1})
    <3>1. VP!FreePosition \in Nat \cup {-1}
      BY <1>3
    <3>2. QED
      BY <3>1, <1>3, <1>4, VP!WriteElementProperties, SessionsAssumption
  <2>2. QED
    BY <2>1, <1>4 DEF VP!Writes, ValueTableGrows
<1>6. Len(valueFile)' = Len(valueFile) \/ Len(valueStack)' = 0
  <2>1. VP!Writes(valueFile, x, VP!FreePosition, valueFile', Values)
    BY <1>3, <1>4, VP!WriteElementProperties, SessionsAssumption
  <2>2. CASE Len(valueStack) > 0
    BY <2>1, <2>2, <1>3 DEF VP!Writes
  <2>3. CASE ~(Len(valueStack) > 0)
    BY <2>3, <1>3, <1>4
  <2>4. QED
    BY <2>2, <2>3
<1>7. QED
  BY <1>1, <1>2, <1>4, <1>5, <1>6, VP!InsertRefines, SessionsAssumption

-------------------------------------------------------------------------------
(* The value files hold what the tree takes for a map. *)

BeingReplaced == IF AtLeafOfSet THEN {ValueId} ELSE {}

Holding ==
    /\ DOMAIN valueStorage \ BeingReplaced \subseteq DOMAIN VP!Contents
    /\ \A id \in DOMAIN VP!Contents :
            id \in DOMAIN valueStorage /\ VP!Contents[id] = valueStorage[id]

\* What an open session says of the value storage.
ValuesHeld ==
    /\ VP!PositionsPartitioned
    /\ Len(valueTable) = nextValueId
    /\ nextValueId + (IF pc = "down" THEN 1 ELSE 0) <= calls
    /\ Holding

OpenInv == session = "open" => ValuesHeld

LEMMA QuietValues ==
    ASSUME QuietStep
    PROVE  /\ valueStorage' = valueStorage /\ nextValueId' = nextValueId /\ calls' = calls
           /\ pc' = "down" => pc = "down"
           /\ ~AtLeafOfSet
<1> USE DEF AtLeafOfSet, Return, Enter, Ascend, StartCommit, storages, memory, client
<1>1. CASE DescendSet \/ DescendDel \/ KeyDoesNotExist
  BY <1>1 DEF DescendSet, DescendDel, KeyDoesNotExist
<1>2. CASE AscendPlain \/ SetOverflow \/ DelShortage
  BY <1>2 DEF AscendPlain, SetOverflow, DelShortage
<1>3. CASE RootStays \/ RootSplit \/ RootCollapse \/ ClearBuffer
  BY <1>3 DEF RootStays, RootSplit, RootCollapse, ClearBuffer
<1>4. CASE FindNode \/ Get \/ GetRangeEnd \/ GetRangeNextLeaf
  BY <1>4 DEF FindNode, Get, GetRangeEnd, GetRangeNextLeaf
<1>5. QED
  BY <1>1, <1>2, <1>3, <1>4 DEF QuietStep

\* A step that writes no value and calls nothing keeps what the files hold.
LEMMA FilesKept ==
    ASSUME ValuesHeld, UNCHANGED valueFiles,
           valueStorage' = valueStorage, nextValueId' = nextValueId,
           nextValueId + (IF pc' = "down" THEN 1 ELSE 0) <= calls',
           BeingReplaced \subseteq BeingReplaced'
    PROVE  ValuesHeld'
<1>1. valueFile' = valueFile /\ valueStack' = valueStack /\ valueTable' = valueTable
  BY DEF valueFiles
<1>2. VP!Contents' = VP!Contents
  BY <1>1 DEF VP!Contents, VP!Live, VP!Find, VP!ReadElement
<1>3. VP!PositionsPartitioned'
  <2>1. VP!PositionsPartitioned /\ [VP!Next]_VP!vars
    BY <1>1 DEF ValuesHeld, VP!vars
  <2>2. QED
    BY <2>1, VP!StepKeepsPartition, SessionsAssumption
<1>4. QED
  BY <1>1, <1>2, <1>3 DEF ValuesHeld, Holding

LEMMA NoFiles == VP!Init => VP!PositionsPartitioned /\ DOMAIN VP!Contents = {}
<1> SUFFICES ASSUME VP!Init PROVE VP!PositionsPartitioned /\ DOMAIN VP!Contents = {}
  OBVIOUS
<1>1. VP!PositionsPartitioned
  BY VP!InitPartition, SessionsAssumption
<1>2. VP!Live = {}
  BY SessionsAssumption DEF VP!Init, VP!Live, VP!Find, VP!Ids
<1>3. QED
  BY <1>1, <1>2 DEF VP!Contents

LEMMA CreateHolds == ASSUME Create PROVE ValuesHeld'
<1>1. VP!Init'
  BY DEF Create, NewValueFiles, VP!Init
<1>2. VP!PositionsPartitioned' /\ DOMAIN VP!Contents' = {}
  <2>1. VP!PositionsPartitioned' /\ (DOMAIN VP!Contents = {})'
    BY <1>1, NoFiles, PTL
  <2>2. QED
    BY <2>1
<1>3. /\ Len(valueTable') = 0 /\ nextValueId' = 0 /\ pc' = "idle" /\ calls' = 0
      /\ DOMAIN valueStorage' = {}
  BY DEF Create, NewValueFiles, Empty
<1>4. QED
  BY <1>2, <1>3 DEF ValuesHeld, Holding

LEMMA ValueAtLeaf ==
    ASSUME ShapeInv, ValuesHeld, pc = "down", Updates, node.leaf,
           call.op = "del" => FindKey # Nil
    PROVE  /\ FindKey # Nil => ValueId \in 0 .. nextValueId - 1
           /\ ValueId \in 0 .. MaxIds - 1
           /\ ValueId <= Len(valueTable)
           /\ call.op = "set" => call.arg \in Values
           /\ nextValueId \in Nat
<1>1. /\ FindKey # Nil => node.ptrs[FindKey] \in 0 .. nextValueId - 1
      /\ call.op = "set" => call.arg \in Values
      /\ nextValueId \in Nat
  <2>1. PICK E : TreeOf(E)
    BY DEF ShapeInv, PairsMatch
  <2>2. QED
    BY <2>1, LeafAtWork
<1>2. nextValueId + 1 <= calls /\ calls \in 0 .. MaxCalls /\ MaxCalls < MaxIds
      /\ MaxCalls \in Nat /\ MaxIds \in Nat /\ Len(valueTable) = nextValueId
  BY IdsAssumption, CallsAssumption, SessionsAssumption DEF ValuesHeld, ShapeInv, Shape, CountersOK
<1>3. QED
  BY <1>1, <1>2 DEF ValueId

LEMMA EraseOldValueHolds == ASSUME ShapeInv, ValuesHeld, EraseOldValue PROVE ValuesHeld'
<1>1. pc = "down" /\ Updates /\ node.leaf /\ call.op = "set" /\ AtLeafOfSet
  BY DEF EraseOldValue, AtLeafOfSet, Updates
<1>2. ValueId \in 0 .. MaxIds - 1 /\ V!Erase(ValueId) /\ VP!PositionsPartitioned
  BY <1>1, ValueAtLeaf DEF EraseOldValue, ValuesHeld
<1>3. /\ VP!PositionsPartitioned'
      /\ VP!Contents' = [i \in DOMAIN VP!Contents \ {ValueId} |-> VP!Contents[i]]
      /\ Len(valueTable)' = Len(valueTable)
  BY <1>2, EraseV
<1>4. /\ valueStorage' = valueStorage /\ nextValueId' = nextValueId /\ pc' = pc /\ calls' = calls
      /\ BeingReplaced' = BeingReplaced
  BY DEF EraseOldValue, vars, storages, memory, client, locals, BeingReplaced, AtLeafOfSet, ValueId, FindKey,
         Position, Size
<1>5. BeingReplaced = {ValueId}
  BY <1>1 DEF BeingReplaced
<1>6. Holding'
  BY <1>3, <1>4, <1>5 DEF ValuesHeld, Holding
<1>7. QED
  BY <1>3, <1>4, <1>6 DEF ValuesHeld

LEMMA InsertValueHolds == ASSUME ShapeInv, ValuesHeld, InsertValue PROVE ValuesHeld'
<1>1. pc = "down" /\ Updates /\ node.leaf /\ call.op = "set" /\ AtLeafOfSet
  BY DEF InsertValue, AtLeafOfSet, Updates
<1>2. /\ ValueId \in 0 .. MaxIds - 1 /\ V!Insert(ValueId, call.arg) /\ VP!PositionsPartitioned
      /\ call.arg \in Values
      /\ FindKey # Nil => ValueId \in 0 .. nextValueId - 1
      /\ nextValueId \in Nat
  BY <1>1, ValueAtLeaf DEF InsertValue, ValuesHeld
<1>3. /\ VP!PositionsPartitioned'
      /\ VP!Contents' = [i \in DOMAIN VP!Contents \cup {ValueId} |->
                             IF i = ValueId THEN call.arg ELSE VP!Contents[i]]
      /\ ValueTableGrows(ValueId)
  BY <1>2, InsertV
<1>4. /\ valueStorage' = Put(valueStorage, ValueId, call.arg)
      /\ nextValueId' = IF FindKey = Nil THEN nextValueId + 1 ELSE nextValueId
      /\ pc' = "up" /\ calls' = calls
  <2>1. CASE SetLeafAdd
    BY <2>1 DEF SetLeafAdd, ValueId, client
  <2>2. CASE SetLeafReplace
    BY <2>2 DEF SetLeafReplace, ValueId, client, memory
  <2>3. QED
    BY <2>1, <2>2 DEF InsertValue
<1>5. BeingReplaced = {ValueId} /\ BeingReplaced' = {}
  BY <1>1, <1>4 DEF BeingReplaced, AtLeafOfSet
<1>6. Holding'
  <2>1. /\ DOMAIN valueStorage' = DOMAIN valueStorage \cup {ValueId}
        /\ \A i \in DOMAIN valueStorage' :
               valueStorage'[i] = IF i = ValueId THEN call.arg ELSE valueStorage[i]
    BY <1>4 DEF Put
  <2>2. QED
    BY <2>1, <1>3, <1>5 DEF ValuesHeld, Holding
<1>7. Len(valueTable)' = nextValueId'
  <2>1. Len(valueTable) = nextValueId
    BY DEF ValuesHeld
  <2>2. FindKey = Nil => ValueId = nextValueId
    BY DEF ValueId
  <2>3. QED
    BY <1>2, <1>3, <1>4, <2>1, <2>2 DEF ValueTableGrows
<1>8. nextValueId' <= calls'
  BY <1>1, <1>2, <1>4, CallsAssumption DEF ValuesHeld, ShapeInv, Shape, CountersOK
<1>9. QED
  BY <1>2, <1>3, <1>4, <1>6, <1>7, <1>8 DEF ValuesHeld

LEMMA EraseValueHolds == ASSUME ShapeInv, ValuesHeld, EraseValue PROVE ValuesHeld'
<1>1. /\ pc = "down" /\ Updates /\ node.leaf /\ call.op = "del" /\ ~AtLeafOfSet
      /\ FindKey # Nil /\ ValueId = node.ptrs[FindKey]
  BY DEF EraseValue, DelLeaf, AtLeafOfSet, Updates, ValueId
<1>2. ValueId \in 0 .. MaxIds - 1 /\ V!Erase(ValueId) /\ VP!PositionsPartitioned
      /\ nextValueId \in Nat
  BY <1>1, ValueAtLeaf DEF EraseValue, ValuesHeld
<1>3. /\ VP!PositionsPartitioned'
      /\ VP!Contents' = [i \in DOMAIN VP!Contents \ {ValueId} |-> VP!Contents[i]]
      /\ Len(valueTable)' = Len(valueTable)
  BY <1>2, EraseV
<1>4. /\ valueStorage' = Drop(valueStorage, ValueId)
      /\ nextValueId' = nextValueId /\ pc' = "up" /\ calls' = calls
  BY <1>1 DEF EraseValue, DelLeaf, client, memory
<1>5. BeingReplaced = {} /\ BeingReplaced' = {}
  BY <1>1, <1>4 DEF BeingReplaced, AtLeafOfSet
<1>6. Holding'
  <2>1. /\ DOMAIN valueStorage' = DOMAIN valueStorage \ {ValueId}
        /\ \A i \in DOMAIN valueStorage' : valueStorage'[i] = valueStorage[i]
    BY <1>4 DEF Drop
  <2>2. QED
    BY <2>1, <1>3, <1>5 DEF ValuesHeld, Holding
<1>7. nextValueId' <= calls'
  BY <1>1, <1>2, <1>4, CallsAssumption DEF ValuesHeld, ShapeInv, Shape, CountersOK
<1>8. QED
  BY <1>2, <1>3, <1>4, <1>6, <1>7 DEF ValuesHeld

LEMMA HeldStep ==
    ASSUME ShapeInv, OpenInv, [KVNext]_kvVars
    PROVE  OpenInv'
<1>1. CASE Create
  BY <1>1, CreateHolds DEF OpenInv
<1>2. CASE Load \/ Close \/ Crash \/ LoadValues \/ NoValueFiles \/ NoRoot
  BY <1>2 DEF OpenInv, Load, Close, Crash, LoadValues, NoValueFiles, NoRoot, Fail
<1>3. ASSUME session = "open", Compute PROVE ValuesHeld'
  <2>1. /\ valueStorage' = valueStorage /\ nextValueId' = nextValueId /\ calls' = calls
        /\ pc' = "down" => pc = "down"
        /\ ~AtLeafOfSet
    BY <1>3, QuietValues DEF Compute
  <2>2. UNCHANGED valueFiles /\ BeingReplaced = {}
    BY <1>3, <2>1 DEF Compute, files, BeingReplaced
  <2>3. nextValueId \in Nat /\ calls \in Nat
    BY CallsAssumption DEF ShapeInv, Shape, CountersOK
  <2>4. nextValueId + (IF pc' = "down" THEN 1 ELSE 0) <= calls'
    BY <2>1, <2>3, <1>3 DEF OpenInv, ValuesHeld
  <2>5. QED
    BY <1>3, <2>1, <2>2, <2>4, FilesKept DEF OpenInv
<1>4. ASSUME session = "open", EraseOldNode \/ InsertNode \/ UNCHANGED kvVars
      PROVE  ValuesHeld'
  <2>1. UNCHANGED valueFiles
    BY <1>4 DEF EraseOldNode, InsertNode, kvVars, files
  <2>2. /\ valueStorage' = valueStorage /\ nextValueId' = nextValueId /\ pc' = pc
        /\ calls' = calls /\ call' = call /\ node' = node
    BY <1>4 DEF EraseOldNode, InsertNode, CommitNode, kvVars, vars, storages, memory, client, locals
  <2>3. BeingReplaced' = BeingReplaced
    BY <2>2 DEF BeingReplaced, AtLeafOfSet, ValueId, FindKey, Position, Size
  <2>4. QED
    BY <1>4, <2>1, <2>2, <2>3, FilesKept DEF OpenInv, ValuesHeld
<1>5. ASSUME NEW c \in Calls, session = "open", Begin(c) PROVE ValuesHeld'
  <2>1. UNCHANGED valueFiles
    BY <1>5 DEF Begin, files
  <2>2. /\ valueStorage' = valueStorage /\ nextValueId' = nextValueId /\ pc = "idle"
        /\ calls' = calls + 1
    BY <1>5 DEF Begin, Invoke, storages, memory
  <2>3. BeingReplaced = {}
    BY <2>2 DEF BeingReplaced, AtLeafOfSet
  <2>4. nextValueId \in Nat /\ calls \in Nat
    BY CallsAssumption DEF ShapeInv, Shape, CountersOK
  <2>5. nextValueId + (IF pc' = "down" THEN 1 ELSE 0) <= calls'
    BY <1>5, <2>2, <2>4 DEF OpenInv, ValuesHeld
  <2>6. QED
    BY <1>5, <2>1, <2>2, <2>3, <2>5, FilesKept DEF OpenInv
<1>6. CASE CallStep
  <2>1. session = "open" /\ ValuesHeld
    BY <1>6 DEF CallStep, OpenInv
  <2>2. ValuesHeld'
    BY <1>6, <2>1, <1>3, <1>4, EraseOldValueHolds, InsertValueHolds, EraseValueHolds DEF CallStep
  <2>3. QED
    BY <2>2 DEF OpenInv
<1>7. CASE \E c \in Calls : Begin(c)
  <2>1. session = "open"
    BY <1>7 DEF Begin
  <2>2. ValuesHeld'
    BY <1>5, <1>7, <2>1
  <2>3. QED
    BY <2>2 DEF OpenInv
<1>8. CASE UNCHANGED kvVars
  <2>1. session' = session
    BY <1>8 DEF kvVars, lifetime
  <2>2. QED
    BY <1>4, <1>8, <2>1 DEF OpenInv
<1>9. QED
  BY <1>1, <1>2, <1>6, <1>7, <1>8 DEF KVNext, RunningCode

\* The three files of the value storage hold the values the tree has given them,
\* at every step of every session, also when a set replaces one by an erase and
\* an insert.
THEOREM ValuesInFiles == KVSpec => []ValueFilesHoldValues
<1>1. KVInit => ShapeInv /\ OpenInv
  BY InitTree DEF KVInit, OpenInv
<1>2. ShapeInv /\ OpenInv /\ [KVNext]_kvVars => (ShapeInv /\ OpenInv)'
  BY TreeStep, HeldStep
<1>3. OpenInv => ValueFilesHoldValues
  BY SameStorage DEF OpenInv, ValuesHeld, Holding, BeingReplaced, ValueFilesHoldValues
<1>4. QED
  BY <1>1, <1>2, <1>3, PTL DEF KVSpec

-------------------------------------------------------------------------------
(* The value file stays small. *)

\* With no free position, every position of the value file is that of one value.
LEMMA FullFile ==
    VP!PositionsPartitioned /\ Len(valueStack) = 0 /\ IsFiniteSet(DOMAIN valueStorage)
        /\ DOMAIN VP!Contents \subseteq DOMAIN valueStorage
        => Len(valueFile) <= Cardinality(DOMAIN valueStorage)
<1> SUFFICES ASSUME VP!PositionsPartitioned, Len(valueStack) = 0,
                    IsFiniteSet(DOMAIN valueStorage),
                    DOMAIN VP!Contents \subseteq DOMAIN valueStorage
             PROVE  Len(valueFile) <= Cardinality(DOMAIN valueStorage)
  OBVIOUS
<1> DEFINE n == Len(valueFile)
           D == VP!Live
           f == [i \in D |-> VP!Find(i) + 1]
<1>1. n \in Nat
  BY DEF VP!PositionsPartitioned, VP!TypeOK
<1>2. D \subseteq DOMAIN valueStorage
  BY DEF VP!Contents
<1>3. IsFiniteSet(D) /\ Cardinality(D) <= Cardinality(DOMAIN valueStorage)
  BY <1>2, FS_Subset
<1>4. \A i \in D : VP!Find(i) \in Nat /\ VP!Find(i) < n
  <2>1. \A i \in D : i \in VP!Ids /\ VP!Find(i) # VP!NoPos
    BY DEF VP!Live
  <2>2. \A i \in D : VP!Find(i) \in Nat
    BY <2>1, VP!FindType, SessionsAssumption DEF VP!PositionsPartitioned
  <2>3. QED
    BY <2>2 DEF VP!PositionsPartitioned, VP!NoAliasing
<1>5. \A p \in 0 .. n - 1 : \E i \in D : VP!Find(i) = p
  <2>1. VP!FreePositions = {}
    BY DEF VP!FreePositions
  <2>2. QED
    BY <2>1 DEF VP!PositionsPartitioned, VP!NoLeak
<1> HIDE DEF n, D
<1>6. f \in Surjection(D, 1 .. n)
  <2>1. f \in [D -> 1 .. n]
    BY <1>1, <1>4
  <2>2. \A p \in 1 .. n : \E i \in D : f[i] = p
    <3>1. ASSUME NEW p \in 1 .. n PROVE \E i \in D : f[i] = p
      <4>1. p - 1 \in 0 .. n - 1
        BY <1>1
      <4>2. PICK i \in D : VP!Find(i) = p - 1
        BY <4>1, <1>5
      <4>3. f[i] = p
        BY <4>2
      <4>4. QED
        BY <4>3
    <3>2. QED
      BY <3>1
  <2>3. QED
    BY <2>1, <2>2 DEF Surjection
<1>7. IsFiniteSet(1 .. n) /\ Cardinality(1 .. n) <= Cardinality(D)
  BY <1>3, <1>6, FS_Surjection
<1>8. Cardinality(1 .. n) = n
  BY <1>1, FS_Interval
<1>9. Cardinality(D) \in Nat /\ Cardinality(DOMAIN valueStorage) \in Nat
  BY <1>3, FS_CardinalityType
<1>10. n <= Cardinality(DOMAIN valueStorage)
  BY <1>1, <1>3, <1>7, <1>8, <1>9
<1>11. QED
  BY <1>10 DEF n

\* peak counts what the tree takes for a map, also while an id is replaced.
SmallInv == session = "open" => peak \in Nat /\ Len(valueFile) <= peak

LEMMA MaxOfTwo ==
    ASSUME NEW a \in Nat, NEW b \in Nat
    PROVE  Max({a, b}) \in Nat /\ a <= Max({a, b}) /\ b <= Max({a, b})
<1>1. \E x \in {a, b} : \A y \in {a, b} : x >= y
  <2>1. CASE a >= b
    BY <2>1
  <2>2. CASE ~(a >= b)
    BY <2>2
  <2>3. QED
    BY <2>1, <2>2
<1>2. Max({a, b}) \in {a, b} /\ \A y \in {a, b} : Max({a, b}) >= y
  BY <1>1 DEF Max
<1>3. QED
  BY <1>2

LEMMA ValuesFinite ==
    ShapeInv => IsFiniteSet(DOMAIN valueStorage) /\ Cardinality(DOMAIN valueStorage) \in Nat
<1> SUFFICES ASSUME ShapeInv
             PROVE  IsFiniteSet(DOMAIN valueStorage) /\ Cardinality(DOMAIN valueStorage) \in Nat
  OBVIOUS
<1>1. DOMAIN valueStorage \in SUBSET (0 .. nextValueId - 1) /\ nextValueId \in Nat
  BY DEF ShapeInv, Shape, ValuesOK, CountersOK
<1>2. IsFiniteSet(0 .. nextValueId - 1)
  BY <1>1, FS_Interval
<1>3. IsFiniteSet(DOMAIN valueStorage)
  BY <1>1, <1>2, FS_Subset
<1>4. QED
  BY <1>3, FS_CardinalityType

\* A step of a call leaves the value file as long as it was, or no position free.
LEMMA FileGrowth ==
    ASSUME ShapeInv, ValuesHeld, CallStep
    PROVE  \/ Len(valueFile)' = Len(valueFile)
           \/ Len(valueStack)' = 0 /\ BeingReplaced' = {}
<1>1. CASE Compute \/ EraseOldNode \/ InsertNode
  BY <1>1 DEF Compute, EraseOldNode, InsertNode, files, valueFiles
<1>2. CASE EraseOldValue \/ EraseValue
  BY <1>2 DEF EraseOldValue, EraseValue, V!Erase
<1>3. CASE InsertValue
  <2>1. pc = "down" /\ Updates /\ node.leaf /\ call.op = "set"
    BY <1>3 DEF InsertValue, AtLeafOfSet, Updates
  <2>2. /\ ValueId \in 0 .. MaxIds - 1 /\ V!Insert(ValueId, call.arg) /\ VP!PositionsPartitioned
        /\ call.arg \in Values
    BY <1>3, <2>1, ValueAtLeaf DEF InsertValue, ValuesHeld
  <2>3. Len(valueFile)' = Len(valueFile) \/ Len(valueStack)' = 0
    BY <2>2, InsertV
  <2>4. pc' = "up"
    BY <1>3 DEF InsertValue, SetLeafAdd, SetLeafReplace
  <2>5. QED
    BY <2>3, <2>4 DEF BeingReplaced, AtLeafOfSet
<1>4. QED
  BY <1>1, <1>2, <1>3 DEF CallStep

LEMMA SmallStep ==
    ASSUME ShapeInv, OpenInv, SmallInv, [KVNext]_kvVars
    PROVE  SmallInv'
<1>1. CASE Create
  BY <1>1 DEF SmallInv, Create, NewValueFiles
<1>2. CASE Load \/ Close \/ Crash \/ LoadValues \/ NoValueFiles \/ NoRoot
  BY <1>2 DEF SmallInv, Load, Close, Crash, LoadValues, NoValueFiles, NoRoot, Fail
<1>3. CASE CallStep
  <2> DEFINE c == Cardinality(DOMAIN valueStorage')
  <2>1. session = "open" /\ ValuesHeld /\ peak \in Nat /\ Len(valueFile) <= peak
    BY <1>3 DEF CallStep, OpenInv, SmallInv
  <2>2. ShapeInv' /\ OpenInv' /\ session' = "open"
    BY <1>3, <2>1, TreeStep, HeldStep DEF CallStep, lifetime, KVNext, RunningCode
  <2>3. (IsFiniteSet(DOMAIN valueStorage) /\ Cardinality(DOMAIN valueStorage) \in Nat)'
    BY <2>2, ValuesFinite, PTL
  <2>4. peak' = Max({peak, c}) /\ c \in Nat
    BY <1>3, <2>3 DEF CallStep
  <2> HIDE DEF c
  <2>5. peak' \in Nat /\ peak <= peak' /\ c <= peak'
    BY <2>1, <2>4, MaxOfTwo
  <2>6. ValuesHeld'
    BY <2>2 DEF OpenInv
  <2>7. Len(valueFile) \in Nat /\ Len(valueFile)' \in Nat
    BY <2>1, <2>6 DEF ValuesHeld, VP!PositionsPartitioned, VP!TypeOK
  <2>8. CASE Len(valueFile)' = Len(valueFile)
    BY <2>1, <2>2, <2>5, <2>7, <2>8 DEF SmallInv
  <2>9. CASE Len(valueStack)' = 0 /\ BeingReplaced' = {}
    <3>1. (DOMAIN VP!Contents \subseteq DOMAIN valueStorage)'
      BY <2>6, <2>9 DEF ValuesHeld, Holding
    <3>2. (VP!PositionsPartitioned /\ Len(valueStack) = 0)'
      BY <2>6, <2>9 DEF ValuesHeld
    <3>3. (Len(valueFile) <= Cardinality(DOMAIN valueStorage))'
      BY <2>3, <3>1, <3>2, FullFile, PTL
    <3>4. Len(valueFile)' <= c
      BY <3>3 DEF c
    <3>5. QED
      BY <2>2, <2>4, <2>5, <2>7, <3>4 DEF SmallInv
  <2>10. QED
    BY <1>3, <2>1, <2>8, <2>9, FileGrowth
<1>4. CASE \E c \in Calls : Begin(c)
  BY <1>4 DEF SmallInv, Begin, files, valueFiles, lifetime
<1>5. CASE UNCHANGED kvVars
  BY <1>5 DEF SmallInv, kvVars, files, valueFiles, lifetime
<1>6. QED
  BY <1>1, <1>2, <1>3, <1>4, <1>5 DEF KVNext, RunningCode

\* IOStorage reuses the positions of erased values: the value file never gets
\* longer than the most keys the session has had at once.
THEOREM ValueFileSmall == KVSpec => []ValueFileStaysSmall
<1>1. KVInit => ShapeInv /\ OpenInv /\ SmallInv
  BY InitTree DEF KVInit, OpenInv, SmallInv
<1>2. ShapeInv /\ OpenInv /\ SmallInv /\ [KVNext]_kvVars => (ShapeInv /\ OpenInv /\ SmallInv)'
  BY TreeStep, HeldStep, SmallStep
<1>3. SmallInv => ValueFileStaysSmall
  BY DEF SmallInv, ValueFileStaysSmall
<1>4. QED
  BY <1>1, <1>2, <1>3, PTL DEF KVSpec

-------------------------------------------------------------------------------
(* The node files hold a block for every id ever handed out. *)

Vector(f, k) == k \in Nat /\ f = [i \in 1 .. k |-> f[i]]

LEMMA VectorLen ==
    ASSUME NEW k, NEW f, Vector(f, k)
    PROVE  f \in Seq({f[i] : i \in 1 .. k}) /\ Len(f) = k
<1> DEFINE S == {f[i] : i \in 1 .. k}
<1>1. f \in [1 .. k -> S] /\ k \in Nat
  BY DEF Vector
<1>2. f \in Seq(S)
  BY <1>1, SeqDef
<1> HIDE DEF S
<1>3. DOMAIN f = 1 .. Len(f) /\ Len(f) \in Nat
  BY <1>2, LenProperties
<1>4. Len(f) = k
  BY <1>1, <1>3
<1>5. QED
  BY <1>2, <1>4 DEF S

\* What writeElement makes of a vector, whatever its elements are.
LEMMA WriteVector ==
    ASSUME NEW k, NEW f, Vector(f, k), NEW x, NEW j \in 0 .. k
    PROVE  /\ j = k => N!WriteElement(f, x, j)
                        = [i \in 1 .. k + 1 |-> IF i = k + 1 THEN x ELSE f[i]]
           /\ j < k => N!WriteElement(f, x, j)
                        = [i \in 1 .. k |-> IF i = j + 1 THEN x ELSE f[i]]
<1> DEFINE S == {f[i] : i \in 1 .. k} \cup {x}
           w == N!WriteElement(f, x, j)
<1>1. f \in Seq(S) /\ Len(f) = k /\ k \in Nat /\ x \in S
  BY VectorLen, SeqMonotonic DEF Vector
<1>2. w = VP!WriteElement(f, x, j)
  BY DEF N!WriteElement, VP!WriteElement, N!PushBack, VP!PushBack
<1> HIDE DEF S, w
<1>3. VP!Writes(f, x, j, w, S)
  BY <1>1, <1>2, VP!WriteElementProperties, SessionsAssumption
<1>4. /\ DOMAIN w = 1 .. Len(w) /\ w = [i \in 1 .. Len(w) |-> w[i]]
  BY <1>3, LenProperties DEF VP!Writes
<1>5. CASE j = k
  <2>1. Len(w) = k + 1 /\ w[k + 1] = x /\ \A i \in 1 .. k : w[i] = f[i]
    BY <1>1, <1>3, <1>5 DEF VP!Writes
  <2>2. w = [i \in 1 .. k + 1 |-> IF i = k + 1 THEN x ELSE f[i]]
    BY <1>1, <1>4, <2>1
  <2>3. QED
    BY <1>5, <2>2, <1>1 DEF w
<1>6. CASE j < k
  <2>1. Len(w) = k /\ w[j + 1] = x /\ \A i \in 1 .. k : i # j + 1 => w[i] = f[i]
    BY <1>1, <1>3, <1>6 DEF VP!Writes
  <2>2. w = [i \in 1 .. k |-> IF i = j + 1 THEN x ELSE f[i]]
    BY <1>1, <1>4, <2>1
  <2>3. QED
    BY <1>6, <2>2, <1>1 DEF w
<1>7. QED
  BY <1>5, <1>6, <1>1

\* The binary form has no deleted flag.
LEMMA StoredBlock == ASSUME NEW n, n \in NodeRecords PROVE Binary!Block(Stored(n)) = Binary!Block(n)
<1> DEFINE s == Stored(n)
<1>1. /\ s.id = n.id /\ s.leaf = n.leaf /\ s.keys = n.keys /\ s.ptrs = n.ptrs
      /\ s.next = n.next /\ s.prev = n.prev
  BY DEF Stored, NodeRecords
<1> HIDE DEF s
<1>2. Binary!CommonPart(s) = Binary!CommonPart(n)
  BY <1>1 DEF Binary!CommonPart, Binary!Size
<1>3. Binary!ToBinary(s) = Binary!ToBinary(n)
  BY <1>1, <1>2 DEF Binary!ToBinary, Binary!LeafPart, Binary!InnerPart
<1>4. QED
  BY <1>3 DEF Binary!Block, s

NodesWhole(k) == nodeStack = <<>> /\ nodeTable = [i \in 1 .. k |-> i - 1]

\* Between the erase and the insert of a commit.
NodeErased(k) ==
    /\ pc = "commit" /\ todo # {} /\ NextId \in 0 .. k - 1
    /\ nodeStack = <<NextId>>
    /\ nodeTable = [i \in 1 .. k |-> IF i = NextId + 1 THEN -1 ELSE i - 1]

BlocksOf(k) ==
    /\ DOMAIN nodeStorage = 0 .. k - 1
    /\ nodeFile = [i \in 1 .. k |-> Binary!Block(nodeStorage[i - 1])]

NodesHeld == \E k \in Nat : BlocksOf(k) /\ (NodesWhole(k) \/ NodeErased(k))

NodesInv == session = "open" => NodesHeld

LEMMA NextIdToCommit ==
    ASSUME ShapeInv, pc = "commit", todo # {}
    PROVE  /\ NextId \in todo /\ NextId \in Nat /\ \A y \in todo : NextId <= y
           /\ changes[NextId] \in NodeRecords
<1>1. todo \subseteq DOMAIN changes /\ DOMAIN nodeStorage \cup todo = 0 .. nextNodeId - 1
  BY DEF ShapeInv, Shape, StorageOK, CommitOK, Ids
<1>2. todo \in SUBSET Nat
  BY <1>1 DEF ShapeInv, Shape, CountersOK
<1>3. NextId \in todo /\ \A y \in todo : NextId <= y
  BY <1>2, MinProperties DEF NextId
<1>4. changes[NextId] \in NodeRecords
  BY <1>1, <1>3 DEF ShapeInv, Shape, NodesOK, Copies, NodeOK
<1>5. QED
  BY <1>2, <1>3, <1>4

LEMMA EraseOldNodeHolds == ASSUME ShapeInv, NodesHeld, EraseOldNode PROVE NodesHeld'
<1> DEFINE x == NextId
<1>0. PICK k \in Nat : BlocksOf(k) /\ (NodesWhole(k) \/ NodeErased(k))
  BY DEF NodesHeld
<1>1. /\ pc = "commit" /\ todo # {} /\ x \in Nat
  BY NextIdToCommit DEF EraseOldNode
<1>2. /\ N!Find(x) # -1
      /\ nodeStack' = Append(nodeStack, N!Find(x))
      /\ nodeTable' = N!WriteElement(nodeTable, -1, x)
      /\ nodeFile' = nodeFile
      /\ pc' = pc /\ todo' = todo /\ nodeStorage' = nodeStorage
  BY DEF EraseOldNode, N!Erase, N!NoPos, N!PushBack, vars, storages, locals
<1>3. x' = x
  BY <1>2 DEF NextId
<1>4. Vector(nodeTable, k)
  BY <1>0 DEF NodesWhole, NodeErased, Vector
<1>5. Len(nodeTable) = k
  BY <1>4, VectorLen
<1> HIDE DEF x
<1>6. x < k /\ N!Find(x) = nodeTable[x + 1]
  BY <1>1, <1>2, <1>5 DEF N!Find, N!ReadElement, N!NoPos
<1>7. x + 1 \in 1 .. k
  BY <1>1, <1>6
<1>8. NodesWhole(k)
  <2>1. CASE NodeErased(k)
    <3>1. nodeTable[x + 1] = -1
      BY <1>7, <2>1 DEF NodeErased, x
    <3>2. QED
      BY <3>1, <1>2, <1>6
  <2>2. QED
    BY <1>0, <2>1
<1>9. N!Find(x) = x /\ nodeStack' = <<x>>
  BY <1>1, <1>2, <1>6, <1>7, <1>8 DEF NodesWhole
<1>10. nodeTable' = [i \in 1 .. k |-> IF i = x + 1 THEN -1 ELSE i - 1]
  <2>1. x \in 0 .. k
    BY <1>1, <1>6
  <2>2. nodeTable' = [i \in 1 .. k |-> IF i = x + 1 THEN -1 ELSE nodeTable[i]]
    BY <2>1, <1>2, <1>4, <1>6, WriteVector
  <2>3. \A i \in 1 .. k : nodeTable[i] = i - 1
    BY <1>8 DEF NodesWhole
  <2>4. QED
    BY <2>2, <2>3
<1>11. NodeErased(k)'
  <2>1. x \in 0 .. k - 1
    BY <1>1, <1>6
  <2>2. QED
    BY <2>1, <1>1, <1>2, <1>3, <1>9, <1>10 DEF NodeErased, x
<1>12. BlocksOf(k)'
  BY <1>0, <1>2 DEF BlocksOf
<1>13. QED
  BY <1>11, <1>12 DEF NodesHeld

LEMMA InsertNodeHolds == ASSUME ShapeInv, NodesHeld, InsertNode PROVE NodesHeld'
<1> DEFINE x == NextId
           b == Binary!Block(changes[NextId])
           s == Stored(changes[NextId])
<1>0. PICK k \in Nat : BlocksOf(k) /\ (NodesWhole(k) \/ NodeErased(k))
  BY DEF NodesHeld
<1>1. /\ pc = "commit" /\ todo # {}
      /\ nodeStorage' = Put(nodeStorage, x, s)
  BY DEF InsertNode, CommitNode
<1>2. x \in Nat /\ Binary!Block(s) = b
  BY <1>1, NextIdToCommit, StoredBlock
<1>3. /\ N!Find(x) = -1 /\ x <= Len(nodeTable)
      /\ nodeFile' = N!WriteElement(nodeFile, b, N!FreePosition)
      /\ nodeStack' = IF Len(nodeStack) > 0 THEN N!PopBack(nodeStack) ELSE nodeStack
      /\ nodeTable' = N!WriteElement(nodeTable, N!FreePosition, x)
  BY DEF InsertNode, N!Insert, N!NoPos
<1>4. Vector(nodeTable, k) /\ Vector(nodeFile, k)
  BY <1>0 DEF NodesWhole, NodeErased, BlocksOf, Vector
<1>5. Len(nodeTable) = k /\ Len(nodeFile) = k
  BY <1>4, VectorLen
<1>6. /\ DOMAIN nodeStorage = 0 .. k - 1
      /\ \A i \in 1 .. k : nodeFile[i] = Binary!Block(nodeStorage[i - 1])
  BY <1>0 DEF BlocksOf
<1>7. x <= k /\ (x < k => nodeTable[x + 1] = -1)
  BY <1>2, <1>3, <1>5 DEF N!Find, N!ReadElement, N!NoPos
<1>8. /\ DOMAIN nodeStorage' = 0 .. k - 1 \cup {x} /\ nodeStorage'[x] = s
      /\ \A i \in 0 .. k - 1 : i # x => nodeStorage'[i] = nodeStorage[i]
  BY <1>1, <1>6 DEF Put
<1>9. CASE NodesWhole(k)
  <2> HIDE DEF x, b, s
  <2>1. nodeStack = <<>> /\ Len(nodeStack) = 0 /\ \A i \in 1 .. k : nodeTable[i] = i - 1
    BY <1>9 DEF NodesWhole
  <2>2. x = k
    <3>1. x + 1 \in 1 .. k => nodeTable[x + 1] = x
      BY <1>2, <2>1
    <3>2. QED
      BY <1>2, <1>7, <3>1
  <2>3. N!FreePosition = k
    BY <2>1, <1>5 DEF N!FreePosition
  <2>4. /\ nodeFile' = [i \in 1 .. k + 1 |-> IF i = k + 1 THEN b ELSE nodeFile[i]]
        /\ nodeTable' = [i \in 1 .. k + 1 |-> IF i = k + 1 THEN k ELSE nodeTable[i]]
        /\ nodeStack' = <<>>
    <3>1. k \in 0 .. k
      OBVIOUS
    <3>2. N!WriteElement(nodeFile, b, k)
             = [i \in 1 .. k + 1 |-> IF i = k + 1 THEN b ELSE nodeFile[i]]
      BY <1>4, <3>1, WriteVector
    <3>3. N!WriteElement(nodeTable, k, k)
             = [i \in 1 .. k + 1 |-> IF i = k + 1 THEN k ELSE nodeTable[i]]
      BY <1>4, <3>1, WriteVector
    <3>4. QED
      BY <1>3, <2>1, <2>2, <2>3, <3>2, <3>3
  <2>5. NodesWhole(k + 1)'
    <3>1. nodeTable' = [i \in 1 .. k + 1 |-> i - 1]
      BY <2>1, <2>4
    <3>2. QED
      BY <3>1, <2>4 DEF NodesWhole
  <2>6. BlocksOf(k + 1)'
    <3>1. DOMAIN nodeStorage' = 0 .. (k + 1) - 1
      BY <1>8, <2>2
    <3>2. \A i \in 1 .. k + 1 : (IF i = k + 1 THEN b ELSE nodeFile[i])
                                   = Binary!Block(nodeStorage'[i - 1])
      <4>1. ASSUME NEW i \in 1 .. k PROVE nodeFile[i] = Binary!Block(nodeStorage'[i - 1])
        <5>1. i - 1 \in 0 .. k - 1 /\ i - 1 # x
          BY <2>2
        <5>2. nodeStorage'[i - 1] = nodeStorage[i - 1]
          BY <5>1, <1>8
        <5>3. QED
          BY <5>2, <1>6
      <4>2. b = Binary!Block(nodeStorage'[(k + 1) - 1])
        BY <1>2, <1>8, <2>2
      <4>3. \A i \in 1 .. k + 1 : i = k + 1 \/ i \in 1 .. k
        OBVIOUS
      <4>4. QED
        BY <4>1, <4>2, <4>3
    <3>3. nodeFile' = [i \in 1 .. k + 1 |-> Binary!Block(nodeStorage'[i - 1])]
      BY <2>4, <3>2
    <3>4. QED
      BY <3>1, <3>3 DEF BlocksOf
  <2>7. k + 1 \in Nat
    OBVIOUS
  <2>8. QED
    BY <2>5, <2>6, <2>7 DEF NodesHeld
<1>10. CASE NodeErased(k)
  <2>1. /\ nodeStack = <<x>> /\ x \in 0 .. k - 1
        /\ \A i \in 1 .. k : nodeTable[i] = IF i = x + 1 THEN -1 ELSE i - 1
    BY <1>10 DEF NodeErased
  <2> HIDE DEF x, b, s
  <2>2. Len(nodeStack) = 1 /\ N!FreePosition = x
    BY <2>1 DEF N!FreePosition, N!Back, N!ReadElement
  <2>3. x \in 0 .. k /\ x < k
    BY <2>1
  <2>4. /\ nodeFile' = [i \in 1 .. k |-> IF i = x + 1 THEN b ELSE nodeFile[i]]
        /\ nodeTable' = [i \in 1 .. k |-> IF i = x + 1 THEN x ELSE nodeTable[i]]
    BY <1>3, <1>4, <2>2, <2>3, WriteVector
  <2>5. nodeStack' = <<>>
    BY <1>3, <2>1, <2>2 DEF N!PopBack
  <2>6. NodesWhole(k)'
    <3>1. nodeTable' = [i \in 1 .. k |-> i - 1]
      BY <1>2, <2>1, <2>4
    <3>2. QED
      BY <3>1, <2>5 DEF NodesWhole
  <2>7. BlocksOf(k)'
    <3>1. DOMAIN nodeStorage' = 0 .. k - 1
      BY <1>8, <2>1
    <3>2. ASSUME NEW i \in 1 .. k
          PROVE  (IF i = x + 1 THEN b ELSE nodeFile[i]) = Binary!Block(nodeStorage'[i - 1])
      <4>1. CASE i = x + 1
        BY <4>1, <1>2, <1>8
      <4>2. CASE i # x + 1
        <5>1. i - 1 \in 0 .. k - 1 /\ i - 1 # x
          BY <4>2, <1>2
        <5>2. nodeStorage'[i - 1] = nodeStorage[i - 1]
          BY <5>1, <1>8
        <5>3. QED
          BY <4>2, <5>2, <1>6
      <4>3. QED
        BY <4>1, <4>2
    <3>3. nodeFile' = [i \in 1 .. k |-> Binary!Block(nodeStorage'[i - 1])]
      BY <2>4, <3>2
    <3>4. QED
      BY <3>1, <3>3 DEF BlocksOf
  <2>8. QED
    BY <2>6, <2>7 DEF NodesHeld
<1>11. QED
  BY <1>0, <1>9, <1>10

\* Steps that do not touch the node storage do not come between an erase and
\* an insert of it.
LEMMA NodesKept ==
    ASSUME NodesHeld, UNCHANGED nodeFiles, nodeStorage' = nodeStorage,
           (pc = "commit" /\ todo # {}) => (pc' = pc /\ todo' = todo)
    PROVE  NodesHeld'
<1>1. PICK k \in Nat : BlocksOf(k) /\ (NodesWhole(k) \/ NodeErased(k))
  BY DEF NodesHeld
<1>2. nodeFile' = nodeFile /\ nodeStack' = nodeStack /\ nodeTable' = nodeTable
  BY DEF nodeFiles
<1>3. BlocksOf(k)'
  BY <1>1, <1>2 DEF BlocksOf
<1>4. NodesWhole(k)' \/ NodeErased(k)'
  BY <1>1, <1>2 DEF NodesWhole, NodeErased, NextId
<1>5. QED
  BY <1>3, <1>4 DEF NodesHeld

LEMMA QuietNodes ==
    ASSUME QuietStep
    PROVE  nodeStorage' = nodeStorage /\ ~(pc = "commit" /\ todo # {})
<1> USE DEF Return, Enter, Ascend, StartCommit, storages
<1>1. CASE DescendSet \/ DescendDel \/ KeyDoesNotExist
  BY <1>1 DEF DescendSet, DescendDel, KeyDoesNotExist
<1>2. CASE AscendPlain \/ SetOverflow \/ DelShortage
  BY <1>2 DEF AscendPlain, SetOverflow, DelShortage
<1>3. CASE RootStays \/ RootSplit \/ RootCollapse \/ ClearBuffer
  BY <1>3 DEF RootStays, RootSplit, RootCollapse, ClearBuffer
<1>4. CASE FindNode \/ Get \/ GetRangeEnd \/ GetRangeNextLeaf
  BY <1>4 DEF FindNode, Get, GetRangeEnd, GetRangeNextLeaf
<1>5. QED
  BY <1>1, <1>2, <1>3, <1>4 DEF QuietStep

LEMMA CreateNodes == ASSUME Create PROVE NodesHeld'
<1>1. /\ nodeStorage' = Put(Empty, 0, EmptyRoot)
      /\ nodeFile' = <<Binary!Block(EmptyRoot)>> /\ nodeStack' = <<>> /\ nodeTable' = <<0>>
  BY DEF Create
<1>2. DOMAIN nodeStorage' = 0 .. 1 - 1 /\ nodeStorage'[0] = EmptyRoot
  BY <1>1 DEF Put, Empty
<1>3. NodesWhole(1)'
  <2>1. <<0>> = [i \in 1 .. 1 |-> i - 1]
    OBVIOUS
  <2>2. QED
    BY <2>1, <1>1 DEF NodesWhole
<1>4. BlocksOf(1)'
  <2> DEFINE e == Binary!Block(EmptyRoot)
  <2>1. \A i \in 1 .. 1 : Binary!Block(nodeStorage'[i - 1]) = e
    BY <1>2
  <2> HIDE DEF e
  <2>2. <<e>> = [i \in 1 .. 1 |-> e]
    OBVIOUS
  <2>3. nodeFile' = [i \in 1 .. 1 |-> Binary!Block(nodeStorage'[i - 1])]
    BY <1>1, <2>1, <2>2 DEF e
  <2>4. QED
    BY <1>2, <2>3 DEF BlocksOf
<1>5. QED
  BY <1>3, <1>4 DEF NodesHeld

LEMMA NodesStep ==
    ASSUME ShapeInv, NodesInv, [KVNext]_kvVars
    PROVE  NodesInv'
<1>1. CASE Create
  BY <1>1, CreateNodes DEF NodesInv
<1>2. CASE Load \/ Close \/ Crash \/ LoadValues \/ NoValueFiles \/ NoRoot
  BY <1>2 DEF NodesInv, Load, Close, Crash, LoadValues, NoValueFiles, NoRoot, Fail
<1>3. CASE CallStep
  <2>1. session = "open" /\ NodesHeld
    BY <1>3 DEF CallStep, NodesInv
  <2>2. CASE Compute
    <3>1. UNCHANGED nodeFiles
      BY <2>2 DEF Compute, files
    <3>2. QED
      BY <3>1, <2>1, <2>2, QuietNodes, NodesKept DEF Compute, NodesInv
  <2>3. CASE EraseOldValue
    <3>1. UNCHANGED nodeFiles /\ nodeStorage' = nodeStorage /\ pc' = pc /\ todo' = todo
      BY <2>3 DEF EraseOldValue, vars, storages, locals
    <3>2. QED
      BY <3>1, <2>1, NodesKept DEF NodesInv
  <2>4. CASE InsertValue \/ EraseValue
    <3>1. UNCHANGED nodeFiles /\ nodeStorage' = nodeStorage /\ pc = "down"
      BY <2>4 DEF InsertValue, EraseValue, SetLeafAdd, SetLeafReplace, DelLeaf
    <3>2. QED
      BY <3>1, <2>1, NodesKept DEF NodesInv
  <2>5. CASE EraseOldNode \/ InsertNode
    BY <2>1, <2>5, EraseOldNodeHolds, InsertNodeHolds DEF NodesInv
  <2>6. QED
    BY <1>3, <2>2, <2>3, <2>4, <2>5 DEF CallStep
<1>4. ASSUME NEW c \in Calls, Begin(c) PROVE NodesInv'
  <2>1. UNCHANGED nodeFiles /\ nodeStorage' = nodeStorage /\ pc = "idle" /\ session = "open"
    BY <1>4 DEF Begin, Invoke, files, storages
  <2>2. QED
    BY <2>1, NodesKept DEF NodesInv
<1>5. CASE UNCHANGED kvVars
  <2>1. /\ UNCHANGED nodeFiles /\ nodeStorage' = nodeStorage /\ pc' = pc /\ todo' = todo
        /\ session' = session
    BY <1>5 DEF kvVars, files, vars, storages, locals, lifetime
  <2>2. QED
    BY <2>1, NodesKept DEF NodesInv
<1>6. QED
  BY <1>1, <1>2, <1>3, <1>4, <1>5 DEF KVNext, RunningCode

LEMMA NodesAlways == KVSpec => [](ShapeInv /\ NodesInv)
<1>1. KVInit => ShapeInv /\ NodesInv
  BY InitTree DEF KVInit, NodesInv
<1>2. ShapeInv /\ NodesInv /\ [KVNext]_kvVars => (ShapeInv /\ NodesInv)'
  BY TreeStep, NodesStep
<1>3. QED
  BY <1>1, <1>2, PTL DEF KVSpec

\* Deleted nodes are never erased from the node storage, and between calls every
\* id ever handed out has its block at the position of its number.
THEOREM EveryNodeInFile == KVSpec => []NodeFileHoldsEveryNode
<1>1. ShapeInv /\ NodesInv => NodeFileHoldsEveryNode
  <2> SUFFICES ASSUME ShapeInv, NodesInv, session = "open", pc = "idle"
               PROVE  /\ nodeStack = <<>>
                      /\ nodeTable = [i \in 1 .. nextNodeId |-> i - 1]
                      /\ Len(nodeFile) = nextNodeId
    BY DEF NodeFileHoldsEveryNode
  <2>1. PICK k \in Nat : BlocksOf(k) /\ NodesWhole(k)
    BY DEF NodesInv, NodesHeld, NodeErased
  <2>2. DOMAIN nodeStorage = 0 .. nextNodeId - 1 /\ nextNodeId \in Nat /\ nextNodeId >= 1
    BY DEF ShapeInv, Shape, StorageOK, Ids, CountersOK
  <2>3. k = nextNodeId
    <3>1. 0 .. k - 1 = 0 .. nextNodeId - 1
      BY <2>1, <2>2 DEF BlocksOf
    <3>2. k >= 1
      BY <3>1, <2>2
    <3>3. k - 1 \in 0 .. nextNodeId - 1 /\ nextNodeId - 1 \in 0 .. k - 1
      BY <3>1, <3>2, <2>2
    <3>4. QED
      BY <3>3, <2>2
  <2>4. Vector(nodeFile, k)
    BY <2>1 DEF BlocksOf, Vector
  <2>5. QED
    BY <2>1, <2>3, <2>4, VectorLen DEF NodesWhole
<1>2. QED
  BY <1>1, NodesAlways, PTL

\* The block of every node the tree takes for stored is at the position of its id.
BlocksAreStored ==
    session = "open" =>
        nodeFile = [i \in 1 .. Len(nodeFile) |-> Binary!Block(nodeStorage[i - 1])]

\* The node file holds the binary form of the nodes that the tree takes for the
\* contents of its node storage, also between the erase and the insert of a commit.
THEOREM BlocksInFile == KVSpec => []BlocksAreStored
<1>1. NodesInv => BlocksAreStored
  <2> SUFFICES ASSUME NodesInv, session = "open"
               PROVE  nodeFile = [i \in 1 .. Len(nodeFile) |-> Binary!Block(nodeStorage[i - 1])]
    BY DEF BlocksAreStored
  <2>1. PICK k \in Nat : BlocksOf(k)
    BY DEF NodesInv, NodesHeld
  <2>2. Vector(nodeFile, k)
    BY <2>1 DEF BlocksOf, Vector
  <2>3. QED
    BY <2>1, <2>2, VectorLen DEF BlocksOf
<1>2. QED
  BY <1>1, NodesAlways, PTL

\* What IOStorage::insert leaves to its callers: no id lies behind the next one
\* of its table.
InsertsMeetContract ==
    session = "open" =>
        /\ pc = "commit" /\ todo # {} => NextId <= Len(nodeTable)
        /\ AtLeafOfSet => ValueId <= Len(valueTable)

\* Neither commit nor setValue ever inserts an id that IOStorage's table could
\* not be written at.
THEOREM InsertsInOrder == KVSpec => []InsertsMeetContract
<1>1. ShapeInv /\ OpenInv /\ NodesInv => InsertsMeetContract
  <2> SUFFICES ASSUME ShapeInv, ValuesHeld, NodesHeld
               PROVE  /\ pc = "commit" /\ todo # {} => NextId <= Len(nodeTable)
                      /\ AtLeafOfSet => ValueId <= Len(valueTable)
    BY DEF InsertsMeetContract, OpenInv, NodesInv
  <2>1. ASSUME pc = "commit", todo # {} PROVE NextId <= Len(nodeTable)
    <3>1. PICK k \in Nat : BlocksOf(k) /\ (NodesWhole(k) \/ NodeErased(k))
      BY DEF NodesHeld
    <3>2. Vector(nodeTable, k)
      BY <3>1 DEF NodesWhole, NodeErased, Vector
    <3>3. Len(nodeTable) = k
      BY <3>2, VectorLen
    <3>4. /\ NextId \in todo /\ NextId \in Nat /\ \A y \in todo : NextId <= y
      BY <2>1, NextIdToCommit
    <3>5. 0 .. k - 1 \cup todo = 0 .. nextNodeId - 1 /\ nextNodeId \in Nat
      BY <2>1, <3>1 DEF BlocksOf, ShapeInv, Shape, StorageOK, CommitOK, Ids, CountersOK
    <3>6. CASE k \in todo
      BY <3>3, <3>4, <3>6
    <3>7. CASE k \notin todo
      <4>1. k \notin 0 .. nextNodeId - 1
        BY <3>5, <3>7
      <4>2. NextId \in 0 .. nextNodeId - 1
        BY <3>4, <3>5
      <4>3. QED
        BY <4>1, <4>2, <3>3, <3>5
    <3>8. QED
      BY <3>6, <3>7
  <2>2. ASSUME AtLeafOfSet PROVE ValueId <= Len(valueTable)
    BY <2>2, ValueAtLeaf DEF AtLeafOfSet, Updates
  <2>3. QED
    BY <2>1, <2>2
<1>2. KVInit => ShapeInv /\ OpenInv
  BY InitTree DEF KVInit, OpenInv
<1>3. ShapeInv /\ OpenInv /\ [KVNext]_kvVars => (ShapeInv /\ OpenInv)'
  BY TreeStep, HeldStep
<1>4. QED
  BY <1>1, <1>2, <1>3, NodesAlways, PTL DEF KVSpec

-------------------------------------------------------------------------------
(* The contract of IOStorage's callers *)

\* The pair of a key that a call has found is one of the tree.
LEMMA FoundPair ==
    ASSUME ShapeInv, NEW E, TreeOf(E), pc = "down", Updates, node.leaf, FindKey # Nil
    PROVE  <<call.key, node.ptrs[FindKey]>> \in E
<1> DEFINE h == HeapOf(Memory, nextNodeId)
           c == Cur(path)
<1>1. /\ AimedAt(h, path, call.key, E) /\ call.key \in Int /\ node.leaf = TRUE
      /\ FindKey \in 1 .. Kids(node) /\ Key(node, FindKey) = call.key
  BY LeafAtWork
<1>2. node = h[c]
  <2>1. AtNode(node, path, h)
    BY NodeOfDown
  <2>2. QED
    BY <2>1 DEF AtNode
<1> HIDE DEF h, c
<1>3. PICK live, height, low : AimedOn(h, live, height, low, path, call.key, E)
  BY <1>1 DEF AimedAt
<1>4. AtLeaf(h, live, low, path, c, call.key, E)
  <2>1. c = Cur(path)
    BY DEF c
  <2>2. h[c].leaf
    BY <1>1, <1>2
  <2>3. QED
    BY <1>1, <1>3, <2>1, <2>2, LeafFinds
<1>5. PairsOf(node) \subseteq E
  BY <1>2, <1>4 DEF AtLeaf
<1>6. <<call.key, node.ptrs[FindKey]>> \in PairsOf(node)
  BY <1>1 DEF PairsOf, Kid
<1>7. QED
  BY <1>5, <1>6

\* No caller of IOStorage ever breaks its contract: neither commit nor setValue
\* inserts an id behind the next one of the table, and del erases only a value
\* that is there.
THEOREM ContractMet == KVSpec => []CallersMeetContract
<1>1. ShapeInv /\ OpenInv /\ InsertsMeetContract => CallersMeetContract
  <2> SUFFICES ASSUME ShapeInv, OpenInv, InsertsMeetContract, session = "open"
               PROVE  /\ pc = "commit" /\ todo # {} => NextId <= Len(nodeTable)
                      /\ AtLeafOfSet => ValueId <= Len(valueTable)
                      /\ pc = "down" /\ call.op = "del" /\ node.leaf /\ FindKey # Nil =>
                             V!Find(node.ptrs[FindKey]) # V!NoPos
    BY DEF CallersMeetContract
  <2>1. ASSUME pc = "down", call.op = "del", node.leaf, FindKey # Nil
        PROVE  V!Find(node.ptrs[FindKey]) # V!NoPos
    <3> DEFINE id == node.ptrs[FindKey]
    <3>1. PICK E : TreeOf(E) /\ Matched(E, DOMAIN valueStorage)
      BY DEF ShapeInv, PairsMatch
    <3>2. <<call.key, id>> \in E
      BY <2>1, <3>1, FoundPair DEF Updates
    <3> HIDE DEF id
    <3>3. id \in DOMAIN valueStorage
      BY <3>1, <3>2 DEF Matched
    <3>4. BeingReplaced = {} /\ Holding
      BY <2>1 DEF BeingReplaced, AtLeafOfSet, OpenInv, ValuesHeld
    <3>5. id \in DOMAIN VP!Contents
      BY <3>3, <3>4 DEF Holding
    <3>6. VP!Find(id) # VP!NoPos
      BY <3>5 DEF VP!Contents, VP!Live
    <3>7. V!Find(id) # V!NoPos
      BY <3>6, SameStorage DEF VP!NoPos, V!NoPos
    <3>8. QED
      BY <3>7 DEF id
  <2>2. QED
    BY <2>1 DEF InsertsMeetContract
<1>2. KVInit => ShapeInv /\ OpenInv
  BY InitTree DEF KVInit, OpenInv
<1>3. ShapeInv /\ OpenInv /\ [KVNext]_kvVars => (ShapeInv /\ OpenInv)'
  BY TreeStep, HeldStep
<1>4. QED
  BY <1>1, <1>2, <1>3, InsertsInOrder, PTL DEF KVSpec

-------------------------------------------------------------------------------
(* Type correctness. *)

\* Constructors, destructors and crashes keep to their variables' types, and an
\* open session has the files of both storages.
Lifetime ==
    /\ {nodesExist, valuesExist, crashed} \subseteq BOOLEAN
    /\ session \in {"none", "open", "nodes", "root"}
    /\ session # "none" => nodesExist
    /\ session = "open" => valuesExist
    /\ outcome \in {"none", "open", "failed"}
    /\ sessions \in 0 .. MaxSessions

LEMMA LifetimeEvents ==
    ASSUME Lifetime, Create \/ Load \/ Close \/ Crash \/ LoadValues \/ NoValueFiles \/ NoRoot
    PROVE  Lifetime'
<1> USE SessionsAssumption DEF Lifetime
<1>1. CASE Create
  <2>1. /\ {nodesExist, valuesExist, crashed}' \subseteq BOOLEAN /\ nodesExist' /\ valuesExist'
        /\ session' = "open" /\ outcome' = "open"
    BY <1>1 DEF Create, NodesMade
  <2>2. sessions' \in 0 .. MaxSessions
    BY <1>1 DEF Create
  <2>3. QED
    BY <2>1, <2>2
<1>2. CASE Load
  BY <1>2 DEF Load, NodesMade
<1>3. CASE Close
  BY <1>3 DEF Close, RemoveFiles, NodesGone
<1>4. CASE Crash
  BY <1>4 DEF Crash, existence
<1>5. CASE LoadValues
  BY <1>5 DEF LoadValues, existence
<1>6. CASE NoValueFiles
  BY <1>6 DEF NoValueFiles, NodesGone, Fail
<1>7. CASE NoRoot
  BY <1>7 DEF NoRoot, RemoveFiles, NodesGone, Fail
<1>8. QED
  BY <1>1, <1>2, <1>3, <1>4, <1>5, <1>6, <1>7

LEMMA LifetimeStep == Lifetime /\ [KVNext]_kvVars => Lifetime'
<1> SUFFICES ASSUME Lifetime, [KVNext]_kvVars PROVE Lifetime'
  OBVIOUS
<1>1. CASE UNCHANGED lifetime
  BY <1>1 DEF lifetime, existence, Lifetime
<1>2. CASE CallStep \/ (\E c \in Calls : Begin(c)) \/ UNCHANGED kvVars
  BY <1>1, <1>2 DEF CallStep, Begin, kvVars
<1>3. QED
  BY <1>2, LifetimeEvents DEF KVNext, RunningCode

\* Whatever calls, crashes and loads a behaviour has: the variables of a session
\* keep their types, an open one has the files of both storages, and value ids
\* stay below their bound.
THEOREM LifeTypeCorrect == KVSpec => []KVTypeOK
<1>1. KVInit => Lifetime
  <2> SUFFICES ASSUME KVInit PROVE Lifetime
    OBVIOUS
  <2>1. sessions \in 0 .. MaxSessions
    BY SessionsAssumption DEF KVInit
  <2>2. {nodesExist, valuesExist, crashed} \subseteq BOOLEAN
    BY DEF KVInit
  <2>3. QED
    BY <2>1, <2>2 DEF KVInit, Lifetime
<1>2. KVInit => ShapeInv /\ OpenInv
  BY InitTree DEF KVInit, OpenInv
<1>3. ShapeInv /\ OpenInv /\ [KVNext]_kvVars => (ShapeInv /\ OpenInv)'
  BY TreeStep, HeldStep
<1>4. ShapeInv /\ OpenInv /\ session = "open" => nextValueId < MaxIds
  <2> SUFFICES ASSUME ShapeInv, OpenInv, session = "open" PROVE nextValueId < MaxIds
    OBVIOUS
  <2>1. nextValueId \in Nat /\ calls \in 0 .. MaxCalls
    BY DEF ShapeInv, Shape, CountersOK
  <2>2. nextValueId <= calls
    BY <2>1 DEF OpenInv, ValuesHeld
  <2>3. QED
    BY <2>1, <2>2, IdsAssumption, SessionsAssumption, CallsAssumption
<1>5. Lifetime /\ ShapeInv /\ OpenInv => KVTypeOK
  BY <1>4 DEF Lifetime, KVTypeOK
<1>6. QED
  BY <1>1, <1>2, <1>3, <1>5, LifetimeStep, PTL DEF KVSpec

-------------------------------------------------------------------------------
(* The binary form of a node. *)

\* The numbers of s, of the given bytes each, are in b from position at on.
HoldsAt(b, at, s, bytes) ==
    \A q \in 1 .. Len(s) : \A j \in 1 .. bytes :
        b[at + (q - 1) * bytes + j] = IF j = 1 THEN s[q] ELSE Binary!Rest

LEMMA Places ==
    ASSUME NEW n \in Nat, NEW k \in Nat, NEW q \in 1 .. n, NEW j \in 1 .. k
    PROVE  /\ (q - 1) * k \in Nat /\ n * k \in Nat
           /\ (q - 1) * k + j \in 1 .. n * k
<1>1. n * k = (q - 1) * k + (n - q + 1) * k
  BY SMT
<1>2. (n - q) * k >= 0 /\ (q - 1) * k >= 0
  BY SMT
<1>3. (n - q + 1) * k = (n - q) * k + k
  BY SMT
<1>4. QED
  BY <1>1, <1>2, <1>3, SMT

LEMMA QuotientOf ==
    ASSUME NEW q \in Nat, NEW k \in Nat, NEW j \in 1 .. k
    PROVE  /\ (q * k + j - 1) \div k = q
           /\ (q * k + j - 1) % k = j - 1
  BY SMT

LEMMA SerializedAll ==
    ASSUME NEW s \in Seq(Int), NEW k \in Nat \ {0}
    PROVE  /\ Binary!SerializeAll(s, k) \in Seq(Int)
           /\ Len(Binary!SerializeAll(s, k)) = Len(s) * k
           /\ Len(s) * k \in Nat
           /\ HoldsAt(Binary!SerializeAll(s, k), 0, s, k)
<1> DEFINE b == Binary!SerializeAll(s, k)
<1>1. Len(s) \in Nat /\ \A i \in 1 .. Len(s) : s[i] \in Int
  BY LenProperties, ElementOfSeq
<1>2. Len(s) * k \in Nat
  BY <1>1, SMT
<1>3. ASSUME NEW i \in 1 .. Len(s) * k
      PROVE  (i - 1) \div k + 1 \in 1 .. Len(s)
  <2>1. i - 1 \in Nat /\ i - 1 < Len(s) * k
    BY <1>2, <1>3
  <2>2. (i - 1) \div k \in Nat /\ ((i - 1) \div k) * k <= i - 1
    BY <2>1, SMT
  <2>3. (i - 1) \div k < Len(s)
    <3>1. SUFFICES ASSUME (i - 1) \div k >= Len(s) PROVE FALSE
      BY <2>2, <1>1
    <3>2. \A x, y \in Nat : x >= y => x * k >= y * k
      <4>1. \A x \in Nat : x * k >= 0
        BY SMT
      <4>2. \A x, y \in Nat : (x - y) * k = x * k - y * k
        BY SMT
      <4>3. \A x, y \in Nat : x * k \in Int /\ y * k \in Int
        BY SMT
      <4>4. ASSUME NEW x \in Nat, NEW y \in Nat, x >= y PROVE x * k >= y * k
        <5>1. x - y \in Nat
          BY <4>4
        <5>2. (x - y) * k >= 0 /\ (x - y) * k = x * k - y * k
          BY <4>1, <4>2, <5>1
        <5>3. QED
          BY <4>3, <5>2
      <4>5. QED
        BY <4>4
    <3>3. ((i - 1) \div k) * k >= Len(s) * k
      BY <3>1, <3>2, <2>2, <1>1
    <3>4. QED
      BY <3>3, <2>1, <2>2, <1>2
  <2>4. QED
    BY <2>2, <2>3, <1>1
<1>4. b = [i \in 1 .. Len(s) * k |-> IF (i - 1) % k = 0 THEN s[(i - 1) \div k + 1] ELSE -2]
  BY DEF Binary!SerializeAll, Binary!Rest
<1>5. b \in [1 .. Len(s) * k -> Int]
  <2>1. ASSUME NEW i \in 1 .. Len(s) * k
        PROVE  (IF (i - 1) % k = 0 THEN s[(i - 1) \div k + 1] ELSE -2) \in Int
    BY <1>1, <1>3
  <2>2. QED
    BY <1>4, <2>1
<1>6. b \in Seq(Int) /\ Len(b) = Len(s) * k
  <2>1. ASSUME NEW c, NEW n \in Nat, c \in [1 .. n -> Int] PROVE c \in Seq(Int) /\ Len(c) = n
    BY <2>1
  <2>2. QED
    BY <1>2, <1>5, <2>1
<1>7. ASSUME NEW q \in 1 .. Len(s), NEW j \in 1 .. k
      PROVE  b[0 + (q - 1) * k + j] = IF j = 1 THEN s[q] ELSE -2
  <2> DEFINE i == (q - 1) * k + j
  <2>1. i \in 1 .. Len(s) * k /\ (q - 1) * k \in Nat
    BY Places, <1>1
  <2>2. (i - 1) \div k = q - 1 /\ (i - 1) % k = j - 1
    <3>1. q - 1 \in Nat
      BY <1>1
    <3> HIDE DEF b
    <3>2. QED
      BY <3>1, QuotientOf
  <2>3. b[i] = IF (i - 1) % k = 0 THEN s[(i - 1) \div k + 1] ELSE -2
    BY <1>4, <2>1
  <2>4. 0 + (q - 1) * k + j = i
    BY <2>1
  <2> HIDE DEF i, b
  <2>5. QED
    BY <2>2, <2>3, <2>4, <1>1
<1>8. QED
  BY <1>2, <1>6, <1>7 DEF HoldsAt, Binary!Rest

LEMMA HeldBefore ==
    ASSUME NEW b \in Seq(Int), NEW c \in Seq(Int), NEW s \in Seq(Int),
           NEW k \in Nat \ {0}, NEW at \in Nat,
           at + Len(s) * k <= Len(b), HoldsAt(b, at, s, k)
    PROVE  HoldsAt(b \o c, at, s, k)
<1>1. Len(s) \in Nat /\ Len(b) \in Nat
  BY LenProperties
<1>2. ASSUME NEW q \in 1 .. Len(s), NEW j \in 1 .. k
      PROVE  (b \o c)[at + (q - 1) * k + j] = IF j = 1 THEN s[q] ELSE Binary!Rest
  <2>1. (q - 1) * k + j \in 1 .. Len(s) * k /\ (q - 1) * k \in Nat /\ Len(s) * k \in Nat
    BY Places, <1>1
  <2>2. at + (q - 1) * k + j \in 1 .. Len(b)
    BY <2>1, <1>1
  <2>3. (b \o c)[at + (q - 1) * k + j] = b[at + (q - 1) * k + j]
    BY <2>2, ConcatProperties
  <2>4. QED
    BY <2>3 DEF HoldsAt
<1>3. QED
  BY <1>2 DEF HoldsAt

LEMMA HeldBehind ==
    ASSUME NEW b \in Seq(Int), NEW c \in Seq(Int), NEW s \in Seq(Int),
           NEW k \in Nat \ {0}, NEW at \in Nat,
           at + Len(s) * k <= Len(c), HoldsAt(c, at, s, k)
    PROVE  HoldsAt(b \o c, Len(b) + at, s, k)
<1>1. Len(s) \in Nat /\ Len(b) \in Nat /\ Len(c) \in Nat
  BY LenProperties
<1>2. ASSUME NEW q \in 1 .. Len(s), NEW j \in 1 .. k
      PROVE  (b \o c)[Len(b) + at + (q - 1) * k + j] = IF j = 1 THEN s[q] ELSE Binary!Rest
  <2>1. (q - 1) * k + j \in 1 .. Len(s) * k /\ (q - 1) * k \in Nat /\ Len(s) * k \in Nat
    BY Places, <1>1
  <2>2. at + (q - 1) * k + j \in 1 .. Len(c)
    BY <2>1, <1>1
  <2>3. (b \o c)[Len(b) + (at + (q - 1) * k + j)] = c[at + (q - 1) * k + j]
    BY <2>2, <1>1, ConcatProperties
  <2>4. Len(b) + at + (q - 1) * k + j = Len(b) + (at + (q - 1) * k + j)
    BY <2>1, <1>1
  <2>5. QED
    BY <2>3, <2>4 DEF HoldsAt
<1>3. QED
  BY <1>2 DEF HoldsAt

LEMMA BlockIsWhole ==
    ASSUME NEW b \in Seq(Int), Binary!BlockSize \in Nat
    PROVE  /\ Binary!ToBlock(b) \in Seq(Int) /\ Len(Binary!ToBlock(b)) = Binary!BlockSize
           /\ \A i \in 1 .. Binary!BlockSize : i <= Len(b) => Binary!ToBlock(b)[i] = b[i]
<1> DEFINE B == Binary!BlockSize
           c == [i \in 1 .. B |-> IF i <= Len(b) THEN b[i] ELSE 0]
<1>1. Binary!ToBlock(b) = c
  BY DEF Binary!ToBlock
<1>2. Len(b) \in Nat /\ \A i \in 1 .. Len(b) : b[i] \in Int
  BY LenProperties, ElementOfSeq
<1> HIDE DEF B
<1>3. c \in [1 .. B -> Int]
  BY <1>2
<1>4. B \in Nat
  BY DEF B
<1>5. c \in Seq(Int) /\ Len(c) = B
  <2>1. ASSUME NEW d, NEW n \in Nat, d \in [1 .. n -> Int] PROVE d \in Seq(Int) /\ Len(d) = n
    BY <2>1
  <2> HIDE DEF c
  <2>2. QED
    BY <1>3, <1>4, <2>1
<1>6. QED
  BY <1>1, <1>5 DEF B

LEMMA HeldByBlock ==
    ASSUME NEW b \in Seq(Int), NEW s \in Seq(Int), NEW k \in Nat \ {0}, NEW at \in Nat,
           at + Len(s) * k <= Len(b), HoldsAt(b, at, s, k),
           Binary!BlockSize \in Nat, at + Len(s) * k <= Binary!BlockSize
    PROVE  HoldsAt(Binary!ToBlock(b), at, s, k)
<1>1. Len(s) \in Nat /\ Len(b) \in Nat
  BY LenProperties
<1>2. ASSUME NEW q \in 1 .. Len(s), NEW j \in 1 .. k
      PROVE  Binary!ToBlock(b)[at + (q - 1) * k + j] = IF j = 1 THEN s[q] ELSE Binary!Rest
  <2>1. (q - 1) * k + j \in 1 .. Len(s) * k /\ (q - 1) * k \in Nat /\ Len(s) * k \in Nat
    BY Places, <1>1
  <2>2. at + (q - 1) * k + j \in 1 .. Binary!BlockSize /\ at + (q - 1) * k + j <= Len(b)
    BY <2>1, <1>1
  <2>3. Binary!ToBlock(b)[at + (q - 1) * k + j] = b[at + (q - 1) * k + j]
    BY <2>2, BlockIsWhole
  <2>4. QED
    BY <2>3 DEF HoldsAt
<1>3. QED
  BY <1>2 DEF HoldsAt

\* deserialize reads what serialize has written.
LEMMA ReadsBack ==
    ASSUME NEW b \in Seq(Int), NEW s \in Seq(Int), NEW k \in Nat \ {0}, NEW at \in Nat,
           at + Len(s) * k <= Len(b), HoldsAt(b, at, s, k), NEW q \in 1 .. Len(s)
    PROVE  Binary!Deserialize(b, at + (q - 1) * k, k) = s[q]
<1> DEFINE p == at + (q - 1) * k
           part == SubSeq(b, p + 1, p + k)
<1>1. Len(s) \in Nat /\ Len(b) \in Nat /\ s[q] \in Int
  BY LenProperties, ElementOfSeq
<1>2. /\ (q - 1) * k \in Nat /\ Len(s) * k \in Nat
      /\ (q - 1) * k + k \in 1 .. Len(s) * k
  <2>1. k \in 1 .. k
    OBVIOUS
  <2>2. QED
    BY <2>1, Places, <1>1
<1>3. p \in Nat /\ p + k <= Len(b)
  <2>1. ASSUME NEW x \in Nat, NEW y \in Nat, x + k \in 1 .. y, at + y <= Len(b)
        PROVE  at + x \in Nat /\ at + x + k <= Len(b)
    BY <2>1, <1>1
  <2>2. QED
    BY <1>2, <2>1
<1>4. \A j \in 1 .. k : b[p + j] = IF j = 1 THEN s[q] ELSE -2
  BY DEF HoldsAt, Binary!Rest
<1> HIDE DEF p
<1>5. part \in Seq(Int) /\ Len(part) = k /\ \A j \in 1 .. k : part[j] = b[p + j]
  <2> DEFINE first == p + 1
             last == p + k
  <2>1. first \in Int /\ last \in Int /\ first <= last /\ \A i \in first .. last : b[i] \in Int
    <3>1. first \in Nat /\ last \in Nat /\ first >= 1 /\ last <= Len(b) /\ first <= last
      BY <1>3, <1>1
    <3> HIDE DEF first, last
    <3>2. \A i \in first .. last : i \in 1 .. Len(b)
      BY <1>1, <3>1
    <3>3. QED
      BY <3>1, <3>2, ElementOfSeq
  <2>2. part = SubSeq(b, first, last)
    OBVIOUS
  <2> HIDE DEF part, first, last
  <2>3. /\ part \in Seq(Int)
        /\ Len(part) = last - first + 1
        /\ \A i \in 1 .. last - first + 1 : part[i] = b[first + i - 1]
    BY <2>1, <2>2, SubSeqProperties
  <2>4. last - first + 1 = k /\ \A i \in 1 .. k : first + i - 1 = p + i
    BY <1>3 DEF first, last
  <2>5. QED
    BY <2>3, <2>4
<1> HIDE DEF part
<1>6. part = [j \in 1 .. k |-> IF j = 1 THEN s[q] ELSE -2]
  <2>1. part = [j \in 1 .. k |-> part[j]]
    <3>1. ASSUME NEW c \in Seq(Int), Len(c) = k PROVE c = [j \in 1 .. k |-> c[j]]
      BY <3>1
    <3>2. QED
      BY <1>5, <3>1
  <2>2. \A j \in 1 .. k : part[j] = IF j = 1 THEN s[q] ELSE -2
    BY <1>4, <1>5
  <2>3. QED
    BY <2>1, <2>2
<1>7. part[1] = s[q]
  <2>1. 1 \in 1 .. k
    OBVIOUS
  <2>2. QED
    BY <1>4, <1>5, <2>1
<1>8. part = Binary!Serialize(part[1], k)
  BY <1>6, <1>7 DEF Binary!Serialize, Binary!Rest
<1>9. ~(p + k > Len(b))
  BY <1>3, <1>1
<1>10. QED
  BY <1>7, <1>8, <1>9 DEF Binary!Deserialize, part, p

\* The numbers of s are read back, the first, the second, or all of them.
LEMMA ReadsNumbers ==
    ASSUME NEW b \in Seq(Int), NEW s \in Seq(Int), NEW k \in Nat \ {0}, NEW at \in Nat,
           at + Len(s) * k <= Len(b), HoldsAt(b, at, s, k)
    PROVE  /\ Len(s) >= 1 => Binary!Deserialize(b, at, k) = s[1]
           /\ Len(s) >= 2 => Binary!Deserialize(b, at + k, k) = s[2]
           /\ Binary!Numbers(b, at, Len(s), k) = s
<1>1. Len(s) \in Nat
  BY LenProperties
<1>2. \A q \in 1 .. Len(s) : Binary!Deserialize(b, at + (q - 1) * k, k) = s[q]
  BY ReadsBack
<1>3. at + (1 - 1) * k = at /\ at + (2 - 1) * k = at + k
  OBVIOUS
<1>4. Len(s) >= 1 => Binary!Deserialize(b, at, k) = s[1]
  <2>1. ASSUME Len(s) >= 1 PROVE Binary!Deserialize(b, at + (1 - 1) * k, k) = s[1]
    BY <1>1, <1>2, <2>1
  <2>2. QED
    BY <1>3, <2>1
<1>5. Len(s) >= 2 => Binary!Deserialize(b, at + k, k) = s[2]
  <2>1. ASSUME Len(s) >= 2 PROVE Binary!Deserialize(b, at + (2 - 1) * k, k) = s[2]
    BY <1>1, <1>2, <2>1
  <2>2. QED
    BY <1>3, <2>1
<1>6. s = [i \in 1 .. Len(s) |-> s[i]]
  OBVIOUS
<1>7. Binary!Numbers(b, at, Len(s), k) = [i \in 1 .. Len(s) |-> s[i]]
  BY <1>2 DEF Binary!Numbers
<1>8. QED
  BY <1>4, <1>5, <1>6, <1>7

LEMMA SerializedOne ==
    ASSUME NEW v \in Int, NEW k \in Nat \ {0}
    PROVE  /\ Binary!Serialize(v, k) \in Seq(Int) /\ Len(Binary!Serialize(v, k)) = k
           /\ HoldsAt(Binary!Serialize(v, k), 0, <<v>>, k)
<1> DEFINE b == [i \in 1 .. k |-> IF i = 1 THEN v ELSE -2]
<1>1. Binary!Serialize(v, k) = b
  BY DEF Binary!Serialize, Binary!Rest
<1>2. b \in [1 .. k -> Int]
  OBVIOUS
<1>3. b \in Seq(Int) /\ Len(b) = k
  <2>1. ASSUME NEW c, NEW n \in Nat, c \in [1 .. n -> Int] PROVE c \in Seq(Int) /\ Len(c) = n
    BY <2>1
  <2> HIDE DEF b
  <2>2. QED
    BY <1>2, <2>1
<1>4. ASSUME NEW q \in 1 .. Len(<<v>>), NEW j \in 1 .. k
      PROVE  b[0 + (q - 1) * k + j] = IF j = 1 THEN <<v>>[q] ELSE -2
  <2>1. q = 1 /\ <<v>>[1] = v
    BY <1>4
  <2>2. 0 + (1 - 1) * k + j = j
    OBVIOUS
  <2>3. b[j] = IF j = 1 THEN v ELSE -2
    OBVIOUS
  <2> HIDE DEF b
  <2>4. QED
    BY <2>1, <2>2, <2>3
<1>5. QED
  BY <1>1, <1>3, <1>4 DEF HoldsAt, Binary!Rest

\* s is in b from position at on, and b does not end before it does.
In(b, at, s, bytes) == at \in Nat /\ at + Len(s) * bytes <= Len(b) /\ HoldsAt(b, at, s, bytes)

LEMMA InConcat ==
    ASSUME NEW b \in Seq(Int), NEW c \in Seq(Int)
    PROVE  /\ b \o c \in Seq(Int) /\ Len(b \o c) = Len(b) + Len(c)
           /\ \A s \in Seq(Int), k \in Nat \ {0}, at \in Nat :
                  /\ In(b, at, s, k) => In(b \o c, at, s, k)
                  /\ In(c, at, s, k) => In(b \o c, Len(b) + at, s, k)
<1>1. b \o c \in Seq(Int) /\ Len(b \o c) = Len(b) + Len(c) /\ Len(b) \in Nat /\ Len(c) \in Nat
  BY ConcatProperties, LenProperties
<1>2. ASSUME NEW s \in Seq(Int), NEW k \in Nat \ {0}, NEW at \in Nat
      PROVE  /\ In(b, at, s, k) => In(b \o c, at, s, k)
             /\ In(c, at, s, k) => In(b \o c, Len(b) + at, s, k)
  <2>1. Len(s) * k \in Nat
    BY LenProperties, SMT
  <2>2. ASSUME In(b, at, s, k) PROVE In(b \o c, at, s, k)
    <3>1. HoldsAt(b \o c, at, s, k)
      BY <2>2, HeldBefore DEF In
    <3>2. QED
      BY <2>1, <2>2, <3>1, <1>1 DEF In
  <2>3. ASSUME In(c, at, s, k) PROVE In(b \o c, Len(b) + at, s, k)
    <3>1. HoldsAt(b \o c, Len(b) + at, s, k)
      BY <2>3, HeldBehind DEF In
    <3>2. QED
      BY <2>1, <2>3, <3>1, <1>1 DEF In
  <2>4. QED
    BY <2>2, <2>3
<1>3. QED
  BY <1>1, <1>2

LEMMA InBehind ==
    ASSUME NEW b \in Seq(Int), NEW c \in Seq(Int), NEW s \in Seq(Int), NEW k \in Nat \ {0},
           NEW at, In(c, at, s, k)
    PROVE  In(b \o c, Len(b) + at, s, k)
<1>1. at \in Nat
  BY DEF In
<1>2. QED
  BY <1>1, InConcat

LEMMA InAll ==
    ASSUME NEW s \in Seq(Int), NEW k \in Nat \ {0}
    PROVE  /\ Binary!SerializeAll(s, k) \in Seq(Int)
           /\ Len(Binary!SerializeAll(s, k)) = Len(s) * k
           /\ In(Binary!SerializeAll(s, k), 0, s, k)
BY SerializedAll DEF In

-------------------------------------------------------------------------------
\* What is where in the binary form of node n.
TypeNumber(n) == IF n.leaf THEN 2 ELSE 1
KeyEnd(n) == 20 + Size(n) * KeyBytes

Layout(n, b) ==
    /\ b \in Seq(Int)
    /\ In(b, 0, <<TypeNumber(n)>>, 4)
    /\ In(b, 4, <<n.id, Size(n)>>, 8)
    /\ In(b, 20, n.keys, KeyBytes)
    /\ n.leaf => In(b, KeyEnd(n), <<n.next, n.prev>>, 8) /\ In(b, KeyEnd(n) + 16, n.ptrs, 8)
    /\ ~n.leaf => In(b, KeyEnd(n), n.ptrs, 8)

Numbered(n) ==
    /\ n.leaf \in BOOLEAN /\ {n.id, n.next, n.prev} \subseteq Int
    /\ n.keys \in Seq(Int) /\ n.ptrs \in Seq(Int) /\ Len(n.ptrs) = Len(n.keys)

LEMMA CommonLayout ==
    ASSUME NEW n, Numbered(n)
    PROVE  /\ Binary!CommonPart(n) \in Seq(Int)
           /\ Len(Binary!CommonPart(n)) = 16 + Size(n) * KeyBytes
           /\ Size(n) \in Nat /\ Size(n) * KeyBytes \in Nat
           /\ In(Binary!CommonPart(n), 0, <<n.id, Size(n)>>, 8)
           /\ In(Binary!CommonPart(n), 16, n.keys, KeyBytes)
<1> DEFINE h == <<n.id, Size(n)>>
           p == Binary!SerializeAll(h, 8)
           q == Binary!SerializeAll(n.keys, KeyBytes)
<1>1. n.keys \in Seq(Int) /\ KeyBytes \in Nat \ {0} /\ Size(n) \in Nat /\ Size(n) = Len(n.keys)
  BY SessionsAssumption, LenProperties DEF Numbered, Size
<1>2. Size(n) * KeyBytes \in Nat
  BY <1>1, SMT
<1>3. h \in Seq(Int) /\ Len(h) = 2
  BY <1>1 DEF Numbered
<1>4. Binary!CommonPart(n) = p \o q
  BY DEF Binary!CommonPart, Binary!Word, Binary!Size, Size
<1> HIDE DEF h
<1>5. p \in Seq(Int) /\ Len(p) = Len(h) * 8 /\ In(p, 0, h, 8)
  <2>1. 8 \in Nat \ {0}
    OBVIOUS
  <2>2. QED
    BY <1>3, <2>1, InAll
<1>6. q \in Seq(Int) /\ Len(q) = Len(n.keys) * KeyBytes /\ In(q, 0, n.keys, KeyBytes)
  BY <1>1, InAll
<1> HIDE DEF p, q
<1>7. Len(p) = 16 /\ Len(p) + 0 = 16
  BY <1>3, <1>5
<1>8. In(p \o q, 0, h, 8) /\ In(p \o q, Len(p) + 0, n.keys, KeyBytes)
  <2>1. 8 \in Nat \ {0} /\ 0 \in Nat
    OBVIOUS
  <2>2. In(p \o q, 0, h, 8)
    BY <1>3, <1>5, <1>6, <2>1, InConcat
  <2>3. In(p \o q, Len(p) + 0, n.keys, KeyBytes)
    BY <1>1, <1>5, <1>6, <2>1, InConcat
  <2>4. QED
    BY <2>2, <2>3
<1>9. p \o q \in Seq(Int) /\ Len(p \o q) = Len(p) + Len(q)
  BY <1>5, <1>6, InConcat
<1>10. In(Binary!CommonPart(n), 0, <<n.id, Size(n)>>, 8) /\ In(Binary!CommonPart(n), 16, n.keys, KeyBytes)
  BY <1>4, <1>7, <1>8 DEF h
<1>11. Binary!CommonPart(n) \in Seq(Int) /\ Len(Binary!CommonPart(n)) = 16 + Size(n) * KeyBytes
  BY <1>1, <1>4, <1>6, <1>7, <1>9
<1>12. QED
  BY <1>1, <1>2, <1>10, <1>11

\* Behind the type, which takes 4 bytes, everything lies 4 bytes further on.
LEMMA BinaryLayout ==
    ASSUME NEW n, Numbered(n)
    PROVE  /\ Layout(n, Binary!ToBinary(n))
           /\ Len(Binary!ToBinary(n))
                = KeyEnd(n) + (IF n.leaf THEN 16 ELSE 0) + Size(n) * 8
<1> DEFINE t == Binary!Serialize(TypeNumber(n), 4)
           c == Binary!CommonPart(n)
           w == <<n.next, n.prev>>
           l == Binary!SerializeAll(w, 8)
           r == Binary!SerializeAll(n.ptrs, 8)
           h == <<n.id, Size(n)>>
           b == IF n.leaf THEN (c \o l) \o r ELSE c \o r
           z == Size(n) * KeyBytes
<1>1. /\ KeyBytes \in Nat \ {0} /\ 8 \in Nat \ {0} /\ 4 \in Nat \ {0} /\ 0 \in Nat /\ 16 \in Nat
      /\ n.leaf \in BOOLEAN /\ n.keys \in Seq(Int) /\ n.ptrs \in Seq(Int)
      /\ Len(n.ptrs) = Size(n)
  BY SessionsAssumption DEF Numbered, Size
<1>2. /\ c \in Seq(Int) /\ Len(c) = 16 + z
      /\ Size(n) \in Nat /\ z \in Nat
      /\ In(c, 0, h, 8)
      /\ In(c, 16, n.keys, KeyBytes)
  BY CommonLayout
<1>3. h \in Seq(Int) /\ w \in Seq(Int) /\ Len(w) = 2
  BY <1>2 DEF Numbered
<1>4. t \in Seq(Int) /\ Len(t) = 4 /\ In(t, 0, <<TypeNumber(n)>>, 4) /\ <<TypeNumber(n)>> \in Seq(Int)
  <2>1. TypeNumber(n) \in Int
    BY DEF TypeNumber
  <2>2. <<TypeNumber(n)>> \in Seq(Int) /\ Len(<<TypeNumber(n)>>) = 1
    BY <2>1
  <2>3. t \in Seq(Int) /\ Len(t) = 4 /\ HoldsAt(t, 0, <<TypeNumber(n)>>, 4)
    BY <1>1, <2>1, SerializedOne
  <2> HIDE DEF t
  <2>4. QED
    BY <2>2, <2>3 DEF In
<1>11. KeyEnd(n) = 20 + z
  BY DEF KeyEnd
<1>12. TypeNumber(n) \in Int
  BY DEF TypeNumber
<1>5. Binary!ToBinary(n) = t \o b
  BY DEF Binary!ToBinary, Binary!LeafPart, Binary!InnerPart, Binary!Word, Binary!TypeBytes, TypeNumber
<1> HIDE DEF h, w, z, c
<1>6. l \in Seq(Int) /\ Len(l) = 16 /\ In(l, 0, w, 8)
  <2>1. l \in Seq(Int) /\ Len(l) = Len(w) * 8 /\ In(l, 0, w, 8)
    BY <1>1, <1>3, InAll
  <2>2. QED
    BY <2>1, <1>3
<1>7. r \in Seq(Int) /\ Len(r) = Size(n) * 8 /\ In(r, 0, n.ptrs, 8)
  BY <1>1, InAll
<1> HIDE DEF t, l, r
<1>8. CASE n.leaf
  <2>1. /\ c \o l \in Seq(Int) /\ Len(c \o l) = 32 + z
        /\ In(c \o l, 0, h, 8) /\ In(c \o l, 16, n.keys, KeyBytes)
        /\ In(c \o l, Len(c) + 0, w, 8)
    <3>1. c \o l \in Seq(Int) /\ Len(c \o l) = Len(c) + Len(l)
      BY <1>2, <1>6, InConcat
    <3>2. In(c \o l, 0, h, 8) /\ In(c \o l, 16, n.keys, KeyBytes)
      BY <1>1, <1>2, <1>3, <1>6, InConcat
    <3>3. In(c \o l, Len(c) + 0, w, 8)
      BY <1>1, <1>2, <1>3, <1>6, InConcat
    <3>4. QED
      BY <3>1, <3>2, <3>3, <1>2, <1>6
  <2>2. Len(c) + 0 = 16 + z /\ 16 + z \in Nat
    BY <1>2
  <2>3. /\ (c \o l) \o r \in Seq(Int) /\ Len((c \o l) \o r) = 32 + z + Size(n) * 8
        /\ In((c \o l) \o r, 0, h, 8) /\ In((c \o l) \o r, 16, n.keys, KeyBytes)
        /\ In((c \o l) \o r, 16 + z, w, 8)
        /\ In((c \o l) \o r, Len(c \o l) + 0, n.ptrs, 8)
    <3> DEFINE cl == c \o l
    <3>1. In(cl, 16 + z, w, 8) /\ cl \in Seq(Int) /\ Len(cl) = 32 + z
      BY <2>1, <2>2
    <3>2. In(cl, 0, h, 8) /\ In(cl, 16, n.keys, KeyBytes)
      BY <2>1
    <3> HIDE DEF cl
    <3>3. cl \o r \in Seq(Int) /\ Len(cl \o r) = 32 + z + Size(n) * 8
      BY <3>1, <1>7, InConcat
    <3>4. In(cl \o r, 0, h, 8) /\ In(cl \o r, 16, n.keys, KeyBytes) /\ In(cl \o r, 16 + z, w, 8)
      BY <1>1, <1>3, <1>7, <2>2, <3>1, <3>2, InConcat
    <3>5. In(cl \o r, Len(cl) + 0, n.ptrs, 8)
      BY <1>1, <1>7, <3>1, InConcat
    <3>6. QED
      BY <3>3, <3>4, <3>5 DEF cl
  <2>4. Len(c \o l) + 0 = 32 + z /\ 32 + z \in Nat /\ b = (c \o l) \o r
    <3>1. Len(c \o l) + 0 = 32 + z /\ 32 + z \in Nat
      BY <2>1, <1>2
    <3>2. b = (c \o l) \o r
      BY <1>8
    <3>3. QED
      BY <3>1, <3>2
  <2>5. /\ b \in Seq(Int) /\ Len(b) = 32 + z + Size(n) * 8
        /\ In(b, 0, h, 8) /\ In(b, 16, n.keys, KeyBytes)
        /\ In(b, 16 + z, w, 8) /\ In(b, 32 + z, n.ptrs, 8)
    BY <2>3, <2>4
  <2> HIDE DEF b
  <2>6. /\ t \o b \in Seq(Int) /\ Len(t \o b) = 4 + Len(b)
        /\ In(t \o b, 0, <<TypeNumber(n)>>, 4)
    <3>1. t \o b \in Seq(Int) /\ Len(t \o b) = Len(t) + Len(b)
      BY <1>4, <2>5, InConcat
    <3>2. In(t \o b, 0, <<TypeNumber(n)>>, 4)
      BY <1>1, <1>4, <2>5, InConcat
    <3>3. QED
      BY <3>1, <3>2, <1>4
  <2>7. /\ In(t \o b, Len(t) + 0, h, 8) /\ In(t \o b, Len(t) + 16, n.keys, KeyBytes)
        /\ In(t \o b, Len(t) + (16 + z), w, 8) /\ In(t \o b, Len(t) + (32 + z), n.ptrs, 8)
    <3>1. In(t \o b, Len(t) + 0, h, 8) /\ In(t \o b, Len(t) + 16, n.keys, KeyBytes)
      BY <1>1, <1>3, <1>4, <2>5, InBehind
    <3>2. In(t \o b, Len(t) + (16 + z), w, 8)
      BY <1>1, <1>3, <1>4, <2>5, InBehind
    <3>3. In(t \o b, Len(t) + (32 + z), n.ptrs, 8)
      BY <1>1, <1>4, <2>5, InBehind
    <3>4. QED
      BY <3>1, <3>2, <3>3
  <2>8. /\ Len(t) + 0 = 4 /\ Len(t) + 16 = 20 /\ Len(t) + (16 + z) = KeyEnd(n)
        /\ Len(t) + (32 + z) = KeyEnd(n) + 16
        /\ Len(t \o b) = KeyEnd(n) + 16 + Size(n) * 8
    <3> DEFINE y == Size(n) * 8
    <3>1. z \in Nat /\ Len(t) = 4 /\ KeyEnd(n) = 20 + z
      BY <1>2, <1>4, <1>11
    <3>2. y \in Nat
      BY <1>2
    <3>3. Len(b) = 32 + z + y /\ Len(t \o b) = 4 + Len(b)
      BY <2>5, <2>6
    <3> HIDE DEF y
    <3>4. Len(t \o b) = 4 + (32 + z + y)
      BY <3>3
    <3>5. Len(t \o b) = 20 + z + 16 + y
      BY ONLY <3>1, <3>2, <3>4
    <3>6. QED
      BY <3>1, <3>5 DEF y
  <2>9. QED
    BY <1>5, <1>8, <2>6, <2>7, <2>8 DEF Layout, h, w
<1>9. CASE ~n.leaf
  <2>1. /\ c \o r \in Seq(Int) /\ Len(c \o r) = 16 + z + Size(n) * 8
        /\ In(c \o r, 0, h, 8) /\ In(c \o r, 16, n.keys, KeyBytes)
        /\ In(c \o r, Len(c) + 0, n.ptrs, 8)
    <3>1. c \o r \in Seq(Int) /\ Len(c \o r) = Len(c) + Len(r)
      BY <1>2, <1>7, InConcat
    <3>2. In(c \o r, 0, h, 8) /\ In(c \o r, 16, n.keys, KeyBytes)
      BY <1>1, <1>2, <1>3, <1>7, InConcat
    <3>3. In(c \o r, Len(c) + 0, n.ptrs, 8)
      BY <1>1, <1>2, <1>3, <1>7, InConcat
    <3>4. QED
      BY <3>1, <3>2, <3>3, <1>2, <1>7
  <2>2. Len(c) + 0 = 16 + z /\ 16 + z \in Nat /\ b = c \o r
    BY <1>2, <1>9
  <2>5. /\ b \in Seq(Int) /\ Len(b) = 16 + z + Size(n) * 8
        /\ In(b, 0, h, 8) /\ In(b, 16, n.keys, KeyBytes)
        /\ In(b, 16 + z, n.ptrs, 8)
    BY <2>1, <2>2
  <2> HIDE DEF b
  <2>6. /\ t \o b \in Seq(Int) /\ Len(t \o b) = 4 + Len(b)
        /\ In(t \o b, 0, <<TypeNumber(n)>>, 4)
    <3>1. t \o b \in Seq(Int) /\ Len(t \o b) = Len(t) + Len(b)
      BY <1>4, <2>5, InConcat
    <3>2. In(t \o b, 0, <<TypeNumber(n)>>, 4)
      BY <1>1, <1>4, <2>5, InConcat
    <3>3. QED
      BY <3>1, <3>2, <1>4
  <2>7. /\ In(t \o b, Len(t) + 0, h, 8) /\ In(t \o b, Len(t) + 16, n.keys, KeyBytes)
        /\ In(t \o b, Len(t) + (16 + z), n.ptrs, 8)
    <3>1. In(t \o b, Len(t) + 0, h, 8) /\ In(t \o b, Len(t) + 16, n.keys, KeyBytes)
      BY <1>1, <1>3, <1>4, <2>5, InBehind
    <3>2. In(t \o b, Len(t) + (16 + z), n.ptrs, 8)
      BY <1>1, <1>4, <2>5, InBehind
    <3>3. QED
      BY <3>1, <3>2
  <2>8. /\ Len(t) + 0 = 4 /\ Len(t) + 16 = 20 /\ Len(t) + (16 + z) = KeyEnd(n)
        /\ Len(t \o b) = KeyEnd(n) + 0 + Size(n) * 8
    <3> DEFINE y == Size(n) * 8
    <3>1. z \in Nat /\ Len(t) = 4 /\ KeyEnd(n) = 20 + z
      BY <1>2, <1>4, <1>11
    <3>2. y \in Nat
      BY <1>2
    <3>3. Len(b) = 16 + z + y /\ Len(t \o b) = 4 + Len(b)
      BY <2>5, <2>6
    <3> HIDE DEF y
    <3>4. Len(t \o b) = 4 + (16 + z + y)
      BY <3>3
    <3>5. Len(t \o b) = 20 + z + 0 + y
      BY ONLY <3>1, <3>2, <3>4
    <3>6. QED
      BY <3>1, <3>5 DEF y
  <2>9. QED
    BY <1>5, <1>9, <2>6, <2>7, <2>8 DEF Layout, h
<1>10. QED
  BY <1>8, <1>9, <1>1

\* The block has room for any node with less than 2 * NodeSize keys: one key less
\* than it is made for leaves room for the type.
LEMMA LayoutOfBlock ==
    ASSUME NEW n, Numbered(n), Size(n) < 2 * NodeSize
    PROVE  Layout(n, Binary!Block(n)) /\ Size(n) \in Nat
<1> DEFINE B == Binary!BlockSize
           b == Binary!ToBinary(n)
           e == 2 * NodeSize
           z == Size(n)
<1>1. z \in Nat /\ e \in Nat /\ KeyBytes \in Nat /\ z + 1 <= e /\ n.leaf \in BOOLEAN
  <2>1. Size(n) \in Nat
    BY CommonLayout
  <2>2. n.leaf \in BOOLEAN
    BY DEF Numbered
  <2>3. QED
    BY SessionsAssumption, NodeSizeAssumption, <2>1, <2>2
<1>2. B = 8 * (4 + NodeSize * 2) + KeyBytes * (NodeSize * 2) /\ NodeSize * 2 = e
  BY NodeSizeAssumption DEF Binary!BlockSize, Binary!Word
<1>3. Layout(n, b) /\ Len(b) = KeyEnd(n) + (IF n.leaf THEN 16 ELSE 0) + z * 8
  BY BinaryLayout
<1>4. KeyEnd(n) = 20 + z * KeyBytes
  BY DEF KeyEnd
<1> HIDE DEF b, e, z, B
<1>5. B = 32 + 8 * e + KeyBytes * e
  BY <1>1, <1>2
<1>6. z * KeyBytes \in Nat /\ KeyBytes * e \in Nat /\ z * KeyBytes <= KeyBytes * e
  <2>1. (e - z) * KeyBytes >= 0
    BY <1>1, SMT
  <2>2. KeyBytes * e = (e - z) * KeyBytes + z * KeyBytes
    BY <1>1, SMT
  <2>3. z * KeyBytes \in Nat /\ KeyBytes * e \in Nat
    BY <1>1, SMT
  <2>4. (e - z) * KeyBytes \in Int
    BY <1>1, SMT
  <2>5. QED
    BY <2>1, <2>2, <2>3, <2>4
<1>7. B \in Nat /\ Len(b) \in Nat /\ Len(b) <= B
  <2> DEFINE y == z * KeyBytes
             x == KeyBytes * e
  <2>1. y \in Nat /\ x \in Nat /\ y <= x
    BY <1>6
  <2>2. Len(b) = 20 + y + (IF n.leaf THEN 16 ELSE 0) + z * 8 /\ B = 32 + 8 * e + x
    BY <1>3, <1>4, <1>5
  <2> HIDE DEF y, x
  <2>3. QED
    BY <1>1, <2>1, <2>2
<1>8. Binary!Block(n) \in Seq(Int) /\ Len(Binary!Block(n)) = B
  BY <1>3, <1>7, BlockIsWhole DEF Binary!Block, Layout, b, B
<1>9. ASSUME NEW s \in Seq(Int), NEW k \in Nat \ {0}, NEW at, In(b, at, s, k)
      PROVE  In(Binary!Block(n), at, s, k)
  <2>1. at \in Nat /\ at + Len(s) * k <= Len(b) /\ HoldsAt(b, at, s, k) /\ Len(s) * k \in Nat
    BY <1>9, LenProperties, SMT DEF In
  <2>2. at + Len(s) * k <= B
    BY <1>7, <2>1
  <2>3. b \in Seq(Int) /\ Binary!Block(n) = Binary!ToBlock(b)
    BY <1>3 DEF Layout, Binary!Block, b
  <2>4. HoldsAt(Binary!ToBlock(b), at, s, k)
    BY <1>7, <2>1, <2>2, <2>3, HeldByBlock DEF B
  <2>5. QED
    BY <1>8, <2>1, <2>2, <2>3, <2>4 DEF In
<1>10. /\ KeyBytes \in Nat \ {0} /\ 8 \in Nat \ {0} /\ 4 \in Nat \ {0}
       /\ <<TypeNumber(n)>> \in Seq(Int) /\ <<n.id, Size(n)>> \in Seq(Int)
       /\ <<n.next, n.prev>> \in Seq(Int) /\ n.keys \in Seq(Int) /\ n.ptrs \in Seq(Int)
  BY <1>1, SessionsAssumption DEF Numbered, TypeNumber, z
<1>11. /\ In(b, 0, <<TypeNumber(n)>>, 4)
       /\ In(b, 4, <<n.id, Size(n)>>, 8)
       /\ In(b, 20, n.keys, KeyBytes)
       /\ n.leaf => In(b, KeyEnd(n), <<n.next, n.prev>>, 8) /\ In(b, KeyEnd(n) + 16, n.ptrs, 8)
       /\ ~n.leaf => In(b, KeyEnd(n), n.ptrs, 8)
  BY <1>3 DEF Layout
<1>12. /\ In(Binary!Block(n), 0, <<TypeNumber(n)>>, 4)
       /\ In(Binary!Block(n), 4, <<n.id, Size(n)>>, 8)
       /\ In(Binary!Block(n), 20, n.keys, KeyBytes)
       /\ n.leaf => In(Binary!Block(n), KeyEnd(n), <<n.next, n.prev>>, 8)
       /\ n.leaf => In(Binary!Block(n), KeyEnd(n) + 16, n.ptrs, 8)
       /\ ~n.leaf => In(Binary!Block(n), KeyEnd(n), n.ptrs, 8)
  BY <1>9, <1>10, <1>11
<1>13. QED
  BY <1>1, <1>8, <1>12 DEF Layout, z

LEMMA Reads ==
    ASSUME NEW b \in Seq(Int), NEW s \in Seq(Int), NEW k \in Nat \ {0}, NEW at,
           In(b, at, s, k)
    PROVE  /\ Len(s) >= 1 => Binary!Deserialize(b, at, k) = s[1]
           /\ Len(s) >= 2 => Binary!Deserialize(b, at + k, k) = s[2]
           /\ Binary!Numbers(b, at, Len(s), k) = s
BY ReadsNumbers DEF In

\* The constructors of a node read what toBinary has written, but the deleted
\* flag, from the block of any node with less than 2 * NodeSize keys.
LEMMA BlockReadsBack ==
    ASSUME NEW n, n \in NodeRecords, Len(n.ptrs) = Len(n.keys), Size(n) < 2 * NodeSize,
           ~n.leaf => n.next = Nil /\ n.prev = Nil
    PROVE  Binary!FromBinary(Binary!Block(n)) = Stored(n)
<1> DEFINE b == Binary!Block(n)
<1>1. Numbered(n) /\ n.leaf \in BOOLEAN
  <2>1. n.keys \in Seq(Keys) /\ Keys \subseteq Int
    BY KeysAssumption DEF NodeRecords
  <2>2. n.keys \in Seq(Int)
    <3>1. Len(n.keys) \in Nat /\ \A i \in 1 .. Len(n.keys) : n.keys[i] \in Int
      BY <2>1, LenProperties, ElementOfSeq
    <3>2. n.keys = [i \in 1 .. Len(n.keys) |-> n.keys[i]]
      BY <2>1
    <3>3. QED
      BY ONLY <3>1, <3>2
  <2>3. QED
    BY <2>2 DEF NodeRecords, Numbered
<1>2. Layout(n, b) /\ Size(n) \in Nat
  BY <1>1, LayoutOfBlock
<1>3. /\ KeyBytes \in Nat \ {0} /\ 8 \in Nat \ {0} /\ 4 \in Nat \ {0} /\ b \in Seq(Int)
      /\ <<TypeNumber(n)>> \in Seq(Int) /\ <<n.id, Size(n)>> \in Seq(Int)
      /\ <<n.next, n.prev>> \in Seq(Int) /\ n.keys \in Seq(Int) /\ n.ptrs \in Seq(Int)
  BY <1>1, <1>2, SessionsAssumption DEF Numbered, TypeNumber, Layout
<1> HIDE DEF b
<1>4. Binary!Deserialize(b, 0, 4) = TypeNumber(n)
  <2>1. In(b, 0, <<TypeNumber(n)>>, 4)
    BY <1>2 DEF Layout
  <2> DEFINE s == <<TypeNumber(n)>>
  <2>2. Len(s) >= 1 /\ s[1] = TypeNumber(n) /\ s \in Seq(Int)
    BY <1>3
  <2> HIDE DEF s
  <2>3. In(b, 0, s, 4)
    BY <2>1 DEF s
  <2>4. QED
    BY <1>3, <2>2, <2>3, Reads
<1>5. Binary!Deserialize(b, 4, 8) = n.id /\ Binary!Deserialize(b, 4 + 8, 8) = Size(n)
  <2>1. In(b, 4, <<n.id, Size(n)>>, 8)
    BY <1>2 DEF Layout
  <2> DEFINE s == <<n.id, Size(n)>>
  <2>2. Len(s) >= 1 /\ Len(s) >= 2 /\ s[1] = n.id /\ s[2] = Size(n) /\ s \in Seq(Int)
    BY <1>3
  <2> HIDE DEF s
  <2>3. In(b, 4, s, 8)
    BY <2>1 DEF s
  <2>4. QED
    BY <1>3, <2>2, <2>3, Reads
<1>6. Binary!Numbers(b, 20, Size(n), KeyBytes) = n.keys
  BY <1>2, <1>3, Reads DEF Layout, Size
<1>7. /\ n.leaf => Binary!Numbers(b, KeyEnd(n) + 16, Size(n), 8) = n.ptrs
      /\ ~n.leaf => Binary!Numbers(b, KeyEnd(n), Size(n), 8) = n.ptrs
  BY <1>2, <1>3, Reads DEF Layout, Size
<1>8. ASSUME n.leaf
      PROVE  /\ Binary!Deserialize(b, KeyEnd(n), 8) = n.next
             /\ Binary!Deserialize(b, KeyEnd(n) + 8, 8) = n.prev
  <2>1. In(b, KeyEnd(n), <<n.next, n.prev>>, 8)
    BY <1>2, <1>8 DEF Layout
  <2> DEFINE s == <<n.next, n.prev>>
  <2>2. Len(s) >= 1 /\ Len(s) >= 2 /\ s[1] = n.next /\ s[2] = n.prev /\ s \in Seq(Int)
    BY <1>3
  <2> HIDE DEF s
  <2>3. In(b, KeyEnd(n), s, 8)
    BY <2>1 DEF s
  <2>4. QED
    BY <1>3, <2>2, <2>3, Reads
<1> DEFINE part == Binary!ReadCommon(b, Binary!TypeBytes)
<1>9. part = [id |-> n.id, keys |-> n.keys, beg |-> KeyEnd(n)]
  <2>1. 4 + 2 * 8 = 20
    OBVIOUS
  <2>2. part = [id |-> Binary!Deserialize(b, 4, 8),
                keys |-> Binary!Numbers(b, 4 + 2 * 8, Binary!Deserialize(b, 4 + 8, 8), KeyBytes),
                beg |-> 4 + 2 * 8 + Binary!Deserialize(b, 4 + 8, 8) * KeyBytes]
    BY DEF Binary!ReadCommon, Binary!TypeBytes, Binary!Word
  <2>3. QED
    BY <1>5, <1>6, <2>1, <2>2 DEF KeyEnd
<1>10. part.id = n.id /\ part.keys = n.keys /\ part.beg = KeyEnd(n) /\ Len(part.keys) = Size(n)
  BY <1>9 DEF Size
<1>11. Binary!FromBinary(b)
         = IF Binary!Deserialize(b, 0, 4) = 2 THEN Binary!ReadLeaf(b, part)
           ELSE Binary!ReadInner(b, part)
  BY DEF Binary!FromBinary, Binary!TypeBytes
<1> HIDE DEF part
<1>12. Stored(n) = [id |-> n.id, leaf |-> n.leaf, keys |-> n.keys, ptrs |-> n.ptrs,
                    next |-> n.next, prev |-> n.prev, deleted |-> FALSE]
  <2> DEFINE r == [id |-> n.id, leaf |-> n.leaf, keys |-> n.keys, ptrs |-> n.ptrs,
                   next |-> n.next, prev |-> n.prev, deleted |-> FALSE]
             t == Stored(n)
  <2>1. /\ t \in NodeRecords /\ t.id = n.id /\ t.leaf = n.leaf /\ t.keys = n.keys
        /\ t.ptrs = n.ptrs /\ t.next = n.next /\ t.prev = n.prev /\ t.deleted = FALSE
    BY DEF Stored, NodeRecords
  <2>2. /\ r \in NodeRecords /\ r.id = n.id /\ r.leaf = n.leaf /\ r.keys = n.keys
        /\ r.ptrs = n.ptrs /\ r.next = n.next /\ r.prev = n.prev /\ r.deleted = FALSE
    BY DEF NodeRecords
  <2> HIDE DEF r, t
  <2>3. t = r
    BY <2>1, <2>2 DEF NodeRecords
  <2>4. QED
    BY <2>3 DEF t, r
<1>13. CASE n.leaf
  <2>1. KeyEnd(n) + 2 * 8 = KeyEnd(n) + 16
    OBVIOUS
  <2>2. Binary!ReadLeaf(b, part) = [id |-> n.id, leaf |-> TRUE, keys |-> n.keys, ptrs |-> n.ptrs,
                                    next |-> n.next, prev |-> n.prev, deleted |-> FALSE]
    BY <1>7, <1>8, <1>10, <1>13, <2>1 DEF Binary!ReadLeaf, Binary!Leaf, Binary!Word
  <2>3. Binary!Deserialize(b, 0, 4) = 2 /\ n.leaf = TRUE
    BY <1>4, <1>13, <1>1 DEF TypeNumber
  <2>4. QED
    BY <1>11, <1>12, <2>2, <2>3 DEF b
<1>14. CASE ~n.leaf
  <2>1. n.next = -1 /\ n.prev = -1
    BY <1>14 DEF Nil
  <2>2. Binary!ReadInner(b, part) = [id |-> n.id, leaf |-> FALSE, keys |-> n.keys, ptrs |-> n.ptrs,
                                     next |-> -1, prev |-> -1, deleted |-> FALSE]
    BY <1>7, <1>10, <1>14 DEF Binary!ReadInner, Binary!Inner, Binary!Word, Binary!Nil
  <2>3. Binary!Deserialize(b, 0, 4) = 1 /\ n.leaf = FALSE
    BY <1>4, <1>14, <1>1 DEF TypeNumber
  <2>4. Binary!FromBinary(b) = Binary!ReadInner(b, part)
    BY <1>11, <2>3
  <2>5. Stored(n) = [id |-> n.id, leaf |-> FALSE, keys |-> n.keys, ptrs |-> n.ptrs,
                     next |-> -1, prev |-> -1, deleted |-> FALSE]
    BY <1>12, <2>1, <2>3
  <2>6. QED
    BY <2>2, <2>4, <2>5 DEF b
<1>15. QED
  BY <1>13, <1>14, <1>1

-------------------------------------------------------------------------------
(* The nodes are read back from their files. *)

\* Every session keeps the links, and marks no node it stores as deleted.
NoneDeleted == \A x \in DOMAIN nodeStorage : nodeStorage[x] = Stored(nodeStorage[x])

LEMMA StoredStep == NoneDeleted /\ [Next]_vars => NoneDeleted'
<1> SUFFICES ASSUME NoneDeleted, [Next]_vars PROVE NoneDeleted'
  OBVIOUS
<1>1. CASE CommitNode
  <2> DEFINE n == changes[NextId]
             x == NextId
  <2>1. nodeStorage' = Put(nodeStorage, x, Stored(n))
    BY <1>1 DEF CommitNode
  <2>2. Stored(Stored(n)) = Stored(n)
    BY DEF Stored
  <2> HIDE DEF n, x
  <2>3. QED
    BY <2>1, <2>2 DEF NoneDeleted, Put
<1>2. CASE nodeStorage' = nodeStorage
  BY <1>2 DEF NoneDeleted
<1>3. CASE QuietStep
  BY <1>2, <1>3, QuietNodes
<1>4. CASE SetLeafAdd \/ SetLeafReplace \/ DelLeaf \/ UNCHANGED vars \/ \E c \in Calls : Invoke(c)
  BY <1>2, <1>4 DEF SetLeafAdd, SetLeafReplace, DelLeaf, Invoke, vars, storages
<1>5. QED
  BY <1>1, <1>3, <1>4 DEF Next, Step

LEMMA StoredInit == Init => NoneDeleted
<1>1. EmptyRoot = Stored(EmptyRoot)
  <2> DEFINE e == EmptyRoot
  <2>1. e = [x \in Fields |-> e[x]] /\ e["deleted"] = FALSE
    BY DEF EmptyRoot, Leaf, Fields
  <2> HIDE DEF e
  <2>2. QED
    BY <2>1 DEF Stored, e
<1>2. Init => nodeStorage = Put(Empty, 0, EmptyRoot)
  BY DEF Init
<1>3. QED
  BY <1>1, <1>2 DEF NoneDeleted, Put, Empty

FilesInv == ShapeInv /\ NodesInv /\ LinksInv /\ NoneDeleted

LEMMA FilesStep == FilesInv /\ [KVNext]_kvVars => FilesInv'
<1> SUFFICES ASSUME FilesInv, [KVNext]_kvVars PROVE (LinksInv /\ NoneDeleted)'
  BY TreeStep, NodesStep DEF FilesInv
<1>1. CASE Create
  <2>1. Init'
    BY <1>1, CreateInit
  <2>2. QED
    BY <2>1, InitLinks, StoredInit, PTL
<1>2. CASE [Next]_vars
  BY <1>2, LinksKept, StoredStep DEF FilesInv
<1>3. CASE Load \/ Close \/ Crash \/ LoadValues \/ NoValueFiles \/ NoRoot
  BY <1>3, <1>2 DEF Load, Close, Crash, LoadValues, NoValueFiles, NoRoot, Fail
<1>4. CASE CallStep
  BY <1>4, <1>2, CallIsStep
<1>5. CASE \E c \in Calls : Begin(c)
  BY <1>5, <1>2 DEF Begin, Next
<1>6. CASE UNCHANGED kvVars
  BY <1>6, <1>2 DEF kvVars
<1>7. QED
  BY <1>1, <1>3, <1>4, <1>5, <1>6 DEF KVNext, RunningCode

\* A node that is stored is what its block is read back as.
LEMMA StoredReadsBack ==
    ASSUME FilesInv, NEW x \in DOMAIN nodeStorage
    PROVE  Binary!FromBinary(Binary!Block(nodeStorage[x])) = nodeStorage[x]
<1> DEFINE n == nodeStorage[x]
<1>1. /\ n = Stored(n) /\ NodeOK(n, nextNodeId, nextValueId) /\ Size(n) < 2 * NodeSize
  BY DEF FilesInv, NoneDeleted, ShapeInv, Shape, NodesOK, StorageOK, Copies
<1>2. PICK L : LinkedAmong(n, L)
  BY DEF FilesInv, LinksInv, LinksFor, MemoryLinked, AllLinked
<1> HIDE DEF n
<1>3. n \in NodeRecords /\ Len(n.ptrs) = Len(n.keys)
  BY <1>1, NodeFacts DEF NodeOK, Kids, Size
<1>4. ~n.leaf => n.next = Nil /\ n.prev = Nil
  BY <1>2 DEF LinkedAmong
<1>5. Binary!FromBinary(Binary!Block(n)) = Stored(n)
  BY <1>1, <1>3, <1>4, BlockReadsBack
<1>6. QED
  BY <1>1, <1>5 DEF n

\* What find says of an id, and what is at its position.
LEMMA PlaceOfNode ==
    ASSUME NEW k \in Nat, BlocksOf(k), NodesWhole(k) \/ NodeErased(k)
    PROVE  /\ NodeIds = IF NodesWhole(k) THEN 0 .. k - 1 ELSE (0 .. k - 1) \ {NextId}
           /\ \A id \in NodeIds :
                  /\ id \in DOMAIN nodeStorage
                  /\ N!ReadElement(nodeFile, N!Find(id)) = Binary!Block(nodeStorage[id])
<1>1. Vector(nodeTable, k) /\ Vector(nodeFile, k)
  BY DEF BlocksOf, NodesWhole, NodeErased, Vector
<1>2. Len(nodeTable) = k /\ Len(nodeFile) = k
  BY <1>1, VectorLen
<1>3. \A id \in 0 .. k - 1 : N!Find(id) = nodeTable[id + 1]
  BY <1>2 DEF N!Find, N!ReadElement
<1>4. \A id \in 0 .. k - 1 : nodeFile[id + 1] = Binary!Block(nodeStorage[id])
  BY DEF BlocksOf
<1>5. CASE NodesWhole(k)
  <2>1. \A id \in 0 .. k - 1 : N!Find(id) = id
    BY <1>3, <1>5 DEF NodesWhole
  <2>2. NodeIds = 0 .. k - 1
    BY <1>2, <2>1 DEF NodeIds, N!NoPos
  <2>3. QED
    BY <1>4, <1>5, <2>1, <2>2 DEF BlocksOf, N!ReadElement
<1>6. CASE ~NodesWhole(k)
  <2>1. NodeErased(k)
    BY <1>6
  <2>2. \A id \in 0 .. k - 1 : N!Find(id) = IF id = NextId THEN -1 ELSE id
    <3>1. NextId \in 0 .. k - 1 /\ \A i \in 1 .. k : nodeTable[i] = IF i = NextId + 1 THEN -1 ELSE i - 1
      BY <2>1 DEF NodeErased
    <3> DEFINE x == NextId
    <3> HIDE DEF x
    <3>2. \A id \in 0 .. k - 1 : nodeTable[id + 1] = IF id = x THEN -1 ELSE id
      BY <3>1 DEF x
    <3>3. QED
      BY <1>3, <3>2 DEF x
  <2>3. NodeIds = (0 .. k - 1) \ {NextId}
    BY <1>2, <2>2 DEF NodeIds, N!NoPos
  <2>4. QED
    BY <1>4, <1>6, <2>2, <2>3 DEF BlocksOf, N!ReadElement
<1>7. QED
  BY <1>5, <1>6

\* The blocks of the node files, read back byte by byte, are the nodes that the
\* tree takes them for, at every step of every session: no block is too small
\* for its node, and what toBinary writes the constructors find again.
THEOREM NodesInFiles == KVSpec => []NodeFilesHoldNodes
<1>1. FilesInv => NodeFilesHoldNodes
  <2> DEFINE blocks == [id \in NodeIds |-> N!ReadElement(nodeFile, N!Find(id))]
             rewritten == IF pc = "commit" /\ todo # {} THEN {NextId} ELSE {}
  <2> SUFFICES ASSUME FilesInv, session = "open"
               PROVE  /\ DOMAIN nodeStorage \ rewritten \subseteq DOMAIN blocks
                      /\ \A id \in DOMAIN blocks :
                              /\ id \in DOMAIN nodeStorage
                              /\ Binary!FromBinary(blocks[id]) = nodeStorage[id]
    BY DEF NodeFilesHoldNodes
  <2>1. PICK k \in Nat : BlocksOf(k) /\ (NodesWhole(k) \/ NodeErased(k))
    BY DEF FilesInv, NodesInv, NodesHeld
  <2>2. DOMAIN nodeStorage = 0 .. k - 1
    BY <2>1 DEF BlocksOf
  <2>3. /\ NodeIds = IF NodesWhole(k) THEN 0 .. k - 1 ELSE (0 .. k - 1) \ {NextId}
        /\ \A id \in NodeIds :
               /\ id \in DOMAIN nodeStorage
               /\ N!ReadElement(nodeFile, N!Find(id)) = Binary!Block(nodeStorage[id])
    BY <2>1, PlaceOfNode
  <2>4. ~NodesWhole(k) => rewritten = {NextId}
    BY <2>1 DEF NodeErased
  <2>5. DOMAIN nodeStorage \ rewritten \subseteq NodeIds
    BY <2>2, <2>3, <2>4
  <2>6. ASSUME NEW id \in NodeIds
        PROVE  id \in DOMAIN nodeStorage /\ Binary!FromBinary(blocks[id]) = nodeStorage[id]
    <3>1. blocks[id] = Binary!Block(nodeStorage[id]) /\ id \in DOMAIN nodeStorage
      BY <2>3
    <3> HIDE DEF blocks
    <3>2. QED
      BY <3>1, StoredReadsBack
  <2>7. QED
    BY <2>5, <2>6
<1>2. KVInit => FilesInv
  BY InitTree, InitLinks, StoredInit DEF KVInit, NodesInv, FilesInv
<1>3. QED
  BY <1>1, <1>2, FilesStep, PTL DEF KVSpec

===============================================================================
