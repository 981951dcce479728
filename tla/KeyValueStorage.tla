--------------------------- MODULE KeyValueStorage ---------------------------
(***************************************************************************)
(* KeyValueStorage (key_value_storage.h): the tree of module BTree over    *)
(* two IOStorages, one for nodes and one for values, from the creation of  *)
(* a storage to the removal of its files, with crashes and attempts to     *)
(* load what a crash has left.  Every call of an IOStorage is a step: what *)
(* a commit or a setValue does to the files is an erase, if the id is      *)
(* there, and then an insert.                                              *)
(*                                                                         *)
(* After a crash the files may hold less than here (module IOStorageCrash  *)
(* shows what): no later session reads them.                               *)
(***************************************************************************)
EXTENDS BTree

CONSTANTS
    KeyBytes,       \* sizeof(Key)
    MaxIds,         \* bound: node ids and value ids are below it
    MaxSessions     \* bound: storages created or loaded in a behaviour

ASSUME SessionsAssumption ==
    KeyBytes \in Nat \ {0} /\ MaxIds \in Nat /\ MaxSessions \in Nat

\* A call hands out one value id at most.
ASSUME IdsAssumption == MaxCalls < MaxIds

VARIABLES
    nodeFile, nodeStack, nodeTable,         \* the files of the node storage,
    valueFile, valueStack, valueTable,      \* and of the value storage
    nodesExist, valuesExist,                \* whether they are there
    session,        \* "none", "open", and while loading "nodes" or "root"
    outcome,        \* how the last constructor ended: "none", "open", "failed"
    sessions,
    crashed,        \* ghost: a crash since the files were last created or removed
    peak            \* ghost: the most keys this session has had at once

nodeFiles == <<nodeFile, nodeStack, nodeTable>>
valueFiles == <<valueFile, valueStack, valueTable>>
files == <<nodeFiles, valueFiles>>
existence == <<nodesExist, valuesExist>>
lifetime == <<existence, session, outcome, sessions, crashed>>
kvVars == <<vars, files, lifetime, peak>>

N == INSTANCE IOStorage WITH
    storage <- nodeFile, stack <- nodeStack, table <- nodeTable,
    Blocks <- {}, MaxId <- MaxIds

V == INSTANCE IOStorage WITH
    storage <- valueFile, stack <- valueStack, table <- valueTable,
    Blocks <- Values, MaxId <- MaxIds

\* The block is made for twice the node size, 512 keys.
Binary == INSTANCE NodeBinary WITH Elements <- NodeSize * 2

KVInit ==
    /\ Init
    /\ N!Init /\ V!Init
    /\ nodesExist = FALSE /\ valuesExist = FALSE
    /\ session = "none" /\ outcome = "none" /\ sessions = 0
    /\ crashed = FALSE /\ peak = 0

-------------------------------------------------------------------------------
(* Creating, closing, crashing *)

\* FileArray's constructor with rewrite, for the three files of a storage.
NewNodeFiles == nodeFile' = <<>> /\ nodeStack' = <<>> /\ nodeTable' = <<>>

OldValueFiles == UNCHANGED valueFiles           \* mutant of NewValueFiles

NewValueFiles == valueFile' = <<>> /\ valueStack' = <<>> /\ valueTable' = <<>>

NodesStay == UNCHANGED nodesExist       \* mutant of NodesMade and NodesGone
NodesMade == nodesExist' = TRUE
NodesGone == nodesExist' = FALSE

\* KeyValueStorage(name): the files are emptied, whatever was in them, and the
\* root is committed.
Create ==
    /\ session = "none" /\ sessions < MaxSessions
    /\ root' = EmptyRoot /\ nextNodeId' = 1 /\ nextValueId' = 0
    /\ nodeStorage' = Put(Empty, 0, EmptyRoot) /\ valueStorage' = Empty
    /\ Remember([changes |-> Empty, buffer |-> Empty])
    /\ node' = NoNode /\ path' = <<>> /\ maxKey' = NoKey /\ todo' = {} /\ dest' = <<>>
    /\ pc' = "idle" /\ call' = NoCall /\ response' = NoResponse /\ calls' = 0
    /\ nodeFile' = <<Binary!Block(EmptyRoot)>> /\ nodeStack' = <<>> /\ nodeTable' = <<0>>
    /\ NewValueFiles
    /\ NodesMade /\ valuesExist' = TRUE
    /\ session' = "open" /\ outcome' = "open" /\ sessions' = sessions + 1
    /\ crashed' = FALSE /\ peak' = 0

\* The destructors of both storages remove their files.
RemoveFiles == NodesGone /\ valuesExist' = FALSE

Close ==
    /\ session = "open" /\ pc = "idle"
    /\ RemoveFiles
    /\ session' = "none" /\ crashed' = FALSE
    /\ UNCHANGED <<vars, files, outcome, sessions, peak>>

Crash ==
    /\ session # "none"
    /\ session' = "none" /\ crashed' = TRUE
    /\ UNCHANGED <<vars, files, existence, outcome, sessions, peak>>

-------------------------------------------------------------------------------
(* KeyValueStorage(name, true): loading *)

\* NodeStorage has a parameter rewrite too but does not pass it on: IOStorage's
\* own default applies and the node files are created empty.
Load ==
    /\ session = "none" /\ sessions < MaxSessions
    /\ NewNodeFiles /\ NodesMade
    /\ session' = "nodes" /\ outcome' = "none" /\ sessions' = sessions + 1
    /\ UNCHANGED <<vars, valueFiles, valuesExist, crashed, peak>>

\* An exception leaves the constructor: the members that have been constructed
\* are destroyed, and a storage that is destroyed removes its files.
Fail ==
    /\ session' = "none" /\ outcome' = "failed" /\ crashed' = FALSE
    /\ UNCHANGED <<vars, files, sessions, peak>>

\* The value storage's constructor throws if its files are not there.
NoValueFiles ==
    /\ session = "nodes" /\ ~valuesExist
    /\ NodesGone /\ UNCHANGED valuesExist
    /\ Fail

LoadValues ==
    /\ session = "nodes" /\ valuesExist
    /\ session' = "root"
    /\ UNCHANGED <<vars, files, existence, outcome, sessions, crashed, peak>>

\* getNode(0): find returns end(), and reading the block at position -1 throws.
\* (There is never a node 0 in node files that Load has just emptied.)
NoRoot ==
    /\ session = "root" /\ N!Find(0) = N!NoPos
    /\ RemoveFiles
    /\ Fail

-------------------------------------------------------------------------------
(* Calls *)

\* The value id setValue writes to: that of the key, or the one addKey has got.
ValueId == IF FindKey = Nil THEN nextValueId ELSE node.ptrs[FindKey]

AtLeafOfSet == pc = "down" /\ call.op = "set" /\ node.leaf

\* Steps that leave the files alone.
Compute == QuietStep /\ UNCHANGED files

EraseOldValue ==
    /\ AtLeafOfSet
    /\ V!Erase(ValueId)
    /\ UNCHANGED <<vars, nodeFiles>>

InsertValue ==
    /\ AtLeafOfSet
    /\ V!Insert(ValueId, call.arg)
    /\ SetLeafAdd \/ SetLeafReplace
    /\ UNCHANGED nodeFiles

EraseValue ==
    /\ DelLeaf
    /\ V!Erase(node.ptrs[FindKey])
    /\ UNCHANGED nodeFiles

EraseOldNode ==
    /\ pc = "commit" /\ todo # {}
    /\ N!Erase(NextId)
    /\ UNCHANGED <<vars, valueFiles>>

InsertNode ==
    /\ CommitNode
    /\ N!Insert(NextId, Binary!Block(changes[NextId]))
    /\ UNCHANGED valueFiles

CallStep ==
    /\ session = "open"
    /\ \/ Compute
       \/ EraseOldValue \/ InsertValue \/ EraseValue
       \/ EraseOldNode \/ InsertNode
    /\ peak' = Max({peak, Cardinality(DOMAIN valueStorage')})
    /\ UNCHANGED lifetime

Begin(c) ==
    /\ session = "open"
    /\ Invoke(c)
    /\ UNCHANGED <<files, lifetime, peak>>

-------------------------------------------------------------------------------
RunningCode == CallStep \/ LoadValues \/ NoValueFiles \/ NoRoot

KVNext ==
    \/ Create \/ Load \/ Close \/ Crash
    \/ RunningCode
    \/ \E c \in Calls : Begin(c)

\* A call or a constructor that runs keeps running, unless the program crashes.
KVSpec == KVInit /\ [][KVNext]_kvVars /\ WF_kvVars(RunningCode)

-------------------------------------------------------------------------------
(* Properties *)

\* Type correctness of what this module adds to BTree.
KVTypeOK ==
    /\ {nodesExist, valuesExist, crashed} \subseteq BOOLEAN
    /\ session \in {"none", "open", "nodes", "root"}
    /\ session # "none" => nodesExist
    /\ session = "open" => valuesExist /\ nextValueId < MaxIds
    /\ outcome \in {"none", "open", "failed"}
    /\ sessions \in 0 .. MaxSessions

\* The ids that the node storage has, according to its table.
NodeIds == {id \in 0 .. Len(nodeTable) - 1 : N!Find(id) # N!NoPos}

\* The blocks of the node storage, read back byte by byte, are the nodes that
\* the tree takes them for, at every step and in every session, whatever an
\* earlier one has left in the files: what is written and what is read agree on
\* every offset, and no committed node is cut off by a block that leaves out the
\* type of the node.  An id is missing only while it is being rewritten.
NodeFilesHoldNodes ==
    session = "open" =>
        LET blocks == [id \in NodeIds |-> N!ReadElement(nodeFile, N!Find(id))]
            rewritten == IF pc = "commit" /\ todo # {} THEN {NextId} ELSE {}
        IN  /\ DOMAIN nodeStorage \ rewritten \subseteq DOMAIN blocks
            /\ \A id \in DOMAIN blocks :
                    /\ id \in DOMAIN nodeStorage
                    /\ Binary!FromBinary(blocks[id]) = nodeStorage[id]

\* The same of the values, whose ids are given out anew in every session.
ValueFilesHoldValues ==
    session = "open" =>
        LET values == V!Contents
            replaced == IF AtLeafOfSet THEN {ValueId} ELSE {}
        IN  /\ DOMAIN valueStorage \ replaced \subseteq DOMAIN values
            /\ \A id \in DOMAIN values :
                    id \in DOMAIN valueStorage /\ values[id] = valueStorage[id]

\* Nodes that joins and collapses delete are committed like any other and never
\* erased: between calls the node file has a block for every id ever handed
\* out, at the position of its first insert.
NodeFileHoldsEveryNode ==
    session = "open" /\ pc = "idle" =>
        /\ nodeStack = <<>>
        /\ nodeTable = [i \in 1 .. nextNodeId |-> i - 1]
        /\ Len(nodeFile) = nextNodeId

\* The value file, in contrast, never gets longer than the most keys the
\* storage has had at once, however many are deleted and set anew.
ValueFileStaysSmall == session = "open" => Len(valueFile) <= peak

\* README.md:24-25: a storage that ends correctly leaves no files behind.  So
\* does one that could not be loaded; only a crash leaves some.
OnlyCrashLeavesFiles ==
    session = "none" /\ ~crashed => ~nodesExist /\ ~valuesExist

\* What IOStorage leaves to its callers holds whenever the tree calls it: no id
\* is inserted that lies behind the next one of the table, where the table could
\* not be written, and no value is erased that is not there, whose position -1
\* would go on the free stack.
CallersMeetContract ==
    session = "open" =>
        /\ pc = "commit" /\ todo # {} => NextId <= Len(nodeTable)
        /\ AtLeafOfSet => ValueId <= Len(valueTable)
        /\ pc = "down" /\ call.op = "del" /\ node.leaf /\ FindKey # Nil =>
                V!Find(node.ptrs[FindKey]) # V!NoPos

\* Every call and every constructor ends, unless the program crashes: none is
\* stopped by an IOStorage whose caller's contract it does not meet.
Busy == session \in {"nodes", "root"} \/ (session = "open" /\ pc # "idle")

AllEnds == Busy ~> ~Busy

\* README.md:14-18: KeyValueStorage(name, true) loads what a crash has left.
\* But the node storage is emptied instead of restored, and when the root is
\* not found in it the values are removed as well.
LoadAfterCrash == [][crashed /\ valuesExist => outcome' # "failed" \/ outcome = "failed"]_kvVars

===============================================================================
