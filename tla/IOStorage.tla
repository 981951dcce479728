------------------------------- MODULE IOStorage -------------------------------
(***************************************************************************)
(* IOStorage (src/io/IOStorage.h, IOStorage.cpp): a map from ids to        *)
(* fixed-size blocks, kept in three FileArrays:                            *)
(*                                                                         *)
(*   storage   the blocks, by position;                                    *)
(*   stack     the positions of erased blocks, reused last in first out;   *)
(*   table     for every id ever inserted, the position of its block, or   *)
(*             NoPos (the code's size_t -1) when the id has been erased.   *)
(*                                                                         *)
(* Every operation is one step here: what lies between the file writes of  *)
(* one operation is visible only to a crash.                               *)
(***************************************************************************)
EXTENDS FileVector

CONSTANTS
    Blocks,     \* the contents a block can have
    MaxId       \* bound: ids are taken from 0 .. MaxId - 1

ASSUME MaxIdAssumption == MaxId \in Nat

VARIABLES storage, stack, table

vars == <<storage, stack, table>>

NoPos == -1

Ids == 0 .. MaxId - 1

Init ==
    /\ storage = <<>>
    /\ stack = <<>>
    /\ table = <<>>

-------------------------------------------------------------------------------
\* IOStorage::find: the position of id's block; NoPos is the iterator end().
Find(id) == IF Len(table) <= id THEN NoPos ELSE ReadElement(table, id)

Live == {id \in Ids : Find(id) # NoPos}

\* The position insert writes to: the last one freed, or one behind the end.
FreePosition == IF Len(stack) > 0 THEN Back(stack) ELSE Len(storage)

\* IOStorage::insert.  Both callers (LeafNode::setValue, BTree::commit) erase
\* the id first when find finds it.  An id beyond the end of the table cannot
\* be written: ids are handed out in order and inserted in order.
InsertAlwaysAtEnd(id, block) ==
    /\ Find(id) = NoPos
    /\ id <= Len(table)
    /\ storage' = WriteElement(storage, block, Len(storage))
    /\ stack' = IF Len(stack) > 0 THEN PopBack(stack) ELSE stack
    /\ table' = WriteElement(table, Len(storage), id)

InsertLosesBlock(id, block) ==
    /\ Find(id) = NoPos
    /\ id <= Len(table)
    /\ storage' = IF Len(stack) > 0 THEN storage
                  ELSE WriteElement(storage, block, FreePosition)
    /\ stack' = IF Len(stack) > 0 THEN PopBack(stack) ELSE stack
    /\ table' = WriteElement(table, FreePosition, id)

Insert(id, block) ==
    /\ Find(id) = NoPos
    /\ id <= Len(table)
    /\ storage' = WriteElement(storage, block, FreePosition)
    /\ stack' = IF Len(stack) > 0 THEN PopBack(stack) ELSE stack
    /\ table' = WriteElement(table, FreePosition, id)

\* IOStorage::erase of the iterator find(id) has just returned.
EraseKeepsTable(id) ==
    /\ Find(id) # NoPos
    /\ stack' = PushBack(stack, Find(id))
    /\ table' = table
    /\ UNCHANGED storage

EraseUnchecked(id) ==
    /\ id < Len(table)
    /\ stack' = PushBack(stack, Find(id))
    /\ table' = WriteElement(table, NoPos, id)
    /\ UNCHANGED storage

Erase(id) ==
    /\ Find(id) # NoPos
    /\ stack' = PushBack(stack, Find(id))
    /\ table' = WriteElement(table, NoPos, id)
    /\ UNCHANGED storage

Next ==
    \E id \in Ids :
        \/ \E block \in Blocks : Insert(id, block)
        \/ Erase(id)

Spec == Init /\ [][Next]_vars

-------------------------------------------------------------------------------
(* Properties *)

\* Type correctness of the three files: blocks, free positions, positions.
TypeOK ==
    /\ storage \in Seq(Blocks)
    /\ stack \in Seq(Nat)
    /\ table \in Seq(Nat \cup {NoPos})

FreePositions == {stack[i] : i \in 1 .. Len(stack)}

\* Two ids that are in use never share a block (insert reuses positions that
\* erase freed, so a position freed twice or not taken off the stack would be
\* handed out to two ids), and the block of an id in use lies in the file.
NoAliasing ==
    /\ \A id \in Live : Find(id) < Len(storage)
    /\ \A i, j \in Live : Find(i) = Find(j) => i = j

\* A position on the free stack is there once and belongs to no id in use:
\* erase pushes the position before it clears the table entry, insert pops it
\* before it sets one.
FreeListSound ==
    /\ \A i, j \in 1 .. Len(stack) : stack[i] = stack[j] => i = j
    /\ FreePositions \cap {Find(id) : id \in Live} = {}
    /\ \A p \in FreePositions : p < Len(storage)

\* No block is lost: every position of the storage file either holds the
\* block of an id in use or waits on the free stack, however many times ids
\* were erased and inserted again.
NoLeak ==
    \A p \in 0 .. Len(storage) - 1 :
        p \in FreePositions \/ \E id \in Live : Find(id) = p

\* The inductive invariant: the positions of the storage file are partitioned
\* between the free stack and the ids in use.
PositionsPartitioned == TypeOK /\ NoAliasing /\ FreeListSound /\ NoLeak

-------------------------------------------------------------------------------
(* IOStorage implements the map: id |-> the block at its position. *)

Contents == [id \in Live |-> ReadElement(storage, Find(id))]

Map == INSTANCE BlockMap WITH blocks <- Contents

\* A call has the effect of the same call of the map.
CallKeepsPromise ==
    \A id \in Ids :
        /\ \A block \in Blocks : Insert(id, block) => Map!Insert(id, block)
        /\ Erase(id) => Map!Erase(id)

\* The files implement the map the interface promises, call by call: an id
\* reads what was inserted last, and no insert or erase changes what another
\* id reads.
ImplementsMap == Map!Spec /\ [][CallKeepsPromise]_vars

===============================================================================
