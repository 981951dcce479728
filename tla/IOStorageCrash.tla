---------------------------- MODULE IOStorageCrash ----------------------------
(***************************************************************************)
(* The writes inside one operation of an IOStorage (src/io/IOStorage.cpp)  *)
(* and the restore of its three files, each with a stream buffer and a     *)
(* journal of its own, under crashes of the program.  It composes what     *)
(* module FileArray shows of one file: a record is valid before the write  *)
(* it undoes leaves the buffer, so recording and buffering are one step    *)
(* here; a restore cut short is begun again with the same result, so       *)
(* replaying one file is one step, and a crash can come between two files. *)
(***************************************************************************)
EXTENDS FileWrites

CONSTANTS
    Blocks,
    MaxId,          \* bound: ids, and positions, are taken from 0 .. MaxId - 1
    MaxOps,         \* bound: operations between two restores
    MaxCrashes      \* bound: crashes in a behaviour

ASSUME BoundsAssumption ==
    /\ NoData \notin Blocks \cup Int
    /\ MaxId \in Nat /\ MaxOps \in Nat /\ MaxCrashes \in Nat

VARIABLES
    disk,       \* the three files: functions from cells to values
    records,    \* the valid records of their journals
    pending,    \* the write in the buffer of each stream
    todo,       \* writes the current operation has still to make
    replace,    \* the insert that follows the erase of a replacement
    pc,         \* 0, or which of the files is restored next
    ops,        \* ghost: operations since the journals were empty
    calls,      \* ghost: the same, a replacement counted as one
    before,     \* ghost: the files before the current operation
    old, new,   \* ghost: the map before the current call, and the one it makes
    crashes

ghosts == <<ops, calls, before, old, new>>
vars == <<disk, records, pending, todo, replace, pc, ghosts, crashes>>

NoPos == -1
Cells == {Header} \cup 0 .. MaxId - 1
Ids == 0 .. MaxId - 1

In(file, cell, value) == <<file, At(cell, value)>>

NoInsert == <<>>

\* The constructor restores the files in this order.
FilesInOrder == <<"storage", "stack", "table">>

Files == {"storage", "stack", "table"}

ForAll(value) == [f \in Files |-> value]

-------------------------------------------------------------------------------
(* The vectors in the files *)

Vectors(files) == [f \in Files |-> Vector(files[f])]

\* The map in files: a block is read wherever its position points to.
Contents(files) ==
    LET table == Vector(files.table)
        used == {id \in Ids : id < Len(table) /\ ReadElement(table, id) # NoPos}
    IN  [id \in used |-> files.storage[ReadElement(table, id)]]

\* The files once the writes that are under way and others have been made.
After(writes) ==
    [f \in Files |->
        Replay(Apply(disk[f], pending[f]),
               [i \in DOMAIN writes |->
                    IF writes[i][1] = f THEN writes[i][2] ELSE NoWrite])]

Promised == After(todo)

Init ==
    /\ disk = ForAll([c \in Cells |-> IF c = Header THEN 0 ELSE NoData])
    /\ records = ForAll(<<>>) /\ pending = ForAll(NoWrite)
    /\ todo = <<>> /\ replace = NoInsert /\ pc = 0
    /\ ops = 0 /\ calls = 0 /\ before = Vectors(disk)
    /\ old = Contents(disk) /\ new = old
    /\ crashes = 0

-------------------------------------------------------------------------------
(* Operations *)

\* Every operation opens its files anew, when those of the last one are closed
\* and so flushed: what it reads is in the file.
Opened(f) == Vector(disk[f])

Find(id) == IF Len(Opened("table")) <= id THEN NoPos ELSE ReadElement(Opened("table"), id)

Push(f, value) ==
    LET size == Len(Opened(f)) IN <<In(f, size, value), In(f, Header, size + 1)>>

Pop(f) == <<In(f, Header, Len(Opened(f)) - 1)>>

Put(f, value, index) ==
    IF index = Len(Opened(f)) THEN Push(f, value) ELSE <<In(f, index, value)>>

InsertWithoutPop(id, block) ==                  \* mutant of InsertWrites
    LET position == IF Opened("stack") # <<>> THEN Back(Opened("stack"))
                    ELSE Len(Opened("storage"))
    IN  Put("storage", block, position) \o Put("table", position, id)

InsertWrites(id, block) ==
    LET free == Opened("stack")
        position == IF free # <<>> THEN Back(free) ELSE Len(Opened("storage"))
    IN  (IF free # <<>> THEN Pop("stack") ELSE <<>>)
            \o Put("storage", block, position) \o Put("table", position, id)

EraseWritesOfId(id) ==                          \* mutant of EraseWrites
    Push("stack", id) \o <<In("table", id, NoPos)>>

EraseWrites(id) == Push("stack", Find(id)) \o <<In("table", id, NoPos)>>

Idle == pc = 0 /\ todo = <<>> /\ \A f \in Files : pending[f] = NoWrite

Fits(w) == w[2].at < MaxId

Start(writes) ==
    /\ Idle /\ ops < MaxOps /\ \A i \in DOMAIN writes : Fits(writes[i])
    /\ todo' = writes
    /\ ops' = ops + 1
    /\ before' = Vectors(disk)
    /\ UNCHANGED <<disk, records, pending, pc, crashes>>

\* A call of the client: insert under a free id, erase, or, as LeafNode::setValue
\* and BTree::commit do it, an erase and an insert under the same id.
Call(writes, result, next) ==
    /\ replace = NoInsert
    /\ Start(writes)
    /\ replace' = next
    /\ calls' = calls + 1
    /\ old' = Contents(disk) /\ new' = result

Without(id) ==
    LET now == Contents(disk) IN [i \in DOMAIN now \ {id} |-> now[i]]

With(id, block) ==
    LET now == Contents(disk) IN
    [i \in DOMAIN now \cup {id} |-> IF i = id THEN block ELSE now[i]]

InsertOp(id, block) ==
    /\ Find(id) = NoPos /\ id <= Len(Opened("table"))
    /\ Call(InsertWrites(id, block), With(id, block), NoInsert)

EraseOp(id) ==
    /\ Find(id) # NoPos
    /\ Call(EraseWrites(id), Without(id), NoInsert)

ReplaceOp(id, block) ==
    /\ Find(id) # NoPos
    /\ Call(EraseWrites(id), With(id, block), <<id, block>>)

\* The second half of a replacement.
InsertAgain ==
    /\ replace # NoInsert
    /\ Start(InsertWrites(replace[1], replace[2]))
    /\ replace' = NoInsert
    /\ UNCHANGED <<calls, old, new>>

-------------------------------------------------------------------------------
(* Writes *)

\* FileArray::write: the seek flushes the previous write to the file, the old
\* contents become a record unless the write is an append.
AppendsOrHeader(f, w) == w.at # Header /\ w.at # disk[f][Header]  \* mutants of Journaled

JournaledAlways(f, w) == TRUE

Journaled(f, w) == w.at # disk[f][Header]

Write ==
    /\ todo # <<>>
    /\ LET f == Head(todo)[1]
           w == Head(todo)[2]
           flushed == Apply(disk[f], pending[f])
       IN  /\ disk' = [disk EXCEPT ![f] = flushed]
           /\ records' = [records EXCEPT ![f] =
                IF Journaled(f, w) THEN Append(@, At(w.at, flushed[w.at])) ELSE @]
           /\ pending' = [pending EXCEPT ![f] = w]
    /\ todo' = Tail(todo)
    /\ UNCHANGED <<replace, pc, ghosts, crashes>>

\* A stream writes its buffer out at any time, at the latest when it is closed.
Flush(f) ==
    /\ pending[f] # NoWrite
    /\ disk' = [disk EXCEPT ![f] = Apply(@, pending[f])]
    /\ pending' = [pending EXCEPT ![f] = NoWrite]
    /\ UNCHANGED <<records, todo, replace, pc, ghosts, crashes>>

-------------------------------------------------------------------------------
(* Crashes and the constructor without rewrite *)

Crash ==
    /\ crashes < MaxCrashes
    /\ crashes' = crashes + 1
    /\ pending' = ForAll(NoWrite) /\ todo' = <<>> /\ replace' = NoInsert
    /\ pc' = 1
    /\ UNCHANGED <<disk, records, ghosts>>

\* What the records make of a file: Journal's constructor, oldest record first.
Undone(f) == Replay(disk[f], records[f])

RestoreFile ==
    /\ pc \in DOMAIN FilesInOrder
    /\ LET f == FilesInOrder[pc] IN
        /\ disk' = [disk EXCEPT ![f] = Undone(f)]
        /\ records' = [records EXCEPT ![f] = <<>>]
    /\ pc' = pc + 1
    /\ UNCHANGED <<pending, todo, replace, ghosts, crashes>>

RestoreDone ==
    /\ pc = Len(FilesInOrder) + 1
    /\ pc' = 0
    /\ ops' = 0 /\ calls' = 0 /\ before' = Vectors(disk)
    /\ old' = Contents(disk) /\ new' = old'
    /\ UNCHANGED <<disk, records, pending, todo, replace, crashes>>

-------------------------------------------------------------------------------
Next ==
    \/ \E id \in Ids :
        \/ \E b \in Blocks : InsertOp(id, b) \/ ReplaceOp(id, b)
        \/ EraseOp(id)
    \/ InsertAgain
    \/ Write \/ \E f \in Files : Flush(f)
    \/ Crash \/ RestoreFile \/ RestoreDone

Spec == Init /\ [][Next]_vars

-------------------------------------------------------------------------------
(* Properties *)

\* Type correctness; what a record would undo is always in the file.
TypeOK ==
    /\ \A f \in Files :
        /\ disk[f][Header] \in 0 .. MaxId
        /\ \A i \in DOMAIN records[f] :
                records[f][i].at \in Cells /\ records[f][i].value # NoData
    /\ pc \in 0 .. Len(FilesInOrder) + 1
    /\ replace = NoInsert \/ replace \in Ids \X Blocks

\* The writes of an operation make the insert or erase of module IOStorage out
\* of its three files, once; making, buffering and flushing them changes nothing
\* of what was promised.
IO == INSTANCE IOStorage WITH
    storage <- Vector(Promised.storage),
    stack <- Vector(Promised.stack),
    table <- Vector(Promised.table)

WritesMakeOperations ==
    [][crashes' = 0 => IO!Next \/ IO!vars' = IO!vars]_vars

\* What a restore makes of the files.
Restored == [f \in Files |-> Undone(f)]

\* The three journals together make one operation atomic: a crash anywhere in
\* the first operation after a restore or a creation, or in the restore that
\* follows it, whatever of it the three streams have flushed, ends with all
\* files as they were before.
FirstOperationIsUndone == ops <= 1 => Vectors(Restored) = before

\* Whatever crashes have undone of any number of operations, a position that the
\* stack or the table holds when an operation begins is in the storage file or
\* right behind it.  IOStorage::insert writes to a position from the stack, and
\* FileArray::writeElement of one further out would read old contents for the
\* journal where the file has none.
PositionsInReach ==
    Idle => \A f \in {"stack", "table"} : \A i \in DOMAIN Opened(f) :
                Opened(f)[i] <= Len(Opened("storage"))

\* README.md:17-18 says so of any operation of a key-value storage.  But setting
\* a new value for a key that is there is an erase and an insert: the table
\* entry of its value has two records then, the older one is written back
\* first, and the id is left erased, which it was neither before nor after.
CallIsUndoneOrDone == calls <= 1 => Contents(Restored) \in {old, new}

===============================================================================
