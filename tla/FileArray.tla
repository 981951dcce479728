------------------------------- MODULE FileArray -------------------------------
(***************************************************************************)
(* FileArray (src/io/FileArray.h, FileArray.cpp) with its file, the buffer *)
(* of its stream and its undo journal (journalize and the restoring        *)
(* constructor of src/io/Journal.cpp), under crashes of the program.       *)
(*                                                                         *)
(* An operation is a sequence of writes (todo) to the cells of the file.   *)
(* Each write first journals what it replaces, unless it lands right       *)
(* behind the last element, and then waits in the stream's buffer.  How    *)
(* many journal records are valid is next_position of module Journal, a    *)
(* position being the number of records before it; its header is written   *)
(* in three steps here too, for a new record and at the end of a restore,  *)
(* and a crash can come between them or tear one.                          *)
(***************************************************************************)
EXTENDS FileWrites, Journal

CONSTANTS
    Elements,
    MaxSize,        \* bound: elements in the file
    MaxOps          \* bound: operations in a behaviour

ASSUME ElementsAssumption ==
    /\ First = 0 /\ Positions \subseteq Nat
    /\ Torn \notin Elements \cup Nat /\ NoData \notin Elements \cup Nat
    /\ Torn # NoData
    /\ MaxSize \in Nat /\ MaxOps \in Nat

VARIABLES
    disk,           \* the file
    records,        \* the records in the journal file
    sz,             \* the size in memory
    pending,        \* the write in the stream's buffer
    todo,           \* writes the current operation has still to make
    pc,             \* "closed", "ready", "record", "count", "buffer" or "restore"
    restored,       \* records the current restore has written back
    ops,
    history         \* ghost: the vectors that were opened or that an operation makes

journal == <<records, headerVars>>
memory == <<sz, pending, todo>>
counters == <<ops, history>>
vars == <<disk, journal, memory, pc, restored, counters>>

Cells == {Header} \cup 0 .. MaxSize - 1

\* The constructor with rewrite has written the size and emptied the journal.
Init ==
    /\ disk = [c \in Cells |-> IF c = Header THEN 0 ELSE NoData]
    /\ records = <<>> /\ HeaderInit
    /\ sz = 0 /\ pending = NoWrite /\ todo = <<>>
    /\ pc = "ready" /\ restored = 0
    /\ ops = 0 /\ history = {<<>>}

-------------------------------------------------------------------------------
(* Opening and closing: every operation of IOStorage opens its files anew. *)

\* The stream's destructor flushes its buffer.
Close ==
    /\ pc = "ready" /\ todo = <<>>
    /\ disk' = Apply(disk, pending)
    /\ pending' = NoWrite
    /\ pc' = "closed"
    /\ UNCHANGED <<journal, sz, todo, restored, counters>>

\* The constructor without rewrite: the size and next_position are read.
Open ==
    /\ pc = "closed"
    /\ sz' = disk[Header]
    /\ next_position' = ReadNextPosition
    /\ pc' = "ready"
    /\ history' = history \cup {Vector(disk)}
    /\ UNCHANGED <<disk, records, var1, var2, check_byte, step, stops,
                   pending, todo, restored, ops>>

-------------------------------------------------------------------------------
(* Operations *)

\* The file once the writes that are under way and others have been made.
After(writes) == Replay(Apply(disk, pending), writes)

Promised == After(todo)

Start(writes) ==
    /\ pc = "ready" /\ todo = <<>> /\ ops < MaxOps
    /\ ops' = ops + 1
    /\ todo' = writes
    /\ history' = history \cup {Vector(After(writes))}
    /\ UNCHANGED <<disk, journal, sz, pending, pc, restored>>

\* pushBack: the element, then the size.
SizeThenElement(src) == <<At(Header, sz + 1), At(sz, src)>>  \* mutant of ElementThenSize

ElementThenSize(src) == <<At(sz, src), At(Header, sz + 1)>>

PushBackOp(src) == sz < MaxSize /\ Start(ElementThenSize(src))

PopBackOp == sz > 0 /\ Start(<<At(Header, sz - 1)>>)

\* writeElement; at index sz it is a pushBack.
WriteElementOp(src, index) ==
    IF index = sz THEN PushBackOp(src) ELSE Start(<<At(index, src)>>)

-------------------------------------------------------------------------------
(* FileArray::write *)

\* An append is not journaled, nor is what it overwrites after a popBack.
JournaledElementsOnly(w) == w.at \in 0 .. sz - 1    \* mutants of Journaled
JournaledButLast(w) == w.at \notin {sz, sz - 1}

Journaled(w) == w.at # sz

\* Seeking in the stream flushes the previous write.  The callers count sz up
\* or down just before they write it.
Write ==
    /\ pc = "ready" /\ todo # <<>>
    /\ LET w == Head(todo) IN
        /\ disk' = Apply(disk, pending)
        /\ pending' = NoWrite
        /\ sz' = IF w.at = Header THEN w.value ELSE sz
        /\ pc' = IF Journaled(w) THEN "record" ELSE "buffer"
    /\ UNCHANGED <<journal, todo, restored, counters>>

\* journalize: the old contents become a record behind the valid ones,
JournalRecord ==
    /\ pc = "record"
    /\ LET cell == Head(todo).at IN
        records' = Append(SubSeq(records, 1, next_position), At(cell, disk[cell]))
    /\ pc' = "count"
    /\ UNCHANGED <<disk, headerVars, memory, restored, counters>>

\* and when the record is in the file, next_position moves behind it
\* (Positions bounds the length of the journal),
JournalCount ==
    /\ pc = "count"
    /\ next_position + 1 \in Positions
    /\ WriteNextPosition(next_position + 1)
    /\ UNCHANGED <<disk, records, memory, pc, restored, counters>>

\* in the writes of module Journal, here and in RestoreReset.
WriteHeader ==
    /\ WriteFirst \/ SetCheckByte
    /\ UNCHANGED <<disk, records, memory, pc, restored, counters>>

JournalCounted ==
    /\ pc = "count" /\ WriteSecond
    /\ pc' = "buffer"
    /\ UNCHANGED <<disk, records, memory, restored, counters>>

BufferData ==
    /\ pc = "buffer"
    /\ pending' = Head(todo)
    /\ todo' = Tail(todo)
    /\ pc' = "ready"
    /\ UNCHANGED <<disk, journal, sz, restored, counters>>

\* The stream may write its buffer out at any time; it does not buffer at all
\* what is larger than the buffer.
Flush ==
    /\ pending # NoWrite
    /\ disk' = Apply(disk, pending)
    /\ pending' = NoWrite
    /\ UNCHANGED <<journal, sz, todo, pc, restored, counters>>

-------------------------------------------------------------------------------
(* Crashes and the restoring constructor of Journal *)

\* What a crash leaves of a write: nothing, all of it or, with Tearing, a torn
\* value.
Remains(w) ==
    {disk, Apply(disk, w)} \cup
    (IF Tearing /\ w # NoWrite THEN {Apply(disk, At(w.at, Torn))} ELSE {})

RecordsLeft == step = "ready" /\ restored < next_position

NextRecord == records[restored + 1]

\* The header is as Stop leaves it.
Crash ==
    /\ Stop
    /\ disk' \in Remains(IF pc = "restore" /\ RecordsLeft THEN NextRecord ELSE pending)
    /\ pending' = NoWrite /\ todo' = <<>> /\ restored' = 0
    /\ pc' = "restore"
    /\ UNCHANGED <<records, sz, counters>>

RestoreBegin ==
    /\ pc = "restore" /\ OpenJournal
    /\ UNCHANGED <<disk, records, memory, pc, restored, counters>>

\* Oldest record first, each synchronised.
RestoreRecord ==
    /\ pc = "restore" /\ RecordsLeft
    /\ disk' = Apply(disk, NextRecord)
    /\ restored' = restored + 1
    /\ UNCHANGED <<journal, memory, pc, counters>>

AllButOneRestored == step = "ready" /\ restored + 1 >= next_position   \* mutant

AllRestored == step = "ready" /\ restored = next_position

\* The journal is reset only when all is restored,
RestoreReset ==
    /\ pc = "restore" /\ AllRestored
    /\ WriteNextPosition(First)
    /\ UNCHANGED <<disk, records, memory, pc, restored, counters>>

\* by WriteHeader and the last write of the header.
RestoreDone ==
    /\ pc = "restore" /\ WriteSecond
    /\ restored' = 0
    /\ pc' = "closed"
    /\ UNCHANGED <<disk, records, memory, counters>>

-------------------------------------------------------------------------------
Next ==
    \/ Close \/ Open
    \/ \E e \in Elements :
        PushBackOp(e) \/ \E i \in 0 .. sz : WriteElementOp(e, i)
    \/ PopBackOp
    \/ Write \/ JournalRecord \/ JournalCount \/ WriteHeader \/ JournalCounted
    \/ BufferData \/ Flush
    \/ Crash \/ RestoreBegin \/ RestoreRecord \/ RestoreReset \/ RestoreDone

Spec == Init /\ [][Next]_vars

-------------------------------------------------------------------------------
(* Properties *)

Running == pc # "restore"

Sizes == 0 .. MaxSize

\* The records that count: whatever the header's writes have reached, these are
\* the ones a restore would begin with.
ValidRecords == SubSeq(records, 1, ReadNextPosition)

\* Type correctness.  While no restore runs, the size in the file is a size;
\* the header in the file and next_position always cover existing records.
TypeOK ==
    /\ HeaderTypeOK
    /\ disk \in [Cells -> Elements \cup Sizes \cup {NoData, Torn}]
    /\ Running => disk[Header] \in Sizes
    /\ sz \in Sizes
    /\ \A i \in DOMAIN records : records[i].at \in Cells
    /\ {ReadNextPosition, next_position} \subseteq 0 .. Len(records)
    /\ restored \in 0 .. Len(records)
    /\ pc \in {"closed", "ready", "record", "count", "buffer", "restore"}

\* The file implements the vector of module FileVector.  A call changes what is
\* promised by one operation, and the file, wherever the stream flushes, steps
\* through the operations one at a time: a reader that opens it between any two
\* writes finds a vector between whole operations.
Operation(v, w) ==
    \/ Len(v) > 0 /\ w = PopBack(v)
    \/ \E e \in Elements :
        w = PushBack(v, e) \/ \E i \in 0 .. Len(v) : w = WriteElement(v, e, i)

FileStepsThroughOperations ==
    [][Running /\ Running' =>
        LET promised == Vector(Promised)
            durable == Vector(disk)
        IN  \/ promised' = promised /\ durable' = durable
            \/ promised' = promised /\ Operation(durable, durable')
            \/ durable' = durable /\ Operation(promised, promised')]_vars

\* Write-ahead: no write that replaces part of the vector in the file can reach
\* the file before a valid record, the last one, holds what it replaces.
OverwritesAreJournaled ==
    pending # NoWrite =>
        \/ pending.at = disk[Header]
        \/ /\ ReadNextPosition > 0
           /\ records[ReadNextPosition] = At(pending.at, disk[pending.at])

\* What a restore that runs to its end makes of the file.
Goal == Replay(disk, ValidRecords)

\* A crash during a restore does no harm, even in the middle of a write to the
\* file or to the header of the journal: the next restore begins again and ends
\* with the same file, however far the reset of next_position has come.  (With
\* TearsUnderCheck the reset can leave a torn number that counts.)
RestoreKeepsGoal == [][pc = "restore" => Goal' = Goal]_vars

\* Whenever the program crashes, a restore gives a size that was written whole
\* and elements that are in the file.
RestoreGivesVector ==
    /\ Goal[Header] \in Sizes
    /\ \A i \in 0 .. Goal[Header] - 1 : Goal[i] # NoData

\* README.md:17-18: the restored structure is in a state it has had.  But no
\* operation empties the journal, so a restore gives each cell what it held
\* before its own last write, however long ago; and an append after a popBack
\* overwrites, without a record, an element an older size brings back.
RestoredVectorIsPast ==
    pc = "restore" /\ AllRestored => Vector(disk) \in history

===============================================================================
