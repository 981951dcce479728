# A verification project for key-value-storage

The repository is a C++ key-value store: a B+-tree whose nodes and values live
in files, with an undo journal per file so that a storage left by a crashed
program can be reloaded. It is a single-threaded library; what makes it hard is
not concurrency but long sequences of calls over structures that refer to each
other (tree, leaf list, values, block positions, free list) and crashes between
two writes. This directory models it in TLA+, checks the models with TLC and
proves part of the results with TLAPS.

Paths below are relative to the repository; `BTree.h:353` is a line of
`src/tree/BTree.h`, and so on.

## 1. Inventory

| component (files) | state | operations | what makes it correct |
|---|---|---|---|
| `KeyValueStorage`, `NodeStorage`, `ValueStorage` (`key_value_storage.h`) | file names, block sizes | constructor with restore flag | blocks are large enough; a restored storage is the one before or after the last operation |
| `BTree` (`src/tree`) | root in memory, next node id, next value id, `changes`, `buffer`, the two storages | `set`, `del`, `get`, `getRange`, commit, `clearBuffer` | it is a map; B+-tree shape; leaf list equals key order; values match keys; the stored nodes are the tree |
| nodes (`src/node`) | id, keys, value or child ids, links, deleted flag | find, split, join, addKey, deleteKey, updateKey, binary form | no key or pointer is lost |
| `IOStorage` (`src/io/IOStorage.*`) | three files: blocks, free positions, table of positions | `find`, `insert`, `erase` | it is a map from ids to blocks; no position shared, freed twice or lost |
| `FileArray` (`src/io/FileArray.*`) | size word, elements, stream buffer, cached size | `pushBack`, `popBack`, `writeElement`, `readElement`, `back` | it is a vector; what is overwritten is journaled first |
| `Journal` (`src/io/Journal.*`) | twice `next_position`, a check byte, records | `journalize`, restore, header update | the header update is atomic; a restore can be interrupted and repeated |
| `utilities.h` | none | serialize at an index, deserialize | what is read is what was written, wherever it lies |
| demonstration (`src/main.cpp`) | a storage, the keys it may ask for | two loops of calls | no get or del of a missing key |
| tests | none | - | - |

How they interact. A call of the client runs to its end inside `BTree`. The
recursion works on copies of nodes read through `getNode` and collects changed
nodes in `changes`; values go to the value storage during the descent
(`LeafNode::setValue`, `deleteKey`), changed nodes go to the node storage in the
loop that ends `set` and `del`. Both storages are `IOStorage`s. Each of their
operations opens `FileArray`s on the files it needs, uses them and closes them;
each `FileArray` owns a `Journal` and records the old bytes before it overwrites
any, except for what lies right behind the last element. Restoring opens each
file's journal and writes the old bytes back.

Hard behaviours, all listed with their lines under `hazards` in `PROJECT.json`:
stale node copies on the way up of the recursion; splits, joins and
redistributions that rewrite the leaf list in several copies; a root that
collapses in memory but not on disk; node ids that must reach the node storage
in order; block positions that are freed and reused; calls that throw in the
middle; writes that wait in a stream buffer; crashes between or inside writes,
and crashes of the restore itself; and, above the files, sessions that create,
close, lose and load a storage, with constructors that fail half-way.

The build type is Release (`CMakeLists.txt:6`), which compiles assertions out:
a broken contract between two classes goes unnoticed. Several properties below
state such contracts.

## 2. Modules

```
abstract                 detailed                            composed of
KVMap    <..refines..  BTree  (MCBTree: instances)           BNode, KVCalls
BlockMap <..refines..  IOStorage                             FileVector
IOStorage <..refines.. IOStorageCrash (writes, crashes)      FileVector
PositionRegister <..   Journal
                       FileArray (writes, crashes)           Journal, FileVector
                       KeyValueStorage (MCKeyValueStorage)   BTree, 2 x IOStorage, NodeBinary
                       NodeBinary (operators)                BNode
                       Demo                                  KVMap
theorems: IOStorageProofs, IOStorageCrashProofs, FileArrayProofs (and Journal),
          BTreeLemmas <- BTreeShapeProofs <- BTreeListProofs,
          KeyValueStorageProofs (on BTreeShapeProofs and IOStorageProofs), DemoProofs
```

* **FileVector** - the operations of `FileArray` as operators on sequences, the
  file, the buffer and the journal left out. A position behind the end is not
  part of the vector.
* **FileWrites** - a file as cells, the writes and journal records on it and what
  replaying them makes of it; shared by FileArray and IOStorageCrash, which take
  the writes one by one.
* **IOStorage** - variables `storage`, `stack`, `table` are the three files.
  `Insert` is `IOStorage::insert` (pop a free position or take the end, write the
  block, write the table), `Erase` is `IOStorage::erase` (push the position,
  write -1 to the table). Their guards are the callers' contract: `commit` and
  `setValue` erase an id before they insert it again and get the iterator to
  erase from `find`.
* **BlockMap** - what it promises: a map from ids to blocks.
* **IOStorageCrash** - the same three files as cells, with the writes of one
  operation (`InsertWrites`, `EraseWrites`) made one at a time by `Write`. Each
  file has its own buffered write and its own records. `Flush` empties a buffer
  at any time, so the files go to disk in any order; `Crash` drops the buffers
  and the rest of the operation; `RestoreFile` is the constructor without
  rewrite, one file after the other, and a crash can come between two. A `Write`
  joins recording and buffering, and `RestoreFile` replays a file in one step:
  module FileArray shows for one file that the record is valid first
  (`OverwritesAreJournaled`) and that a restore cut short is begun again with
  the same result (`RestoreKeepsGoal`), with the header written in three steps.
  No write tears here. An operation starts when the files of the
  last one are closed, as in the code, where every operation opens its own
  `FileArray`s. `ReplaceOp` and `InsertAgain` are `LeafNode::setValue` and
  `BTree::commit`, an erase and an insert of one id.
* **BNode** - nodes as records and every node operation as an operator.
  Positions count from 1. `Stored` is what writing and reading back keeps: all
  but the deleted flag, which the binary form does not have.
* **NodeBinary** - toBinary and the constructors from bytes, as operators on
  sequences in which the first byte of a number stands for the number and the
  others are `Rest`; a number read at a wrong offset is `Garbage`. `Block` is what
  a commit hands to the node storage, brought to the size of a block; `FromBinary`
  what getNode makes of it. KeyValueStorage puts such blocks in its node file;
  BTree uses `Stored` of BNode instead, which `NodeFilesHoldNodes` justifies.
* **BTree** - one action per step. The C++ recursion is `path`, the frames above
  the current one with their node copy and child index. `DescendSet`,
  `DescendDel`, `SetLeafAdd`, `SetLeafReplace`, `DelLeaf`, `KeyDoesNotExist` are
  the way down; `AscendPlain`, `SetOverflow`, `DelShortage` what a caller does
  after the recursive call returns; `RootStays`, `RootSplit`, `RootCollapse` the
  public `set` and `del`; `CommitNode` one turn of the commit loop;
  `ClearBuffer` the end. `FindNode`, `Get`, `GetRangeNextLeaf`, `GetRangeEnd` are
  the reads. The order in which the two `genNodeId()` arguments of
  `root.split` (BTree.h:335) are evaluated is unspecified in C++; `RootSplit`
  takes either. The two storages are maps, which is what IOStorage implements
  for ids inserted in order; `CommitsAreContiguous` shows that the tree does.
* **KVMap** - the map the README promises: a call is invoked, takes effect at
  one moment and returns. Get and del of a missing key throw. getRange is
  allowed to throw when nothing in the map reaches its left end; see finding 1.
* **KVCalls** - calls and responses, shared by the two. **MCBTree** -
  instances: a frozen variable `scenario` says which calls a behaviour starts with
  and which it goes on with.
* **KeyValueStorage** - extends BTree by the six files of its two storages, as
  two instances of IOStorage. `EraseOldValue`, `InsertValue`, `EraseValue`,
  `EraseOldNode` and `InsertNode` are the calls the tree makes of them, each with
  BTree's step for the map and IOStorage's for the files; a replacement is two
  steps, with the id missing in between. `Create`, `Close`, `Crash` are the
  constructor, destructor and end of the program; `Load`, `LoadValues` and
  `NoRoot` the restoring constructor member by member, `NoValueFiles` its failure
  where no files are, and `Fail` what every failure does (the members that exist
  are destroyed and remove their files). A load always fails, so there is no
  action for one that succeeds: theorem `NoLoadSucceeds`. The node file holds
  blocks of bytes. **MCKeyValueStorage** gives each session a scenario.
* **Demo** - `src/main.cpp` as a client of KVMap: the two loops, `arr` as the set
  of the keys it holds, every draw of `rand()` possible, an exception that
  nobody catches.
* **FileArray** - the file as cells, the element writes one by one. `Start`
  turns an operation into writes; `Write` is the beginning of
  `FileArray::write` (the seek flushes what was buffered before),
  `JournalRecord` and `JournalCount` are `journalize`, `BufferData` hands the
  bytes to the stream and `Flush` is the stream writing them when it likes.
  `Close` and `Open` are the destructor and the constructor without rewrite.
  `Crash` loses the buffer and may, with `Tearing`, leave half a write;
  `RestoreBegin`, `RestoreRecord`, `RestoreReset` and `RestoreDone` are the
  restoring constructor of `Journal`. The module extends Journal: the number of
  valid records is `next_position`, a position being the number of records before
  it. `JournalCount` and `RestoreReset` only begin `writeNextPosition`;
  `WriteHeader` makes its first two writes and `JournalCounted` or `RestoreDone`
  the last, and a crash can come between them or in one. After a crash the
  program can only restore: opening the old file without a
  restore is something `IOStorage`'s constructor never leaves it at.
* **Journal** - the header of a journal file: `WriteFirst`, `SetCheckByte`,
  `WriteSecond` are the three writes of `writeNextPosition` that reach the file
  separately (each seek flushes; the second number and the reset check byte are
  contiguous and flushed together). `Stop` is a crash; with `Tearing` it leaves
  half of the number that is being written. The first number is an exception
  where an earlier crash has left the check byte at 1: a crash tears it then only
  with `TearsUnderCheck`, and then finding 2 is what happens. The passing runs set
  `TearsUnderCheck` to FALSE; what it excludes is that one write.
* **PositionRegister** - what the header promises: a number replaced as a whole.

## 3. Runs

| run | question | bounds and size |
|---|---|---|
| `IOStorage` | do the three files implement the map, with no position shared, freed twice or lost? | 4 ids, 2 blocks, no bound on length; 7 453 states, complete |
| `IOStorageCrash` | do the writes in three files make the operation, and does a crash in the first operation after a restore leave nothing of it, and one in a later operation every position its place? | 2 ids, 2 blocks, 4 operations between restores, 2 crashes; 636 000 states |
| `IOStorageReplace` | is a replaced value restored as it was before or after? | violated, finding 4 |
| `FileArray` | does the file step through whole operations, is every overwrite journaled first, can a restore be repeated? | 2 elements, size 2, 5 operations, 5 records, 2 crashes between or in any writes, those of the header too; 691 428 states |
| `FileArrayPast` | is the restored vector one the file has held? | violated, finding 3 |
| `JournalTorn` | is the header update atomic? | 3 positions, 3 torn crashes, no bound on updates; 597 states, complete |
| `JournalTornTwice` | does the check byte mean what its comment says? | violated, finding 2 |
| `BTree` | shape, leaf list, values, commit order, committed tree, node sizes, siblings, buffer; does every call answer as the map does? | `node_sz` 3; 18 ascending sets and any 3 of 9 updates, 26 and any 2 of 12, 18 and any 2 of 27 calls with reads, any 4 of 16 calls on keys 1..4 from the empty tree, 6 sets and then any 6 dels of their keys; 65 103 states |
| `KVSessions` | do the files hold what the tree takes for maps, byte by byte for nodes; are IOStorage's contract and the removal of files kept through sessions; does every call and every constructor end? | `node_sz` 2, keys of 4 bytes; four sets, with or without a del, then any 2 of 8 calls, 2 sessions, crash, close and load anywhere; 12 682 states |
| `KVLoad` | does loading succeed after a crash? | violated, finding 5 |
| `Demo` | what stops the demonstration program? | 4 keys, `max_range` 2; 7 034 states, complete |
| `BTreeRangeThrows` | does getRange always list? | violated, finding 1 |

Why the bounds are enough. With `node_sz` 3 a node has 3 to 5 keys. Eighteen
ascending keys give three rows in which every node is as small as it may be: one
del then joins leaves, joins their parents and collapses the root, and others
redistribute or split again. 26 give inner nodes of three and five children and
a last leaf of five keys, so that a join makes seven, an odd number, shared
unevenly, in both kinds of nodes. The updates lie at both ends and in the
middle, so that a short node is the first child (which joins its right sibling)
or another one. Six sets and the dels of all their keys take the tree from one
split root through a root with one child back to the empty leaf. Four keys in
`node_sz` 2 split the root at once, which `KVSessions`
and `BTreeRangeThrows` use; there the splits are always even. The constructor's
size is 256 in `KeyValueStorage`; nothing in the code depends on it but the
comparisons with `node_size` and `node_size * 2`. The properties
read a tree row by row (`Rows`), as many rows as there are inner nodes and one
more, which no tree exceeds, so they need no bound of their own. For IOStorage four ids
allow three free positions below a used one in any order. In IOStorageCrash two
ids are enough for a replacement with another id in use and for a position that
is freed and reused by the other id, and four operations for an erase, an insert
on the freed position and an operation that overwrites what these wrote. In
KVSessions the first free del joins the two leaves (or, after the prefix with a
del, works on what a collapse has left), a value position is freed and reused,
and the second session starts over whatever files the first has left. For
FileArray five operations allow an element to be overwritten twice and appended
again after a popBack. Two crashes allow one during a restore, also in the three
writes that reset the header, over a check byte that the first crash has left
set. `Positions` ends at 5 records: `JournalCount` waits there, which is a bound
of the model, not of the code. Three crashes in `JournalTorn` allow a torn second
number to be followed by two updates over what it has left.

Deadlock is not checked where calls or operations are bounded: a behaviour then
ends. The demonstration program stops by design. In the
`IOStorage` and `Journal` runs deadlock is checked.

Every property of a passing run has a mutant in `PROJECT.json`: a faulty variant
of a definition, marked in the module as such, that the property refutes.

Fairness. `BTree` states weak fairness of `Step` and nothing about `Invoke`: the
library is sequential code, so a call that has started keeps running as long as
it has a next statement, while the client need not call again.
`KeyValueStorage` assumes the same of `RunningCode`, the steps of a call or of a
constructor that has begun, and nothing of `Create`, `Load`, `Close`, `Crash` or
`Begin`: `AllEnds` says that what has begun ends, or the program crashes. That
covers the descents, the walk along the leaf list and the commit loop, and also that a
step which needs an IOStorage to insert or erase
can be taken: it needs that operation's guard to hold.
The other modules state safety only.

## 4. Properties

* **KVMap refinement (`ImplementsMap`)** - each call takes effect once, at its
  leaf; descents, rebalancing, the root's replacement and the commit do not
  show; reads answer from the current map.
* **TreeShape** - sizes, one row of leaves, separation of subtrees, no deleted
  node reachable, during the commit and between calls.
* **LeafListIsOrdered** - the doubly linked list equals the key order.
* **ValuesMatchKeys** - at every step, values and keys are one-to-one.
* **CommitsAreContiguous** - the committed ids are an initial segment at every
  moment of a commit. It rests on the ascending order of the loop at BTree.h:353
  and is what `IOStorage::insert` needs.
* **CommittedTreeIsCurrent** - the nodes on disk are the tree, although after a
  collapse the root in memory and the node stored under its id differ.
* **CommittedNodesFitBlock** - NodeStorage's block forgets the node type
  (key_value_storage.h:32), so a full node would not fit; none is committed.
* **ShortageHasSibling**, **BufferIsCurrent** - see comments. **AllEnds** - liveness.
* **NoAliasing, FreeListSound, NoLeak** - the positions of the storage file are
  partitioned between the free stack and the ids in use.
* **FileStepsThroughOperations** - at any flush the file changes by one whole
  operation, in order; **OverwritesAreJournaled** - write-ahead;
  **RestoreKeepsGoal** - an interrupted restore, even in the middle of a write to
  the file or of the reset of the header, does not change its result (outside
  finding 2); **RestoreGivesVector** - its result has a size
  that was written whole and elements that exist.
* **UpdateIsAtomic** - the journal header is a number replaced as a whole.
* **FirstOperationIsUndone** - three journals that know nothing of each other
  make one operation atomic, if it is the first since they were empty.
  **WritesMakeOperations** - the writes under way, made in order, are one insert
  or erase of IOStorage; making, buffering and flushing them shows nothing.
  **PositionsInReach** - after a crash in a later operation the three files may
  belong to different moments, yet no position leads further than right behind
  the storage file.
* **NodeFilesHoldNodes**, **ValueFilesHoldValues** - the maps of BTree are what the
  six files contain, in every session, whatever an earlier one left. The blocks
  of nodes are read back byte by byte: writer and reader agree on all offsets,
  and no committed node is too large for its block.
  **CallersMeetContract** - the tree never
  inserts behind the table's end nor erases what is not there.
* **NodeFileHoldsEveryNode**, **ValueFileStaysSmall** - the node file keeps a
  block for every id ever used, deleted nodes included, at its first position;
  the value file never grows beyond the most keys held at once.
* **OnlyCrashLeavesFiles** - closed and failed storages leave none.
* **OnlyRangesThrow**, **AbortTakesManyDels** - what can stop `main`.

## 5. Findings

1. `getRange` throws when its left end is above every key of a tree that has
   inner nodes (BTree.h:288-289) and returns an empty list when the tree is one
   leaf. README.md:13 describes no exception, README.md:78-79 only for get and
   del. Run `BTreeRangeThrows`.
2. The check byte of a journal header is not reset before an update, only after
   one. A torn update that leaves it at 1, followed by a second torn update,
   makes a half-written number valid, against the comment at Journal.cpp:8-11.
   Run `JournalTornTwice`. The second update may be the reset at the end of a
   restore (Journal.cpp:79), and the next restore then reads a number that counts
   nothing: with `TearsUnderCheck` TLC refutes `TypeOK` of FileArray. Any number of crashes
   is harmless as long as none tears the first number over a check byte that is
   still set (proved).
3. The journal is never emptied by a finished operation (BTree.h:53), so a
   restore takes each cell back to before its own last write. The result can be
   a vector that the file never held, against README.md:17-18. Run
   `FileArrayPast`; no torn write is needed. README.md:37-38 says the same of
   journaling in general.
4. Setting a new value for a key that is there is not undone as a whole. It
   erases and inserts one value id (LeafNode.h:183-186), so the table's journal
   holds two records of one cell, the older with the position and the newer with
   the -1 of the erase. A restore writes them back in that order
   (Journal.cpp:66-78) and leaves the id erased: neither the map before the call
   nor the one after it, against README.md:17-18. Run `IOStorageReplace`: one
   crash, and the replacement is the first call since the journals were empty,
   so this is not finding 3 again. Every committed node is rewritten in the same
   way (BTree.h:127-130).
5. `KeyValueStorage(name, true)` never loads anything: NodeStorage drops its
   `rewrite` argument (key_value_storage.h:28-33), the node files are emptied,
   `getNode(0)` throws, and the destructors remove the value files too. README.md:14
   says it loads what a broken session has left. Run `KVLoad`; theorem
   `NoLoadSucceeds` proves that the root is never found.

## 6. Proofs

`IOStorageProofs` proves, for any set `Blocks` and any `MaxId \in Nat`:

* `Partition`: `PositionsPartitioned` is an invariant. The four named properties
  are not inductive one by one: that an insert keeps `NoAliasing` needs
  `FreeListSound` (the popped position is used by no id), that an insert keeps
  `FreeListSound` needs that the stack has no duplicates, that `NoLeak` survives
  an erase needs the position to have been in the file. Their conjunction is
  inductive. The lemmas on the vector operators come first, then what an insert
  and an erase do to `Find`, then to the partition.
* `TypeCorrect`, `Aliasing`, `FreeList`, `Leak`: the run's invariants.
* `Refinement`: IOStorage implements BlockMap under `blocks <- Contents`. An
  insert changes what one id reads because its position is nobody else's, which
  is the invariant.

`FileArrayProofs` is about Journal and FileArray. All its theorems assume
`CheckByteTrusted`, that is `~TearsUnderCheck \/ MaxStops = 1`: no crash tears the
first number of a header while the check byte is still set from an earlier crash,
or there is one crash at most. Finding 2 shows that this cannot be dropped. About
Journal it proves, for any set of positions and any `MaxStops`:

* `HeaderTypeCorrect`, and `UpdateAtomic`: Journal implements PositionRegister. The
  inductive invariant adds what the protocol maintains: which of the two numbers
  is the new one at each `step`, that the check byte is 0 until a crash has left it
  set, and that a torn number is never the one that counts.

About FileArray it proves, for any `Elements` and bounds, any number of crashes,
with torn writes and without:

* `HeaderProtocol`: FileArray takes the steps of `HeaderSpec` and no others on the
  header, so what holds of Journal holds in it. `Open` is the step for which this
  needs the invariant: it finds the header finished and reads what is in memory.
* `TypeCorrect`, `WriteAhead` (`OverwritesAreJournaled`), `RestoreMakesVector`
  (`RestoreGivesVector`), `RestoreAgain` (`RestoreKeepsGoal`) and
  `VectorOperations` (`FileStepsThroughOperations`). That a write in the stream's
  buffer is an append or recorded is not inductive alone: `RecordInStep` says where
  its record is at each `pc`, `SizeInStep` that the size in memory is the one the
  file will have, without which what counts as an append could be decided on a
  stale size, and `Planned` what an operation has still to write. `RecordsFilled`
  says that a size which a record brings back finds its elements in the file;
  `RestoreInStep` that a restore finds a whole file or will write back its size, and
  that what it has written back is in the file: begun again, it ends the same.
  `HeaderInStep` says when the header is being written, and that during a reset
  all records have been written back and a reader finds either all of them or
  none, of which each ends with the file as it is. The lemmas on
  `Replay` (each cell ends with the last record of it) carry the rest;
  they need no induction over the records.

`IOStorageCrashProofs` proves, for any `Blocks`, any number of ids, of operations
and of crashes:

* `TypeCorrect`; `FirstUndone` (`FirstOperationIsUndone`); `InReach`
  (`PositionsInReach`); `MakeOperations` (`WritesMakeOperations`), which says that
  the three files implement IOStorage until a crash.

The inductive invariant `Inv` looks at each file by itself. `PlannedFor` says what
`todo` has for a file: each cell once, the size last, elements up to that size and
behind the old size only the one it will take in; `BufferedFor` that the write in
the buffer is an append or has its old contents in the last record; `FirstFor` that
in the first operation no cell is written that has a record already, and that a
restore makes the vector in `before`. This is what a replacement, two operations
on one cell of the table, does not have (finding 4). `MadeHead` and `MadeOther`
show that writing what comes first changes nothing of what all writes will make,
`FlushUndone` that emptying a buffer changes nothing of what the records make of
the vector.

What relates the files is `PositionsWithin`. A crash takes each file back by another
number of operations, so a table entry restored may be of a block that is no
longer there. But the size that a restore gives the storage file (`OldSize`) is
its last one before the latest push, so only a push raises it, and the position
that comes with a push is written to the table after that size. So whatever is
brought back is at most `OldSize`, right behind the file: an insert finds its place.
"Right behind" cannot be dropped: TLC has a crash in the insert of a replacement
with which the stack keeps position 0 of a storage file that is empty again.
`ReplaceInStep` says that the id of a replacement is erased when its insert comes.
`Inv` was checked by TLC before it was proved.

`BTreeLemmas`, `BTreeShapeProofs` and `BTreeListProofs`, each on top of the one
before, prove, for any `NodeSize >= 2`, any set of integers as `Keys`
(`KeysAssumption`), any values, and calls of the right types (`CallsAssumption`),
so for trees of any height:

* `BufferCurrent`: a node in the read buffer is the node in the storage, also
  when a del has thrown and left its copies to the next call.
* `TypeCorrect`; `CommitsContiguous`, what IOStorage's `insert` needs of the
  tree; `NodesFitBlock`; `SiblingExists`, which `normalizeNodeShortage` relies on.
* `TreeIsShaped` (`TreeShape`), `ValuesKeptMatched` (`ValuesMatchKeys`),
  `CommittedTreeKept` (`CommittedTreeIsCurrent`), `LeavesInOrder`
  (`LeafListIsOrdered`).
* `LinksNameLeaves` (`LinksInv`): `next` and `prev` of a leaf name leaves, of an inner
  node nothing, in the storage and in every copy a call still holds.
* `TreeImplementsMap` (`ImplementsMap`): the tree refines the map of KVMap.

None of these is inductive. That a short node has a sibling needs its parent to
have two children, which needs every other node to be large enough; that the node
a caller re-reads is the one the recursive call has saved needs the frames to
lead to it; that a commit leaves no gap needs every id above the stored ones to
wait in `todo`, hence in `changes`, with a node that was saved when the id was
made. `ShapeInv` says all of it at once. Its main part is that the newest copies
of the nodes, the root included, are linked as a tree. A recursive definition
of a tree could not be used (see below), so `Linked` says it of the heap, the
function from ids to nodes: there are functions `height`, `up` and `pos`, such
that a leaf has height 0, a child is one lower than its parent, and `up` and
`pos` give back the parent and the place of a child. So no two nodes share a
child and there is no cycle. `TreeAt` adds that the frames of `path` are a walk
down from the root, each with a copy that still names the children its node has
(`Chain`), and what the nodes hold (`Sizes`): `NodeSize` to `2 * NodeSize - 1` keys,
but for the root and for the node at the end of the walk, which `Less` and `More`
allow one key less on the way up of a del and one more on that of a set. `CommitOK`
says of a commit that `todo` holds every id that is not stored yet and that a
stored node not in it is the changed one; the root in memory stands for node 0
there, so that a collapsed root and the node on disk may differ.

The keys come with a third function, `low`: a number below all keys under a node,
such that the low of a child is not less than the key before it in its parent
(`Order`). It is there because on the way up of a call the parent's key of the
node at work may be outdated, while the bound from below stays true. `Aim` says
that on the way down the call's key lies above the low of each node it has
entered (a set may take the last child of a node whose keys are all less).
`PairsMatch(E)` says that `E`, the pairs of a key and a value id in the leaves, is
one to one between keys and the ids in the value storage. The steps of a set or
del at its leaf change `E` by one pair; all others keep it, as every split, join
and redistribution keeps the pairs of the nodes it takes and makes (`EntriesAt`).

BTreeLemmas has what does not depend on the state: a split replaces one child by
two, a join two by one, a redistribution moves children between two, a new root
or a collapsed one changes the top, and each keeps a heap linked, in order, and
its pairs. BTreeShapeProofs first shows what `GetNode`, `SaveNode` and the links
between leaves do to memory, then has a lemma for each action (`...Keeps`), and
`ShapeStep` joins them. That the rows which `TreeShape` and the other properties
go through hold exactly the linked nodes is shown by the heights (`Standing`): row
`d` is the nodes `d - 1` levels below the root, and there are no more levels than
inner nodes. For the committed tree `CommitInv` adds to `ShapeInv` that the root
in memory has the body of node 0 in the storage, or of the only child of node 0
(`HoldsRoot`), which is what a collapse leaves.

BTreeListProofs adds `ListInv`: the leaves are a doubly linked list in the order of
their keys (`ListOf`). On the way up, while the node at work is a leaf, it says also
that the other children of the last frame are linked to their neighbours: a join
makes one of two neighbours and needs `next` of the left one to be the right one.
A split puts its halves in the place of the leaf, and a collapsed root takes over
the ends of its last child.

For `TreeImplementsMap` the invariant gets its last part, `ReadInv`: a get or getRange
that searches stands where a set would stand (`Searching`), and a getRange that
walks has listed exactly the pairs of its interval with a key less than those of
the leaf it is at (`Visiting`). From `AimedAt` follows that the leaf a search ends
at has the key if any leaf has it (`FoundInLeaf`), and that a key above all of an
inner node is above all there are (`AllBelow`), the case in which getRange throws;
from the leaf list, that the next leaf has the next keys (`LeafHasNext`). A
listing is pinned down by its set of keys: they rise, so each is the one with as
many keys before it as its place says (`ListsAll`), which is how KVMap defines
`Pairs`. The lemmas `...Maps` map each action to one of KVMap or to no change.

`KeyValueStorageProofs` proves, for any calls, node size and number of sessions:

* `FilesRemoved`: only a crash leaves files behind.
* `NoLoadSucceeds`: whenever the restoring constructor looks for node 0, the node
  storage does not have it (finding 5, for every storage).
* `TreeKept`: `ShapeInv` holds in every session: a step of `KeyValueStorage` is one
  of BTree, leaves the tree alone, or is `Create`, which is BTree's `Init`.
* `ValuesInFiles`: the three files of the value storage hold what BTree takes for a
  map. The lemmas of IOStorageProofs on one insert or erase are used for its
  files (the instance `VP`); `ValuesHeld` adds that the table has an entry for each
  value id handed out, and that these are no more than the calls made, which
  `MaxIds` bounds (`IdsAssumption`). That setValue overwrites an id which is
  in the table needs `ShapeInv`.
* `ValueFileSmall`: with no position free, each one is that of one value
  (`FullFile`, from `NoLeak` by counting), so a longer file means more keys.
* `EveryNodeInFile`, `BlocksInFile`: node `x` is at position `x` of the node file,
  always. `NodesHeld` says so with the one exception between the erase and the
  insert of a commit, when the freed position is the one that comes back.
* `ContractMet` (`CallersMeetContract`): inserts come in order, and a value that is
  erased is there, since the pairs of the tree match the values (`PairsMatch`).
* `NodesInFiles` (`NodeFilesHoldNodes`): the blocks of the node file are the nodes of
  the tree, byte by byte. `BlockReadsBack` says of the binary form that what
  `toBinary` has written, brought to the size of a block, is read back as the node
  it was made of if the node is not full and not deleted. Sizes come from `ShapeInv`, the
  rest from `NoneDeleted` (no node in the storage has the flag) and `LinksInv` (an
  inner node has no links, which its binary form leaves out).
* `LifeTypeCorrect` (`KVTypeOK`).

`DemoProofs` proves, for any `InitSize` and `MaxRange` below it:

* `TypeCorrect`; `GuardsSuffice`: `arr` is a subset of the keys in the storage,
  but for the one being deleted; `AbortIsRare`: the keys missing are no more than
  the dels counted, so an empty top of the key space takes more than `max_range`
  of them. The inductive invariant follows a call through invocation, effect and
  return, and counts the missing keys with the library's facts on cardinality.

Every property of a passing run is proved but for `AllEnds`: liveness is beyond
TLAPS as installed, and TLC checks it. So is induction over data, which the
proofs do without. What the violated runs state is false and has no theorem.

## 7. Not modelled

* What a crash leaves in the files of a whole `KeyValueStorage`: IOStorageCrash
  has it for one storage, but no later session ever reads it (finding 5), so
  KeyValueStorage keeps the files as they were and only their existence counts.
* A crash that tears the first number of a header over a set check byte, outside
  run `JournalTornTwice`: nothing holds after it (finding 2).
* The one draw of `main` that divides by zero (`init_size` 100, main.cpp:41);
  `SizesAssumption` of Demo excludes it.
* Creating and removing files is one step each; a crash between the files of
  one storage is left out, the next creation empties all of them. So are the
  names of files, the shell commands, and the directories: the node storage
  writes to `data/` (key_value_storage.h:38), which README.md:48 has the user
  create and the code does not. Failures of the file system; two storages of one
  name (README warning 2).
* The bytes of a value and `size_t` overflow, which needs 2^64 calls.
* `print`, which only writes to the terminal, and the never instantiated
  `InnerNode::setKey`; the unit tests; the constructor of BTree without a name,
  which differs in its storages only (tests use it with a std::map).
* `FileArray::size`'s end-of-file branch, which is not reachable: the stream
  throws before it.

## 8. Plan

Nothing of the plan is open: every component with state is modelled, and every
property of a passing run that TLAPS can reach is proved. If NodeStorage passed
its `rewrite` argument on, a load would read what a crash has left, and the next
step would be to compose IOStorageCrash with BTree: first which properties of the
tree survive when its two storages are taken back by different numbers of
operations.
