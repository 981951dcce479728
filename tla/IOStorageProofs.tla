---------------------------- MODULE IOStorageProofs ----------------------------
(***************************************************************************)
(* Proofs about IOStorage for every set of blocks and every bound on the   *)
(* ids: the partition of the positions is an inductive invariant, and the  *)
(* three files implement the map of module BlockMap.                       *)
(***************************************************************************)
EXTENDS IOStorage, SequenceTheorems, TLAPS

-------------------------------------------------------------------------------
(* The vector operators *)

\* pushBack keeps every element and adds one behind the end.
LEMMA PushBackProperties ==
    ASSUME NEW S, NEW f \in Seq(S), NEW x \in S
    PROVE  /\ PushBack(f, x) \in Seq(S)
           /\ Len(PushBack(f, x)) = Len(f) + 1
           /\ \A i \in 1 .. Len(f) : PushBack(f, x)[i] = f[i]
           /\ PushBack(f, x)[Len(f) + 1] = x
  BY DEF PushBack

\* popBack keeps every element but the last.
LEMMA PopBackProperties ==
    ASSUME NEW S, NEW f \in Seq(S), Len(f) > 0
    PROVE  /\ PopBack(f) \in Seq(S)
           /\ Len(PopBack(f)) = Len(f) - 1
           /\ \A i \in 1 .. Len(f) - 1 : PopBack(f)[i] = f[i]
<1> DEFINE n == Len(f) - 1
<1>1. n \in Int /\ n >= 0
  OBVIOUS
<1>2. \A i \in 1 .. n : f[i] \in S
  OBVIOUS
<1> HIDE DEF n
<1>3. Len(SubSeq(f, 1, n)) = IF 1 <= n THEN n - 1 + 1 ELSE 0
  BY <1>1, <1>2, SubSeqProperties
<1>4. Len(SubSeq(f, 1, n)) = n
  BY <1>1, <1>3
<1>5. /\ SubSeq(f, 1, n) \in Seq(S)
      /\ \A i \in 1 .. n : SubSeq(f, 1, n)[i] = f[i]
  BY <1>1, <1>2
<1>6. QED
  BY <1>4, <1>5 DEF n, PopBack

\* What a write leaves behind, as a relation between the vector f before and
\* the vector w after.
Writes(f, x, index, w, S) ==
    /\ w \in Seq(S)
    /\ index = Len(f) => Len(w) = Len(f) + 1
    /\ index # Len(f) => Len(w) = Len(f)
    /\ w[index + 1] = x
    /\ \A i \in 1 .. Len(f) : i # index + 1 => w[i] = f[i]

\* writeElement changes one element and grows the vector only at its end.
LEMMA WriteElementProperties ==
    ASSUME NEW S, NEW f \in Seq(S), NEW x \in S,
           NEW index \in Nat, index <= Len(f)
    PROVE  Writes(f, x, index, WriteElement(f, x, index), S)
<1> DEFINE w == WriteElement(f, x, index)
<1>0. SUFFICES Writes(f, x, index, w, S)
  OBVIOUS
<1> USE DEF Writes
<1>1. Len(f) \in Nat
  OBVIOUS
<1>2. CASE index = Len(f)
  <2>1. w = PushBack(f, x)
    BY <1>2 DEF WriteElement
  <2>2. QED
    BY <1>1, <1>2, <2>1, PushBackProperties DEF PushBack
<1>3. CASE index # Len(f)
  <2> DEFINE k == index + 1
  <2>1. k \in 1 .. Len(f)
    BY <1>1, <1>3
  <2>2. w = [f EXCEPT ![k] = x]
    BY <1>3 DEF WriteElement
  <2> HIDE DEF k, w
  <2>3. /\ w \in Seq(S)
        /\ Len(w) = Len(f)
        /\ \A i \in 1 .. Len(f) : w[i] = IF i = k THEN x ELSE f[i]
    BY <2>1, <2>2, ExceptSeq
  <2>4. QED
    BY <1>3, <2>1, <2>3 DEF k
<1>4. QED
  BY <1>2, <1>3

-------------------------------------------------------------------------------
(* What the two operations do to the table and to the ids in use *)

LEMMA FindType ==
    ASSUME TypeOK, NEW id \in Ids
    PROVE  Find(id) \in Nat \cup {NoPos}
  BY MaxIdAssumption DEF TypeOK, Find, ReadElement, Ids, NoPos

\* insert takes a position that lies in the file or just behind it.
LEMMA FreePositionType ==
    ASSUME PositionsPartitioned
    PROVE  /\ FreePosition \in 0 .. Len(storage)
           /\ Len(stack) = 0 => FreePosition = Len(storage)
           /\ Len(stack) > 0 => /\ FreePosition = stack[Len(stack)]
                                /\ FreePosition < Len(storage)
                                /\ FreePosition \in FreePositions
<1>1. stack \in Seq(Nat) /\ Len(stack) \in Nat /\ Len(storage) \in Nat
  BY DEF PositionsPartitioned, TypeOK
<1>2. CASE Len(stack) = 0
  BY <1>1, <1>2 DEF FreePosition
<1>3. CASE Len(stack) > 0
  <2>1. FreePosition = stack[Len(stack)]
    BY <1>1, <1>3 DEF FreePosition, Back, ReadElement
  <2>2. stack[Len(stack)] \in FreePositions /\ stack[Len(stack)] \in Nat
    BY <1>1, <1>3 DEF FreePositions
  <2>3. QED
    BY <1>1, <1>3, <2>1, <2>2 DEF PositionsPartitioned, FreeListSound
<1>4. QED
  BY <1>1, <1>2, <1>3

LEMMA InsertEffect ==
    ASSUME PositionsPartitioned, NEW id \in Ids, NEW block \in Blocks,
           Insert(id, block)
    PROVE  /\ TypeOK'
           /\ \A i \in Ids :
                Find(i)' = IF i = id THEN FreePosition ELSE Find(i)
           /\ Live' = Live \cup {id}
           /\ id \notin Live
<1>1. /\ FreePosition \in 0 .. Len(storage)
      /\ FreePosition \in Nat
  BY FreePositionType DEF PositionsPartitioned, TypeOK
<1>2. id \in 0 .. Len(table) /\ id \in Nat
  BY DEF Insert, Ids, PositionsPartitioned, TypeOK
<1>3. /\ table' \in Seq(Nat \cup {NoPos})
      /\ id = Len(table) => Len(table') = Len(table) + 1
      /\ id # Len(table) => Len(table') = Len(table)
      /\ table'[id + 1] = FreePosition
      /\ \A i \in 1 .. Len(table) : i # id + 1 => table'[i] = table[i]
  <2>1. /\ table \in Seq(Nat \cup {NoPos})
        /\ FreePosition \in Nat \cup {NoPos}
        /\ id <= Len(table)
    BY <1>1, <1>2 DEF PositionsPartitioned, TypeOK
  <2>2. table' = WriteElement(table, FreePosition, id)
    BY DEF Insert
  <2>3. Writes(table, FreePosition, id, table', Nat \cup {NoPos})
    BY <1>2, <2>1, <2>2, WriteElementProperties, Zenon
  <2>4. QED
    BY <2>3 DEF Writes
<1>4. storage' \in Seq(Blocks)
  <2>1. storage \in Seq(Blocks) /\ FreePosition <= Len(storage)
    BY <1>1 DEF PositionsPartitioned, TypeOK
  <2>2. storage' = WriteElement(storage, block, FreePosition)
    BY DEF Insert
  <2>3. Writes(storage, block, FreePosition, storage', Blocks)
    BY <1>1, <2>1, <2>2, WriteElementProperties, Zenon
  <2>4. QED
    BY <2>3 DEF Writes
<1>5. stack' \in Seq(Nat)
  BY PopBackProperties DEF Insert, PositionsPartitioned, TypeOK
<1>6. \A i \in Ids : Find(i)' = IF i = id THEN FreePosition ELSE Find(i)
  <2>1. Len(table) \in Nat /\ Len(table') \in Nat
    BY <1>3 DEF PositionsPartitioned, TypeOK
  <2>2. TAKE i \in Ids
  <2>3. i \in Nat
    BY MaxIdAssumption DEF Ids
  <2>4. CASE i = id
    BY <1>2, <1>3, <2>1, <2>3, <2>4 DEF Find, ReadElement
  <2>5. CASE i # id
    BY <1>2, <1>3, <2>1, <2>3, <2>5 DEF Find, ReadElement
  <2>6. QED
    BY <2>4, <2>5
<1>7. FreePosition # NoPos
  BY <1>1 DEF NoPos
<1>8. Live' = Live \cup {id} /\ id \notin Live
  BY <1>6, <1>7 DEF Live, Insert
<1>9. QED
  BY <1>3, <1>4, <1>5, <1>6, <1>8 DEF TypeOK

LEMMA EraseEffect ==
    ASSUME PositionsPartitioned, NEW id \in Ids, Erase(id)
    PROVE  /\ TypeOK'
           /\ \A i \in Ids : Find(i)' = IF i = id THEN NoPos ELSE Find(i)
           /\ Live' = Live \ {id}
           /\ id \in Live
<1>1. table \in Seq(Nat \cup {NoPos}) /\ Len(table) \in Nat
  BY DEF PositionsPartitioned, TypeOK
<1>2. Find(id) \in Nat /\ id \in Nat /\ id < Len(table)
  BY <1>1, FindType, MaxIdAssumption
  DEF Erase, PositionsPartitioned, Find, Ids
<1>3. /\ table' \in Seq(Nat \cup {NoPos})
      /\ Len(table') = Len(table)
      /\ table'[id + 1] = NoPos
      /\ \A i \in 1 .. Len(table) : i # id + 1 => table'[i] = table[i]
  <2>1. table' = WriteElement(table, NoPos, id) /\ NoPos \in Nat \cup {NoPos}
    BY DEF Erase
  <2>2. id <= Len(table) /\ id # Len(table)
    BY <1>1, <1>2
  <2>3. Writes(table, NoPos, id, table', Nat \cup {NoPos})
    BY <1>1, <1>2, <2>1, <2>2, WriteElementProperties, Zenon
  <2>4. QED
    BY <2>2, <2>3 DEF Writes
<1>4. stack' \in Seq(Nat)
  BY <1>2, PushBackProperties DEF Erase, PositionsPartitioned, TypeOK
<1>5. \A i \in Ids : Find(i)' = IF i = id THEN NoPos ELSE Find(i)
  <2>1. TAKE i \in Ids
  <2>2. i \in Nat
    BY MaxIdAssumption DEF Ids
  <2>3. CASE i = id
    BY <1>1, <1>2, <1>3, <2>2, <2>3 DEF Find, ReadElement
  <2>4. CASE i # id
    BY <1>1, <1>2, <1>3, <2>2, <2>4 DEF Find, ReadElement
  <2>5. QED
    BY <2>3, <2>4
<1>6. Live' = Live \ {id} /\ id \in Live
  BY <1>5 DEF Live, Erase
<1>7. QED
  BY <1>3, <1>4, <1>5, <1>6 DEF TypeOK, Erase, PositionsPartitioned

-------------------------------------------------------------------------------
(* The partition of the positions *)

\* The position insert takes belongs to no id, leaves the free stack if it was
\* there, and lies in the storage file after the write.
LEMMA InsertTakesFreePosition ==
    ASSUME PositionsPartitioned, NEW id \in Ids, NEW block \in Blocks,
           Insert(id, block)
    PROVE  /\ Len(storage) \in Nat /\ Len(storage') \in Nat
           /\ FreePosition \in Nat
           /\ \A i \in Live : Find(i) # FreePosition
           /\ FreePositions' = FreePositions \ {FreePosition}
           /\ \A i, j \in 1 .. Len(stack') : stack'[i] = stack'[j] => i = j
           /\ FreePosition < Len(storage')
           /\ \A p \in Nat : /\ p < Len(storage) => p < Len(storage')
                             /\ p < Len(storage') =>
                                    p < Len(storage) \/ p = FreePosition
<1>1. /\ storage \in Seq(Blocks) /\ stack \in Seq(Nat)
      /\ Len(storage) \in Nat /\ Len(stack) \in Nat
  BY DEF PositionsPartitioned, TypeOK
<1>2. /\ FreePosition \in 0 .. Len(storage) /\ FreePosition \in Nat
      /\ FreePosition <= Len(storage)
  BY <1>1, FreePositionType
<1>3. Writes(storage, block, FreePosition, storage', Blocks)
  <2>1. storage' = WriteElement(storage, block, FreePosition)
    BY DEF Insert
  <2>2. QED
    BY <1>1, <1>2, <2>1, WriteElementProperties, Zenon
<1>4. /\ Len(storage') \in Nat
      /\ FreePosition < Len(storage')
      /\ \A p \in Nat : /\ p < Len(storage) => p < Len(storage')
                        /\ p < Len(storage') =>
                               p < Len(storage) \/ p = FreePosition
  BY <1>1, <1>2, <1>3 DEF Writes
<1>5. \A i \in Live : Find(i) # FreePosition
  <2>1. CASE Len(stack) = 0
    <3>1. FreePosition = Len(storage)
      BY <2>1, FreePositionType
    <3>2. TAKE i \in Live
    <3>3. Find(i) < Len(storage) /\ Find(i) \in Nat
      BY FindType DEF PositionsPartitioned, NoAliasing, Live
    <3>4. QED
      BY <1>1, <3>1, <3>3
  <2>2. CASE Len(stack) > 0
    <3>1. FreePosition \in FreePositions
      BY <2>2, FreePositionType
    <3>2. QED
      BY <3>1 DEF PositionsPartitioned, FreeListSound
  <2>3. QED
    BY <1>1, <2>1, <2>2
<1>6. /\ FreePositions' = FreePositions \ {FreePosition}
      /\ \A i, j \in 1 .. Len(stack') : stack'[i] = stack'[j] => i = j
  <2>0. \A i, j \in 1 .. Len(stack) : stack[i] = stack[j] => i = j
    BY DEF PositionsPartitioned, FreeListSound
  <2>1. CASE Len(stack) = 0
    <3>1. stack' = stack
      BY <1>1, <2>1 DEF Insert
    <3>2. FreePositions = {} /\ FreePositions' = {}
      BY <1>1, <2>1, <3>1 DEF FreePositions
    <3>3. QED
      BY <2>0, <3>1, <3>2
  <2>2. CASE Len(stack) > 0
    <3> DEFINE n == Len(stack)
    <3>1. FreePosition = stack[n] /\ n \in 1 .. n /\ n - 1 \in Nat
      BY <1>1, <2>2, FreePositionType
    <3>2. /\ stack' \in Seq(Nat)
          /\ Len(stack') = n - 1
          /\ \A i \in 1 .. n - 1 : stack'[i] = stack[i]
      <4>1. stack' = PopBack(stack)
        BY <2>2 DEF Insert
      <4>2. QED
        BY <1>1, <2>2, <4>1, PopBackProperties
    <3>3. 1 .. n = (1 .. n - 1) \cup {n} /\ n \notin 1 .. n - 1
      BY <3>1
    <3> HIDE DEF n
    <3>4. \A i, j \in 1 .. n : stack[i] = stack[j] => i = j
      BY <2>0 DEF n
    <3>5. FreePositions = {stack[i] : i \in 1 .. n}
      BY DEF n, FreePositions
    <3>6. FreePositions' = {stack'[i] : i \in 1 .. n - 1}
      BY <3>2 DEF FreePositions
    <3>7. FreePositions' = FreePositions \ {FreePosition}
      BY <3>1, <3>2, <3>3, <3>4, <3>5, <3>6
    <3>8. \A i, j \in 1 .. n - 1 : stack'[i] = stack'[j] => i = j
      BY <3>2, <3>3, <3>4
    <3>9. QED
      BY <3>2, <3>7, <3>8
  <2>3. QED
    BY <1>1, <2>1, <2>2
<1>7. QED
  BY <1>1, <1>2, <1>4, <1>5, <1>6

\* erase returns the position of id to the free stack.
LEMMA EraseFreesPosition ==
    ASSUME PositionsPartitioned, NEW id \in Ids, Erase(id)
    PROVE  /\ FreePositions' = FreePositions \cup {Find(id)}
           /\ \A i, j \in 1 .. Len(stack') : stack'[i] = stack'[j] => i = j
           /\ Len(storage') = Len(storage)
<1>1. stack \in Seq(Nat) /\ Len(stack) \in Nat /\ Find(id) \in Nat
  BY FindType DEF PositionsPartitioned, TypeOK, Erase
<1> DEFINE n == Len(stack)
<1>2. /\ stack' \in Seq(Nat)
      /\ Len(stack') = n + 1
      /\ \A i \in 1 .. n : stack'[i] = stack[i]
      /\ stack'[n + 1] = Find(id)
  BY <1>1 DEF Erase, PushBack
<1>3. 1 .. n + 1 = (1 .. n) \cup {n + 1} /\ n + 1 \notin 1 .. n
  BY <1>1
<1>4. \A i, j \in 1 .. n : stack[i] = stack[j] => i = j
  BY DEF PositionsPartitioned, FreeListSound
<1>5. FreePositions = {stack[i] : i \in 1 .. n}
  BY DEF FreePositions
<1>6. FreePositions' = {stack'[i] : i \in 1 .. n + 1}
  BY <1>2 DEF FreePositions
<1>7. Find(id) \notin FreePositions
  BY EraseEffect DEF PositionsPartitioned, FreeListSound
<1> HIDE DEF n
<1>8. FreePositions' = FreePositions \cup {Find(id)}
  BY <1>2, <1>3, <1>5, <1>6
<1>9. \A i, j \in 1 .. n + 1 : stack'[i] = stack'[j] => i = j
  BY <1>2, <1>3, <1>4, <1>5, <1>7
<1>10. Len(storage') = Len(storage)
  BY DEF Erase
<1>11. QED
  BY <1>2, <1>8, <1>9, <1>10

\* Every insert keeps the partition: the position changes from free (or not
\* yet in the file) to belonging to id.
LEMMA InsertKeepsPartition ==
    ASSUME PositionsPartitioned, NEW id \in Ids, NEW block \in Blocks,
           Insert(id, block)
    PROVE  PositionsPartitioned'
<1> DEFINE p == FreePosition
<1>1. /\ TypeOK'
      /\ \A i \in Ids : Find(i)' = IF i = id THEN p ELSE Find(i)
      /\ Live' = Live \cup {id}
      /\ id \notin Live
  BY InsertEffect, Zenon
<1>2. /\ Len(storage) \in Nat /\ Len(storage') \in Nat
      /\ p \in Nat
      /\ \A i \in Live : Find(i) # p
      /\ FreePositions' = FreePositions \ {p}
      /\ \A i, j \in 1 .. Len(stack') : stack'[i] = stack'[j] => i = j
      /\ p < Len(storage')
      /\ \A q \in Nat : /\ q < Len(storage) => q < Len(storage')
                        /\ q < Len(storage') => q < Len(storage) \/ q = p
  BY InsertTakesFreePosition, Zenon
<1> HIDE DEF p
<1>3. Live \subseteq Ids /\ Live' \subseteq Ids
  BY DEF Live
<1>4. \A i \in Live : Find(i) \in Nat /\ Find(i) < Len(storage)
  BY FindType DEF PositionsPartitioned, NoAliasing, Live
<1>5. /\ Find(id)' = p
      /\ \A i \in Live : Find(i)' = Find(i)
  BY <1>1, <1>3
<1>6. NoAliasing'
  <2>1. \A i \in Live' : Find(i)' < Len(storage')
    BY <1>1, <1>2, <1>4, <1>5
  <2>2. \A i, j \in Live' : Find(i)' = Find(j)' => i = j
    BY <1>1, <1>2, <1>5 DEF PositionsPartitioned, NoAliasing
  <2>3. QED
    BY <2>1, <2>2 DEF NoAliasing
<1>7. FreePositions \subseteq Nat
  BY DEF FreePositions, PositionsPartitioned, TypeOK
<1>8. FreeListSound'
  <2>1. FreePositions' \cap {Find(i)' : i \in Live'} = {}
    BY <1>1, <1>2, <1>5 DEF PositionsPartitioned, FreeListSound
  <2>2. \A q \in FreePositions' : q < Len(storage')
    BY <1>2, <1>7 DEF PositionsPartitioned, FreeListSound
  <2>3. QED
    BY <1>2, <2>1, <2>2 DEF FreeListSound
<1>9. NoLeak'
  <2>1. SUFFICES ASSUME NEW q \in 0 .. Len(storage') - 1
                 PROVE  q \in FreePositions' \/ \E i \in Live' : Find(i)' = q
    BY DEF NoLeak
  <2>2. q \in Nat /\ q < Len(storage')
    BY <1>2
  <2>3. CASE q = p
    BY <1>1, <1>5, <2>3
  <2>4. CASE q # p
    <3>1. q \in 0 .. Len(storage) - 1
      BY <1>2, <2>2, <2>4
    <3>2. q \in FreePositions \/ \E i \in Live : Find(i) = q
      BY <3>1 DEF PositionsPartitioned, NoLeak
    <3>3. QED
      BY <1>1, <1>2, <1>5, <2>4, <3>2
  <2>5. QED
    BY <2>3, <2>4
<1>10. QED
  BY <1>1, <1>6, <1>8, <1>9 DEF PositionsPartitioned

\* Every erase keeps the partition: the position changes from id to free.
LEMMA EraseKeepsPartition ==
    ASSUME PositionsPartitioned, NEW id \in Ids, Erase(id)
    PROVE  PositionsPartitioned'
<1> DEFINE p == Find(id)
<1>1. /\ TypeOK'
      /\ \A i \in Ids : Find(i)' = IF i = id THEN NoPos ELSE Find(i)
      /\ Live' = Live \ {id}
      /\ id \in Live
  BY EraseEffect, Zenon
<1>2. /\ FreePositions' = FreePositions \cup {p}
      /\ \A i, j \in 1 .. Len(stack') : stack'[i] = stack'[j] => i = j
      /\ Len(storage') = Len(storage)
  BY EraseFreesPosition, Zenon
<1>3. Live \subseteq Ids
  BY DEF Live
<1>4. \A i \in Live' : Find(i)' = Find(i)
  BY <1>1, <1>3
<1>5. NoAliasing'
  BY <1>1, <1>2, <1>4 DEF PositionsPartitioned, NoAliasing
<1>6. FreeListSound'
  <2>1. \A i \in Live' : Find(i)' \notin FreePositions'
    BY <1>1, <1>2, <1>4
    DEF PositionsPartitioned, FreeListSound, NoAliasing
  <2>2. \A q \in FreePositions' : q < Len(storage')
    BY <1>1, <1>2 DEF PositionsPartitioned, FreeListSound, NoAliasing
  <2>3. FreePositions' \cap {Find(i)' : i \in Live'} = {}
    BY <2>1
  <2>4. QED
    BY <1>2, <2>2, <2>3 DEF FreeListSound
<1>7. NoLeak'
  <2>1. \A q \in 0 .. Len(storage) - 1 :
            q \in FreePositions \/ \E i \in Live : Find(i) = q
    BY DEF PositionsPartitioned, NoLeak
  <2> HIDE DEF p
  <2>2. \A q \in 0 .. Len(storage') - 1 :
            q \in FreePositions' \/ \E i \in Live' : Find(i)' = q
    BY <1>1, <1>2, <1>4, <2>1 DEF p
  <2>3. QED
    BY <2>2 DEF NoLeak
<1>8. QED
  BY <1>1, <1>5, <1>6, <1>7 DEF PositionsPartitioned

LEMMA InitPartition == Init => PositionsPartitioned
<1> SUFFICES ASSUME Init PROVE PositionsPartitioned
  OBVIOUS
<1>1. Len(storage) = 0 /\ Len(stack) = 0 /\ Len(table) = 0
  BY DEF Init
<1>2. TypeOK
  BY DEF Init, TypeOK
<1>3. Live = {}
  BY <1>1, MaxIdAssumption DEF Live, Find, Ids
<1>4. FreePositions = {}
  BY <1>1 DEF FreePositions
<1>5. QED
  BY <1>1, <1>2, <1>3, <1>4
  DEF PositionsPartitioned, NoAliasing, FreeListSound, NoLeak

LEMMA StepKeepsPartition ==
    PositionsPartitioned /\ [Next]_vars => PositionsPartitioned'
<1> SUFFICES ASSUME PositionsPartitioned, [Next]_vars
             PROVE  PositionsPartitioned'
  OBVIOUS
<1>1. CASE Next
  <2>1. PICK id \in Ids : (\E block \in Blocks : Insert(id, block)) \/ Erase(id)
    BY <1>1 DEF Next
  <2>2. CASE \E block \in Blocks : Insert(id, block)
    BY <2>2, InsertKeepsPartition
  <2>3. CASE Erase(id)
    BY <2>3, EraseKeepsPartition
  <2>4. QED
    BY <2>1, <2>2, <2>3
<1>2. CASE UNCHANGED vars
  <2>1. storage' = storage /\ stack' = stack /\ table' = table
    BY <1>2 DEF vars
  <2>2. \A id \in Ids : Find(id)' = Find(id)
    BY <2>1 DEF Find, ReadElement
  <2>3. Live' = Live /\ FreePositions' = FreePositions /\ TypeOK'
    BY <2>1, <2>2 DEF Live, FreePositions, PositionsPartitioned, TypeOK
  <2>4. \A id \in Live : Find(id)' = Find(id)
    BY <2>2 DEF Live
  <2>5. NoAliasing'
    BY <2>1, <2>3, <2>4 DEF PositionsPartitioned, NoAliasing
  <2>6. FreeListSound'
    BY <2>1, <2>3, <2>4 DEF PositionsPartitioned, FreeListSound
  <2>7. NoLeak'
    BY <2>1, <2>3, <2>4 DEF PositionsPartitioned, NoLeak
  <2>8. QED
    BY <2>3, <2>5, <2>6, <2>7 DEF PositionsPartitioned
<1>3. QED
  BY <1>1, <1>2

\* IOStorage::insert and erase keep the positions of the storage file
\* partitioned between the free stack and the ids in use, for any blocks,
\* any number of ids and any sequence of calls.
THEOREM Partition == Spec => []PositionsPartitioned
  BY InitPartition, StepKeepsPartition, PTL DEF Spec

\* The three files always hold blocks, positions and positions or NoPos.
THEOREM TypeCorrect == Spec => []TypeOK
<1>1. PositionsPartitioned => TypeOK
  BY DEF PositionsPartitioned
<1>2. QED
  BY <1>1, Partition, PTL

\* Two ids in use never share a position.
THEOREM Aliasing == Spec => []NoAliasing
<1>1. PositionsPartitioned => NoAliasing
  BY DEF PositionsPartitioned
<1>2. QED
  BY <1>1, Partition, PTL

\* A position on the free stack is there once and belongs to no id in use.
THEOREM FreeList == Spec => []FreeListSound
<1>1. PositionsPartitioned => FreeListSound
  BY DEF PositionsPartitioned
<1>2. QED
  BY <1>1, Partition, PTL

\* No position of the storage file is lost by erase and insert.
THEOREM Leak == Spec => []NoLeak
<1>1. PositionsPartitioned => NoLeak
  BY DEF PositionsPartitioned
<1>2. QED
  BY <1>1, Partition, PTL

-------------------------------------------------------------------------------
(* The files implement the map *)

\* insert adds its block under its id and moves nobody else's.
LEMMA InsertRefines ==
    ASSUME PositionsPartitioned, NEW id \in Ids, NEW block \in Blocks,
           Insert(id, block)
    PROVE  /\ id \notin DOMAIN Contents
           /\ Contents' = [i \in DOMAIN Contents \cup {id} |->
                             IF i = id THEN block ELSE Contents[i]]
<1> DEFINE p == FreePosition
<1>1. /\ \A i \in Ids : Find(i)' = IF i = id THEN p ELSE Find(i)
      /\ Live' = Live \cup {id}
      /\ id \notin Live
  BY InsertEffect, Zenon
<1>2. /\ Len(storage) \in Nat
      /\ p \in Nat
      /\ \A i \in Live : Find(i) # p
  BY InsertTakesFreePosition, Zenon
<1>3. Writes(storage, block, p, storage', Blocks)
  <2>1. storage' = WriteElement(storage, block, p) /\ storage \in Seq(Blocks)
    BY DEF Insert, PositionsPartitioned, TypeOK
  <2>2. p <= Len(storage)
    BY <1>2, FreePositionType
  <2>3. QED
    BY <1>2, <2>1, <2>2, WriteElementProperties, Zenon
<1>4. \A i \in Live : Find(i) \in Nat /\ Find(i) < Len(storage)
  BY FindType DEF PositionsPartitioned, NoAliasing, Live
<1> HIDE DEF p
<1>5. ReadElement(storage, Find(id))' = block
  BY <1>1, <1>2, <1>3 DEF ReadElement, Writes
<1>6. \A i \in Live : ReadElement(storage, Find(i))' = ReadElement(storage, Find(i))
  <2>1. TAKE i \in Live
  <2>2. Find(i)' = Find(i)
    BY <1>1 DEF Live
  <2>3. Find(i) + 1 \in 1 .. Len(storage) /\ Find(i) + 1 # p + 1
    BY <1>2, <1>4
  <2>4. storage'[Find(i) + 1] = storage[Find(i) + 1]
    BY <1>3, <2>3 DEF Writes
  <2>5. QED
    BY <2>2, <2>4 DEF ReadElement
<1>7. QED
  BY <1>1, <1>5, <1>6 DEF Contents

\* erase removes its id and changes no block.
LEMMA EraseRefines ==
    ASSUME PositionsPartitioned, NEW id \in Ids, Erase(id)
    PROVE  /\ id \in DOMAIN Contents
           /\ Contents' = [i \in DOMAIN Contents \ {id} |-> Contents[i]]
<1>1. /\ \A i \in Ids : Find(i)' = IF i = id THEN NoPos ELSE Find(i)
      /\ Live' = Live \ {id}
      /\ id \in Live
  BY EraseEffect, Zenon
<1>2. storage' = storage
  BY DEF Erase
<1>3. \A i \in Live' : Find(i)' = Find(i)
  BY <1>1 DEF Live
<1>4. QED
  BY <1>1, <1>2, <1>3 DEF Contents, ReadElement

\* The storage, the free stack and the table implement the map IOStorage
\* promises to BTree and LeafNode: id by id, what was inserted last is what
\* is read, and no other id's call disturbs it.
THEOREM Refinement == Spec => ImplementsMap
<1>1. Init => Map!Init
  <2>1. SUFFICES ASSUME Init PROVE Live = {}
    BY DEF Map!Init, Contents
  <2>2. Len(table) = 0
    BY <2>1 DEF Init
  <2>3. QED
    BY <2>2, MaxIdAssumption DEF Live, Find, Ids
<1>2. PositionsPartitioned /\ [Next]_vars => [Map!Next]_Contents
  <2> SUFFICES ASSUME PositionsPartitioned, [Next]_vars
               PROVE  [Map!Next]_Contents
    OBVIOUS
  <2>1. CASE Next
    <3>1. PICK id \in Ids :
            (\E block \in Blocks : Insert(id, block)) \/ Erase(id)
      BY <2>1 DEF Next
    <3>2. CASE \E block \in Blocks : Insert(id, block)
      <4>1. PICK block \in Blocks : Insert(id, block)
        BY <3>2
      <4>2. Map!Insert(id, block)
        BY <4>1, InsertRefines DEF Map!Insert, Contents
      <4>3. QED
        BY <4>2 DEF Map!Next
    <3>3. CASE Erase(id)
      <4>1. Map!Erase(id)
        BY <3>3, EraseRefines DEF Map!Erase, Contents
      <4>2. QED
        BY <4>1 DEF Map!Next
    <3>4. QED
      BY <3>1, <3>2, <3>3
  <2>2. CASE UNCHANGED vars
    BY <2>2 DEF vars, Contents, Live, Find, ReadElement
  <2>3. QED
    BY <2>1, <2>2
<1>3. PositionsPartitioned => [CallKeepsPromise]_vars
  <2> SUFFICES ASSUME PositionsPartitioned, NEW id \in Ids
               PROVE  /\ \A block \in Blocks :
                            Insert(id, block) => Map!Insert(id, block)
                      /\ Erase(id) => Map!Erase(id)
    BY DEF CallKeepsPromise
  <2>1. ASSUME NEW block \in Blocks, Insert(id, block)
        PROVE  Map!Insert(id, block)
    BY <2>1, InsertRefines DEF Map!Insert, Contents
  <2>2. ASSUME Erase(id) PROVE Map!Erase(id)
    BY <2>2, EraseRefines DEF Map!Erase, Contents
  <2>3. QED
    BY <2>1, <2>2
<1>4. QED
  BY <1>1, <1>2, <1>3, Partition, PTL DEF Spec, ImplementsMap, Map!Spec

===============================================================================
