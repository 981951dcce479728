--------------------------- MODULE FileArrayProofs ----------------------------
(***************************************************************************)
(* Proofs about module Journal, the header of a journal file, and about    *)
(* module FileArray, which writes this header: for any set of positions,   *)
(* any elements, any size and any number of operations and of crashes,     *)
(* which may tear a write.  The one assumption is CheckByteTrusted.        *)
(***************************************************************************)
EXTENDS FileArray, SequenceTheorems, WellFoundedInduction, TLAPS

-------------------------------------------------------------------------------
(* Module Journal: the header of the journal file. *)

\* No crash tears the first number while the check byte is still set from an
\* earlier crash.  Without this the header is not atomic: run JournalTornTwice.
CheckByteTrusted == ~TearsUnderCheck \/ MaxStops = 1

\* What the protocol maintains: from the check byte on the first number is the
\* new one, and until a crash has left the check byte set it is 0 while the
\* first number is written.  A torn number is never the one that counts.
Protocol ==
    /\ step = "ready" => next_position = ReadNextPosition
    /\ step = "check" => var1 = next_position
    /\ step = "second" => var1 = next_position /\ check_byte = 1
    /\ stops = 0 /\ step \in {"ready", "first", "check"} => check_byte = 0
    /\ step = "crashed" => stops # 0
    /\ var1 = Torn => check_byte = 0 /\ var2 # Torn
    /\ var2 = Torn => check_byte = 1

HeaderInv == HeaderTypeOK /\ Protocol

LEMMA ReadsPosition ==
    ASSUME HeaderInv
    PROVE  ReadNextPosition \in Positions
  BY PositionsAssumption DEF HeaderInv, HeaderTypeOK, Protocol, ReadNextPosition

LEMMA HeaderInitInv == HeaderInit => HeaderInv
<1> SUFFICES ASSUME HeaderInit PROVE HeaderInv
  OBVIOUS
<1>1. var1 # Torn /\ var2 # Torn
  BY PositionsAssumption DEF HeaderInit
<1>2. HeaderTypeOK
  BY PositionsAssumption DEF HeaderInit, HeaderTypeOK
<1>3. QED
  BY <1>1, <1>2 DEF HeaderInit, HeaderInv, Protocol, ReadNextPosition

LEMMA HeaderStepInv ==
    ASSUME CheckByteTrusted
    PROVE  HeaderInv /\ [HeaderNext]_headerVars => HeaderInv'
<1> SUFFICES ASSUME HeaderInv, [HeaderNext]_headerVars PROVE HeaderInv'
  OBVIOUS
<1> USE PositionsAssumption DEF HeaderInv, HeaderTypeOK, Protocol, ReadNextPosition
<1>1. ASSUME NEW p \in Positions, WriteNextPosition(p) PROVE HeaderInv'
  BY <1>1 DEF WriteNextPosition
<1>2. CASE WriteFirst
  BY <1>2 DEF WriteFirst
<1>3. CASE SetCheckByte
  BY <1>3 DEF SetCheckByte
<1>4. CASE WriteSecond
  BY <1>4 DEF WriteSecond
<1>5. CASE Stop
  <2>1. var1' = var1 \/ (var1' = Torn /\ var2' = var2 /\ step = "first" /\ check_byte = 0)
    BY <1>5 DEF Stop, CheckByteTrusted
  <2>2. var2' = var2 \/ (var1' = var1 /\ step = "second" /\ var2' \in {Torn, next_position})
    BY <1>5 DEF Stop
  <2>3. QED
    BY <1>5, <2>1, <2>2 DEF Stop
<1>6. CASE OpenJournal
  <2>1. next_position' \in Positions
    BY <1>6, ReadsPosition DEF OpenJournal
  <2>2. HeaderTypeOK'
    BY <1>6, <2>1 DEF OpenJournal
  <2>3. Protocol'
    BY <1>6 DEF OpenJournal
  <2>4. QED
    BY <2>2, <2>3
<1>7. CASE UNCHANGED headerVars
  BY <1>7 DEF headerVars
<1>8. QED
  BY <1>1, <1>2, <1>3, <1>4, <1>5, <1>6, <1>7 DEF HeaderNext

\* What a reader finds, and the number in memory, after each step.
LEMMA HeaderMoves ==
    ASSUME HeaderInv, CheckByteTrusted
    PROVE  /\ \A p : WriteNextPosition(p) =>
                /\ step = "ready" /\ step' = "first"
                /\ next_position' = p /\ ReadNextPosition' = ReadNextPosition
           /\ WriteFirst \/ SetCheckByte =>
                /\ Writing /\ Writing' /\ next_position' = next_position
                /\ ReadNextPosition' \in {ReadNextPosition, next_position}
           /\ WriteSecond =>
                /\ Writing /\ step' = "ready" /\ next_position' = next_position
                /\ ReadNextPosition = next_position /\ ReadNextPosition' = next_position
           /\ Stop => /\ step' = "crashed" /\ next_position' = next_position
                      /\ ReadNextPosition' = ReadNextPosition
           /\ OpenJournal => /\ step = "crashed" /\ step' = "ready"
                             /\ next_position' = ReadNextPosition
                             /\ ReadNextPosition' = ReadNextPosition
<1> USE DEF HeaderInv, HeaderTypeOK, Protocol, ReadNextPosition, Writing
<1>1. ASSUME NEW p, WriteNextPosition(p)
      PROVE  /\ step = "ready" /\ step' = "first"
             /\ next_position' = p /\ ReadNextPosition' = ReadNextPosition
  BY <1>1 DEF WriteNextPosition
<1>2. ASSUME WriteFirst \/ SetCheckByte
      PROVE  /\ Writing /\ Writing' /\ next_position' = next_position
             /\ ReadNextPosition' \in {ReadNextPosition, next_position}
  BY <1>2 DEF WriteFirst, SetCheckByte
<1>3. ASSUME WriteSecond
      PROVE  /\ Writing /\ step' = "ready" /\ next_position' = next_position
             /\ ReadNextPosition = next_position /\ ReadNextPosition' = next_position
  BY <1>3 DEF WriteSecond
<1>4. ASSUME Stop
      PROVE  /\ step' = "crashed" /\ next_position' = next_position
             /\ ReadNextPosition' = ReadNextPosition
  <2>1. var1' = var1 \/ (var1' = Torn /\ var2' = var2 /\ step = "first" /\ check_byte = 0)
    BY <1>4, PositionsAssumption DEF Stop, CheckByteTrusted
  <2>2. var2' = var2 \/ (var1' = var1 /\ step = "second")
    BY <1>4 DEF Stop
  <2>3. QED
    BY <1>4, <2>1, <2>2 DEF Stop
<1>5. ASSUME OpenJournal
      PROVE  /\ step = "crashed" /\ step' = "ready"
             /\ next_position' = ReadNextPosition
             /\ ReadNextPosition' = ReadNextPosition
  BY <1>5 DEF OpenJournal
<1> HIDE DEF HeaderInv, HeaderTypeOK, Protocol, ReadNextPosition, Writing
<1>6. QED
  BY <1>1, <1>2, <1>3, <1>4, <1>5

\* The header and next_position in memory always have their types, and no torn
\* number reaches memory.
THEOREM HeaderTypeCorrect ==
    ASSUME CheckByteTrusted
    PROVE  HeaderSpec => []HeaderTypeOK
<1>1. HeaderInv => HeaderTypeOK
  BY DEF HeaderInv
<1>2. QED
  BY <1>1, HeaderInitInv, HeaderStepInv, PTL DEF HeaderSpec

Wanted == IF Writing THEN next_position ELSE ReadNextPosition

\* Journal::writeNextPosition replaces the number as a whole: a step of the
\* protocol is a request, the replacement, a crash that loses the request, or
\* is not visible to a reader.
THEOREM UpdateAtomic ==
    ASSUME CheckByteTrusted
    PROVE  HeaderSpec => UpdateIsAtomic
<1>1. HeaderInit => Register!Init
  BY DEF HeaderInit, Register!Init, ReadNextPosition, Writing
<1>2. HeaderInv /\ [HeaderNext]_headerVars => [Register!Next]_<<ReadNextPosition, Wanted>>
  <2> SUFFICES ASSUME HeaderInv, [HeaderNext]_headerVars
               PROVE  [Register!Next]_<<ReadNextPosition, Wanted>>
    OBVIOUS
  <2> USE DEF HeaderInv, HeaderTypeOK, Protocol, Writing, ReadNextPosition, Wanted
  <2>1. ASSUME NEW p \in Positions, WriteNextPosition(p)
        PROVE  Register!Request(p)
    BY <2>1 DEF WriteNextPosition, Register!Request
  <2>2. CASE WriteFirst
    <3>1. ReadNextPosition' \in {ReadNextPosition, next_position}
      BY <2>2 DEF WriteFirst
    <3>2. Wanted = next_position /\ Wanted' = next_position
      BY <2>2 DEF WriteFirst
    <3>3. QED
      BY <3>1, <3>2 DEF Register!Next, Register!Replace
  <2>3. CASE SetCheckByte
    BY <2>3 DEF SetCheckByte, Register!Next, Register!Replace
  <2>4. CASE WriteSecond
    BY <2>4 DEF WriteSecond
  <2>5. CASE Stop
    <3>1. ReadNextPosition' = ReadNextPosition /\ step' = "crashed"
      BY <2>5, HeaderMoves
    <3>2. Wanted' = ReadNextPosition
      BY <3>1
    <3>3. QED
      BY <3>1, <3>2 DEF Register!Next, Register!Forget
  <2>6. CASE OpenJournal
    BY <2>6 DEF OpenJournal
  <2>7. CASE UNCHANGED headerVars
    BY <2>7 DEF headerVars
  <2>8. QED
    BY <2>1, <2>2, <2>3, <2>4, <2>5, <2>6, <2>7 DEF HeaderNext, Register!Next
<1>3. QED
  BY <1>1, <1>2, HeaderInitInv, HeaderStepInv, PTL
  DEF HeaderSpec, UpdateIsAtomic, Register!Spec, Register!vars, Wanted

-------------------------------------------------------------------------------
(* Module FileArray *)

\* What a cell can hold.
Contents == Elements \cup Sizes \cup {NoData, Torn}

Files == [Cells -> Contents]

\* What is written to a cell, and what a record brings back.
Writes ==
    {w \in [at : Cells, value : Elements \cup Sizes] :
        IF w.at = Header THEN w.value \in Sizes ELSE w.value \in Elements}

Records ==
    {r \in [at : Cells, value : Contents \ {NoData}] : r.at = Header => r.value \in Sizes}

States == {"closed", "ready", "record", "count", "buffer", "restore"}

\* The number of records that count.
valid == ReadNextPosition

Types ==
    /\ disk \in Files
    /\ sz \in Sizes
    /\ records \in Seq(Records)
    /\ valid \in 0 .. Len(records) /\ next_position \in 0 .. Len(records)
    /\ restored \in 0 .. Len(records)
    /\ todo \in Seq(Writes) /\ pending \in Writes \cup {NoWrite}
    /\ pc \in States

\* All elements of a file have been written.
Filled(f, size) == \A i \in 0 .. size - 1 : f[i] # NoData

Whole(f) == f[Header] \in Sizes /\ Filled(f, f[Header])

\* Write w makes of the vector in f the one that an operation promises, or, as
\* the first write of a pushBack, changes nothing of it.
Appends(f, w) == w.at = f[Header] /\ f[Header] < MaxSize

Sound(f, w) ==
    /\ w \in Writes
    /\ \/ w.at = Header /\ f[Header] > 0 /\ w.value = f[Header] - 1
       \/ /\ w.at = Header /\ f[Header] < MaxSize /\ w.value = f[Header] + 1
          /\ f[f[Header]] \in Elements
       \/ w.at \in 0 .. f[Header] - 1
       \/ Appends(f, w)

\* A pushBack has a second write.
Plan(f, w, rest) ==
    /\ Sound(f, w)
    /\ rest = <<>> \/ (Appends(f, w) /\ rest = <<At(Header, f[Header] + 1)>>)

Planned ==
    /\ Running => Whole(disk)
    /\ pending # NoWrite => Sound(disk, pending)
    /\ todo # <<>> => Plan(Apply(disk, pending), Head(todo), Tail(todo))
    /\ pc \in {"closed", "restore"} => todo = <<>>

\* The size in memory is the one that the file has once the stream is flushed
\* and the write at work is made.
SizeInStep ==
    /\ pc = "ready" => Apply(disk, pending)[Header] = sz
    /\ pc \in {"record", "count", "buffer"} =>
        /\ todo # <<>>
        /\ IF Head(todo).at = Header THEN Head(todo).value = sz ELSE disk[Header] = sz

OldContents(w) == At(w.at, disk[w.at])

\* The last valid record holds what w will replace.
Covered(w) == valid > 0 /\ records[valid] = OldContents(w)

\* How the record gets there before the write is buffered.
RecordInStep ==
    /\ pc # "ready" => pending = NoWrite
    /\ pc = "record" => Head(todo).at # disk[Header]
    /\ pc = "count" =>
        LET n == IF step = "ready" THEN next_position + 1 ELSE next_position IN
        n \in 1 .. Len(records) /\ records[n] = OldContents(Head(todo))
    /\ pc = "buffer" => Head(todo).at = disk[Header] \/ Covered(Head(todo))

\* A size that a record brings back finds its elements in the file.
RecordsFilled ==
    \A i \in 1 .. Len(records) :
        records[i].at = Header => Filled(disk, records[i].value)

\* A restore finds a whole file, or will write back its size; what it has
\* written back so far is in the file.
RestoreInStep ==
    pc = "restore" =>
        /\ Whole(disk) \/ \E i \in 1 .. valid : records[i].at = Header
        /\ \A i \in 1 .. restored :
                (\A j \in i + 1 .. restored : records[j].at # records[i].at)
                => disk[records[i].at] = records[i].value

\* The header is written for a new record or at the end of a restore, when what
\* the reader of an unfinished reset finds, no record or all, makes no difference.
HeaderInStep ==
    /\ step = "crashed" => pc = "restore" /\ restored = 0
    /\ pc # "restore" => restored = 0
    /\ Writing => pc \in {"count", "restore"}
    /\ pc = "restore" /\ step = "ready" => restored <= next_position
    /\ pc = "restore" /\ Writing =>
        next_position = 0 /\ valid \in {0, restored} /\ Whole(disk)

FileInv ==
    /\ Types /\ Planned /\ SizeInStep /\ RecordInStep /\ OverwritesAreJournaled
    /\ RecordsFilled /\ RestoreInStep /\ HeaderInStep

LEMMA HeaderReady ==
    ASSUME HeaderInv, FileInv
    PROVE  /\ pc \notin {"count", "restore"} => step = "ready"
           /\ step \in {"ready", "crashed"} \/ Writing
           /\ step = "ready" => valid = next_position /\ ~Writing
           /\ step = "crashed" => ~Writing
BY DEF HeaderInv, HeaderTypeOK, Protocol, FileInv, HeaderInStep, Writing, valid

\* All but the writes of the header and what reads it leave it alone.
LEMMA HeaderStays ==
    ASSUME FileInv, UNCHANGED <<step, next_position, restored>>,
           pc # "restore", pc' # "restore", pc = "count" <=> pc' = "count"
    PROVE  HeaderInStep'
BY DEF FileInv, HeaderInStep, Writing

-------------------------------------------------------------------------------
(* Replay: the last write to a cell. *)

IsLast(ws, c, i) == i \in WritesOf(ws, c) /\ \A j \in WritesOf(ws, c) : j <= i

LEMMA LastWrite ==
    ASSUME NEW ws, NEW n \in Nat, DOMAIN ws = 1 .. n, NEW c, WritesOf(ws, c) # {}
    PROVE  IsLast(ws, c, Max(WritesOf(ws, c)))
<1> DEFINE S == WritesOf(ws, c)
           T == {n - x : x \in S}
           R == OpToRel(<, Nat)
<1>1. S \subseteq 1 .. n
  BY DEF WritesOf
<1>2. IsWellFoundedOn(R, Nat)
  BY NatLessThanWellFounded
<1>3. \A x, y \in Nat : x < y => <<x, y>> \in R
  BY DEF OpToRel
<1> HIDE DEF R, S
<1>4. T \subseteq Nat /\ T # {}
  BY <1>1 DEF S
<1>5. PICK x \in T : \A y \in T : ~ (<<y, x>> \in R)
  BY <1>2, <1>4, WFMin
<1>6. PICK m \in S : x = n - m
  OBVIOUS
<1>7. ASSUME NEW k \in S PROVE m >= k
  <2>1. n - k \in T /\ n - k \in Nat /\ x \in Nat /\ k \in Int /\ m \in Int
    BY <1>1, <1>4, <1>6
  <2>2. ~ (n - k < x)
    BY <1>3, <1>5, <2>1
  <2>3. QED
    BY <1>6, <2>1, <2>2
<1>8. Max(S) \in S /\ \A k \in S : Max(S) >= k
  BY <1>7 DEF Max
<1>9. QED
  BY <1>1, <1>8 DEF IsLast, S

LEMMA ReplayAt ==
    ASSUME NEW f, NEW ws, NEW n \in Nat, DOMAIN ws = 1 .. n, NEW c \in DOMAIN f
    PROVE  /\ WritesOf(ws, c) = {} => Replay(f, ws)[c] = f[c]
           /\ WritesOf(ws, c) # {} => \E i : IsLast(ws, c, i)
           /\ \A i : IsLast(ws, c, i) => Replay(f, ws)[c] = ws[i].value
<1>1. CASE WritesOf(ws, c) = {}
  BY <1>1 DEF Replay, IsLast
<1>2. CASE WritesOf(ws, c) # {}
  <2> DEFINE m == Max(WritesOf(ws, c))
  <2>1. IsLast(ws, c, m)
    BY <1>2, LastWrite
  <2>2. Replay(f, ws)[c] = ws[m].value
    BY <1>2 DEF Replay
  <2> HIDE DEF m
  <2>3. ASSUME NEW i, IsLast(ws, c, i) PROVE i = m
    <3>1. i \in 1 .. n /\ m \in 1 .. n /\ i <= m /\ m <= i
      BY <2>1, <2>3 DEF IsLast, WritesOf
    <3>2. QED
      BY <3>1
  <2>4. QED
    BY <1>2, <2>1, <2>2, <2>3
<1>3. QED
  BY <1>1, <1>2

LEMMA ReplayNone ==
    ASSUME NEW f \in Files
    PROVE  Replay(f, <<>>) = f
BY DEF Replay, WritesOf, Files

\* A replay begins with the first write.
LEMMA ReplayFirst ==
    ASSUME NEW f \in Files, NEW ws \in Seq(Writes), ws # <<>>, Apply(f, Head(ws)) \in Files
    PROVE  Replay(f, ws) = Replay(Apply(f, Head(ws)), Tail(ws))
<1> DEFINE n == Len(ws)
           w == Head(ws)
           rest == Tail(ws)
           g == Apply(f, w)
<1>1. /\ n \in Nat /\ n >= 1 /\ DOMAIN ws = 1 .. n /\ w = ws[1]
      /\ DOMAIN rest = 1 .. n - 1 /\ \A i \in 1 .. n - 1 : rest[i] = ws[i + 1]
  BY HeadTailProperties
<1>2. DOMAIN f = Cells /\ DOMAIN g = Cells
  BY DEF Files
<1>3. \A c \in Cells : g[c] = IF w # NoWrite /\ w.at = c THEN w.value ELSE f[c]
  BY DEF Apply, Files
<1> HIDE DEF n, w, rest, g
<1>4. ASSUME NEW c \in Cells PROVE Replay(f, ws)[c] = Replay(g, rest)[c]
  <2>1. \A i \in 1 .. n - 1 : i \in WritesOf(rest, c) <=> i + 1 \in WritesOf(ws, c)
    BY <1>1 DEF WritesOf
  <2>2. 1 \in WritesOf(ws, c) <=> w # NoWrite /\ w.at = c
    BY <1>1 DEF WritesOf
  <2>3. WritesOf(ws, c) \subseteq 1 .. n /\ WritesOf(rest, c) \subseteq 1 .. n - 1
    BY <1>1 DEF WritesOf
  <2>4. CASE WritesOf(ws, c) = {}
    <3>1. WritesOf(rest, c) = {} /\ g[c] = f[c]
      BY <2>1, <2>2, <2>3, <2>4, <1>3
    <3>2. QED
      BY <2>4, <3>1, <1>1, <1>2, ReplayAt
  <2>5. CASE WritesOf(ws, c) # {}
    <3>1. PICK i : IsLast(ws, c, i)
      BY <2>5, <1>1, <1>2, ReplayAt
    <3>2. Replay(f, ws)[c] = ws[i].value /\ i \in 1 .. n
      BY <3>1, <2>3, <1>1, <1>2, ReplayAt DEF IsLast
    <3>3. CASE i = 1
      <4>1. WritesOf(rest, c) = {}
        <5>1. ASSUME NEW j \in WritesOf(rest, c) PROVE FALSE
          <6>1. j + 1 \in WritesOf(ws, c) /\ j \in 1 .. n - 1
            BY <5>1, <2>1, <2>3
          <6>2. j + 1 <= 1
            BY <6>1, <3>1, <3>3 DEF IsLast
          <6>3. QED
            BY <6>1, <6>2
        <5>2. QED
          BY <5>1
      <4>2. g[c] = ws[1].value
        BY <3>1, <3>3, <2>2, <1>1, <1>3 DEF IsLast
      <4>3. QED
        BY <4>1, <4>2, <3>2, <3>3, <1>1, <1>2, ReplayAt
    <3>4. CASE i # 1
      <4>1. i - 1 \in 1 .. n - 1 /\ i - 1 + 1 = i
        BY <3>2, <3>4, <1>1
      <4>2. IsLast(rest, c, i - 1)
        <5>1. i - 1 \in WritesOf(rest, c)
          BY <4>1, <2>1, <3>1 DEF IsLast
        <5>2. ASSUME NEW j \in WritesOf(rest, c) PROVE j <= i - 1
          <6>1. j \in 1 .. n - 1 /\ j + 1 \in WritesOf(ws, c)
            BY <5>2, <2>1, <2>3
          <6>2. j + 1 <= i
            BY <6>1, <3>1 DEF IsLast
          <6>3. QED
            BY <6>1, <6>2, <3>2
        <5>3. QED
          BY <5>1, <5>2 DEF IsLast
      <4>3. Replay(g, rest)[c] = rest[i - 1].value
        BY <4>2, <1>1, <1>2, ReplayAt
      <4>4. QED
        BY <4>1, <4>3, <3>2, <1>1
    <3>5. QED
      BY <3>3, <3>4
  <2>6. QED
    BY <2>4, <2>5
<1>5. /\ Replay(f, ws) = [c \in Cells |-> Replay(f, ws)[c]]
      /\ Replay(g, rest) = [c \in Cells |-> Replay(g, rest)[c]]
  BY <1>2 DEF Replay
<1>6. Replay(f, ws) = Replay(g, rest)
  BY <1>4, <1>5
<1>7. QED
  BY <1>6 DEF g, w, rest

-------------------------------------------------------------------------------
(* Files *)

LEMMA Facts ==
    /\ Header \in Cells /\ Header \notin Nat /\ Sizes \subseteq Nat /\ MaxSize \in Nat
    /\ \A s \in Sizes : s \in Nat /\ s <= MaxSize /\ \A i \in 0 .. s - 1 : i \in Cells
    /\ NoWrite \notin Records /\ Writes \subseteq Records
    /\ NoData \notin Sizes /\ NoData \notin Elements /\ NoData # Torn
    /\ \A i \in Int : i \in Cells <=> i = Header \/ i \in 0 .. MaxSize - 1
<1>1. /\ Header \in Cells /\ Header \notin Nat /\ Sizes \subseteq Nat /\ MaxSize \in Nat
      /\ \A s \in Sizes : s \in Nat /\ s <= MaxSize /\ \A i \in 0 .. s - 1 : i \in Cells
      /\ NoData \notin Sizes /\ NoData \notin Elements /\ NoData # Torn
      /\ \A i \in Int : i \in Cells <=> i = Header \/ i \in 0 .. MaxSize - 1
  BY ElementsAssumption DEF Cells, Sizes, Header
<1>2. NoWrite.value = NoData
  BY DEF NoWrite, At
<1>3. NoWrite \notin Records
  BY <1>2 DEF Records
<1>4. Writes \subseteq Records
  BY <1>1 DEF Writes, Records, Contents
<1>5. QED
  BY <1>1, <1>3, <1>4

\* Writing a cell.
LEMMA ApplyType ==
    ASSUME NEW f \in Files, NEW w \in Records
    PROVE  /\ Apply(f, w) \in Files
           /\ \A c \in Cells : Apply(f, w)[c] = IF w.at = c THEN w.value ELSE f[c]
           /\ \A c \in Cells : f[c] # NoData => Apply(f, w)[c] # NoData
<1>1. w.at \in Cells /\ w.value \in Contents /\ w.value # NoData /\ w # NoWrite
  BY Facts DEF Records
<1>2. Apply(f, w) = [f EXCEPT ![w.at] = w.value]
  BY <1>1 DEF Apply
<1>3. QED
  BY <1>1, <1>2 DEF Files

LEMMA ApplyNothing == \A f : Apply(f, NoWrite) = f
BY DEF Apply

\* A sound write leaves all elements written.
LEMMA SoundApply ==
    ASSUME NEW f \in Files, Whole(f), NEW w, Sound(f, w)
    PROVE  /\ w \in Writes /\ w \in Records /\ w # NoWrite
           /\ Apply(f, w) \in Files /\ Whole(Apply(f, w))
           /\ Apply(f, w)[Header] = IF w.at = Header THEN w.value ELSE f[Header]
           /\ \A c \in Cells : f[c] # NoData => Apply(f, w)[c] # NoData
<1> DEFINE g == Apply(f, w)
<1>1. w \in Writes /\ w \in Records /\ w # NoWrite
  BY Facts DEF Sound
<1>2. /\ g \in Files
      /\ \A c \in Cells : g[c] = IF w.at = c THEN w.value ELSE f[c]
      /\ \A c \in Cells : f[c] # NoData => g[c] # NoData
  BY <1>1, ApplyType
<1> HIDE DEF g
<1>3. f[Header] \in Nat /\ f[Header] \in Sizes /\ f[Header] <= MaxSize
  BY Facts DEF Whole
<1>4. g[Header] = IF w.at = Header THEN w.value ELSE f[Header]
  BY <1>2, Facts
<1>5. g[Header] \in Sizes
  BY <1>1, <1>3, <1>4 DEF Writes
<1>6. ASSUME NEW i \in 0 .. g[Header] - 1 PROVE g[i] # NoData
  <2>1. i \in Cells /\ g[Header] \in Nat
    BY <1>5, Facts
  <2>2. CASE i < f[Header]
    <3>1. f[i] # NoData
      BY <2>2, <2>1, <1>3 DEF Whole, Filled
    <3>2. QED
      BY <3>1, <2>1, <1>2
  <2>3. CASE ~ i < f[Header]
    <3>1. w.at = Header /\ w.value = f[Header] + 1 /\ f[f[Header]] \in Elements
      BY <2>1, <2>3, <1>3, <1>4, Facts DEF Sound, Appends
    <3>2. i = f[Header]
      BY <3>1, <2>1, <2>3, <1>3, <1>4
    <3>3. f[i] # NoData
      BY <3>1, <3>2, Facts
    <3>4. QED
      BY <3>3, <2>1, <1>2
  <2>4. QED
    BY <2>2, <2>3
<1>7. Whole(g)
  BY <1>5, <1>6 DEF Whole, Filled
<1>8. QED
  BY <1>1, <1>2, <1>4, <1>7 DEF g

\* What the stream and the files are between crashes.
LEMMA Flushed ==
    ASSUME FileInv, Running
    PROVE  LET g == Apply(disk, pending) IN
           /\ disk \in Files /\ Whole(disk) /\ disk[Header] \in Nat
           /\ g \in Files /\ Whole(g) /\ g[Header] \in Nat
           /\ \A c \in Cells : disk[c] # NoData => g[c] # NoData
           /\ pc = "ready" => g[Header] = sz
           /\ pc # "ready" => g = disk
<1>1. disk \in Files /\ Whole(disk) /\ (pending # NoWrite => Sound(disk, pending))
  BY DEF FileInv, Types, Planned
<1>2. CASE pending = NoWrite
  BY <1>1, <1>2, ApplyNothing, Facts DEF FileInv, SizeInStep, Whole
<1>3. CASE pending # NoWrite
  BY <1>1, <1>3, SoundApply, Facts DEF FileInv, SizeInStep, RecordInStep, Whole
<1>4. QED
  BY <1>2, <1>3

\* Cells that have been written stay so, and with them what records need.
LEMMA RecordsStayFilled ==
    ASSUME FileInv, records' = records, disk' \in Files,
           \A c \in Cells : disk[c] # NoData => disk'[c] # NoData
    PROVE  RecordsFilled'
<1>1. ASSUME NEW i \in 1 .. Len(records), records[i].at = Header
      PROVE  Filled(disk', records[i].value)
  <2>1. records[i] \in Records
    BY DEF FileInv, Types
  <2>2. records[i].value \in Sizes
    BY <2>1, <1>1 DEF Records
  <2>3. \A c \in 0 .. records[i].value - 1 : c \in Cells
    BY <2>2, Facts
  <2>4. Filled(disk, records[i].value)
    BY <1>1 DEF FileInv, RecordsFilled
  <2>5. QED
    BY <2>3, <2>4 DEF Filled
<1>2. QED
  BY <1>1 DEF RecordsFilled

LEMMA InitInv == Init => FileInv
<1> SUFFICES ASSUME Init PROVE FileInv
  OBVIOUS
<1> USE DEF Init
<1>1. 0 \in Sizes /\ Header \in Cells
  BY Facts DEF Sizes
<1>2. disk \in Files /\ disk[Header] = 0
  BY <1>1 DEF Files, Contents
<1>3. valid = 0 /\ next_position = 0 /\ step = "ready"
  BY ElementsAssumption DEF HeaderInit, valid, ReadNextPosition
<1>4. Types
  BY <1>1, <1>2, <1>3 DEF Types, States
<1>5. Planned
  BY <1>1, <1>2 DEF Planned, Whole, Filled
<1>6. SizeInStep /\ RecordInStep /\ OverwritesAreJournaled
  BY <1>2 DEF SizeInStep, RecordInStep, OverwritesAreJournaled, valid, Apply
<1>7. RecordsFilled /\ RestoreInStep /\ HeaderInStep
  BY <1>3 DEF RecordsFilled, RestoreInStep, HeaderInStep, Writing
<1>8. QED
  BY <1>4, <1>5, <1>6, <1>7 DEF FileInv

-------------------------------------------------------------------------------
\* The operations plan their writes.
LEMMA StartInv ==
    ASSUME FileInv, NEW writes \in Seq(Writes), Start(writes), writes # <<>>,
           Plan(Apply(disk, pending), Head(writes), Tail(writes))
    PROVE  FileInv'
<1>1. /\ UNCHANGED <<disk, records, valid, next_position, step, sz, pending, pc, restored>>
      /\ pc = "ready" /\ todo' = writes
  BY DEF Start, journal, headerVars, valid, ReadNextPosition
<1>2. Types'
  BY <1>1 DEF FileInv, Types
<1>3. SizeInStep' /\ RecordInStep' /\ OverwritesAreJournaled'
  BY <1>1 DEF FileInv, SizeInStep, RecordInStep, OverwritesAreJournaled, valid,
              OldContents, Covered
<1>4. Planned' /\ RecordsFilled' /\ RestoreInStep'
  BY <1>1 DEF FileInv, Planned, RecordsFilled, RestoreInStep, Running
<1>5. HeaderInStep'
  BY <1>1, HeaderStays
<1>6. QED
  BY <1>2, <1>3, <1>4, <1>5 DEF FileInv

\* The writes of a pushBack, and the only write of the other operations.
LEMMA OperationWrites ==
    ASSUME FileInv, pc = "ready", NEW g, g = Apply(disk, pending)
    PROVE  /\ \A e \in Elements : sz < MaxSize =>
                /\ ElementThenSize(e) \in Seq(Writes)
                /\ Plan(g, At(sz, e), <<At(Header, sz + 1)>>)
           /\ \A e \in Elements, i \in 0 .. sz - 1 : Plan(g, At(i, e), <<>>)
           /\ sz > 0 => Plan(g, At(Header, sz - 1), <<>>)
<1>1. g[Header] = sz /\ sz \in Sizes /\ sz \in Nat /\ sz <= MaxSize
  BY Flushed, Facts DEF Running, FileInv, Types
<1>2. ASSUME NEW e \in Elements, NEW i \in 0 .. sz, i < MaxSize PROVE At(i, e) \in Writes
  <2>1. i \in Cells /\ i # Header
    BY <1>1, <1>2, Facts DEF Header
  <2>2. QED
    BY <2>1 DEF At, Writes
<1>3. \A s \in Sizes : At(Header, s) \in Writes
  BY Facts DEF At, Writes
<1>4. ASSUME NEW e \in Elements, sz < MaxSize
      PROVE  ElementThenSize(e) \in Seq(Writes) /\ Plan(g, At(sz, e), <<At(Header, sz + 1)>>)
  <2>1. At(sz, e) \in Writes /\ sz + 1 \in Sizes
    BY <1>1, <1>2, <1>4, Facts DEF Sizes
  <2>2. Appends(g, At(sz, e))
    BY <1>1, <1>4 DEF Appends, At
  <2>3. QED
    BY <2>1, <2>2, <1>1, <1>3 DEF Plan, Sound, ElementThenSize
<1>5. ASSUME NEW e \in Elements, NEW i \in 0 .. sz - 1 PROVE Plan(g, At(i, e), <<>>)
  <2>1. At(i, e) \in Writes /\ At(i, e).at = i
    BY <1>1, <1>2, Facts DEF At
  <2>2. QED
    BY <2>1, <1>1 DEF Plan, Sound
<1>6. ASSUME sz > 0 PROVE Plan(g, At(Header, sz - 1), <<>>)
  <2>1. sz - 1 \in Sizes
    BY <1>1, <1>6, Facts DEF Sizes
  <2>2. At(Header, sz - 1) \in Writes
    BY <2>1, <1>3
  <2>3. QED
    BY <2>2, <1>1, <1>6 DEF Plan, Sound, At
<1>7. QED
  BY <1>4, <1>5, <1>6

Called ==
    \/ PopBackOp
    \/ \E e \in Elements : PushBackOp(e) \/ \E i \in 0 .. sz : WriteElementOp(e, i)

LEMMA OperationInv == ASSUME FileInv, Called PROVE FileInv'
<1> DEFINE g == Apply(disk, pending)
<1>0. pc = "ready" /\ sz \in Nat
  BY Facts DEF Called, PopBackOp, PushBackOp, WriteElementOp, Start, FileInv, Types
<1>1. ASSUME NEW e \in Elements, PushBackOp(e) PROVE FileInv'
  <2>1. sz < MaxSize /\ Start(ElementThenSize(e))
    BY <1>1 DEF PushBackOp
  <2>2. ElementThenSize(e) \in Seq(Writes) /\ Plan(g, At(sz, e), <<At(Header, sz + 1)>>)
    BY <2>1, <1>0, OperationWrites
  <2>3. /\ Head(ElementThenSize(e)) = At(sz, e)
        /\ Tail(ElementThenSize(e)) = <<At(Header, sz + 1)>>
        /\ ElementThenSize(e) # <<>>
    BY DEF ElementThenSize
  <2> HIDE DEF g
  <2>4. QED
    BY <2>1, <2>2, <2>3, StartInv DEF g
<1>2. ASSUME NEW e \in Elements, NEW i \in 0 .. sz, WriteElementOp(e, i) PROVE FileInv'
  <2>1. CASE i = sz
    BY <1>1, <1>2, <2>1 DEF WriteElementOp
  <2>2. CASE i # sz
    <3>1. i \in 0 .. sz - 1 /\ Start(<<At(i, e)>>)
      BY <1>0, <1>2, <2>2 DEF WriteElementOp
    <3>2. Plan(g, At(i, e), <<>>)
      BY <3>1, <1>0, OperationWrites
    <3>3. <<At(i, e)>> \in Seq(Writes)
      BY <3>2 DEF Plan, Sound
    <3>4. /\ Head(<<At(i, e)>>) = At(i, e) /\ Tail(<<At(i, e)>>) = <<>>
          /\ <<At(i, e)>> # <<>>
      OBVIOUS
    <3>5. QED
      BY <3>1, <3>2, <3>3, <3>4, StartInv
  <2>3. QED
    BY <2>1, <2>2
<1>3. CASE PopBackOp
  <2>1. sz > 0 /\ Start(<<At(Header, sz - 1)>>)
    BY <1>3 DEF PopBackOp
  <2>2. Plan(g, At(Header, sz - 1), <<>>)
    BY <2>1, <1>0, OperationWrites
  <2>3. <<At(Header, sz - 1)>> \in Seq(Writes)
    BY <2>2 DEF Plan, Sound
  <2>4. /\ Head(<<At(Header, sz - 1)>>) = At(Header, sz - 1)
        /\ Tail(<<At(Header, sz - 1)>>) = <<>> /\ <<At(Header, sz - 1)>> # <<>>
    OBVIOUS
  <2>5. QED
    BY <2>1, <2>2, <2>3, <2>4, StartInv
<1>4. QED
  BY <1>1, <1>2, <1>3 DEF Called

-------------------------------------------------------------------------------
\* FileArray::write: a write that is not journaled is an append.
LEMMA WriteInv == ASSUME FileInv, Write PROVE FileInv'
<1> DEFINE w == Head(todo)
           g == Apply(disk, pending)
<1>1. /\ pc = "ready" /\ todo # <<>>
      /\ disk' = g /\ pending' = NoWrite
      /\ sz' = IF w.at = Header THEN w.value ELSE sz
      /\ pc' = IF Journaled(w) THEN "record" ELSE "buffer"
      /\ UNCHANGED <<records, valid, next_position, step, todo, restored>>
  BY DEF Write, journal, headerVars, valid, ReadNextPosition
<1>2. w \in Writes /\ Plan(g, w, Tail(todo))
  BY <1>1 DEF FileInv, Types, Planned
<1>3. /\ g \in Files /\ Whole(g) /\ g[Header] = sz /\ g[Header] \in Nat
      /\ \A c \in Cells : disk[c] # NoData => g[c] # NoData
  BY <1>1, Flushed DEF Running
<1> HIDE DEF g, w
<1>4. Types'
  BY <1>1, <1>2, <1>3 DEF FileInv, Types, States, Writes
<1>5. Planned'
  BY <1>1, <1>2, <1>3, ApplyNothing DEF Planned, w
<1>6. SizeInStep'
  BY <1>1, <1>3 DEF SizeInStep, w
<1>7. RecordInStep'
  BY <1>1, <1>3, Facts DEF RecordInStep, Journaled, w
<1>8. OverwritesAreJournaled' /\ RestoreInStep'
  BY <1>1 DEF OverwritesAreJournaled, valid, RestoreInStep
<1>9. RecordsFilled'
  BY <1>1, <1>3, RecordsStayFilled
<1>10. HeaderInStep'
  BY <1>1, HeaderStays
<1>11. QED
  BY <1>4, <1>5, <1>6, <1>7, <1>8, <1>9, <1>10 DEF FileInv

\* What is recorded has been written: an element below the size, or the size.
LEMMA JournalRecordInv == ASSUME HeaderInv, FileInv, JournalRecord PROVE FileInv'
<1> DEFINE w == Head(todo)
           kept == SubSeq(records, 1, next_position)
           r == OldContents(w)
<1>1. /\ pc = "record" /\ pc' = "count"
      /\ records' = Append(kept, r)
      /\ UNCHANGED <<disk, valid, next_position, step, sz, pending, todo, restored>>
  BY DEF JournalRecord, memory, OldContents, headerVars, valid, ReadNextPosition
<1>0. valid = next_position /\ step = "ready" /\ restored = 0
  BY <1>1, HeaderReady DEF FileInv, HeaderInStep
<1>2. todo # <<>> /\ pending = NoWrite /\ w.at # disk[Header]
  BY <1>1 DEF FileInv, SizeInStep, RecordInStep
<1>3. Sound(disk, w) /\ w \in Writes
  BY <1>2, ApplyNothing DEF FileInv, Planned, Plan, Sound
<1>4. disk \in Files /\ Whole(disk) /\ disk[Header] \in Nat /\ disk[Header] \in Sizes
  BY <1>1, Flushed DEF Running, Whole
<1>5. disk[w.at] # NoData
  BY <1>2, <1>3, <1>4, Facts DEF Sound, Appends, Whole, Filled
<1>6. r \in Records /\ (r.at = Header => Filled(disk, r.value))
  BY <1>3, <1>4, <1>5 DEF OldContents, At, Writes, Records, Files, Whole
<1>7. valid \in Nat /\ valid <= Len(records) /\ records \in Seq(Records)
  BY DEF FileInv, Types
<1>8. /\ kept \in Seq(Records) /\ Len(kept) = valid
      /\ \A i \in 1 .. valid : kept[i] = records[i]
  BY <1>0, <1>7, SubSeqProperties
<1> HIDE DEF kept, r, w
<1>9. /\ records' \in Seq(Records) /\ Len(records') = valid + 1 /\ records'[valid + 1] = r
      /\ \A i \in 1 .. valid : records'[i] = records[i]
  BY <1>1, <1>6, <1>8, AppendProperties
<1>10. Types'
  BY <1>0, <1>1, <1>7, <1>9 DEF FileInv, Types, States
<1>11. SizeInStep' /\ OverwritesAreJournaled' /\ RestoreInStep' /\ HeaderInStep'
  BY <1>0, <1>1, <1>2 DEF FileInv, SizeInStep, OverwritesAreJournaled, valid, RestoreInStep,
                          HeaderInStep, Writing, w
<1>12. Planned'
  BY <1>1 DEF FileInv, Planned, Running
<1>13. RecordInStep'
  BY <1>0, <1>1, <1>2, <1>7, <1>9 DEF RecordInStep, OldContents, r, w
<1>14. RecordsFilled'
  <2>1. ASSUME NEW i \in 1 .. valid + 1, records'[i].at = Header
        PROVE  Filled(disk, records'[i].value)
    <3>1. CASE i = valid + 1
      BY <3>1, <2>1, <1>6, <1>9
    <3>2. CASE i # valid + 1
      <4>1. i \in 1 .. valid /\ i \in 1 .. Len(records)
        BY <3>2, <1>7
      <4>2. QED
        BY <4>1, <2>1, <1>9 DEF FileInv, RecordsFilled
    <3>3. QED
      BY <3>1, <3>2
  <2>2. QED
    BY <2>1, <1>1, <1>9 DEF RecordsFilled
<1>15. QED
  BY <1>10, <1>11, <1>12, <1>13, <1>14 DEF FileInv

\* The header may say already that the record is valid, or still that it is not.
LEMMA JournalCountInv ==
    ASSUME HeaderInv, CheckByteTrusted, FileInv, JournalCount \/ (pc = "count" /\ WriteHeader)
    PROVE  FileInv'
<1> DEFINE n == IF step = "ready" THEN next_position + 1 ELSE next_position
<1>1. /\ pc = "count" /\ pc' = "count"
      /\ UNCHANGED <<disk, records, sz, pending, todo, restored>>
  BY DEF JournalCount, WriteHeader, memory
<1>2. n \in 1 .. Len(records) /\ records[n] = OldContents(Head(todo)) /\ pending = NoWrite
  BY <1>1 DEF FileInv, RecordInStep
<1>3. /\ Writing' /\ step' # "ready" /\ step' # "crashed"
      /\ next_position' = n /\ valid' \in {valid, next_position}
  <2>1. CASE JournalCount
    <3>1. /\ step = "ready" /\ step' = "first"
          /\ next_position' = next_position + 1 /\ valid' = valid
      BY <2>1, HeaderMoves DEF JournalCount, valid
    <3>2. QED
      BY <3>1 DEF Writing
  <2>2. CASE WriteHeader
    <3>1. /\ Writing /\ Writing' /\ next_position' = next_position
          /\ valid' \in {valid, next_position}
      BY <2>2, HeaderMoves DEF WriteHeader, valid
    <3>2. QED
      BY <3>1 DEF Writing
  <2>3. QED
    BY <2>1, <2>2
<1> HIDE DEF n
<1>4. n \in Nat /\ n <= Len(records) /\ Len(records) \in Nat
  BY <1>2 DEF FileInv, Types
<1>5. Types'
  BY <1>1, <1>3, <1>4 DEF FileInv, Types
<1>6. SizeInStep' /\ OverwritesAreJournaled' /\ RestoreInStep' /\ HeaderInStep'
  BY <1>1, <1>2, <1>3
  DEF FileInv, SizeInStep, OverwritesAreJournaled, valid, RestoreInStep, HeaderInStep
<1>7. RecordInStep'
  BY <1>1, <1>2, <1>3 DEF RecordInStep, OldContents
<1>8. Planned' /\ RecordsFilled'
  BY <1>1 DEF FileInv, Planned, RecordsFilled, Running
<1>9. QED
  BY <1>5, <1>6, <1>7, <1>8 DEF FileInv

LEMMA JournalCountedInv ==
    ASSUME HeaderInv, CheckByteTrusted, FileInv, JournalCounted
    PROVE  FileInv'
<1>1. /\ pc = "count" /\ pc' = "buffer"
      /\ UNCHANGED <<disk, records, sz, pending, todo, restored>>
  BY DEF JournalCounted, memory
<1>2. Writing /\ step' = "ready" /\ next_position' = next_position /\ valid' = next_position
  BY HeaderMoves DEF JournalCounted, valid
<1>3. /\ next_position \in 1 .. Len(records) /\ pending = NoWrite
      /\ records[next_position] = OldContents(Head(todo))
  BY <1>1, <1>2 DEF FileInv, RecordInStep, Writing
<1>4. Types'
  BY <1>1, <1>2 DEF FileInv, Types, States
<1>5. SizeInStep' /\ OverwritesAreJournaled' /\ RestoreInStep' /\ HeaderInStep'
  BY <1>1, <1>2, <1>3 DEF FileInv, SizeInStep, OverwritesAreJournaled, valid, RestoreInStep,
                          HeaderInStep, Writing
<1>6. RecordInStep'
  <2>1. Covered(Head(todo))'
    BY <1>1, <1>2, <1>3 DEF Covered, OldContents
  <2>2. QED
    BY <1>1, <1>3, <2>1 DEF RecordInStep
<1>7. Planned' /\ RecordsFilled'
  BY <1>1 DEF FileInv, Planned, RecordsFilled, Running
<1>8. QED
  BY <1>4, <1>5, <1>6, <1>7 DEF FileInv

\* The second write of a pushBack is sound once its first one is buffered.
LEMMA BufferDataInv == ASSUME FileInv, BufferData PROVE FileInv'
<1> DEFINE w == Head(todo)
           rest == Tail(todo)
           g == Apply(disk, w)
<1>1. /\ pc = "buffer" /\ pc' = "ready"
      /\ pending' = w /\ todo' = rest
      /\ UNCHANGED <<disk, records, valid, next_position, step, sz, restored>>
  BY DEF BufferData, journal, headerVars, valid, ReadNextPosition
<1>2. todo # <<>> /\ pending = NoWrite
  BY <1>1 DEF FileInv, SizeInStep, RecordInStep
<1>3. rest \in Seq(Writes) /\ Plan(disk, w, rest)
  BY <1>2, ApplyNothing, HeadTailProperties DEF FileInv, Types, Planned
<1>4. disk \in Files /\ Whole(disk) /\ disk[Header] \in Nat /\ disk[Header] \in Sizes
  BY <1>1, Flushed DEF Running, Whole
<1>5. /\ w \in Writes /\ w \in Records /\ w # NoWrite /\ Sound(disk, w)
      /\ g[Header] = IF w.at = Header THEN w.value ELSE disk[Header]
  BY <1>3, <1>4, SoundApply DEF Plan
<1>6. rest # <<>> => Plan(g, Head(rest), Tail(rest))
  <2> SUFFICES ASSUME rest # <<>> PROVE Plan(g, Head(rest), Tail(rest))
    OBVIOUS
  <2> DEFINE v == At(Header, disk[Header] + 1)
  <2>1. w.at = disk[Header] /\ disk[Header] < MaxSize /\ rest = <<v>>
    BY <1>3 DEF Plan, Appends
  <2>2. g[Header] = disk[Header] /\ w.at # Header
    BY <2>1, <1>4, <1>5, Facts
  <2>3. w.value \in Elements /\ disk[Header] \in Cells
    BY <2>1, <2>2, <1>5 DEF Writes
  <2>4. g[disk[Header]] \in Elements
    BY <2>1, <2>3, <1>4, <1>5, ApplyType
  <2>5. disk[Header] + 1 \in Sizes
    BY <2>1, <1>4, Facts DEF Sizes
  <2>6. v \in Writes /\ v.at = Header /\ v.value = disk[Header] + 1
    BY <2>5, Facts DEF Writes, At
  <2> HIDE DEF g, v, w
  <2>7. Sound(g, v)
    BY <2>1, <2>2, <2>4, <2>6 DEF Sound
  <2> HIDE DEF rest
  <2>8. Head(rest) = v /\ Tail(rest) = <<>>
    BY <2>1
  <2>9. QED
    BY <2>7, <2>8 DEF Plan
<1> HIDE DEF g, w, rest
<1>7. Types'
  BY <1>1, <1>3, <1>5 DEF FileInv, Types, States
<1>8. SizeInStep'
  <2>1. Apply(disk', pending') = g /\ sz' = sz
    BY <1>1 DEF g
  <2>2. IF w.at = Header THEN w.value = sz ELSE disk[Header] = sz
    BY <1>1 DEF FileInv, SizeInStep, w
  <2>3. QED
    BY <2>1, <2>2, <1>1, <1>5 DEF SizeInStep
<1>9. RecordInStep'
  BY <1>1 DEF RecordInStep
<1>10. OverwritesAreJournaled'
  <2>1. w.at = disk[Header] \/ (valid > 0 /\ records[valid] = At(w.at, disk[w.at]))
    BY <1>1 DEF FileInv, RecordInStep, Covered, OldContents, w
  <2>2. QED
    BY <2>1, <1>1 DEF OverwritesAreJournaled, valid
<1>11. Planned'
  <2>1. Running' => Whole(disk')
    BY <1>1, <1>4
  <2>2. pending' # NoWrite => Sound(disk', pending')
    BY <1>1, <1>5
  <2>3. todo' # <<>> => Plan(Apply(disk, w), Head(todo'), Tail(todo'))
    BY <1>1, <1>6 DEF g
  <2>4. QED
    BY <2>1, <2>2, <2>3, <1>1 DEF Planned
<1>12. RecordsFilled' /\ RestoreInStep'
  BY <1>1 DEF FileInv, RecordsFilled, RestoreInStep
<1>13. HeaderInStep'
  BY <1>1, HeaderStays
<1>14. QED
  BY <1>7, <1>8, <1>9, <1>10, <1>11, <1>12, <1>13 DEF FileInv

\* The stream writes its buffer out, or is closed.
LEMMA FlushInv == ASSUME FileInv, Flush \/ Close PROVE FileInv'
<1> DEFINE g == Apply(disk, pending)
<1>1. /\ disk' = g /\ pending' = NoWrite
      /\ UNCHANGED <<records, valid, next_position, step, sz, todo, restored>>
      /\ \/ pc' = pc
         \/ pc' = "closed" /\ todo = <<>>
      /\ pc = "ready"
  BY DEF Flush, Close, journal, headerVars, valid, ReadNextPosition, FileInv, RecordInStep
<1>2. /\ g \in Files /\ Whole(g) /\ g[Header] = sz
      /\ \A c \in Cells : disk[c] # NoData => g[c] # NoData
  BY <1>1, Flushed DEF Running
<1>3. todo # <<>> => Plan(g, Head(todo), Tail(todo))
  BY DEF FileInv, Planned
<1> HIDE DEF g
<1>4. Types'
  BY <1>1, <1>2 DEF FileInv, Types, States
<1>5. Planned'
  BY <1>1, <1>2, <1>3, ApplyNothing DEF Planned, Running
<1>6. SizeInStep'
  BY <1>1, <1>2, ApplyNothing DEF SizeInStep
<1>7. RecordInStep' /\ OverwritesAreJournaled' /\ RestoreInStep'
  BY <1>1 DEF RecordInStep, OverwritesAreJournaled, valid, RestoreInStep
<1>8. RecordsFilled'
  BY <1>1, <1>2, RecordsStayFilled
<1>9. HeaderInStep'
  BY <1>1, HeaderStays
<1>10. QED
  BY <1>4, <1>5, <1>6, <1>7, <1>8, <1>9 DEF FileInv

LEMMA OpenInv == ASSUME HeaderInv, FileInv, Open PROVE FileInv'
<1>1. /\ pc = "closed" /\ pc' = "ready" /\ sz' = disk[Header] /\ next_position' = valid
      /\ UNCHANGED <<disk, records, valid, step, pending, todo, restored>>
  BY DEF Open, valid, ReadNextPosition
<1>2. Whole(disk) /\ pending = NoWrite /\ next_position' = next_position
  BY <1>1, HeaderReady DEF FileInv, Planned, Running, RecordInStep
<1>3. Types'
  BY <1>1, <1>2 DEF FileInv, Types, Whole, States
<1>4. SizeInStep'
  BY <1>1, <1>2, ApplyNothing DEF SizeInStep
<1>5. RecordInStep' /\ OverwritesAreJournaled' /\ Planned' /\ RecordsFilled' /\ RestoreInStep'
  BY <1>1, <1>2
  DEF FileInv, RecordInStep, OverwritesAreJournaled, valid, Planned, RecordsFilled,
                    RestoreInStep, Running
<1>6. HeaderInStep'
  BY <1>1, <1>2, HeaderStays
<1>7. QED
  BY <1>3, <1>4, <1>5, <1>6 DEF FileInv

-------------------------------------------------------------------------------
(* Crashes and restores *)

\* A crash tears at most the cell of the write at work: in a restore, of a record.
LEMMA CrashWrites ==
    ASSUME HeaderInv, FileInv, Crash
    PROVE  /\ disk' \in Files
           /\ \A c \in Cells : disk[c] # NoData => disk'[c] # NoData
           /\ \A c \in Cells : disk'[c] # disk[c] =>
                IF pc = "restore" THEN \E i \in 1 .. valid : records[i].at = c
                ELSE pending # NoWrite /\ pending.at = c
<1> DEFINE restoring == pc = "restore" /\ RecordsLeft
           w == IF restoring THEN NextRecord ELSE pending
<1>1. disk' \in Remains(w)
  BY DEF Crash
<1>2. restoring => restored + 1 \in 1 .. valid /\ NextRecord \in Records
  BY HeaderReady DEF FileInv, Types, NextRecord, RecordsLeft
<1>3. w \in Records \/ w = NoWrite
  BY <1>2, Facts DEF FileInv, Types
<1>4. PICK t \in {w.value, Torn} :
        disk' = disk \/ (w # NoWrite /\ disk' = Apply(disk, At(w.at, t)))
  <2>1. w # NoWrite => At(w.at, w.value) = w
    BY <1>3 DEF At, Records
  <2>2. QED
    BY <2>1, <1>1 DEF Remains, Apply
<1>5. disk \in Files
  BY DEF FileInv, Types
<1>6. w # NoWrite => w.at \in Cells /\ t \in Contents \ {NoData}
  BY <1>3, Facts DEF Records, Contents
<1>7. w # NoWrite =>
        LET g == Apply(disk, At(w.at, t)) IN
        /\ g \in Files
        /\ \A c \in Cells : g[c] = IF c = w.at THEN t ELSE disk[c]
  <2> SUFFICES ASSUME w # NoWrite
               PROVE  LET g == Apply(disk, At(w.at, t)) IN
                      /\ g \in Files
                      /\ \A c \in Cells : g[c] = IF c = w.at THEN t ELSE disk[c]
    OBVIOUS
  <2>1. w.at \in Cells /\ t \in Contents /\ t # NoData
    BY <1>6
  <2>2. At(w.at, t) # NoWrite /\ At(w.at, t).at = w.at /\ At(w.at, t).value = t
    BY <2>1 DEF At, NoWrite
  <2>3. Apply(disk, At(w.at, t)) = [disk EXCEPT ![w.at] = t]
    BY <2>2 DEF Apply
  <2>4. QED
    BY <2>1, <2>3, <1>5 DEF Files
<1>8. /\ disk' \in Files
      /\ \A c \in Cells : disk[c] # NoData => disk'[c] # NoData
      /\ \A c \in Cells : disk'[c] # disk[c] => w # NoWrite /\ w.at = c
  BY <1>4, <1>5, <1>6, <1>7
<1>9. ASSUME NEW c \in Cells, disk'[c] # disk[c]
      PROVE  IF pc = "restore" THEN \E i \in 1 .. valid : records[i].at = c
             ELSE pending # NoWrite /\ pending.at = c
  <2>1. w # NoWrite /\ w.at = c
    BY <1>8, <1>9
  <2>2. CASE restoring
    BY <2>1, <2>2, <1>2 DEF NextRecord
  <2>3. CASE ~restoring
    BY <2>1, <2>3 DEF FileInv, RecordInStep
  <2>4. QED
    BY <2>2, <2>3
<1>10. QED
  BY <1>8, <1>9

\* A torn size has a record, and so has whatever a restore leaves torn.
LEMMA CrashInv == ASSUME HeaderInv, CheckByteTrusted, FileInv, Crash PROVE FileInv'
<1>1. /\ pending' = NoWrite /\ todo' = <<>> /\ restored' = 0 /\ pc' = "restore"
      /\ UNCHANGED <<records, valid, next_position, sz>> /\ step' = "crashed"
  BY HeaderMoves DEF Crash, valid
<1>2. /\ disk' \in Files
      /\ \A c \in Cells : disk[c] # NoData => disk'[c] # NoData
  BY CrashWrites
<1>3. Types'
  BY <1>1, <1>2 DEF FileInv, Types, States
<1>4. SizeInStep' /\ RecordInStep' /\ OverwritesAreJournaled' /\ Planned'
  BY <1>1 DEF SizeInStep, RecordInStep, OverwritesAreJournaled, valid, Planned, Running
<1>5. RecordsFilled'
  BY <1>1, <1>2, RecordsStayFilled
<1>6. Whole(disk) /\ disk'[Header] = disk[Header] => Whole(disk')
  BY <1>2, Facts DEF Whole, Filled
<1>7. disk'[Header] # disk[Header] => \E i \in 1 .. valid : records[i].at = Header
  <2> SUFFICES ASSUME disk'[Header] # disk[Header]
               PROVE  \E i \in 1 .. valid : records[i].at = Header
    OBVIOUS
  <2>1. CASE pc = "restore"
    BY <2>1, CrashWrites, Facts
  <2>2. CASE pc # "restore"
    <3>1. pending # NoWrite /\ pending.at = Header
      BY <2>2, CrashWrites, Facts
    <3>2. pending.at # disk[Header]
      BY <3>1, <2>2, Facts DEF FileInv, Planned, Whole, Running
    <3>3. valid > 0 /\ records[valid] = At(Header, disk[Header])
      BY <3>1, <3>2 DEF FileInv, OverwritesAreJournaled, valid
    <3>4. valid \in 1 .. valid
      BY <3>3 DEF FileInv, Types
    <3>5. QED
      BY <3>3, <3>4 DEF At
  <2>3. QED
    BY <2>1, <2>2
<1>8. Whole(disk) \/ \E i \in 1 .. valid : records[i].at = Header
  BY DEF FileInv, Planned, RestoreInStep, Running
<1>9. RestoreInStep'
  BY <1>1, <1>6, <1>7, <1>8 DEF RestoreInStep
<1>10. HeaderInStep'
  BY <1>1 DEF HeaderInStep, Writing
<1>11. QED
  BY <1>3, <1>4, <1>5, <1>9, <1>10 DEF FileInv

\* The restore reads how many records there are to write back.
LEMMA RestoreBeginInv ==
    ASSUME HeaderInv, CheckByteTrusted, FileInv, RestoreBegin
    PROVE  FileInv'
<1>1. /\ pc = "restore" /\ step' = "ready" /\ step = "crashed"
      /\ next_position' = valid /\ valid' = valid
      /\ UNCHANGED <<disk, records, sz, pending, todo, pc, restored>>
  BY HeaderMoves DEF RestoreBegin, memory, valid
<1>2. restored = 0
  BY <1>1 DEF FileInv, HeaderInStep
<1>3. Types' /\ RestoreInStep' /\ HeaderInStep'
  BY <1>1, <1>2 DEF FileInv, Types, RestoreInStep, HeaderInStep, Writing
<1>4. SizeInStep' /\ RecordInStep' /\ OverwritesAreJournaled' /\ Planned' /\ RecordsFilled'
  BY <1>1 DEF FileInv, SizeInStep, RecordInStep, OverwritesAreJournaled, Planned, Running,
              RecordsFilled
<1>5. QED
  BY <1>3, <1>4 DEF FileInv

LEMMA RestoreRecordInv == ASSUME HeaderInv, FileInv, RestoreRecord PROVE FileInv'
<1> DEFINE r == NextRecord
<1>1. /\ pc = "restore" /\ restored < valid /\ step = "ready"
      /\ disk' = Apply(disk, r) /\ restored' = restored + 1
      /\ UNCHANGED <<records, valid, next_position, step, sz, pending, todo, pc>>
  BY HeaderReady
  DEF RestoreRecord, RecordsLeft, journal, headerVars, valid, ReadNextPosition, memory
<1>2. /\ restored \in Nat /\ restored + 1 \in 1 .. valid /\ valid <= Len(records) /\ valid \in Nat
      /\ r = records[restored + 1] /\ r \in Records /\ disk \in Files
      /\ \A i \in 1 .. valid : records[i] \in Records
  BY <1>1 DEF FileInv, Types, NextRecord
<1>3. /\ disk' \in Files
      /\ \A c \in Cells : disk'[c] = IF r.at = c THEN r.value ELSE disk[c]
      /\ \A c \in Cells : disk[c] # NoData => disk'[c] # NoData
  BY <1>1, <1>2, ApplyType
<1> HIDE DEF r
<1>4. Types'
  BY <1>1, <1>2, <1>3 DEF FileInv, Types
<1>5. RecordsFilled'
  BY <1>1, <1>3, RecordsStayFilled
<1>6. SizeInStep' /\ RecordInStep' /\ OverwritesAreJournaled' /\ Planned'
  BY <1>1 DEF FileInv, SizeInStep, RecordInStep, OverwritesAreJournaled, valid, Planned, Running
<1>7. Whole(disk) => Whole(disk') \/ \E i \in 1 .. valid : records[i].at = Header
  BY <1>2, <1>3, Facts DEF Whole, Filled
<1>8. ASSUME NEW i \in 1 .. restored + 1,
             \A j \in i + 1 .. restored + 1 : records[j].at # records[i].at
      PROVE  disk'[records[i].at] = records[i].value
  <2>1. records[i].at \in Cells
    BY <1>2 DEF Records
  <2>2. CASE i = restored + 1
    BY <2>1, <2>2, <1>2, <1>3
  <2>3. CASE i # restored + 1
    <3>1. i \in 1 .. restored /\ \A j \in i + 1 .. restored : j \in i + 1 .. restored + 1
      BY <2>3, <1>2
    <3>2. disk[records[i].at] = records[i].value
      BY <3>1, <1>1, <1>8 DEF FileInv, RestoreInStep
    <3>3. r.at # records[i].at
      BY <3>1, <1>2, <1>8
    <3>4. QED
      BY <2>1, <3>2, <3>3, <1>3
  <2>4. QED
    BY <2>2, <2>3
<1>9. RestoreInStep'
  BY <1>1, <1>7, <1>8 DEF FileInv, RestoreInStep
<1>10. HeaderInStep'
  <2>1. valid = next_position
    BY <1>1, HeaderReady
  <2>2. QED
    BY <1>1, <1>2, <2>1 DEF HeaderInStep, Writing
<1>11. QED
  BY <1>4, <1>5, <1>6, <1>9, <1>10 DEF FileInv

\* The last of the first n records of a cell.
LastRecord(rs, n, c, i) ==
    i \in 1 .. n /\ rs[i].at = c /\ \A j \in i + 1 .. n : rs[j].at # c

LEMMA ReplayRecords ==
    ASSUME NEW f \in Files, NEW rs \in Seq(Records), NEW n \in 0 .. Len(rs), NEW c \in Cells
    PROVE  LET g == Replay(f, SubSeq(rs, 1, n)) IN
           /\ (\A i \in 1 .. n : rs[i].at # c) => g[c] = f[c]
           /\ (\E i \in 1 .. n : rs[i].at = c) => \E i \in 1 .. n : LastRecord(rs, n, c, i)
           /\ \A i \in 1 .. n : LastRecord(rs, n, c, i) => g[c] = rs[i].value
           /\ DOMAIN g = Cells
<1> DEFINE ws == SubSeq(rs, 1, n)
           g == Replay(f, ws)
<1>1. /\ n \in Nat /\ n <= Len(rs) /\ DOMAIN ws = 1 .. n /\ DOMAIN f = Cells
      /\ \A i \in 1 .. n : ws[i] = rs[i] /\ rs[i] \in Records /\ rs[i] # NoWrite
  BY SubSeqProperties, Facts DEF Files
<1>2. DOMAIN g = Cells
  BY <1>1 DEF Replay
<1> HIDE DEF ws
<1>3. \A i : i \in WritesOf(ws, c) <=> i \in 1 .. n /\ rs[i].at = c
  BY <1>1 DEF WritesOf
<1>4. /\ WritesOf(ws, c) = {} => g[c] = f[c]
      /\ WritesOf(ws, c) # {} => \E i : IsLast(ws, c, i)
      /\ \A i : IsLast(ws, c, i) => g[c] = ws[i].value
  <2>1. n \in Nat /\ DOMAIN ws = 1 .. n /\ c \in DOMAIN f
    BY <1>1
  <2> HIDE DEF g
  <2>2. WritesOf(ws, c) = {} => g[c] = f[c]
    BY <2>1, ReplayAt DEF g
  <2>3. WritesOf(ws, c) # {} => \E i : IsLast(ws, c, i)
    BY <2>1, ReplayAt
  <2>4. \A i : IsLast(ws, c, i) => g[c] = ws[i].value
    BY <2>1, ReplayAt DEF g
  <2>5. QED
    BY <2>2, <2>3, <2>4
<1> HIDE DEF g
<1>5. \A i \in 1 .. n : LastRecord(rs, n, c, i) <=> IsLast(ws, c, i)
  <2> TAKE i \in 1 .. n
  <2>1. ASSUME LastRecord(rs, n, c, i), NEW j \in WritesOf(ws, c) PROVE j <= i
    <3>1. j \in 1 .. n /\ rs[j].at = c
      BY <2>1, <1>3
    <3>2. j \notin i + 1 .. n
      BY <2>1, <3>1 DEF LastRecord
    <3>3. QED
      BY <3>1, <3>2, <1>1
  <2>2. ASSUME IsLast(ws, c, i), NEW j \in i + 1 .. n PROVE rs[j].at # c
    <3>1. j \in 1 .. n /\ ~ (j <= i)
      BY <2>2, <1>1
    <3>2. QED
      BY <3>1, <2>2, <1>3 DEF IsLast
  <2>3. QED
    BY <2>1, <2>2, <1>3 DEF LastRecord, IsLast
<1>6. (\A i \in 1 .. n : rs[i].at # c) => g[c] = f[c]
  BY <1>3, <1>4
<1>7. (\E i \in 1 .. n : rs[i].at = c) => \E i \in 1 .. n : LastRecord(rs, n, c, i)
  BY <1>3, <1>4, <1>5 DEF IsLast
<1>8. \A i \in 1 .. n : LastRecord(rs, n, c, i) => g[c] = rs[i].value
  BY <1>1, <1>4, <1>5
<1>9. QED
  BY <1>2, <1>6, <1>7, <1>8 DEF g, ws

\* After all records are written back, a cell holds its last record.
LEMMA RestoredCell ==
    ASSUME FileInv, pc = "restore", restored = valid, NEW c \in Cells, NEW i \in 1 .. valid,
           LastRecord(records, valid, c, i)
    PROVE  disk[c] = records[i].value
BY DEF FileInv, RestoreInStep, LastRecord

LEMMA RecordValue ==
    ASSUME FileInv, NEW i \in 1 .. valid
    PROVE  /\ i \in 1 .. Len(records) /\ records[i] \in Records /\ records[i].value # NoData
           /\ records[i].at = Header =>
                records[i].value \in Sizes /\ Filled(disk, records[i].value)
BY DEF FileInv, Types, Records, RecordsFilled

\* When all is restored the file is whole, with its records and without them.
LEMMA AllRestoredWhole ==
    ASSUME FileInv, pc = "restore", restored = valid
    PROVE  Whole(disk)
<1>1. CASE \E i \in 1 .. valid : records[i].at = Header
  <2>1. PICK i \in 1 .. valid : LastRecord(records, valid, Header, i)
    BY <1>1, ReplayRecords, Facts DEF FileInv, Types
  <2>2. disk[Header] = records[i].value
    BY <2>1, RestoredCell, Facts
  <2>3. QED
    BY <2>1, <2>2, RecordValue DEF LastRecord, Whole
<1>2. CASE ~ \E i \in 1 .. valid : records[i].at = Header
  BY <1>2 DEF FileInv, RestoreInStep
<1>3. QED
  BY <1>1, <1>2

LEMMA RestoreResetInv ==
    ASSUME HeaderInv, CheckByteTrusted, FileInv,
           RestoreReset \/ (pc = "restore" /\ WriteHeader)
    PROVE  FileInv'
<1>1. pc = "restore" /\ UNCHANGED <<disk, records, sz, pending, todo, pc, restored>>
  BY DEF RestoreReset, WriteHeader, memory
<1>2. /\ Writing' /\ step' # "ready" /\ step' # "crashed"
      /\ next_position' = 0 /\ valid' \in {0, restored} /\ Whole(disk)
  <2>1. CASE RestoreReset
    <3>1. /\ step = "ready" /\ step' = "first" /\ restored = next_position
          /\ next_position' = First /\ valid' = valid
      BY <2>1, HeaderMoves DEF RestoreReset, AllRestored, valid
    <3>2. valid = next_position
      BY <3>1, HeaderReady
    <3>3. Whole(disk)
      BY <1>1, <3>1, <3>2, AllRestoredWhole
    <3>4. QED
      BY <3>1, <3>2, <3>3, ElementsAssumption DEF Writing
  <2>2. CASE WriteHeader
    <3>1. /\ Writing /\ Writing' /\ next_position' = next_position
          /\ valid' \in {valid, next_position}
      BY <2>2, HeaderMoves DEF WriteHeader, valid
    <3>2. next_position = 0 /\ valid \in {0, restored} /\ Whole(disk)
      BY <1>1, <3>1 DEF FileInv, HeaderInStep
    <3>3. QED
      BY <3>1, <3>2 DEF Writing
  <2>3. QED
    BY <2>1, <2>2
<1>3. Types'
  BY <1>1, <1>2 DEF FileInv, Types
<1>4. SizeInStep' /\ RecordInStep' /\ OverwritesAreJournaled' /\ Planned' /\ RecordsFilled'
  BY <1>1 DEF FileInv, SizeInStep, RecordInStep, OverwritesAreJournaled, Planned, Running,
              RecordsFilled
<1>5. RestoreInStep'
  BY <1>1, <1>2 DEF FileInv, RestoreInStep
<1>6. HeaderInStep'
  BY <1>1, <1>2 DEF HeaderInStep
<1>7. QED
  BY <1>3, <1>4, <1>5, <1>6 DEF FileInv

LEMMA RestoreDoneInv ==
    ASSUME HeaderInv, CheckByteTrusted, FileInv, RestoreDone
    PROVE  FileInv'
<1>1. /\ pc = "restore" /\ restored' = 0 /\ pc' = "closed"
      /\ UNCHANGED <<disk, records, sz, pending, todo>>
  BY DEF RestoreDone, memory
<1>2. /\ Writing /\ step' = "ready"
      /\ next_position' = next_position /\ valid' = next_position
  BY HeaderMoves DEF RestoreDone, valid
<1>3. next_position = 0 /\ Whole(disk)
  BY <1>1, <1>2 DEF FileInv, HeaderInStep
<1>4. Types'
  BY <1>1, <1>2, <1>3 DEF FileInv, Types, States
<1>5. SizeInStep' /\ RecordInStep' /\ OverwritesAreJournaled' /\ Planned'
  BY <1>1, <1>3 DEF FileInv, SizeInStep, RecordInStep, OverwritesAreJournaled, Planned, Running
<1>6. RecordsFilled' /\ RestoreInStep' /\ HeaderInStep'
  BY <1>1, <1>2 DEF FileInv, RecordsFilled, RestoreInStep, HeaderInStep, Writing
<1>7. QED
  BY <1>4, <1>5, <1>6 DEF FileInv

LEMMA StutterInv == ASSUME FileInv, UNCHANGED vars PROVE FileInv'
<1>1. /\ UNCHANGED <<disk, records, valid, next_position, step>>
      /\ UNCHANGED <<sz, pending, todo, pc, restored>>
      /\ UNCHANGED ReadNextPosition
  BY DEF vars, journal, headerVars, memory, valid, ReadNextPosition
<1>2. Types' /\ SizeInStep' /\ RecordInStep' /\ OverwritesAreJournaled'
  BY <1>1 DEF FileInv, Types, SizeInStep, RecordInStep, OverwritesAreJournaled,
              OldContents, Covered
<1>3. Planned' /\ RecordsFilled' /\ RestoreInStep' /\ HeaderInStep'
  BY <1>1 DEF FileInv, Planned, RecordsFilled, RestoreInStep, HeaderInStep, Running, Writing
<1>4. QED
  BY <1>2, <1>3 DEF FileInv

-------------------------------------------------------------------------------
(* The two invariants together *)

\* FileArray writes the header as module Journal does; a constructor that finds
\* it finished reads the number that is in memory.
LEMMA HeaderSteps ==
    ASSUME HeaderInv, FileInv, [Next]_vars
    PROVE  [HeaderNext]_headerVars
<1>1. CASE Open
  <2>1. step = "ready" /\ valid = next_position
    BY <1>1, HeaderReady DEF Open
  <2>2. QED
    BY <1>1, <2>1 DEF Open, headerVars, valid
<1>2. CASE JournalCount
  BY <1>2 DEF JournalCount, HeaderNext
<1>3. CASE WriteHeader \/ JournalCounted \/ RestoreDone
  BY <1>3 DEF WriteHeader, JournalCounted, RestoreDone, HeaderNext
<1>4. CASE Crash
  BY <1>4 DEF Crash, HeaderNext
<1>5. CASE RestoreBegin
  BY <1>5 DEF RestoreBegin, HeaderNext
<1>6. CASE RestoreReset
  BY <1>6, PositionsAssumption DEF RestoreReset, HeaderNext
<1>7. CASE Called
  BY <1>7 DEF Called, PopBackOp, PushBackOp, WriteElementOp, Start, journal
<1>8. CASE Close \/ Write \/ JournalRecord \/ BufferData \/ Flush \/ RestoreRecord
  BY <1>8 DEF Close, Write, JournalRecord, BufferData, Flush, RestoreRecord, journal
<1>9. CASE UNCHANGED vars
  BY <1>9 DEF vars, journal
<1>10. QED
  BY <1>1, <1>2, <1>3, <1>4, <1>5, <1>6, <1>7, <1>8, <1>9 DEF Next, Called

Inv == HeaderInv /\ FileInv

LEMMA WriteHeaderAt ==
    ASSUME HeaderInv, CheckByteTrusted, FileInv, WriteHeader
    PROVE  pc \in {"count", "restore"}
BY HeaderMoves DEF FileInv, HeaderInStep, WriteHeader

LEMMA StepInv == ASSUME CheckByteTrusted, Inv, [Next]_vars PROVE Inv'
<1>1. HeaderInv'
  BY HeaderSteps, HeaderStepInv DEF Inv
<1>2. FileInv'
  BY StutterInv, OperationInv, WriteInv, JournalRecordInv, JournalCountInv, JournalCountedInv,
     BufferDataInv, FlushInv, OpenInv, CrashInv, RestoreBeginInv, RestoreRecordInv,
     RestoreResetInv, RestoreDoneInv, WriteHeaderAt DEF Next, Called, Inv
<1>3. QED
  BY <1>1, <1>2 DEF Inv

LEMMA InitBoth == Init => Inv
BY InitInv, HeaderInitInv DEF Inv, Init

LEMMA InvAlways == ASSUME CheckByteTrusted PROVE Spec => []Inv
BY InitBoth, StepInv, PTL DEF Spec

-------------------------------------------------------------------------------
\* FileArray writes the header by the protocol of module Journal.
THEOREM HeaderProtocol ==
    ASSUME CheckByteTrusted
    PROVE  Spec => HeaderSpec
<1>1. Init => HeaderInit
  BY DEF Init
<1>2. Inv /\ [Next]_vars => [HeaderNext]_headerVars
  BY HeaderSteps DEF Inv
<1>3. QED
  BY <1>1, <1>2, InvAlways, PTL DEF Spec, HeaderSpec

\* The file, the journal, its header and the members of a FileArray keep their
\* types.
THEOREM TypeCorrect ==
    ASSUME CheckByteTrusted
    PROVE  Spec => []TypeOK
<1>1. Inv => TypeOK
  BY DEF Inv, HeaderInv, FileInv, Types, Files, Contents, Records, Planned, Whole, TypeOK,
         States, valid
<1>2. QED
  BY <1>1, InvAlways, PTL

\* Write-ahead: whatever is in the stream's buffer, and so may reach the file at
\* any moment, is an append or has its old contents in the last valid record.
THEOREM WriteAhead ==
    ASSUME CheckByteTrusted
    PROVE  Spec => []OverwritesAreJournaled
<1>1. Inv => OverwritesAreJournaled
  BY DEF Inv, FileInv
<1>2. QED
  BY <1>1, InvAlways, PTL

LEMMA GoalIs == Goal = Replay(disk, SubSeq(records, 1, valid))
BY DEF Goal, ValidRecords, valid

\* Whenever the program crashes, even in the middle of a write, what a restore
\* makes of the file has a size that was written whole, and elements below it.
THEOREM RestoreMakesVector ==
    ASSUME CheckByteTrusted
    PROVE  Spec => []RestoreGivesVector
<1>1. ASSUME FileInv PROVE RestoreGivesVector
  <2>1. disk \in Files /\ records \in Seq(Records) /\ valid \in 0 .. Len(records)
    BY <1>1 DEF FileInv, Types
  <2>2. \A c \in Cells : disk[c] # NoData => Goal[c] # NoData
    BY <1>1, <2>1, ReplayRecords, RecordValue, GoalIs
  <2>3. Goal[Header] \in Sizes /\ Filled(disk, Goal[Header])
    <3>1. CASE \E i \in 1 .. valid : records[i].at = Header
      <4>1. PICK i \in 1 .. valid : LastRecord(records, valid, Header, i)
        BY <3>1, <2>1, ReplayRecords, Facts
      <4>2. Goal[Header] = records[i].value
        BY <4>1, <2>1, ReplayRecords, Facts, GoalIs
      <4>3. QED
        BY <4>1, <4>2, <1>1, RecordValue DEF LastRecord
    <3>2. CASE ~ \E i \in 1 .. valid : records[i].at = Header
      <4>1. Whole(disk)
        BY <3>2, <1>1 DEF FileInv, Planned, RestoreInStep, Running
      <4>2. Goal[Header] = disk[Header]
        BY <3>2, <2>1, ReplayRecords, Facts, GoalIs
      <4>3. QED
        BY <4>1, <4>2 DEF Whole
    <3>3. QED
      BY <3>1, <3>2
  <2>4. QED
    BY <2>2, <2>3, Facts DEF RestoreGivesVector, Filled
<1>2. QED
  BY <1>1, InvAlways, PTL DEF Inv

\* When all records are written back, a restore has reached its goal.
LEMMA GoalReached ==
    ASSUME FileInv, pc = "restore", restored = valid
    PROVE  Goal = disk
<1>1. disk \in Files /\ records \in Seq(Records) /\ valid \in 0 .. Len(records)
  BY DEF FileInv, Types
<1>2. \A c \in Cells : Goal[c] = disk[c]
  <2> TAKE c \in Cells
  <2>1. CASE \E i \in 1 .. valid : records[i].at = c
    <3>1. PICK i \in 1 .. valid : LastRecord(records, valid, c, i)
      BY <2>1, <1>1, ReplayRecords
    <3>2. disk[c] = records[i].value
      BY <3>1, RestoredCell
    <3>3. QED
      BY <3>1, <3>2, <1>1, ReplayRecords, GoalIs
  <2>2. CASE ~ \E i \in 1 .. valid : records[i].at = c
    BY <2>2, <1>1, ReplayRecords, GoalIs
  <2>3. QED
    BY <2>1, <2>2
<1>3. Goal = [c \in Cells |-> disk[c]]
  <2>1. DOMAIN Goal = Cells /\ Goal = [c \in DOMAIN Goal |-> Goal[c]]
    BY <1>1, GoalIs DEF Replay, Files
  <2>2. QED
    BY <2>1, <1>2
<1>4. QED
  BY <1>1, <1>3 DEF Files

\* A restore that is cut short, even in the middle of a write to the file or to
\* the header, and begun again ends with the file the first one would have made.
THEOREM RestoreAgain ==
    ASSUME CheckByteTrusted
    PROVE  Spec => RestoreKeepsGoal
<1>1. ASSUME Inv, Inv', [Next]_vars, pc = "restore" PROVE Goal' = Goal
  <2>1. disk \in Files /\ records \in Seq(Records) /\ valid \in 0 .. Len(records)
    BY <1>1 DEF Inv, FileInv, Types
  <2>2. disk' \in Files /\ HeaderInv /\ FileInv /\ FileInv'
    BY <1>1 DEF Inv, FileInv, Types
  <2>3. ASSUME records' = records, valid' = valid,
               \A c \in Cells : disk'[c] # disk[c] => \E i \in 1 .. valid : records[i].at = c
        PROVE  Goal' = Goal
    <3>1. Goal' = Replay(disk', SubSeq(records, 1, valid))
      BY <2>3 DEF Goal, ValidRecords, valid
    <3>2. \A c \in Cells : Goal'[c] = Goal[c]
      BY <3>1, <2>1, <2>2, <2>3, ReplayRecords, GoalIs
    <3>3. DOMAIN Goal = Cells /\ DOMAIN Goal' = Cells
      BY <3>1, <2>1, <2>2, GoalIs DEF Replay, Files
    <3>4. Goal = [c \in DOMAIN Goal |-> Goal[c]] /\ Goal' = [c \in DOMAIN Goal' |-> Goal'[c]]
      BY <3>1, GoalIs DEF Replay
    <3>5. QED
      BY <3>2, <3>3, <3>4
  <2>4. pending = NoWrite
    BY <1>1, <2>2 DEF FileInv, RecordInStep
  <2>5. CASE Crash
    <3>1. records' = records /\ valid' = valid
      BY <2>5, <2>2, HeaderMoves DEF Crash, valid
    <3>2. QED
      BY <3>1, <2>2, <2>3, <2>5, <1>1, CrashWrites
  <2>6. CASE RestoreBegin
    <3>1. records' = records /\ valid' = valid /\ disk' = disk
      BY <2>6, <2>2, HeaderMoves DEF RestoreBegin, valid
    <3>2. QED
      BY <3>1, <2>3
  <2>7. CASE RestoreRecord
    <3>1. records' = records /\ valid' = valid /\ disk' = Apply(disk, NextRecord)
      BY <2>7 DEF RestoreRecord, journal, headerVars, valid, ReadNextPosition
    <3>2. restored + 1 \in 1 .. valid /\ NextRecord = records[restored + 1]
      BY <2>7, <2>2, HeaderReady DEF RestoreRecord, RecordsLeft, FileInv, Types, NextRecord
    <3>3. NextRecord \in Records
      BY <3>2, <2>2, RecordValue
    <3>4. \A c \in Cells : disk'[c] # disk[c] => NextRecord.at = c
      BY <3>1, <3>3, <2>1, ApplyType
    <3>5. QED
      BY <3>1, <3>2, <3>4, <2>3
  <2>8. CASE RestoreReset
    <3>1. records' = records /\ valid' = valid /\ disk' = disk
      BY <2>8, <2>2, HeaderMoves DEF RestoreReset, valid
    <3>2. QED
      BY <3>1, <2>3
  <2>9. CASE WriteHeader \/ RestoreDone
    <3>1. records' = records /\ disk' = disk
      BY <2>9 DEF WriteHeader, RestoreDone, memory
    <3>2. Writing /\ valid' \in {valid, next_position}
      BY <2>9, <2>2, HeaderMoves DEF WriteHeader, RestoreDone, valid
    <3>3. next_position = 0 /\ valid \in {0, restored}
      BY <3>2, <2>2, <1>1 DEF FileInv, HeaderInStep
    <3>4. CASE valid' = valid
      BY <3>1, <3>4, <2>3
    <3>5. CASE valid' = 0 /\ valid = restored
      <4>1. Goal = disk
        BY <3>5, <2>2, <1>1, GoalReached
      <4>2. Goal' = disk'
        <5>1. SubSeq(records', 1, 0) = <<>>
          BY <2>1, <3>1 DEF SubSeq
        <5>2. Goal' = Replay(disk', SubSeq(records', 1, valid'))
          BY DEF Goal, ValidRecords, valid
        <5>3. QED
          BY <5>1, <5>2, <3>5, <2>2, ReplayNone
      <4>3. QED
        BY <4>1, <4>2, <3>1
    <3>6. QED
      BY <3>2, <3>3, <3>4, <3>5
  <2>10. CASE UNCHANGED vars
    BY <2>10 DEF vars, journal, headerVars, ReadNextPosition, Goal, ValidRecords
  <2>11. QED
    BY <1>1, <2>4, <2>5, <2>6, <2>7, <2>8, <2>9, <2>10
       DEF Next, Close, Open, PushBackOp, WriteElementOp, PopBackOp, Start, Write,
           JournalRecord, JournalCount, JournalCounted, BufferData, Flush
<1>2. QED
  BY <1>1, InvAlways, PTL DEF Spec, RestoreKeepsGoal

-------------------------------------------------------------------------------
(* The vector in the file, and the operations that the writes make of it. *)

\* A sound write makes an operation, or is the first of a pushBack.
LEMMA SoundStep ==
    ASSUME NEW f \in Files, Whole(f), NEW w, Sound(f, w)
    PROVE  IF Appends(f, w) THEN Vector(Apply(f, w)) = Vector(f)
           ELSE Operation(Vector(f), Vector(Apply(f, w)))
<1> DEFINE g == Apply(f, w)
           n == f[Header]
           u == Vector(f)
           v == Vector(g)
<1>1. /\ w \in Writes /\ g \in Files
      /\ \A c \in Cells : g[c] = IF w.at = c THEN w.value ELSE f[c]
      /\ g[Header] = IF w.at = Header THEN w.value ELSE n
  BY SoundApply, ApplyType
<1>2. n \in Nat /\ n <= MaxSize /\ \A i \in 1 .. n : i - 1 \in Cells
  <2>1. n \in Nat /\ n <= MaxSize /\ \A i \in 0 .. n - 1 : i \in Cells
    BY Facts DEF Whole
  <2> HIDE DEF n
  <2>2. QED
    BY <2>1
<1>3. /\ u = [i \in 1 .. n |-> f[i - 1]] /\ Len(u) = n
      /\ v = [i \in 1 .. g[Header] |-> g[i - 1]]
  BY <1>2 DEF Vector
<1> HIDE DEF g, n, u, v
<1>4. CASE Appends(f, w)
  <2>1. w.at = n /\ w.at # Header
    BY <1>2, <1>4, Facts DEF Appends, n
  <2>2. \A i \in 1 .. n : g[i - 1] = f[i - 1]
    BY <2>1, <1>1, <1>2
  <2>3. v = u
    BY <2>1, <2>2, <1>1, <1>3
  <2>4. QED
    BY <2>3, <1>4 DEF u, v, g
<1>5. CASE w.at = Header /\ n > 0 /\ w.value = n - 1
  <2>1. \A i \in 1 .. n - 1 : g[i - 1] = f[i - 1]
    BY <1>1, <1>2, <1>5, Facts
  <2>2. v = [i \in 1 .. n - 1 |-> f[i - 1]]
    BY <2>1, <1>1, <1>3, <1>5
  <2>3. SubSeq(u, 1, n - 1) = [i \in 1 .. n - 1 |-> f[i - 1]]
    BY <1>2, <1>3, <1>5 DEF SubSeq
  <2>4. v = PopBack(u)
    BY <2>2, <2>3, <1>3 DEF PopBack
  <2>5. ~Appends(f, w)
    BY <1>5, <1>2, Facts DEF Appends, n
  <2>6. QED
    BY <2>4, <2>5, <1>3, <1>5 DEF Operation, u, v, g
<1>6. CASE w.at = Header /\ n < MaxSize /\ w.value = n + 1 /\ f[n] \in Elements
  <2>1. \A i \in 1 .. n + 1 : i - 1 \in Cells /\ i - 1 # Header
    BY <1>2, <1>6, Facts DEF Header
  <2>2. \A i \in 1 .. n + 1 : g[i - 1] = f[i - 1]
    BY <2>1, <1>1, <1>6
  <2>3. v = [i \in 1 .. n + 1 |-> f[i - 1]]
    BY <2>2, <1>1, <1>3, <1>6
  <2>4. Append(u, f[n]) = [i \in 1 .. n + 1 |-> f[i - 1]]
    BY <1>2, <1>3 DEF Append
  <2>5. v = PushBack(u, f[n])
    BY <2>3, <2>4 DEF PushBack
  <2>6. ~Appends(f, w)
    BY <1>6, <1>2, Facts DEF Appends, n
  <2>7. QED
    BY <2>5, <2>6, <1>6 DEF Operation, u, v, g
<1>7. CASE w.at \in 0 .. n - 1
  <2>1. w.at # Header /\ w.at # n /\ w.value \in Elements /\ w.at + 1 \in 1 .. n
    BY <1>1, <1>2, <1>7, Facts DEF Writes, Header
  <2>2. \A i \in 1 .. n : g[i - 1] = IF i = w.at + 1 THEN w.value ELSE f[i - 1]
    BY <1>1, <1>2, <1>7
  <2>3. v = [i \in 1 .. n |-> IF i = w.at + 1 THEN w.value ELSE f[i - 1]]
    BY <2>1, <2>2, <1>1, <1>3
  <2>4. [u EXCEPT ![w.at + 1] = w.value]
            = [i \in 1 .. n |-> IF i = w.at + 1 THEN w.value ELSE f[i - 1]]
    BY <1>3
  <2>5. v = WriteElement(u, w.value, w.at)
    BY <2>1, <2>3, <2>4, <1>3 DEF WriteElement
  <2>6. ~Appends(f, w)
    BY <2>1 DEF Appends, n
  <2>7. w.at \in 0 .. Len(u)
    BY <1>2, <1>3, <1>7
  <2>8. QED
    BY <2>1, <2>5, <2>6, <2>7 DEF Operation, u, v, g
<1>8. QED
  BY <1>4, <1>5, <1>6, <1>7 DEF Sound, n

\* All writes of an operation make the operation.
LEMMA PlanMakesOperation ==
    ASSUME NEW f \in Files, Whole(f), NEW ws \in Seq(Writes), ws # <<>>,
           Plan(f, Head(ws), Tail(ws)), ~Appends(f, Head(ws)) \/ Tail(ws) # <<>>
    PROVE  Operation(Vector(f), Vector(Replay(f, ws)))
<1> DEFINE w == Head(ws)
           rest == Tail(ws)
           g == Apply(f, w)
<1>1. Sound(f, w) /\ rest \in Seq(Writes) /\ (rest = <<>> \/ Appends(f, w))
  BY HeadTailProperties DEF Plan
<1>2. /\ w \in Records /\ w # NoWrite /\ g \in Files /\ Whole(g)
      /\ g[Header] = IF w.at = Header THEN w.value ELSE f[Header]
  BY <1>1, SoundApply
<1>3. Replay(f, ws) = Replay(g, rest)
  BY <1>2, ReplayFirst
<1>4. CASE rest = <<>>
  <2>1. Replay(g, rest) = g
    BY <1>2, <1>4, ReplayNone
  <2>2. QED
    BY <2>1, <1>1, <1>3, <1>4, SoundStep
<1>5. CASE rest # <<>>
  <2> DEFINE v == At(Header, f[Header] + 1)
  <2>1. Appends(f, w) /\ rest = <<v>>
    BY <1>5 DEF Plan
  <2> HIDE DEF rest
  <2>2. Head(rest) = v /\ Tail(rest) = <<>>
    BY <2>1
  <2>3. f[Header] \in Nat /\ f[Header] \in Cells /\ w.at = f[Header] /\ w.at # Header
    BY <2>1, Facts DEF Appends, Whole, Sizes
  <2>4. g[Header] = f[Header] /\ g[f[Header]] \in Elements
    BY <2>3, <1>1, <1>2, ApplyType DEF Sound, Writes
  <2>5. v \in Writes /\ v.at = Header /\ v.value = f[Header] + 1
    BY <1>1, <2>1, HeadTailProperties, Facts, <2>3 DEF Writes, At, Appends, Sizes
  <2> HIDE DEF v, g, w
  <2>6. Sound(g, v) /\ ~Appends(g, v)
    BY <2>1, <2>3, <2>4, <2>5 DEF Sound, Appends
  <2>7. Vector(g) = Vector(f)
    BY <1>1, <2>1, SoundStep DEF g
  <2>8. Operation(Vector(g), Vector(Apply(g, v)))
    BY <2>6, <1>2, SoundStep
  <2>9. Apply(g, v) \in Files
    BY <2>6, <1>2, SoundApply
  <2>10. Replay(g, rest) = Replay(Apply(g, v), <<>>)
    BY <2>2, <2>9, <1>1, <1>2, <1>5, ReplayFirst
  <2>11. Replay(g, rest) = Apply(g, v)
    BY <2>9, <2>10, ReplayNone
  <2>12. QED
    BY <2>7, <2>8, <2>11, <1>3
<1>6. QED
  BY <1>4, <1>5

\* The file implements the vector: every call promises one operation, and the
\* file makes the operations one at a time, wherever the stream flushes.
THEOREM VectorOperations ==
    ASSUME CheckByteTrusted
    PROVE  Spec => FileStepsThroughOperations
<1> DEFINE promised == Vector(Promised)
           durable == Vector(disk)
           g == Apply(disk, pending)
           Step == \/ promised' = promised /\ durable' = durable
                   \/ promised' = promised /\ Operation(durable, durable')
                   \/ durable' = durable /\ Operation(promised, promised')
<1>1. ASSUME FileInv, [Next]_vars, Running, Running' PROVE Step
  <2>1. /\ disk \in Files /\ Whole(disk) /\ g \in Files /\ Whole(g)
        /\ todo \in Seq(Writes)
        /\ pending # NoWrite => Sound(disk, pending)
    BY <1>1, Flushed DEF FileInv, Types, Planned
  <2>2. CASE UNCHANGED <<disk, pending, todo>>
    BY <2>2 DEF Promised, After
  <2>3. ASSUME disk' = g, pending' = NoWrite, todo' = todo PROVE Step
    <3>1. promised' = promised
      BY <2>3, ApplyNothing DEF Promised, After
    <3>2. durable' = durable \/ Operation(durable, durable')
      BY <2>1, <2>3, SoundStep, ApplyNothing
    <3>3. QED
      BY <3>1, <3>2
  <2>4. CASE BufferData
    <3>1. /\ disk' = disk /\ pending' = Head(todo) /\ todo' = Tail(todo)
          /\ todo # <<>> /\ pending = NoWrite
      BY <2>4, <1>1 DEF BufferData, FileInv, SizeInStep, RecordInStep
    <3>2. Apply(disk, Head(todo)) \in Files
      BY <3>1, <2>1, <1>1, ApplyNothing, SoundApply DEF FileInv, Planned, Plan
    <3>3. Replay(disk, todo) = Replay(Apply(disk, Head(todo)), Tail(todo))
      BY <3>1, <3>2, <2>1, ReplayFirst
    <3>4. promised' = promised
      BY <3>1, <3>3, ApplyNothing DEF Promised, After
    <3>5. QED
      BY <3>1, <3>4
  <2>5. ASSUME NEW ws \in Seq(Writes), Start(ws), ws # <<>>,
               Plan(g, Head(ws), Tail(ws)), ~Appends(g, Head(ws)) \/ Tail(ws) # <<>>
        PROVE  Step
    <3>1. disk' = disk /\ pending' = pending /\ todo = <<>> /\ todo' = ws
      BY <2>5 DEF Start
    <3>2. Operation(Vector(g), Vector(Replay(g, ws)))
      BY <2>1, <2>5, PlanMakesOperation
    <3>3. Promised = g
      BY <3>1, <2>1, ReplayNone DEF Promised, After
    <3>4. Promised' = Replay(g, ws)
      BY <3>1 DEF Promised, After
    <3>5. QED
      BY <3>1, <3>2, <3>3, <3>4
  <2>6. CASE Called
    <3>1. pc = "ready" /\ g[Header] = sz /\ sz \in Nat
      BY <2>6, <1>1, Flushed DEF Called, PopBackOp, PushBackOp, WriteElementOp, Start
    <3>2. ASSUME NEW e \in Elements, PushBackOp(e) PROVE Step
      <4>1. sz < MaxSize /\ Start(ElementThenSize(e))
        BY <3>2 DEF PushBackOp
      <4>2. ElementThenSize(e) \in Seq(Writes) /\ Plan(g, At(sz, e), <<At(Header, sz + 1)>>)
        BY <4>1, <3>1, <1>1, OperationWrites
      <4>3. /\ Head(ElementThenSize(e)) = At(sz, e) /\ ElementThenSize(e) # <<>>
            /\ Tail(ElementThenSize(e)) = <<At(Header, sz + 1)>>
            /\ <<At(Header, sz + 1)>> # <<>>
        BY DEF ElementThenSize
      <4> HIDE DEF Step, g
      <4>4. QED
        BY <4>1, <4>2, <4>3, <2>5
    <3>3. ASSUME NEW w, Start(<<w>>), Plan(g, w, <<>>), w.at # sz PROVE Step
      <4>1. <<w>> \in Seq(Writes) /\ ~Appends(g, w)
        BY <3>1, <3>3 DEF Plan, Sound, Appends
      <4>2. Head(<<w>>) = w /\ Tail(<<w>>) = <<>> /\ <<w>> # <<>>
        OBVIOUS
      <4> HIDE DEF Step, g
      <4>3. QED
        BY <4>1, <4>2, <3>3, <2>5
    <3>4. ASSUME NEW e \in Elements, NEW i \in 0 .. sz, WriteElementOp(e, i) PROVE Step
      <4>1. CASE i = sz
        BY <4>1, <3>2, <3>4 DEF WriteElementOp
      <4>2. CASE i # sz
        <5>1. i \in 0 .. sz - 1 /\ Start(<<At(i, e)>>) /\ At(i, e).at # sz
          BY <4>2, <3>1, <3>4 DEF WriteElementOp, At
        <5>2. Plan(g, At(i, e), <<>>)
          BY <5>1, <3>1, <1>1, OperationWrites
        <5> HIDE DEF Step, g
        <5>3. QED
          BY <5>1, <5>2, <3>3
      <4>3. QED
        BY <4>1, <4>2
    <3>5. CASE PopBackOp
      <4>1. sz > 0 /\ Start(<<At(Header, sz - 1)>>) /\ At(Header, sz - 1).at # sz
        BY <3>1, <3>5 DEF PopBackOp, At, Header
      <4>2. Plan(g, At(Header, sz - 1), <<>>)
        BY <4>1, <3>1, <1>1, OperationWrites
      <4> HIDE DEF Step, g
      <4>3. QED
        BY <4>1, <4>2, <3>3
    <3>6. QED
      BY <2>6, <3>2, <3>4, <3>5 DEF Called
  <2>7. CASE UNCHANGED vars
    BY <2>7, <2>2 DEF vars, memory
  <2> HIDE DEF Step
  <2>8. CASE Close \/ Write \/ Flush
    BY <2>8, <2>3 DEF Close, Write, Flush
  <2>9. CASE Open \/ JournalRecord \/ JournalCount \/ WriteHeader \/ JournalCounted
    BY <2>9, <2>2 DEF Open, JournalRecord, JournalCount, WriteHeader, JournalCounted, memory
  <2>10. ~Crash /\ ~RestoreBegin /\ ~RestoreRecord /\ ~RestoreReset /\ ~RestoreDone
    BY <1>1 DEF Running, Crash, RestoreBegin, RestoreRecord, RestoreReset, RestoreDone
  <2>11. QED
    BY <1>1, <2>4, <2>6, <2>7, <2>8, <2>9, <2>10 DEF Next, Called
<1>2. QED
  BY <1>1, InvAlways, PTL DEF Spec, FileStepsThroughOperations, Inv

===============================================================================
