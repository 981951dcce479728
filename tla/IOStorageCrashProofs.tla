------------------------- MODULE IOStorageCrashProofs --------------------------
(***************************************************************************)
(* Proofs about module IOStorageCrash, for any blocks, any number of ids,  *)
(* of operations and of crashes.                                           *)
(***************************************************************************)
EXTENDS IOStorageCrash, SequenceTheorems, WellFoundedInduction, TLAPS

\* What each file holds, and what is written to it or brought back by a record.
Sizes == 0 .. MaxId

ElementsOf(f) ==
    IF f = "storage" THEN Blocks ELSE IF f = "stack" THEN Ids ELSE Ids \cup {NoPos}

Anything == Blocks \cup Int \cup {NoData}

FilesOf(f) ==
    {g \in [Cells -> Anything] :
        /\ g[Header] \in Sizes
        /\ \A c \in Ids : g[c] \in ElementsOf(f) \cup {NoData}}

WritesTo(f) ==
    {w \in [at : Cells, value : Anything] :
        w.value \in IF w.at = Header THEN Sizes ELSE ElementsOf(f)}

Filled(g, size) == \A i \in 0 .. size - 1 : g[i] # NoData

\* The writes of ws that go to file f.
TasksOf(ws, f) == {i \in DOMAIN ws : ws[i][1] = f}

HasTask(ws, f, cell) == \E i \in TasksOf(ws, f) : ws[i][2].at = cell

\* What an operation has still to write to a file that holds g once its buffer
\* is empty: each cell once, the size last, elements up to that size, and behind
\* the size of g only an element which the size will take in.
PlannedFor(g, ws, f) ==
    \A i \in TasksOf(ws, f) :
        LET w == ws[i][2] IN
        /\ w \in WritesTo(f)
        /\ \A j \in TasksOf(ws, f) : j # i => ws[j][2].at # w.at
        /\ w.at = Header =>
            /\ \A j \in TasksOf(ws, f) : j <= i
            /\ \A c \in 0 .. w.value - 1 : g[c] # NoData \/ HasTask(ws, f, c)
            /\ f = "storage" => w.value >= g[Header]
        /\ w.at # Header =>
            \/ w.at < g[Header]
            \/ w.at = g[Header] /\ HasTask(ws, f, Header)

HasRecord(rs, cell) == \E i \in DOMAIN rs : rs[i].at = cell

Flushed(f) == Apply(disk[f], pending[f])

\* A write in the buffer is an append or has its old contents in the last record.
BufferedFor(f) ==
    LET w == pending[f] IN
    /\ w.at = Header =>
        /\ TasksOf(todo, f) = {} /\ Filled(disk[f], w.value)
        /\ f = "storage" => w.value >= disk[f][Header]
    /\ w.at = disk[f][Header] => HasTask(todo, f, Header)
    /\ w.at # disk[f][Header] =>
        /\ records[f] # <<>>
        /\ records[f][Len(records[f])] = At(w.at, disk[f][w.at])

TypesOf(f) ==
    /\ disk[f] \in FilesOf(f)
    /\ records[f] \in Seq(WritesTo(f))
    /\ pending[f] \in WritesTo(f) \cup {NoWrite}

FileInv(f) ==
    /\ TypesOf(f)
    /\ Filled(disk[f], disk[f][Header])
    /\ \A i \in DOMAIN records[f] :
            records[f][i].at = Header => Filled(disk[f], records[f][i].value)
    /\ PlannedFor(Flushed(f), todo, f)
    /\ pending[f] # NoWrite => BufferedFor(f)

\* In the first operation no cell has a record that will be written again, and
\* what a restore makes of the file is what it was before.
FirstFor(f) ==
    /\ ops = 0 => records[f] = <<>>
    /\ ops <= 1 =>
        /\ \A c \in Cells : HasTask(todo, f, c) => ~ HasRecord(records[f], c)
        /\ Vector(Undone(f)) = before[f]

Tasks == Files \X [at : Int, value : Anything]

Types ==
    /\ DOMAIN disk = Files /\ disk = [f \in Files |-> disk[f]]
    /\ DOMAIN records = Files /\ records = [f \in Files |-> records[f]]
    /\ DOMAIN pending = Files /\ pending = [f \in Files |-> pending[f]]
    /\ before = [f \in Files |-> before[f]]
    /\ todo \in Seq(Tasks)
    /\ pc \in 0 .. Len(FilesInOrder) + 1
    /\ replace = NoInsert \/ replace \in Ids \X Blocks
    /\ ops \in Nat /\ crashes \in Nat

\* A restore finds empty buffers and leaves empty journals behind.
Stages ==
    /\ ops = 0 => todo = <<>> /\ pending = ForAll(NoWrite)
    /\ pc # 0 =>
        /\ todo = <<>> /\ pending = ForAll(NoWrite) /\ replace = NoInsert
        /\ \A i \in 1 .. pc - 1 : records[FilesInOrder[i]] = <<>>

\* The size that a restore gives the storage file.
OldSize == Undone("storage")[Header]

Within(size, w) == w.at # Header /\ w.value # NoData => w.value <= size

\* Whatever a crash brings back, a position in the stack or the table is in the
\* storage file or right behind it: an insert finds it a place.
PositionsFor(f) ==
    /\ \A c \in Ids : Within(OldSize, At(c, disk[f][c]))
    /\ Within(OldSize, pending[f])
    /\ \A i \in DOMAIN records[f] : Within(OldSize, records[f][i])
    /\ \A i \in TasksOf(todo, f) :
        \/ Within(OldSize, todo[i][2])
        \/ /\ todo[i][2].value <= Flushed("storage")[Header]
           /\ \E j \in TasksOf(todo, "storage") : j < i /\ todo[j][2].at = Header

PositionsWithin ==
    /\ OldSize <= disk["storage"][Header]
    /\ PositionsFor("stack") /\ PositionsFor("table")

\* The id of a replacement is erased when its insert comes.
ReplaceInStep ==
    replace # NoInsert =>
        /\ replace[1] < Promised["table"][Header]
        /\ Promised["table"][replace[1]] = NoPos

Inv ==
    /\ Types /\ \A f \in Files : FileInv(f) /\ FirstFor(f)
    /\ Stages /\ PositionsWithin /\ ReplaceInStep

-------------------------------------------------------------------------------
(* Cells, values and single writes. *)

LEMMA Facts ==
    /\ Header \in Cells /\ Header \notin Ids /\ Header \notin Nat /\ MaxId \in Nat
    /\ \A c \in Cells : c = Header \/ c \in Ids
    /\ \A c \in Ids : c \in Cells /\ c \in Nat /\ c < MaxId
    /\ \A s \in Sizes : s \in Nat /\ s <= MaxId /\ \A c \in 0 .. s - 1 : c \in Ids
    /\ NoData \notin Int /\ NoData \notin Blocks
    /\ \A f : ElementsOf(f) \subseteq Anything /\ NoData \notin ElementsOf(f)
BY BoundsAssumption DEF Header, Cells, Ids, Sizes, ElementsOf, Anything, NoPos

LEMMA WriteFacts ==
    ASSUME NEW f, NEW w \in WritesTo(f)
    PROVE  /\ w # NoWrite /\ w.at \in Cells /\ w.value # NoData /\ w.value \in Anything
           /\ w.at = Header => w.value \in Sizes
           /\ w.at # Header => w.at \in Ids /\ w.value \in ElementsOf(f)
           /\ w = At(w.at, w.value)
<1>1. /\ w \in [at : Cells, value : Anything]
      /\ w.value \in IF w.at = Header THEN Sizes ELSE ElementsOf(f)
  BY DEF WritesTo
<1>2. w.at = Header => w.value \in Sizes /\ w.value # NoData
  BY <1>1, Facts
<1>3. w.at # Header => w.at \in Ids /\ w.value \in ElementsOf(f) /\ w.value # NoData
  BY <1>1, Facts
<1>4. w = At(w.at, w.value)
  BY <1>1 DEF At
<1>5. w # NoWrite
  BY <1>2, <1>3 DEF NoWrite, At
<1>6. QED
  BY <1>1, <1>2, <1>3, <1>4, <1>5

LEMMA FileFacts ==
    ASSUME NEW f, NEW g \in FilesOf(f)
    PROVE  /\ DOMAIN g = Cells /\ g = [c \in Cells |-> g[c]]
           /\ g[Header] \in Sizes /\ g[Header] \in Nat /\ g[Header] <= MaxId
           /\ \A c \in Ids : g[c] # NoData => g[c] \in ElementsOf(f)
           /\ \A c \in Cells : g[c] # NoData => At(c, g[c]) \in WritesTo(f)
<1>1. g \in [Cells -> Anything] /\ g[Header] \in Sizes
      /\ \A c \in Ids : g[c] \in ElementsOf(f) \cup {NoData}
  BY DEF FilesOf
<1>2. ASSUME NEW c \in Cells, g[c] # NoData PROVE At(c, g[c]) \in WritesTo(f)
  <2>1. At(c, g[c]) \in [at : Cells, value : Anything] /\ At(c, g[c]).at = c
        /\ At(c, g[c]).value = g[c]
    BY <1>1 DEF At
  <2>2. c # Header => g[c] \in ElementsOf(f)
    BY <1>1, <1>2, Facts
  <2>3. QED
    BY <1>1, <2>1, <2>2 DEF WritesTo
<1>3. QED
  BY <1>1, <1>2, Facts

\* A file is given by its cells.
LEMMA IsFile ==
    ASSUME NEW f, NEW g, g = [c \in Cells |-> g[c]], g[Header] \in Sizes,
           \A c \in Ids : g[c] \in ElementsOf(f) \cup {NoData}
    PROVE  g \in FilesOf(f)
<1>1. \A c \in Cells : g[c] \in Anything
  BY Facts DEF Anything, Sizes
<1>2. g \in [Cells -> Anything]
  BY <1>1
<1>3. QED
  BY <1>2 DEF FilesOf

LEMMA ApplyNothing == \A g : Apply(g, NoWrite) = g
BY DEF Apply

LEMMA ApplyCells ==
    ASSUME NEW f, NEW g \in FilesOf(f), NEW w \in WritesTo(f)
    PROVE  /\ Apply(g, w) = [g EXCEPT ![w.at] = w.value]
           /\ Apply(g, w) \in FilesOf(f)
           /\ \A c \in Cells : Apply(g, w)[c] = IF w.at = c THEN w.value ELSE g[c]
           /\ \A c \in Cells : g[c] # NoData => Apply(g, w)[c] # NoData
<1> DEFINE h == [g EXCEPT ![w.at] = w.value]
<1>1. Apply(g, w) = h
  BY WriteFacts DEF Apply
<1>2. /\ h = [c \in Cells |-> h[c]]
      /\ \A c \in Cells : h[c] = IF w.at = c THEN w.value ELSE g[c]
  BY FileFacts, WriteFacts
<1> HIDE DEF h
<1>3. h[Header] \in Sizes
  BY <1>2, FileFacts, WriteFacts, Facts
<1>4. \A c \in Ids : h[c] \in ElementsOf(f) \cup {NoData}
  BY <1>2, FileFacts, WriteFacts, Facts
<1>5. h \in FilesOf(f)
  BY <1>2, <1>3, <1>4, IsFile
<1>6. QED
  BY <1>1, <1>2, <1>5, WriteFacts DEF h

-------------------------------------------------------------------------------
(* Replay: each cell ends with the last write to it. *)

IsLast(ws, c, i) == i \in WritesOf(ws, c) /\ \A j \in WritesOf(ws, c) : j <= i

LEMMA LastWrite ==
    ASSUME NEW ws, NEW n \in Nat, DOMAIN ws = 1 .. n, NEW c, WritesOf(ws, c) # {}
    PROVE  IsLast(ws, c, Max(WritesOf(ws, c)))
<1> DEFINE S == WritesOf(ws, c)
           T == {n - x : x \in S}
           R == OpToRel(<, Nat)
<1>1. S \subseteq 1 .. n
  BY DEF WritesOf
<1>2. IsWellFoundedOn(R, Nat)
  BY NatLessThanWellFounded
<1>3. \A x, y \in Nat : x < y => <<x, y>> \in R
  BY DEF OpToRel
<1> HIDE DEF R, S
<1>4. T \subseteq Nat /\ T # {}
  BY <1>1 DEF S
<1>5. PICK x \in T : \A y \in T : ~ (<<y, x>> \in R)
  BY <1>2, <1>4, WFMin
<1>6. PICK m \in S : x = n - m
  OBVIOUS
<1>7. ASSUME NEW k \in S PROVE m >= k
  <2>1. n - k \in T /\ n - k \in Nat /\ x \in Nat /\ k \in Int /\ m \in Int
    BY <1>1, <1>4, <1>6
  <2>2. ~ (n - k < x)
    BY <1>3, <1>5, <2>1
  <2>3. QED
    BY <1>6, <2>1, <2>2
<1>8. Max(S) \in S /\ \A k \in S : Max(S) >= k
  BY <1>7 DEF Max
<1>9. QED
  BY <1>1, <1>8 DEF IsLast, S

LEMMA ReplayAt ==
    ASSUME NEW g, NEW ws, NEW n \in Nat, DOMAIN ws = 1 .. n, NEW c \in DOMAIN g
    PROVE  /\ WritesOf(ws, c) = {} => Replay(g, ws)[c] = g[c]
           /\ WritesOf(ws, c) # {} => \E i : IsLast(ws, c, i)
           /\ \A i : IsLast(ws, c, i) => Replay(g, ws)[c] = ws[i].value
<1>1. CASE WritesOf(ws, c) = {}
  BY <1>1 DEF Replay, IsLast
<1>2. CASE WritesOf(ws, c) # {}
  <2> DEFINE m == Max(WritesOf(ws, c))
  <2>1. IsLast(ws, c, m)
    BY <1>2, LastWrite
  <2>2. Replay(g, ws)[c] = ws[m].value
    BY <1>2 DEF Replay
  <2> HIDE DEF m
  <2>3. ASSUME NEW i, IsLast(ws, c, i) PROVE i = m
    <3>1. i \in 1 .. n /\ m \in 1 .. n /\ i <= m /\ m <= i
      BY <2>1, <2>3 DEF IsLast, WritesOf
    <3>2. QED
      BY <3>1
  <2>4. QED
    BY <1>2, <2>1, <2>2, <2>3
<1>3. QED
  BY <1>1, <1>2

LEMMA ReplayNone ==
    ASSUME NEW f, NEW g \in FilesOf(f)
    PROVE  Replay(g, <<>>) = g
BY FileFacts DEF Replay, WritesOf

LEMMA ReplayCell ==
    ASSUME NEW f, NEW g \in FilesOf(f), NEW rs \in Seq(WritesTo(f)), NEW c \in Cells
    PROVE  /\ ~ HasRecord(rs, c) => Replay(g, rs)[c] = g[c]
           /\ HasRecord(rs, c) => \E i : IsLast(rs, c, i)
           /\ \A i : IsLast(rs, c, i) =>
                i \in DOMAIN rs /\ rs[i].at = c /\ Replay(g, rs)[c] = rs[i].value
           /\ \A i : i \in WritesOf(rs, c) <=> i \in DOMAIN rs /\ rs[i].at = c
<1>1. Len(rs) \in Nat /\ DOMAIN rs = 1 .. Len(rs) /\ c \in DOMAIN g
  BY LenProperties, FileFacts
<1>2. \A i \in DOMAIN rs : rs[i] \in WritesTo(f)
  BY <1>1, ElementOfSeq
<1>3. \A i : i \in WritesOf(rs, c) <=> i \in DOMAIN rs /\ rs[i].at = c
  BY <1>2, WriteFacts DEF WritesOf
<1>4. HasRecord(rs, c) <=> WritesOf(rs, c) # {}
  BY <1>3 DEF HasRecord
<1>5. /\ WritesOf(rs, c) = {} => Replay(g, rs)[c] = g[c]
      /\ WritesOf(rs, c) # {} => \E i : IsLast(rs, c, i)
      /\ \A i : IsLast(rs, c, i) => Replay(g, rs)[c] = rs[i].value
  <2> DEFINE n == Len(rs)
  <2>1. n \in Nat /\ DOMAIN rs = 1 .. n /\ c \in DOMAIN g
    BY <1>1
  <2> HIDE DEF n
  <2>2. WritesOf(rs, c) = {} => Replay(g, rs)[c] = g[c]
    BY <2>1, ReplayAt
  <2>3. WritesOf(rs, c) # {} => \E i : IsLast(rs, c, i)
    BY <2>1, ReplayAt
  <2>4. \A i : IsLast(rs, c, i) => Replay(g, rs)[c] = rs[i].value
    BY <2>1, ReplayAt
  <2>5. QED
    BY <2>2, <2>3, <2>4
<1>6. \A i : IsLast(rs, c, i) => i \in WritesOf(rs, c)
  BY DEF IsLast
<1>7. QED
  BY <1>3, <1>4, <1>5, <1>6

LEMMA ReplayFile ==
    ASSUME NEW f, NEW g \in FilesOf(f), NEW rs \in Seq(WritesTo(f))
    PROVE  /\ Replay(g, rs) \in FilesOf(f)
           /\ \A c \in Cells : g[c] # NoData => Replay(g, rs)[c] # NoData
           /\ \A c \in Cells : Replay(g, rs)[c] = g[c]
                \/ \E i \in DOMAIN rs : rs[i].at = c /\ Replay(g, rs)[c] = rs[i].value
<1> DEFINE h == Replay(g, rs)
<1>1. h = [c \in Cells |-> h[c]]
  BY FileFacts DEF Replay
<1>2. \A i \in DOMAIN rs : rs[i] \in WritesTo(f)
  BY LenProperties, ElementOfSeq
<1> HIDE DEF h
<1>3. ASSUME NEW c \in Cells
      PROVE  h[c] = g[c] \/ \E i \in DOMAIN rs : rs[i].at = c /\ h[c] = rs[i].value
  <2>1. CASE HasRecord(rs, c)
    <3>1. PICK i : IsLast(rs, c, i)
      BY <2>1, ReplayCell
    <3>2. i \in DOMAIN rs /\ rs[i].at = c /\ Replay(g, rs)[c] = rs[i].value
      BY <3>1, ReplayCell
    <3>3. QED
      BY <3>2 DEF h
  <2>2. CASE ~ HasRecord(rs, c)
    BY <2>2, ReplayCell DEF h
  <2>3. QED
    BY <2>1, <2>2
<1>4. h[Header] \in Sizes
  BY <1>2, <1>3, FileFacts, WriteFacts, Facts
<1>5. \A c \in Ids : h[c] \in ElementsOf(f) \cup {NoData}
  BY <1>2, <1>3, FileFacts, WriteFacts, Facts
<1>6. h \in FilesOf(f)
  BY <1>1, <1>4, <1>5, IsFile
<1>7. \A c \in Cells : g[c] # NoData => h[c] # NoData
  BY <1>2, <1>3, WriteFacts
<1>8. QED
  BY <1>3, <1>6, <1>7 DEF h

\* A record more: its cell gets the value, the others are as they were.
LEMMA ReplayAppend ==
    ASSUME NEW f, NEW g \in FilesOf(f), NEW rs \in Seq(WritesTo(f)), NEW r \in WritesTo(f)
    PROVE  \A c \in Cells :
                Replay(g, Append(rs, r))[c] = IF c = r.at THEN r.value ELSE Replay(g, rs)[c]
<1> DEFINE ss == Append(rs, r)
<1>1. /\ Len(rs) \in Nat /\ DOMAIN rs = 1 .. Len(rs) /\ DOMAIN ss = 1 .. Len(rs) + 1
      /\ ss \in Seq(WritesTo(f)) /\ ss[Len(rs) + 1] = r
      /\ \A i \in 1 .. Len(rs) : ss[i] = rs[i]
  BY AppendProperties
<1> HIDE DEF ss
<1>2. ASSUME NEW c \in Cells, c = r.at PROVE Replay(g, ss)[c] = r.value
  <2>1. IsLast(ss, c, Len(rs) + 1)
    <3>1. Len(rs) + 1 \in WritesOf(ss, c)
      BY <1>1, <1>2, ReplayCell
    <3>2. \A i \in WritesOf(ss, c) : i \in 1 .. Len(rs) + 1
      BY <1>1, ReplayCell
    <3>3. QED
      BY <3>1, <3>2, <1>1 DEF IsLast
  <2>2. QED
    BY <2>1, <1>1, ReplayCell
<1>3. ASSUME NEW c \in Cells, c # r.at PROVE Replay(g, ss)[c] = Replay(g, rs)[c]
  <2>1. \A i : i \in WritesOf(ss, c) <=> i \in 1 .. Len(rs) + 1 /\ ss[i].at = c
    BY <1>1, ReplayCell
  <2>2. \A i : i \in WritesOf(rs, c) <=> i \in 1 .. Len(rs) /\ rs[i].at = c
    BY <1>1, ReplayCell
  <2>3. \A i : i \in WritesOf(ss, c) <=> i \in WritesOf(rs, c)
    BY <2>1, <2>2, <1>1, <1>3
  <2>4. CASE HasRecord(rs, c)
    <3>1. PICK i : IsLast(rs, c, i)
      BY <2>4, ReplayCell
    <3>2. IsLast(ss, c, i)
      BY <3>1, <2>3 DEF IsLast
    <3>3. Replay(g, rs)[c] = rs[i].value /\ i \in DOMAIN rs
      BY <3>1, ReplayCell
    <3>4. Replay(g, ss)[c] = ss[i].value
      BY <3>2, <1>1, ReplayCell
    <3>5. QED
      BY <3>3, <3>4, <1>1
  <2>5. CASE ~ HasRecord(rs, c)
    <3>1. ~ HasRecord(ss, c)
      BY <2>5, <2>1, <2>2, <2>3, <1>1 DEF HasRecord
    <3>2. QED
      BY <3>1, <2>5, <1>1, ReplayCell
  <2>6. QED
    BY <2>4, <2>5
<1>4. QED
  BY <1>2, <1>3 DEF ss

\* Only in a cell without a record does it show what the file holds.
LEMMA ReplayOver ==
    ASSUME NEW f, NEW g \in FilesOf(f), NEW h \in FilesOf(f), NEW rs \in Seq(WritesTo(f)),
           NEW c \in Cells, HasRecord(rs, c) \/ g[c] = h[c]
    PROVE  Replay(g, rs)[c] = Replay(h, rs)[c]
<1>1. CASE HasRecord(rs, c)
  <2>1. PICK i : IsLast(rs, c, i)
    BY <1>1, ReplayCell
  <2>2. Replay(g, rs)[c] = rs[i].value
    BY <2>1, ReplayCell
  <2>3. Replay(h, rs)[c] = rs[i].value
    BY <2>1, ReplayCell
  <2>4. QED
    BY <2>2, <2>3
<1>2. CASE ~ HasRecord(rs, c)
  BY <1>2, ReplayCell
<1>3. QED
  BY <1>1, <1>2

-------------------------------------------------------------------------------
(* Plans. *)

\* Writing what is planned first leaves the rest planned.
LEMMA PlanHead ==
    ASSUME NEW f, NEW g \in FilesOf(f), NEW S, NEW ws \in Seq(S), ws # <<>>,
           Head(ws)[1] = f, PlannedFor(g, ws, f)
    PROVE  LET w == Head(ws)[2] IN
           /\ w \in WritesTo(f)
           /\ PlannedFor(Apply(g, w), Tail(ws), f)
           /\ w.at = Header =>
                /\ TasksOf(Tail(ws), f) = {} /\ Filled(g, w.value)
                /\ f = "storage" => w.value >= g[Header]
           /\ w.at # Header =>
                \/ w.at < g[Header]
                \/ w.at = g[Header] /\ HasTask(Tail(ws), f, Header)
           /\ ~ HasTask(Tail(ws), f, w.at)
<1> DEFINE w == Head(ws)[2]
           n == Len(ws)
           rest == Tail(ws)
           h == Apply(g, w)
<1>1. /\ n \in Nat /\ n >= 1 /\ DOMAIN ws = 1 .. n /\ Head(ws) = ws[1]
      /\ DOMAIN rest = 1 .. n - 1 /\ \A i \in 1 .. n - 1 : rest[i] = ws[i + 1]
  BY HeadTailProperties
<1>2. 1 \in TasksOf(ws, f) /\ w = ws[1][2]
  BY <1>1 DEF TasksOf
<1> HIDE DEF w, n, rest, h
<1>3. ASSUME NEW i PROVE i \in TasksOf(rest, f) <=> i \in 1 .. n - 1 /\ i + 1 \in TasksOf(ws, f)
  BY <1>1 DEF TasksOf
<1>4. ASSUME NEW i \in TasksOf(rest, f)
      PROVE  i \in 1 .. n - 1 /\ i + 1 \in TasksOf(ws, f) /\ rest[i] = ws[i + 1] /\ i + 1 # 1
  BY <1>1, <1>3
<1>5. ASSUME NEW j \in TasksOf(ws, f) PROVE j = 1 \/ j - 1 \in TasksOf(rest, f)
  <2>1. j \in 1 .. n
    BY <1>1 DEF TasksOf
  <2>2. j # 1 => j - 1 \in 1 .. n - 1 /\ j - 1 + 1 = j
    BY <2>1, <1>1
  <2>3. QED
    BY <2>2, <1>3
<1>6. /\ w \in WritesTo(f)
      /\ \A j \in TasksOf(ws, f) : j # 1 => ws[j][2].at # w.at
      /\ w.at = Header =>
            /\ \A j \in TasksOf(ws, f) : j <= 1
            /\ \A c \in 0 .. w.value - 1 : g[c] # NoData \/ HasTask(ws, f, c)
            /\ f = "storage" => w.value >= g[Header]
      /\ w.at # Header => w.at < g[Header] \/ (w.at = g[Header] /\ HasTask(ws, f, Header))
  BY <1>2 DEF PlannedFor
<1>7. ASSUME NEW c, HasTask(ws, f, c) PROVE w.at = c \/ HasTask(rest, f, c)
  <2>1. PICK j \in TasksOf(ws, f) : ws[j][2].at = c
    BY <1>7 DEF HasTask
  <2>2. j # 1 => j - 1 \in TasksOf(rest, f) /\ rest[j - 1] = ws[j]
    BY <2>1, <1>4, <1>5, <1>1 DEF TasksOf
  <2>3. QED
    BY <2>1, <2>2, <1>2 DEF HasTask
<1>8. ~ HasTask(rest, f, w.at)
  BY <1>4, <1>6 DEF HasTask
<1>9. CASE w.at = Header
  <2>1. TasksOf(rest, f) = {}
    <3>1. ASSUME NEW i \in TasksOf(rest, f) PROVE FALSE
      <4>1. i \in 1 .. n - 1 /\ i + 1 <= 1
        BY <1>4, <1>6, <1>9
      <4>2. QED
        BY <4>1, <1>1
    <3>2. QED
      BY <3>1
  <2>2. Filled(g, w.value)
    <3>1. w.value \in Sizes
      BY <1>6, <1>9, WriteFacts
    <3>2. ASSUME NEW c \in 0 .. w.value - 1 PROVE g[c] # NoData
      <4>1. c # Header
        BY <3>1, Facts
      <4>2. ~ HasTask(rest, f, c)
        BY <2>1 DEF HasTask
      <4>3. QED
        BY <4>1, <4>2, <1>6, <1>7, <1>9
    <3>3. QED
      BY <3>2 DEF Filled
  <2>3. PlannedFor(h, rest, f)
    BY <2>1 DEF PlannedFor
  <2>4. QED
    BY <1>6, <1>8, <1>9, <2>1, <2>2, <2>3 DEF w, rest, h
<1>10. CASE w.at # Header
  <2>1. /\ \A c \in Cells : h[c] = IF w.at = c THEN w.value ELSE g[c]
        /\ \A c \in Cells : g[c] # NoData => h[c] # NoData
        /\ h[Header] = g[Header]
    BY <1>6, <1>10, ApplyCells, Facts DEF h
  <2>2. ASSUME NEW i \in TasksOf(rest, f)
        PROVE  LET v == rest[i][2] IN
            /\ v \in WritesTo(f)
            /\ \A j \in TasksOf(rest, f) : j # i => rest[j][2].at # v.at
            /\ v.at = Header =>
                /\ \A j \in TasksOf(rest, f) : j <= i
                /\ \A c \in 0 .. v.value - 1 : h[c] # NoData \/ HasTask(rest, f, c)
                /\ f = "storage" => v.value >= h[Header]
            /\ v.at # Header =>
                \/ v.at < h[Header]
                \/ v.at = h[Header] /\ HasTask(rest, f, Header)
    <3> DEFINE v == rest[i][2]
    <3>1. /\ v = ws[i + 1][2] /\ i + 1 \in TasksOf(ws, f) /\ i \in 1 .. n - 1
      BY <1>4
    <3> HIDE DEF v
    <3>2. /\ v \in WritesTo(f)
          /\ \A j \in TasksOf(ws, f) : j # i + 1 => ws[j][2].at # v.at
          /\ v.at = Header =>
                /\ \A j \in TasksOf(ws, f) : j <= i + 1
                /\ \A c \in 0 .. v.value - 1 : g[c] # NoData \/ HasTask(ws, f, c)
                /\ f = "storage" => v.value >= g[Header]
          /\ v.at # Header => v.at < g[Header] \/ (v.at = g[Header] /\ HasTask(ws, f, Header))
      BY <3>1 DEF PlannedFor
    <3>3. ASSUME NEW j \in TasksOf(rest, f), j # i PROVE rest[j][2].at # v.at
      <4>1. j + 1 \in TasksOf(ws, f) /\ rest[j] = ws[j + 1] /\ j \in 1 .. n - 1
        BY <1>4
      <4>2. j + 1 # i + 1
        BY <4>1, <3>1, <3>3, <1>1
      <4>3. QED
        BY <4>1, <4>2, <3>2
    <3>4. ASSUME v.at = Header, NEW j \in TasksOf(rest, f) PROVE j <= i
      <4>1. j + 1 \in TasksOf(ws, f) /\ j \in 1 .. n - 1
        BY <1>4
      <4>2. j + 1 <= i + 1
        BY <4>1, <3>2, <3>4
      <4>3. QED
        BY <4>1, <4>2, <3>1, <1>1
    <3>5. ASSUME v.at = Header, NEW c \in 0 .. v.value - 1
          PROVE  h[c] # NoData \/ HasTask(rest, f, c)
      <4>1. v.value \in Sizes /\ c \in Cells
        BY <3>2, <3>5, WriteFacts, Facts
      <4>2. w.at = c => h[c] # NoData
        BY <4>1, <2>1, <1>6, WriteFacts
      <4>3. QED
        BY <4>1, <4>2, <3>2, <3>5, <1>7, <2>1
    <3>6. HasTask(ws, f, Header) => HasTask(rest, f, Header)
      BY <1>7, <1>10
    <3>7. QED
      BY <3>2, <3>3, <3>4, <3>5, <3>6, <2>1 DEF v
  <2>3. PlannedFor(h, rest, f)
    BY <2>2 DEF PlannedFor
  <2>4. HasTask(ws, f, Header) => HasTask(rest, f, Header)
    BY <1>7, <1>10
  <2>5. QED
    BY <1>6, <1>8, <1>10, <2>3, <2>4 DEF w, rest, h
<1>11. QED
  BY <1>9, <1>10

LEMMA PlanOther ==
    ASSUME NEW f, NEW g, NEW S, NEW ws \in Seq(S), ws # <<>>, Head(ws)[1] # f
    PROVE  /\ PlannedFor(g, ws, f) => PlannedFor(g, Tail(ws), f)
           /\ \A c : HasTask(Tail(ws), f, c) <=> HasTask(ws, f, c)
           /\ TasksOf(ws, f) = {} => TasksOf(Tail(ws), f) = {}
<1> DEFINE n == Len(ws)
           rest == Tail(ws)
<1>1. /\ n \in Nat /\ n >= 1 /\ DOMAIN ws = 1 .. n /\ Head(ws) = ws[1]
      /\ DOMAIN rest = 1 .. n - 1 /\ \A i \in 1 .. n - 1 : rest[i] = ws[i + 1]
  BY HeadTailProperties
<1> HIDE DEF n, rest
<1>2. ASSUME NEW i \in TasksOf(rest, f)
      PROVE  i \in 1 .. n - 1 /\ i + 1 \in TasksOf(ws, f) /\ rest[i] = ws[i + 1]
  BY <1>1 DEF TasksOf
<1>3. ASSUME NEW j \in TasksOf(ws, f)
      PROVE  j \in 1 .. n /\ j - 1 \in TasksOf(rest, f) /\ rest[j - 1] = ws[j]
  <2>1. j \in 1 .. n /\ j # 1
    BY <1>1 DEF TasksOf
  <2>2. j - 1 \in 1 .. n - 1 /\ j - 1 + 1 = j
    BY <2>1, <1>1
  <2>3. QED
    BY <2>1, <2>2, <1>1 DEF TasksOf
<1>4. ASSUME NEW c PROVE HasTask(rest, f, c) <=> HasTask(ws, f, c)
  BY <1>2, <1>3 DEF HasTask
<1>5. TasksOf(ws, f) = {} => TasksOf(rest, f) = {}
  BY <1>2
<1>6. ASSUME PlannedFor(g, ws, f) PROVE PlannedFor(g, rest, f)
  <2>1. ASSUME NEW i \in TasksOf(rest, f)
        PROVE  LET v == rest[i][2] IN
            /\ v \in WritesTo(f)
            /\ \A j \in TasksOf(rest, f) : j # i => rest[j][2].at # v.at
            /\ v.at = Header =>
                /\ \A j \in TasksOf(rest, f) : j <= i
                /\ \A c \in 0 .. v.value - 1 : g[c] # NoData \/ HasTask(rest, f, c)
                /\ f = "storage" => v.value >= g[Header]
            /\ v.at # Header =>
                \/ v.at < g[Header]
                \/ v.at = g[Header] /\ HasTask(rest, f, Header)
    <3> DEFINE v == rest[i][2]
    <3>1. v = ws[i + 1][2] /\ i + 1 \in TasksOf(ws, f) /\ i \in 1 .. n - 1
      BY <1>2
    <3> HIDE DEF v
    <3>2. /\ v \in WritesTo(f)
          /\ \A j \in TasksOf(ws, f) : j # i + 1 => ws[j][2].at # v.at
          /\ v.at = Header =>
                /\ \A j \in TasksOf(ws, f) : j <= i + 1
                /\ \A c \in 0 .. v.value - 1 : g[c] # NoData \/ HasTask(ws, f, c)
                /\ f = "storage" => v.value >= g[Header]
          /\ v.at # Header => v.at < g[Header] \/ (v.at = g[Header] /\ HasTask(ws, f, Header))
      BY <3>1, <1>6 DEF PlannedFor
    <3>3. ASSUME NEW j \in TasksOf(rest, f)
          PROVE  (j # i => rest[j][2].at # v.at) /\ (v.at = Header => j <= i)
      <4>1. j + 1 \in TasksOf(ws, f) /\ rest[j] = ws[j + 1] /\ j \in 1 .. n - 1
        BY <1>2
      <4>2. (j # i => j + 1 # i + 1) /\ (j + 1 <= i + 1 => j <= i)
        BY <4>1, <3>1, <1>1
      <4>3. QED
        BY <4>1, <4>2, <3>2
    <3>4. QED
      BY <3>2, <3>3, <1>4 DEF v
  <2>2. QED
    BY <2>1 DEF PlannedFor
<1>7. QED
  BY <1>4, <1>5, <1>6 DEF rest

-------------------------------------------------------------------------------
(* One file while its buffer is emptied and a write takes its place. *)

LEMMA SameVector ==
    ASSUME NEW g, NEW h, g[Header] = h[Header], \A c \in 0 .. g[Header] - 1 : g[c] = h[c],
           g[Header] \in Nat
    PROVE  Vector(g) = Vector(h)
<1>1. \A i \in 1 .. g[Header] : i - 1 \in 0 .. g[Header] - 1
  OBVIOUS
<1>2. QED
  BY <1>1 DEF Vector

LEMMA FillMore ==
    ASSUME NEW f, NEW g \in FilesOf(f), NEW h, \A c \in Cells : g[c] # NoData => h[c] # NoData
    PROVE  \A s \in Sizes : Filled(g, s) => Filled(h, s)
BY Facts DEF Filled

FlushOf(f, g) ==
    /\ g \in FilesOf(f) /\ Filled(g, g[Header])
    /\ \A c \in Cells : disk[f][c] # NoData => g[c] # NoData
    /\ \A i \in DOMAIN records[f] :
            records[f][i].at = Header => Filled(g, records[f][i].value)
    /\ TasksOf(todo, f) # {} => g[Header] = disk[f][Header]
    /\ \A c \in Cells : Replay(g, records[f])[c] # Undone(f)[c] =>
            /\ c = disk[f][Header]
            /\ pending[f] # NoWrite /\ pending[f].at = c /\ HasTask(todo, f, Header)
    /\ f = "storage" => g[Header] >= disk[f][Header]

LEMMA FlushFile ==
    ASSUME NEW f \in Files, FileInv(f)
    PROVE  FlushOf(f, Flushed(f))
<1> DEFINE g == Flushed(f)
           w == pending[f]
           rs == records[f]
<1>1. disk[f] \in FilesOf(f) /\ rs \in Seq(WritesTo(f)) /\ Filled(disk[f], disk[f][Header])
      /\ \A i \in DOMAIN rs : rs[i].at = Header => Filled(disk[f], rs[i].value)
  BY DEF FileInv, TypesOf
<1>2. CASE w = NoWrite
  <2>1. g = disk[f]
    BY <1>2, ApplyNothing DEF Flushed
  <2>2. disk[f][Header] \in Nat
    BY <1>1, FileFacts
  <2> HIDE DEF g
  <2>3. QED
    BY <1>1, <2>1, <2>2 DEF FlushOf, Undone, g
<1>3. CASE w # NoWrite
  <2>1. w \in WritesTo(f) /\ BufferedFor(f)
    BY <1>3 DEF FileInv, TypesOf
  <2>2. /\ g \in FilesOf(f)
        /\ \A c \in Cells : g[c] = IF w.at = c THEN w.value ELSE disk[f][c]
        /\ \A c \in Cells : disk[f][c] # NoData => g[c] # NoData
    BY <1>1, <2>1, ApplyCells DEF Flushed
  <2> HIDE DEF g
  <2>3. \A i \in DOMAIN rs : rs[i] \in WritesTo(f)
    BY <1>1, LenProperties, ElementOfSeq
  <2>4. /\ w.at = Header =>
            /\ TasksOf(todo, f) = {} /\ Filled(disk[f], w.value)
            /\ f = "storage" => w.value >= disk[f][Header]
        /\ w.at = disk[f][Header] => HasTask(todo, f, Header)
        /\ w.at # disk[f][Header] =>
            /\ rs # <<>>
            /\ rs[Len(rs)] = At(w.at, disk[f][w.at])
    BY <2>1 DEF BufferedFor
  <2> HIDE DEF w, rs
  <2>5. disk[f][Header] \in Sizes /\ disk[f][Header] \in Nat
    BY <1>1, FileFacts
  <2>6. g[Header] = IF w.at = Header THEN w.value ELSE disk[f][Header]
    BY <2>2, Facts
  <2>7. Filled(disk[f], g[Header]) /\ g[Header] \in Sizes
    BY <1>1, <2>1, <2>4, <2>5, <2>6, WriteFacts
  <2>8. \A s \in Sizes : Filled(disk[f], s) => Filled(g, s)
    BY <1>1, <2>2, FillMore
  <2>9. \A i \in DOMAIN rs : rs[i].at = Header => Filled(g, rs[i].value)
    BY <1>1, <2>3, <2>8, WriteFacts
  <2>10. ASSUME NEW c \in Cells, Replay(g, rs)[c] # Undone(f)[c]
         PROVE  c = disk[f][Header] /\ w.at = c /\ HasTask(todo, f, Header)
    <3>1. ~ HasRecord(rs, c) /\ g[c] # disk[f][c]
      BY <2>10, <1>1, <2>2, ReplayOver DEF Undone, rs
    <3>2. w.at = c
      BY <3>1, <2>2
    <3>3. CASE c = disk[f][Header]
      BY <3>2, <3>3, <2>4
    <3>4. CASE c # disk[f][Header]
      <4>1. rs # <<>> /\ rs[Len(rs)].at = c
        BY <3>2, <3>4, <2>4 DEF At
      <4>2. Len(rs) \in DOMAIN rs
        BY <4>1, <1>1, LenProperties, EmptySeq
      <4>3. QED
        BY <4>1, <4>2, <3>1 DEF HasRecord
    <3>5. QED
      BY <3>3, <3>4
  <2>11. f = "storage" => g[Header] >= disk[f][Header]
    BY <2>4, <2>5, <2>6
  <2>12. TasksOf(todo, f) # {} => g[Header] = disk[f][Header]
    BY <2>4, <2>6
  <2>13. QED
    BY <1>3, <2>2, <2>7, <2>8, <2>9, <2>10, <2>11, <2>12 DEF FlushOf, g, w, rs
<1>4. QED
  BY <1>2, <1>3

\* Emptying a buffer changes no size that a restore brings back, and in the
\* first operation nothing of the vector that it makes.
LEMMA FlushUndone ==
    ASSUME NEW f \in Files, FileInv(f)
    PROVE  /\ Replay(Flushed(f), records[f]) \in FilesOf(f)
           /\ Undone(f) \in FilesOf(f)
           /\ Replay(Flushed(f), records[f])[Header] = Undone(f)[Header]
           /\ FirstFor(f) /\ ops <= 1 => Vector(Replay(Flushed(f), records[f])) = before[f]
<1> DEFINE g == Flushed(f)
           r == Replay(g, records[f])
           u == Undone(f)
<1>1. FlushOf(f, g) /\ disk[f] \in FilesOf(f) /\ records[f] \in Seq(WritesTo(f))
  BY FlushFile DEF FileInv, TypesOf
<1> HIDE DEF g
<1>2. r \in FilesOf(f) /\ u \in FilesOf(f)
  BY <1>1, ReplayFile DEF FlushOf, Undone
<1> HIDE DEF r, u
<1>3. \A c \in Cells : r[c] # u[c] => c = disk[f][Header] /\ HasTask(todo, f, Header)
  BY <1>1 DEF FlushOf, r, u
<1>4. disk[f][Header] \in Nat /\ u[Header] \in Nat
  BY <1>1, <1>2, FileFacts
<1>5. r[Header] = u[Header]
  BY <1>3, <1>4, Facts
<1>6. ASSUME FirstFor(f), ops <= 1 PROVE Vector(r) = before[f]
  <2>1. Vector(u) = before[f] /\ \A c \in Cells : HasTask(todo, f, c) => ~ HasRecord(records[f], c)
    BY <1>6 DEF FirstFor, u
  <2>2. ASSUME NEW c \in 0 .. u[Header] - 1 PROVE r[c] = u[c]
    <3>1. c \in Cells
      BY <1>2, FileFacts, Facts
    <3>2. CASE HasTask(todo, f, Header)
      <4>1. u[Header] = disk[f][Header]
        BY <3>2, <2>1, <1>1, ReplayCell, Facts DEF u, Undone
      <4>2. c # disk[f][Header]
        BY <4>1, <1>4
      <4>3. QED
        BY <3>1, <4>2, <1>3
    <3>3. CASE ~ HasTask(todo, f, Header)
      BY <3>1, <3>3, <1>3
    <3>4. QED
      BY <3>2, <3>3
  <2>3. Vector(u) = Vector(r)
    BY <1>4, <1>5, <2>2, SameVector
  <2>4. QED
    BY <2>1, <2>3
<1>7. QED
  BY <1>2, <1>5, <1>6 DEF r, u, g

-------------------------------------------------------------------------------
(* What the steps do to one file. *)

LEMMA FlushKeepsFile ==
    ASSUME NEW f \in Files, FileInv(f), FirstFor(f),
           disk'[f] = Flushed(f), pending'[f] = NoWrite, records'[f] = records[f],
           todo' = todo, ops' = ops, before' = before
    PROVE  FileInv(f)' /\ FirstFor(f)' /\ Flushed(f)' = Flushed(f)
           /\ Undone(f)'[Header] = Undone(f)[Header]
<1> DEFINE g == Flushed(f)
<1>1. FlushOf(f, g) /\ records[f] \in Seq(WritesTo(f)) /\ PlannedFor(g, todo, f)
  BY FlushFile DEF FileInv, TypesOf
<1>2. Flushed(f)' = g
  BY ApplyNothing DEF Flushed
<1>3. Undone(f)' = Replay(g, records[f])
  BY DEF Undone
<1>4. FirstFor(f)' /\ Undone(f)'[Header] = Undone(f)[Header]
  BY <1>3, FlushUndone DEF FirstFor
<1> HIDE DEF g
<1>5. TypesOf(f)'
  BY <1>1 DEF TypesOf, FlushOf, g
<1>6. FileInv(f)'
  BY <1>1, <1>2, <1>5 DEF FileInv, FlushOf, g
<1>7. QED
  BY <1>2, <1>4, <1>6 DEF g

WriteTo(f, w) ==
    /\ todo # <<>> /\ Head(todo)[1] = f /\ w = Head(todo)[2]
    /\ disk'[f] = Flushed(f)
    /\ records'[f] = IF Journaled(f, w) THEN Append(records[f], At(w.at, Flushed(f)[w.at]))
                     ELSE records[f]
    /\ pending'[f] = w
    /\ todo' = Tail(todo) /\ ops' = ops /\ before' = before

LEMMA WriteKeepsFile ==
    ASSUME NEW f \in Files, FileInv(f), FirstFor(f), NEW w, WriteTo(f, w), NEW S, todo \in Seq(S),
           ops \in Nat, ops # 0
    PROVE  /\ FileInv(f)' /\ FirstFor(f)'
           /\ w \in WritesTo(f)
           /\ Flushed(f)' = Apply(Flushed(f), w)
           /\ Flushed(f)[Header] = disk[f][Header]
           /\ w.at = Header /\ f = "storage" => w.value >= Flushed(f)[Header]
           /\ Undone(f)'[Header] = IF w.at = Header THEN Flushed(f)[Header]
                                   ELSE Undone(f)[Header]
           /\ Journaled(f, w) => Flushed(f)[w.at] # NoData
<1> DEFINE g == Flushed(f)
           rest == Tail(todo)
           rs == records[f]
           was == At(w.at, g[w.at])
<1>1. /\ FlushOf(f, g) /\ rs \in Seq(WritesTo(f)) /\ PlannedFor(g, todo, f)
  BY FlushFile DEF FileInv, TypesOf
<1>2. /\ todo # <<>> /\ Head(todo)[1] = f /\ w = Head(todo)[2]
      /\ disk'[f] = g /\ pending'[f] = w /\ todo' = rest
      /\ rs' = IF Journaled(f, w) THEN Append(rs, was) ELSE rs
      /\ ops' = ops /\ before' = before
  BY DEF WriteTo
<1> HIDE DEF g, rest, was
<1>3. g \in FilesOf(f) /\ Filled(g, g[Header]) /\ g[Header] \in Nat /\ g[Header] \in Sizes
  BY <1>1, FileFacts DEF FlushOf
<1>4. /\ w \in WritesTo(f)
      /\ PlannedFor(Apply(g, w), rest, f)
      /\ w.at = Header =>
            /\ TasksOf(rest, f) = {} /\ Filled(g, w.value)
            /\ f = "storage" => w.value >= g[Header]
      /\ w.at # Header => w.at < g[Header] \/ (w.at = g[Header] /\ HasTask(rest, f, Header))
      /\ ~ HasTask(rest, f, w.at)
  BY <1>1, <1>2, <1>3, PlanHead DEF rest
<1>5. 1 \in TasksOf(todo, f) /\ HasTask(todo, f, w.at)
  <2>1. 1 \in DOMAIN todo /\ todo[1] = Head(todo)
    BY <1>2, HeadTailProperties, LenProperties
  <2>2. QED
    BY <2>1, <1>2 DEF TasksOf, HasTask
<1>6. g[Header] = disk[f][Header]
  BY <1>1, <1>5 DEF FlushOf
<1>7. Journaled(f, w) <=> w.at # g[Header]
  BY <1>6 DEF Journaled
<1>8. ASSUME Journaled(f, w) PROVE g[w.at] # NoData
  <2>1. CASE w.at = Header
    BY <2>1, <1>3, Facts
  <2>2. CASE w.at # Header
    <3>1. w.at < g[Header] /\ w.at \in Ids
      BY <2>2, <1>4, <1>7, <1>8, WriteFacts
    <3>2. w.at \in 0 .. g[Header] - 1
      BY <3>1, <1>3, Facts
    <3>3. QED
      BY <3>2, <1>3 DEF Filled
  <2>3. QED
    BY <2>1, <2>2
<1>9. Journaled(f, w) => was \in WritesTo(f) /\ was.at = w.at /\ was.value = g[w.at]
  BY <1>3, <1>4, <1>8, FileFacts, WriteFacts DEF was, At
<1>10. TypesOf(f)'
  <2>1. rs' \in Seq(WritesTo(f))
    BY <1>1, <1>2, <1>9, AppendProperties
  <2>2. QED
    BY <2>1, <1>2, <1>3, <1>4 DEF TypesOf
<1>11. ASSUME NEW i \in DOMAIN rs', rs'[i].at = Header PROVE Filled(g, rs'[i].value)
  <2>1. CASE i \in DOMAIN rs /\ rs'[i] = rs[i]
    BY <2>1, <1>1, <1>11 DEF FlushOf
  <2>2. CASE Journaled(f, w) /\ rs'[i] = was
    BY <2>2, <1>3, <1>9, <1>11
  <2>3. QED
    <3>1. CASE Journaled(f, w)
      <4>1. /\ rs' = Append(rs, was) /\ Len(rs) \in Nat /\ DOMAIN rs = 1 .. Len(rs)
            /\ DOMAIN rs' = 1 .. Len(rs) + 1 /\ rs'[Len(rs) + 1] = was
            /\ \A j \in 1 .. Len(rs) : rs'[j] = rs[j]
        BY <3>1, <1>1, <1>2, <1>9, AppendProperties
      <4>2. i \in 1 .. Len(rs) \/ i = Len(rs) + 1
        BY <4>1
      <4>3. QED
        BY <4>1, <4>2, <3>1, <2>1, <2>2
    <3>2. CASE ~ Journaled(f, w)
      BY <3>2, <2>1, <1>2
    <3>3. QED
      BY <3>1, <3>2
<1>12. BufferedFor(f)'
  <2>1. w.at # g[Header] => rs' # <<>> /\ rs'[Len(rs')] = At(w.at, g[w.at])
    <3> SUFFICES ASSUME w.at # g[Header] PROVE rs' # <<>> /\ rs'[Len(rs')] = was
      BY DEF was
    <3>1. rs' = Append(rs, was) /\ was \in WritesTo(f)
      BY <1>2, <1>7, <1>9
    <3>2. QED
      BY <3>1, <1>1, AppendProperties
  <2>2. w.at = g[Header] => HasTask(rest, f, Header)
    BY <1>3, <1>4, Facts
  <2>3. QED
    BY <2>1, <2>2, <1>2, <1>4 DEF BufferedFor
<1>13. Flushed(f)' = Apply(g, w)
  BY <1>2 DEF Flushed
<1>14. FileInv(f)'
  BY <1>2, <1>3, <1>4, <1>10, <1>11, <1>12, <1>13 DEF FileInv
<1> DEFINE r == Replay(g, rs)
           u == Undone(f)'
<1>15. /\ r \in FilesOf(f) /\ r[Header] = Undone(f)[Header]
       /\ ops <= 1 => Vector(r) = before[f]
  BY FlushUndone DEF g
<1>16. \A c \in Cells : u[c] = IF Journaled(f, w) /\ c = w.at THEN g[w.at] ELSE r[c]
  <2>1. u = Replay(g, rs')
    BY <1>2 DEF Undone
  <2>2. QED
    BY <2>1, <1>1, <1>2, <1>3, <1>9, ReplayAppend
<1> HIDE DEF r, u
<1>17. u[Header] = IF w.at = Header THEN g[Header] ELSE Undone(f)[Header]
  BY <1>3, <1>7, <1>15, <1>16, Facts
<1>18. FirstFor(f)'
  <2> SUFFICES ASSUME ops <= 1
               PROVE  /\ \A c \in Cells : HasTask(rest, f, c) => ~ HasRecord(rs', c)
                      /\ Vector(u) = before[f]
    BY <1>2 DEF FirstFor, u
  <2>1. \A c \in Cells : HasTask(todo, f, c) => ~ HasRecord(rs, c)
    BY DEF FirstFor
  <2>2. ASSUME NEW c \in Cells, HasTask(rest, f, c) PROVE ~ HasRecord(rs', c)
    <3>1. HasTask(todo, f, c)
      <4>1. PICK i \in TasksOf(rest, f) : rest[i][2].at = c
        BY <2>2 DEF HasTask
      <4>2. i \in 1 .. Len(todo) - 1 /\ rest[i] = todo[i + 1] /\ DOMAIN todo = 1 .. Len(todo)
            /\ Len(todo) \in Nat
        BY <4>1, <1>2, HeadTailProperties DEF TasksOf, rest
      <4>3. i + 1 \in TasksOf(todo, f)
        BY <4>1, <4>2 DEF TasksOf
      <4>4. QED
        BY <4>1, <4>2, <4>3 DEF HasTask
    <3>2. ~ HasRecord(rs, c) /\ c # w.at
      BY <3>1, <2>1, <2>2, <1>4
    <3>3. CASE Journaled(f, w)
      <4>1. /\ rs' = Append(rs, was) /\ Len(rs) \in Nat /\ DOMAIN rs = 1 .. Len(rs)
            /\ DOMAIN rs' = 1 .. Len(rs) + 1 /\ rs'[Len(rs) + 1] = was
            /\ \A j \in 1 .. Len(rs) : rs'[j] = rs[j]
        BY <3>3, <1>1, <1>2, <1>9, AppendProperties
      <4>2. \A i \in DOMAIN rs' : i \in DOMAIN rs \/ i = Len(rs) + 1
        BY <4>1
      <4>3. QED
        BY <4>1, <4>2, <3>2, <3>3, <1>9 DEF HasRecord
    <3>4. CASE ~ Journaled(f, w)
      BY <3>2, <3>4, <1>2
    <3>5. QED
      BY <3>3, <3>4
  <2>3. ASSUME NEW c \in Cells PROVE u[c] = r[c]
    <3>1. CASE Journaled(f, w) /\ c = w.at
      <4>1. ~ HasRecord(rs, c)
        BY <3>1, <2>1, <1>5
      <4>2. r[c] = g[c]
        BY <4>1, <1>1, <1>3, ReplayCell DEF r
      <4>3. QED
        BY <4>2, <3>1, <1>16
    <3>2. CASE ~ (Journaled(f, w) /\ c = w.at)
      BY <3>2, <1>16
    <3>3. QED
      BY <3>1, <3>2
  <2>4. r[Header] \in Nat /\ r[Header] = u[Header] /\ \A c \in 0 .. r[Header] - 1 : c \in Cells
    BY <2>3, <1>15, FileFacts, Facts
  <2>5. Vector(r) = Vector(u)
    BY <2>3, <2>4, SameVector
  <2>6. QED
    BY <2>2, <2>5, <1>15
<1>19. QED
  BY <1>4, <1>6, <1>8, <1>13, <1>14, <1>17, <1>18 DEF g, u

LEMMA OtherKeepsFile ==
    ASSUME NEW f \in Files, FileInv(f), FirstFor(f), NEW S, todo \in Seq(S),
           disk'[f] = disk[f], pending'[f] = pending[f], records'[f] = records[f],
           todo' = todo \/ (todo # <<>> /\ Head(todo)[1] # f /\ todo' = Tail(todo)),
           ops' = ops, before' = before
    PROVE  FileInv(f)' /\ FirstFor(f)' /\ Flushed(f)' = Flushed(f) /\ Undone(f)' = Undone(f)
<1>1. Flushed(f)' = Flushed(f) /\ Undone(f)' = Undone(f) /\ TypesOf(f)'
  BY DEF Flushed, Undone, FileInv, TypesOf
<1>2. /\ PlannedFor(Flushed(f), todo', f)
      /\ \A c : HasTask(todo', f, c) <=> HasTask(todo, f, c)
      /\ TasksOf(todo, f) = {} => TasksOf(todo', f) = {}
  <2>1. CASE todo' = todo
    BY <2>1 DEF FileInv
  <2>2. CASE todo # <<>> /\ Head(todo)[1] # f /\ todo' = Tail(todo)
    BY <2>2, PlanOther DEF FileInv
  <2>3. QED
    BY <2>1, <2>2
<1>3. pending[f] # NoWrite => BufferedFor(f)'
  BY <1>2 DEF FileInv, BufferedFor
<1>4. FileInv(f)'
  BY <1>1, <1>2, <1>3 DEF FileInv
<1>5. FirstFor(f)'
  BY <1>1, <1>2 DEF FirstFor
<1>6. QED
  BY <1>1, <1>4, <1>5

-------------------------------------------------------------------------------
(* Positions. *)

Shifted(ws, rest, f) ==
    /\ \A i \in TasksOf(rest, f) :
            i \in Nat /\ i >= 1 /\ i + 1 \in TasksOf(ws, f) /\ rest[i] = ws[i + 1]
    /\ \A j \in TasksOf(ws, f) :
            /\ j \in Nat /\ j >= 1
            /\ j # 1 => j - 1 \in TasksOf(rest, f) /\ rest[j - 1] = ws[j]
    /\ 1 \in TasksOf(ws, f) <=> Head(ws)[1] = f
    /\ ws[1] = Head(ws)

LEMMA TailTasks ==
    ASSUME NEW f, NEW S, NEW ws \in Seq(S), ws # <<>>
    PROVE  Shifted(ws, Tail(ws), f)
<1> DEFINE n == Len(ws)
           rest == Tail(ws)
<1>1. /\ n \in Nat /\ n >= 1 /\ DOMAIN ws = 1 .. n /\ Head(ws) = ws[1]
      /\ DOMAIN rest = 1 .. n - 1 /\ \A i \in 1 .. n - 1 : rest[i] = ws[i + 1]
  BY HeadTailProperties
<1> HIDE DEF n, rest
<1>2. ASSUME NEW i \in TasksOf(rest, f)
      PROVE  i \in Nat /\ i >= 1 /\ i + 1 \in TasksOf(ws, f) /\ rest[i] = ws[i + 1]
  BY <1>1 DEF TasksOf
<1>3. ASSUME NEW j \in TasksOf(ws, f)
      PROVE  /\ j \in Nat /\ j >= 1
             /\ j # 1 => j - 1 \in TasksOf(rest, f) /\ rest[j - 1] = ws[j]
  <2>1. j \in 1 .. n
    BY <1>1 DEF TasksOf
  <2>2. j # 1 => j - 1 \in 1 .. n - 1 /\ j - 1 + 1 = j
    BY <2>1, <1>1
  <2>3. QED
    BY <2>1, <2>2, <1>1 DEF TasksOf
<1>4. 1 \in TasksOf(ws, f) <=> Head(ws)[1] = f
  BY <1>1 DEF TasksOf
<1>5. QED
  BY <1>1, <1>2, <1>3, <1>4 DEF rest, Shifted

\* Positions, and the mark for none, are numbers.
LEMMA PositionIsNumber ==
    ASSUME NEW f \in {"stack", "table"}
    PROVE  /\ \A e \in ElementsOf(f) : e \in Int
           /\ \A w \in WritesTo(f) : w.value \in Int
<1>1. \A e \in ElementsOf(f) : e \in Int
  BY Facts DEF ElementsOf, NoPos
<1>2. \A w \in WritesTo(f) : w.value \in Int
  BY <1>1, WriteFacts, Facts
<1>3. QED
  BY <1>1, <1>2

LEMMA WithinMore ==
    ASSUME NEW w, w.at # Header /\ w.value # NoData => w.value \in Int,
           NEW s \in Int, NEW t \in Int, s <= t, Within(s, w)
    PROVE  Within(t, w)
BY DEF Within

LEMMA CellsWithin ==
    ASSUME NEW f \in {"stack", "table"}, FileInv(f), PositionsFor(f)
    PROVE  \A c \in Cells : Within(OldSize, At(c, Flushed(f)[c]))
<1> SUFFICES ASSUME NEW c \in Cells PROVE Within(OldSize, At(c, Flushed(f)[c]))
  OBVIOUS
<1> DEFINE w == pending[f]
<1>1. CASE c = Header
  BY <1>1 DEF Within, At
<1>2. CASE c # Header
  <2>1. c \in Ids /\ Within(OldSize, At(c, disk[f][c])) /\ Within(OldSize, w)
    BY <1>2, Facts DEF PositionsFor
  <2>2. Flushed(f)[c] = disk[f][c] \/ (w \in WritesTo(f) /\ w.at = c /\ Flushed(f)[c] = w.value)
    <3>1. CASE w = NoWrite
      BY <3>1, ApplyNothing DEF Flushed
    <3>2. CASE w # NoWrite
      BY <3>2, ApplyCells DEF Flushed, FileInv, TypesOf
    <3>3. QED
      BY <3>1, <3>2
  <2>3. w \in WritesTo(f) => w = At(w.at, w.value)
    BY WriteFacts
  <2>4. QED
    BY <2>1, <2>2, <2>3
<1>3. QED
  BY <1>1, <1>2

\* The types of the numbers that these proofs compare.
LEMMA Numbers ==
    ASSUME \A f \in Files : FileInv(f)
    PROVE  /\ OldSize \in Nat /\ disk["storage"][Header] \in Nat
           /\ Flushed("storage")[Header] \in Nat
           /\ Flushed("storage")[Header] >= disk["storage"][Header]
<1>1. "storage" \in Files
  BY DEF Files
<1>2. FlushOf("storage", Flushed("storage")) /\ disk["storage"] \in FilesOf("storage")
      /\ Undone("storage") \in FilesOf("storage")
  BY <1>1, FlushFile, FlushUndone DEF FileInv, TypesOf
<1>3. QED
  BY <1>2, FileFacts DEF OldSize, FlushOf

LEMMA FlushPositions ==
    ASSUME \A f \in Files : FileInv(f), PositionsWithin, NEW f0 \in Files,
           disk' = [disk EXCEPT ![f0] = Flushed(f0)],
           pending' = [pending EXCEPT ![f0] = NoWrite],
           UNCHANGED <<records, todo>>, DOMAIN disk = Files, DOMAIN pending = Files,
           OldSize' = OldSize, Flushed("storage")' = Flushed("storage")
    PROVE  PositionsWithin'
<1>1. OldSize <= disk'["storage"][Header]
  BY Numbers DEF PositionsWithin, Files
<1>2. ASSUME NEW f \in {"stack", "table"} PROVE PositionsFor(f)'
  <2>1. f \in Files /\ PositionsFor(f)
    BY <1>2 DEF Files, PositionsWithin
  <2>2. \A c \in Ids : Within(OldSize, At(c, disk'[f][c]))
    BY <2>1, CellsWithin, Facts DEF PositionsFor
  <2>3. Within(OldSize, pending'[f])
    BY <2>1 DEF PositionsFor, Within, NoWrite, At
  <2>4. QED
    BY <2>1, <2>2, <2>3 DEF PositionsFor
<1>3. QED
  BY <1>1, <1>2 DEF PositionsWithin

\* The size of the storage file has its record before the position that comes
\* with it is written to the table.
LEMMA WritePositions ==
    ASSUME \A f \in Files : FileInv(f), PositionsWithin, NEW S, todo \in Seq(S),
           NEW f0 \in Files, NEW w, todo # <<>>, Head(todo)[1] = f0, w = Head(todo)[2],
           todo' = Tail(todo), w \in WritesTo(f0),
           disk'[f0] = Flushed(f0), pending'[f0] = w,
           records'[f0] = records[f0]
              \/ records'[f0] = Append(records[f0], At(w.at, Flushed(f0)[w.at])),
           At(w.at, Flushed(f0)[w.at]) \in WritesTo(f0) \/ records'[f0] = records[f0],
           \A f \in Files : f # f0 => /\ disk'[f] = disk[f] /\ records'[f] = records[f]
                                      /\ pending'[f] = pending[f],
           OldSize' = IF f0 = "storage" /\ w.at = Header THEN Flushed("storage")[Header]
                      ELSE OldSize,
           Flushed("storage")'[Header] =
                IF f0 = "storage" /\ w.at = Header THEN w.value ELSE Flushed("storage")[Header],
           f0 = "storage" /\ w.at = Header => w.value >= Flushed("storage")[Header]
    PROVE  PositionsWithin'
<1> DEFINE F == Flushed("storage")[Header]
<1>1. /\ OldSize \in Nat /\ disk["storage"][Header] \in Nat /\ F \in Nat
      /\ F >= disk["storage"][Header] /\ OldSize <= disk["storage"][Header]
      /\ OldSize <= F
  BY Numbers DEF PositionsWithin
<1>2. /\ OldSize' \in Nat /\ OldSize <= OldSize' /\ OldSize' <= F
      /\ (f0 = "storage" /\ w.at = Header => OldSize' = F)
  BY <1>1
<1>3. f0 = "storage" /\ w.at = Header => w.value \in Nat
  BY WriteFacts, Facts
<1> DEFINE G == Flushed("storage")'[Header]
           rest == Tail(todo)
<1>4. F \in Nat /\ G \in Nat /\ F <= G
  BY <1>1, <1>3
<1>5. OldSize' <= disk'["storage"][Header]
  <2>1. CASE f0 = "storage"
    BY <2>1, <1>2
  <2>2. CASE f0 # "storage"
    <3>1. disk'["storage"] = disk["storage"] /\ OldSize' = OldSize
      BY <2>2 DEF Files
    <3>2. QED
      BY <3>1, <1>1
  <2>3. QED
    BY <2>1, <2>2
<1>tail. \A f : Shifted(todo, rest, f)
  BY TailTasks
<1> HIDE DEF F, G, rest
<1>6. ASSUME NEW f \in {"stack", "table"} PROVE PositionsFor(f)'
  <2>1. f \in Files /\ f # "storage" /\ PositionsFor(f) /\ FileInv(f)
    BY <1>6 DEF Files, PositionsWithin
  <2>2. /\ disk[f] \in FilesOf(f) /\ records[f] \in Seq(WritesTo(f))
        /\ pending[f] \in WritesTo(f) \cup {NoWrite}
        /\ Flushed(f) \in FilesOf(f)
    BY <2>1, FlushFile DEF FileInv, TypesOf, FlushOf
  <2>3. ASSUME NEW v, Within(OldSize, v), v.at # Header /\ v.value # NoData => v.value \in Int
        PROVE  Within(OldSize', v)
    BY <2>3, <1>1, <1>2, WithinMore
  <2>4. ASSUME NEW g \in FilesOf(f), NEW c \in Cells, Within(OldSize, At(c, g[c]))
        PROVE  Within(OldSize', At(c, g[c]))
    <3>1. At(c, g[c]).at # Header /\ At(c, g[c]).value # NoData => At(c, g[c]).value \in Int
      BY FileFacts, PositionIsNumber, Facts DEF At
    <3>2. QED
      BY <3>1, <2>3, <2>4
  <2>5. ASSUME NEW c \in Ids PROVE Within(OldSize', At(c, disk'[f][c]))
    <3>1. c \in Cells /\ Within(OldSize, At(c, disk[f][c])) /\ Within(OldSize, At(c, Flushed(f)[c]))
      BY <2>1, CellsWithin, Facts DEF PositionsFor
    <3>2. disk'[f] = disk[f] \/ disk'[f] = Flushed(f)
      BY <2>1
    <3>3. QED
      BY <3>1, <3>2, <2>2, <2>4
  <2>6. ASSUME NEW i \in TasksOf(todo, f)
        PROVE  /\ todo[i][2] \in WritesTo(f) /\ todo[i][2].value \in Int
               /\ \/ Within(OldSize, todo[i][2])
                  \/ /\ todo[i][2].value <= F
                     /\ \E j \in TasksOf(todo, "storage") : j < i /\ todo[j][2].at = Header
    BY <2>1, PositionIsNumber DEF PositionsFor, FileInv, PlannedFor, F
  <2>7. \A j \in TasksOf(todo, "storage") : j \in Nat /\ j >= 1
    BY <1>tail DEF Shifted
  <2>8. Within(OldSize', pending'[f])
    <3>1. CASE f = f0
      <4>1. 1 \in TasksOf(todo, f) /\ todo[1][2] = w
        BY <3>1, <1>tail DEF Shifted
      <4>2. Within(OldSize, w)
        BY <4>1, <2>6, <2>7
      <4>3. QED
        BY <3>1, <4>1, <4>2, <2>3, <2>6
    <3>2. CASE f # f0
      <4>1. Within(OldSize, pending[f]) /\ pending'[f] = pending[f]
        BY <3>2, <2>1 DEF PositionsFor
      <4>2. CASE pending[f] = NoWrite
        BY <4>1, <4>2 DEF Within, NoWrite, At
      <4>3. CASE pending[f] # NoWrite
        BY <4>1, <4>3, <2>2, <2>3, PositionIsNumber
      <4>4. QED
        BY <4>2, <4>3
    <3>3. QED
      BY <3>1, <3>2
  <2>9. ASSUME NEW i \in DOMAIN records'[f] PROVE Within(OldSize', records'[f][i])
    <3>1. ASSUME NEW k \in DOMAIN records[f] PROVE Within(OldSize', records[f][k])
      <4>1. Within(OldSize, records[f][k]) /\ records[f][k] \in WritesTo(f)
        BY <2>1, <2>2, LenProperties, ElementOfSeq DEF PositionsFor
      <4>2. QED
        BY <4>1, <2>3, PositionIsNumber
    <3>2. CASE records'[f] = records[f]
      BY <3>1, <3>2
    <3>3. CASE records'[f] # records[f]
      <4> DEFINE r == At(w.at, Flushed(f)[w.at])
      <4>1. f = f0
        BY <3>3, <2>1
      <4>2. records'[f] = Append(records[f], r) /\ r \in WritesTo(f)
        BY <3>3, <4>1
      <4>3. Within(OldSize', r)
        <5>1. w.at \in Cells
          BY <4>1, WriteFacts
        <5>2. Within(OldSize, r)
          BY <5>1, <2>1, CellsWithin
        <5>3. QED
          BY <5>1, <5>2, <2>2, <2>4
      <4> HIDE DEF r
      <4>4. /\ Len(records[f]) \in Nat /\ DOMAIN records[f] = 1 .. Len(records[f])
            /\ DOMAIN records'[f] = 1 .. Len(records[f]) + 1
            /\ records'[f][Len(records[f]) + 1] = r
            /\ \A j \in 1 .. Len(records[f]) : records'[f][j] = records[f][j]
        BY <4>2, <2>2, AppendProperties
      <4>5. i \in 1 .. Len(records[f]) \/ i = Len(records[f]) + 1
        BY <4>4
      <4>6. QED
        BY <4>3, <4>4, <4>5, <3>1
    <3>4. QED
      BY <3>2, <3>3
  <2>10. ASSUME NEW i \in TasksOf(rest, f)
         PROVE  \/ Within(OldSize', rest[i][2])
                \/ /\ rest[i][2].value <= G
                   /\ \E j \in TasksOf(rest, "storage") : j < i /\ rest[j][2].at = Header
    <3>1. i \in Nat /\ i + 1 \in TasksOf(todo, f) /\ rest[i] = todo[i + 1]
      BY <1>tail DEF Shifted
    <3>2. CASE Within(OldSize, todo[i + 1][2])
      BY <3>1, <3>2, <2>3, <2>6
    <3>3. ASSUME ~ Within(OldSize, todo[i + 1][2])
          PROVE  \/ Within(OldSize', rest[i][2])
                 \/ /\ rest[i][2].value <= G
                    /\ \E j \in TasksOf(rest, "storage") : j < i /\ rest[j][2].at = Header
      <4>1. PICK j \in TasksOf(todo, "storage") : j < i + 1 /\ todo[j][2].at = Header
        BY <3>1, <3>3, <2>6
      <4>2. todo[i + 1][2].value <= F /\ todo[i + 1][2].value \in Int
        BY <3>1, <3>3, <2>6
      <4>3. CASE j = 1
        <5>1. f0 = "storage" /\ w.at = Header
          BY <4>1, <4>3, <1>tail DEF Shifted
        <5>2. QED
          BY <5>1, <4>2, <3>1, <1>2 DEF Within
      <4>4. CASE j # 1
        <5>1. j \in Nat /\ j - 1 \in TasksOf(rest, "storage") /\ rest[j - 1] = todo[j]
          BY <4>4, <1>tail DEF Shifted
        <5>2. j - 1 < i
          BY <5>1, <4>1, <3>1
        <5>3. rest[i][2].value <= G
          BY <4>2, <3>1, <1>4
        <5>4. QED
          BY <5>1, <5>2, <5>3, <4>1
      <4>5. QED
        BY <4>3, <4>4
    <3>4. QED
      BY <3>2, <3>3
  <2>11. QED
    BY <2>5, <2>8, <2>9, <2>10 DEF PositionsFor, G, rest
<1>7. QED
  BY <1>5, <1>6 DEF PositionsWithin

-------------------------------------------------------------------------------
(* What the writes under way will make of the files. *)

\* ws with the writes to other files left out.
Pad(ws, f) == [i \in DOMAIN ws |-> IF ws[i][1] = f THEN ws[i][2] ELSE NoWrite]

Made(g, ws, f) == Replay(g, Pad(ws, f))

MadeOf(p, g, ws, f) ==
    /\ p = [c \in Cells |-> p[c]]
    /\ \A c \in Cells : ~ HasTask(ws, f, c) => p[c] = g[c]
    /\ \A i \in TasksOf(ws, f) : p[ws[i][2].at] = ws[i][2].value

LEMMA MadeCells ==
    ASSUME NEW f, NEW g \in FilesOf(f), NEW S, NEW ws \in Seq(S), PlannedFor(g, ws, f)
    PROVE  MadeOf(Made(g, ws, f), g, ws, f)
<1> DEFINE pad == Pad(ws, f)
           p == Made(g, ws, f)
           n == Len(ws)
<1>1. n \in Nat /\ DOMAIN ws = 1 .. n /\ DOMAIN pad = 1 .. n
  BY LenProperties DEF Pad
<1>2. \A i \in DOMAIN ws : pad[i] = IF ws[i][1] = f THEN ws[i][2] ELSE NoWrite
  BY DEF Pad
<1>3. p = Replay(g, pad)
  BY DEF Made
<1>4. p = [c \in Cells |-> p[c]] /\ DOMAIN g = Cells
  BY FileFacts DEF Made, Replay
<1> HIDE DEF pad, p, n
<1>5. \A i \in TasksOf(ws, f) :
        /\ i \in 1 .. n /\ pad[i] = ws[i][2] /\ pad[i] # NoWrite /\ pad[i].at \in Cells
        /\ \A j \in TasksOf(ws, f) : j # i => ws[j][2].at # ws[i][2].at
  BY <1>1, <1>2, WriteFacts DEF PlannedFor, TasksOf
<1>6. ASSUME NEW c, NEW i
      PROVE  i \in WritesOf(pad, c) <=> i \in TasksOf(ws, f) /\ ws[i][2].at = c
  BY <1>1, <1>2, <1>5 DEF WritesOf, TasksOf
<1>7. ASSUME NEW c \in Cells, ~ HasTask(ws, f, c) PROVE p[c] = g[c]
  <2>1. WritesOf(pad, c) = {}
    BY <1>6, <1>7 DEF HasTask
  <2>2. QED
    BY <2>1, <1>1, <1>3, <1>4, ReplayAt
<1>8. ASSUME NEW i \in TasksOf(ws, f) PROVE p[ws[i][2].at] = ws[i][2].value
  <2> DEFINE c == ws[i][2].at
  <2>1. c \in Cells /\ i \in WritesOf(pad, c) /\ i \in 1 .. n
    BY <1>5, <1>6
  <2>2. \A j \in WritesOf(pad, c) : j = i
    BY <1>5, <1>6
  <2> HIDE DEF c
  <2>3. IsLast(pad, c, i)
    BY <2>1, <2>2, <1>1 DEF IsLast
  <2>4. p[c] = pad[i].value
    BY <2>1, <2>3, <1>1, <1>3, <1>4, ReplayAt
  <2>5. QED
    BY <2>4, <1>5 DEF c
<1>9. QED
  BY <1>4, <1>7, <1>8 DEF MadeOf, p

\* The first write is made: what will be made is the same.
LEMMA MadeHead ==
    ASSUME NEW f, NEW g \in FilesOf(f), NEW S, NEW ws \in Seq(S), ws # <<>>,
           Head(ws)[1] = f, PlannedFor(g, ws, f)
    PROVE  Made(Apply(g, Head(ws)[2]), Tail(ws), f) = Made(g, ws, f)
<1> DEFINE w == Head(ws)[2]
           rest == Tail(ws)
           h == Apply(g, w)
           p == Made(g, ws, f)
           q == Made(h, rest, f)
<1>1. w \in WritesTo(f) /\ PlannedFor(h, rest, f) /\ ~ HasTask(rest, f, w.at)
  BY PlanHead
<1>2. h \in FilesOf(f) /\ \A c \in Cells : h[c] = IF w.at = c THEN w.value ELSE g[c]
  BY <1>1, ApplyCells
<1>3. MadeOf(p, g, ws, f)
  BY MadeCells
<1>4. rest \in Seq(S) /\ Shifted(ws, rest, f)
  BY TailTasks, HeadTailProperties
<1>5. MadeOf(q, h, rest, f)
  <2> HIDE DEF h, rest
  <2>1. QED
    BY <1>1, <1>2, <1>4, MadeCells
<1>6. 1 \in TasksOf(ws, f) /\ ws[1][2] = w
  BY <1>4 DEF Shifted
<1> HIDE DEF w, rest, h, p, q
<1>7. ASSUME NEW c \in Cells PROVE q[c] = p[c]
  <2>1. CASE HasTask(rest, f, c)
    <3>1. PICK i \in TasksOf(rest, f) : rest[i][2].at = c
      BY <2>1 DEF HasTask
    <3>2. i + 1 \in TasksOf(ws, f) /\ rest[i] = ws[i + 1]
      BY <1>4 DEF Shifted
    <3>3. q[c] = rest[i][2].value
      BY <3>1, <1>5 DEF MadeOf
    <3>4. p[c] = ws[i + 1][2].value
      BY <3>1, <3>2, <1>3 DEF MadeOf
    <3>5. QED
      BY <3>2, <3>3, <3>4
  <2>2. CASE ~ HasTask(rest, f, c) /\ c = w.at
    <3>1. q[c] = w.value
      BY <2>2, <1>2, <1>5 DEF MadeOf
    <3>2. p[c] = w.value
      BY <2>2, <1>3, <1>6 DEF MadeOf
    <3>3. QED
      BY <3>1, <3>2
  <2>3. CASE ~ HasTask(rest, f, c) /\ c # w.at
    <3>1. ~ HasTask(ws, f, c)
      <4> SUFFICES ASSUME NEW j \in TasksOf(ws, f), ws[j][2].at = c PROVE FALSE
        BY DEF HasTask
      <4>1. j # 1
        BY <2>3, <1>6
      <4>2. j - 1 \in TasksOf(rest, f) /\ rest[j - 1] = ws[j]
        BY <4>1, <1>4 DEF Shifted
      <4>3. QED
        BY <4>2, <2>3 DEF HasTask
    <3>2. q[c] = g[c]
      BY <2>3, <1>2, <1>5 DEF MadeOf
    <3>3. p[c] = g[c]
      BY <3>1, <1>3 DEF MadeOf
    <3>4. QED
      BY <3>2, <3>3
  <2>4. QED
    BY <2>1, <2>2, <2>3
<1>8. p = [c \in Cells |-> p[c]] /\ q = [c \in Cells |-> q[c]]
  BY <1>3, <1>5 DEF MadeOf
<1>9. q = p
  BY <1>7, <1>8
<1>10. QED
  BY <1>9 DEF p, q, h, rest, w

LEMMA MadeOther ==
    ASSUME NEW f, NEW g \in FilesOf(f), NEW S, NEW ws \in Seq(S), ws # <<>>,
           Head(ws)[1] # f, PlannedFor(g, ws, f)
    PROVE  Made(g, Tail(ws), f) = Made(g, ws, f)
<1> DEFINE rest == Tail(ws)
           p == Made(g, ws, f)
           q == Made(g, rest, f)
<1>1. PlannedFor(g, rest, f) /\ \A c : HasTask(rest, f, c) <=> HasTask(ws, f, c)
  BY PlanOther
<1>2. MadeOf(p, g, ws, f)
  BY MadeCells
<1>3. rest \in Seq(S) /\ Shifted(ws, rest, f)
  BY TailTasks, HeadTailProperties
<1>4. MadeOf(q, g, rest, f)
  <2> HIDE DEF rest
  <2>1. QED
    BY <1>1, <1>3, MadeCells
<1> HIDE DEF rest, p, q
<1>5. ASSUME NEW c \in Cells PROVE q[c] = p[c]
  <2>1. CASE HasTask(rest, f, c)
    <3>1. PICK i \in TasksOf(rest, f) : rest[i][2].at = c
      BY <2>1 DEF HasTask
    <3>2. i + 1 \in TasksOf(ws, f) /\ rest[i] = ws[i + 1]
      BY <1>3 DEF Shifted
    <3>3. q[c] = rest[i][2].value
      BY <3>1, <1>4 DEF MadeOf
    <3>4. p[c] = ws[i + 1][2].value
      BY <3>1, <3>2, <1>2 DEF MadeOf
    <3>5. QED
      BY <3>2, <3>3, <3>4
  <2>2. CASE ~ HasTask(rest, f, c)
    BY <2>2, <1>1, <1>2, <1>4 DEF MadeOf
  <2>3. QED
    BY <2>1, <2>2
<1>6. p = [c \in Cells |-> p[c]] /\ q = [c \in Cells |-> q[c]]
  BY <1>2, <1>4 DEF MadeOf
<1>7. q = p
  BY <1>5, <1>6
<1>8. QED
  BY <1>7 DEF p, q, rest

LEMMA PromisedMade ==
    /\ Promised = [f \in Files |-> Made(Flushed(f), todo, f)]
    /\ Promised' = [f \in Files |-> Made(Flushed(f)', todo', f)]
BY DEF Promised, After, Made, Pad, Flushed

-------------------------------------------------------------------------------
(* The invariant: the beginning, and the writes. *)

LEMMA NoTasks ==
    \A f : /\ TasksOf(<<>>, f) = {}
           /\ \A c : ~ HasTask(<<>>, f, c)
           /\ \A g : PlannedFor(g, <<>>, f)
BY DEF TasksOf, HasTask, PlannedFor

LEMMA EmptyJournal ==
    ASSUME NEW rs, rs = <<>>
    PROVE  \A c : ~ HasRecord(rs, c)
BY DEF HasRecord

LEMMA InitInv == Init => Inv
<1> SUFFICES ASSUME Init PROVE Inv
  OBVIOUS
<1> DEFINE g == [c \in Cells |-> IF c = Header THEN 0 ELSE NoData]
<1>1. /\ disk = [f \in Files |-> g] /\ records = [f \in Files |-> <<>>]
      /\ pending = [f \in Files |-> NoWrite]
      /\ todo = <<>> /\ replace = NoInsert /\ pc = 0 /\ ops = 0 /\ crashes = 0
      /\ before = [f \in Files |-> Vector(disk[f])]
  BY DEF Init, ForAll, Vectors
<1>2. g = [c \in Cells |-> g[c]] /\ g[Header] = 0 /\ \A c \in Ids : g[c] = NoData
  BY Facts
<1>3. 0 \in Sizes
  BY Facts DEF Sizes
<1> HIDE DEF g
<1>4. \A f : g \in FilesOf(f)
  BY <1>2, <1>3, IsFile
<1>5. ASSUME NEW f \in Files PROVE FileInv(f) /\ FirstFor(f)
  <2>1. disk[f] = g /\ records[f] = <<>> /\ pending[f] = NoWrite
    BY <1>1
  <2>2. TypesOf(f)
    BY <2>1, <1>4 DEF TypesOf
  <2>3. Filled(g, 0)
    BY DEF Filled
  <2>4. FileInv(f)
    BY <2>1, <2>2, <2>3, <1>1, <1>2, NoTasks DEF FileInv
  <2>5. Undone(f) = g
    BY <2>1, <1>4, ReplayNone DEF Undone
  <2>6. FirstFor(f)
    BY <2>1, <2>5, <1>1, NoTasks DEF FirstFor
  <2>7. QED
    BY <2>4, <2>6
<1>6. Types
  BY <1>1 DEF Types, FilesInOrder
<1>7. Stages
  BY <1>1 DEF Stages, ForAll
<1>8. PositionsWithin
  <2>1. {"storage", "stack", "table"} = Files
    BY DEF Files
  <2>2. disk["storage"] = g /\ records["storage"] = <<>>
    BY <1>1, <2>1
  <2>3. OldSize = 0
    BY <2>2, <1>2, <1>4, ReplayNone DEF OldSize, Undone
  <2>4. ASSUME NEW f \in {"stack", "table"} PROVE PositionsFor(f)
    <3>1. disk[f] = g /\ records[f] = <<>> /\ pending[f] = NoWrite
      BY <1>1, <2>1, <2>4
    <3>2. QED
      BY <3>1, <1>1, <1>2, NoTasks DEF PositionsFor, Within, At, NoWrite
  <2>5. QED
    BY <2>2, <2>3, <2>4, <1>2 DEF PositionsWithin
<1>9. ReplaceInStep
  BY <1>1 DEF ReplaceInStep
<1>10. QED
  BY <1>5, <1>6, <1>7, <1>8, <1>9 DEF Inv

\* Emptying a buffer changes nothing of what was promised.
LEMMA FlushInv ==
    ASSUME Inv, NEW f0 \in Files, Flush(f0)
    PROVE  Inv' /\ Promised' = Promised
<1>1. /\ pending[f0] # NoWrite
      /\ disk' = [disk EXCEPT ![f0] = Flushed(f0)]
      /\ pending' = [pending EXCEPT ![f0] = NoWrite]
      /\ UNCHANGED <<records, todo, replace, pc, ops, before, crashes>>
  BY DEF Flush, Flushed, ghosts
<1>2. Types /\ DOMAIN disk = Files /\ DOMAIN pending = Files /\ todo \in Seq(Tasks)
  BY DEF Inv, Types
<1>3. ASSUME NEW f \in Files
      PROVE  FileInv(f)' /\ FirstFor(f)' /\ Flushed(f)' = Flushed(f)
             /\ Undone(f)'[Header] = Undone(f)[Header]
  <2>1. FileInv(f) /\ FirstFor(f)
    BY DEF Inv
  <2>2. CASE f = f0
    <3>1. disk'[f] = Flushed(f) /\ pending'[f] = NoWrite
      BY <2>2, <1>1, <1>2
    <3>2. QED
      BY <3>1, <2>1, <1>1, FlushKeepsFile
  <2>3. CASE f # f0
    <3>1. disk'[f] = disk[f] /\ pending'[f] = pending[f]
      BY <2>3, <1>1, <1>2
    <3>2. QED
      BY <3>1, <2>1, <1>1, <1>2, OtherKeepsFile
  <2>4. QED
    BY <2>2, <2>3
<1>4. Promised' = Promised
  BY <1>1, <1>3, PromisedMade
<1>5. Types'
  BY <1>1, <1>2 DEF Types
<1>6. Stages'
  <2>1. pending # ForAll(NoWrite)
    BY <1>1 DEF ForAll
  <2>2. QED
    BY <2>1, <1>1 DEF Inv, Stages
<1>7. PositionsWithin'
  <2>1. OldSize' = OldSize /\ Flushed("storage")' = Flushed("storage")
    BY <1>3 DEF OldSize, Files
  <2>2. PositionsWithin /\ \A f \in Files : FileInv(f)
    BY DEF Inv
  <2>3. QED
    BY <2>1, <2>2, <1>1, <1>2, FlushPositions
<1>8. ReplaceInStep'
  BY <1>1, <1>4 DEF Inv, ReplaceInStep
<1>9. QED
  BY <1>3, <1>4, <1>5, <1>6, <1>7, <1>8 DEF Inv

LEMMA WriteInv ==
    ASSUME Inv, Write
    PROVE  Inv' /\ Promised' = Promised
<1>0. PICK f0, w : f0 = Head(todo)[1] /\ w = Head(todo)[2]
  OBVIOUS
<1> DEFINE S == Tasks
           r == At(w.at, Flushed(f0)[w.at])
           S2 == IF Journaled(f0, w) THEN Append(records[f0], r) ELSE records[f0]
<1>1. /\ todo # <<>> /\ todo' = Tail(todo)
      /\ disk' = [disk EXCEPT ![f0] = Flushed(f0)]
      /\ records' = [records EXCEPT ![f0] = S2]
      /\ pending' = [pending EXCEPT ![f0] = w]
      /\ UNCHANGED <<replace, pc, ops, before, crashes>>
  BY <1>0 DEF Write, Flushed, ghosts
<1>2. Types /\ DOMAIN disk = Files /\ DOMAIN pending = Files /\ DOMAIN records = Files
      /\ todo \in Seq(S) /\ ops \in Nat
  BY DEF Inv, Types
<1>3. f0 \in Files /\ Tail(todo) \in Seq(S)
  <2>1. Head(todo) \in S /\ Tail(todo) \in Seq(S)
    BY <1>1, <1>2, HeadTailProperties
  <2>2. QED
    BY <2>1, <1>0 DEF Tasks
<1>4. ops # 0 /\ pc = 0
  BY <1>1 DEF Inv, Stages
<1> HIDE DEF S, S2
<1>5. WriteTo(f0, w)
  BY <1>0, <1>1, <1>2, <1>3 DEF WriteTo, S2
<1>6. \A f \in Files : FileInv(f) /\ FirstFor(f)
  BY DEF Inv
<1>7. /\ FileInv(f0)' /\ FirstFor(f0)'
      /\ w \in WritesTo(f0)
      /\ Flushed(f0)' = Apply(Flushed(f0), w)
      /\ Flushed(f0)[Header] = disk[f0][Header]
      /\ w.at = Header /\ f0 = "storage" => w.value >= Flushed(f0)[Header]
      /\ Undone(f0)'[Header] = IF w.at = Header THEN Flushed(f0)[Header]
                               ELSE Undone(f0)[Header]
      /\ Journaled(f0, w) => Flushed(f0)[w.at] # NoData
  BY <1>2, <1>3, <1>4, <1>5, <1>6, WriteKeepsFile
<1>8. ASSUME NEW f \in Files, f # f0
      PROVE  /\ FileInv(f)' /\ FirstFor(f)' /\ Flushed(f)' = Flushed(f) /\ Undone(f)' = Undone(f)
             /\ disk'[f] = disk[f] /\ records'[f] = records[f] /\ pending'[f] = pending[f]
  <2>1. disk'[f] = disk[f] /\ records'[f] = records[f] /\ pending'[f] = pending[f]
    BY <1>1, <1>2, <1>8
  <2>2. Head(todo)[1] # f
    BY <1>0, <1>8
  <2>3. QED
    BY <2>1, <2>2, <1>1, <1>2, <1>6, OtherKeepsFile
<1>9. \A f \in Files : Flushed(f) \in FilesOf(f) /\ PlannedFor(Flushed(f), todo, f)
  BY <1>6, FlushFile DEF FlushOf, FileInv
<1>10. Promised' = Promised
  <2>1. ASSUME NEW f \in Files PROVE Made(Flushed(f)', todo', f) = Made(Flushed(f), todo, f)
    <3>1. CASE f = f0
      <4>1. Flushed(f)' = Apply(Flushed(f), Head(todo)[2]) /\ Head(todo)[1] = f
        BY <3>1, <1>0, <1>7
      <4>2. QED
        BY <4>1, <1>1, <1>2, <1>9, MadeHead
    <3>2. CASE f # f0
      <4>1. Flushed(f)' = Flushed(f) /\ Head(todo)[1] # f
        BY <3>2, <1>0, <1>8
      <4>2. QED
        BY <4>1, <1>1, <1>2, <1>9, MadeOther
    <3>3. QED
      BY <3>1, <3>2
  <2>2. QED
    BY <2>1, PromisedMade
<1>11. Types'
  <2>1. todo' \in Seq(S)
    BY <1>1, <1>3
  <2>2. QED
    BY <2>1, <1>1, <1>2 DEF Types, S
<1>12. Stages'
  BY <1>1, <1>4 DEF Stages
<1>13. PositionsWithin'
  <2>1. /\ disk'[f0] = Flushed(f0) /\ pending'[f0] = w
        /\ records'[f0] = records[f0] \/ records'[f0] = Append(records[f0], r)
    BY <1>1, <1>2, <1>3 DEF S2
  <2>2. r \in WritesTo(f0) \/ records'[f0] = records[f0]
    <3>1. CASE Journaled(f0, w)
      BY <3>1, <1>3, <1>7, <1>9, FileFacts, WriteFacts
    <3>2. CASE ~ Journaled(f0, w)
      BY <3>2, <1>1, <1>2, <1>3 DEF S2
    <3>3. QED
      BY <3>1, <3>2
  <2>3. "storage" \in Files
    BY DEF Files
  <2>4. OldSize' = IF f0 = "storage" /\ w.at = Header THEN Flushed("storage")[Header] ELSE OldSize
    BY <2>3, <1>7, <1>8 DEF OldSize
  <2>5. Flushed("storage")'[Header] =
            IF f0 = "storage" /\ w.at = Header THEN w.value ELSE Flushed("storage")[Header]
    <3>1. CASE f0 = "storage"
      BY <3>1, <1>7, <1>9, <2>3, ApplyCells, Facts
    <3>2. CASE f0 # "storage"
      BY <3>2, <2>3, <1>8
    <3>3. QED
      BY <3>1, <3>2
  <2>6. f0 = "storage" /\ w.at = Header => w.value >= Flushed("storage")[Header]
    BY <1>7
  <2>7. /\ PositionsWithin /\ todo # <<>> /\ Head(todo)[1] = f0 /\ w = Head(todo)[2]
        /\ todo' = Tail(todo) /\ \A f \in Files : FileInv(f)
    BY <1>0, <1>1, <1>6 DEF Inv
  <2> HIDE DEF r
  <2>8. QED
    BY <2>1, <2>2, <2>4, <2>5, <2>6, <2>7, <1>2, <1>3, <1>7, <1>8, WritePositions DEF r
<1>14. ReplaceInStep'
  BY <1>1, <1>10 DEF Inv, ReplaceInStep
<1>15. QED
  BY <1>7, <1>8, <1>10, <1>11, <1>12, <1>13, <1>14 DEF Inv

-------------------------------------------------------------------------------
(* The invariant: crashes and restores. *)

LEMMA CrashInv == ASSUME Inv, Crash PROVE Inv'
<1>1. /\ pending' = ForAll(NoWrite) /\ todo' = <<>> /\ replace' = NoInsert /\ pc' = 1
      /\ crashes' = crashes + 1 /\ UNCHANGED <<disk, records, ops, before>>
  BY DEF Crash, ghosts
<1>2. \A f \in Files : pending'[f] = NoWrite
  BY <1>1 DEF ForAll
<1>3. ASSUME NEW f \in Files PROVE FileInv(f)' /\ FirstFor(f)'
  <2>1. FileInv(f) /\ FirstFor(f) /\ Undone(f)' = Undone(f)
    BY <1>1 DEF Inv, Undone
  <2>2. TypesOf(f)'
    BY <2>1, <1>1, <1>2 DEF FileInv, TypesOf
  <2>3. FileInv(f)'
    BY <2>1, <2>2, <1>1, <1>2, NoTasks DEF FileInv
  <2>4. FirstFor(f)'
    BY <2>1, <1>1, NoTasks DEF FirstFor
  <2>5. QED
    BY <2>3, <2>4
<1>4. Types'
  <2>1. todo' \in Seq(Tasks)
    BY <1>1
  <2>2. DOMAIN pending' = Files /\ pending' = [f \in Files |-> pending'[f]]
    BY <1>1 DEF ForAll
  <2>3. QED
    BY <2>1, <2>2, <1>1 DEF Inv, Types, FilesInOrder
<1>5. Stages'
  BY <1>1 DEF Stages, ForAll
<1>6. PositionsWithin'
  <2>1. OldSize' = OldSize
    BY <1>1 DEF OldSize, Undone
  <2>2. ASSUME NEW f \in {"stack", "table"} PROVE PositionsFor(f)'
    <3>1. PositionsFor(f) /\ pending'[f] = NoWrite
      BY <2>2, <1>2 DEF Inv, PositionsWithin, Files
    <3>2. Within(OldSize, NoWrite)
      BY DEF Within, NoWrite, At
    <3>3. QED
      BY <3>1, <3>2, <2>1, <1>1, NoTasks DEF PositionsFor
  <2>3. QED
    BY <2>1, <2>2, <1>1 DEF Inv, PositionsWithin
<1>7. ReplaceInStep'
  BY <1>1 DEF ReplaceInStep
<1>8. QED
  BY <1>3, <1>4, <1>5, <1>6, <1>7 DEF Inv

\* A file is replayed: the same would be made of it again.
LEMMA RestoreFileInv == ASSUME Inv, RestoreFile PROVE Inv'
<1> DEFINE f0 == FilesInOrder[pc]
<1>1. /\ pc \in 1 .. 3 /\ f0 \in Files
      /\ disk' = [disk EXCEPT ![f0] = Undone(f0)]
      /\ records' = [records EXCEPT ![f0] = <<>>]
      /\ pc' = pc + 1
      /\ UNCHANGED <<pending, todo, replace, ops, before, crashes>>
  BY DEF RestoreFile, FilesInOrder, Files, ghosts
<1>2. Types /\ DOMAIN disk = Files /\ DOMAIN records = Files
  BY DEF Inv, Types
<1>3. /\ todo = <<>> /\ replace = NoInsert /\ pending = ForAll(NoWrite)
      /\ \A f \in Files : pending[f] = NoWrite
      /\ \A i \in 1 .. pc - 1 : records[FilesInOrder[i]] = <<>>
  BY <1>1 DEF Inv, Stages, ForAll
<1> HIDE DEF f0
<1>4. ASSUME NEW f \in Files
      PROVE  FileInv(f)' /\ FirstFor(f)' /\ Undone(f)' = Undone(f)
  <2>1. FileInv(f) /\ FirstFor(f) /\ pending[f] = NoWrite
    BY <1>3 DEF Inv
  <2>2. CASE f = f0
    <3>1. disk'[f] = Undone(f) /\ records'[f] = <<>> /\ pending'[f] = NoWrite
      BY <2>1, <2>2, <1>1, <1>2
    <3>2. disk[f] \in FilesOf(f) /\ records[f] \in Seq(WritesTo(f))
      BY <2>1 DEF FileInv, TypesOf
    <3> DEFINE u == Undone(f)
    <3>3. /\ u \in FilesOf(f)
          /\ \A c \in Cells : disk[f][c] # NoData => u[c] # NoData
          /\ u[Header] = disk[f][Header]
                \/ \E i \in DOMAIN records[f] :
                        records[f][i].at = Header /\ u[Header] = records[f][i].value
      BY <3>2, ReplayFile, Facts DEF Undone
    <3> HIDE DEF u
    <3>4. Filled(disk[f], u[Header]) /\ u[Header] \in Sizes
      BY <3>3, <2>1, FileFacts DEF FileInv
    <3>5. Filled(u, u[Header])
      BY <3>2, <3>3, <3>4, FillMore
    <3>6. Undone(f)' = u
      BY <3>1, <3>3, ReplayNone DEF Undone, u
    <3>7. TypesOf(f)'
      BY <3>1, <3>3 DEF TypesOf, u
    <3>8. FileInv(f)'
      BY <3>1, <3>5, <3>7, <1>1, <1>3, NoTasks DEF FileInv, u
    <3>9. FirstFor(f)'
      BY <3>1, <3>6, <2>1, <1>1, <1>3, NoTasks DEF FirstFor, u
    <3>10. QED
      BY <3>6, <3>8, <3>9 DEF u
  <2>3. CASE f # f0
    <3>1. disk'[f] = disk[f] /\ records'[f] = records[f] /\ pending'[f] = pending[f]
          /\ todo' = todo /\ ops' = ops /\ before' = before
      BY <2>3, <1>1, <1>2
    <3>2. todo \in Seq(Tasks)
      BY <1>2 DEF Types
    <3>3. QED
      BY <3>1, <3>2, <2>1, OtherKeepsFile
  <2>4. QED
    BY <2>2, <2>3
<1>5. Types'
  <2>1. /\ DOMAIN disk' = Files /\ disk' = [f \in Files |-> disk'[f]]
        /\ DOMAIN records' = Files /\ records' = [f \in Files |-> records'[f]]
    BY <1>1, <1>2
  <2>2. pc' \in 0 .. Len(FilesInOrder) + 1
    BY <1>1 DEF FilesInOrder
  <2>3. QED
    BY <2>1, <2>2, <1>1, <1>2 DEF Types
<1>6. Stages'
  <2>1. ASSUME NEW i \in 1 .. pc PROVE records'[FilesInOrder[i]] = <<>>
    <3>1. FilesInOrder[i] \in Files
      BY <1>1 DEF FilesInOrder, Files
    <3>2. i \in 1 .. pc - 1 \/ i = pc
      BY <1>1
    <3>3. QED
      BY <3>1, <3>2, <1>1, <1>2, <1>3 DEF f0
  <2>2. pc' # 0 /\ pc' - 1 = pc
    BY <1>1
  <2>3. QED
    BY <2>1, <2>2, <1>1, <1>3 DEF Inv, Stages
<1>7. PositionsWithin'
  <2>1. {"storage", "stack", "table"} = Files
    BY DEF Files
  <2>2. OldSize' = OldSize
    BY <2>1, <1>4 DEF OldSize
  <2>3. OldSize' <= disk'["storage"][Header]
    <3>1. CASE f0 = "storage"
      <4>1. disk'["storage"] = Undone("storage")
        BY <3>1, <1>1, <1>2
      <4>2. OldSize \in Nat
        BY Numbers DEF Inv
      <4>3. QED
        BY <4>1, <4>2, <2>2 DEF OldSize
    <3>2. CASE f0 # "storage"
      BY <3>2, <2>1, <2>2, <1>1, <1>2 DEF Inv, PositionsWithin
    <3>3. QED
      BY <3>1, <3>2
  <2>4. ASSUME NEW f \in {"stack", "table"} PROVE PositionsFor(f)'
    <3>1. f \in Files /\ PositionsFor(f) /\ disk[f] \in FilesOf(f) /\ records[f] \in Seq(WritesTo(f))
      BY <2>4 DEF Inv, PositionsWithin, Files, FileInv, TypesOf
    <3>2. ASSUME NEW c \in Ids PROVE Within(OldSize, At(c, Undone(f)[c]))
      <4>1. Within(OldSize, At(c, disk[f][c])) /\ c \in Cells
        BY <3>1, Facts DEF PositionsFor
      <4>2. ASSUME NEW i \in DOMAIN records[f], records[f][i].at = c,
                   Undone(f)[c] = records[f][i].value
            PROVE  Within(OldSize, At(c, Undone(f)[c]))
        BY <4>2, <3>1 DEF PositionsFor, Within, At
      <4>3. QED
        BY <4>1, <4>2, <3>1, ReplayFile DEF Undone
    <3>3. \A c \in Ids : Within(OldSize, At(c, disk'[f][c]))
      BY <3>1, <3>2, <1>1, <1>2 DEF PositionsFor
    <3>4. \A i \in DOMAIN records'[f] : Within(OldSize, records'[f][i])
      <4>1. records'[f] = records[f] \/ records'[f] = <<>>
        BY <3>1, <1>1, <1>2
      <4>2. QED
        BY <4>1, <3>1 DEF PositionsFor
    <3>5. QED
      BY <3>1, <3>3, <3>4, <2>2, <1>1, <1>3, NoTasks DEF PositionsFor
  <2>5. QED
    BY <2>3, <2>4 DEF PositionsWithin
<1>8. ReplaceInStep'
  BY <1>1, <1>3 DEF ReplaceInStep
<1>9. QED
  BY <1>4, <1>5, <1>6, <1>7, <1>8 DEF Inv

LEMMA RestoreDoneInv == ASSUME Inv, RestoreDone PROVE Inv'
<1>1. /\ pc = 4 /\ pc' = 0 /\ ops' = 0
      /\ before' = [f \in Files |-> Vector(disk[f])]
      /\ UNCHANGED <<disk, records, pending, todo, replace, crashes>>
  BY DEF RestoreDone, Vectors, FilesInOrder
<1>2. /\ todo = <<>> /\ replace = NoInsert /\ pending = ForAll(NoWrite)
      /\ \A i \in 1 .. 3 : records[FilesInOrder[i]] = <<>>
  BY <1>1 DEF Inv, Stages
<1>3. \A f \in Files : records[f] = <<>> /\ pending[f] = NoWrite
  <2>1. FilesInOrder[1] = "storage" /\ FilesInOrder[2] = "stack" /\ FilesInOrder[3] = "table"
    BY DEF FilesInOrder
  <2>2. QED
    BY <2>1, <1>2 DEF Files, ForAll
<1>4. ASSUME NEW f \in Files PROVE FileInv(f)' /\ FirstFor(f)' /\ Undone(f)' = Undone(f)
  <2>1. FileInv(f) /\ disk[f] \in FilesOf(f) /\ records[f] = <<>>
    BY <1>3 DEF Inv, FileInv, TypesOf
  <2>2. Undone(f)' = disk[f] /\ Undone(f) = disk[f]
    BY <2>1, <1>1, ReplayNone DEF Undone
  <2>3. FirstFor(f)'
    BY <2>1, <2>2, <1>1, <1>2, NoTasks DEF FirstFor
  <2>4. FileInv(f)'
    BY <2>1, <1>1, <1>2, <1>3, NoTasks DEF FileInv, TypesOf, Flushed
  <2>5. QED
    BY <2>2, <2>3, <2>4
<1>5. Types' /\ Stages'
  BY <1>1, <1>2 DEF Inv, Types, Stages
<1>6. PositionsWithin'
  <2>1. OldSize' = OldSize /\ Flushed("storage")' = Flushed("storage")
    BY <1>1 DEF OldSize, Undone, Flushed
  <2>2. PositionsFor("stack")' /\ PositionsFor("table")'
    BY <2>1, <1>1 DEF Inv, PositionsWithin, PositionsFor
  <2>3. QED
    BY <2>1, <2>2, <1>1 DEF Inv, PositionsWithin
<1>7. ReplaceInStep'
  BY <1>1, <1>2 DEF ReplaceInStep
<1>8. QED
  BY <1>4, <1>5, <1>6, <1>7 DEF Inv

LEMMA StutterInv == ASSUME Inv, UNCHANGED vars PROVE Inv'
<1>1. UNCHANGED <<disk, records, pending, todo, replace, pc, ops, before, crashes>>
  BY DEF vars, ghosts
<1>2. \A f \in Files : FileInv(f)' /\ FirstFor(f)'
  BY <1>1 DEF Inv, FileInv, TypesOf, FirstFor, Undone, Flushed, BufferedFor
<1>3. Types' /\ Stages' /\ ReplaceInStep'
  BY <1>1 DEF Inv, Types, Stages, ReplaceInStep, Promised, After
<1>4. PositionsWithin'
  BY <1>1 DEF Inv, PositionsWithin, PositionsFor, OldSize, Undone, Flushed
<1>5. QED
  BY <1>2, <1>3, <1>4 DEF Inv

-------------------------------------------------------------------------------
(* The writes of an operation: what goes to each file. *)

\* p is what ws has for file f, k places further on.
Moved(ws, p, f, k) ==
    /\ \A i \in DOMAIN p :
            /\ i \in Nat /\ i \in TasksOf(p, f)
            /\ i + k \in TasksOf(ws, f) /\ ws[i + k] = p[i]
    /\ \A j \in TasksOf(ws, f) : j \in Nat /\ j - k \in DOMAIN p /\ p[j - k] = ws[j]

LEMMA MovedTasks ==
    ASSUME NEW ws, NEW p, NEW f, NEW k \in Nat, Moved(ws, p, f, k)
    PROVE  \A c : HasTask(ws, f, c) <=> HasTask(p, f, c)
BY DEF HasTask, Moved, TasksOf

LEMMA MovedPlan ==
    ASSUME NEW ws, NEW p, NEW f, NEW k \in Nat, Moved(ws, p, f, k), NEW g,
           PlannedFor(g, p, f)
    PROVE  PlannedFor(g, ws, f)
<1>1. \A c : HasTask(ws, f, c) <=> HasTask(p, f, c)
  BY MovedTasks
<1>2. ASSUME NEW j \in TasksOf(ws, f)
      PROVE  j \in Nat /\ j - k \in TasksOf(p, f) /\ p[j - k] = ws[j]
  BY DEF Moved
<1>3. ASSUME NEW i \in TasksOf(ws, f)
      PROVE  LET v == ws[i][2] IN
             /\ v \in WritesTo(f)
             /\ \A j \in TasksOf(ws, f) : j # i => ws[j][2].at # v.at
             /\ v.at = Header =>
                 /\ \A j \in TasksOf(ws, f) : j <= i
                 /\ \A c \in 0 .. v.value - 1 : g[c] # NoData \/ HasTask(ws, f, c)
                 /\ f = "storage" => v.value >= g[Header]
             /\ v.at # Header =>
                 \/ v.at < g[Header]
                 \/ v.at = g[Header] /\ HasTask(ws, f, Header)
  <2> DEFINE v == ws[i][2]
  <2>1. v = p[i - k][2] /\ i - k \in TasksOf(p, f) /\ i \in Nat
    BY <1>2
  <2> HIDE DEF v
  <2>2. /\ v \in WritesTo(f)
        /\ \A j \in TasksOf(p, f) : j # i - k => p[j][2].at # v.at
        /\ v.at = Header =>
              /\ \A j \in TasksOf(p, f) : j <= i - k
              /\ \A c \in 0 .. v.value - 1 : g[c] # NoData \/ HasTask(p, f, c)
              /\ f = "storage" => v.value >= g[Header]
        /\ v.at # Header => v.at < g[Header] \/ (v.at = g[Header] /\ HasTask(p, f, Header))
    BY <2>1 DEF PlannedFor
  <2>3. ASSUME NEW j \in TasksOf(ws, f)
        PROVE  (j # i => ws[j][2].at # v.at) /\ (v.at = Header => j <= i)
    <3>1. j \in Nat /\ j - k \in TasksOf(p, f) /\ p[j - k] = ws[j]
      BY <1>2
    <3>2. (j # i => j - k # i - k) /\ (j - k <= i - k => j <= i)
      BY <3>1, <2>1
    <3>3. QED
      BY <3>1, <3>2, <2>2
  <2>4. QED
    BY <1>1, <2>2, <2>3 DEF v
<1>4. QED
  BY <1>3 DEF PlannedFor

LEMMA MovedMade ==
    ASSUME NEW f, NEW g \in FilesOf(f), NEW ws \in Seq(Tasks), NEW p \in Seq(Tasks),
           NEW k \in Nat, Moved(ws, p, f, k), PlannedFor(g, p, f)
    PROVE  Made(g, ws, f) = Made(g, p, f)
<1> DEFINE m == Made(g, ws, f)
           n == Made(g, p, f)
<1>1. PlannedFor(g, ws, f) /\ \A c : HasTask(ws, f, c) <=> HasTask(p, f, c)
  BY MovedPlan, MovedTasks
<1>2. MadeOf(m, g, ws, f)
  BY <1>1, MadeCells
<1>3. MadeOf(n, g, p, f)
  BY MadeCells
<1> HIDE DEF m, n
<1>4. ASSUME NEW c \in Cells PROVE m[c] = n[c]
  <2>1. CASE HasTask(ws, f, c)
    <3>1. PICK j \in TasksOf(ws, f) : ws[j][2].at = c
      BY <2>1 DEF HasTask
    <3>2. j - k \in TasksOf(p, f) /\ p[j - k] = ws[j]
      BY DEF Moved
    <3>3. m[c] = ws[j][2].value
      BY <3>1, <1>2 DEF MadeOf
    <3>4. n[c] = p[j - k][2].value
      BY <3>1, <3>2, <1>3 DEF MadeOf
    <3>5. QED
      BY <3>2, <3>3, <3>4
  <2>2. CASE ~ HasTask(ws, f, c)
    BY <2>2, <1>1, <1>2, <1>3 DEF MadeOf
  <2>3. QED
    BY <2>1, <2>2
<1>5. m = [c \in Cells |-> m[c]] /\ n = [c \in Cells |-> n[c]]
  BY <1>2, <1>3 DEF MadeOf
<1>6. m = n
  BY <1>4, <1>5
<1>7. QED
  BY <1>6 DEF m, n

Part(p, f) == p \in Seq(Tasks) /\ \A i \in DOMAIN p : p[i][1] = f

\* Writes to the stack, then to the storage, then to the table.
LEMMA Parts ==
    ASSUME NEW a, NEW b, NEW c, Part(a, "stack"), Part(b, "storage"), Part(c, "table")
    PROVE  LET ws == a \o b \o c IN
           /\ ws \in Seq(Tasks) /\ Len(a) \in Nat /\ Len(b) \in Nat
           /\ Moved(ws, a, "stack", 0) /\ Moved(ws, b, "storage", Len(a))
           /\ Moved(ws, c, "table", Len(a) + Len(b))
<1> DEFINE ws == a \o b \o c
           x == Len(a)
           y == Len(b)
           z == Len(c)
<1>1. /\ a \in Seq(Tasks) /\ b \in Seq(Tasks) /\ c \in Seq(Tasks)
      /\ \A i \in DOMAIN a : a[i][1] = "stack"
      /\ \A i \in DOMAIN b : b[i][1] = "storage"
      /\ \A i \in DOMAIN c : c[i][1] = "table"
  BY DEF Part
<1>2. /\ x \in Nat /\ y \in Nat /\ z \in Nat
      /\ DOMAIN a = 1 .. x /\ DOMAIN b = 1 .. y /\ DOMAIN c = 1 .. z
  BY <1>1, LenProperties
<1>3. /\ ws \in Seq(Tasks) /\ DOMAIN ws = 1 .. x + y + z
      /\ \A i \in 1 .. x : ws[i] = a[i]
      /\ \A i \in 1 .. y : ws[i + x] = b[i]
      /\ \A i \in 1 .. z : ws[i + (x + y)] = c[i]
  <2> DEFINE ab == a \o b
  <2>1. /\ ab \in Seq(Tasks) /\ Len(ab) = x + y
        /\ \A i \in 1 .. x + y : ab[i] = IF i <= x THEN a[i] ELSE b[i - x]
    BY <1>1, <1>2, ConcatProperties
  <2> HIDE DEF ab
  <2>2. /\ ab \o c \in Seq(Tasks) /\ Len(ab \o c) = x + y + z
        /\ \A i \in 1 .. x + y + z : (ab \o c)[i] = IF i <= x + y THEN ab[i] ELSE c[i - (x + y)]
    BY <2>1, <1>1, <1>2, ConcatProperties
  <2>3. ws = ab \o c
    BY DEF ab
  <2> HIDE DEF ws, x, y, z
  <2>4. DOMAIN ws = 1 .. x + y + z
    BY <2>2, <2>3, LenProperties
  <2>5. \A i \in 1 .. x : i \in 1 .. x + y + z /\ i <= x + y /\ i \in 1 .. x + y
    BY <1>2
  <2>6. \A i \in 1 .. y : /\ i + x \in 1 .. x + y + z /\ i + x <= x + y /\ i + x \in 1 .. x + y
                          /\ ~ i + x <= x /\ i + x - x = i
    BY <1>2
  <2>7. ASSUME NEW i \in 1 .. x PROVE ws[i] = a[i]
    <3>1. ws[i] = ab[i]
      BY <2>2, <2>3, <2>5
    <3>2. ab[i] = a[i]
      BY <2>1, <2>5, <1>2
    <3>3. QED
      BY <3>1, <3>2
  <2>8. ASSUME NEW i \in 1 .. y PROVE ws[i + x] = b[i]
    <3>1. ws[i + x] = ab[i + x]
      BY <2>2, <2>3, <2>6
    <3>2. PICK j \in 1 .. x + y : j = i + x /\ ~ j <= x /\ j - x = i
      BY <1>2
    <3>3. ab[j] = b[j - x]
      BY <2>1, <3>2
    <3>4. QED
      BY <3>1, <3>2, <3>3
  <2>9. ASSUME NEW i \in 1 .. z PROVE ws[i + (x + y)] = c[i]
    <3>1. PICK j \in 1 .. x + y + z :
                j = i + (x + y) /\ ~ j <= x + y /\ j - (x + y) = i
      BY <1>2
    <3>2. ws[j] = c[j - (x + y)]
      BY <2>2, <2>3, <3>1
    <3>3. QED
      BY <3>1, <3>2
  <2>10. QED
    BY <2>2, <2>3, <2>4, <2>7, <2>8, <2>9
<1> HIDE DEF ws, x, y, z
<1>4. \A j \in 1 .. x + y + z :
        \/ j \in 1 .. x /\ ws[j][1] = "stack"
        \/ j - x \in 1 .. y /\ j - x + x = j /\ ws[j][1] = "storage"
        \/ j - (x + y) \in 1 .. z /\ j - (x + y) + (x + y) = j /\ ws[j][1] = "table"
  <2> SUFFICES ASSUME NEW j \in 1 .. x + y + z
               PROVE  \/ j \in 1 .. x /\ ws[j][1] = "stack"
                      \/ j - x \in 1 .. y /\ j - x + x = j /\ ws[j][1] = "storage"
                      \/ /\ j - (x + y) \in 1 .. z /\ j - (x + y) + (x + y) = j
                         /\ ws[j][1] = "table"
    OBVIOUS
  <2>1. j \in 1 .. x \/ j - x \in 1 .. y \/ j - (x + y) \in 1 .. z
    BY <1>2
  <2>2. j - x + x = j /\ j - (x + y) + (x + y) = j
    BY <1>2
  <2>3. CASE j \in 1 .. x
    BY <2>3, <1>1, <1>2, <1>3
  <2>4. CASE j - x \in 1 .. y
    <3>1. PICK i \in 1 .. y : i = j - x
      BY <2>4
    <3>2. i + x = j
      BY <3>1, <2>2
    <3>3. ws[j] = b[i] /\ b[i][1] = "storage"
      BY <3>2, <1>1, <1>2, <1>3
    <3>4. QED
      BY <2>2, <2>4, <3>3
  <2>5. CASE j - (x + y) \in 1 .. z
    <3>1. PICK i \in 1 .. z : i = j - (x + y)
      BY <2>5
    <3>2. i + (x + y) = j
      BY <3>1, <2>2
    <3>3. ws[j] = c[i] /\ c[i][1] = "table"
      BY <3>2, <1>1, <1>2, <1>3
    <3>4. QED
      BY <2>2, <2>5, <3>3
  <2>6. QED
    BY <2>1, <2>3, <2>4, <2>5, <2>2
<1>5. Moved(ws, a, "stack", 0)
  <2>1. ASSUME NEW i \in 1 .. x PROVE i + 0 = i /\ i \in 1 .. x + y + z /\ i \in Nat
    BY <1>2
  <2>2. ASSUME NEW j \in TasksOf(ws, "stack") PROVE j \in 1 .. x /\ j - 0 = j /\ j \in Nat
    BY <1>2, <1>3, <1>4 DEF TasksOf
  <2>3. QED
    BY <2>1, <2>2, <1>1, <1>2, <1>3 DEF Moved, TasksOf
<1>6. Moved(ws, b, "storage", x)
  <2>1. ASSUME NEW i \in 1 .. y PROVE i + x \in 1 .. x + y + z /\ i \in Nat
    BY <1>2
  <2>2. ASSUME NEW j \in TasksOf(ws, "storage")
        PROVE  j - x \in 1 .. y /\ j - x + x = j /\ j \in Nat
    BY <1>2, <1>3, <1>4 DEF TasksOf
  <2>3. QED
    BY <2>1, <2>2, <1>1, <1>2, <1>3 DEF Moved, TasksOf
<1>7. Moved(ws, c, "table", x + y)
  <2>1. ASSUME NEW i \in 1 .. z PROVE i + (x + y) \in 1 .. x + y + z /\ i \in Nat
    BY <1>2
  <2>2. ASSUME NEW j \in TasksOf(ws, "table")
        PROVE  j - (x + y) \in 1 .. z /\ j - (x + y) + (x + y) = j /\ j \in Nat
    BY <1>2, <1>3, <1>4 DEF TasksOf
  <2>3. QED
    BY <2>1, <2>2, <1>1, <1>2, <1>3 DEF Moved, TasksOf
<1>8. QED
  BY <1>2, <1>3, <1>5, <1>6, <1>7 DEF ws, x, y, z

-------------------------------------------------------------------------------
(* The writes of an operation: what each part of them makes. *)

LEMMA VectorIs ==
    ASSUME NEW g, g[Header] \in Nat
    PROVE  LET v == Vector(g) IN
           /\ v \in Seq({g[c] : c \in Cells \cup Nat}) /\ Len(v) = g[Header]
           /\ \A i \in 0 .. g[Header] - 1 : ReadElement(v, i) = g[i]
           /\ DOMAIN v = 1 .. g[Header] /\ v = [i \in 1 .. g[Header] |-> v[i]]
<1> DEFINE n == g[Header]
           S == {g[c] : c \in Cells \cup Nat}
           v == Vector(g)
<1>1. v = [i \in 1 .. n |-> g[i - 1]]
  BY DEF Vector
<1> HIDE DEF n, S, v
<1>2. n \in Nat
  BY DEF n
<1>3. \A i \in 1 .. n : g[i - 1] \in S
  BY <1>2 DEF S
<1>4. v \in Seq(S) /\ Len(v) = n /\ DOMAIN v = 1 .. n
  BY <1>1, <1>2, <1>3
<1>5. \A i \in 0 .. n - 1 : i + 1 \in 1 .. n /\ (i + 1) - 1 = i
  BY <1>2
<1>6. \A i \in 0 .. n - 1 : v[i + 1] = g[i]
  BY <1>1, <1>5
<1>7. QED
  BY <1>1, <1>4, <1>6 DEF n, S, v, ReadElement

\* An element behind the end, and the size.
LEMMA Pushed ==
    ASSUME NEW g, g[Header] \in Nat, NEW h, NEW e, h[Header] = g[Header] + 1,
           h[g[Header]] = e, \A c \in 0 .. g[Header] - 1 : h[c] = g[c]
    PROVE  Vector(h) = Append(Vector(g), e)
<1> DEFINE n == g[Header]
           v == Vector(g)
           w == Vector(h)
           S == {g[c] : c \in Cells \cup Nat}
           T == S \cup {e}
<1>1. v \in Seq(S) /\ Len(v) = n /\ v = [i \in 1 .. n |-> g[i - 1]] /\ n \in Nat
  BY VectorIs DEF Vector
<1>2. w = [i \in 1 .. n + 1 |-> h[i - 1]] /\ h[n] = e /\ \A c \in 0 .. n - 1 : h[c] = g[c]
  BY DEF Vector
<1> HIDE DEF n, v, w, S
<1>3. Append(v, e) = [i \in 1 .. n + 1 |-> IF i = n + 1 THEN e ELSE v[i]]
  <2>1. v \in Seq(T) /\ e \in T
    BY <1>1
  <2> HIDE DEF T
  <2>2. /\ Append(v, e) \in Seq(T) /\ Len(Append(v, e)) = n + 1
        /\ \A i \in 1 .. n : Append(v, e)[i] = v[i]
        /\ Append(v, e)[n + 1] = e
    BY <1>1, <2>1, AppendProperties
  <2>3. Append(v, e) \in [1 .. n + 1 -> T]
    BY <2>2, LenProperties
  <2>4. \A i \in 1 .. n + 1 : i = n + 1 \/ i \in 1 .. n
    BY <1>1
  <2>5. QED
    BY <2>2, <2>3, <2>4
<1>4. ASSUME NEW i \in 1 .. n + 1 PROVE h[i - 1] = IF i = n + 1 THEN e ELSE v[i]
  <2>1. CASE i = n + 1
    <3>1. i - 1 = n
      BY <2>1, <1>1
    <3>2. QED
      BY <2>1, <3>1, <1>2
  <2>2. CASE i # n + 1
    <3>1. i \in 1 .. n /\ i - 1 \in 0 .. n - 1
      BY <2>2, <1>1
    <3>2. QED
      BY <2>2, <3>1, <1>1, <1>2
  <2>3. QED
    BY <2>1, <2>2
<1>5. w = Append(v, e)
  BY <1>2, <1>3, <1>4
<1>6. QED
  BY <1>5 DEF v, w

LEMMA Changed ==
    ASSUME NEW g, g[Header] \in Nat, NEW h, NEW e, h[Header] = g[Header],
           NEW k \in 0 .. g[Header] - 1, h[k] = e,
           \A c \in 0 .. g[Header] - 1 : c # k => h[c] = g[c]
    PROVE  Vector(h) = [Vector(g) EXCEPT ![k + 1] = e]
<1> DEFINE n == g[Header]
           v == Vector(g)
           w == Vector(h)
<1>1. v = [i \in 1 .. n |-> g[i - 1]] /\ n \in Nat /\ k \in 0 .. n - 1
  BY DEF Vector
<1>2. w = [i \in 1 .. n |-> h[i - 1]] /\ h[k] = e /\ \A c \in 0 .. n - 1 : c # k => h[c] = g[c]
  BY DEF Vector
<1> HIDE DEF n, v, w
<1>3. ASSUME NEW i \in 1 .. n PROVE h[i - 1] = IF i = k + 1 THEN e ELSE v[i]
  <2>1. i - 1 \in 0 .. n - 1 /\ (i = k + 1 <=> i - 1 = k)
    BY <1>1
  <2>2. v[i] = g[i - 1]
    BY <1>1
  <2>3. QED
    BY <2>1, <2>2, <1>2
<1>4. w = [v EXCEPT ![k + 1] = e]
  BY <1>1, <1>2, <1>3
<1>5. QED
  BY <1>4 DEF v, w

LEMMA Popped ==
    ASSUME NEW g, g[Header] \in Nat, NEW h, g[Header] # 0, h[Header] = g[Header] - 1,
           \A c \in 0 .. g[Header] - 2 : h[c] = g[c]
    PROVE  Vector(h) = PopBack(Vector(g))
<1> DEFINE n == g[Header]
           v == Vector(g)
           w == Vector(h)
           S == {g[c] : c \in Cells \cup Nat}
<1>1. /\ v \in Seq(S) /\ Len(v) = n /\ v = [i \in 1 .. n |-> g[i - 1]]
      /\ n \in Nat /\ n # 0
  BY VectorIs DEF Vector
<1>2. w = [i \in 1 .. n - 1 |-> h[i - 1]] /\ \A c \in 0 .. n - 2 : h[c] = g[c]
  BY DEF Vector
<1> HIDE DEF n, v, w, S
<1>3. \A i \in 1 .. n - 1 : i - 1 \in 0 .. n - 2 /\ i \in 1 .. n
  BY <1>1
<1>4. w = [i \in 1 .. n - 1 |-> v[i]]
  BY <1>1, <1>2, <1>3
<1>5. 1 <= n /\ n - 1 <= n /\ (n - 1) - 1 + 1 = n - 1 /\ 1 \in Int /\ n - 1 \in Int
  BY <1>1
<1>6. SubSeq(v, 1, n - 1) = [i \in 1 .. (n - 1) - 1 + 1 |-> v[i + 1 - 1]]
  BY <1>1, <1>5 DEF SubSeq
<1>7. \A i \in 1 .. n - 1 : i + 1 - 1 = i
  BY <1>1
<1>8. SubSeq(v, 1, n - 1) = w
  BY <1>4, <1>5, <1>6, <1>7
<1>9. QED
  BY <1>1, <1>8 DEF v, w, PopBack

\* What planned writes p of one file f make of what it holds.
MakesOf(g, p, f, vector) ==
    /\ Part(p, f) /\ PlannedFor(g, p, f)
    /\ Vector(Made(g, p, f)) = vector

LEMMA ElementIsWrite ==
    ASSUME NEW f, NEW c \in Ids, NEW e \in ElementsOf(f)
    PROVE  At(c, e) \in WritesTo(f) /\ At(c, e) \in [at : Int, value : Anything]
BY Facts DEF At, WritesTo, Ids, Cells, Header

LEMMA SizeIsWrite ==
    ASSUME NEW f, NEW s \in Sizes
    PROVE  At(Header, s) \in WritesTo(f) /\ At(Header, s) \in [at : Int, value : Anything]
BY Facts DEF At, WritesTo, Anything, Cells, Header

LEMMA NoPlan ==
    ASSUME NEW f, NEW g \in FilesOf(f)
    PROVE  MakesOf(g, <<>>, f, Vector(g)) /\ Made(g, <<>>, f) = g
<1>1. Pad(<<>>, f) = <<>>
  BY DEF Pad
<1>2. Made(g, <<>>, f) = g
  BY <1>1, ReplayNone DEF Made
<1>3. QED
  BY <1>2, NoTasks DEF MakesOf, Part

LEMMA PutPlan ==
    ASSUME NEW f \in Files, NEW g \in FilesOf(f), NEW e \in ElementsOf(f),
           NEW k \in 0 .. g[Header] - 1
    PROVE  LET p == <<In(f, k, e)>> IN
           /\ MakesOf(g, p, f, [Vector(g) EXCEPT ![k + 1] = e])
           /\ Made(g, p, f)[Header] = g[Header] /\ Made(g, p, f)[k] = e
<1> DEFINE p == <<In(f, k, e)>>
           h == Made(g, p, f)
           n == g[Header]
<1>1. n \in Sizes /\ n \in Nat /\ k \in Ids /\ k # Header /\ k < n
  BY FileFacts, Facts
<1>2. At(k, e) \in WritesTo(f) /\ At(k, e) \in [at : Int, value : Anything]
  BY <1>1, ElementIsWrite
<1>3. /\ DOMAIN p = {1} /\ p[1] = <<f, At(k, e)>> /\ p \in Seq(Tasks)
  BY <1>2 DEF In, Tasks
<1> HIDE DEF p
<1>4. p[1][1] = f /\ p[1][2] = At(k, e) /\ At(k, e).at = k /\ At(k, e).value = e
  BY <1>3 DEF At
<1>5. TasksOf(p, f) = {1} /\ Part(p, f)
  BY <1>3, <1>4 DEF TasksOf, Part
<1>6. PlannedFor(g, p, f)
  BY <1>1, <1>2, <1>4, <1>5 DEF PlannedFor
<1>7. MadeOf(h, g, p, f)
  BY <1>3, <1>6, MadeCells
<1> HIDE DEF h
<1>8. h[k] = e /\ \A c \in Cells : c # k => h[c] = g[c]
  BY <1>4, <1>5, <1>7 DEF MadeOf, HasTask
<1>9. h[Header] = g[Header] /\ \A c \in 0 .. n - 1 : c # k => h[c] = g[c]
  BY <1>1, <1>8, Facts
<1> HIDE DEF n
<1>10. Vector(h) = [Vector(g) EXCEPT ![k + 1] = e]
  BY <1>1, <1>8, <1>9, Changed DEF n
<1>11. QED
  BY <1>5, <1>6, <1>8, <1>9, <1>10 DEF MakesOf, h, p

LEMMA PushPlan ==
    ASSUME NEW f \in Files, NEW g \in FilesOf(f), Filled(g, g[Header]),
           NEW e \in ElementsOf(f), g[Header] < MaxId
    PROVE  LET p == <<In(f, g[Header], e), In(f, Header, g[Header] + 1)>> IN
           /\ MakesOf(g, p, f, Append(Vector(g), e))
           /\ Made(g, p, f)[Header] = g[Header] + 1 /\ Made(g, p, f)[g[Header]] = e
<1> DEFINE n == g[Header]
           p == <<In(f, n, e), In(f, Header, n + 1)>>
           h == Made(g, p, f)
<1>1. n \in Sizes /\ n \in Nat /\ n \in Ids /\ n # Header /\ n + 1 \in Sizes
  BY FileFacts, Facts DEF Sizes, Ids
<1> HIDE DEF n
<1>2. /\ At(n, e) \in WritesTo(f) /\ At(n, e) \in [at : Int, value : Anything]
      /\ At(Header, n + 1) \in WritesTo(f)
      /\ At(Header, n + 1) \in [at : Int, value : Anything]
  BY <1>1, ElementIsWrite, SizeIsWrite
<1>3. /\ DOMAIN p = {1, 2} /\ p[1] = <<f, At(n, e)>> /\ p[2] = <<f, At(Header, n + 1)>>
      /\ p \in Seq(Tasks)
  BY <1>2 DEF In, Tasks
<1> HIDE DEF p
<1>4. /\ p[1][1] = f /\ p[1][2] = At(n, e) /\ At(n, e).at = n /\ At(n, e).value = e
      /\ p[2][1] = f /\ p[2][2] = At(Header, n + 1)
      /\ At(Header, n + 1).at = Header /\ At(Header, n + 1).value = n + 1
  BY <1>3 DEF At
<1>5. TasksOf(p, f) = {1, 2} /\ Part(p, f)
  BY <1>3, <1>4 DEF TasksOf, Part
<1>6. /\ HasTask(p, f, Header) /\ HasTask(p, f, n)
      /\ \A c : HasTask(p, f, c) => c = n \/ c = Header
  BY <1>4, <1>5 DEF HasTask
<1>7. PlannedFor(g, p, f)
  <2>1. \A c \in 0 .. (n + 1) - 1 : g[c] # NoData \/ HasTask(p, f, c)
    <3>1. \A c \in 0 .. (n + 1) - 1 : c = n \/ c \in 0 .. n - 1
      BY <1>1
    <3>2. QED
      BY <3>1, <1>6 DEF Filled, n
  <2>2. n + 1 >= n /\ 2 <= 2 /\ 1 <= 2
    BY <1>1
  <2>3. QED
    BY <1>1, <1>2, <1>4, <1>5, <1>6, <2>1, <2>2 DEF PlannedFor, n
<1>8. MadeOf(h, g, p, f)
  BY <1>3, <1>7, MadeCells
<1> HIDE DEF h
<1>9. /\ h[n] = e /\ h[Header] = n + 1
      /\ \A c \in Cells : c # n /\ c # Header => h[c] = g[c]
  BY <1>4, <1>5, <1>6, <1>8 DEF MadeOf
<1>10. \A c \in 0 .. n - 1 : c # n /\ c \in Cells /\ c # Header
  BY <1>1, Facts
<1>11. \A c \in 0 .. n - 1 : h[c] = g[c]
  BY <1>9, <1>10
<1>12. Vector(h) = Append(Vector(g), e)
  BY <1>1, <1>9, <1>11, Pushed DEF n
<1>13. QED
  BY <1>5, <1>7, <1>9, <1>12 DEF MakesOf, h, p, n

LEMMA PopPlan ==
    ASSUME NEW f \in Files, f # "storage", NEW g \in FilesOf(f), Filled(g, g[Header]),
           g[Header] # 0
    PROVE  LET p == <<In(f, Header, g[Header] - 1)>> IN
           MakesOf(g, p, f, PopBack(Vector(g)))
<1> DEFINE n == g[Header]
           p == <<In(f, Header, n - 1)>>
           h == Made(g, p, f)
<1>1. n \in Sizes /\ n \in Nat /\ n # 0 /\ n - 1 \in Sizes /\ n - 1 \in Nat
  BY FileFacts, Facts DEF Sizes
<1> HIDE DEF n
<1>2. /\ At(Header, n - 1) \in WritesTo(f)
      /\ At(Header, n - 1) \in [at : Int, value : Anything]
  BY <1>1, SizeIsWrite
<1>3. /\ DOMAIN p = {1} /\ p[1] = <<f, At(Header, n - 1)>> /\ p \in Seq(Tasks)
  BY <1>2 DEF In, Tasks
<1> HIDE DEF p
<1>4. /\ p[1][1] = f /\ p[1][2] = At(Header, n - 1)
      /\ At(Header, n - 1).at = Header /\ At(Header, n - 1).value = n - 1
  BY <1>3 DEF At
<1>5. TasksOf(p, f) = {1} /\ Part(p, f)
  BY <1>3, <1>4 DEF TasksOf, Part
<1>6. PlannedFor(g, p, f)
  <2>1. \A c \in 0 .. (n - 1) - 1 : c \in 0 .. n - 1
    BY <1>1
  <2>2. \A c \in 0 .. (n - 1) - 1 : g[c] # NoData
    BY <2>1 DEF Filled, n
  <2>3. QED
    BY <1>2, <1>4, <1>5, <2>2 DEF PlannedFor
<1>7. MadeOf(h, g, p, f)
  BY <1>3, <1>6, MadeCells
<1> HIDE DEF h
<1>8. h[Header] = n - 1 /\ \A c \in Cells : c # Header => h[c] = g[c]
  BY <1>4, <1>5, <1>7 DEF MadeOf, HasTask
<1>9. \A c \in 0 .. n - 2 : c \in Cells /\ c # Header
  <2>1. \A c \in 0 .. n - 2 : c \in 0 .. n - 1
    BY <1>1
  <2>2. QED
    BY <2>1, <1>1, Facts
<1>10. \A c \in 0 .. n - 2 : h[c] = g[c]
  BY <1>8, <1>9
<1>11. Vector(h) = PopBack(Vector(g))
  BY <1>1, <1>8, <1>10, Popped DEF n
<1>12. QED
  BY <1>5, <1>6, <1>11 DEF MakesOf, h, p, n

\* One element is written in place or at the end.
PutMakes(f, e, k) ==
    LET g == disk[f]
        p == Put(f, e, k)
    IN  /\ MakesOf(g, p, f, WriteElement(Opened(f), e, k))
        /\ Made(g, p, f)[k] = e
        /\ Made(g, p, f)[Header] = IF k = g[Header] THEN k + 1 ELSE g[Header]

LEMMA PutParts ==
    ASSUME NEW f \in Files, disk[f] \in FilesOf(f), Filled(disk[f], disk[f][Header]),
           NEW e \in Anything, NEW k \in 0 .. disk[f][Header]
    PROVE  LET p == Put(f, e, k) IN
           /\ Part(p, f)
           /\ \A i \in DOMAIN p : p[i][2].at # Header => p[i][2].value = e
           /\ k = disk[f][Header] => \E i \in DOMAIN p : p[i][2].at = Header
           /\ (\A i \in DOMAIN p : Fits(p[i])) => k < MaxId
           /\ e \in ElementsOf(f) /\ k < MaxId => PutMakes(f, e, k)
<1> DEFINE g == disk[f]
           p == Put(f, e, k)
           n == g[Header]
<1>1. n \in Nat /\ Len(Opened(f)) = n /\ k \in Nat /\ k \in Int /\ k # Header
  BY FileFacts, VectorIs, Facts DEF Opened
<1>2. CASE k = n
  <2>1. p = <<In(f, n, e), In(f, Header, n + 1)>>
    BY <1>1, <1>2 DEF Put, Push
  <2>2. /\ At(n, e) \in [at : Int, value : Anything]
        /\ At(Header, n + 1) \in [at : Int, value : Anything]
    BY <1>1 DEF At, Header, Anything
  <2>3. WriteElement(Opened(f), e, k) = Append(Vector(g), e)
    BY <1>1, <1>2 DEF WriteElement, PushBack, Opened
  <2> HIDE DEF p, n
  <2>4. /\ DOMAIN p = {1, 2} /\ p[1] = <<f, At(n, e)>> /\ p[2] = <<f, At(Header, n + 1)>>
        /\ p \in Seq(Tasks)
    BY <2>1, <2>2 DEF In, Tasks
  <2>5. /\ p[1][1] = f /\ p[1][2] = At(n, e) /\ At(n, e).at = n /\ At(n, e).value = e
        /\ p[2][1] = f /\ p[2][2] = At(Header, n + 1) /\ At(Header, n + 1).at = Header
    BY <2>4 DEF At
  <2>6. Part(p, f) /\ (\A i \in DOMAIN p : p[i][2].at # Header => p[i][2].value = e)
        /\ \E i \in DOMAIN p : p[i][2].at = Header
    BY <2>4, <2>5 DEF Part
  <2>7. (\A i \in DOMAIN p : Fits(p[i])) => k < MaxId
    BY <2>4, <2>5, <1>2 DEF Fits
  <2>8. ASSUME e \in ElementsOf(f), k < MaxId PROVE PutMakes(f, e, k)
    <3>1. /\ MakesOf(g, p, f, Append(Vector(g), e))
          /\ Made(g, p, f)[Header] = n + 1 /\ Made(g, p, f)[n] = e
      BY <2>1, <2>8, <1>2, PushPlan DEF n
    <3>2. QED
      BY <3>1, <2>3, <1>2 DEF PutMakes, p, n
  <2>9. QED
    BY <2>6, <2>7, <2>8 DEF p, n
<1>3. CASE k # n
  <2>1. p = <<In(f, k, e)>> /\ k < n /\ k \in 0 .. n - 1 /\ k < MaxId
    BY <1>1, <1>3, FileFacts, Facts DEF Put
  <2>2. At(k, e) \in [at : Int, value : Anything]
    BY <1>1 DEF At
  <2>3. WriteElement(Opened(f), e, k) = [Vector(g) EXCEPT ![k + 1] = e]
    BY <1>1, <1>3 DEF WriteElement, Opened
  <2> HIDE DEF p, n
  <2>4. DOMAIN p = {1} /\ p[1] = <<f, At(k, e)>> /\ p \in Seq(Tasks)
    BY <2>1, <2>2 DEF In, Tasks
  <2>5. p[1][1] = f /\ p[1][2] = At(k, e) /\ At(k, e).at = k /\ At(k, e).value = e
    BY <2>4 DEF At
  <2>6. Part(p, f) /\ (\A i \in DOMAIN p : p[i][2].at # Header => p[i][2].value = e)
    BY <2>4, <2>5 DEF Part
  <2>7. ASSUME e \in ElementsOf(f) PROVE PutMakes(f, e, k)
    <3>1. /\ MakesOf(g, p, f, [Vector(g) EXCEPT ![k + 1] = e])
          /\ Made(g, p, f)[Header] = n /\ Made(g, p, f)[k] = e
      BY <2>1, <2>7, PutPlan DEF n
    <3>2. QED
      BY <3>1, <2>3, <1>3 DEF PutMakes, p, n
  <2>8. QED
    BY <2>1, <2>6, <2>7, <1>3 DEF p, n
<1>4. QED
  BY <1>2, <1>3

\* What the writes of an operation make of the three files.
MakesAll(ws, stack, storage, table) ==
    /\ ws \in Seq(Tasks)
    /\ \A f \in Files : PlannedFor(disk[f], ws, f)
    /\ Vector(Made(disk["stack"], ws, "stack")) = stack
    /\ Vector(Made(disk["storage"], ws, "storage")) = storage
    /\ Vector(Made(disk["table"], ws, "table")) = table

LEMMA ThreeParts ==
    ASSUME \A f \in Files : disk[f] \in FilesOf(f),
           NEW a, NEW b, NEW c, NEW stack, NEW storage, NEW table,
           MakesOf(disk["stack"], a, "stack", stack),
           MakesOf(disk["storage"], b, "storage", storage),
           MakesOf(disk["table"], c, "table", table)
    PROVE  LET ws == a \o b \o c IN
           /\ MakesAll(ws, stack, storage, table)
           /\ Made(disk["table"], ws, "table") = Made(disk["table"], c, "table")
<1> DEFINE ws == a \o b \o c
<1>1. /\ Part(a, "stack") /\ PlannedFor(disk["stack"], a, "stack")
      /\ Vector(Made(disk["stack"], a, "stack")) = stack
      /\ Part(b, "storage") /\ PlannedFor(disk["storage"], b, "storage")
      /\ Vector(Made(disk["storage"], b, "storage")) = storage
      /\ Part(c, "table") /\ PlannedFor(disk["table"], c, "table")
      /\ Vector(Made(disk["table"], c, "table")) = table
  BY DEF MakesOf
<1>2. /\ ws \in Seq(Tasks) /\ Len(a) \in Nat /\ Len(b) \in Nat
      /\ Moved(ws, a, "stack", 0) /\ Moved(ws, b, "storage", Len(a))
      /\ Moved(ws, c, "table", Len(a) + Len(b))
  BY <1>1, Parts
<1>3. a \in Seq(Tasks) /\ b \in Seq(Tasks) /\ c \in Seq(Tasks) /\ Len(a) + Len(b) \in Nat
  BY <1>1, <1>2 DEF Part
<1>4. /\ disk["stack"] \in FilesOf("stack") /\ disk["storage"] \in FilesOf("storage")
      /\ disk["table"] \in FilesOf("table")
  BY DEF Files
<1> HIDE DEF ws
<1>5. /\ PlannedFor(disk["stack"], ws, "stack")
      /\ Made(disk["stack"], ws, "stack") = Made(disk["stack"], a, "stack")
  BY <1>1, <1>2, <1>3, <1>4, MovedPlan, MovedMade
<1>6. /\ PlannedFor(disk["storage"], ws, "storage")
      /\ Made(disk["storage"], ws, "storage") = Made(disk["storage"], b, "storage")
  BY <1>1, <1>2, <1>3, <1>4, MovedPlan, MovedMade
<1>7. /\ PlannedFor(disk["table"], ws, "table")
      /\ Made(disk["table"], ws, "table") = Made(disk["table"], c, "table")
  BY <1>1, <1>2, <1>3, <1>4, MovedPlan, MovedMade
<1>8. QED
  BY <1>1, <1>2, <1>5, <1>6, <1>7 DEF MakesAll, Files, ws

-------------------------------------------------------------------------------
(* The invariant: an operation begins. *)

LEMMA PartFits ==
    ASSUME NEW ws, NEW p, NEW f, NEW k, Moved(ws, p, f, k), \A i \in DOMAIN ws : Fits(ws[i])
    PROVE  \A i \in DOMAIN p : Fits(p[i])
<1> SUFFICES ASSUME NEW i \in DOMAIN p PROVE Fits(p[i])
  OBVIOUS
<1>1. i + k \in DOMAIN ws /\ ws[i + k] = p[i]
  BY DEF Moved, TasksOf
<1>2. QED
  BY <1>1

\* The positions an operation writes: within the storage file, or right behind
\* it and then after its new size.
Placed(ws, f) ==
    \A i \in TasksOf(ws, f) :
        \/ Within(OldSize, ws[i][2])
        \/ /\ ws[i][2].value <= disk["storage"][Header]
           /\ \E j \in TasksOf(ws, "storage") : j < i /\ ws[j][2].at = Header

LEMMA PlacedHere ==
    ASSUME NEW ws, NEW p, NEW f, NEW k, Moved(ws, p, f, k),
           \A i \in DOMAIN p : Within(OldSize, p[i][2])
    PROVE  Placed(ws, f)
<1> SUFFICES ASSUME NEW j \in TasksOf(ws, f) PROVE Within(OldSize, ws[j][2])
  BY DEF Placed
<1>1. j - k \in DOMAIN p /\ p[j - k] = ws[j]
  BY DEF Moved
<1>2. QED
  BY <1>1

LEMMA PlacedBehind ==
    ASSUME NEW ws, NEW k \in Nat, NEW b, NEW c, NEW m \in Nat, DOMAIN b = 1 .. m,
           DOMAIN c \subseteq Nat \ {0},
           Moved(ws, b, "storage", k), Moved(ws, c, "table", k + m),
           \E i \in DOMAIN b : b[i][2].at = Header,
           \A i \in DOMAIN c : c[i][2].at # Header => c[i][2].value <= disk["storage"][Header]
    PROVE  Placed(ws, "table")
<1>1. PICK i \in DOMAIN b : b[i][2].at = Header
  OBVIOUS
<1>2. i + k \in TasksOf(ws, "storage") /\ ws[i + k] = b[i] /\ i \in Nat /\ i <= m
  BY DEF Moved
<1>3. ASSUME NEW j \in TasksOf(ws, "table"), ~ Within(OldSize, ws[j][2])
      PROVE  /\ ws[j][2].value <= disk["storage"][Header]
             /\ \E l \in TasksOf(ws, "storage") : l < j /\ ws[l][2].at = Header
  <2>1. /\ j \in Nat /\ j - (k + m) \in DOMAIN c /\ c[j - (k + m)] = ws[j]
        /\ j - (k + m) \in Nat \ {0}
    BY DEF Moved
  <2>2. i + k < j
    BY <2>1, <1>2
  <2>3. ws[j][2].at # Header
    BY <1>3 DEF Within
  <2>4. ws[j][2].value <= disk["storage"][Header]
    BY <2>1, <2>3
  <2>5. ws[i + k][2].at = Header
    BY <1>1, <1>2
  <2>6. QED
    BY <1>2, <2>2, <2>4, <2>5
<1>4. QED
  BY <1>3 DEF Placed

\* What holds of the files between two operations.
LEMMA Resting ==
    ASSUME Inv, Idle
    PROVE  /\ \A f \in Files : /\ disk[f] \in FilesOf(f) /\ Flushed(f) = disk[f]
                               /\ Filled(disk[f], disk[f][Header])
                               /\ Len(Opened(f)) = disk[f][Header]
                               /\ disk[f][Header] \in Nat /\ disk[f][Header] <= MaxId
                               /\ \A i \in 0 .. disk[f][Header] - 1 :
                                    /\ ReadElement(Opened(f), i) = disk[f][i]
                                    /\ disk[f][i] \in ElementsOf(f)
           /\ OldSize \in Nat /\ OldSize <= disk["storage"][Header]
           /\ Promised = disk
<1>1. /\ \A f \in Files : FileInv(f)
      /\ Types /\ PositionsWithin
  BY DEF Inv
<1>2. ASSUME NEW f \in Files
      PROVE  /\ disk[f] \in FilesOf(f) /\ Flushed(f) = disk[f]
             /\ Filled(disk[f], disk[f][Header])
             /\ Len(Opened(f)) = disk[f][Header]
             /\ disk[f][Header] \in Nat /\ disk[f][Header] <= MaxId
             /\ \A i \in 0 .. disk[f][Header] - 1 :
                    /\ ReadElement(Opened(f), i) = disk[f][i]
                    /\ disk[f][i] \in ElementsOf(f)
             /\ Made(Flushed(f), todo, f) = disk[f]
  <2>1. disk[f] \in FilesOf(f) /\ Filled(disk[f], disk[f][Header])
    BY <1>1 DEF FileInv, TypesOf
  <2>2. Flushed(f) = disk[f]
    BY ApplyNothing DEF Idle, Flushed
  <2>3. disk[f][Header] \in Sizes /\ disk[f][Header] \in Nat /\ disk[f][Header] <= MaxId
    BY <2>1, FileFacts
  <2>4. ASSUME NEW i \in 0 .. disk[f][Header] - 1 PROVE disk[f][i] \in ElementsOf(f)
    <3>1. i \in Ids
      BY <2>3, Facts
    <3>2. disk[f][i] # NoData
      BY <2>1 DEF Filled
    <3>3. QED
      BY <2>1, <3>1, <3>2, FileFacts
  <2>5. Made(Flushed(f), todo, f) = disk[f]
    BY <2>1, <2>2, NoPlan DEF Idle
  <2>6. QED
    BY <2>1, <2>2, <2>3, <2>4, <2>5, VectorIs DEF Opened
<1>3. OldSize \in Nat /\ OldSize <= disk["storage"][Header]
  BY <1>1, Numbers DEF PositionsWithin
<1>4. Promised = [f \in Files |-> disk[f]]
  BY <1>2, PromisedMade
<1>5. disk = [f \in Files |-> disk[f]]
  BY <1>1 DEF Types
<1>6. QED
  BY <1>2, <1>3, <1>4, <1>5

\* The position an insert writes to.
Position ==
    IF Opened("stack") # <<>> THEN Back(Opened("stack")) ELSE Len(Opened("storage"))

\* What a stack or table holds, and so what the free position is, is in or right
\* behind the storage file.
LEMMA PositionIs ==
    ASSUME Inv, Idle
    PROVE  /\ Opened("stack") # <<>> <=> disk["stack"][Header] # 0
           /\ Position \in 0 .. disk["storage"][Header]
           /\ Opened("stack") # <<>> => Position \in Ids /\ Position <= OldSize
           /\ Opened("stack") = <<>> => Position = disk["storage"][Header]
           /\ \A i \in 0 .. disk["table"][Header] - 1 :
                disk["table"][i] # NoPos =>
                    disk["table"][i] \in Ids /\ disk["table"][i] <= OldSize
<1> DEFINE n == disk["stack"][Header]
<1>1. /\ n \in Nat /\ Len(Opened("stack")) = n
      /\ \A i \in 0 .. n - 1 : /\ ReadElement(Opened("stack"), i) = disk["stack"][i]
                               /\ disk["stack"][i] \in Ids
      /\ disk["storage"][Header] \in Nat
      /\ Len(Opened("storage")) = disk["storage"][Header]
      /\ OldSize \in Nat /\ OldSize <= disk["storage"][Header]
  BY Resting DEF Files, ElementsOf
<1>2. Opened("stack") # <<>> <=> n # 0
  <2>1. Opened("stack") \in Seq({disk["stack"][c] : c \in Cells \cup Nat})
    BY <1>1, VectorIs DEF Opened
  <2>2. QED
    BY <2>1, <1>1, EmptySeq
<1>3. PositionsFor("stack") /\ PositionsFor("table")
  BY DEF Inv, PositionsWithin
<1>4. ASSUME n # 0
      PROVE  /\ Position \in Ids /\ Position <= OldSize
             /\ Position \in 0 .. disk["storage"][Header]
  <2>1. n - 1 \in 0 .. n - 1
    BY <1>1, <1>4
  <2>2. Position = disk["stack"][n - 1] /\ Position \in Ids
    BY <1>1, <1>2, <1>4, <2>1 DEF Position, Back
  <2>3. n - 1 \in Ids
    <3>1. n <= MaxId
      BY Resting DEF Files
    <3>2. QED
      BY <3>1, <1>1, <1>4, Facts DEF Ids
  <2>4. Within(OldSize, At(n - 1, disk["stack"][n - 1]))
    BY <1>3, <2>3 DEF PositionsFor
  <2>5. Position <= OldSize /\ Position \in Nat
    BY <2>2, <2>3, <2>4, Facts DEF Within, At, ElementsOf
  <2>6. QED
    BY <2>2, <2>5, <1>1
<1>5. ASSUME n = 0
      PROVE  /\ Position = disk["storage"][Header]
             /\ Position \in 0 .. disk["storage"][Header]
  BY <1>1, <1>2, <1>5 DEF Position
<1>6. ASSUME NEW i \in 0 .. disk["table"][Header] - 1, disk["table"][i] # NoPos
      PROVE  disk["table"][i] \in Ids /\ disk["table"][i] <= OldSize
  <2>1. /\ disk["table"][Header] \in Nat /\ disk["table"][Header] <= MaxId
        /\ disk["table"][i] \in Ids \cup {NoPos}
    BY Resting DEF Files, ElementsOf
  <2>2. i \in Ids
    BY <2>1, Facts DEF Ids
  <2>3. Within(OldSize, At(i, disk["table"][i]))
    BY <1>3, <2>2 DEF PositionsFor
  <2>4. QED
    BY <2>1, <2>2, <2>3, <1>6, Facts DEF Within, At
<1>7. QED
  BY <1>2, <1>4, <1>5, <1>6

PopWrites == IF Opened("stack") # <<>> THEN Pop("stack") ELSE <<>>

Popping == IF Opened("stack") # <<>> THEN PopBack(Opened("stack")) ELSE Opened("stack")

LEMMA PopMakes ==
    ASSUME Inv, Idle
    PROVE  /\ MakesOf(disk["stack"], PopWrites, "stack", Popping)
           /\ \A i \in DOMAIN PopWrites : PopWrites[i][2].at = Header
<1>1. /\ disk["stack"] \in FilesOf("stack")
      /\ Filled(disk["stack"], disk["stack"][Header])
      /\ Len(Opened("stack")) = disk["stack"][Header]
  BY Resting DEF Files
<1>2. CASE Opened("stack") # <<>>
  <2>1. disk["stack"][Header] # 0
    BY <1>2, PositionIs
  <2>2. PopWrites = <<In("stack", Header, disk["stack"][Header] - 1)>>
    BY <1>1, <1>2 DEF PopWrites, Pop
  <2>3. MakesOf(disk["stack"], <<In("stack", Header, disk["stack"][Header] - 1)>>,
                "stack", PopBack(Vector(disk["stack"])))
    BY <1>1, <2>1, PopPlan DEF Files
  <2>4. \A i \in DOMAIN PopWrites : PopWrites[i][2].at = Header
    BY <2>2 DEF In, At
  <2>5. QED
    BY <1>2, <2>2, <2>3, <2>4 DEF Opened, Popping
<1>3. CASE Opened("stack") = <<>>
  BY <1>1, <1>3, NoPlan DEF PopWrites, Popping, Opened
<1>4. QED
  BY <1>2, <1>3

LEMMA InsertStart ==
    ASSUME Inv, Idle, NEW id \in Ids, NEW block \in Blocks, id <= Len(Opened("table")),
           \A i \in DOMAIN InsertWrites(id, block) : Fits(InsertWrites(id, block)[i])
    PROVE  LET ws == InsertWrites(id, block) IN
           /\ MakesAll(ws, Popping, WriteElement(Opened("storage"), block, Position),
                       WriteElement(Opened("table"), Position, id))
           /\ Placed(ws, "stack") /\ Placed(ws, "table")
<1> DEFINE ws == InsertWrites(id, block)
           a == PopWrites
           b == Put("storage", block, Position)
           c == Put("table", Position, id)
<1>1. ws = a \o b \o c
  BY DEF InsertWrites, PopWrites, Position
<1>2. /\ disk["storage"] \in FilesOf("storage") /\ disk["table"] \in FilesOf("table")
      /\ Filled(disk["storage"], disk["storage"][Header])
      /\ Filled(disk["table"], disk["table"][Header])
      /\ disk["storage"][Header] \in Nat /\ disk["storage"][Header] <= MaxId
      /\ Len(Opened("table")) = disk["table"][Header] /\ disk["table"][Header] \in Nat
      /\ OldSize \in Nat /\ OldSize <= disk["storage"][Header]
  BY Resting DEF Files
<1>3. /\ Position \in 0 .. disk["storage"][Header] /\ id \in 0 .. disk["table"][Header]
      /\ Position \in Nat /\ block \in Anything /\ Position \in Anything
  BY <1>2, PositionIs, Facts DEF Anything
<1>4. MakesOf(disk["stack"], a, "stack", Popping) /\ \A i \in DOMAIN a : a[i][2].at = Header
  BY PopMakes
<1>5. /\ Part(b, "storage")
      /\ Position = disk["storage"][Header] => \E i \in DOMAIN b : b[i][2].at = Header
      /\ (\A i \in DOMAIN b : Fits(b[i])) => Position < MaxId
      /\ Position < MaxId => PutMakes("storage", block, Position)
  BY <1>2, <1>3, PutParts DEF Files, ElementsOf
<1>6. /\ Part(c, "table")
      /\ \A i \in DOMAIN c : c[i][2].at # Header => c[i][2].value = Position
      /\ Position \in ElementsOf("table") /\ id < MaxId => PutMakes("table", Position, id)
  BY <1>2, <1>3, PutParts DEF Files
<1> HIDE DEF ws, a, b, c
<1>7. /\ ws \in Seq(Tasks) /\ Len(a) \in Nat /\ Len(b) \in Nat
      /\ Moved(ws, a, "stack", 0) /\ Moved(ws, b, "storage", Len(a))
      /\ Moved(ws, c, "table", Len(a) + Len(b))
  BY <1>1, <1>4, <1>5, <1>6, Parts DEF MakesOf
<1>8. Position < MaxId
  <2>1. \A i \in DOMAIN ws : Fits(ws[i])
    BY DEF ws
  <2>2. \A i \in DOMAIN b : Fits(b[i])
    BY <1>7, <2>1, PartFits
  <2>3. QED
    BY <2>2, <1>5
<1>9. Position \in Ids /\ id < MaxId /\ Position \in ElementsOf("table")
  BY <1>3, <1>8, Facts DEF Ids, ElementsOf
<1>10. PutMakes("storage", block, Position) /\ PutMakes("table", Position, id)
  BY <1>5, <1>6, <1>8, <1>9
<1>11. MakesAll(ws, Popping, WriteElement(Opened("storage"), block, Position),
                WriteElement(Opened("table"), Position, id))
  <2>1. /\ MakesOf(disk["storage"], b, "storage",
                   WriteElement(Opened("storage"), block, Position))
        /\ MakesOf(disk["table"], c, "table", WriteElement(Opened("table"), Position, id))
    BY <1>10 DEF PutMakes, b, c
  <2>2. \A f \in Files : disk[f] \in FilesOf(f)
    BY Resting
  <2>3. QED
    BY <1>1, <1>4, <2>1, <2>2, ThreeParts
<1>12. Placed(ws, "stack")
  <2>1. \A i \in DOMAIN a : Within(OldSize, a[i][2])
    BY <1>4 DEF Within
  <2>2. QED
    BY <2>1, <1>7, PlacedHere
<1>13. Placed(ws, "table")
  <2>1. CASE Position <= OldSize
    <3>1. \A i \in DOMAIN c : Within(OldSize, c[i][2])
      BY <1>6, <2>1 DEF Within
    <3>2. QED
      BY <3>1, <1>7, PlacedHere
  <2>2. CASE ~ Position <= OldSize
    <3>1. Position = disk["storage"][Header]
      BY <2>2, PositionIs
    <3>2. \E i \in DOMAIN b : b[i][2].at = Header
      BY <3>1, <1>5
    <3>3. \A i \in DOMAIN c : c[i][2].at # Header => c[i][2].value <= disk["storage"][Header]
      BY <1>2, <1>6, <3>1
    <3>4. DOMAIN b = 1 .. Len(b) /\ DOMAIN c \subseteq Nat \ {0}
      BY <1>5, <1>6, LenProperties DEF Part
    <3>5. QED
      BY <3>2, <3>3, <3>4, <1>7, PlacedBehind
  <2>3. QED
    BY <2>1, <2>2
<1>14. QED
  BY <1>11, <1>12, <1>13 DEF ws

LEMMA EraseStart ==
    ASSUME Inv, Idle, NEW id \in Ids, Find(id) # NoPos,
           \A i \in DOMAIN EraseWrites(id) : Fits(EraseWrites(id)[i])
    PROVE  LET ws == EraseWrites(id)
               g == Made(disk["table"], ws, "table")
           IN
           /\ MakesAll(ws, PushBack(Opened("stack"), Find(id)), Opened("storage"),
                       WriteElement(Opened("table"), NoPos, id))
           /\ Placed(ws, "stack") /\ Placed(ws, "table")
           /\ g[id] = NoPos /\ id < g[Header]
<1> DEFINE ws == EraseWrites(id)
           at == Find(id)
           a == Put("stack", at, disk["stack"][Header])
           c == Put("table", NoPos, id)
<1>1. /\ disk["stack"] \in FilesOf("stack") /\ disk["table"] \in FilesOf("table")
      /\ disk["storage"] \in FilesOf("storage")
      /\ Filled(disk["stack"], disk["stack"][Header])
      /\ Filled(disk["table"], disk["table"][Header])
      /\ disk["stack"][Header] \in Nat /\ Len(Opened("stack")) = disk["stack"][Header]
      /\ disk["table"][Header] \in Nat /\ Len(Opened("table")) = disk["table"][Header]
      /\ OldSize \in Nat
  BY Resting DEF Files
<1>2. id < disk["table"][Header] /\ id \in 0 .. disk["table"][Header] - 1 /\ id < MaxId
  BY <1>1, Facts DEF Find
<1>3. at = disk["table"][id] /\ at \in Ids /\ at <= OldSize
  <2>1. at = ReadElement(Opened("table"), id)
    BY <1>1, <1>2, Facts DEF Find
  <2>2. ReadElement(Opened("table"), id) = disk["table"][id]
    BY <1>2, Resting DEF Files
  <2>3. QED
    BY <2>1, <2>2, <1>2, PositionIs
<1>4. /\ at \in Anything /\ NoPos \in Anything
      /\ at \in ElementsOf("stack") /\ NoPos \in ElementsOf("table")
      /\ disk["stack"][Header] \in 0 .. disk["stack"][Header]
      /\ id \in 0 .. disk["table"][Header]
  <2>1. at \in Anything /\ NoPos \in Anything
    BY <1>3, Facts DEF Anything, NoPos
  <2>2. at \in ElementsOf("stack") /\ NoPos \in ElementsOf("table")
    BY <1>3 DEF ElementsOf
  <2>3. disk["stack"][Header] \in 0 .. disk["stack"][Header] /\ id \in 0 .. disk["table"][Header]
    BY <1>1, <1>2
  <2>4. QED
    BY <2>1, <2>2, <2>3
<1>5. /\ Part(a, "stack")
      /\ \A i \in DOMAIN a : a[i][2].at # Header => a[i][2].value = at
      /\ (\A i \in DOMAIN a : Fits(a[i])) => disk["stack"][Header] < MaxId
      /\ disk["stack"][Header] < MaxId => PutMakes("stack", at, disk["stack"][Header])
  <2> HIDE DEF at
  <2>1. QED
    BY <1>1, <1>4, PutParts DEF Files
<1>6. /\ Part(c, "table")
      /\ \A i \in DOMAIN c : c[i][2].at # Header => c[i][2].value = NoPos
      /\ PutMakes("table", NoPos, id)
  BY <1>1, <1>2, <1>4, PutParts DEF Files
<1>7. ws = a \o <<>> \o c
  <2>1. a = Push("stack", at) /\ c = <<In("table", id, NoPos)>>
    BY <1>1, <1>2, Facts DEF Put
  <2>2. a \o <<>> = a
    BY <1>5, ConcatEmptySeq DEF Part
  <2>3. QED
    BY <2>1, <2>2 DEF EraseWrites
<1>8. WriteElement(Opened("stack"), at, disk["stack"][Header]) = PushBack(Opened("stack"), at)
  BY <1>1 DEF WriteElement
<1> HIDE DEF ws, at, a, c
<1>9. MakesOf(disk["storage"], <<>>, "storage", Opened("storage"))
  BY <1>1, NoPlan DEF Opened
<1>10. /\ ws \in Seq(Tasks) /\ Len(a) \in Nat /\ Len(<<>>) \in Nat
       /\ Moved(ws, a, "stack", 0) /\ Moved(ws, c, "table", Len(a) + Len(<<>>))
  BY <1>5, <1>6, <1>7, <1>9, Parts DEF MakesOf
<1>11. PutMakes("stack", at, disk["stack"][Header])
  <2>1. \A i \in DOMAIN ws : Fits(ws[i])
    BY DEF ws
  <2>2. \A i \in DOMAIN a : Fits(a[i])
    BY <1>10, <2>1, PartFits
  <2>3. QED
    BY <2>2, <1>5
<1>12. /\ MakesAll(ws, PushBack(Opened("stack"), at), Opened("storage"),
                   WriteElement(Opened("table"), NoPos, id))
       /\ Made(disk["table"], ws, "table") = Made(disk["table"], c, "table")
  <2>1. /\ MakesOf(disk["stack"], a, "stack", PushBack(Opened("stack"), at))
        /\ MakesOf(disk["table"], c, "table", WriteElement(Opened("table"), NoPos, id))
    BY <1>6, <1>8, <1>11 DEF PutMakes, a, c
  <2>2. \A f \in Files : disk[f] \in FilesOf(f)
    BY Resting
  <2> DEFINE freed == PushBack(Opened("stack"), at)
             cleared == WriteElement(Opened("table"), NoPos, id)
             kept == Opened("storage")
             none == <<>>
             all == a \o none \o c
  <2>3. /\ MakesOf(disk["stack"], a, "stack", freed)
        /\ MakesOf(disk["storage"], none, "storage", kept)
        /\ MakesOf(disk["table"], c, "table", cleared)
    BY <1>9, <2>1
  <2> HIDE DEF freed, cleared, kept, none
  <2>4. /\ MakesAll(all, freed, kept, cleared)
        /\ Made(disk["table"], all, "table") = Made(disk["table"], c, "table")
    BY <2>2, <2>3, ThreeParts
  <2>5. ws = all
    BY <1>7 DEF none
  <2>6. QED
    BY <2>4, <2>5 DEF freed, cleared, kept
<1>13. Placed(ws, "stack")
  <2>1. \A i \in DOMAIN a : Within(OldSize, a[i][2])
    BY <1>3, <1>5 DEF Within
  <2>2. QED
    BY <2>1, <1>10, PlacedHere
<1>14. Placed(ws, "table")
  <2>1. \A i \in DOMAIN c : Within(OldSize, c[i][2])
    BY <1>1, <1>6 DEF Within, NoPos
  <2>2. QED
    BY <2>1, <1>10, PlacedHere
<1>15. /\ Made(disk["table"], c, "table")[id] = NoPos
       /\ Made(disk["table"], c, "table")[Header] = disk["table"][Header]
  BY <1>2, <1>6 DEF PutMakes, c
<1>16. QED
  BY <1>2, <1>12, <1>13, <1>14, <1>15 DEF ws, at

\* The writes of an operation, as the files and what a crash brings back need them.
Begins(ws) ==
    /\ ws \in Seq(Tasks) /\ \A f \in Files : PlannedFor(disk[f], ws, f)
    /\ Placed(ws, "stack") /\ Placed(ws, "table")

LEMMA StartPromise ==
    ASSUME Inv, NEW ws, Start(ws)
    PROVE  Promised = disk /\ Promised' = [f \in Files |-> Made(disk[f], ws, f)]
<1>1. Idle /\ todo' = ws /\ disk' = disk /\ pending' = pending
  BY DEF Start
<1>2. ASSUME NEW f \in Files PROVE Flushed(f)' = disk[f]
  BY <1>1, ApplyNothing DEF Idle, Flushed
<1>3. Promised' = [f \in Files |-> Made(disk[f], ws, f)]
  BY <1>1, <1>2, PromisedMade
<1>4. QED
  BY <1>1, <1>3, Resting

LEMMA StartInv ==
    ASSUME Inv, NEW ws, Start(ws), Begins(ws),
           replace' = NoInsert \/ replace' \in Ids \X Blocks, ReplaceInStep'
    PROVE  Inv'
<1>1. /\ Idle /\ pc = 0 /\ todo = <<>> /\ \A f \in Files : pending[f] = NoWrite
      /\ todo' = ws /\ ops' = ops + 1 /\ before' = Vectors(disk)
      /\ disk' = disk /\ records' = records /\ pending' = pending /\ pc' = pc
      /\ crashes' = crashes
  BY DEF Start, Idle
<1>2. /\ Types /\ PositionsWithin /\ ops \in Nat
      /\ \A f \in Files : FileInv(f) /\ FirstFor(f)
  BY DEF Inv, Types
<1>3. Types'
  BY <1>1, <1>2 DEF Types, Begins, Vectors
<1>4. ASSUME NEW f \in Files PROVE FileInv(f)'
  <2>1. Flushed(f)' = disk[f]
    BY <1>1, ApplyNothing DEF Flushed
  <2>2. TypesOf(f)'
    BY <1>1, <1>2 DEF FileInv, TypesOf
  <2>3. Filled(disk[f], disk[f][Header])' /\ pending'[f] = NoWrite
    BY <1>1, <1>2 DEF FileInv
  <2>4. \A i \in DOMAIN records'[f] :
            records'[f][i].at = Header => Filled(disk'[f], records'[f][i].value)
    BY <1>1, <1>2 DEF FileInv
  <2>5. PlannedFor(Flushed(f), todo, f)'
    BY <1>1, <2>1 DEF Begins
  <2>6. QED
    BY <2>2, <2>3, <2>4, <2>5 DEF FileInv
<1>5. ASSUME NEW f \in Files PROVE FirstFor(f)'
  <2>1. ops' # 0 /\ (ops' <= 1 => ops = 0)
    BY <1>1, <1>2
  <2>2. ASSUME ops' <= 1
        PROVE  /\ \A c \in Cells : HasTask(todo', f, c) => ~ HasRecord(records'[f], c)
               /\ Vector(Undone(f)') = before'[f]
    <3>1. records'[f] = <<>> /\ records[f] = <<>>
      BY <1>1, <1>2, <2>1, <2>2 DEF FirstFor
    <3>2. disk[f] \in FilesOf(f)
      BY <1>2 DEF FileInv, TypesOf
    <3>3. Undone(f)' = disk[f]
      BY <1>1, <3>1, <3>2, ReplayNone DEF Undone
    <3>4. before'[f] = Vector(disk[f])
      BY <1>1 DEF Vectors
    <3>5. \A c : ~ HasRecord(records'[f], c)
      BY <3>1, EmptyJournal
    <3>6. QED
      BY <3>3, <3>4, <3>5
  <2>3. QED
    BY <2>1, <2>2 DEF FirstFor
<1>6. Stages'
  BY <1>1, <1>2 DEF Stages
<1>7. PositionsWithin'
  <2>1. OldSize' = OldSize /\ Flushed("storage")' = disk["storage"]
    BY <1>1, ApplyNothing DEF OldSize, Undone, Flushed, Files
  <2>2. ASSUME NEW f \in {"stack", "table"} PROVE PositionsFor(f)'
    <3>1. PositionsFor(f) /\ Placed(ws, f)
      BY <1>2 DEF PositionsWithin, Begins
    <3>2. \A i \in TasksOf(todo', f) :
            \/ Within(OldSize', todo'[i][2])
            \/ /\ todo'[i][2].value <= Flushed("storage")'[Header]
               /\ \E j \in TasksOf(todo', "storage") : j < i /\ todo'[j][2].at = Header
      BY <1>1, <2>1, <3>1 DEF Placed
    <3>3. /\ \A c \in Ids : Within(OldSize', At(c, disk'[f][c]))
          /\ Within(OldSize', pending'[f])
          /\ \A i \in DOMAIN records'[f] : Within(OldSize', records'[f][i])
      BY <1>1, <2>1, <3>1 DEF PositionsFor
    <3>4. QED
      BY <3>2, <3>3 DEF PositionsFor
  <2>3. QED
    BY <1>1, <1>2, <2>1, <2>2 DEF PositionsWithin
<1>8. QED
  BY <1>3, <1>4, <1>5, <1>6, <1>7 DEF Inv

LEMMA InsertStarts ==
    ASSUME Inv, NEW id \in Ids, NEW block \in Blocks, id <= Len(Opened("table")),
           Start(InsertWrites(id, block))
    PROVE  /\ Begins(InsertWrites(id, block))
           /\ MakesAll(InsertWrites(id, block), Popping,
                       WriteElement(Opened("storage"), block, Position),
                       WriteElement(Opened("table"), Position, id))
<1>1. Idle /\ \A i \in DOMAIN InsertWrites(id, block) : Fits(InsertWrites(id, block)[i])
  BY DEF Start
<1>2. QED
  BY <1>1, InsertStart DEF MakesAll, Begins

LEMMA EraseStarts ==
    ASSUME Inv, NEW id \in Ids, Find(id) # NoPos, Start(EraseWrites(id))
    PROVE  /\ Begins(EraseWrites(id))
           /\ MakesAll(EraseWrites(id), PushBack(Opened("stack"), Find(id)),
                       Opened("storage"), WriteElement(Opened("table"), NoPos, id))
           /\ Promised'["table"][id] = NoPos /\ id < Promised'["table"][Header]
<1>1. Idle /\ \A i \in DOMAIN EraseWrites(id) : Fits(EraseWrites(id)[i])
  BY DEF Start
<1>2. Promised'["table"] = Made(disk["table"], EraseWrites(id), "table")
  BY StartPromise DEF Files
<1>3. QED
  BY <1>1, <1>2, EraseStart DEF MakesAll, Begins

LEMMA InsertInv ==
    ASSUME Inv, NEW id \in Ids, NEW block \in Blocks, InsertOp(id, block)
    PROVE  Inv'
<1>1. /\ Start(InsertWrites(id, block)) /\ id <= Len(Opened("table"))
      /\ replace' = NoInsert
  BY DEF InsertOp, Call
<1>2. Begins(InsertWrites(id, block))
  BY <1>1, InsertStarts
<1>3. ReplaceInStep'
  BY <1>1 DEF ReplaceInStep
<1>4. QED
  BY <1>1, <1>2, <1>3, StartInv

LEMMA EraseInv ==
    ASSUME Inv, NEW id \in Ids, EraseOp(id)
    PROVE  Inv'
<1>1. Start(EraseWrites(id)) /\ Find(id) # NoPos /\ replace' = NoInsert
  BY DEF EraseOp, Call
<1>2. Begins(EraseWrites(id))
  BY <1>1, EraseStarts
<1>3. ReplaceInStep'
  BY <1>1 DEF ReplaceInStep
<1>4. QED
  BY <1>1, <1>2, <1>3, StartInv

LEMMA ReplaceInv ==
    ASSUME Inv, NEW id \in Ids, NEW block \in Blocks, ReplaceOp(id, block)
    PROVE  Inv'
<1>1. Start(EraseWrites(id)) /\ Find(id) # NoPos /\ replace' = <<id, block>>
  BY DEF ReplaceOp, Call
<1>2. /\ Begins(EraseWrites(id))
      /\ Promised'["table"][id] = NoPos /\ id < Promised'["table"][Header]
  BY <1>1, EraseStarts
<1>3. ReplaceInStep' /\ replace' \in Ids \X Blocks
  BY <1>1, <1>2 DEF ReplaceInStep
<1>4. QED
  BY <1>1, <1>2, <1>3, StartInv

\* The insert of a replacement finds its id erased.
LEMMA AgainInserts ==
    ASSUME Inv, InsertAgain
    PROVE  /\ replace[1] \in Ids /\ replace[2] \in Blocks
           /\ Start(InsertWrites(replace[1], replace[2])) /\ replace' = NoInsert
           /\ Find(replace[1]) = NoPos /\ replace[1] <= Len(Opened("table"))
<1>1. /\ replace # NoInsert /\ Start(InsertWrites(replace[1], replace[2])) /\ Idle
      /\ replace' = NoInsert
  BY DEF InsertAgain, Start
<1>2. replace[1] \in Ids /\ replace[2] \in Blocks /\ replace[1] \in Nat
  BY <1>1, Facts DEF Inv, Types
<1>3. /\ replace[1] < disk["table"][Header] /\ disk["table"][replace[1]] = NoPos
      /\ Len(Opened("table")) = disk["table"][Header] /\ disk["table"][Header] \in Nat
      /\ \A i \in 0 .. disk["table"][Header] - 1 :
            ReadElement(Opened("table"), i) = disk["table"][i]
  BY <1>1, Resting DEF Inv, ReplaceInStep, Files
<1>4. Find(replace[1]) = NoPos
  BY <1>2, <1>3 DEF Find
<1>5. QED
  BY <1>1, <1>2, <1>3, <1>4

LEMMA AgainInv == ASSUME Inv, InsertAgain PROVE Inv'
<1>1. /\ replace[1] \in Ids /\ replace[2] \in Blocks
      /\ Start(InsertWrites(replace[1], replace[2])) /\ replace' = NoInsert
      /\ replace[1] <= Len(Opened("table"))
  BY AgainInserts
<1>2. Begins(InsertWrites(replace[1], replace[2]))
  BY <1>1, InsertStarts
<1>3. ReplaceInStep'
  BY <1>1 DEF ReplaceInStep
<1>4. QED
  BY <1>1, <1>2, <1>3, StartInv

LEMMA StepInv == ASSUME Inv, [Next]_vars PROVE Inv'
<1>1. ASSUME NEW id \in Ids, NEW b \in Blocks, InsertOp(id, b) PROVE Inv'
  BY <1>1, InsertInv
<1>2. ASSUME NEW id \in Ids, NEW b \in Blocks, ReplaceOp(id, b) PROVE Inv'
  BY <1>2, ReplaceInv
<1>3. ASSUME NEW id \in Ids, EraseOp(id) PROVE Inv'
  BY <1>3, EraseInv
<1>4. ASSUME NEW f \in Files, Flush(f) PROVE Inv'
  BY <1>4, FlushInv
<1>5. QED
  BY <1>1, <1>2, <1>3, <1>4, AgainInv, WriteInv, CrashInv, RestoreFileInv,
     RestoreDoneInv, StutterInv DEF Next

LEMMA InvAlways == Spec => []Inv
BY InitInv, StepInv, PTL DEF Spec

-------------------------------------------------------------------------------
(* Theorems. *)

\* Type correctness: sizes within the bound, and no journal ever holds a record
\* of something that is not in its file.
THEOREM TypeCorrect == Spec => []TypeOK
<1>1. ASSUME Inv PROVE TypeOK
  <2>1. ASSUME NEW f \in Files
        PROVE  /\ disk[f][Header] \in 0 .. MaxId
               /\ \A i \in DOMAIN records[f] :
                    records[f][i].at \in Cells /\ records[f][i].value # NoData
    <3>1. disk[f] \in FilesOf(f) /\ records[f] \in Seq(WritesTo(f))
      BY <1>1 DEF Inv, FileInv, TypesOf
    <3>2. disk[f][Header] \in 0 .. MaxId
      BY <3>1, FileFacts DEF Sizes
    <3>3. \A i \in DOMAIN records[f] : records[f][i] \in WritesTo(f)
      BY <3>1, LenProperties
    <3>4. QED
      BY <3>2, <3>3, WriteFacts
  <2>2. pc \in 0 .. Len(FilesInOrder) + 1 /\ (replace = NoInsert \/ replace \in Ids \X Blocks)
    BY <1>1 DEF Inv, Types
  <2>3. QED
    BY <2>1, <2>2 DEF TypeOK
<1>2. QED
  BY <1>1, InvAlways, PTL

\* A crash anywhere in the first operation since the journals were empty, or in
\* the restore that follows it, is undone in all three files, whatever their
\* streams have written out.
THEOREM FirstUndone == Spec => []FirstOperationIsUndone
<1>1. ASSUME Inv, ops <= 1 PROVE Vectors(Restored) = before
  <2>1. \A f \in Files : Vector(Undone(f)) = before[f]
    BY <1>1 DEF Inv, FirstFor
  <2>2. before = [f \in Files |-> before[f]]
    BY <1>1 DEF Inv, Types
  <2>3. Vectors(Restored) = [f \in Files |-> Vector(Undone(f))]
    BY DEF Vectors, Restored
  <2>4. QED
    BY <2>1, <2>2, <2>3
<1>2. Inv => FirstOperationIsUndone
  BY <1>1 DEF FirstOperationIsUndone
<1>3. QED
  BY <1>2, InvAlways, PTL

\* Whatever any number of crashes have undone of any number of operations, a
\* position of the stack or the table is in the storage file or right behind it.
THEOREM InReach == Spec => []PositionsInReach
<1>1. ASSUME Inv, Idle, NEW f \in {"stack", "table"}, NEW i \in DOMAIN Opened(f)
      PROVE  Opened(f)[i] <= Len(Opened("storage"))
  <2> DEFINE n == disk[f][Header]
             e == disk[f][i - 1]
             size == disk["storage"][Header]
  <2>1. f \in Files /\ "storage" \in Files
    BY DEF Files
  <2>2. /\ n \in Nat /\ n <= MaxId /\ \A k \in 0 .. n - 1 : disk[f][k] \in ElementsOf(f)
        /\ Len(Opened("storage")) = size /\ size \in Nat
        /\ OldSize \in Nat /\ OldSize <= size
    BY <1>1, <2>1, Resting
  <2>3. DOMAIN Opened(f) = 1 .. n /\ Opened(f)[i] = e
    BY DEF Opened, Vector
  <2>4. i - 1 \in 0 .. n - 1 /\ i - 1 \in Ids
    BY <2>2, <2>3, Facts DEF Ids
  <2>5. e \in ElementsOf(f) /\ e # NoData /\ e \in Int
    BY <2>2, <2>4, PositionIsNumber, Facts
  <2>6. Within(OldSize, At(i - 1, e))
    BY <1>1, <2>4 DEF Inv, PositionsWithin, PositionsFor
  <2>7. e <= OldSize
    BY <2>4, <2>5, <2>6, Facts DEF Within, At
  <2>8. QED
    BY <2>2, <2>3, <2>5, <2>7
<1>2. Inv => PositionsInReach
  BY <1>1 DEF PositionsInReach
<1>3. QED
  BY <1>2, InvAlways, PTL

-------------------------------------------------------------------------------
(* The writes of an operation make that operation of module IOStorage. *)

\* IOStorage's operators on vectors are those of this module.
LEMMA SameOperators ==
    /\ \A v, e, i : IO!WriteElement(v, e, i) = WriteElement(v, e, i)
    /\ \A v, e : IO!PushBack(v, e) = PushBack(v, e)
    /\ \A v : IO!PopBack(v) = PopBack(v) /\ IO!Back(v) = Back(v)
    /\ \A v, i : IO!ReadElement(v, i) = ReadElement(v, i)
    /\ IO!NoPos = NoPos /\ IO!Ids = Ids
BY DEF IO!WriteElement, WriteElement, IO!PushBack, PushBack, IO!PopBack, PopBack,
       IO!Back, Back, IO!ReadElement, ReadElement, IO!NoPos, NoPos, IO!Ids, Ids

LEMMA SamePlaces ==
    ASSUME Promised = disk, Inv, Idle
    PROVE  /\ Vector(Promised.stack) = Opened("stack")
           /\ Vector(Promised.storage) = Opened("storage")
           /\ Vector(Promised.table) = Opened("table")
           /\ \A id : IO!Find(id) = Find(id)
           /\ IO!FreePosition = Position
           /\ Len(Opened("stack")) > 0 <=> Opened("stack") # <<>>
<1>1. /\ Vector(Promised.stack) = Opened("stack")
      /\ Vector(Promised.storage) = Opened("storage")
      /\ Vector(Promised.table) = Opened("table")
  BY DEF Opened
<1>2. \A id : IO!Find(id) = Find(id)
  BY <1>1, SameOperators DEF IO!Find, Find
<1>3. Len(Opened("stack")) > 0 <=> Opened("stack") # <<>>
  <2>1. /\ Opened("stack") # <<>> <=> disk["stack"][Header] # 0
        /\ Len(Opened("stack")) = disk["stack"][Header] /\ disk["stack"][Header] \in Nat
    BY PositionIs, Resting DEF Files
  <2>2. QED
    BY <2>1
<1>4. IO!FreePosition = Position
  BY <1>1, <1>3, SameOperators DEF IO!FreePosition, Position
<1>5. QED
  BY <1>1, <1>2, <1>3, <1>4

LEMMA InsertMade ==
    ASSUME Inv, NEW id \in Ids, NEW block \in Blocks, id <= Len(Opened("table")),
           Find(id) = NoPos, Start(InsertWrites(id, block))
    PROVE  IO!Insert(id, block)
<1>1. Promised = disk /\ Promised' = [f \in Files |-> Made(disk[f], InsertWrites(id, block), f)]
  BY StartPromise
<1>2. Idle
  BY DEF Start
<1>3. MakesAll(InsertWrites(id, block), Popping,
               WriteElement(Opened("storage"), block, Position),
               WriteElement(Opened("table"), Position, id))
  BY InsertStarts
<1>4. /\ Vector(Promised'.stack) = Popping
      /\ Vector(Promised'.storage) = WriteElement(Opened("storage"), block, Position)
      /\ Vector(Promised'.table) = WriteElement(Opened("table"), Position, id)
  BY <1>1, <1>3 DEF MakesAll, Files
<1>5. /\ Vector(Promised.stack) = Opened("stack")
      /\ Vector(Promised.storage) = Opened("storage")
      /\ Vector(Promised.table) = Opened("table")
      /\ IO!Find(id) = Find(id) /\ IO!FreePosition = Position
      /\ Len(Opened("stack")) > 0 <=> Opened("stack") # <<>>
  BY <1>1, <1>2, SamePlaces
<1>6. Vector(Promised.stack)' = Vector(Promised'.stack)
      /\ Vector(Promised.storage)' = Vector(Promised'.storage)
      /\ Vector(Promised.table)' = Vector(Promised'.table)
  BY DEF Vector
<1>7. QED
  BY <1>4, <1>5, <1>6, SameOperators DEF IO!Insert, Popping

LEMMA EraseMade ==
    ASSUME Inv, NEW id \in Ids, Find(id) # NoPos, Start(EraseWrites(id))
    PROVE  IO!Erase(id)
<1>1. Promised = disk /\ Promised' = [f \in Files |-> Made(disk[f], EraseWrites(id), f)]
  BY StartPromise
<1>2. Idle
  BY DEF Start
<1>3. MakesAll(EraseWrites(id), PushBack(Opened("stack"), Find(id)),
               Opened("storage"), WriteElement(Opened("table"), NoPos, id))
  BY EraseStarts
<1>4. /\ Vector(Promised'.stack) = PushBack(Opened("stack"), Find(id))
      /\ Vector(Promised'.storage) = Opened("storage")
      /\ Vector(Promised'.table) = WriteElement(Opened("table"), NoPos, id)
  BY <1>1, <1>3 DEF MakesAll, Files
<1>5. /\ Vector(Promised.stack) = Opened("stack")
      /\ Vector(Promised.storage) = Opened("storage")
      /\ Vector(Promised.table) = Opened("table")
      /\ IO!Find(id) = Find(id)
  BY <1>1, <1>2, SamePlaces
<1>6. Vector(Promised.stack)' = Vector(Promised'.stack)
      /\ Vector(Promised.storage)' = Vector(Promised'.storage)
      /\ Vector(Promised.table)' = Vector(Promised'.table)
  BY DEF Vector
<1>7. QED
  BY <1>4, <1>5, <1>6, SameOperators DEF IO!Erase

LEMMA PromiseKept == ASSUME Promised' = Promised PROVE IO!vars' = IO!vars
BY DEF IO!vars, Vector

\* No restore without a crash before it.
CrashFirst == crashes \in Nat /\ (pc # 0 => crashes # 0)

LEMMA CrashesFirst == Spec => []CrashFirst
<1>1. Init => CrashFirst
  BY DEF Init, CrashFirst
<1>2. CrashFirst /\ [Next]_vars => CrashFirst'
  <2> SUFFICES ASSUME CrashFirst, [Next]_vars PROVE CrashFirst'
    OBVIOUS
  <2>1. CASE \E writes : Start(writes)
    BY <2>1 DEF Start, CrashFirst
  <2>2. CASE Write \/ (\E f \in Files : Flush(f)) \/ UNCHANGED vars
    BY <2>2 DEF Write, Flush, CrashFirst, vars
  <2>3. CASE Crash
    BY <2>3 DEF Crash, CrashFirst
  <2>4. CASE RestoreFile
    BY <2>4 DEF RestoreFile, CrashFirst, FilesInOrder
  <2>5. CASE RestoreDone
    BY <2>5 DEF RestoreDone, CrashFirst, FilesInOrder
  <2>6. QED
    BY <2>1, <2>2, <2>3, <2>4, <2>5 DEF Next, InsertOp, ReplaceOp, EraseOp, InsertAgain, Call
<1>3. QED
  BY <1>1, <1>2, PTL DEF Spec

\* The writes an operation makes in three files, one by one and through three
\* buffers, make the insert or erase of IOStorage, all of it when the operation
\* begins, and nothing that follows it before a crash takes anything back.
THEOREM MakeOperations == Spec => WritesMakeOperations
<1>1. ASSUME Inv, CrashFirst, [Next]_vars, crashes' = 0
      PROVE  IO!Next \/ IO!vars' = IO!vars
  <2>1. ASSUME NEW id \in Ids, NEW b \in Blocks, InsertOp(id, b) PROVE IO!Next
    <3>1. IO!Insert(id, b)
      BY <1>1, <2>1, InsertMade DEF InsertOp, Call
    <3>2. QED
      BY <3>1, SameOperators DEF IO!Next
  <2>2. ASSUME NEW id \in Ids, NEW b \in Blocks, ReplaceOp(id, b) PROVE IO!Next
    <3>1. IO!Erase(id)
      BY <1>1, <2>2, EraseMade DEF ReplaceOp, Call
    <3>2. QED
      BY <3>1, SameOperators DEF IO!Next
  <2>3. ASSUME NEW id \in Ids, EraseOp(id) PROVE IO!Next
    <3>1. IO!Erase(id)
      BY <1>1, <2>3, EraseMade DEF EraseOp, Call
    <3>2. QED
      BY <3>1, SameOperators DEF IO!Next
  <2>4. CASE InsertAgain
    <3>1. IO!Insert(replace[1], replace[2]) /\ replace[1] \in Ids /\ replace[2] \in Blocks
      BY <1>1, <2>4, AgainInserts, InsertMade
    <3>2. QED
      BY <3>1, SameOperators DEF IO!Next
  <2>5. ASSUME NEW f \in Files, Flush(f) PROVE IO!vars' = IO!vars
    BY <1>1, <2>5, FlushInv, PromiseKept
  <2>6. CASE Write
    BY <1>1, <2>6, WriteInv, PromiseKept
  <2>7. CASE Crash
    BY <1>1, <2>7 DEF Crash, CrashFirst
  <2>8. CASE RestoreFile \/ RestoreDone
    BY <1>1, <2>8 DEF RestoreFile, RestoreDone, CrashFirst, FilesInOrder
  <2>9. CASE UNCHANGED vars
    <3>1. disk' = disk /\ pending' = pending /\ todo' = todo
      BY <2>9 DEF vars
    <3>2. Promised' = Promised
      BY <3>1 DEF Promised, After
    <3>3. QED
      BY <3>2, PromiseKept
  <2>10. QED
    BY <1>1, <2>1, <2>2, <2>3, <2>4, <2>5, <2>6, <2>7, <2>8, <2>9 DEF Next
<1>2. Inv /\ CrashFirst /\ [Next]_vars =>
        [crashes' = 0 => IO!Next \/ IO!vars' = IO!vars]_vars
  BY <1>1
<1>3. QED
  BY <1>2, InvAlways, CrashesFirst, PTL DEF Spec, WritesMakeOperations

===============================================================================
