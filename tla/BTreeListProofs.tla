---------------------------- MODULE BTreeListProofs ----------------------------
(***************************************************************************)
(* Proof about module BTree that getRange finds the leaves in the order of *)
(* their keys: the list of the leaves is the leaves of the tree in order,  *)
(* at every step of a call.  The invariant of module BTreeShapeProofs      *)
(* gives the tree; this module adds that its leaves are linked in order    *)
(* and that on the way up, while the node at work is a leaf, the other     *)
(* children of its parent are linked in theirs, which is what a join       *)
(* relies on when it makes two of them one.                                *)
(*                                                                         *)
(* From both follows that the tree implements the map of module KVMap: the *)
(* search of a call comes to the leaf that has its key, if one has, and    *)
(* getRange, wherever it has come to, has listed the pairs of its interval *)
(* that lie before the leaf it reads.                                      *)
(***************************************************************************)
EXTENDS BTreeShapeProofs

-------------------------------------------------------------------------------
(* Lists in order. *)

\* The leaves L in the order of their keys: lo has the smallest key of each, hi
\* its largest one, nx and pv are the ids of its neighbours in the list.
Before(a, b, lo, hi) == hi[a] < lo[b]

InRow(L, lo, hi) ==
    \A a \in L : \A b \in L \ {a} :
        /\ lo[a] \in Int /\ hi[a] \in Int /\ lo[a] <= hi[a]
        /\ Before(a, b, lo, hi) \/ Before(b, a, lo, hi)

\* Leaf a is the last one, or its neighbour is the next one.
NextIsNext(a, L, nx, pv, lo, hi) ==
    IF nx[a] = Nil THEN \A d \in L \ {a} : Before(d, a, lo, hi)
    ELSE /\ nx[a] \in L \ {a} /\ pv[nx[a]] = a /\ Before(a, nx[a], lo, hi)
         /\ \A d \in L \ {a, nx[a]} : Before(d, a, lo, hi) \/ Before(nx[a], d, lo, hi)

PrevIsPrev(a, L, nx, pv, lo, hi) ==
    IF pv[a] = Nil THEN \A d \in L \ {a} : Before(a, d, lo, hi)
    ELSE pv[a] \in L \ {a} /\ nx[pv[a]] = a

Threaded(L, nx, pv, lo, hi) ==
    /\ InRow(L, lo, hi) /\ Nil \notin L
    /\ \A a \in L : NextIsNext(a, L, nx, pv, lo, hi) /\ PrevIsPrev(a, L, nx, pv, lo, hi)

LEMMA ThreadKept ==
    ASSUME NEW L, NEW nx, NEW pv, NEW lo, NEW hi, Threaded(L, nx, pv, lo, hi),
           NEW nx2, NEW pv2, NEW lo2, NEW hi2,
           \A a \in L : nx2[a] = nx[a] /\ pv2[a] = pv[a] /\ lo2[a] = lo[a] /\ hi2[a] = hi[a]
    PROVE  Threaded(L, nx2, pv2, lo2, hi2)
BY DEF Threaded, InRow, NextIsNext, PrevIsPrev, Before

\* A leaf alone.
LEMMA ThreadOfOne ==
    ASSUME NEW a, a # Nil, NEW nx, NEW pv, NEW lo, NEW hi
    PROVE  Threaded({a}, nx, pv, lo, hi) <=> nx[a] = Nil /\ pv[a] = Nil
BY DEF Threaded, InRow, NextIsNext, PrevIsPrev

\* Two leaves that know each other.
LEMMA ThreadOfTwo ==
    ASSUME NEW a, NEW b, a # Nil, b # Nil, a # b, NEW nx, NEW pv, NEW lo, NEW hi,
           nx[a] = b, pv[b] = a, nx[b] = Nil, pv[a] = Nil,
           lo[a] \in Int, hi[a] \in Int, lo[b] \in Int, hi[b] \in Int,
           lo[a] <= hi[a], hi[a] < lo[b], lo[b] <= hi[b]
    PROVE  Threaded({a, b}, nx, pv, lo, hi)
BY DEF Threaded, InRow, NextIsNext, PrevIsPrev, Before

\* The keys of the leaves change, their order does not.
LEMMA ThreadReordered ==
    ASSUME NEW L, NEW nx, NEW pv, NEW lo, NEW hi, Threaded(L, nx, pv, lo, hi),
           NEW lo2, NEW hi2,
           \A a \in L : \A b \in L \ {a} :
                /\ lo2[a] \in Int /\ hi2[a] \in Int /\ lo2[a] <= hi2[a]
                /\ Before(a, b, lo, hi) => Before(a, b, lo2, hi2)
    PROVE  Threaded(L, nx, pv, lo2, hi2)
<1>1. InRow(L, lo2, hi2)
  BY DEF Threaded, InRow
<1>2. ASSUME NEW a \in L
      PROVE  NextIsNext(a, L, nx, pv, lo2, hi2) /\ PrevIsPrev(a, L, nx, pv, lo2, hi2)
  <2>1. NextIsNext(a, L, nx, pv, lo, hi) /\ PrevIsPrev(a, L, nx, pv, lo, hi)
    BY DEF Threaded
  <2>2. \A b \in L : \A d \in L \ {b} : Before(b, d, lo, hi) => Before(b, d, lo2, hi2)
    OBVIOUS
  <2>3. NextIsNext(a, L, nx, pv, lo2, hi2)
    BY <2>1, <2>2 DEF NextIsNext
  <2>4. PrevIsPrev(a, L, nx, pv, lo2, hi2)
    BY <2>1, <2>2 DEF PrevIsPrev
  <2>5. QED
    BY <2>3, <2>4
<1>3. QED
  BY <1>1, <1>2 DEF Threaded

\* The keys of leaf c change, on its side of all other leaves.
KeysMove(L, c, lo, hi, lo2, hi2) ==
    /\ c \in L /\ \A a \in L \ {c} : lo2[a] = lo[a] /\ hi2[a] = hi[a]
    /\ L # {c} => lo2[c] \in Int /\ hi2[c] \in Int /\ lo2[c] <= hi2[c]
    /\ \A d \in L \ {c} : /\ Before(d, c, lo, hi) => Before(d, c, lo2, hi2)
                          /\ Before(c, d, lo, hi) => Before(c, d, lo2, hi2)

LEMMA ThreadMoves ==
    ASSUME NEW L, NEW nx, NEW pv, NEW lo, NEW hi, Threaded(L, nx, pv, lo, hi),
           NEW c, NEW lo2, NEW hi2, KeysMove(L, c, lo, hi, lo2, hi2)
    PROVE  Threaded(L, nx, pv, lo2, hi2)
<1>1. \A a \in L : \A b \in L \ {a} : Before(a, b, lo, hi) => Before(a, b, lo2, hi2)
  BY DEF KeysMove, Before
<1>2. \A a \in L : \A b \in L \ {a} : lo2[a] \in Int /\ hi2[a] \in Int /\ lo2[a] <= hi2[a]
  BY DEF KeysMove, Threaded, InRow
<1>3. QED
  BY <1>1, <1>2, ThreadReordered

\* Two neighbours share their keys anew.
KeysShift(L, l, r, nx, lo, hi, lo2, hi2) ==
    /\ l \in L /\ r \in L /\ nx[l] = r
    /\ \A a \in L \ {l, r} : lo2[a] = lo[a] /\ hi2[a] = hi[a]
    /\ lo2[l] = lo[l] /\ hi2[r] = hi[r] /\ hi2[l] \in Int /\ lo2[r] \in Int
    /\ lo2[l] <= hi2[l] /\ hi2[l] < lo2[r] /\ lo2[r] <= hi2[r]

LEMMA ThreadShifts ==
    ASSUME NEW L, NEW nx, NEW pv, NEW lo, NEW hi, Threaded(L, nx, pv, lo, hi),
           NEW l, NEW r, NEW lo2, NEW hi2, KeysShift(L, l, r, nx, lo, hi, lo2, hi2)
    PROVE  Threaded(L, nx, pv, lo2, hi2)
<1>1. /\ NextIsNext(l, L, nx, pv, lo, hi) /\ PrevIsPrev(r, L, nx, pv, lo, hi)
      /\ r # Nil /\ r # l /\ Before(l, r, lo, hi)
      /\ \A d \in L \ {l, r} : Before(d, l, lo, hi) \/ Before(r, d, lo, hi)
  BY DEF Threaded, KeysShift, NextIsNext
<1>2. \A a \in L : \A b \in L \ {a} : /\ lo[a] \in Int /\ hi[a] \in Int /\ lo[a] <= hi[a]
                                      /\ Before(a, b, lo, hi) \/ Before(b, a, lo, hi)
  BY DEF Threaded, InRow
<1>3. ASSUME NEW d \in L \ {l, r}
      PROVE  /\ lo2[d] = lo[d] /\ hi2[d] = hi[d] /\ lo[d] \in Int /\ hi[d] \in Int /\ lo[d] <= hi[d]
             /\ lo[l] \in Int /\ hi[r] \in Int /\ lo[r] \in Int /\ hi[l] \in Int
             /\ \/ /\ hi[d] < lo[l] /\ hi[d] < lo[r] /\ hi[d] < lo2[l] /\ hi[d] < lo2[r]
                \/ /\ hi[r] < lo[d] /\ hi[l] < lo[d] /\ hi2[r] < lo[d] /\ hi2[l] < lo[d]
  <2>1. lo2[d] = lo[d] /\ hi2[d] = hi[d]
    BY DEF KeysShift
  <2>2. /\ lo[d] \in Int /\ hi[d] \in Int /\ lo[d] <= hi[d]
        /\ lo[l] \in Int /\ hi[r] \in Int /\ lo[r] \in Int /\ hi[l] \in Int
        /\ lo[l] <= hi[l] /\ lo[r] <= hi[r]
    BY <1>1, <1>2 DEF KeysShift
  <2>3. hi[l] < lo[r] /\ (hi[d] < lo[l] \/ hi[r] < lo[d])
    BY <1>1 DEF Before
  <2>4. QED
    BY <2>1, <2>2, <2>3 DEF KeysShift
<1>4. \A a \in L : \A b \in L \ {a} : Before(a, b, lo, hi) => Before(a, b, lo2, hi2)
  <2> SUFFICES ASSUME NEW a \in L, NEW b \in L \ {a}, hi[a] < lo[b] PROVE hi2[a] < lo2[b]
    BY DEF Before
  <2>1. CASE a \notin {l, r} /\ b \notin {l, r}
    BY <2>1, <1>3
  <2>2. CASE a \in {l, r} /\ b \in {l, r}
    <3>1. a = l /\ b = r
      BY <1>1, <1>2, <2>2 DEF Before
    <3>2. QED
      BY <3>1 DEF KeysShift
  <2>3. CASE a \notin {l, r} /\ b \in {l, r}
    <3>1. lo[b] <= hi[b] /\ lo[b] \in Int /\ hi[b] \in Int
      BY <1>2
    <3>2. QED
      BY <1>3, <2>3, <3>1
  <2>4. CASE a \in {l, r} /\ b \notin {l, r}
    <3>1. lo[a] <= hi[a] /\ lo[a] \in Int /\ hi[a] \in Int
      BY <1>2
    <3>2. QED
      BY <1>3, <2>4, <3>1
  <2>5. QED
    BY <2>1, <2>2, <2>3, <2>4
<1>5. ASSUME NEW a \in L PROVE lo2[a] \in Int /\ hi2[a] \in Int /\ lo2[a] <= hi2[a]
  <2>1. CASE a \in {l, r}
    <3>1. lo[l] \in Int /\ hi[r] \in Int
      BY <1>1, <1>2 DEF KeysShift
    <3>2. QED
      BY <2>1, <3>1 DEF KeysShift
  <2>2. CASE a \notin {l, r}
    BY <2>2, <1>3
  <2>3. QED
    BY <2>1, <2>2
<1>6. QED
  BY <1>4, <1>5, ThreadReordered

\* Leaf c gives its lower keys to a new leaf that takes the place before it.
ThreadSplits(L, c, new, nx, pv, lo, hi, nx2, pv2, lo2, hi2) ==
    /\ c \in L /\ new \notin L /\ new # Nil
    /\ nx2[new] = c /\ pv2[c] = new /\ pv2[new] = pv[c]
    /\ \A a \in L : nx2[a] = IF pv[c] # Nil /\ a = pv[c] THEN new ELSE nx[a]
    /\ \A a \in L \ {c} : pv2[a] = pv[a] /\ lo2[a] = lo[a] /\ hi2[a] = hi[a]
    /\ lo2[new] = lo[c] /\ hi2[c] = hi[c]
    /\ lo2[new] \in Int /\ hi2[new] \in Int /\ lo2[c] \in Int /\ hi2[c] \in Int
    /\ lo2[new] <= hi2[new] /\ hi2[new] < lo2[c] /\ lo2[c] <= hi2[c]

LEMMA ThreadSplit ==
    ASSUME NEW L, NEW nx, NEW pv, NEW lo, NEW hi, Threaded(L, nx, pv, lo, hi),
           NEW c, NEW new, NEW nx2, NEW pv2, NEW lo2, NEW hi2,
           ThreadSplits(L, c, new, nx, pv, lo, hi, nx2, pv2, lo2, hi2)
    PROVE  Threaded(L \cup {new}, nx2, pv2, lo2, hi2)
<1> DEFINE L2 == L \cup {new}
<1>1. \A a \in L : \A b \in L \ {a} : /\ lo[a] \in Int /\ hi[a] \in Int /\ lo[a] <= hi[a]
                                      /\ hi[a] < lo[b] \/ hi[b] < lo[a]
  BY DEF Threaded, InRow, Before
<1>2. ASSUME NEW d \in L \ {c}
      PROVE  /\ lo2[d] = lo[d] /\ hi2[d] = hi[d] /\ lo[d] \in Int /\ hi[d] \in Int
             /\ lo[d] <= hi[d] /\ lo[c] <= hi[c]
             /\ hi[d] < lo[c] => hi2[d] < lo2[c] /\ hi2[d] < lo2[new]
             /\ hi[c] < lo[d] => hi2[c] < lo2[d] /\ hi2[new] < lo2[d]
             /\ hi[d] < lo[c] \/ hi[c] < lo[d]
  BY <1>1 DEF ThreadSplits
<1>3. InRow(L2, lo2, hi2)
  <2> SUFFICES ASSUME NEW a \in L2, NEW b \in L2 \ {a}
               PROVE  /\ lo2[a] \in Int /\ hi2[a] \in Int /\ lo2[a] <= hi2[a]
                      /\ hi2[a] < lo2[b] \/ hi2[b] < lo2[a]
    BY DEF InRow, Before
  <2>1. lo2[a] \in Int /\ hi2[a] \in Int /\ lo2[a] <= hi2[a]
    <3>1. CASE a \in {c, new}
      BY <3>1 DEF ThreadSplits
    <3>2. CASE a \notin {c, new}
      BY <3>2, <1>2
    <3>3. QED
      BY <3>1, <3>2
  <2>2. hi2[a] < lo2[b] \/ hi2[b] < lo2[a]
    <3>1. CASE a \in {c, new} /\ b \in {c, new}
      BY <3>1 DEF ThreadSplits
    <3>2. CASE a \in {c, new} /\ b \notin {c, new}
      BY <3>2, <1>2
    <3>3. CASE a \notin {c, new} /\ b \in {c, new}
      BY <3>3, <1>2
    <3>4. CASE a \notin {c, new} /\ b \notin {c, new}
      BY <3>4, <1>1, <1>2
    <3>5. QED
      BY <3>1, <3>2, <3>3, <3>4
  <2>3. QED
    BY <2>1, <2>2
<1>4. \A a \in L, b \in L \ {c} : b # a /\ Before(a, b, lo, hi) => Before(a, b, lo2, hi2)
  BY <1>2 DEF Before
<1>5. ASSUME NEW d \in L \ {c}
      PROVE  /\ Before(d, c, lo, hi) => Before(d, c, lo2, hi2) /\ Before(d, new, lo2, hi2)
             /\ Before(c, d, lo, hi) => Before(c, d, lo2, hi2) /\ Before(new, d, lo2, hi2)
  BY <1>2 DEF Before
<1>6. c \in L /\ new \notin L /\ new # Nil /\ Nil \notin L /\ Before(new, c, lo2, hi2)
  BY DEF ThreadSplits, Threaded, Before
<1>7. \A a \in L : NextIsNext(a, L, nx, pv, lo, hi) /\ PrevIsPrev(a, L, nx, pv, lo, hi)
  BY DEF Threaded
<1>8. ASSUME NEW a \in L2 PROVE NextIsNext(a, L2, nx2, pv2, lo2, hi2)
  <2>1. CASE a = new
    <3>1. nx2[new] = c /\ pv2[c] = new
      BY DEF ThreadSplits
    <3>2. ASSUME NEW d \in L2 \ {new, c}
          PROVE  Before(d, new, lo2, hi2) \/ Before(c, d, lo2, hi2)
      <4>1. Before(d, c, lo, hi) \/ Before(c, d, lo, hi)
        BY <1>2, <3>2 DEF Before
      <4>2. QED
        BY <4>1, <3>2, <1>5
    <3>3. QED
      BY <2>1, <3>1, <3>2, <1>6 DEF NextIsNext
  <2>2. CASE a \in L /\ pv[c] # Nil /\ a = pv[c]
    <3>1. nx2[a] = new /\ pv2[new] = a /\ nx[a] = c /\ a # c
      BY <2>2, <1>6, <1>7 DEF ThreadSplits, PrevIsPrev
    <3>2. Before(a, c, lo, hi) /\ \A d \in L \ {a, c} : Before(d, a, lo, hi) \/ Before(c, d, lo, hi)
      BY <2>2, <3>1, <1>6, <1>7 DEF NextIsNext
    <3>3. Before(a, new, lo2, hi2)
      BY <2>2, <3>1, <3>2, <1>5
    <3>4. ASSUME NEW d \in L2 \ {a, new}
          PROVE  Before(d, a, lo2, hi2) \/ Before(new, d, lo2, hi2)
      <4>1. CASE d = c
        BY <4>1, <1>6
      <4>2. CASE d # c
        BY <4>2, <2>2, <3>1, <3>2, <1>4, <1>5
      <4>3. QED
        BY <4>1, <4>2
    <3>5. QED
      BY <2>2, <3>1, <3>3, <3>4, <1>6 DEF NextIsNext
  <2>3. CASE a \in L /\ ~(pv[c] # Nil /\ a = pv[c])
    <3>1. nx2[a] = nx[a]
      BY <2>3 DEF ThreadSplits
    <3>2. CASE nx[a] = Nil
      <4>1. ASSUME NEW d \in L2 \ {a} PROVE Before(d, a, lo2, hi2)
        <5>1. CASE d = new
          <6>1. CASE a = c
            BY <5>1, <6>1, <1>6
          <6>2. CASE a # c
            <7>1. Before(c, a, lo, hi)
              BY <2>3, <3>2, <6>2, <1>6, <1>7 DEF NextIsNext
            <7>2. QED
              BY <5>1, <6>2, <7>1, <2>3, <1>5
          <6>3. QED
            BY <6>1, <6>2
        <5>2. CASE d # new
          <6>1. Before(d, a, lo, hi) /\ d \in L
            BY <2>3, <3>2, <5>2, <1>7 DEF NextIsNext
          <6>2. QED
            BY <6>1, <2>3, <1>4, <1>5
        <5>3. QED
          BY <5>1, <5>2
      <4>2. QED
        BY <4>1, <3>1, <3>2 DEF NextIsNext
    <3>3. CASE nx[a] # Nil
      <4> DEFINE b == nx[a]
      <4>1. /\ b \in L \ {a} /\ pv[b] = a /\ Before(a, b, lo, hi)
            /\ \A d \in L \ {a, b} : Before(d, a, lo, hi) \/ Before(b, d, lo, hi)
        BY <2>3, <3>3, <1>7 DEF NextIsNext
      <4> HIDE DEF b
      <4>2. b # c
        BY <2>3, <4>1, <1>6
      <4>3. pv2[b] = a /\ b # Nil /\ nx2[a] = b
        BY <3>1, <3>3, <4>1, <4>2 DEF ThreadSplits, b
      <4>4. Before(a, b, lo2, hi2)
        BY <2>3, <4>1, <4>2, <1>4
      <4>5. ASSUME NEW d \in L2 \ {a, b}
            PROVE  Before(d, a, lo2, hi2) \/ Before(b, d, lo2, hi2)
        <5>1. CASE d = new
          <6>1. CASE a = c
            BY <5>1, <6>1, <1>6
          <6>2. CASE a # c
            <7>1. Before(c, a, lo, hi) \/ Before(b, c, lo, hi)
              BY <4>1, <4>2, <6>2, <1>6
            <7>2. QED
              BY <5>1, <6>2, <7>1, <2>3, <4>1, <4>2, <1>5
          <6>3. QED
            BY <6>1, <6>2
        <5>2. CASE d # new
          <6>1. d \in L /\ (Before(d, a, lo, hi) \/ Before(b, d, lo, hi))
            BY <5>2, <4>1
          <6>2. QED
            BY <6>1, <2>3, <4>1, <4>2, <1>4, <1>5
        <5>3. QED
          BY <5>1, <5>2
      <4>6. QED
        BY <4>1, <4>3, <4>4, <4>5 DEF NextIsNext
    <3>4. QED
      BY <3>2, <3>3
  <2>4. QED
    BY <2>1, <2>2, <2>3
<1>9. ASSUME NEW a \in L2 PROVE PrevIsPrev(a, L2, nx2, pv2, lo2, hi2)
  <2>1. CASE a = new
    <3>1. pv2[new] = pv[c]
      BY DEF ThreadSplits
    <3>2. CASE pv[c] = Nil
      <4>1. ASSUME NEW d \in L2 \ {new} PROVE Before(new, d, lo2, hi2)
        <5>1. d # c => Before(c, d, lo, hi)
          BY <3>2, <1>6, <1>7 DEF PrevIsPrev
        <5>2. QED
          BY <5>1, <1>5, <1>6
      <4>2. QED
        BY <2>1, <3>1, <3>2, <4>1 DEF PrevIsPrev
    <3>3. CASE pv[c] # Nil
      <4>1. pv[c] \in L
        BY <3>3, <1>6, <1>7 DEF PrevIsPrev
      <4>2. nx2[pv[c]] = new
        BY <3>3, <4>1 DEF ThreadSplits
      <4>3. QED
        BY <2>1, <3>1, <3>3, <4>1, <4>2, <1>6 DEF PrevIsPrev
    <3>4. QED
      BY <3>2, <3>3
  <2>2. CASE a = c
    <3>1. pv2[c] = new /\ nx2[new] = c
      BY DEF ThreadSplits
    <3>2. QED
      BY <2>2, <3>1, <1>6 DEF PrevIsPrev
  <2>3. CASE a \in L \ {c}
    <3>1. pv2[a] = pv[a]
      BY <2>3 DEF ThreadSplits
    <3>2. CASE pv[a] = Nil
      <4>1. ASSUME NEW d \in L2 \ {a} PROVE Before(a, d, lo2, hi2)
        <5>1. CASE d = new
          <6>1. Before(a, c, lo, hi)
            BY <2>3, <3>2, <1>6, <1>7 DEF PrevIsPrev
          <6>2. QED
            BY <5>1, <6>1, <2>3, <1>5
        <5>2. CASE d # new
          <6>1. d \in L /\ Before(a, d, lo, hi)
            BY <5>2, <2>3, <3>2, <1>7 DEF PrevIsPrev
          <6>2. QED
            BY <6>1, <2>3, <1>4, <1>5
        <5>3. QED
          BY <5>1, <5>2
      <4>2. QED
        BY <4>1, <3>1, <3>2 DEF PrevIsPrev
    <3>3. CASE pv[a] # Nil
      <4>1. pv[a] \in L \ {a} /\ nx[pv[a]] = a
        BY <2>3, <3>3, <1>7 DEF PrevIsPrev
      <4>2. ~(pv[c] # Nil /\ pv[a] = pv[c])
        BY <2>3, <4>1, <1>6, <1>7 DEF PrevIsPrev
      <4>3. nx2[pv[a]] = a
        BY <4>1, <4>2 DEF ThreadSplits
      <4>4. QED
        BY <3>1, <3>3, <4>1, <4>3 DEF PrevIsPrev
    <3>4. QED
      BY <3>2, <3>3
  <2>4. QED
    BY <2>1, <2>2, <2>3
<1>10. QED
  BY <1>3, <1>6, <1>8, <1>9 DEF Threaded

\* Leaf l takes over the keys of its neighbour r.
ThreadJoins(L, l, r, nx, pv, lo, hi, nx2, pv2, lo2, hi2) ==
    /\ l \in L /\ r \in L /\ nx[l] = r /\ nx2[l] = nx[r]
    /\ \A a \in L \ {r} : pv2[a] = IF nx[r] # Nil /\ a = nx[r] THEN l ELSE pv[a]
    /\ \A a \in L \ {l, r} : nx2[a] = nx[a] /\ lo2[a] = lo[a] /\ hi2[a] = hi[a]
    /\ lo2[l] = lo[l] /\ hi2[l] = hi[r]

LEMMA ThreadJoin ==
    ASSUME NEW L, NEW nx, NEW pv, NEW lo, NEW hi, Threaded(L, nx, pv, lo, hi),
           NEW l, NEW r, NEW nx2, NEW pv2, NEW lo2, NEW hi2,
           ThreadJoins(L, l, r, nx, pv, lo, hi, nx2, pv2, lo2, hi2)
    PROVE  Threaded(L \ {r}, nx2, pv2, lo2, hi2)
<1> DEFINE L2 == L \ {r}
<1>1. \A a \in L : NextIsNext(a, L, nx, pv, lo, hi) /\ PrevIsPrev(a, L, nx, pv, lo, hi)
  BY DEF Threaded
<1>2. \A a \in L : \A b \in L \ {a} : /\ lo[a] \in Int /\ hi[a] \in Int /\ lo[a] <= hi[a]
                                      /\ Before(a, b, lo, hi) \/ Before(b, a, lo, hi)
                                      /\ ~(Before(a, b, lo, hi) /\ Before(b, a, lo, hi))
  BY DEF Threaded, InRow, Before
<1>3. l \in L2 /\ r \in L /\ r # l /\ nx[l] = r /\ pv[r] = l /\ Nil \notin L
  BY <1>1 DEF ThreadJoins, NextIsNext, Threaded
<1>4. Before(l, r, lo, hi) /\ \A d \in L \ {l, r} : Before(d, l, lo, hi) \/ Before(r, d, lo, hi)
  BY <1>1, <1>3 DEF NextIsNext
<1>5. ASSUME NEW d \in L2, d # l
      PROVE  /\ lo2[d] = lo[d] /\ hi2[d] = hi[d]
             /\ Before(d, l, lo, hi) => Before(d, l, lo2, hi2)
             /\ Before(r, d, lo, hi) => Before(l, d, lo2, hi2)
             /\ Before(d, r, lo, hi) => Before(d, l, lo, hi)
             /\ Before(l, d, lo, hi) => Before(r, d, lo, hi)
  <2>1. lo2[d] = lo[d] /\ hi2[d] = hi[d] /\ lo2[l] = lo[l] /\ hi2[l] = hi[r]
    BY <1>5 DEF ThreadJoins
  <2>2. Before(d, l, lo, hi) \/ Before(r, d, lo, hi)
    BY <1>4, <1>5
  <2>3. ~(Before(d, l, lo, hi) /\ Before(l, d, lo, hi)) /\ ~(Before(d, r, lo, hi) /\ Before(r, d, lo, hi))
    BY <1>2, <1>3, <1>5
  <2>4. QED
    BY <2>1, <2>2, <2>3 DEF Before
<1>6. ASSUME NEW a \in L2, NEW b \in L2, a # b, Before(a, b, lo, hi)
      PROVE  Before(a, b, lo2, hi2)
  <2>1. CASE a # l /\ b # l
    BY <2>1, <1>5, <1>6 DEF Before
  <2>2. CASE a = l
    BY <2>2, <1>5, <1>6
  <2>3. CASE b = l
    BY <2>3, <1>5, <1>6
  <2>4. QED
    BY <2>1, <2>2, <2>3
<1>7. InRow(L2, lo2, hi2)
  <2>1. ASSUME NEW a \in L2 PROVE lo2[a] \in Int /\ hi2[a] \in Int /\ lo2[a] <= hi2[a]
    <3>1. CASE a = l
      <4>1. lo2[l] = lo[l] /\ hi2[l] = hi[r]
        BY DEF ThreadJoins
      <4>2. lo[l] \in Int /\ hi[l] \in Int /\ lo[l] <= hi[l] /\ lo[r] \in Int /\ hi[r] \in Int
            /\ lo[r] <= hi[r]
        BY <1>2, <1>3
      <4>3. QED
        BY <3>1, <4>1, <4>2, <1>4 DEF Before
    <3>2. CASE a # l
      <4>1. lo[a] \in Int /\ hi[a] \in Int /\ lo[a] <= hi[a]
        BY <3>2, <1>2, <1>3
      <4>2. QED
        BY <3>2, <4>1, <1>5
    <3>3. QED
      BY <3>1, <3>2
  <2>2. ASSUME NEW a \in L2, NEW b \in L2 \ {a}
        PROVE  Before(a, b, lo2, hi2) \/ Before(b, a, lo2, hi2)
    BY <2>2, <1>2, <1>6
  <2>3. QED
    BY <2>1, <2>2 DEF InRow
<1>8. ASSUME NEW a \in L2 PROVE NextIsNext(a, L2, nx2, pv2, lo2, hi2)
  <2>1. CASE a = l
    <3>1. nx2[l] = nx[r]
      BY DEF ThreadJoins
    <3>2. CASE nx[r] = Nil
      <4>1. ASSUME NEW d \in L2 \ {l} PROVE Before(d, l, lo2, hi2)
        <5>1. Before(d, r, lo, hi)
          BY <3>2, <1>1, <1>3 DEF NextIsNext
        <5>2. QED
          BY <5>1, <1>5
      <4>2. QED
        BY <2>1, <3>1, <3>2, <4>1 DEF NextIsNext
    <3>3. CASE nx[r] # Nil
      <4> DEFINE b == nx[r]
      <4>1. /\ b \in L \ {r} /\ Before(r, b, lo, hi)
            /\ \A d \in L \ {r, b} : Before(d, r, lo, hi) \/ Before(b, d, lo, hi)
        BY <3>3, <1>1, <1>3 DEF NextIsNext
      <4> HIDE DEF b
      <4>2. b # l
        BY <4>1, <1>2, <1>3, <1>4
      <4>3. pv2[b] = l /\ b # Nil /\ nx2[l] = b
        BY <3>1, <3>3, <4>1 DEF ThreadJoins, b
      <4>4. Before(l, b, lo2, hi2)
        BY <4>1, <4>2, <1>5
      <4>5. ASSUME NEW d \in L2 \ {l, b}
            PROVE  Before(d, l, lo2, hi2) \/ Before(b, d, lo2, hi2)
        BY <4>1, <4>2, <1>5, <1>6
      <4>6. QED
        BY <2>1, <4>1, <4>2, <4>3, <4>4, <4>5 DEF NextIsNext
    <3>4. QED
      BY <3>2, <3>3
  <2>2. CASE a # l
    <3>1. nx2[a] = nx[a] /\ nx[a] # r
      <4>1. nx2[a] = nx[a]
        BY <2>2 DEF ThreadJoins
      <4>2. nx[a] # r
        BY <2>2, <1>1, <1>3 DEF NextIsNext
      <4>3. QED
        BY <4>1, <4>2
    <3>2. CASE nx[a] = Nil
      <4>1. \A d \in L2 \ {a} : Before(d, a, lo2, hi2)
        BY <3>2, <1>1, <1>6 DEF NextIsNext
      <4>2. QED
        BY <3>1, <3>2, <4>1 DEF NextIsNext
    <3>3. CASE nx[a] # Nil
      <4> DEFINE b == nx[a]
      <4>1. /\ b \in L2 \ {a} /\ pv[b] = a /\ Before(a, b, lo, hi)
            /\ \A d \in L \ {a, b} : Before(d, a, lo, hi) \/ Before(b, d, lo, hi)
        BY <3>1, <3>3, <1>1 DEF NextIsNext
      <4> HIDE DEF b
      <4>2. ~(nx[r] # Nil /\ b = nx[r])
        BY <4>1, <1>1, <1>3 DEF NextIsNext
      <4>3. pv2[b] = a /\ b # Nil /\ nx2[a] = b
        BY <3>1, <3>3, <4>1, <4>2 DEF ThreadJoins, b
      <4>4. Before(a, b, lo2, hi2)
        BY <4>1, <1>6
      <4>5. ASSUME NEW d \in L2 \ {a, b}
            PROVE  Before(d, a, lo2, hi2) \/ Before(b, d, lo2, hi2)
        BY <4>1, <1>6
      <4>6. QED
        BY <4>1, <4>3, <4>4, <4>5 DEF NextIsNext
    <3>4. QED
      BY <3>2, <3>3
  <2>3. QED
    BY <2>1, <2>2
<1>9. ASSUME NEW a \in L2 PROVE PrevIsPrev(a, L2, nx2, pv2, lo2, hi2)
  <2>1. CASE nx[r] # Nil /\ a = nx[r]
    <3>1. pv2[a] = l /\ nx2[l] = a
      BY <2>1 DEF ThreadJoins
    <3>2. a # l
      BY <2>1, <1>1, <1>2, <1>3, <1>4 DEF NextIsNext
    <3>3. QED
      BY <3>1, <3>2, <1>3 DEF PrevIsPrev
  <2>2. CASE ~(nx[r] # Nil /\ a = nx[r])
    <3>1. pv2[a] = pv[a]
      BY <2>2 DEF ThreadJoins
    <3>2. CASE pv[a] = Nil
      <4>1. \A d \in L2 \ {a} : Before(a, d, lo2, hi2)
        BY <3>2, <1>1, <1>6 DEF PrevIsPrev
      <4>2. QED
        BY <3>1, <3>2, <4>1 DEF PrevIsPrev
    <3>3. CASE pv[a] # Nil
      <4> DEFINE b == pv[a]
      <4>1. b \in L \ {a} /\ nx[b] = a
        BY <3>3, <1>1 DEF PrevIsPrev
      <4> HIDE DEF b
      <4>2. b # r /\ b # l
        BY <2>2, <4>1, <1>3
      <4>3. nx2[b] = a
        BY <4>1, <4>2 DEF ThreadJoins
      <4>4. QED
        BY <3>1, <3>3, <4>1, <4>2, <4>3 DEF PrevIsPrev, b
    <3>4. QED
      BY <3>2, <3>3
  <2>3. QED
    BY <2>1, <2>2
<1>10. QED
  BY <1>3, <1>7, <1>8, <1>9 DEF Threaded

-------------------------------------------------------------------------------
(* The list of leaves in memory: which pointers an insertion changes. *)

Ready(m, ids, values) == MemoryOK(m, ids, values) /\ Known(m) = 0 .. ids - 1

\* After telling the neighbour next of n, or its neighbour prev.
NextTold(s, m, n, ids) ==
    \A x \in 0 .. ids - 1 :
        /\ At(s.changes, x).next = At(m.changes, x).next
        /\ At(s.changes, x).prev =
                IF n.next # Nil /\ x = n.next THEN n.id ELSE At(m.changes, x).prev

PrevTold(s, m, n, ids) ==
    \A x \in 0 .. ids - 1 :
        /\ At(s.changes, x).prev = At(m.changes, x).prev
        /\ At(s.changes, x).next =
                IF n.prev # Nil /\ x = n.prev THEN n.id ELSE At(m.changes, x).next

LEMMA NeighbourFields ==
    ASSUME NEW n \in NodeRecords, NEW x
    PROVE  /\ [n EXCEPT !.prev = x].prev = x /\ [n EXCEPT !.prev = x].next = n.next
           /\ [n EXCEPT !.next = x].next = x /\ [n EXCEPT !.next = x].prev = n.prev
BY DEF NodeRecords

LEMMA LinkNextTells ==
    ASSUME NEW m, NEW ids \in Int, NEW values, Ready(m, ids, values),
           NEW n, Neighbour(n, ids, values)
    PROVE  Ready(LinkNext(m, n), ids, values) /\ NextTold(LinkNext(m, n), m, n, ids)
<1> DEFINE x == n.next
           k == [GetNode(m, x) EXCEPT !.prev = n.id]
           b == Buffered(m, x)
<1>1. CASE x = Nil
  BY <1>1 DEF LinkNext, NextTold
<1>2. CASE x # Nil
  <2>1. x \in 1 .. ids - 1 /\ n.id \in 1 .. ids - 1
    BY <1>2 DEF Neighbour, NodeOK
  <2>2. /\ MemoryOK(m, ids, values) /\ Known(m) = 0 .. ids - 1
    BY DEF Ready
  <2> HIDE DEF x
  <2>3. x \in Known(m) /\ x # 0 /\ x \in 0 .. ids - 1
    BY <2>1, <2>2
  <2>4. /\ NodeOK(GetNode(m, x), ids, values) /\ GetNode(m, x).id = x
        /\ GetNode(m, x) = At(m.changes, x)
    BY <2>2, <2>3, GetNodeOK
  <2>5. /\ NodeOK(k, ids, values) /\ k.id = x
    BY <2>1, <2>4, NewNeighbour
  <2>6. k.prev = n.id /\ k.next = At(m.changes, x).next
    BY <2>4, NeighbourFields DEF NodeOK
  <2>7. MemoryOK(b, ids, values) /\ b.changes = m.changes
    BY <2>2, <2>3, BufferedOK
  <2>8. Known(b) = 0 .. ids - 1
    BY <2>2, <2>7 DEF Known
  <2> HIDE DEF k, b
  <2>9. Saved(SaveNode(b, k), b, k, ids, values)
    BY <2>5, <2>7, SaveNodeOK
  <2> DEFINE s == SaveNode(b, k)
  <2>10. LinkNext(m, n) = s
    BY <1>2 DEF LinkNext, b, k, x
  <2> HIDE DEF s
  <2>11. /\ MemoryOK(s, ids, values) /\ Known(s) = Known(b) \cup {x}
         /\ At(s.changes, x) = k
         /\ \A y : y # x => At(s.changes, y) = At(m.changes, y)
    BY <2>5, <2>7, <2>9 DEF Saved, s
  <2>12. Ready(s, ids, values)
    BY <2>3, <2>8, <2>11 DEF Ready
  <2>13. NextTold(s, m, n, ids)
    BY <1>2, <2>6, <2>11 DEF NextTold, x
  <2>14. QED
    BY <2>10, <2>12, <2>13
<1>3. QED
  BY <1>1, <1>2

LEMMA LinkPrevTells ==
    ASSUME NEW m, NEW ids \in Int, NEW values, Ready(m, ids, values),
           NEW n, Neighbour(n, ids, values)
    PROVE  Ready(LinkPrev(m, n), ids, values) /\ PrevTold(LinkPrev(m, n), m, n, ids)
<1> DEFINE x == n.prev
           k == [GetNode(m, x) EXCEPT !.next = n.id]
           b == Buffered(m, x)
<1>1. CASE x = Nil
  BY <1>1 DEF LinkPrev, PrevTold
<1>2. CASE x # Nil
  <2>1. x \in 1 .. ids - 1 /\ n.id \in 1 .. ids - 1
    BY <1>2 DEF Neighbour, NodeOK
  <2>2. /\ MemoryOK(m, ids, values) /\ Known(m) = 0 .. ids - 1
    BY DEF Ready
  <2> HIDE DEF x
  <2>3. x \in Known(m) /\ x # 0 /\ x \in 0 .. ids - 1
    BY <2>1, <2>2
  <2>4. /\ NodeOK(GetNode(m, x), ids, values) /\ GetNode(m, x).id = x
        /\ GetNode(m, x) = At(m.changes, x)
    BY <2>2, <2>3, GetNodeOK
  <2>5. /\ NodeOK(k, ids, values) /\ k.id = x
    BY <2>1, <2>4, NewNeighbour
  <2>6. k.next = n.id /\ k.prev = At(m.changes, x).prev
    BY <2>4, NeighbourFields DEF NodeOK
  <2>7. MemoryOK(b, ids, values) /\ b.changes = m.changes
    BY <2>2, <2>3, BufferedOK
  <2>8. Known(b) = 0 .. ids - 1
    BY <2>2, <2>7 DEF Known
  <2> HIDE DEF k, b
  <2>9. Saved(SaveNode(b, k), b, k, ids, values)
    BY <2>5, <2>7, SaveNodeOK
  <2> DEFINE s == SaveNode(b, k)
  <2>10. LinkPrev(m, n) = s
    BY <1>2 DEF LinkPrev, b, k, x
  <2> HIDE DEF s
  <2>11. /\ MemoryOK(s, ids, values) /\ Known(s) = Known(b) \cup {x}
         /\ At(s.changes, x) = k
         /\ \A y : y # x => At(s.changes, y) = At(m.changes, y)
    BY <2>5, <2>7, <2>9 DEF Saved, s
  <2>12. Ready(s, ids, values)
    BY <2>3, <2>8, <2>11 DEF Ready
  <2>13. PrevTold(s, m, n, ids)
    BY <1>2, <2>6, <2>11 DEF PrevTold, x
  <2>14. QED
    BY <2>10, <2>12, <2>13
<1>3. QED
  BY <1>1, <1>2

\* insertIntoList.
Inserted(s, m, n, ids) ==
    \A x \in 0 .. ids - 1 :
        /\ At(s.changes, x).next =
                IF n.prev # Nil /\ x = n.prev THEN n.id ELSE At(m.changes, x).next
        /\ At(s.changes, x).prev =
                IF n.next # Nil /\ x = n.next THEN n.id ELSE At(m.changes, x).prev

LEMMA InsertTells ==
    ASSUME NEW m, NEW ids \in Int, NEW values, Ready(m, ids, values),
           NEW n, Neighbour(n, ids, values)
    PROVE  /\ Ready(InsertIntoList(m, n), ids, values)
           /\ Inserted(InsertIntoList(m, n), m, n, ids)
<1> DEFINE b == LinkNext(m, n)
           s == LinkPrev(b, n)
<1>1. Ready(b, ids, values) /\ NextTold(b, m, n, ids)
  BY LinkNextTells
<1> HIDE DEF b
<1>2. Ready(s, ids, values) /\ PrevTold(s, b, n, ids)
  BY <1>1, LinkPrevTells
<1> HIDE DEF s
<1>3. Inserted(s, m, n, ids)
  BY <1>1, <1>2 DEF Inserted, NextTold, PrevTold
<1>4. QED
  BY <1>2, <1>3 DEF s, b, InsertIntoList

\* Two leaves a and b side by side between p and n.
PairTold(s, m, a, b, p, n, ids) ==
    \A x \in 0 .. ids - 1 :
        /\ At(s.changes, x).next =
                IF x = a THEN b ELSE IF x = b THEN n
                ELSE IF p # Nil /\ x = p THEN a ELSE At(m.changes, x).next
        /\ At(s.changes, x).prev =
                IF x = b THEN a ELSE IF x = a THEN p
                ELSE IF n # Nil /\ x = n THEN b ELSE At(m.changes, x).prev

\* The pair of a split leaf.
LeafPair(pair, a, b, p, n) ==
    /\ pair[1].id = a /\ pair[1].prev = p /\ pair[1].next = b
    /\ pair[2].id = b /\ pair[2].prev = a /\ pair[2].next = n
    /\ a # b /\ p \notin {a, b} /\ n \notin {a, b}

LEMMA SavePairTells ==
    ASSUME NEW m, NEW ids \in Int, NEW values, MemoryOK(m, ids, values), NEW pair,
           Neighbour(pair[1], ids, values), Neighbour(pair[2], ids, values),
           pair[1].leaf, NEW a, NEW b, NEW p, NEW n, LeafPair(pair, a, b, p, n),
           Known(m) \cup {a} = 0 .. ids - 1
    PROVE  Ready(SavePair(m, pair), ids, values)
           /\ PairTold(SavePair(m, pair), m, a, b, p, n, ids)
<1> DEFINE u == pair[1]
           v == pair[2]
           m1 == SaveNode(m, u)
           m2 == SaveNode(m1, v)
           m3 == InsertIntoList(m2, u)
           m4 == InsertIntoList(m3, v)
<1>1. SavePair(m, pair) = m4
  BY DEF SavePair
<1>2. /\ Neighbour(u, ids, values) /\ Neighbour(v, ids, values)
      /\ NodeOK(u, ids, values) /\ NodeOK(v, ids, values)
      /\ u.id = a /\ u.prev = p /\ u.next = b
      /\ v.id = b /\ v.prev = a /\ v.next = n
      /\ a # b /\ p \notin {a, b} /\ n \notin {a, b}
      /\ a \in 1 .. ids - 1 /\ b \in 1 .. ids - 1
  BY DEF LeafPair, Neighbour
<1> HIDE DEF u, v
<1>3. Saved(m1, m, u, ids, values)
  BY <1>2, SaveNodeOK
<1>4. /\ MemoryOK(m1, ids, values) /\ Known(m1) = Known(m) \cup {a}
      /\ At(m1.changes, a) = u
      /\ \A x : x # a => At(m1.changes, x) = At(m.changes, x)
  BY <1>2, <1>3 DEF Saved
<1> HIDE DEF m1
<1>5. Saved(m2, m1, v, ids, values)
  BY <1>2, <1>4, SaveNodeOK
<1>6. /\ MemoryOK(m2, ids, values) /\ Known(m2) = Known(m1) \cup {b}
      /\ At(m2.changes, b) = v
      /\ \A x : x # b => At(m2.changes, x) = At(m1.changes, x)
  BY <1>2, <1>5 DEF Saved
<1> HIDE DEF m2
<1>7. b \in 0 .. ids - 1 /\ a # Nil /\ b # Nil
  BY <1>2 DEF Nil
<1>8. Ready(m2, ids, values)
  BY <1>4, <1>6, <1>7 DEF Ready
<1>9. Ready(m3, ids, values) /\ Inserted(m3, m2, u, ids)
  BY <1>2, <1>8, InsertTells
<1> HIDE DEF m3
<1>10. Ready(m4, ids, values) /\ Inserted(m4, m3, v, ids)
  BY <1>2, <1>9, InsertTells
<1> HIDE DEF m4
<1>11. ASSUME NEW x \in 0 .. ids - 1
       PROVE  /\ At(m2.changes, x).next = IF x = a THEN b ELSE IF x = b THEN n
                                          ELSE At(m.changes, x).next
              /\ At(m2.changes, x).prev = IF x = a THEN p ELSE IF x = b THEN a
                                          ELSE At(m.changes, x).prev
  BY <1>2, <1>4, <1>6
<1>12. ASSUME NEW x \in 0 .. ids - 1
       PROVE  /\ At(m3.changes, x).next = IF x = a THEN b ELSE IF x = b THEN n
                        ELSE IF p # Nil /\ x = p THEN a ELSE At(m.changes, x).next
              /\ At(m3.changes, x).prev = IF x = b THEN a ELSE IF x = a THEN p
                                          ELSE At(m.changes, x).prev
  BY <1>2, <1>7, <1>9, <1>11 DEF Inserted
<1>13. PairTold(m4, m, a, b, p, n, ids)
  BY <1>2, <1>7, <1>10, <1>12 DEF Inserted, PairTold
<1>14. QED
  BY <1>1, <1>10, <1>13

-------------------------------------------------------------------------------
(* The leaves of a tree and their list. *)

LeavesIn(h, live) == {a \in live : h[a].leaf}

LEMMA LeavesOfTree ==
    ASSUME NEW h, IsFiniteSet(DOMAIN h), \A a \in DOMAIN h : Listed(h[a]),
           NEW live, NEW height, NEW q, NEW less \in {0, 1}, NEW more,
           ShapeOn(h, live, height, q, less, more)
    PROVE  Leaves(h, 0) = LeavesIn(h, live) /\ live \subseteq DOMAIN h
<1>1. PICK up, pos : Linked(h, live, height, up, pos) /\ Sizes(h, live, Cur(q), less, more)
  BY DEF ShapeOn
<1>2. live \subseteq DOMAIN h
  BY <1>1 DEF Linked
<1>3. \A a \in live : Listed(h[a])
  BY <1>2
<1>4. Standing(h, live, height, up, pos)
  BY <1>1, <1>3, ShapeStands
<1>5. Below(h, 0) = live
  BY <1>4, RowsOfRoot
<1>6. QED
  BY <1>2, <1>5 DEF Leaves, LeavesIn

LEMMA HeapListed ==
    ASSUME NEW m, NEW ids \in Nat, NEW values, Ready(m, ids, values)
    PROVE  /\ DOMAIN HeapOf(m, ids) = 0 .. ids - 1 /\ IsFiniteSet(DOMAIN HeapOf(m, ids))
           /\ \A a \in DOMAIN HeapOf(m, ids) : /\ Listed(HeapOf(m, ids)[a])
                                               /\ NodeOK(HeapOf(m, ids)[a], ids, values)
<1>1. DOMAIN HeapOf(m, ids) = 0 .. ids - 1
  BY DEF HeapOf
<1>2. IsFiniteSet(0 .. ids - 1)
  BY FS_Interval
<1>3. ASSUME NEW a \in 0 .. ids - 1
      PROVE  NodeOK(HeapOf(m, ids)[a], ids, values)
  BY AtOK DEF Ready, HeapOf
<1>4. QED
  BY <1>1, <1>2, <1>3 DEF NodeOK, Listed

Nexts(h) == [a \in DOMAIN h |-> h[a].next]
Prevs(h) == [a \in DOMAIN h |-> h[a].prev]
Firsts(h) == [a \in DOMAIN h |-> Key(h[a], 1)]
Mosts(h) == [a \in DOMAIN h |-> Most(h[a])]

\* The leaves L of h are linked in the order of their keys.
ListOn(h, L) ==
    L \subseteq DOMAIN h /\ Threaded(L, Nexts(h), Prevs(h), Firsts(h), Mosts(h))

SameLeaf(m, n) == SameBody(m, n) /\ m.next = n.next /\ m.prev = n.prev

LEMMA SameEnds ==
    ASSUME NEW m, NEW n, SameBody(m, n)
    PROVE  Key(m, 1) = Key(n, 1) /\ Most(m) = Most(n)
BY DEF SameBody, SameCore, Key, Most

LEMMA ListKept ==
    ASSUME NEW h, NEW L, ListOn(h, L), NEW g, L \subseteq DOMAIN g,
           \A a \in L : SameLeaf(g[a], h[a])
    PROVE  ListOn(g, L)
<1> DEFINE nx == Nexts(h)
           pv == Prevs(h)
           lo == Firsts(h)
           hi == Mosts(h)
           nx2 == Nexts(g)
           pv2 == Prevs(g)
           lo2 == Firsts(g)
           hi2 == Mosts(g)
<1>1. L \subseteq DOMAIN h /\ Threaded(L, nx, pv, lo, hi)
  BY DEF ListOn
<1>2. ASSUME NEW a \in L
      PROVE  nx2[a] = nx[a] /\ pv2[a] = pv[a] /\ lo2[a] = lo[a] /\ hi2[a] = hi[a]
  <2>1. a \in DOMAIN h /\ a \in DOMAIN g /\ SameLeaf(g[a], h[a])
    BY <1>1
  <2>2. Key(g[a], 1) = Key(h[a], 1) /\ Most(g[a]) = Most(h[a])
    BY <2>1, SameEnds DEF SameLeaf
  <2>3. QED
    BY <2>1, <2>2 DEF SameLeaf, Nexts, Prevs, Firsts, Mosts
<1> HIDE DEF nx, pv, lo, hi, nx2, pv2, lo2, hi2
<1>3. Threaded(L, nx2, pv2, lo2, hi2)
  BY <1>1, <1>2, ThreadKept
<1>4. QED
  BY <1>3 DEF ListOn, nx2, pv2, lo2, hi2

\* What the list says of the neighbours of a leaf.
Between(h, L, c) ==
    /\ h[c].next \in {Nil} \cup (L \ {c}) /\ h[c].prev \in {Nil} \cup (L \ {c})
    /\ h[c].next # Nil => h[h[c].next].prev = c
    /\ h[c].prev # Nil => h[h[c].prev].next = c
    /\ c # Nil

LEMMA ListNeighbours ==
    ASSUME NEW h, NEW L, ListOn(h, L), NEW c \in L
    PROVE  Between(h, L, c)
<1> DEFINE nx == Nexts(h)
           pv == Prevs(h)
           lo == Firsts(h)
           hi == Mosts(h)
<1>1. L \subseteq DOMAIN h /\ Threaded(L, nx, pv, lo, hi)
  BY DEF ListOn
<1>2. \A a \in L : nx[a] = h[a].next /\ pv[a] = h[a].prev
  BY <1>1 DEF Nexts, Prevs
<1> HIDE DEF nx, pv, lo, hi
<1>3. NextIsNext(c, L, nx, pv, lo, hi) /\ PrevIsPrev(c, L, nx, pv, lo, hi) /\ Nil \notin L
  BY <1>1 DEF Threaded
<1>4. nx[c] = Nil \/ (nx[c] \in L \ {c} /\ pv[nx[c]] = c)
  BY <1>3 DEF NextIsNext
<1>5. pv[c] = Nil \/ (pv[c] \in L \ {c} /\ nx[pv[c]] = c)
  BY <1>3 DEF PrevIsPrev
<1>6. QED
  BY <1>2, <1>3, <1>4, <1>5 DEF Between

\* The ends of a node in order.
LEMMA EndsOfNode ==
    ASSUME NEW n, NEW b, Rising(n, b), Kids(n) \in Nat, Kids(n) # 0
    PROVE  /\ Key(n, 1) \in Int /\ Most(n) \in Int /\ b \in Int
           /\ b < Key(n, 1) /\ Key(n, 1) <= Most(n)
<1>1. 1 \in 1 .. Kids(n) /\ Kids(n) \in 1 .. Kids(n)
  OBVIOUS
<1>2. Key(n, 1) \in Int /\ b < Key(n, 1) /\ Key(n, Kids(n)) \in Int /\ b \in Int
  BY <1>1 DEF Rising
<1>3. Key(n, 1) <= Key(n, Kids(n))
  <2>1. CASE Kids(n) = 1
    BY <2>1, <1>2
  <2>2. CASE Kids(n) # 1
    <3>1. 1 < Kids(n)
      BY <2>2
    <3>2. Key(n, 1) < Key(n, Kids(n))
      BY <3>1, <1>1 DEF Rising
    <3>3. QED
      BY <3>2, <1>2
  <2>3. QED
    BY <2>1, <2>2
<1>4. QED
  BY <1>2, <1>3 DEF Most

\* All nodes of h are nodes, and as many as a proof about its rows needs.
Finite(h) == IsFiniteSet(DOMAIN h) /\ \A a \in DOMAIN h : Listed(h[a])

\* The leaves of the tree of h are in order.
ListOf(h) == ListOn(h, Leaves(h, 0))

-------------------------------------------------------------------------------
(* A child splits. *)

\* The nodes of f are those of g up to links, and h splits c in g.
SplitUp(h, g, f, p, i, c, new) ==
    /\ DOMAIN g = DOMAIN h \cup {new} /\ DOMAIN f = DOMAIN g
    /\ IsSplit(h, g, DOMAIN h, p, i, c, new, new, c, NodeSize)
    /\ KeysShared(<<g[new], g[c]>>, h[c], NodeSize)
    /\ \A x \in DOMAIN h \ {p, c} : SameBody(g[x], h[x])
    /\ \A x \in DOMAIN g : Kids(g[x]) = Size(g[x])
    /\ \A x \in DOMAIN g : SameBody(f[x], g[x])

\* The child c of the last frame is full, and splits.
SplitsTo(h, q, g, f, p, i, c, new) ==
    /\ \E k, E : k \in Int /\ TreeAt(h, q, 0, 1, k, E)
    /\ q # <<>> /\ p = q[Len(q)].node.id /\ i = q[Len(q)].index /\ c = Cur(q)
    /\ Size(h[c]) = 2 * NodeSize /\ SplitUp(h, g, f, p, i, c, new)
    /\ Finite(h) /\ Finite(f)

\* What is known of the trees of h and f.
SplitTrees(h, f, live, low, c, new) ==
    /\ Leaves(h, 0) = LeavesIn(h, live) /\ Leaves(f, 0) = LeavesIn(f, live \cup {new})
    /\ live \subseteq DOMAIN h /\ c \in live /\ new \notin DOMAIN h /\ new \in Int
    /\ Rising(h[c], low[c]) /\ Kids(h[c]) = 2 * NodeSize
    /\ \A x \in live : f[x].leaf = h[x].leaf
    /\ f[new].leaf = h[c].leaf

LEMMA SplitHasTrees ==
    ASSUME NEW h, NEW q, NEW g, NEW f, NEW p, NEW i, NEW c, NEW new,
           SplitsTo(h, q, g, f, p, i, c, new)
    PROVE  \E live, low : SplitTrees(h, f, live, low, c, new)
<1>0. /\ q # <<>> /\ p = q[Len(q)].node.id /\ i = q[Len(q)].index /\ c = Cur(q)
      /\ Size(h[c]) = 2 * NodeSize /\ SplitUp(h, g, f, p, i, c, new)
      /\ Finite(h) /\ Finite(f)
  BY DEF SplitsTo
<1>1. PICK k, E, live, height, low : TreeOn(h, live, height, low, q, 0, 1, k, E)
  BY DEF SplitsTo, TreeAt
<1>2. ShapeOn(h, live, height, q, 0, 1) /\ Order(h, live, low, Cur(q))
  BY <1>1 DEF TreeOn
<1>3. PICK up, pos : /\ Linked(h, live, height, up, pos) /\ Chain(q, h, live, height)
                     /\ Sizes(h, live, Cur(q), 0, 1)
  BY <1>2 DEF ShapeOn
<1>4. LastFrame(h, q, live, height, up, pos, p, i, c)
  BY <1>0, <1>3, LastFrameProperties
<1>5. c \in live /\ p \in live /\ h[p].leaf = FALSE /\ live \subseteq DOMAIN h
  BY <1>3, <1>4 DEF LastFrame, Linked
<1>6. Kids(h[c]) = 2 * NodeSize /\ Rising(h[c], low[c])
  BY <1>0, <1>2, <1>3, <1>5 DEF Sizes, Order, Ordered
<1>7. /\ DOMAIN g = DOMAIN h \cup {new} /\ DOMAIN f = DOMAIN g
      /\ IsSplit(h, g, DOMAIN h, p, i, c, new, new, c, NodeSize)
      /\ \A x \in DOMAIN g : Kids(g[x]) = Size(g[x])
      /\ \A x \in DOMAIN g : SameBody(f[x], g[x])
      /\ \A x \in DOMAIN h \ {p, c} : SameBody(g[x], h[x])
  BY <1>0 DEF SplitUp
<1>8. /\ new \in Int \ DOMAIN h /\ g[p].leaf = FALSE
      /\ g[new].leaf = h[c].leaf /\ g[c].leaf = h[c].leaf
  BY <1>7 DEF IsSplit
<1>9. PICK height2 : ShapeOn(g, live \cup {new}, height2, Front(q), 0, 1)
  BY <1>0, <1>2, <1>7, OverflowTree
<1>10. ShapeOn(f, live \cup {new}, height2, Front(q), 0, 1)
  <2>1. \A x \in DOMAIN g : SameCore(f[x], g[x])
    BY <1>7 DEF SameBody
  <2>2. QED
    BY <2>1, <1>7, <1>9, SameTree, 0 \in Nat, 1 \in Nat
<1>11. Leaves(h, 0) = LeavesIn(h, live)
  BY <1>0, <1>2, LeavesOfTree, 0 \in {0, 1} DEF Finite
<1>12. Leaves(f, 0) = LeavesIn(f, live \cup {new})
  BY <1>0, <1>10, LeavesOfTree, 0 \in {0, 1} DEF Finite
<1>13. ASSUME NEW x \in live
       PROVE  f[x].leaf = h[x].leaf
  <2>1. x \in DOMAIN g /\ f[x].leaf = g[x].leaf
    BY <1>5, <1>7 DEF SameBody, SameCore
  <2>2. x \notin {p, c} => g[x].leaf = h[x].leaf
    BY <1>5, <1>7 DEF SameBody, SameCore
  <2>3. QED
    BY <2>1, <2>2, <1>5, <1>8
<1>14. f[new].leaf = h[c].leaf
  BY <1>7, <1>8 DEF SameBody, SameCore
<1>15. QED
  BY <1>5, <1>6, <1>8, <1>11, <1>12, <1>13, <1>14 DEF SplitTrees

\* The ends of the two nodes that share the keys of n.
LEMMA EndsOfShared ==
    ASSUME NEW n, NEW b, Rising(n, b), Kids(n) \in Nat, NEW mid \in 1 .. Kids(n) - 1,
           NEW u, NEW v, Shared(<<u, v>>, n, mid), KeysShared(<<u, v>>, n, mid)
    PROVE  /\ Key(u, 1) = Key(n, 1) /\ Most(v) = Most(n)
           /\ Key(u, 1) \in Int /\ Most(u) \in Int /\ Key(v, 1) \in Int /\ Most(v) \in Int
           /\ Key(u, 1) <= Most(u) /\ Most(u) < Key(v, 1) /\ Key(v, 1) <= Most(v)
<1>1. Kids(u) = mid /\ Kids(v) = Kids(n) - mid
  BY DEF Shared
<1>2. /\ \A j \in 1 .. mid : Key(u, j) = Key(n, j)
      /\ \A j \in 1 .. Kids(n) - mid : Key(v, j) = Key(n, mid + j)
  BY DEF KeysShared
<1>3. /\ 1 \in 1 .. mid /\ mid \in 1 .. mid
      /\ 1 \in 1 .. Kids(n) - mid /\ Kids(n) - mid \in 1 .. Kids(n) - mid
      /\ mid + (Kids(n) - mid) = Kids(n)
  OBVIOUS
<1>4. Key(u, 1) = Key(n, 1) /\ Key(u, mid) = Key(n, mid) /\ Key(v, 1) = Key(n, mid + 1)
  BY <1>2, <1>3
<1>5. Key(v, Kids(n) - mid) = Key(n, Kids(n))
  BY <1>2, <1>3
<1>6. /\ 1 \in 1 .. Kids(n) /\ mid \in 1 .. Kids(n) /\ mid + 1 \in 1 .. Kids(n)
      /\ Kids(n) \in 1 .. Kids(n) /\ mid < mid + 1
      /\ 1 = mid \/ 1 < mid
      /\ mid + 1 = Kids(n) \/ mid + 1 < Kids(n)
  OBVIOUS
<1>7. /\ Key(n, 1) \in Int /\ Key(n, mid) \in Int /\ Key(n, mid + 1) \in Int
      /\ Key(n, Kids(n)) \in Int
  BY <1>6 DEF Rising
<1>8. Key(n, mid) < Key(n, mid + 1)
  BY <1>6 DEF Rising
<1>9. Key(n, 1) <= Key(n, mid)
  <2>1. 1 < mid => Key(n, 1) < Key(n, mid)
    BY <1>6 DEF Rising
  <2>2. QED
    BY <2>1, <1>6, <1>7
<1>10. Key(n, mid + 1) <= Key(n, Kids(n))
  <2>1. mid + 1 < Kids(n) => Key(n, mid + 1) < Key(n, Kids(n))
    BY <1>6 DEF Rising
  <2>2. mid + 1 = Kids(n) => Key(n, mid + 1) = Key(n, Kids(n))
    OBVIOUS
  <2>3. QED
    BY <2>1, <2>2, <1>6, <1>7
<1>11. Most(u) = Key(n, mid) /\ Most(v) = Key(n, Kids(n)) /\ Most(n) = Key(n, Kids(n))
  BY <1>1, <1>4, <1>5 DEF Most
<1>12. QED
  BY <1>4, <1>7, <1>8, <1>9, <1>10, <1>11

\* The pointers of the leaves after leaf c of L has split.
Spliced(f, h, L, c, new) ==
    \A x \in L \cup {new} :
        /\ f[x].next = IF x = new THEN c ELSE IF x = c THEN h[c].next
                       ELSE IF h[c].prev # Nil /\ x = h[c].prev THEN new ELSE h[x].next
        /\ f[x].prev = IF x = c THEN new ELSE IF x = new THEN h[c].prev
                       ELSE IF h[c].next # Nil /\ x = h[c].next THEN c ELSE h[x].prev

LEMMA ListSplits ==
    ASSUME NEW h, NEW q, NEW g, NEW f, NEW p, NEW i, NEW c, NEW new,
           SplitsTo(h, q, g, f, p, i, c, new), ListOf(h), new # Nil, h[c].leaf,
           Spliced(f, h, Leaves(h, 0), c, new)
    PROVE  ListOf(f)
<1> DEFINE L == Leaves(h, 0)
<1>0. SplitUp(h, g, f, p, i, c, new)
  BY DEF SplitsTo
<1>1. PICK live, low : SplitTrees(h, f, live, low, c, new)
  BY SplitHasTrees
<1>2. L = LeavesIn(h, live) /\ Leaves(f, 0) = LeavesIn(f, live \cup {new})
  BY <1>1 DEF SplitTrees
<1>3. /\ live \subseteq DOMAIN h /\ c \in live /\ new \notin live /\ new \notin DOMAIN h
      /\ Rising(h[c], low[c]) /\ Kids(h[c]) = 2 * NodeSize
      /\ \A x \in live : f[x].leaf = h[x].leaf
      /\ f[new].leaf = h[c].leaf
  BY <1>1 DEF SplitTrees
<1>4. Leaves(f, 0) = L \cup {new} /\ c \in L /\ new \notin L
  BY <1>2, <1>3 DEF LeavesIn
<1>5. ListOn(h, L) /\ Between(h, L, c)
  BY <1>4, ListNeighbours DEF ListOf
<1> HIDE DEF L
<1> DEFINE nx == Nexts(h)
           pv == Prevs(h)
           lo == Firsts(h)
           hi == Mosts(h)
           nx2 == Nexts(f)
           pv2 == Prevs(f)
           lo2 == Firsts(f)
           hi2 == Mosts(f)
<1>6. L \subseteq DOMAIN h /\ Threaded(L, nx, pv, lo, hi)
  BY <1>5 DEF ListOn
<1>7. DOMAIN f = DOMAIN h \cup {new}
  BY <1>0 DEF SplitUp
<1>8. /\ \A a \in L : /\ nx[a] = h[a].next /\ pv[a] = h[a].prev
                      /\ lo[a] = Key(h[a], 1) /\ hi[a] = Most(h[a])
      /\ \A a \in L \cup {new} : /\ nx2[a] = f[a].next /\ pv2[a] = f[a].prev
                                 /\ lo2[a] = Key(f[a], 1) /\ hi2[a] = Most(f[a])
  BY <1>6, <1>7 DEF Nexts, Prevs, Firsts, Mosts
<1>9. /\ Key(f[new], 1) = Key(h[c], 1) /\ Most(f[c]) = Most(h[c])
      /\ Key(f[new], 1) \in Int /\ Most(f[new]) \in Int
      /\ Key(f[c], 1) \in Int /\ Most(f[c]) \in Int
      /\ Key(f[new], 1) <= Most(f[new]) /\ Most(f[new]) < Key(f[c], 1)
      /\ Key(f[c], 1) <= Most(f[c])
  <2>1. SameBody(f[new], g[new]) /\ SameBody(f[c], g[c])
    BY <1>0, <1>3, <1>7 DEF SplitUp
  <2>2. /\ Key(f[new], 1) = Key(g[new], 1) /\ Most(f[new]) = Most(g[new])
        /\ Key(f[c], 1) = Key(g[c], 1) /\ Most(f[c]) = Most(g[c])
    BY <2>1, SameEnds
  <2>3. /\ Shared(<<g[new], g[c]>>, h[c], NodeSize)
        /\ KeysShared(<<g[new], g[c]>>, h[c], NodeSize)
    BY <1>0 DEF SplitUp, IsSplit
  <2>4. Kids(h[c]) \in Nat /\ NodeSize \in 1 .. Kids(h[c]) - 1
    BY <1>3, NodeSizeAssumption
  <2>5. Rising(h[c], low[c])
    BY <1>3
  <2>6. /\ Key(g[new], 1) = Key(h[c], 1) /\ Most(g[c]) = Most(h[c])
        /\ Key(g[new], 1) \in Int /\ Most(g[new]) \in Int
        /\ Key(g[c], 1) \in Int /\ Most(g[c]) \in Int
        /\ Key(g[new], 1) <= Most(g[new]) /\ Most(g[new]) < Key(g[c], 1)
        /\ Key(g[c], 1) <= Most(g[c])
    BY <2>3, <2>4, <2>5, EndsOfShared
  <2>7. QED
    BY <2>2, <2>6
<1>10. ASSUME NEW a \in L \ {c}
       PROVE  Key(f[a], 1) = Key(h[a], 1) /\ Most(f[a]) = Most(h[a])
  <2>1. a \in live /\ a # p
    BY <1>0, <1>2 DEF LeavesIn, SplitUp, IsSplit
  <2>2. SameBody(f[a], g[a]) /\ SameBody(g[a], h[a])
    BY <1>0, <2>1, <1>3 DEF SplitUp
  <2>3. QED
    BY <2>2, SameEnds, SameBodyTransitive
<1>11. ThreadSplits(L, c, new, nx, pv, lo, hi, nx2, pv2, lo2, hi2)
  <2>1. nx2[new] = c /\ pv2[c] = new /\ pv2[new] = pv[c]
    BY <1>4, <1>8, <1>3 DEF Spliced, L
  <2>2. ASSUME NEW a \in L
        PROVE  nx2[a] = IF pv[c] # Nil /\ a = pv[c] THEN new ELSE nx[a]
    <3>1. c # h[c].prev
      BY <1>5, <1>4 DEF Between
    <3>2. a # new
      BY <1>4
    <3>3. f[a].next = IF a = c THEN h[c].next
                      ELSE IF h[c].prev # Nil /\ a = h[c].prev THEN new ELSE h[a].next
      BY <3>2 DEF Spliced, L
    <3>4. QED
      BY <3>1, <3>3, <1>4, <1>8
  <2>3. ASSUME NEW a \in L \ {c}
        PROVE  pv2[a] = pv[a]
    <3>1. f[a].prev = IF h[c].next # Nil /\ a = h[c].next THEN c ELSE h[a].prev
      BY <1>4 DEF Spliced, L
    <3>2. h[c].next # Nil => h[h[c].next].prev = c
      BY <1>5 DEF Between
    <3>3. QED
      BY <3>1, <3>2, <1>8
  <2>4. \A a \in L \ {c} : lo2[a] = lo[a] /\ hi2[a] = hi[a]
    BY <1>8, <1>10
  <2>5. lo2[new] = lo[c] /\ hi2[c] = hi[c]
    BY <1>4, <1>8, <1>9
  <2>6. /\ lo2[new] \in Int /\ hi2[new] \in Int /\ lo2[c] \in Int /\ hi2[c] \in Int
        /\ lo2[new] <= hi2[new] /\ hi2[new] < lo2[c] /\ lo2[c] <= hi2[c]
    BY <1>4, <1>8, <1>9
  <2> HIDE DEF nx, pv, lo, hi, nx2, pv2, lo2, hi2
  <2>7. QED
    BY <2>1, <2>2, <2>3, <2>4, <2>5, <2>6, <1>4 DEF ThreadSplits
<1> HIDE DEF nx, pv, lo, hi, nx2, pv2, lo2, hi2
<1>12. Threaded(L \cup {new}, nx2, pv2, lo2, hi2)
  BY <1>6, <1>11, ThreadSplit
<1>13. QED
  BY <1>4, <1>6, <1>7, <1>12 DEF ListOf, ListOn, nx2, pv2, lo2, hi2

\* An inner child splits: the leaves keep what they have.
LEMMA ListKeptBySplit ==
    ASSUME NEW h, NEW q, NEW g, NEW f, NEW p, NEW i, NEW c, NEW new,
           SplitsTo(h, q, g, f, p, i, c, new), ListOf(h), IsInner(h[c]),
           \A x \in Leaves(h, 0) : f[x].next = h[x].next /\ f[x].prev = h[x].prev
    PROVE  ListOf(f)
<1> DEFINE L == Leaves(h, 0)
<1>0. SplitUp(h, g, f, p, i, c, new)
  BY DEF SplitsTo
<1>1. PICK live, low : SplitTrees(h, f, live, low, c, new)
  BY SplitHasTrees
<1>2. /\ L = LeavesIn(h, live) /\ Leaves(f, 0) = LeavesIn(f, live \cup {new})
      /\ live \subseteq DOMAIN h /\ c \in live /\ f[new].leaf = h[c].leaf
      /\ \A x \in live : f[x].leaf = h[x].leaf
  BY <1>1 DEF SplitTrees
<1>3. Leaves(f, 0) = L /\ c \notin L
  BY <1>2 DEF LeavesIn, IsInner
<1>4. ASSUME NEW a \in L
      PROVE  a \in DOMAIN f /\ SameLeaf(f[a], h[a])
  <2>1. a \in DOMAIN h /\ a \notin {p, c}
    BY <1>0, <1>2, <1>3 DEF LeavesIn, SplitUp, IsSplit
  <2>2. a \in DOMAIN f /\ SameBody(f[a], g[a]) /\ SameBody(g[a], h[a])
    BY <1>0, <2>1 DEF SplitUp
  <2>3. SameBody(f[a], h[a])
    BY <2>2, SameBodyTransitive
  <2>4. QED
    BY <2>2, <2>3 DEF SameLeaf
<1> HIDE DEF L
<1>5. QED
  BY <1>3, <1>4, ListKept DEF ListOf, L

\* Two inner nodes have no neighbours to tell.
PairSaved(s, m, pair, ids, values) ==
    /\ MemoryOK(s, ids, values)
    /\ \A x : x \notin {pair[1].id, pair[2].id} => At(s.changes, x) = At(m.changes, x)

LEMMA SaveInnerPair ==
    ASSUME NEW m, NEW ids \in Int, NEW values, MemoryOK(m, ids, values), NEW pair,
           NodeOK(pair[1], ids, values), NodeOK(pair[2], ids, values), ~pair[1].leaf
    PROVE  PairSaved(SavePair(m, pair), m, pair, ids, values)
<1> DEFINE s == SaveNode(m, pair[1])
           t == SaveNode(s, pair[2])
<1>1. Saved(s, m, pair[1], ids, values)
  BY SaveNodeOK
<1>2. MemoryOK(s, ids, values) /\ \A x : x # pair[1].id => At(s.changes, x) = At(m.changes, x)
  BY <1>1 DEF Saved
<1> HIDE DEF s
<1>3. Saved(t, s, pair[2], ids, values)
  BY <1>2, SaveNodeOK
<1>4. MemoryOK(t, ids, values) /\ \A x : x # pair[2].id => At(t.changes, x) = At(s.changes, x)
  BY <1>3 DEF Saved
<1>5. SavePair(m, pair) = t
  BY DEF SavePair, s
<1> HIDE DEF t
<1>6. QED
  BY <1>2, <1>4, <1>5 DEF PairSaved

\* The nodes of m but n.id are those of the memory that n is saved in.
LEMMA SaveKeepsOthers ==
    ASSUME NEW m, NEW ids \in Int, NEW values, MemoryOK(m, ids, values),
           NEW n, NodeOK(n, ids, values), NEW x, x # n.id
    PROVE  At(SaveNode(m, n).changes, x) = At(m.changes, x)
<1>1. Saved(SaveNode(m, n), m, n, ids, values)
  BY SaveNodeOK
<1>2. QED
  BY <1>1 DEF Saved

LEMMA SplitLeafPair ==
    ASSUME NEW n, NEW a, NEW b, NEW p, NEW q, n.leaf, p = n.prev, q = n.next,
           a # b, p \notin {a, b}, q \notin {a, b}
    PROVE  LeafPair(Split(n, a, b), a, b, p, q) /\ Split(n, a, b)[1].leaf
BY DEF Split, SplitLeaf, Leaf, LeafPair

LEMMA SplitInnerPair ==
    ASSUME NEW n, NEW a, NEW b, IsInner(n)
    PROVE  /\ Split(n, a, b)[1].id = a /\ Split(n, a, b)[2].id = b
           /\ ~Split(n, a, b)[1].leaf
BY DEF Split, SplitInner, Inner, IsInner

-------------------------------------------------------------------------------
LEMMA OverflowKeepsList ==
    ASSUME NEW m, NEW ids \in Int, NEW values \in Int, ids >= 1, nextNodeId = ids,
           MemoryOK(m, ids, values), Known(m) = 0 .. ids - 1,
           NEW q, q # <<>>, NEW key \in Int, NEW E, TreeAt(HeapOf(m, ids), q, 0, 1, key, E),
           NEW parent, IsParent(parent, HeapOf(m, ids), q, ids, values),
           Size(HeapOf(m, ids)[Cur(q)]) = 2 * NodeSize,
           NEW result, result = NormalizeNodeOverflow(m, parent, q[Len(q)].index),
           ListOf(HeapOf(m, ids))
    PROVE  ListOf(HeapOf(result.memory, ids + 1)) /\ IsInner(result.parent)
<1> DEFINE h == HeapOf(m, ids)
           c == Cur(q)
           p == q[Len(q)].node.id
           i == q[Len(q)].index
           f == HeapOf(result.memory, ids + 1)
           L == Leaves(h, 0)
<1>1. PICK pair, grown, g :
          Overflown(parent, m, h, q, i, c, result, ids, values, pair, grown, g)
  BY OverflowHeap
<1>2. /\ result.parent = grown /\ result.memory = SaveNode(SavePair(m, pair), grown)
      /\ pair = Split(h[c], ids, c) /\ NodeOK(h[c], ids, values)
      /\ Neighbour(pair[1], ids + 1, values) /\ Neighbour(pair[2], ids + 1, values)
      /\ NodeOK(grown, ids + 1, values) /\ grown.id = p /\ IsInner(grown)
      /\ p \in 0 .. ids - 1 /\ p # c /\ c \in 1 .. ids - 1
      /\ MemoryOK(m, ids + 1, values) /\ SavedAs(result.memory, ids + 1, values, g)
      /\ DOMAIN g = 0 .. ids
      /\ IsSplit(h, g, DOMAIN h, p, i, c, ids, ids, c, NodeSize)
      /\ KeysShared(<<g[ids], g[c]>>, h[c], NodeSize)
      /\ \A x \in DOMAIN h \ {p, c} : SameBody(g[x], h[x])
      /\ \A x \in DOMAIN g : Kids(g[x]) = Size(g[x])
  BY <1>1 DEF Overflown
<1>3. /\ DOMAIN h = 0 .. ids - 1 /\ DOMAIN f = 0 .. ids
      /\ \A x \in 0 .. ids - 1 : h[x] = At(m.changes, x)
      /\ \A x \in 0 .. ids : f[x] = At(result.memory.changes, x)
  BY DEF HeapOf
<1>4. ids \in Nat /\ ids + 1 \in Nat /\ (ids + 1) - 1 = ids /\ ids + 1 \in Int /\ ids # Nil
  BY DEF Nil
<1>5. Finite(h)
  BY <1>4, HeapListed DEF Ready, Finite
<1>6. Finite(f)
  <2>1. Ready(result.memory, ids + 1, values)
    BY <1>2 DEF SavedAs, Ready
  <2>2. QED
    BY <2>1, <1>4, HeapListed DEF Finite
<1>7. SplitUp(h, g, f, p, i, c, ids)
  <2>1. DOMAIN g = DOMAIN h \cup {ids} /\ DOMAIN f = DOMAIN g
    BY <1>2, <1>3
  <2>2. \A x \in DOMAIN g : SameBody(f[x], g[x])
    BY <1>2, <1>3, <1>4 DEF SavedAs
  <2> HIDE DEF h, f, c, p, i
  <2>3. QED
    BY <2>1, <2>2, <1>2 DEF SplitUp
<1>8. h[c].leaf \in BOOLEAN /\ L \subseteq DOMAIN h /\ h[p].leaf = FALSE
  <2>1. h[c].leaf \in BOOLEAN
    BY <1>2 DEF NodeOK, NodeRecords
  <2>2. L \subseteq DOMAIN h
    BY DEF ListOf, ListOn
  <2>3. h[p].leaf = FALSE
    <3>1. q[Len(q)].node.id = p /\ ShapeAt(h, q, 0, 1)
      BY TreeHasShape
    <3>2. Family(h, q, p, i, c, 0, 1)
      BY <3>1, FamilyOfPath, 0 \in Nat, 1 \in Nat
    <3>3. QED
      BY <3>2 DEF Family
  <2>4. QED
    BY <2>1, <2>2, <2>3
<1>9. \A x \in L : x # p /\ x # ids /\ x \in 0 .. ids - 1
  BY <1>2, <1>3, <1>8 DEF Leaves
<1>12. /\ q # <<>> /\ p = q[Len(q)].node.id /\ i = q[Len(q)].index /\ c = Cur(q)
       /\ TreeAt(h, q, 0, 1, key, E) /\ Size(h[c]) = 2 * NodeSize /\ ListOf(h)
  OBVIOUS
<1>15. SplitsTo(h, q, g, f, p, i, c, ids)
  <2> HIDE DEF h, c, f, p, i, L
  <2>1. QED
    BY <1>5, <1>6, <1>7, <1>12 DEF SplitsTo
<1>13. ASSUME NEW s, MemoryOK(s, ids + 1, values), s = SavePair(m, pair)
       PROVE  \A x \in 0 .. ids : x # p => f[x] = At(s.changes, x)
  <2>1. \A x : x # p => At(SaveNode(s, grown).changes, x) = At(s.changes, x)
    <3>1. MemoryOK(s, ids + 1, values) /\ ids + 1 \in Int /\ NodeOK(grown, ids + 1, values)
          /\ grown.id = p
      BY <1>13, <1>2, <1>4
    <3> HIDE DEF p
    <3>2. QED
      BY <3>1, SaveKeepsOthers
  <2>2. QED
    BY <2>1, <1>13, <1>2, <1>3
<1>10. CASE h[c].leaf
  <2>1. c \in L /\ ListOn(h, L)
    <3>1. PICK live, low : SplitTrees(h, f, live, low, c, ids)
      BY <1>15, SplitHasTrees
    <3>2. QED
      BY <3>1, <1>10 DEF SplitTrees, LeavesIn, ListOf
  <2>2. Between(h, L, c)
    BY <2>1, ListNeighbours
  <2>3. LeafPair(pair, ids, c, h[c].prev, h[c].next) /\ pair[1].leaf
    <3>1. h[c].prev \notin {ids, c} /\ h[c].next \notin {ids, c} /\ ids # c
      BY <2>2, <1>2, <1>9 DEF Between, Nil
    <3>2. QED
      BY <3>1, <1>2, <1>10, SplitLeafPair
  <2> DEFINE s == SavePair(m, pair)
  <2>4. Ready(s, ids + 1, values) /\ PairTold(s, m, ids, c, h[c].prev, h[c].next, ids + 1)
    <3>1. Known(m) \cup {ids} = 0 .. (ids + 1) - 1
      OBVIOUS
    <3>2. QED
      BY <3>1, <2>3, <1>2, SavePairTells, ids + 1 \in Int
  <2>5. \A x \in 0 .. ids : x # p => f[x] = At(s.changes, x)
    BY <2>4, <1>13 DEF Ready
  <2> HIDE DEF s
  <2>6. ASSUME NEW x \in L \cup {ids}
        PROVE  /\ f[x].next = IF x = ids THEN c ELSE IF x = c THEN h[c].next
                     ELSE IF h[c].prev # Nil /\ x = h[c].prev THEN ids ELSE h[x].next
               /\ f[x].prev = IF x = c THEN ids ELSE IF x = ids THEN h[c].prev
                     ELSE IF h[c].next # Nil /\ x = h[c].next THEN c ELSE h[x].prev
    <3>1. x \in 0 .. ids /\ x # p /\ f[x] = At(s.changes, x)
      BY <1>2, <1>9, <2>5
    <3>2. x # ids => At(m.changes, x) = h[x]
      BY <1>9, <1>3
    <3>3. x \in 0 .. (ids + 1) - 1
      BY <3>1
    <3>4. /\ At(s.changes, x).next =
                IF x = ids THEN c ELSE IF x = c THEN h[c].next
                ELSE IF h[c].prev # Nil /\ x = h[c].prev THEN ids ELSE At(m.changes, x).next
          /\ At(s.changes, x).prev =
                IF x = c THEN ids ELSE IF x = ids THEN h[c].prev
                ELSE IF h[c].next # Nil /\ x = h[c].next THEN c ELSE At(m.changes, x).prev
      BY <3>3, <2>4 DEF PairTold
    <3> HIDE DEF h, f, c, p, L
    <3>5. QED
      BY <3>1, <3>2, <3>4
  <2>7. Spliced(f, h, L, c, ids)
    BY <2>6 DEF Spliced
  <2>9. ListOf(f)
    <3>1. h[c].leaf /\ Spliced(f, h, Leaves(h, 0), c, ids)
      BY <2>7, <1>10
    <3> HIDE DEF h, c, f, p, i, L
    <3>2. QED
      BY <3>1, <1>4, <1>12, <1>15, ListSplits
  <2>10. QED
    BY <2>9, <1>2
<1>11. CASE IsInner(h[c])
  <2>1. pair[1].id = ids /\ pair[2].id = c /\ ~pair[1].leaf
    BY <1>2, <1>11, SplitInnerPair
  <2>2. NodeOK(pair[1], ids + 1, values) /\ NodeOK(pair[2], ids + 1, values)
    BY <1>2 DEF Neighbour
  <2> DEFINE s == SavePair(m, pair)
  <2>3. /\ MemoryOK(s, ids + 1, values)
        /\ \A x : x \notin {pair[1].id, pair[2].id} => At(s.changes, x) = At(m.changes, x)
    <3>1. MemoryOK(m, ids + 1, values) /\ ids + 1 \in Int
      BY <1>2, <1>4
    <3>2. PairSaved(s, m, pair, ids + 1, values)
      BY <3>1, <2>1, <2>2, SaveInnerPair
    <3>3. QED
      BY <3>2 DEF PairSaved
  <2>4. \A x \in 0 .. ids : x # p => f[x] = At(s.changes, x)
    BY <2>3, <1>13
  <2> HIDE DEF s
  <2>5. \A x \in L : f[x] = h[x]
    <3>1. \A x \in L : x # c
      BY <1>11 DEF Leaves, IsInner
    <3>2. QED
      BY <3>1, <2>1, <2>3, <2>4, <1>3, <1>9
  <2>6. ListOf(f)
    <3>1. \A x \in Leaves(h, 0) : f[x].next = h[x].next /\ f[x].prev = h[x].prev
      BY <2>5
    <3>2. IsInner(h[c])
      BY <1>11
    <3> HIDE DEF h, c, f, p, i, L
    <3>3. QED
      BY <3>1, <3>2, <1>12, <1>15, ListKeptBySplit
  <2>7. QED
    BY <2>6, <1>2
<1>14. QED
  BY <1>8, <1>10, <1>11 DEF IsInner

-------------------------------------------------------------------------------
(* Two neighbours share their keys, or become one. *)

\* Below p each child that is a leaf knows the next one.
Siblings(h, p) == \A j \in 1 .. Kids(h[p]) - 1 : h[Kid(h[p], j)].next = Kid(h[p], j + 1)

\* The child c of the last frame is short, and l and r are c and a neighbour.
PairOf(h, q, g, f, p, k, l, r, par) ==
    /\ \E key, E : key \in Int /\ TreeAt(h, q, 1, 0, key, E)
    /\ q # <<>> /\ p = q[Len(q)].node.id /\ IsPair(h, q, p, k, l, r)
    /\ IsRefreshed(par, h, q)
    /\ DOMAIN g = DOMAIN h /\ DOMAIN f = DOMAIN g
    /\ \A x \in DOMAIN h \ {p, l, r} : SameBody(g[x], h[x])
    /\ \A x \in DOMAIN g : Kids(g[x]) = Size(g[x])
    /\ \A x \in DOMAIN g : SameBody(f[x], g[x])
    /\ Finite(h) /\ Finite(f)

\* What is known of the neighbours in the tree of h.
PairTree(h, live, low, p, k, l, r) ==
    /\ Leaves(h, 0) = LeavesIn(h, live) /\ live \subseteq DOMAIN h
    /\ {p, l, r} \subseteq live /\ l # r /\ p \notin {l, r}
    /\ h[p].leaf = FALSE /\ h[l].leaf = h[r].leaf
    /\ k \in 1 .. Kids(h[p]) - 1 /\ l = Kid(h[p], k) /\ r = Kid(h[p], k + 1)
    /\ \E x : Ordered(h[l], low[l], h, low, x) /\ Ordered(h[r], low[r], h, low, x)
    /\ Kids(h[l]) \in Nat /\ Kids(h[l]) > 0 /\ Kids(h[r]) \in Nat /\ Kids(h[r]) > 0
    /\ Most(h[l]) <= low[r]

LEMMA PairInTree ==
    ASSUME NEW h, NEW live, NEW height, NEW low, NEW q, NEW key \in Int, NEW E,
           TreeOn(h, live, height, low, q, 1, 0, key, E), Finite(h), q # <<>>,
           NEW p, NEW k, NEW l, NEW r, IsPair(h, q, p, k, l, r),
           NEW par, IsRefreshed(par, h, q)
    PROVE  PairTree(h, live, low, p, k, l, r)
<1>1. /\ ShapeOn(h, live, height, q, 1, 0) /\ Order(h, live, low, Cur(q))
      /\ Guided(h, q, key) /\ Edged(h, q, key)
  BY DEF TreeOn
<1>2. PICK up, pos : /\ Linked(h, live, height, up, pos) /\ Chain(q, h, live, height)
                     /\ Sizes(h, live, Cur(q), 1, 0)
  BY <1>1 DEF ShapeOn
<1>3. PairAtCaller(h, live, height, low, par, p, k, l, r, Cur(q))
  BY <1>1, <1>2, CallerFindsPair
<1>4. PICK i : AtCaller(h, live, height, low, par, p, i, Cur(q))
  BY <1>3 DEF PairAtCaller
<1>5. p \in live /\ h[p].leaf = FALSE /\ live \subseteq DOMAIN h
  BY <1>2, <1>4 DEF AtCaller, IsInner, Linked
<1>6. /\ l \in live \ {0, p} /\ r \in live \ {0, p} /\ l # r /\ h[r].leaf = h[l].leaf
      /\ Ordered(h[l], low[l], h, low, Cur(q)) /\ Ordered(h[r], low[r], h, low, Cur(q))
      /\ Kids(h[l]) \in Nat /\ Kids(h[l]) > 0 /\ Kids(h[r]) \in Nat /\ Kids(h[r]) > 0
  BY <1>3 DEF PairAtCaller
<1>7. Most(h[l]) <= low[r]
  BY <1>3 DEF PairAtCaller
<1>8. k \in 1 .. Kids(h[p]) - 1 /\ l = Kid(h[p], k) /\ r = Kid(h[p], k + 1)
  <2>1. Kids(h[p]) \in Nat
    BY <1>2, <1>5 DEF Linked, LinkedAt
  <2>2. /\ k \in 1 .. Kids(h[p]) /\ k + 1 \in 1 .. Kids(h[p])
        /\ l = Kid(h[p], k) /\ r = Kid(h[p], k + 1)
    BY DEF IsPair
  <2>3. QED
    BY <2>1, <2>2
<1>9. Leaves(h, 0) = LeavesIn(h, live)
  BY <1>1, LeavesOfTree, 1 \in {0, 1} DEF Finite
<1>10. QED
  BY <1>5, <1>6, <1>7, <1>8, <1>9 DEF PairTree

\* Two neighbours in the list have no other neighbour in common.
LEMMA NoRing ==
    ASSUME NEW L, NEW nx, NEW pv, NEW lo, NEW hi, Threaded(L, nx, pv, lo, hi),
           NEW l \in L, NEW r \in L, l # r, nx[l] = r
    PROVE  pv[r] = l /\ pv[l] # r /\ nx[r] # l
<1>1. /\ NextIsNext(l, L, nx, pv, lo, hi) /\ NextIsNext(r, L, nx, pv, lo, hi)
      /\ PrevIsPrev(l, L, nx, pv, lo, hi) /\ InRow(L, lo, hi) /\ Nil \notin L
  BY DEF Threaded
<1>2. pv[r] = l /\ Before(l, r, lo, hi)
  BY <1>1 DEF NextIsNext
<1>3. /\ lo[l] \in Int /\ hi[l] \in Int /\ lo[r] \in Int /\ hi[r] \in Int
      /\ lo[l] <= hi[l] /\ lo[r] <= hi[r]
  BY <1>1 DEF InRow
<1>4. ~Before(r, l, lo, hi)
  BY <1>2, <1>3 DEF Before
<1>5. nx[r] # l
  BY <1>1, <1>4 DEF NextIsNext
<1>6. pv[l] # r
  <2>1. pv[l] = r => nx[r] = l
    BY <1>1 DEF PrevIsPrev
  <2>2. QED
    BY <2>1, <1>5
<1>7. QED
  BY <1>2, <1>5, <1>6

LEMMA NeighboursInList ==
    ASSUME NEW h, NEW L, ListOn(h, L), NEW l \in L, NEW r \in L, l # r, h[l].next = r
    PROVE  h[r].prev = l /\ h[l].prev # r /\ h[r].next # l
<1> DEFINE nx == Nexts(h)
           pv == Prevs(h)
           lo == Firsts(h)
           hi == Mosts(h)
<1>1. L \subseteq DOMAIN h /\ Threaded(L, nx, pv, lo, hi)
  BY DEF ListOn
<1>2. nx[l] = r /\ nx[r] = h[r].next /\ pv[l] = h[l].prev /\ pv[r] = h[r].prev
  BY <1>1 DEF Nexts, Prevs
<1> HIDE DEF nx, pv, lo, hi
<1>3. pv[r] = l /\ pv[l] # r /\ nx[r] # l
  BY <1>1, <1>2, NoRing
<1>4. QED
  BY <1>2, <1>3

\* The ends of two nodes in one.
LEMMA EndsOfJoined ==
    ASSUME NEW m, NEW u, NEW v, Concatenated(m, u, v), KeysConcatenated(m, u, v),
           Kids(u) \in Nat, Kids(u) > 0, Kids(v) \in Nat, Kids(v) > 0
    PROVE  Key(m, 1) = Key(u, 1) /\ Most(m) = Most(v)
<1>1. Kids(m) = Kids(u) + Kids(v)
  BY DEF Concatenated
<1>2. 1 \in 1 .. Kids(u) /\ Kids(v) \in 1 .. Kids(v)
  OBVIOUS
<1>3. Key(m, 1) = Key(u, 1) /\ Key(m, Kids(u) + Kids(v)) = Key(v, Kids(v))
  BY <1>2 DEF KeysConcatenated
<1>4. QED
  BY <1>1, <1>3 DEF Most

-------------------------------------------------------------------------------
\* They share their keys anew.
BalancesTo(h, q, g, f, p, k, l, r, par, left, shrunk, mid) ==
    /\ PairOf(h, q, g, f, p, k, l, r, par)
    /\ IsBalance(h, g, DOMAIN h, p, k, l, r, left, shrunk, mid)
    /\ Kids(left) >= 2 * NodeSize
    /\ 2 * mid = Kids(left) \/ 2 * mid + 1 = Kids(left)
    /\ KeysConcatenated(left, h[l], h[r]) /\ KeysShared(<<g[l], g[r]>>, left, mid)

LEMMA BalanceHasTrees ==
    ASSUME NEW h, NEW q, NEW g, NEW f, NEW p, NEW k, NEW l, NEW r, NEW par, NEW left,
           NEW shrunk, NEW mid, BalancesTo(h, q, g, f, p, k, l, r, par, left, shrunk, mid)
    PROVE  /\ \E live, low : PairTree(h, live, low, p, k, l, r)
           /\ Leaves(f, 0) = Leaves(h, 0)
           /\ \A x \in Leaves(h, 0) \ {l, r} : x \in DOMAIN f /\ SameBody(f[x], h[x])
<1>1. /\ PairOf(h, q, g, f, p, k, l, r, par)
      /\ IsBalance(h, g, DOMAIN h, p, k, l, r, left, shrunk, mid)
      /\ Kids(left) >= 2 * NodeSize
      /\ 2 * mid = Kids(left) \/ 2 * mid + 1 = Kids(left)
  BY DEF BalancesTo
<1>2. /\ \E key, E : key \in Int /\ TreeAt(h, q, 1, 0, key, E)
      /\ q # <<>> /\ p = q[Len(q)].node.id /\ IsPair(h, q, p, k, l, r)
      /\ IsRefreshed(par, h, q)
      /\ DOMAIN g = DOMAIN h /\ DOMAIN f = DOMAIN g
      /\ \A x \in DOMAIN h \ {p, l, r} : SameBody(g[x], h[x])
      /\ \A x \in DOMAIN g : Kids(g[x]) = Size(g[x])
      /\ \A x \in DOMAIN g : SameBody(f[x], g[x])
      /\ Finite(h) /\ Finite(f)
  BY <1>1 DEF PairOf
<1>3. PICK key, E, live, height, low : key \in Int /\ TreeOn(h, live, height, low, q, 1, 0, key, E)
  BY <1>2 DEF TreeAt
<1>4. PairTree(h, live, low, p, k, l, r)
  BY <1>2, <1>3, PairInTree
<1>5. ShapeOn(h, live, height, q, 1, 0)
  BY <1>3 DEF TreeOn
<1>6. PICK height2 : ShapeOn(g, live, height2, Front(q), 1, 0)
  BY <1>1, <1>2, <1>5, BalanceTree
<1>7. ShapeOn(f, live, height2, Front(q), 1, 0)
  <2>1. \A x \in DOMAIN g : SameCore(f[x], g[x])
    BY <1>2 DEF SameBody
  <2>2. QED
    BY <2>1, <1>2, <1>6, SameTree, 0 \in Nat, 1 \in Nat
<1>8. Leaves(f, 0) = LeavesIn(f, live)
  BY <1>2, <1>7, LeavesOfTree, 1 \in {0, 1} DEF Finite
<1>9. Leaves(h, 0) = LeavesIn(h, live) /\ live \subseteq DOMAIN h
      /\ h[p].leaf = FALSE /\ h[l].leaf = h[r].leaf /\ {p, l, r} \subseteq live
  BY <1>4 DEF PairTree
<1>10. g[p].leaf = FALSE /\ g[l].leaf = h[l].leaf /\ g[r].leaf = h[l].leaf
  BY <1>1 DEF IsBalance
<1>11. ASSUME NEW x \in live
       PROVE  f[x].leaf = h[x].leaf
  <2>1. x \in DOMAIN g /\ f[x].leaf = g[x].leaf
    BY <1>2, <1>9 DEF SameBody, SameCore
  <2>2. x \notin {p, l, r} => g[x].leaf = h[x].leaf
    BY <1>2, <1>9 DEF SameBody, SameCore
  <2>3. QED
    BY <2>1, <2>2, <1>9, <1>10
<1>12. Leaves(f, 0) = Leaves(h, 0)
  BY <1>8, <1>9, <1>11 DEF LeavesIn
<1>13. ASSUME NEW x \in Leaves(h, 0) \ {l, r}
       PROVE  x \in DOMAIN f /\ SameBody(f[x], h[x])
  <2>1. x \in DOMAIN h \ {p, l, r}
    BY <1>9 DEF LeavesIn
  <2>2. x \in DOMAIN f /\ SameBody(f[x], g[x]) /\ SameBody(g[x], h[x])
    BY <2>1, <1>2
  <2>3. QED
    BY <2>2, SameBodyTransitive
<1>14. QED
  BY <1>4, <1>12, <1>13

\* They are leaves: every leaf keeps its neighbours.
LEMMA ListShifts ==
    ASSUME NEW h, NEW q, NEW g, NEW f, NEW p, NEW k, NEW l, NEW r, NEW par, NEW left,
           NEW shrunk, NEW mid, BalancesTo(h, q, g, f, p, k, l, r, par, left, shrunk, mid),
           ListOf(h), h[l].leaf, h[l].next = r,
           \A x \in Leaves(h, 0) : f[x].next = h[x].next /\ f[x].prev = h[x].prev
    PROVE  ListOf(f)
<1> DEFINE L == Leaves(h, 0)
           nx == Nexts(h)
           pv == Prevs(h)
           lo == Firsts(h)
           hi == Mosts(h)
           nx2 == Nexts(f)
           pv2 == Prevs(f)
           lo2 == Firsts(f)
           hi2 == Mosts(f)
<1>1. PICK live, low : PairTree(h, live, low, p, k, l, r)
  BY BalanceHasTrees
<1>2. Leaves(f, 0) = L /\ \A x \in L \ {l, r} : x \in DOMAIN f /\ SameBody(f[x], h[x])
  BY BalanceHasTrees
<1>3. /\ PairOf(h, q, g, f, p, k, l, r, par)
      /\ IsBalance(h, g, DOMAIN h, p, k, l, r, left, shrunk, mid)
      /\ Kids(left) >= 2 * NodeSize
      /\ 2 * mid = Kids(left) \/ 2 * mid + 1 = Kids(left)
      /\ KeysConcatenated(left, h[l], h[r]) /\ KeysShared(<<g[l], g[r]>>, left, mid)
  BY DEF BalancesTo
<1>4. l \in L /\ r \in L /\ L \subseteq DOMAIN h /\ DOMAIN f = DOMAIN h
  BY <1>1, <1>3 DEF PairTree, LeavesIn, PairOf
<1>5. Threaded(L, nx, pv, lo, hi)
  BY DEF ListOf, ListOn
<1>6. \A a \in L : /\ nx[a] = h[a].next /\ pv[a] = h[a].prev
                   /\ lo[a] = Key(h[a], 1) /\ hi[a] = Most(h[a])
                   /\ nx2[a] = f[a].next /\ pv2[a] = f[a].prev
                   /\ lo2[a] = Key(f[a], 1) /\ hi2[a] = Most(f[a])
  BY <1>4 DEF Nexts, Prevs, Firsts, Mosts
<1>7. /\ Key(f[l], 1) = Key(h[l], 1) /\ Most(f[r]) = Most(h[r])
      /\ Most(f[l]) \in Int /\ Key(f[r], 1) \in Int
      /\ Key(f[l], 1) <= Most(f[l]) /\ Most(f[l]) < Key(f[r], 1)
      /\ Key(f[r], 1) <= Most(f[r])
  <2>1. SameBody(f[l], g[l]) /\ SameBody(f[r], g[r])
    BY <1>3, <1>4 DEF PairOf
  <2>2. /\ Key(f[l], 1) = Key(g[l], 1) /\ Most(f[l]) = Most(g[l])
        /\ Key(f[r], 1) = Key(g[r], 1) /\ Most(f[r]) = Most(g[r])
    BY <2>1, SameEnds
  <2>3. Shared(<<g[l], g[r]>>, left, mid) /\ Concatenated(left, h[l], h[r])
        /\ left.leaf = h[l].leaf /\ mid \in 0 .. Kids(left)
    BY <1>3 DEF IsBalance
  <2>4. PICK x : Ordered(h[l], low[l], h, low, x) /\ Ordered(h[r], low[r], h, low, x)
    BY <1>1 DEF PairTree
  <2>5. /\ Kids(h[l]) \in Nat /\ Kids(h[l]) > 0 /\ Kids(h[r]) \in Nat /\ Kids(h[r]) > 0
        /\ h[r].leaf = h[l].leaf
    BY <1>1 DEF PairTree
  <2>6. Joined(left, h[l], h[r], low[r])
    <3>1. Most(h[l]) <= low[r]
      BY <1>1 DEF PairTree
    <3>2. KeysConcatenated(left, h[l], h[r])
      BY <1>3
    <3>3. QED
      BY <3>1, <3>2, <2>3, <2>5 DEF Joined
  <2>7. Ordered(left, low[l], h, low, x)
    BY <2>4, <2>6, JoinOrdered
  <2>8. Rising(left, low[l])
    BY <2>7 DEF Ordered
  <2>9. Key(left, 1) = Key(h[l], 1) /\ Most(left) = Most(h[r])
    BY <2>3, <2>5, <1>3, EndsOfJoined
  <2>10. Kids(left) \in Nat /\ mid \in 1 .. Kids(left) - 1
    <3>1. Kids(left) \in Nat
      BY <2>3, <2>5 DEF Concatenated
    <3>2. QED
      BY <3>1, <2>3, <1>3, NodeSizeAssumption
  <2>11. KeysShared(<<g[l], g[r]>>, left, mid)
    BY <1>3
  <2>12. /\ Key(g[l], 1) = Key(left, 1) /\ Most(g[r]) = Most(left)
         /\ Key(g[l], 1) \in Int /\ Most(g[l]) \in Int
         /\ Key(g[r], 1) \in Int /\ Most(g[r]) \in Int
         /\ Key(g[l], 1) <= Most(g[l]) /\ Most(g[l]) < Key(g[r], 1)
         /\ Key(g[r], 1) <= Most(g[r])
    BY <2>3, <2>8, <2>10, <2>11, EndsOfShared
  <2>13. QED
    BY <2>2, <2>9, <2>12
<1>8. KeysShift(L, l, r, nx, lo, hi, lo2, hi2)
  <2>1. l \in L /\ r \in L /\ nx[l] = r
    BY <1>4, <1>6
  <2>2. \A a \in L \ {l, r} : lo2[a] = lo[a] /\ hi2[a] = hi[a]
    BY <1>2, <1>6, SameEnds
  <2>3. lo2[l] = lo[l] /\ hi2[r] = hi[r] /\ hi2[l] \in Int /\ lo2[r] \in Int
        /\ lo2[l] <= hi2[l] /\ hi2[l] < lo2[r] /\ lo2[r] <= hi2[r]
    BY <1>4, <1>6, <1>7
  <2> HIDE DEF L, nx, pv, lo, hi, nx2, pv2, lo2, hi2
  <2>4. QED
    BY <2>1, <2>2, <2>3 DEF KeysShift
<1>9. \A a \in L : nx2[a] = nx[a] /\ pv2[a] = pv[a]
  BY <1>6
<1> HIDE DEF L, nx, pv, lo, hi, nx2, pv2, lo2, hi2
<1>10. Threaded(L, nx, pv, lo2, hi2)
  BY <1>5, <1>8, ThreadShifts
<1>11. Threaded(L, nx2, pv2, lo2, hi2)
  BY <1>9, <1>10, ThreadKept
<1>12. QED
  BY <1>2, <1>4, <1>11 DEF ListOf, ListOn, nx2, pv2, lo2, hi2

\* They are inner nodes: the leaves keep what they have.
LEMMA ListKeptByBalance ==
    ASSUME NEW h, NEW q, NEW g, NEW f, NEW p, NEW k, NEW l, NEW r, NEW par, NEW left,
           NEW shrunk, NEW mid, BalancesTo(h, q, g, f, p, k, l, r, par, left, shrunk, mid),
           ListOf(h), IsInner(h[l]),
           \A x \in Leaves(h, 0) : f[x].next = h[x].next /\ f[x].prev = h[x].prev
    PROVE  ListOf(f)
<1> DEFINE L == Leaves(h, 0)
<1>1. PICK live, low : PairTree(h, live, low, p, k, l, r)
  BY BalanceHasTrees
<1>2. Leaves(f, 0) = L /\ \A x \in L \ {l, r} : x \in DOMAIN f /\ SameBody(f[x], h[x])
  BY BalanceHasTrees
<1>3. l \notin L /\ r \notin L
  BY <1>1 DEF PairTree, LeavesIn, IsInner
<1>4. \A x \in L : x \in DOMAIN f /\ SameLeaf(f[x], h[x])
  BY <1>2, <1>3 DEF SameLeaf
<1> HIDE DEF L
<1>5. QED
  BY <1>2, <1>4, ListKept DEF ListOf, L

-------------------------------------------------------------------------------
\* The left one takes all keys of the right one.
JoinsTo(h, q, g, f, p, k, l, r, par) ==
    /\ PairOf(h, q, g, f, p, k, l, r, par)
    /\ IsJoin(h, g, DOMAIN h, p, k, l, r) /\ Kids(h[l]) + Kids(h[r]) < 2 * NodeSize
    /\ Size(g[r]) = Size(h[r]) /\ KeysConcatenated(g[l], h[l], h[r])

LEMMA JoinHasTrees ==
    ASSUME NEW h, NEW q, NEW g, NEW f, NEW p, NEW k, NEW l, NEW r, NEW par,
           JoinsTo(h, q, g, f, p, k, l, r, par)
    PROVE  /\ \E live, low : PairTree(h, live, low, p, k, l, r)
           /\ Leaves(f, 0) = Leaves(h, 0) \ {r}
           /\ \A x \in Leaves(h, 0) \ {l, r} : x \in DOMAIN f /\ SameBody(f[x], h[x])
<1>1. /\ PairOf(h, q, g, f, p, k, l, r, par)
      /\ IsJoin(h, g, DOMAIN h, p, k, l, r) /\ Kids(h[l]) + Kids(h[r]) < 2 * NodeSize
      /\ Size(g[r]) = Size(h[r])
  BY DEF JoinsTo
<1>2. /\ \E key, E : key \in Int /\ TreeAt(h, q, 1, 0, key, E)
      /\ q # <<>> /\ p = q[Len(q)].node.id /\ IsPair(h, q, p, k, l, r)
      /\ IsRefreshed(par, h, q)
      /\ DOMAIN g = DOMAIN h /\ DOMAIN f = DOMAIN g
      /\ \A x \in DOMAIN h \ {p, l, r} : SameBody(g[x], h[x])
      /\ \A x \in DOMAIN g : Kids(g[x]) = Size(g[x])
      /\ \A x \in DOMAIN g : SameBody(f[x], g[x])
      /\ Finite(h) /\ Finite(f)
  BY <1>1 DEF PairOf
<1>3. PICK key, E, live, height, low : key \in Int /\ TreeOn(h, live, height, low, q, 1, 0, key, E)
  BY <1>2 DEF TreeAt
<1>4. PairTree(h, live, low, p, k, l, r)
  BY <1>2, <1>3, PairInTree
<1>5. ShapeOn(h, live, height, q, 1, 0)
  BY <1>3 DEF TreeOn
<1>6. ShapeOn(g, live \ {r}, height, Front(q), 1, 0)
  BY <1>1, <1>2, <1>5, JoinTree
<1>7. ShapeOn(f, live \ {r}, height, Front(q), 1, 0)
  <2>1. \A x \in DOMAIN g : SameCore(f[x], g[x])
    BY <1>2 DEF SameBody
  <2>2. QED
    BY <2>1, <1>2, <1>6, SameTree, 0 \in Nat, 1 \in Nat
<1>8. Leaves(f, 0) = LeavesIn(f, live \ {r})
  BY <1>2, <1>7, LeavesOfTree, 1 \in {0, 1} DEF Finite
<1>9. Leaves(h, 0) = LeavesIn(h, live) /\ live \subseteq DOMAIN h
      /\ h[p].leaf = FALSE /\ {p, l, r} \subseteq live /\ l # r
  BY <1>4 DEF PairTree
<1>10. g[p].leaf = FALSE /\ g[l].leaf = h[l].leaf
  BY <1>1 DEF IsJoin
<1>11. ASSUME NEW x \in live \ {r}
       PROVE  f[x].leaf = h[x].leaf
  <2>1. x \in DOMAIN g /\ f[x].leaf = g[x].leaf
    BY <1>2, <1>9 DEF SameBody, SameCore
  <2>2. x \notin {p, l, r} => g[x].leaf = h[x].leaf
    BY <1>2, <1>9 DEF SameBody, SameCore
  <2>3. QED
    BY <2>1, <2>2, <1>9, <1>10
<1>12. Leaves(f, 0) = Leaves(h, 0) \ {r}
  BY <1>8, <1>9, <1>11 DEF LeavesIn
<1>13. ASSUME NEW x \in Leaves(h, 0) \ {l, r}
       PROVE  x \in DOMAIN f /\ SameBody(f[x], h[x])
  <2>1. x \in DOMAIN h \ {p, l, r}
    BY <1>9 DEF LeavesIn
  <2>2. x \in DOMAIN f /\ SameBody(f[x], g[x]) /\ SameBody(g[x], h[x])
    BY <2>1, <1>2
  <2>3. QED
    BY <2>2, SameBodyTransitive
<1>14. QED
  BY <1>4, <1>12, <1>13

\* The pointers of the leaves L when l has taken the place of r too.
Closed(f, h, L, l, r) ==
    \A x \in L \ {r} :
        /\ f[x].next = IF x = l THEN h[r].next ELSE h[x].next
        /\ f[x].prev = IF h[r].next # Nil /\ x = h[r].next THEN l ELSE h[x].prev

LEMMA ListJoins ==
    ASSUME NEW h, NEW q, NEW g, NEW f, NEW p, NEW k, NEW l, NEW r, NEW par,
           JoinsTo(h, q, g, f, p, k, l, r, par), ListOf(h), h[l].leaf, h[l].next = r,
           Closed(f, h, Leaves(h, 0), l, r)
    PROVE  ListOf(f)
<1> DEFINE L == Leaves(h, 0)
           nx == Nexts(h)
           pv == Prevs(h)
           lo == Firsts(h)
           hi == Mosts(h)
           nx2 == Nexts(f)
           pv2 == Prevs(f)
           lo2 == Firsts(f)
           hi2 == Mosts(f)
<1>1. PICK live, low : PairTree(h, live, low, p, k, l, r)
  BY JoinHasTrees
<1>2. Leaves(f, 0) = L \ {r} /\ \A x \in L \ {l, r} : x \in DOMAIN f /\ SameBody(f[x], h[x])
  BY JoinHasTrees
<1>3. /\ PairOf(h, q, g, f, p, k, l, r, par) /\ IsJoin(h, g, DOMAIN h, p, k, l, r)
      /\ KeysConcatenated(g[l], h[l], h[r])
  BY DEF JoinsTo
<1>4. l \in L /\ r \in L /\ l # r /\ L \subseteq DOMAIN h /\ DOMAIN f = DOMAIN h
  BY <1>1, <1>3 DEF PairTree, LeavesIn, PairOf
<1>5. Threaded(L, nx, pv, lo, hi)
  BY DEF ListOf, ListOn
<1>6. \A a \in L : /\ nx[a] = h[a].next /\ pv[a] = h[a].prev
                   /\ lo[a] = Key(h[a], 1) /\ hi[a] = Most(h[a])
                   /\ nx2[a] = f[a].next /\ pv2[a] = f[a].prev
                   /\ lo2[a] = Key(f[a], 1) /\ hi2[a] = Most(f[a])
  BY <1>4 DEF Nexts, Prevs, Firsts, Mosts
<1>7. Key(f[l], 1) = Key(h[l], 1) /\ Most(f[l]) = Most(h[r])
  <2>1. SameBody(f[l], g[l])
    BY <1>3, <1>4 DEF PairOf
  <2>2. Key(f[l], 1) = Key(g[l], 1) /\ Most(f[l]) = Most(g[l])
    BY <2>1, SameEnds
  <2>3. Concatenated(g[l], h[l], h[r])
    BY <1>3 DEF IsJoin
  <2>4. Kids(h[l]) \in Nat /\ Kids(h[l]) > 0 /\ Kids(h[r]) \in Nat /\ Kids(h[r]) > 0
    BY <1>1 DEF PairTree
  <2>5. Key(g[l], 1) = Key(h[l], 1) /\ Most(g[l]) = Most(h[r])
    BY <2>3, <2>4, <1>3, EndsOfJoined
  <2>6. QED
    BY <2>2, <2>5
<1>8. ThreadJoins(L, l, r, nx, pv, lo, hi, nx2, pv2, lo2, hi2)
  <2>1. nx[l] = r /\ nx2[l] = nx[r]
    BY <1>4, <1>6 DEF Closed
  <2>2. \A a \in L \ {r} : pv2[a] = IF nx[r] # Nil /\ a = nx[r] THEN l ELSE pv[a]
    BY <1>4, <1>6 DEF Closed
  <2>3. \A a \in L \ {l, r} : nx2[a] = nx[a]
    BY <1>6 DEF Closed
  <2>4. \A a \in L \ {l, r} : lo2[a] = lo[a] /\ hi2[a] = hi[a]
    BY <1>2, <1>6, SameEnds
  <2>5. lo2[l] = lo[l] /\ hi2[l] = hi[r]
    BY <1>4, <1>6, <1>7
  <2> HIDE DEF L, nx, pv, lo, hi, nx2, pv2, lo2, hi2
  <2>6. QED
    BY <2>1, <2>2, <2>3, <2>4, <2>5, <1>4 DEF ThreadJoins
<1> HIDE DEF L, nx, pv, lo, hi, nx2, pv2, lo2, hi2
<1>9. Threaded(L \ {r}, nx2, pv2, lo2, hi2)
  BY <1>5, <1>8, ThreadJoin
<1>10. QED
  BY <1>2, <1>4, <1>9 DEF ListOf, ListOn, nx2, pv2, lo2, hi2

LEMMA ListKeptByJoin ==
    ASSUME NEW h, NEW q, NEW g, NEW f, NEW p, NEW k, NEW l, NEW r, NEW par,
           JoinsTo(h, q, g, f, p, k, l, r, par), ListOf(h), IsInner(h[l]),
           \A x \in Leaves(h, 0) : f[x].next = h[x].next /\ f[x].prev = h[x].prev
    PROVE  ListOf(f)
<1> DEFINE L == Leaves(h, 0)
<1>1. PICK live, low : PairTree(h, live, low, p, k, l, r)
  BY JoinHasTrees
<1>2. Leaves(f, 0) = L \ {r} /\ \A x \in L \ {l, r} : x \in DOMAIN f /\ SameBody(f[x], h[x])
  BY JoinHasTrees
<1>3. l \notin L /\ r \notin L
  BY <1>1 DEF PairTree, LeavesIn, IsInner
<1>4. \A x \in L : x \in DOMAIN f /\ SameLeaf(f[x], h[x])
  BY <1>2, <1>3 DEF SameLeaf
<1>5. Leaves(f, 0) = L
  BY <1>2, <1>3
<1> HIDE DEF L
<1>6. QED
  BY <1>4, <1>5, ListKept DEF ListOf, L

LEMMA JoinedNeighbours ==
    ASSUME NEW a, NEW ids, NEW values, NodeOK(a, ids, values), a.leaf, NEW b
    PROVE  Join(a, b).prev = a.prev /\ Join(a, b).next = b.next
BY DEF Join, JoinLeaf, JoinInner, NodeOK, NodeRecords

\* What the list says of two neighbours that are leaves.
LEMMA PairInList ==
    ASSUME NEW h, NEW L, ListOn(h, L), NEW l \in L, NEW r \in L, l # r, h[l].next = r
    PROVE  /\ h[l].prev \notin {l, r} /\ h[r].next \notin {l, r} /\ h[r].prev = l
           /\ \A x \in L : h[l].prev # Nil /\ x = h[l].prev => h[x].next = l
           /\ \A x \in L : h[r].next # Nil /\ x = h[r].next => h[x].prev = r
<1>1. Between(h, L, l) /\ Between(h, L, r) /\ Nil \notin L
  BY ListNeighbours DEF ListOn, Threaded
<1>2. h[r].prev = l /\ h[l].prev # r /\ h[r].next # l
  BY NeighboursInList
<1>3. QED
  BY <1>1, <1>2 DEF Between

\* The leaves are other nodes than the caller's.
LEMMA LeavesAreLeaves ==
    ASSUME NEW h, ListOf(h)
    PROVE  ListOn(h, Leaves(h, 0)) /\ \A x \in Leaves(h, 0) : x \in DOMAIN h /\ h[x].leaf
BY DEF ListOf, ListOn, Leaves

LEMMA HeapFinite ==
    ASSUME NEW m, NEW ids \in Int, ids >= 1, NEW values, MemoryOK(m, ids, values),
           Known(m) = 0 .. ids - 1
    PROVE  Finite(HeapOf(m, ids))
<1>1. ids \in Nat /\ Ready(m, ids, values)
  BY DEF Ready
<1>2. QED
  BY <1>1, HeapListed DEF Finite

\* At the child at work the neighbours are leaves together.
LEMMA PairIsLike ==
    ASSUME NEW h, NEW q, NEW p, NEW l, NEW r, PairFits(h, q, p, l, r)
    PROVE  h[l].leaf = h[Cur(q)].leaf /\ h[r].leaf = h[l].leaf
BY DEF PairFits

-------------------------------------------------------------------------------
LEMMA BalanceKeepsList ==
    ASSUME NEW m, NEW ids \in Int, NEW values \in Int, ids >= 1,
           MemoryOK(m, ids, values), Known(m) = 0 .. ids - 1,
           NEW q, q # <<>>, NEW key \in Int, NEW E, TreeAt(HeapOf(m, ids), q, 1, 0, key, E),
           NEW parent, IsRefreshed(parent, HeapOf(m, ids), q),
           ParentIn(parent, m, HeapOf(m, ids), q, q[Len(q)].index, Cur(q), ids, values),
           NodeOK(parent, ids, values),
           NEW k \in 1 .. Kids(parent), NEW l, NEW r, NEW oldL, NEW oldR, NEW left, NEW shrunk,
           NEW m1,
           Short(parent, m, HeapOf(m, ids), q, k, l, r, oldL, oldR, left, shrunk, m1, ids, values),
           NeedsTwo(left),
           NEW pair, pair = Split(left, left.id, oldR.id),
           NEW balanced, balanced = UpdateKey(parent, k, GetMax(pair[1])),
           ListOf(HeapOf(m, ids)),
           HeapOf(m, ids)[Cur(q)].leaf => Siblings(HeapOf(m, ids), parent.id)
    PROVE  /\ ListOf(HeapOf(SaveNode(SavePair(m1, pair), balanced), ids))
           /\ IsInner(balanced)
<1> DEFINE h == HeapOf(m, ids)
           p == parent.id
           s == SavePair(m1, pair)
           f == HeapOf(SaveNode(s, balanced), ids)
           L == Leaves(h, 0)
<1>1. PICK mid, g : Balanced(parent, m1, h, k, l, r, left, shrunk, pair, balanced, ids,
                             values, mid, g)
  BY BalanceHeap
<1>2. /\ IsPair(h, q, p, k, l, r) /\ PairFits(h, q, p, l, r)
      /\ l \in 1 .. ids - 1 /\ r \in 1 .. ids - 1 /\ p \in 0 .. ids - 1
      /\ oldL = h[l] /\ NodeOK(oldL, ids, values) /\ left = Join(h[l], h[r])
      /\ left.leaf = h[l].leaf /\ KeysConcatenated(left, h[l], h[r])
      /\ MemoryOK(m1, ids, values) /\ m1.changes = m.changes /\ Known(m1) = 0 .. ids - 1
  BY DEF Short
<1>3. /\ pair = Split(left, l, r)
      /\ Neighbour(pair[1], ids, values) /\ Neighbour(pair[2], ids, values)
      /\ NodeOK(balanced, ids, values) /\ balanced.id = p /\ IsInner(balanced)
      /\ SavedAs(SaveNode(s, balanced), ids, values, g)
      /\ DOMAIN g = DOMAIN h
      /\ Kids(left) >= 2 * NodeSize
      /\ 2 * mid = Kids(left) \/ 2 * mid + 1 = Kids(left)
      /\ IsBalance(h, g, DOMAIN h, p, k, l, r, left, shrunk, mid)
      /\ KeysShared(<<g[l], g[r]>>, left, mid)
      /\ \A x \in DOMAIN h \ {p, l, r} : SameBody(g[x], h[x])
      /\ \A x \in DOMAIN g : Kids(g[x]) = Size(g[x])
  BY <1>1 DEF Balanced
<1>4. /\ DOMAIN h = 0 .. ids - 1 /\ DOMAIN f = 0 .. ids - 1
      /\ \A x \in 0 .. ids - 1 : h[x] = At(m1.changes, x)
      /\ \A x \in 0 .. ids - 1 : f[x] = At(SaveNode(s, balanced).changes, x)
  BY <1>2 DEF HeapOf
<1>5. Finite(h) /\ Finite(f)
  <2>1. Finite(h)
    BY HeapFinite
  <2>2. MemoryOK(SaveNode(s, balanced), ids, values)
        /\ Known(SaveNode(s, balanced)) = 0 .. ids - 1
    BY <1>3 DEF SavedAs
  <2>3. Finite(f)
    BY <2>2, HeapFinite
  <2>4. QED
    BY <2>1, <2>3
<1>6. p = q[Len(q)].node.id
  BY <1>2 DEF IsPair
<1>7. PairOf(h, q, g, f, p, k, l, r, parent)
  <2>1. \A x \in DOMAIN g : SameBody(f[x], g[x])
    BY <1>3, <1>4 DEF SavedAs
  <2>2. DOMAIN f = DOMAIN g /\ TreeAt(h, q, 1, 0, key, E) /\ IsRefreshed(parent, h, q)
    BY <1>3, <1>4
  <2> HIDE DEF h, f, p
  <2>3. QED
    BY <2>1, <2>2, <1>2, <1>3, <1>5, <1>6 DEF PairOf
<1>8. BalancesTo(h, q, g, f, p, k, l, r, parent, left, shrunk, mid)
  <2> HIDE DEF h, f, p
  <2>1. QED
    BY <1>2, <1>3, <1>7 DEF BalancesTo
<1>9. h[l].leaf = h[Cur(q)].leaf /\ h[r].leaf = h[l].leaf /\ h[l].leaf \in BOOLEAN
  BY <1>2, PairIsLike DEF NodeOK, NodeRecords
<1>10. \A x \in L : x \in 0 .. ids - 1 /\ h[x].leaf /\ x # p
  <2>1. h[p].leaf = FALSE
    BY <1>2 DEF PairFits
  <2>2. QED
    BY <2>1, <1>4, LeavesAreLeaves
<1>11. ListOn(h, L) /\ ListOf(h)
  BY LeavesAreLeaves
<1>12. ASSUME MemoryOK(s, ids, values)
       PROVE  \A x \in 0 .. ids - 1 : x # p => f[x] = At(s.changes, x)
  <2>1. \A x : x # p => At(SaveNode(s, balanced).changes, x) = At(s.changes, x)
    <3>1. NodeOK(balanced, ids, values) /\ balanced.id = p
      BY <1>3
    <3> HIDE DEF p, s
    <3>2. QED
      BY <3>1, <1>12, SaveKeepsOthers
  <2>2. QED
    BY <2>1, <1>4
<1>13. CASE h[l].leaf
  <2>1. l \in L /\ r \in L /\ l # r
    <3>1. PICK live, low : PairTree(h, live, low, p, k, l, r)
      BY <1>8, BalanceHasTrees
    <3>2. QED
      BY <3>1, <1>13 DEF PairTree, LeavesIn
  <2>2. h[l].next = r
    <3>1. PICK live, low : PairTree(h, live, low, p, k, l, r)
      BY <1>8, BalanceHasTrees
    <3>2. k \in 1 .. Kids(h[p]) - 1 /\ l = Kid(h[p], k) /\ r = Kid(h[p], k + 1)
      BY <3>1 DEF PairTree
    <3>3. Siblings(h, p)
      BY <1>9, <1>13
    <3>4. QED
      BY <3>2, <3>3 DEF Siblings
  <2>3. /\ h[l].prev \notin {l, r} /\ h[r].next \notin {l, r} /\ h[r].prev = l
        /\ \A x \in L : h[l].prev # Nil /\ x = h[l].prev => h[x].next = l
        /\ \A x \in L : h[r].next # Nil /\ x = h[r].next => h[x].prev = r
    BY <2>1, <2>2, <1>11, PairInList
  <2>4. LeafPair(pair, l, r, h[l].prev, h[r].next) /\ pair[1].leaf
    <3>1. left.prev = h[l].prev /\ left.next = h[r].next /\ left.leaf
      BY <1>2, <1>13, JoinedNeighbours
    <3>2. QED
      BY <3>1, <2>1, <2>3, <1>3, SplitLeafPair
  <2>5. Ready(s, ids, values) /\ PairTold(s, m1, l, r, h[l].prev, h[r].next, ids)
    <3>1. Known(m1) \cup {l} = 0 .. ids - 1
      BY <1>2
    <3>2. QED
      BY <3>1, <2>4, <1>2, <1>3, SavePairTells
  <2>6. \A x \in 0 .. ids - 1 : x # p => f[x] = At(s.changes, x)
    BY <2>5, <1>12 DEF Ready
  <2> HIDE DEF s
  <2>7. ASSUME NEW x \in L
        PROVE  f[x].next = h[x].next /\ f[x].prev = h[x].prev
    <3>1. f[x] = At(s.changes, x) /\ At(m1.changes, x) = h[x] /\ x \in 0 .. ids - 1
      BY <2>6, <1>4, <1>10
    <3>2. /\ At(s.changes, x).next =
                IF x = l THEN r ELSE IF x = r THEN h[r].next
                ELSE IF h[l].prev # Nil /\ x = h[l].prev THEN l ELSE At(m1.changes, x).next
          /\ At(s.changes, x).prev =
                IF x = r THEN l ELSE IF x = l THEN h[l].prev
                ELSE IF h[r].next # Nil /\ x = h[r].next THEN r ELSE At(m1.changes, x).prev
      BY <3>1, <2>5 DEF PairTold
    <3> HIDE DEF h, f, p, L
    <3>3. QED
      BY <3>1, <3>2, <2>2, <2>3
  <2>8. ListOf(f)
    <3>1. h[l].leaf /\ \A x \in Leaves(h, 0) : f[x].next = h[x].next /\ f[x].prev = h[x].prev
      BY <2>7, <1>13
    <3> HIDE DEF h, f, p, L
    <3>2. QED
      BY <3>1, <2>2, <1>8, <1>11, ListShifts
  <2>9. QED
    BY <2>8, <1>3 DEF s
<1>14. CASE IsInner(h[l])
  <2>1. pair[1].id = l /\ pair[2].id = r /\ ~pair[1].leaf
    <3>1. IsInner(left)
      BY <1>2, <1>14 DEF IsInner
    <3>2. pair = Split(left, l, r)
      BY <1>3
    <3>3. QED
      BY <3>1, <3>2, SplitInnerPair
  <2>2. PairSaved(s, m1, pair, ids, values)
    BY <2>1, <1>2, <1>3, SaveInnerPair DEF Neighbour
  <2>3. MemoryOK(s, ids, values)
        /\ \A x : x \notin {l, r} => At(s.changes, x) = At(m1.changes, x)
    BY <2>1, <2>2 DEF PairSaved
  <2>4. \A x \in 0 .. ids - 1 : x # p => f[x] = At(s.changes, x)
    BY <2>3, <1>12
  <2> HIDE DEF s
  <2>5. \A x \in L : f[x] = h[x]
    <3>1. \A x \in L : x \notin {l, r}
      BY <1>9, <1>10, <1>14 DEF IsInner
    <3>2. QED
      BY <3>1, <2>3, <2>4, <1>4, <1>10
  <2>6. ListOf(f)
    <3>1. \A x \in Leaves(h, 0) : f[x].next = h[x].next /\ f[x].prev = h[x].prev
      BY <2>5
    <3>2. IsInner(h[l])
      BY <1>14
    <3> HIDE DEF h, f, p, L
    <3>3. QED
      BY <3>1, <3>2, <1>8, <1>11, ListKeptByBalance
  <2>7. QED
    BY <2>6, <1>3 DEF s
<1>15. QED
  BY <1>9, <1>13, <1>14 DEF IsInner

-------------------------------------------------------------------------------
LEMMA JoinKeepsList ==
    ASSUME NEW m, NEW ids \in Int, NEW values \in Int, ids >= 1,
           MemoryOK(m, ids, values), Known(m) = 0 .. ids - 1,
           NEW q, q # <<>>, NEW key \in Int, NEW E, TreeAt(HeapOf(m, ids), q, 1, 0, key, E),
           NEW parent, IsRefreshed(parent, HeapOf(m, ids), q),
           ParentIn(parent, m, HeapOf(m, ids), q, q[Len(q)].index, Cur(q), ids, values),
           NodeOK(parent, ids, values),
           NEW k \in 1 .. Kids(parent), NEW l, NEW r, NEW oldL, NEW oldR, NEW left, NEW shrunk,
           NEW m1,
           Short(parent, m, HeapOf(m, ids), q, k, l, r, oldL, oldR, left, shrunk, m1, ids, values),
           ~NeedsTwo(left),
           NEW saved, saved = SaveNode(SaveNode(m1, left), oldR),
           NEW linked, linked = IF left.leaf THEN InsertIntoList(saved, left) ELSE saved,
           ListOf(HeapOf(m, ids)),
           HeapOf(m, ids)[Cur(q)].leaf => Siblings(HeapOf(m, ids), parent.id)
    PROVE  /\ ListOf(HeapOf(SaveNode(DelNode(linked, oldR), shrunk), ids))
           /\ IsInner(shrunk)
<1> DEFINE h == HeapOf(m, ids)
           p == parent.id
           gone == DelNode(linked, oldR)
           f == HeapOf(SaveNode(gone, shrunk), ids)
           L == Leaves(h, 0)
<1>1. PICK g : Merged(parent, h, k, l, r, oldR, shrunk, saved, linked, ids, values, g)
  BY JoinHeap
<1>2. /\ IsPair(h, q, p, k, l, r) /\ PairFits(h, q, p, l, r)
      /\ l \in 1 .. ids - 1 /\ r \in 1 .. ids - 1 /\ p \in 0 .. ids - 1
      /\ oldL = h[l] /\ NodeOK(oldL, ids, values) /\ left = Join(h[l], h[r])
      /\ oldR = h[r] /\ NodeOK(oldR, ids, values) /\ oldR.id = r
      /\ NodeOK(left, ids, values) /\ left.id = l
      /\ left.leaf = h[l].leaf
      /\ NodeOK(shrunk, ids, values) /\ shrunk.id = p
      /\ MemoryOK(m1, ids, values) /\ m1.changes = m.changes /\ Known(m1) = 0 .. ids - 1
  BY DEF Short
<1>3. /\ MemoryOK(saved, ids, values) /\ Known(saved) = 0 .. ids - 1
      /\ MemoryOK(linked, ids, values) /\ MemoryOK(gone, ids, values) /\ IsInner(shrunk)
      /\ SavedAs(SaveNode(gone, shrunk), ids, values, g)
      /\ DOMAIN g = DOMAIN h /\ Size(g[r]) = Size(h[r])
      /\ IsJoin(h, g, DOMAIN h, p, k, l, r) /\ Kids(h[l]) + Kids(h[r]) < 2 * NodeSize
      /\ KeysConcatenated(g[l], h[l], h[r])
      /\ \A x \in DOMAIN h \ {p, l, r} : SameBody(g[x], h[x])
      /\ \A x \in DOMAIN g : Kids(g[x]) = Size(g[x])
  BY <1>1 DEF Merged
<1>4. /\ DOMAIN h = 0 .. ids - 1 /\ DOMAIN f = 0 .. ids - 1
      /\ \A x \in 0 .. ids - 1 : h[x] = At(m1.changes, x)
      /\ \A x \in 0 .. ids - 1 : f[x] = At(SaveNode(gone, shrunk).changes, x)
  BY <1>2 DEF HeapOf
<1>5. Finite(h) /\ Finite(f)
  <2>1. Finite(h)
    BY HeapFinite
  <2>2. MemoryOK(SaveNode(gone, shrunk), ids, values)
        /\ Known(SaveNode(gone, shrunk)) = 0 .. ids - 1
    BY <1>3 DEF SavedAs
  <2>3. Finite(f)
    BY <2>2, HeapFinite
  <2>4. QED
    BY <2>1, <2>3
<1>6. p = q[Len(q)].node.id
  BY <1>2 DEF IsPair
<1>7. PairOf(h, q, g, f, p, k, l, r, parent)
  <2>1. \A x \in DOMAIN g : SameBody(f[x], g[x])
    BY <1>3, <1>4 DEF SavedAs
  <2>2. DOMAIN f = DOMAIN g /\ TreeAt(h, q, 1, 0, key, E) /\ IsRefreshed(parent, h, q)
    BY <1>3, <1>4
  <2> HIDE DEF h, f, p
  <2>3. QED
    BY <2>1, <2>2, <1>2, <1>3, <1>5, <1>6 DEF PairOf
<1>8. JoinsTo(h, q, g, f, p, k, l, r, parent)
  <2> HIDE DEF h, f, p
  <2>1. QED
    BY <1>3, <1>7 DEF JoinsTo
<1>9. h[l].leaf = h[Cur(q)].leaf /\ h[r].leaf = h[l].leaf /\ h[l].leaf \in BOOLEAN
  BY <1>2, PairIsLike DEF NodeOK, NodeRecords
<1>10. \A x \in L : x \in 0 .. ids - 1 /\ h[x].leaf /\ x # p
  <2>1. h[p].leaf = FALSE
    BY <1>2 DEF PairFits
  <2>2. QED
    BY <2>1, <1>4, LeavesAreLeaves
<1>11. ListOn(h, L) /\ ListOf(h)
  BY LeavesAreLeaves
<1>12. \A x \in 0 .. ids - 1 : x \notin {p, r} => f[x] = At(linked.changes, x)
  <2>1. \A x : x # p => At(SaveNode(gone, shrunk).changes, x) = At(gone.changes, x)
    <3>1. NodeOK(shrunk, ids, values) /\ shrunk.id = p /\ MemoryOK(gone, ids, values)
      BY <1>2, <1>3
    <3> HIDE DEF p, gone
    <3>2. QED
      BY <3>1, SaveKeepsOthers
  <2>2. \A x : x # r => At(gone.changes, x) = At(linked.changes, x)
    <3> DEFINE n == [oldR EXCEPT !.deleted = TRUE]
    <3>1. NodeOK(n, ids, values) /\ n.id = r
      BY <1>2, NewIdOrFlag
    <3>2. gone = SaveNode(linked, n)
      BY DEF DelNode
    <3> HIDE DEF n, gone
    <3>3. QED
      BY <3>1, <3>2, <1>3, SaveKeepsOthers
  <2>3. QED
    BY <2>1, <2>2, <1>4
<1>13. /\ At(saved.changes, l) = left
       /\ \A x : x \notin {l, r} => At(saved.changes, x) = At(m1.changes, x)
  <2> DEFINE s == SaveNode(m1, left)
  <2>1. Saved(s, m1, left, ids, values)
    BY <1>2, SaveNodeOK
  <2>2. /\ MemoryOK(s, ids, values) /\ At(s.changes, l) = left
        /\ \A x : x # l => At(s.changes, x) = At(m1.changes, x)
    BY <2>1, <1>2 DEF Saved
  <2>3. saved = SaveNode(s, oldR)
    OBVIOUS
  <2> HIDE DEF s
  <2>4. Saved(saved, s, oldR, ids, values)
    BY <2>2, <2>3, <1>2, SaveNodeOK
  <2>5. \A x : x # r => At(saved.changes, x) = At(s.changes, x)
    BY <2>4, <1>2 DEF Saved
  <2>6. l # r
    BY <1>2 DEF PairFits
  <2>7. QED
    BY <2>2, <2>5, <2>6
<1>14. CASE h[l].leaf
  <2>1. l \in L /\ r \in L /\ l # r
    <3>1. PICK live, low : PairTree(h, live, low, p, k, l, r)
      BY <1>8, JoinHasTrees
    <3>2. QED
      BY <3>1, <1>14 DEF PairTree, LeavesIn
  <2>2. h[l].next = r
    <3>1. PICK live, low : PairTree(h, live, low, p, k, l, r)
      BY <1>8, JoinHasTrees
    <3>2. k \in 1 .. Kids(h[p]) - 1 /\ l = Kid(h[p], k) /\ r = Kid(h[p], k + 1)
      BY <3>1 DEF PairTree
    <3>3. Siblings(h, p)
      BY <1>9, <1>14
    <3>4. QED
      BY <3>2, <3>3 DEF Siblings
  <2>3. /\ h[l].prev \notin {l, r} /\ h[r].next \notin {l, r} /\ h[r].prev = l
        /\ \A x \in L : h[l].prev # Nil /\ x = h[l].prev => h[x].next = l
    BY <2>1, <2>2, <1>11, PairInList
  <2>4. left.prev = h[l].prev /\ left.next = h[r].next /\ left.leaf
    BY <1>2, <1>14, JoinedNeighbours
  <2>5. Inserted(linked, saved, left, ids)
    <3>1. linked = InsertIntoList(saved, left)
      BY <2>4
    <3>2. Ready(saved, ids, values) /\ Neighbour(left, ids, values)
      BY <1>2, <1>3 DEF Ready, Neighbour
    <3>3. QED
      BY <3>1, <3>2, InsertTells
  <2>6. ASSUME NEW x \in L \ {r}
        PROVE  /\ f[x].next = IF x = l THEN h[r].next ELSE h[x].next
               /\ f[x].prev = IF h[r].next # Nil /\ x = h[r].next THEN l ELSE h[x].prev
    <3>1. f[x] = At(linked.changes, x) /\ At(m1.changes, x) = h[x] /\ x \in 0 .. ids - 1
      BY <1>4, <1>10, <1>12
    <3>2. /\ At(linked.changes, x).next =
                IF h[l].prev # Nil /\ x = h[l].prev THEN l ELSE At(saved.changes, x).next
          /\ At(linked.changes, x).prev =
                IF h[r].next # Nil /\ x = h[r].next THEN l ELSE At(saved.changes, x).prev
      BY <3>1, <2>4, <2>5, <1>2 DEF Inserted
    <3>3. At(saved.changes, x) = IF x = l THEN left ELSE h[x]
      BY <3>1, <1>13
    <3> HIDE DEF h, f, p, L
    <3>4. QED
      BY <3>1, <3>2, <3>3, <2>2, <2>3, <2>4
  <2>7. Closed(f, h, Leaves(h, 0), l, r)
    BY <2>6 DEF Closed
  <2>8. ListOf(f)
    <3> HIDE DEF h, f, p, L
    <3>1. QED
      BY <2>2, <2>7, <1>8, <1>11, <1>14, ListJoins
  <2>9. QED
    BY <2>8, <1>3
<1>15. CASE IsInner(h[l])
  <2>1. linked = saved
    BY <1>2, <1>15 DEF IsInner
  <2>2. \A x \in L : f[x] = h[x]
    <3>1. \A x \in L : x \notin {l, r}
      BY <1>9, <1>10, <1>15 DEF IsInner
    <3>2. QED
      BY <3>1, <2>1, <1>4, <1>10, <1>12, <1>13
  <2>3. ListOf(f)
    <3>1. \A x \in Leaves(h, 0) : f[x].next = h[x].next /\ f[x].prev = h[x].prev
      BY <2>2
    <3>2. IsInner(h[l])
      BY <1>15
    <3> HIDE DEF h, f, p, L
    <3>3. QED
      BY <3>1, <3>2, <1>8, <1>11, ListKeptByJoin
  <2>4. QED
    BY <2>3, <1>3
<1>16. QED
  BY <1>9, <1>14, <1>15 DEF IsInner

LEMMA ShortageKeepsList ==
    ASSUME NEW m, NEW ids \in Int, NEW values \in Int, ids >= 1,
           MemoryOK(m, ids, values), Known(m) = 0 .. ids - 1,
           NEW q, q # <<>>, NEW key \in Int, NEW E, TreeAt(HeapOf(m, ids), q, 1, 0, key, E),
           NEW parent, IsParent(parent, HeapOf(m, ids), q, ids, values),
           Size(HeapOf(m, ids)[Cur(q)]) + 1 = NodeSize,
           NEW result, result = NormalizeNodeShortage(m, parent, q[Len(q)].index),
           ListOf(HeapOf(m, ids)),
           HeapOf(m, ids)[Cur(q)].leaf => Siblings(HeapOf(m, ids), parent.id)
    PROVE  ListOf(HeapOf(result.memory, ids)) /\ IsInner(result.parent)
<1> DEFINE i == q[Len(q)].index
           s == IF i = 1 THEN 2 ELSE i
           oldL == GetNode(m, parent.ptrs[s - 1])
           oldR == GetNode(m, parent.ptrs[s])
           left == Join(oldL, oldR)
           shrunk == DeleteKey(SetChild(parent, s, left.id), s - 1)
           m1 == Buffered(Buffered(m, parent.ptrs[s - 1]), parent.ptrs[s])
           pair == Split(left, left.id, oldR.id)
           balanced == UpdateKey(parent, s - 1, GetMax(pair[1]))
           saved == SaveNode(SaveNode(m1, left), oldR)
           linked == IF left.leaf THEN InsertIntoList(saved, left) ELSE saved
<1>1. result = IF NeedsTwo(left)
               THEN [parent |-> balanced,
                     memory |-> SaveNode(SavePair(m1, pair), balanced)]
               ELSE [parent |-> shrunk,
                     memory |-> SaveNode(DelNode(linked, oldR), shrunk)]
  BY DEF NormalizeNodeShortage
<1>2. /\ s - 1 \in 1 .. Kids(parent)
      /\ Short(parent, m, HeapOf(m, ids), q, s - 1, Kid(parent, s - 1), Kid(parent, s),
               oldL, oldR, left, shrunk, m1, ids, values)
  <2>1. ShapeAt(HeapOf(m, ids), q, 1, 0)
    BY TreeHasShape
  <2>2. /\ s = IF i = 1 THEN 2 ELSE i
        /\ oldL = GetNode(m, parent.ptrs[s - 1]) /\ oldR = GetNode(m, parent.ptrs[s])
        /\ left = Join(oldL, oldR)
        /\ shrunk = DeleteKey(SetChild(parent, s, left.id), s - 1)
        /\ m1 = Buffered(Buffered(m, parent.ptrs[s - 1]), parent.ptrs[s])
    OBVIOUS
  <2> HIDE DEF s, oldL, oldR, left, shrunk, m1
  <2>3. s = IF q[Len(q)].index = 1 THEN 2 ELSE q[Len(q)].index
    BY <2>2
  <2> HIDE DEF i
  <2>4. /\ s - 1 \in 1 .. Kids(parent) /\ s \in 1 .. Kids(parent)
        /\ Short(parent, m, HeapOf(m, ids), q, s - 1, Kid(parent, s - 1), Kid(parent, s),
                 oldL, oldR, left, shrunk, m1, ids, values)
    BY <2>1, <2>2, <2>3, ShortProperties
  <2>5. QED
    BY <2>4
<1>3. /\ ParentIn(parent, m, HeapOf(m, ids), q, i, Cur(q), ids, values)
      /\ NodeOK(parent, ids, values) /\ IsRefreshed(parent, HeapOf(m, ids), q)
  <2>1. ShapeAt(HeapOf(m, ids), q, 1, 0)
    BY TreeHasShape
  <2>2. QED
    BY <2>1, ParentProperties, 0 \in Nat, 1 \in Nat DEF IsParent
<1>4. pair = Split(left, left.id, oldR.id)
      /\ balanced = UpdateKey(parent, s - 1, GetMax(pair[1]))
      /\ saved = SaveNode(SaveNode(m1, left), oldR)
      /\ linked = IF left.leaf THEN InsertIntoList(saved, left) ELSE saved
  OBVIOUS
<1> HIDE DEF s, oldL, oldR, left, shrunk, m1, pair, balanced, saved, linked
<1>5. CASE NeedsTwo(left)
  <2>1. /\ ListOf(HeapOf(SaveNode(SavePair(m1, pair), balanced), ids))
        /\ IsInner(balanced)
    BY <1>2, <1>3, <1>4, <1>5, BalanceKeepsList
  <2>2. QED
    BY <2>1, <1>1, <1>5
<1>6. CASE ~NeedsTwo(left)
  <2>1. /\ ListOf(HeapOf(SaveNode(DelNode(linked, oldR), shrunk), ids))
        /\ IsInner(shrunk)
    BY <1>2, <1>3, <1>4, <1>6, JoinKeepsList
  <2>2. QED
    BY <2>1, <1>1, <1>6
<1>7. QED
  BY <1>5, <1>6

-------------------------------------------------------------------------------
(* The list of the leaves: they are linked in the order of their keys, and on *)
(* the way up a leaf at work is linked to the other children of its parent.   *)

SiblingsAt(h, q) == q # <<>> /\ h[Cur(q)].leaf => Siblings(h, q[Len(q)].node.id)

ListInv == ListOf(Heap) /\ (pc = "up" => SiblingsAt(Heap, path))

ListShape == ShapeInv /\ ListInv

\* The caller returns an inner node.
LEMMA AscendList ==
    ASSUME ShapeInv, pc = "up", path # <<>>, NEW parent, NEW m, NEW E, Ascend(parent, m),
           IsInner(parent), ListOf(HeapOf(m, nextNodeId')),
           Ascended(parent, m, path, nextNodeId', nextValueId, Less, More, call.key, E)
    PROVE  ListInv'
<1>1. /\ Remember(m) /\ path' = Front(path) /\ nodeStorage' = nodeStorage /\ root' = root
      /\ pc' = pc
  BY DEF Ascend, storages, client
<1>2. Heap' = HeapOf(m, nextNodeId')
  BY <1>1 DEF Heap, HeapOf, Ids, At, Remember
<1>3. Heap'[Cur(path')] = parent
  <2>1. Cur(path') \in 0 .. nextNodeId' - 1 /\ At(m.changes, Cur(path')) = parent
    BY <1>1 DEF Ascended, Known
  <2>2. QED
    BY <2>1, <1>2 DEF HeapOf
<1>4. SiblingsAt(Heap', path')
  BY <1>3 DEF SiblingsAt, IsInner
<1>5. QED
  BY <1>2, <1>4 DEF ListInv

LEMMA SetOverflowList ==
    ASSUME ListShape, SetOverflow
    PROVE  ListInv'
<1> DEFINE m == AfterRead
           result == NormalizeNodeOverflow(m, Parent, Frame.index)
<1>1. /\ pc = "up" /\ path # <<>> /\ call.op = "set" /\ ~ChildFits
      /\ Ascend(result.parent, result.memory) /\ nextNodeId' = nextNodeId + 1
      /\ ShapeInv /\ ListInv
  BY DEF SetOverflow, ListShape
<1>2. Caller(m)
  BY <1>1, CallerProperties
<1>3. Less = 0 /\ More = 1
  BY <1>1 DEF Less, More
<1> HIDE DEF m
<1>4. result = NormalizeNodeOverflow(m, Parent, path[Len(path)].index)
  BY <1>2 DEF Caller
<1> HIDE DEF result
<1>5. /\ IsParent(Parent, HeapOf(m, nextNodeId), path, nextNodeId, nextValueId)
      /\ MemoryOK(m, nextNodeId, nextValueId) /\ Known(m) = 0 .. nextNodeId - 1
      /\ Heap = HeapOf(m, nextNodeId) /\ call.key \in Int
      /\ nextNodeId \in Int /\ nextNodeId >= 1 /\ nextValueId \in Int /\ nextNodeId \in Nat
  BY <1>2, <1>3 DEF Caller
<1>6. Size(HeapOf(m, nextNodeId)[Cur(path)]) = 2 * NodeSize
  <2>1. Size(Child) = NodeSize * 2
    BY <1>1 DEF ChildFits
  <2>2. QED
    BY <2>1, <1>2, NodeSizeAssumption DEF Caller
<1>7. PICK E : TreeOf(E)
  BY <1>1 DEF ShapeInv, PairsMatch
<1>8. TreeAt(HeapOf(m, nextNodeId), path, 0, 1, call.key, E)
  BY <1>1, <1>3, <1>5, <1>7 DEF TreeOf
<1>9. Ascended(result.parent, result.memory, path, nextNodeId + 1, nextValueId, 0, 1,
               call.key, E)
  BY <1>8, <1>1, <1>4, <1>5, <1>6, OverflowStep
<1>10. ListOf(HeapOf(m, nextNodeId))
  BY <1>1, <1>5 DEF ListInv
<1>11. ListOf(HeapOf(result.memory, nextNodeId + 1)) /\ IsInner(result.parent)
  BY <1>8, <1>10, <1>1, <1>4, <1>5, <1>6, OverflowKeepsList
<1>12. QED
  BY <1>1, <1>3, <1>9, <1>11, AscendList

LEMMA DelShortageList ==
    ASSUME ListShape, DelShortage
    PROVE  ListInv'
<1> DEFINE m == AfterRead
           result == NormalizeNodeShortage(m, Parent, Frame.index)
<1>1. /\ pc = "up" /\ path # <<>> /\ call.op = "del" /\ ~ChildFits
      /\ Ascend(result.parent, result.memory) /\ nextNodeId' = nextNodeId
      /\ ShapeInv /\ ListInv
  BY DEF DelShortage, ListShape
<1>2. Caller(m)
  BY <1>1, CallerProperties
<1>3. Less = 1 /\ More = 0
  BY <1>1 DEF Less, More
<1> HIDE DEF m
<1>4. result = NormalizeNodeShortage(m, Parent, path[Len(path)].index)
  BY <1>2 DEF Caller
<1> HIDE DEF result
<1>5. /\ IsParent(Parent, HeapOf(m, nextNodeId), path, nextNodeId, nextValueId)
      /\ MemoryOK(m, nextNodeId, nextValueId) /\ Known(m) = 0 .. nextNodeId - 1
      /\ Heap = HeapOf(m, nextNodeId) /\ call.key \in Int
      /\ nextNodeId \in Int /\ nextNodeId >= 1 /\ nextValueId \in Int /\ nextNodeId \in Nat
  BY <1>2, <1>3 DEF Caller
<1>6. Size(HeapOf(m, nextNodeId)[Cur(path)]) + 1 = NodeSize
  <2>1. Size(Child) + 1 = NodeSize
    BY <1>1 DEF ChildFits
  <2>2. QED
    BY <2>1, <1>2 DEF Caller
<1>7. PICK E : TreeOf(E)
  BY <1>1 DEF ShapeInv, PairsMatch
<1>8. TreeAt(HeapOf(m, nextNodeId), path, 1, 0, call.key, E)
  BY <1>1, <1>3, <1>5, <1>7 DEF TreeOf
<1>9. Ascended(result.parent, result.memory, path, nextNodeId, nextValueId, 1, 0,
               call.key, E)
  BY <1>8, <1>1, <1>4, <1>5, <1>6, ShortageStep
<1>10. /\ ListOf(HeapOf(m, nextNodeId))
       /\ HeapOf(m, nextNodeId)[Cur(path)].leaf => Siblings(HeapOf(m, nextNodeId), Parent.id)
  <2>1. Parent.id = path[Len(path)].node.id
    BY <1>5 DEF IsParent
  <2>2. QED
    BY <2>1, <1>1, <1>5 DEF ListInv, SiblingsAt
<1>11. ListOf(HeapOf(result.memory, nextNodeId)) /\ IsInner(result.parent)
  BY <1>8, <1>10, <1>1, <1>4, <1>5, <1>6, ShortageKeepsList
<1>12. QED
  BY <1>1, <1>3, <1>9, <1>11, AscendList

-------------------------------------------------------------------------------
(* The same leaves in another tree. *)

LEMMA ListMoved ==
    ASSUME NEW h, NEW live, NEW height, NEW q, NEW less \in {0, 1}, NEW more,
           ShapeOn(h, live, height, q, less, more), Finite(h), ListOf(h),
           NEW g, NEW live2, NEW height2, NEW q2, NEW less2 \in {0, 1}, NEW more2,
           ShapeOn(g, live2, height2, q2, less2, more2), Finite(g),
           LeavesIn(g, live2) = LeavesIn(h, live),
           \A x \in LeavesIn(h, live) : SameLeaf(g[x], h[x])
    PROVE  ListOf(g)
<1>1. Leaves(h, 0) = LeavesIn(h, live) /\ live \subseteq DOMAIN h
  BY LeavesOfTree DEF Finite
<1>2. Leaves(g, 0) = LeavesIn(g, live2) /\ live2 \subseteq DOMAIN g
  BY LeavesOfTree DEF Finite
<1>3. ListOn(h, LeavesIn(h, live)) /\ LeavesIn(g, live2) \subseteq DOMAIN g
  BY <1>1, <1>2 DEF ListOf, LeavesIn
<1>4. ListOn(g, LeavesIn(h, live))
  BY <1>3, ListKept
<1>5. QED
  BY <1>2, <1>4 DEF ListOf

\* Only inner nodes change, and none of them their children.
LEMMA ListStays ==
    ASSUME NEW h, NEW q, NEW less \in {0, 1}, NEW more \in Nat, ShapeAt(h, q, less, more),
           Finite(h), ListOf(h), NEW g, DOMAIN g = DOMAIN h, Finite(g),
           \A x \in DOMAIN h : SameCore(g[x], h[x]),
           \A x \in DOMAIN h : h[x].leaf => SameLeaf(g[x], h[x])
    PROVE  ListOf(g)
<1>1. PICK live, height : ShapeOn(h, live, height, q, less, more)
  BY DEF ShapeAt
<1>2. less \in Nat
  OBVIOUS
<1>3. ShapeOn(g, live, height, q, less, more)
  BY <1>1, <1>2, SameTree
<1>4. live \subseteq DOMAIN h
  BY <1>1, LeavesOfTree DEF Finite
<1>5. LeavesIn(g, live) = LeavesIn(h, live)
  BY <1>4 DEF SameCore, LeavesIn
<1>6. \A x \in LeavesIn(h, live) : SameLeaf(g[x], h[x])
  BY <1>4 DEF LeavesIn
<1>7. QED
  BY <1>1, <1>3, <1>5, <1>6, ListMoved

LEMMA AscendPlainList ==
    ASSUME ListShape, AscendPlain
    PROVE  ListInv'
<1> DEFINE m == AfterRead
           saved == SaveNode(m, Parent)
           h == HeapOf(m, nextNodeId)
           g == HeapOf(saved, nextNodeId)
<1>1. /\ pc = "up" /\ path # <<>> /\ ChildFits /\ Ascend(Parent, saved)
      /\ nextNodeId' = nextNodeId /\ ShapeInv /\ ListInv
  BY DEF AscendPlain, ListShape
<1>2. Caller(m)
  BY <1>1, CallerProperties
<1> HIDE DEF m
<1>3. /\ IsParent(Parent, h, path, nextNodeId, nextValueId)
      /\ Parent.id \in 0 .. nextNodeId - 1 /\ Cur(Front(path)) = Parent.id
      /\ MemoryOK(m, nextNodeId, nextValueId) /\ Known(m) = 0 .. nextNodeId - 1
      /\ ShapeAt(h, path, Less, More) /\ Heap = h
      /\ nextNodeId \in Int /\ nextNodeId >= 1 /\ nextValueId \in Int
      /\ nextNodeId \in Nat /\ Less \in Nat /\ More \in Nat /\ call.key \in Int
  BY <1>2 DEF Caller
<1>4. /\ NodeOK(Parent, nextNodeId, nextValueId)
      /\ ParentIn(Parent, m, h, path, path[Len(path)].index, Cur(path), nextNodeId, nextValueId)
  BY <1>1, <1>3, ParentProperties DEF IsParent
<1>5. Saved(saved, m, Parent, nextNodeId, nextValueId)
  BY <1>3, <1>4, SaveNodeOK
<1> HIDE DEF saved
<1>6. /\ MemoryOK(saved, nextNodeId, nextValueId) /\ Known(saved) = 0 .. nextNodeId - 1
      /\ Cur(Front(path)) \in DOMAIN saved.changes
      /\ At(saved.changes, Cur(Front(path))) = Parent
  BY <1>3, <1>5 DEF Saved
<1>7. /\ DOMAIN g = DOMAIN h /\ g[Parent.id] = Parent
      /\ \A x \in DOMAIN h \ {Parent.id} : g[x] = h[x]
  <2>1. \A x \in 0 .. nextNodeId - 1 :
            g[x] = IF x = Parent.id THEN Parent ELSE h[x]
    BY <1>5 DEF Saved, HeapOf
  <2>2. DOMAIN g = 0 .. nextNodeId - 1 /\ DOMAIN h = 0 .. nextNodeId - 1
    BY DEF HeapOf
  <2> HIDE DEF g, h
  <2>3. QED
    BY <2>1, <2>2, <1>3
<1>8. Finite(h) /\ Finite(g)
  BY <1>3, <1>6, HeapFinite
<1>9. /\ Parent.id \in DOMAIN h /\ SameCore(Parent, h[Parent.id])
      /\ IsInner(Parent) /\ IsInner(h[Parent.id])
  BY <1>4 DEF ParentIn, IsInner
<1>10. ListOf(g)
  <2>1. Less \in {0, 1}
    BY DEF Less
  <2>2. ListOf(h)
    BY <1>1, <1>3 DEF ListInv
  <2> HIDE DEF g, h
  <2>3. \A x \in DOMAIN h : SameCore(g[x], h[x])
    BY <1>7, <1>9 DEF SameCore
  <2>4. \A x \in DOMAIN h : h[x].leaf => SameLeaf(g[x], h[x])
    BY <1>7, <1>9, SameBodyOfItself DEF SameLeaf, IsInner
  <2>5. QED
    BY <2>1, <2>2, <2>3, <2>4, <1>3, <1>7, <1>8, ListStays
<1>11. Heap' = g /\ pc' = "up" /\ path' = Front(path)
  <2>1. /\ Remember(saved) /\ path' = Front(path) /\ nodeStorage' = nodeStorage
        /\ root' = root /\ pc' = pc
    BY <1>1 DEF Ascend, storages, client
  <2>2. QED
    BY <2>1, <1>1 DEF Heap, HeapOf, Ids, At, Remember
<1>12. SiblingsAt(Heap', path')
  <2>1. Heap'[Cur(path')] = Parent
    BY <1>3, <1>7, <1>11
  <2>2. QED
    BY <2>1, <1>9 DEF SiblingsAt, IsInner
<1>13. QED
  BY <1>10, <1>11, <1>12 DEF ListInv

-------------------------------------------------------------------------------
(* The way up starts at a leaf. *)

\* The keys of node a are above its bound.
Spread(h, low, a) ==
    /\ low[a] \in Int /\ Key(h[a], 1) \in Int /\ Most(h[a]) \in Int
    /\ low[a] < Key(h[a], 1) /\ Key(h[a], 1) <= Most(h[a])

LEMMA NodeSpreads ==
    ASSUME NEW h, NEW live, NEW height, NEW up, NEW pos, Linked(h, live, height, up, pos),
           NEW c, Sizes(h, live, c, 0, 0), NEW low, Order(h, live, low, 0), NEW a \in live \ {0}
    PROVE  Spread(h, low, a)
<1>1. a \in DOMAIN h /\ Rising(h[a], low[a])
  BY DEF Linked, Order, Ordered
<1>2. Kids(h[a]) = Size(h[a]) /\ Size(h[a]) \in Nat /\ Size(h[a]) >= NodeSize
  BY <1>1 DEF Sizes, Least
<1>3. Kids(h[a]) # 0 /\ Kids(h[a]) \in Nat
  BY <1>2, NodeSizeAssumption
<1>4. QED
  BY <1>1, <1>3, EndsOfNode DEF Spread

\* Where there is more than one leaf, the root is none.
LEMMA LeafBelowRoot ==
    ASSUME NEW h, NEW live, NEW height, NEW up, NEW pos, Linked(h, live, height, up, pos),
           NEW a \in live, h[a].leaf, NEW d \in live, h[d].leaf, a # d
    PROVE  a # 0 /\ d # 0 /\ height[a] = 0 /\ height[d] = 0
<1>1. height[a] = 0 /\ height[d] = 0
  BY DEF Linked, LinkedAt
<1>2. \A x \in live : x # 0 => height[x] < height[0] /\ height[x] \in Nat
  BY DEF Linked, Hung
<1>3. QED
  BY <1>1, <1>2

\* Between two children of p there is no other leaf.
LEMMA NoneBetween ==
    ASSUME NEW h, NEW live, NEW height, NEW up, NEW pos, Linked(h, live, height, up, pos),
           NEW c, Sizes(h, live, c, 0, 0), NEW low, Order(h, live, low, 0),
           NEW p \in live, NEW l \in live \ {0}, NEW r \in live \ {0}, NEW n \in live \ {0},
           height[l] = 0, height[r] = 0, height[n] = 0,
           up[l] = p, up[r] = p, pos[r] = pos[l] + 1, n # l, n # r
    PROVE  Most(h[n]) < Key(h[l], 1) \/ Most(h[r]) < Key(h[n], 1)
<1>1. /\ height \in [Int -> Nat] /\ live \subseteq Int /\ pos \in [Int -> Int]
  BY DEF Linked
<1>2. /\ pos[l] \in 1 .. Kids(h[p]) /\ Kid(h[p], pos[l]) = l
      /\ low[p] <= low[l] /\ low[p] \in Int
      /\ \A j \in 1 .. Kids(h[p]) : j < pos[l] => Key(h[p], j) <= low[l]
      /\ height[l] + 1 = height[p]
  BY ChildBelow
<1>3. /\ pos[r] \in 1 .. Kids(h[p]) /\ Kid(h[p], pos[r]) = r
      /\ Most(h[r]) = Key(h[p], pos[r]) /\ Most(h[r]) <= Most(h[p]) /\ Most(h[p]) \in Int
  BY ChildBelow
<1>4. /\ up[n] \in live /\ height[n] + 1 = height[up[n]]
      /\ pos[n] \in 1 .. Kids(h[up[n]]) /\ Kid(h[up[n]], pos[n]) = n
      /\ Most(h[n]) = Key(h[up[n]], pos[n])
      /\ Most(h[n]) <= Most(h[up[n]]) /\ low[up[n]] <= low[n]
      /\ low[up[n]] \in Int /\ Most(h[up[n]]) \in Int
      /\ \A j \in 1 .. Kids(h[up[n]]) : j < pos[n] => Key(h[up[n]], j) <= low[n]
  BY ChildBelow
<1>5. Spread(h, low, l) /\ Spread(h, low, r) /\ Spread(h, low, n)
  BY NodeSpreads
<1>6. CASE up[n] = p
  <2>1. pos[n] # pos[l] /\ pos[n] # pos[r]
    BY <1>2, <1>3, <1>4, <1>6
  <2>2. pos[n] < pos[l] \/ pos[r] < pos[n]
    BY <2>1, <1>1
  <2>3. CASE pos[n] < pos[l]
    <3>1. Most(h[n]) <= low[l]
      BY <2>3, <1>2, <1>4, <1>6
    <3>2. QED
      BY <3>1, <1>5 DEF Spread
  <2>4. CASE pos[r] < pos[n]
    <3>1. Most(h[r]) <= low[n]
      BY <2>4, <1>3, <1>4, <1>6
    <3>2. QED
      BY <3>1, <1>5 DEF Spread
  <2>5. QED
    BY <2>2, <2>3, <2>4
<1>7. CASE up[n] # p
  <2>1. Apart(h, low, p, up[n])
    <3>1. height[p] = height[up[n]]
      BY <1>2, <1>4
    <3>2. QED
      BY <3>1, <1>4, <1>7, RowsApart
  <2>2. CASE Most(h[p]) <= low[up[n]]
    BY <2>2, <1>3, <1>4, <1>5 DEF Spread
  <2>3. CASE Most(h[up[n]]) <= low[p]
    BY <2>3, <1>2, <1>4, <1>5 DEF Spread
  <2>4. QED
    BY <2>1, <2>2, <2>3 DEF Apart
<1>8. QED
  BY <1>6, <1>7

\* The list links the children of the caller, which are leaves, in their order.
LEMMA LeafSiblings ==
    ASSUME NEW h, NEW live, NEW height, NEW q, ShapeOn(h, live, height, q, 0, 0),
           NEW low, Order(h, live, low, 0), q # <<>>, NEW c, c = Cur(q), h[c].leaf,
           Finite(h), ListOf(h), NEW p, p = q[Len(q)].node.id
    PROVE  Siblings(h, p)
<1>1. PICK up, pos : /\ Linked(h, live, height, up, pos) /\ Chain(q, h, live, height)
                     /\ Sizes(h, live, c, 0, 0)
  BY DEF ShapeOn
<1>2. LastFrame(h, q, live, height, up, pos, p, q[Len(q)].index, c)
  BY <1>1, LastFrameProperties
<1>3. /\ p \in live /\ h[p].leaf = FALSE /\ Kids(h[p]) \in Nat /\ c \in live
      /\ height[c] + 1 = height[p]
      /\ \A j \in 1 .. Kids(h[p]) : /\ Kid(h[p], j) \in live \ {0}
                                    /\ height[Kid(h[p], j)] + 1 = height[p]
                                    /\ up[Kid(h[p], j)] = p /\ pos[Kid(h[p], j)] = j
  BY <1>2 DEF LastFrame
<1>4. height \in [Int -> Nat] /\ live \subseteq Int /\ height[c] = 0
      /\ \A a \in live : (h[a].leaf <=> height[a] = 0)
  BY <1>1, <1>3 DEF Linked, LinkedAt
<1> DEFINE L == LeavesIn(h, live)
<1>5. ListOn(h, L) /\ L \subseteq DOMAIN h
  <2>1. Leaves(h, 0) = L /\ live \subseteq DOMAIN h
    BY LeavesOfTree, 0 \in {0, 1} DEF Finite
  <2>2. QED
    BY <2>1 DEF ListOf, LeavesIn
<1>6. Threaded(L, Nexts(h), Prevs(h), Firsts(h), Mosts(h))
  BY <1>5 DEF ListOn
<1>7. ASSUME NEW j \in 1 .. Kids(h[p]) - 1
      PROVE  h[Kid(h[p], j)].next = Kid(h[p], j + 1)
  <2> DEFINE l == Kid(h[p], j)
             r == Kid(h[p], j + 1)
             n == h[l].next
  <2>1. j \in 1 .. Kids(h[p]) /\ j + 1 \in 1 .. Kids(h[p])
    BY <1>3
  <2>2. /\ l \in live \ {0} /\ r \in live \ {0} /\ height[l] + 1 = height[p]
        /\ height[r] + 1 = height[p]
        /\ up[l] = p /\ up[r] = p /\ pos[l] = j /\ pos[r] = j + 1
    BY <1>3, <2>1
  <2>3. height[l] = 0 /\ height[r] = 0 /\ pos[r] = pos[l] + 1 /\ l # r
    <3> HIDE DEF l, r
    <3>1. l \in live /\ r \in live
      BY <2>2
    <3>2. l \in Int /\ r \in Int /\ j # j + 1
      BY <3>1, <1>4
    <3>3. height[l] \in Nat /\ height[r] \in Nat
      BY <3>2, <1>4
    <3>4. height[p] = 1
      <4>1. height[c] + 1 = height[p]
        BY <1>3
      <4>2. height[c] = 0
        BY <1>4
      <4>3. QED
        BY <4>1, <4>2
    <3>5. height[l] = 0 /\ height[r] = 0
      BY <3>3, <3>4, <2>2
    <3>6. pos[r] = pos[l] + 1 /\ pos[r] # pos[l]
      BY <3>2, <2>2
    <3>7. QED
      BY <3>5, <3>6
  <2>4. l \in L /\ r \in L
    BY <2>2, <2>3, <1>4 DEF LeavesIn
  <2>5. NextIsNext(l, L, Nexts(h), Prevs(h), Firsts(h), Mosts(h))
    BY <1>6, <2>4 DEF Threaded
  <2>6. Nexts(h)[l] = n
    BY <1>5, <2>4 DEF Nexts
  <2>7. \A a \in L : Firsts(h)[a] = Key(h[a], 1) /\ Mosts(h)[a] = Most(h[a])
    BY <1>5 DEF Firsts, Mosts
  <2>8. Most(h[l]) < Key(h[r], 1)
    <3>1. /\ Most(h[l]) = Key(h[p], pos[l]) /\ pos[l] \in 1 .. Kids(h[p])
      BY <1>1, <2>2, ChildBelow
    <3>2. \A i \in 1 .. Kids(h[p]) : i < pos[r] => Key(h[p], i) <= low[r]
      BY <1>1, <2>2, ChildBelow
    <3>3. pos[l] < pos[r]
      BY <2>2, <2>1
    <3>4. Most(h[l]) <= low[r]
      BY <3>1, <3>2, <3>3
    <3>5. Spread(h, low, r) /\ Spread(h, low, l)
      BY <1>1, <2>2, NodeSpreads
    <3>6. QED
      BY <3>4, <3>5 DEF Spread
  <2>9. Spread(h, low, l) /\ Spread(h, low, r)
    BY <1>1, <2>2, NodeSpreads
  <2> HIDE DEF l, r, n, L
  <2>10. ~(Most(h[r]) < Key(h[l], 1))
    BY <2>8, <2>9 DEF Spread
  <2>11. n # Nil
    <3>1. ASSUME n = Nil PROVE Before(r, l, Firsts(h), Mosts(h))
      BY <3>1, <2>3, <2>4, <2>5, <2>6 DEF NextIsNext
    <3>2. QED
      BY <3>1, <2>4, <2>7, <2>10 DEF Before
  <2>12. /\ n \in L \ {l} /\ Before(l, n, Firsts(h), Mosts(h))
         /\ \A d \in L \ {l, n} : \/ Before(d, l, Firsts(h), Mosts(h))
                                  \/ Before(n, d, Firsts(h), Mosts(h))
    BY <2>5, <2>6, <2>11 DEF NextIsNext
  <2>13. Most(h[l]) < Key(h[n], 1)
    BY <2>4, <2>7, <2>12 DEF Before
  <2>14. ASSUME n # r PROVE FALSE
    <3>1. Most(h[n]) < Key(h[r], 1)
      BY <2>3, <2>4, <2>7, <2>10, <2>12, <2>14 DEF Before
    <3>2. n \in live /\ n # l /\ h[n].leaf /\ h[l].leaf /\ l \in live
      BY <2>4, <2>12 DEF L, LeavesIn
    <3>3. n # 0 /\ height[n] = 0
      BY <3>2, <1>1, LeafBelowRoot
    <3>4. Most(h[n]) < Key(h[l], 1) \/ Most(h[r]) < Key(h[n], 1)
      BY <3>2, <3>3, <2>2, <2>3, <2>14, <1>1, <1>3, NoneBetween
    <3>5. Spread(h, low, n)
      BY <3>2, <3>3, <1>1, NodeSpreads
    <3>6. QED
      BY <3>1, <3>4, <3>5, <2>9, <2>13 DEF Spread
  <2>15. QED
    BY <2>14 DEF l, r, n
<1>8. QED
  BY <1>7 DEF Siblings

\* The leaf c at work becomes m, which keeps above the bound of c and below the
\* next leaf.
LeafMoves(h, low, q, c, k, m) ==
    /\ Rising(m, low[c]) /\ Kids(m) \in Nat
    /\ m.next = h[c].next /\ m.prev = h[c].prev
    /\ q # <<>> => UpTo(Most(m), Most(h[c]), k) /\ Kids(m) # 0

\* So it stays on its side of leaf d.
Beside(m, n, d) ==
    /\ Key(m, 1) \in Int /\ Most(m) \in Int /\ Key(m, 1) <= Most(m)
    /\ Most(d) < Key(n, 1) => Most(d) < Key(m, 1)
    /\ Most(n) < Key(d, 1) => Most(m) < Key(d, 1)

LEMMA LeafBeside ==
    ASSUME NEW h, NEW live, NEW height, NEW up, NEW pos, Linked(h, live, height, up, pos),
           NEW low, Order(h, live, low, 0), NEW c \in live, Sizes(h, live, c, 0, 0), h[c].leaf,
           NEW k \in Int, Aim(h, live, height, low, c, k),
           NEW d \in live, h[d].leaf, c # d, NEW m, Rising(m, low[c]), Kids(m) \in Nat,
           UpTo(Most(m), Most(h[c]), k), Kids(m) # 0
    PROVE  Beside(m, h[c], h[d])
<1>1. c # 0 /\ d # 0 /\ height[c] = height[d]
  BY LeafBelowRoot
<1>2. Spread(h, low, c) /\ Spread(h, low, d)
  BY <1>1, NodeSpreads
<1>3. /\ low[c] < Key(m, 1) /\ Key(m, 1) \in Int /\ Most(m) \in Int /\ Key(m, 1) <= Most(m)
  BY EndsOfNode
<1>4. Most(h[c]) <= low[d] \/ Most(h[d]) <= low[c]
  BY <1>1, RowsApart DEF Apart
<1>5. Most(h[d]) < Key(h[c], 1) => Most(h[d]) < Key(m, 1)
  BY <1>2, <1>3, <1>4 DEF Spread
<1>6. ASSUME Most(h[c]) < Key(h[d], 1) PROVE Most(m) < Key(h[d], 1)
  <2>1. Most(m) <= Most(h[c]) \/ Most(m) = k
    BY DEF UpTo
  <2>2. k <= Most(h[c]) \/ Most(h[d]) <= low[c]
    BY <1>1 DEF Aim
  <2>3. ~(Most(h[d]) <= low[c])
    BY <1>2, <1>6 DEF Spread
  <2>4. QED
    BY <2>1, <2>2, <2>3, <1>2, <1>3, <1>6 DEF Spread
<1>7. QED
  BY <1>3, <1>5, <1>6 DEF Beside

LEMMA LeafKeepsList ==
    ASSUME NEW h, NEW live, NEW height, NEW low, NEW q, NEW k \in Int, NEW E,
           AimedOn(h, live, height, low, q, k, E), NEW c, c = Cur(q),
           NEW g, NEW m, LeafBecomes(h, g, c, m), NEW less \in {0, 1}, NEW more \in Nat,
           LeafResized(m, h[c], less, more), LeafMoves(h, low, q, c, k, m),
           Finite(h), Finite(g), ListOf(h)
    PROVE  ListOf(g) /\ SiblingsAt(g, q)
<1>1. /\ ShapeOn(h, live, height, q, 0, 0) /\ Order(h, live, low, 0)
      /\ Aim(h, live, height, low, c, k)
  BY DEF AimedOn
<1>2. PICK up, pos : /\ Linked(h, live, height, up, pos) /\ Chain(q, h, live, height)
                     /\ Sizes(h, live, c, 0, 0)
  BY <1>1 DEF ShapeOn
<1>3. c \in live
  BY <1>2, CurLives
<1>4. /\ DOMAIN g = DOMAIN h /\ m = g[c] /\ m.leaf /\ h[c].leaf
      /\ \A x \in DOMAIN h : x # c => g[x] = h[x]
      /\ live \subseteq DOMAIN h
  BY <1>2 DEF LeafBecomes, Linked, LeafResized
<1>5. ShapeOn(g, live, height, q, less, more)
  <2>1. less \in Nat
    OBVIOUS
  <2>2. QED
    BY <2>1, <1>1, <1>4, LeafTree
<1> DEFINE L == LeavesIn(h, live)
<1>6. Leaves(h, 0) = L
  BY <1>1, LeavesOfTree, 0 \in {0, 1} DEF Finite
<1>7. Leaves(g, 0) = L
  <2>1. Leaves(g, 0) = LeavesIn(g, live)
    BY <1>5, LeavesOfTree DEF Finite
  <2>2. \A a \in live : g[a].leaf <=> h[a].leaf
    BY <1>3, <1>4
  <2>3. QED
    BY <2>1, <2>2 DEF LeavesIn
<1>8. L \subseteq DOMAIN h /\ c \in L
  BY <1>3, <1>4 DEF LeavesIn
<1>9. /\ Threaded(L, Nexts(h), Prevs(h), Firsts(h), Mosts(h))
  BY <1>6 DEF ListOf, ListOn
<1>10. \A a \in L : Nexts(g)[a] = Nexts(h)[a] /\ Prevs(g)[a] = Prevs(h)[a]
  BY <1>4, <1>8 DEF Nexts, Prevs, LeafMoves
<1>11. \A a \in L \ {c} : Firsts(g)[a] = Firsts(h)[a] /\ Mosts(g)[a] = Mosts(h)[a]
  BY <1>4, <1>8 DEF Firsts, Mosts
<1>12. /\ \A a \in L : Firsts(h)[a] = Key(h[a], 1) /\ Mosts(h)[a] = Most(h[a])
       /\ Firsts(g)[c] = Key(m, 1) /\ Mosts(g)[c] = Most(m)
  BY <1>4, <1>8 DEF Firsts, Mosts
<1>13. ASSUME NEW d \in L \ {c} PROVE Beside(m, h[c], h[d])
  <2>1. d \in live /\ h[d].leaf /\ c # d
    BY DEF LeavesIn
  <2>2. c # 0
    BY <2>1, <1>2, <1>3, <1>4, LeafBelowRoot
  <2>3. /\ Rising(m, low[c]) /\ Kids(m) \in Nat
        /\ UpTo(Most(m), Most(h[c]), k) /\ Kids(m) # 0
    BY <2>2 DEF LeafMoves, Cur
  <2>4. QED
    BY <2>1, <2>3, <1>1, <1>2, <1>3, <1>4, LeafBeside
<1>14. KeysMove(L, c, Firsts(h), Mosts(h), Firsts(g), Mosts(g))
  <2> HIDE DEF L
  <2>1. L # {c} => /\ Firsts(g)[c] \in Int /\ Mosts(g)[c] \in Int
                   /\ Firsts(g)[c] <= Mosts(g)[c]
    BY <1>8, <1>12, <1>13 DEF Beside
  <2>2. \A d \in L \ {c} :
            /\ Before(d, c, Firsts(h), Mosts(h)) => Before(d, c, Firsts(g), Mosts(g))
            /\ Before(c, d, Firsts(h), Mosts(h)) => Before(c, d, Firsts(g), Mosts(g))
    BY <1>8, <1>11, <1>12, <1>13 DEF Beside, Before
  <2>3. QED
    BY <2>1, <2>2, <1>8, <1>11 DEF KeysMove
<1>15. Threaded(L, Nexts(g), Prevs(g), Firsts(g), Mosts(g))
  <2> DEFINE nx == Nexts(h)  pv == Prevs(h)  lo == Firsts(g)  hi == Mosts(g)
             nx2 == Nexts(g)  pv2 == Prevs(g)
  <2>1. Threaded(L, nx, pv, lo, hi)
    BY <1>9, <1>14, ThreadMoves
  <2>2. \A a \in L : nx2[a] = nx[a] /\ pv2[a] = pv[a] /\ lo[a] = lo[a] /\ hi[a] = hi[a]
    BY <1>10
  <2> HIDE DEF nx, pv, lo, hi, nx2, pv2, L
  <2>3. Threaded(L, nx2, pv2, lo, hi)
    BY <2>1, <2>2, ThreadKept
  <2>4. QED
    BY <2>3 DEF nx2, pv2, lo, hi
<1>16. ListOf(g)
  BY <1>4, <1>7, <1>8, <1>15 DEF ListOf, ListOn
<1>17. ASSUME q # <<>> PROVE Siblings(g, q[Len(q)].node.id)
  <2> DEFINE p == q[Len(q)].node.id
  <2>1. Siblings(h, p)
    BY <1>1, <1>4, <1>17, LeafSiblings
  <2>2. LastFrame(h, q, live, height, up, pos, p, q[Len(q)].index, c)
    BY <1>2, <1>17, LastFrameProperties
  <2>3. /\ p \in live /\ h[p].leaf = FALSE /\ Kids(h[p]) \in Nat
        /\ \A j \in 1 .. Kids(h[p]) : Kid(h[p], j) \in live
    BY <2>2 DEF LastFrame
  <2> HIDE DEF p
  <2>4. p # c /\ g[p] = h[p]
    BY <2>3, <1>4
  <2>5. \A x \in live : g[x].next = h[x].next
    BY <1>4 DEF LeafMoves
  <2>6. \A j \in 1 .. Kids(h[p]) - 1 : j \in 1 .. Kids(h[p])
    BY <2>3
  <2>7. Siblings(g, p)
    BY <2>1, <2>3, <2>4, <2>5, <2>6 DEF Siblings
  <2>8. QED
    BY <2>7 DEF p
<1>18. QED
  BY <1>16, <1>17 DEF SiblingsAt

SameLinks(m, n) == m.next = n.next /\ m.prev = n.prev

LEMMA LeafAddsKey ==
    ASSUME NEW h, NEW q, NEW k \in Int, NEW E, AimedAt(h, q, k, E), NEW c, c = Cur(q),
           NEW g, NEW m, LeafBecomes(h, g, c, m), LeafResized(m, h[c], 0, 1),
           NEW i, NEW v, LeafAdds(h[c], m, k, i, v), SameLinks(m, h[c]),
           Finite(h), Finite(g), ListOf(h)
    PROVE  ListOf(g) /\ SiblingsAt(g, q)
<1> DEFINE n == h[c]
<1>1. PICK live, height, low : AimedOn(h, live, height, low, q, k, E)
  BY DEF AimedAt
<1>2. n.leaf
  BY DEF LeafResized
<1>3. AtLeaf(h, live, low, q, c, k, E)
  BY <1>1, <1>2, LeafFinds
<1>4. /\ E = EntriesAt(h, live \ {c}) \cup PairsOf(n)
      /\ Rising(n, low[c]) /\ low[c] < k /\ Kids(n) \in Nat
  BY <1>3 DEF AtLeaf
<1>5. \A e \in E : e[1] # k
  BY AddInOrder
<1>6. \A j \in 1 .. Kids(n) : Key(n, j) # k
  <2>1. \A e \in PairsOf(n) : e[1] # k
    <3>1. PairsOf(n) \subseteq E
      BY <1>4
    <3> HIDE DEF n
    <3>2. QED
      BY <3>1, <1>5
  <2> HIDE DEF n
  <2>2. ASSUME NEW j \in 1 .. Kids(n) PROVE Key(n, j) # k
    <3> DEFINE e == <<Key(n, j), Kid(n, j)>>
    <3>1. e \in PairsOf(n) /\ e[1] = Key(n, j)
      BY DEF PairsOf
    <3>2. QED
      BY <3>1, <2>1
  <2>3. QED
    BY <2>2
<1>7. /\ Parts(n, k, i) /\ Grown(m, n, i, v) /\ KeysGrown(m, n, i, k)
  BY DEF LeafAdds
<1> HIDE DEF n
<1>8. Rising(m, low[c]) /\ UpTo(Most(m), Most(n), k)
  BY <1>4, <1>6, <1>7, LeafGrown
<1>9. Kids(m) \in Nat /\ Kids(m) # 0
  <2>1. Kids(m) = Kids(n) + 1
    BY <1>7 DEF Grown
  <2>2. QED
    BY <2>1, <1>4
<1>10. LeafMoves(h, low, q, c, k, m)
  BY <1>8, <1>9 DEF LeafMoves, SameLinks, n
<1>11. QED
  BY <1>1, <1>10, LeafKeepsList, 0 \in {0, 1}, 1 \in Nat

LEMMA LeafDropsKey ==
    ASSUME NEW h, NEW q, NEW k \in Int, NEW E, AimedAt(h, q, k, E), NEW c, c = Cur(q),
           NEW g, NEW m, LeafBecomes(h, g, c, m), LeafResized(m, h[c], 1, 0),
           NEW i \in 1 .. Kids(h[c]), Shrunk(m, h[c], i), KeysShrunk(m, h[c], i),
           SameLinks(m, h[c]), Finite(h), Finite(g), ListOf(h)
    PROVE  ListOf(g) /\ SiblingsAt(g, q)
<1> DEFINE n == h[c]
<1>1. PICK live, height, low : AimedOn(h, live, height, low, q, k, E)
  BY DEF AimedAt
<1>2. n.leaf
  BY DEF LeafResized
<1>3. AtLeaf(h, live, low, q, c, k, E)
  BY <1>1, <1>2, LeafFinds
<1>4. /\ Rising(n, low[c]) /\ Kids(n) \in Nat
      /\ q # <<>> => Kids(n) >= 2
  BY <1>3 DEF AtLeaf
<1>5. Shrunk(m, n, i) /\ KeysShrunk(m, n, i) /\ i \in 1 .. Kids(n)
  OBVIOUS
<1> HIDE DEF n
<1>6. Rising(m, low[c]) /\ (Kids(n) >= 2 => UpTo(Most(m), Most(n), k))
  BY <1>4, <1>5, LeafShrunk
<1>7. Kids(m) \in Nat /\ (Kids(n) >= 2 => Kids(m) # 0)
  <2>1. Kids(m) = Kids(n) - 1
    BY <1>5 DEF Shrunk
  <2>2. QED
    BY <2>1, <1>4, <1>5
<1>8. LeafMoves(h, low, q, c, k, m)
  BY <1>4, <1>6, <1>7 DEF LeafMoves, SameLinks, n
<1>9. QED
  BY <1>1, <1>8, LeafKeepsList, 1 \in {0, 1}, 0 \in Nat

\* A set of a key that is there leaves all nodes as they are.
LEMMA LeafKeepsKeys ==
    ASSUME NEW h, NEW q, NEW k \in Int, NEW E, AimedAt(h, q, k, E), h[Cur(q)].leaf,
           Finite(h), ListOf(h)
    PROVE  SiblingsAt(h, q)
<1>1. PICK live, height, low : AimedOn(h, live, height, low, q, k, E)
  BY DEF AimedAt
<1>2. ShapeOn(h, live, height, q, 0, 0) /\ Order(h, live, low, 0)
  BY <1>1 DEF AimedOn
<1>3. QED
  BY <1>2, LeafSiblings DEF SiblingsAt

-------------------------------------------------------------------------------
\* The three ways a leaf ends the way down.
LEMMA LeafUp ==
    ASSUME NEW g, ListOf(g), SiblingsAt(g, path), NEW n, Remember(SaveNode(Memory, n)),
           g = HeapOf(SaveNode(Memory, n), nextNodeId),
           UNCHANGED <<nodeStorage, root, nextNodeId, path>>, pc' = "up"
    PROVE  ListInv'
<1>1. Heap' = g
  BY DEF Heap, HeapOf, Ids, At, Remember
<1>2. QED
  BY <1>1 DEF ListInv

LEMMA LeafLists ==
    ASSUME ListShape, NEW E, TreeOf(E), pc = "down", Updates, node.leaf, NEW n,
           NodeOK(n, nextNodeId, nextValueId'), n.id = node.id, n.leaf,
           nextValueId' \in Nat, nextValueId <= nextValueId'
    PROVE  /\ Finite(HeapOf(Memory, nextNodeId)) /\ ListOf(HeapOf(Memory, nextNodeId))
           /\ Finite(HeapOf(SaveNode(Memory, n), nextNodeId))
           /\ node = HeapOf(Memory, nextNodeId)[Cur(path)]
           /\ LeafBecomes(HeapOf(Memory, nextNodeId),
                          HeapOf(SaveNode(Memory, n), nextNodeId), Cur(path), n)
           /\ AimedAt(HeapOf(Memory, nextNodeId), path, call.key, E) /\ call.key \in Int
<1>1. ShapeInv /\ ListInv
  BY DEF ListShape
<1>2. Running(Memory) /\ LeafSaved(n)
  BY <1>1, RunningMemory, LeafIsSaved
<1>3. /\ MemoryOK(Memory, nextNodeId, nextValueId) /\ Known(Memory) = 0 .. nextNodeId - 1
      /\ nextNodeId \in Int /\ nextNodeId >= 1 /\ Heap = HeapOf(Memory, nextNodeId)
  BY <1>2 DEF Running
<1>4. Finite(HeapOf(Memory, nextNodeId))
  BY <1>3, HeapFinite
<1>5. Finite(HeapOf(SaveNode(Memory, n), nextNodeId))
  <2> DEFINE m == SaveNode(Memory, n)  values == nextValueId'
  <2>1. MemoryOK(m, nextNodeId, values) /\ Known(m) = 0 .. nextNodeId - 1
    BY <1>2 DEF LeafSaved
  <2> HIDE DEF m, values
  <2>2. Finite(HeapOf(m, nextNodeId))
    BY <2>1, <1>3, HeapFinite
  <2>3. QED
    BY <2>2 DEF m
<1>6. AimedAt(HeapOf(Memory, nextNodeId), path, call.key, E) /\ call.key \in Int
  BY <1>1, LeafAtWork
<1>7. QED
  BY <1>1, <1>2, <1>3, <1>4, <1>5, <1>6 DEF LeafSaved, ListInv

LEMMA SetLeafAddList ==
    ASSUME ListShape, SetLeafAdd
    PROVE  ListInv'
<1> DEFINE n == AddKey(node, Position, call.key, nextValueId)
<1>1. /\ pc = "down" /\ call.op = "set" /\ Updates /\ node.leaf /\ FindKey = Nil
      /\ nextValueId' = nextValueId + 1 /\ ShapeInv /\ ListInv
      /\ Remember(SaveNode(Memory, n)) /\ pc' = "up"
      /\ UNCHANGED <<nodeStorage, root, nextNodeId, path>>
  BY DEF SetLeafAdd, Updates, client, ListShape
<1>2. PICK E : TreeOf(E)
  BY <1>1 DEF ShapeInv, PairsMatch
<1>3. /\ node.leaf = TRUE /\ node.deleted = FALSE
      /\ NodeOK(node, nextNodeId, nextValueId)
      /\ Position \in 1 .. Kids(node) + 1 /\ Kids(node) = Size(node) /\ Size(node) \in Nat
      /\ call.key \in Keys /\ nextNodeId \in Int /\ nextValueId \in Nat
      /\ Parts(node, call.key, Position)
      /\ (Position <= Kids(node) => Key(node, Position) # call.key)
  BY <1>1, <1>2, LeafAtWork
<1>4. nextValueId' \in Nat /\ nextValueId <= nextValueId' /\ nextValueId' \in Int
      /\ nextValueId \in Int /\ nextValueId \in 0 .. nextValueId' - 1
  BY <1>1, <1>3
<1>5. NodeOK(node, nextNodeId, nextValueId')
  BY <1>3, <1>4, NodeGrows
<1>6. nextValueId \in Handed(node.leaf, nextNodeId, nextValueId')
  BY <1>3, <1>4 DEF Handed
<1>7. /\ NodeOK(n, nextNodeId, nextValueId') /\ Kept(n, node)
      /\ Grown(n, node, Position, nextValueId) /\ KeysGrown(n, node, Position, call.key)
  <2>1. call.key \in Keys
    BY <1>3
  <2>2. /\ NodeOK(n, nextNodeId, nextValueId') /\ Kept(n, node)
        /\ Grown(n, node, Position, nextValueId)
    BY <1>3, <1>4, <1>5, <1>6, AddKeyProperties
  <2>3. KeysGrown(n, node, Position, call.key)
    BY <1>3, <1>5, AddKeyKeys
  <2>4. QED
    BY <2>2, <2>3
<1>8. SameLinks(n, node)
  BY <1>3 DEF SameLinks, AddKey, NodeOK, NodeRecords
<1> HIDE DEF n
<1>9. /\ n.id = node.id /\ n.leaf = TRUE /\ ~n.deleted
  BY <1>3, <1>7 DEF Kept
<1> DEFINE h == HeapOf(Memory, nextNodeId)
           g == HeapOf(SaveNode(Memory, n), nextNodeId)
           c == Cur(path)
<1>10. /\ Finite(h) /\ ListOf(h) /\ Finite(g) /\ node = h[c] /\ LeafBecomes(h, g, c, n)
       /\ AimedAt(h, path, call.key, E) /\ call.key \in Int
  BY <1>1, <1>2, <1>4, <1>7, <1>9, LeafLists
<1>11. LeafAdds(node, n, call.key, Position, nextValueId)
  BY <1>3, <1>7 DEF LeafAdds
<1>12. LeafResized(n, node, 0, 1)
  <2>1. Kids(n) = Size(n) /\ Kids(n) = Kids(node) + 1
    BY <1>7, SequencesOfNode DEF Grown
  <2>2. QED
    BY <2>1, <1>3, <1>9 DEF LeafResized
<1> HIDE DEF h, g, c
<1>13. ListOf(g) /\ SiblingsAt(g, path)
  BY <1>8, <1>10, <1>11, <1>12, LeafAddsKey DEF c
<1>14. QED
  BY <1>1, <1>13, LeafUp DEF g

LEMMA SetLeafReplaceList ==
    ASSUME ListShape, SetLeafReplace
    PROVE  ListInv'
<1>1. /\ pc = "down" /\ call.op = "set" /\ Updates /\ node.leaf
      /\ nextValueId' = nextValueId /\ ShapeInv /\ ListInv
      /\ Remember(SaveNode(Memory, node)) /\ pc' = "up"
      /\ UNCHANGED <<nodeStorage, root, nextNodeId, path>>
  BY DEF SetLeafReplace, Updates, client, memory, ListShape
<1>2. PICK E : TreeOf(E)
  BY <1>1 DEF ShapeInv, PairsMatch
<1>3. /\ NodeOK(node, nextNodeId, nextValueId) /\ nextValueId \in Nat
  BY <1>1, <1>2, LeafAtWork
<1>4. nextValueId' \in Nat /\ nextValueId <= nextValueId'
      /\ NodeOK(node, nextNodeId, nextValueId')
  BY <1>1, <1>3
<1> DEFINE h == HeapOf(Memory, nextNodeId)
           g == HeapOf(SaveNode(Memory, node), nextNodeId)
           c == Cur(path)
<1>5. /\ Finite(h) /\ ListOf(h) /\ node = h[c] /\ LeafBecomes(h, g, c, node)
      /\ AimedAt(h, path, call.key, E) /\ call.key \in Int
  BY <1>1, <1>2, <1>4, LeafLists
<1>6. g = h
  <2>1. \A x \in 0 .. nextNodeId - 1 : g[x] = h[x]
    <3>1. DOMAIN h = 0 .. nextNodeId - 1
      BY DEF HeapOf
    <3> HIDE DEF h, g, c
    <3>2. QED
      BY <3>1, <1>5 DEF LeafBecomes
  <2>2. /\ g = [x \in 0 .. nextNodeId - 1 |-> g[x]]
        /\ h = [x \in 0 .. nextNodeId - 1 |-> h[x]]
    BY DEF HeapOf
  <2> HIDE DEF h, g
  <2>3. QED
    BY <2>1, <2>2
<1> HIDE DEF h, g
<1>7. ListOf(g) /\ SiblingsAt(g, path)
  BY <1>1, <1>5, <1>6, LeafKeepsKeys
<1>8. QED
  BY <1>1, <1>7, LeafUp DEF g

LEMMA DelLeafList ==
    ASSUME ListShape, DelLeaf
    PROVE  ListInv'
<1> DEFINE n == DeleteKey(node, FindKey)
<1>1. /\ pc = "down" /\ call.op = "del" /\ Updates /\ node.leaf /\ FindKey # Nil
      /\ nextValueId' = nextValueId /\ ShapeInv /\ ListInv
      /\ Remember(SaveNode(Memory, n)) /\ pc' = "up"
      /\ UNCHANGED <<nodeStorage, root, nextNodeId, path>>
  BY DEF DelLeaf, Updates, client, memory, ListShape
<1>2. PICK E : TreeOf(E)
  BY <1>1 DEF ShapeInv, PairsMatch
<1>3. /\ node.leaf = TRUE /\ node.deleted = FALSE
      /\ NodeOK(node, nextNodeId, nextValueId)
      /\ Kids(node) = Size(node) /\ Size(node) \in Nat
      /\ FindKey \in 1 .. Kids(node) /\ nextNodeId \in Int /\ nextValueId \in Nat
  BY <1>1, <1>2, LeafAtWork
<1>4. /\ NodeOK(n, nextNodeId, nextValueId) /\ Kept(n, node) /\ Shrunk(n, node, FindKey)
      /\ KeysShrunk(n, node, FindKey)
  <2>1. nextValueId \in Int
    BY <1>3
  <2>2. QED
    BY <1>3, <2>1, DeleteKeyProperties, DeleteKeyKeys
<1>5. SameLinks(n, node)
  BY <1>3 DEF SameLinks, DeleteKey, NodeOK, NodeRecords
<1> HIDE DEF n
<1>6. /\ n.id = node.id /\ n.leaf = TRUE /\ ~n.deleted
  BY <1>3, <1>4 DEF Kept
<1>7. nextValueId' \in Nat /\ nextValueId <= nextValueId'
      /\ NodeOK(n, nextNodeId, nextValueId')
  BY <1>1, <1>3, <1>4
<1> DEFINE h == HeapOf(Memory, nextNodeId)
           g == HeapOf(SaveNode(Memory, n), nextNodeId)
           c == Cur(path)
<1>8. /\ Finite(h) /\ ListOf(h) /\ Finite(g) /\ node = h[c] /\ LeafBecomes(h, g, c, n)
      /\ AimedAt(h, path, call.key, E) /\ call.key \in Int
  BY <1>1, <1>2, <1>6, <1>7, LeafLists
<1>9. LeafResized(n, node, 1, 0)
  <2>1. Kids(n) = Size(n) /\ Kids(n) = Kids(node) - 1 /\ Size(n) \in Nat
    <3>1. n \in NodeRecords /\ Kids(n) = Size(n) /\ Kids(n) = Kids(node) - 1
      BY <1>4 DEF Shrunk, NodeOK
    <3>2. QED
      BY <3>1, NodeFacts
  <2>2. QED
    BY <2>1, <1>3, <1>6 DEF LeafResized
<1> HIDE DEF h, g, c
<1>10. ListOf(g) /\ SiblingsAt(g, path)
  BY <1>3, <1>4, <1>5, <1>8, <1>9, LeafDropsKey DEF c
<1>11. QED
  BY <1>1, <1>10, LeafUp DEF g

-------------------------------------------------------------------------------
(* The root splits, collapses and is committed. *)

LEMMA AllFinite == ShapeInv => Finite(Heap)
BY HeapNodes DEF Finite

LEMMA NewHeapIsHeap ==
    ASSUME StartCommit, NEW m, m.changes = changes'
    PROVE  Heap' = NewHeap(m, root', nextNodeId') /\ pc' = "commit"
<1>1. pc' = "commit" /\ nodeStorage' = nodeStorage
  BY DEF StartCommit, storages
<1>2. QED
  BY <1>1 DEF Heap, NewHeap, Ids, At

LEMMA LeafOrInner ==
    ASSUME NEW h, Finite(h), NEW x \in DOMAIN h
    PROVE  h[x].leaf \/ IsInner(h[x])
BY DEF Finite, Listed, NodeRecords, IsInner

\* The list of a leaf that is the only one.
LEMMA ListOfOne ==
    ASSUME NEW h, NEW c \in DOMAIN h, c # Nil
    PROVE  ListOn(h, {c}) <=> h[c].next = Nil /\ h[c].prev = Nil
<1>1. Nexts(h)[c] = h[c].next /\ Prevs(h)[c] = h[c].prev
  BY DEF Nexts, Prevs
<1>2. Threaded({c}, Nexts(h), Prevs(h), Firsts(h), Mosts(h))
         <=> Nexts(h)[c] = Nil /\ Prevs(h)[c] = Nil
  BY ThreadOfOne
<1>3. QED
  BY <1>1, <1>2 DEF ListOn

LEMMA LeafRootAlone ==
    ASSUME NEW h, NEW live, NEW height, NEW q, NEW less, NEW more,
           ShapeOn(h, live, height, q, less, more), h[0].leaf
    PROVE  live = {0}
<1>1. PICK up, pos : Linked(h, live, height, up, pos)
  BY DEF ShapeOn
<1>2. 0 \in live /\ height \in [Int -> Nat] /\ live \subseteq Int
      /\ LinkedAt(h[0], 0, live, height, up, pos)
  BY <1>1 DEF Linked
<1>3. height[0] = 0
  BY <1>2 DEF LinkedAt
<1>4. ASSUME NEW a \in live \ {0} PROVE FALSE
  <2>1. height[a] < height[0] /\ height[a] \in Nat
    BY <1>1, <1>2 DEF Linked, Hung
  <2>2. QED
    BY <2>1, <1>3
<1>5. QED
  BY <1>2, <1>4

LEMMA RootSplitList ==
    ASSUME NEW h, NEW k, NEW E, TreeAt(h, <<>>, 0, 1, k, E), NEW m, NEW g, NEW lo, NEW hi,
           RootDoubled(m, h, g, lo, hi), Finite(h), ListOf(h), Finite(g)
    PROVE  ListOf(g)
<1>1. PICK live, height, low : TreeOn(h, live, height, low, <<>>, 0, 1, k, E)
  BY DEF TreeAt
<1>2. ShapeOn(h, live, height, <<>>, 0, 1) /\ Order(h, live, low, 0)
  BY <1>1 DEF TreeOn, Cur
<1>3. /\ Size(h[0]) = 2 * NodeSize /\ nextNodeId \in Nat /\ DOMAIN h = 0 .. nextNodeId - 1
      /\ {lo, hi} = {nextNodeId, nextNodeId + 1} /\ DOMAIN g = DOMAIN h \cup {lo, hi}
      /\ IsRootSplit(h, g, DOMAIN h, lo, hi, NodeSize)
      /\ \A x \in DOMAIN g : Kids(g[x]) = Size(g[x])
      /\ KeysShared(<<g[lo], g[hi]>>, h[0], NodeSize)
      /\ g[lo] = Split(h[0], lo, hi)[1] /\ g[hi] = Split(h[0], lo, hi)[2] /\ lo # hi
      /\ \A x \in DOMAIN h \ {0} : g[x] = h[x]
  BY DEF RootDoubled
<1>4. PICK height2 : ShapeOn(g, live \cup {lo, hi}, height2, <<>>, 0, 0)
  BY <1>2, <1>3, RootSplitTree
<1>5. Leaves(h, 0) = LeavesIn(h, live) /\ live \subseteq DOMAIN h
  BY <1>2, LeavesOfTree, 0 \in {0, 1} DEF Finite
<1>6. /\ lo \in Nat /\ hi \in Nat /\ lo \notin DOMAIN h /\ hi \notin DOMAIN h
      /\ 0 \in live /\ g[0].leaf = FALSE /\ g[lo].leaf = h[0].leaf /\ g[hi].leaf = h[0].leaf
      /\ Shared(<<g[lo], g[hi]>>, h[0], NodeSize) /\ lo # hi
  <2>1. 0 \in live
    BY <1>2 DEF ShapeOn, Linked
  <2>2. lo \in Nat /\ hi \in Nat /\ lo \notin DOMAIN h /\ hi \notin DOMAIN h
    <3>1. /\ nextNodeId \in Nat /\ DOMAIN h = 0 .. nextNodeId - 1
          /\ lo \in {nextNodeId, nextNodeId + 1} /\ hi \in {nextNodeId, nextNodeId + 1}
      BY <1>3
    <3>2. QED
      BY ONLY <3>1
  <2>3. QED
    BY <2>1, <2>2, <1>3 DEF IsRootSplit
<1>7. Leaves(g, 0) = LeavesIn(g, live \cup {lo, hi})
  BY <1>4, LeavesOfTree, 0 \in {0, 1} DEF Finite
<1>8. CASE IsInner(h[0])
  <2>1. LeavesIn(g, live \cup {lo, hi}) = LeavesIn(h, live)
    BY <1>3, <1>5, <1>6, <1>8 DEF LeavesIn, IsInner
  <2>2. \A x \in LeavesIn(h, live) : SameLeaf(g[x], h[x])
    BY <1>3, <1>5, <1>8, SameBodyOfItself DEF LeavesIn, IsInner, SameLeaf
  <2>3. QED
    BY <2>1, <2>2, <1>2, <1>4, ListMoved, 0 \in {0, 1}
<1>9. CASE h[0].leaf
  <2>1. live = {0}
    BY <1>2, <1>9, LeafRootAlone
  <2>2. Leaves(h, 0) = {0} /\ 0 # Nil
    BY <2>1, <1>5, <1>9 DEF LeavesIn, Nil
  <2>3. h[0].next = Nil /\ h[0].prev = Nil
    BY <2>2, <1>5, <1>6, ListOfOne DEF ListOf
  <2>4. Nil \notin {lo, hi} /\ lo # Nil /\ hi # Nil
    BY <1>6 DEF Nil
  <2>5. LeafPair(Split(h[0], lo, hi), lo, hi, Nil, Nil)
    BY <2>3, <2>4, <1>6, <1>9, SplitLeafPair
  <2>6. /\ g[lo].next = hi /\ g[lo].prev = Nil /\ g[hi].next = Nil /\ g[hi].prev = lo
    BY <2>5, <1>3 DEF LeafPair
  <2>7. /\ Rising(h[0], low[0]) /\ Kids(h[0]) \in Nat /\ NodeSize \in 1 .. Kids(h[0]) - 1
    <3>1. Rising(h[0], low[0])
      BY <1>2, <1>6 DEF Order, Ordered
    <3>2. Kids(h[0]) = Size(h[0])
      BY <1>5, <1>6 DEF Finite, Listed
    <3>3. QED
      BY <3>1, <3>2, <1>3, NodeSizeAssumption
  <2>8. /\ Key(g[lo], 1) \in Int /\ Most(g[lo]) \in Int
        /\ Key(g[hi], 1) \in Int /\ Most(g[hi]) \in Int
        /\ Key(g[lo], 1) <= Most(g[lo]) /\ Most(g[lo]) < Key(g[hi], 1)
        /\ Key(g[hi], 1) <= Most(g[hi])
    <3> DEFINE u == g[lo]
               v == g[hi]
               n == h[0]
               b == low[0]
    <3>1. Rising(n, b) /\ Kids(n) \in Nat /\ NodeSize \in 1 .. Kids(n) - 1
          /\ Shared(<<u, v>>, n, NodeSize) /\ KeysShared(<<u, v>>, n, NodeSize)
      BY <2>7, <1>3, <1>6
    <3> HIDE DEF u, v, n, b
    <3>2. /\ Key(u, 1) \in Int /\ Most(u) \in Int /\ Key(v, 1) \in Int /\ Most(v) \in Int
          /\ Key(u, 1) <= Most(u) /\ Most(u) < Key(v, 1) /\ Key(v, 1) <= Most(v)
      BY <3>1, EndsOfShared
    <3>3. QED
      BY <3>2 DEF u, v
  <2>9. lo \in DOMAIN g /\ hi \in DOMAIN g
    BY <1>3
  <2>10. Threaded({lo, hi}, Nexts(g), Prevs(g), Firsts(g), Mosts(g))
    <3> DEFINE nx == Nexts(g)
               pv == Prevs(g)
               fs == Firsts(g)
               ms == Mosts(g)
    <3>1. /\ nx[lo] = hi /\ pv[hi] = lo /\ nx[hi] = Nil /\ pv[lo] = Nil
          /\ fs[lo] = Key(g[lo], 1) /\ ms[lo] = Most(g[lo])
          /\ fs[hi] = Key(g[hi], 1) /\ ms[hi] = Most(g[hi])
      BY <2>6, <2>9 DEF Nexts, Prevs, Firsts, Mosts
    <3> HIDE DEF nx, pv, fs, ms
    <3>2. /\ fs[lo] \in Int /\ ms[lo] \in Int /\ fs[hi] \in Int /\ ms[hi] \in Int
          /\ fs[lo] <= ms[lo] /\ ms[lo] < fs[hi] /\ fs[hi] <= ms[hi]
      BY <2>8, <3>1
    <3>3. Threaded({lo, hi}, nx, pv, fs, ms)
      BY <2>4, <1>6, <3>1, <3>2, ThreadOfTwo
    <3>4. QED
      BY <3>3 DEF nx, pv, fs, ms
  <2>11. LeavesIn(g, live \cup {lo, hi}) = {lo, hi}
    BY <2>1, <1>6, <1>9 DEF LeavesIn
  <2>12. QED
    BY <2>9, <2>10, <2>11, <1>7 DEF ListOf, ListOn
<1>10. 0 \in DOMAIN h
  BY <1>5, <1>6
<1>11. QED
  BY <1>8, <1>9, <1>10, LeafOrInner

LEMMA CollapseList ==
    ASSUME NEW h, NEW k, NEW E, TreeAt(h, <<>>, 1, 0, k, E), NEW m, NEW g, NEW c,
           RootLowered(m, h, g, c), Finite(h), ListOf(h), Finite(g)
    PROVE  ListOf(g)
<1>1. PICK live, height, low : TreeOn(h, live, height, low, <<>>, 1, 0, k, E)
  BY DEF TreeAt
<1>2. ShapeOn(h, live, height, <<>>, 1, 0)
  BY <1>1 DEF TreeOn, Cur
<1>3. /\ DOMAIN g = DOMAIN h /\ Size(g[c]) = Size(h[c]) /\ c \in DOMAIN h \ {0}
      /\ IsCollapse(h, g, DOMAIN h, c) /\ SameBody(g[0], h[c])
      /\ g[0].next = h[c].next /\ g[0].prev = h[c].prev
      /\ \A x \in DOMAIN h \ {0, c} : g[x] = h[x]
      /\ \A x \in DOMAIN g : Kids(g[x]) = Size(g[x])
  BY DEF RootLowered
<1>4. PICK height2 : ShapeOn(g, live \ {c}, height2, <<>>, 0, 0)
  BY <1>2, <1>3, CollapseTree
<1>5. Leaves(h, 0) = LeavesIn(h, live) /\ live \subseteq DOMAIN h
  BY <1>2, LeavesOfTree, 1 \in {0, 1} DEF Finite
<1>6. Leaves(g, 0) = LeavesIn(g, live \ {c})
  BY <1>4, LeavesOfTree, 0 \in {0, 1} DEF Finite
<1>7. PICK up, pos : Linked(h, live, height, up, pos)
  BY <1>2 DEF ShapeOn
<1>8. /\ ~h[0].leaf /\ Kids(h[0]) = 1 /\ c = Kid(h[0], 1) /\ g[0].leaf = h[c].leaf
      /\ 0 \in live /\ c \in live \ {0} /\ height[c] + 1 = height[0]
      /\ height \in [Int -> Nat] /\ live \subseteq Int
  <2>1. ~h[0].leaf /\ Kids(h[0]) = 1 /\ c = Kid(h[0], 1) /\ g[0].leaf = h[c].leaf
    BY <1>3 DEF IsCollapse, SameCore
  <2>2. 1 \in 1 .. Kids(h[0])
    BY <2>1
  <2>3. QED
    BY <2>1, <2>2, <1>7 DEF Linked, LinkedAt
<1>9. CASE IsInner(h[c])
  <2>1. LeavesIn(g, live \ {c}) = LeavesIn(h, live)
    BY <1>3, <1>5, <1>8, <1>9 DEF LeavesIn, IsInner
  <2>2. \A x \in LeavesIn(h, live) : SameLeaf(g[x], h[x])
    BY <1>3, <1>5, <1>8, <1>9, SameBodyOfItself DEF LeavesIn, IsInner, SameLeaf
  <2>3. QED
    BY <2>1, <2>2, <1>2, <1>4, ListMoved, 0 \in {0, 1}, 1 \in {0, 1}
<1>10. CASE h[c].leaf
  <2>1. height[c] = 0 /\ height[0] = 1
    <3>1. height[c] = 0
      <4>1. LinkedAt(h[c], c, live, height, up, pos)
        BY <1>7, <1>8 DEF Linked
      <4>2. QED
        BY <4>1, <1>10 DEF LinkedAt
    <3>2. QED
      BY <3>1, <1>8
  <2>2. ASSUME NEW a \in live \ {0} PROVE a = c
    <3>1. /\ up[a] \in live /\ h[up[a]].leaf = FALSE /\ pos[a] \in 1 .. Kids(h[up[a]])
          /\ Kid(h[up[a]], pos[a]) = a
      BY <1>7 DEF Linked, Hung
    <3>2. up[a] = 0
      <4> SUFFICES ASSUME up[a] # 0 PROVE FALSE
        OBVIOUS
      <4>1. up[a] \in live \ {0}
        BY <3>1
      <4>2. height[up[a]] < height[0] /\ height[up[a]] \in Nat
        BY <4>1, <1>7, <1>8 DEF Linked, Hung
      <4>3. height[up[a]] = 0
        BY <4>2, <2>1
      <4>4. QED
        BY <4>1, <4>3, <3>1, <1>7 DEF Linked, LinkedAt
    <3>3. pos[a] = 1
      BY <3>1, <3>2, <1>8
    <3>4. QED
      BY <3>1, <3>2, <3>3, <1>8
  <2>3. LeavesIn(h, live) = {c} /\ LeavesIn(g, live \ {c}) = {0}
    BY <2>2, <1>8, <1>10 DEF LeavesIn
  <2>4. 0 \in DOMAIN g /\ c \in DOMAIN h /\ c # Nil /\ 0 # Nil
    BY <2>3, <1>3, <1>5, <1>8 DEF ListOf, ListOn, Threaded, Nil
  <2>5. h[c].next = Nil /\ h[c].prev = Nil
    BY <2>3, <2>4, <1>5, ListOfOne DEF ListOf
  <2>6. ListOn(g, {0})
    BY <2>4, <2>5, <1>3, ListOfOne
  <2>7. QED
    BY <2>3, <2>6, <1>6 DEF ListOf
<1>11. c \in DOMAIN h
  BY <1>3
<1>12. QED
  BY <1>9, <1>10, <1>11, LeafOrInner

LEMMA StoredList ==
    ASSUME NEW h, NEW k, NEW E, TreeAt(h, <<>>, 0, 0, k, E), Finite(h), ListOf(h),
           NEW g, DOMAIN g = DOMAIN h, Finite(g),
           \A x \in DOMAIN h : h[x] \in NodeRecords /\ g[x] \in {h[x], Stored(h[x])}
    PROVE  ListOf(g)
<1>1. PICK live, height, low : TreeOn(h, live, height, low, <<>>, 0, 0, k, E)
  BY DEF TreeAt
<1>2. ShapeOn(h, live, height, <<>>, 0, 0)
  BY <1>1 DEF TreeOn, Cur
<1>3. ShapeOn(g, live, height, <<>>, 0, 0)
  BY <1>2, StoredTree0
<1>4. PICK up, pos : Linked(h, live, height, up, pos)
  BY <1>2 DEF ShapeOn
<1>5. ASSUME NEW a \in live PROVE SameLeaf(g[a], h[a])
  <2>1. a \in DOMAIN h /\ ~h[a].deleted
    BY <1>4 DEF Linked, LinkedAt
  <2>2. h[a] \in NodeRecords /\ g[a] \in {h[a], Stored(h[a])}
    BY <2>1
  <2>3. h[a].deleted = FALSE
    BY <2>1, <2>2, NodeFacts
  <2>4. /\ g[a].leaf = h[a].leaf /\ g[a].keys = h[a].keys /\ g[a].ptrs = h[a].ptrs
        /\ g[a].deleted = h[a].deleted /\ g[a].next = h[a].next /\ g[a].prev = h[a].prev
    BY <2>2, <2>3 DEF Stored, NodeRecords
  <2>5. QED
    BY <2>4 DEF SameLeaf, SameBody, SameCore, Size, Kids, Kid
<1>6. LeavesIn(g, live) = LeavesIn(h, live)
  BY <1>5 DEF LeavesIn, SameLeaf, SameBody, SameCore
<1>7. \A x \in LeavesIn(h, live) : SameLeaf(g[x], h[x])
  BY <1>5 DEF LeavesIn
<1>8. QED
  BY <1>2, <1>3, <1>6, <1>7, ListMoved, 0 \in {0, 1}

\* The steps that leave the nodes of the tree as they are.
LEMMA SameHeapList ==
    ASSUME ListInv, Heap' = Heap, pc' # "up"
    PROVE  ListInv'
BY DEF ListInv

LEMMA ReadHeap ==
    ASSUME ShapeInv, DescendSet \/ DescendDel \/ KeyDoesNotExist \/ FindNode \/ Get
                     \/ GetRangeEnd \/ GetRangeNextLeaf \/ \E c \in Calls : Invoke(c)
    PROVE  Heap' = Heap /\ pc' \in {"idle", "down"}
<1>1. pc # "commit" /\ pc' \in {"idle", "down"} /\ nextNodeId' = nextNodeId
      /\ root' = root /\ nodeStorage' = nodeStorage /\ changes' = changes
  <2>1. CASE DescendSet \/ DescendDel
    <3>1. /\ pc = "down" /\ pc' = pc /\ nextNodeId' = nextNodeId /\ root' = root
          /\ nodeStorage' = nodeStorage /\ \E id : Remember(Buffered(Memory, id))
      BY <2>1 DEF DescendSet, DescendDel, Enter, storages, memory, client
    <3>2. changes' = changes
      BY <3>1 DEF Remember, Buffered, Memory
    <3>3. QED
      BY <3>1, <3>2
  <2>2. CASE KeyDoesNotExist \/ Get \/ GetRangeEnd
    BY <2>2 DEF KeyDoesNotExist, Get, GetRangeEnd, Return, storages, memory, scratch
  <2>3. CASE FindNode \/ GetRangeNextLeaf
    BY <2>3 DEF FindNode, GetRangeNextLeaf, storages, memory, scratch
  <2>4. CASE \E c \in Calls : Invoke(c)
    BY <2>4 DEF Invoke, storages, memory, scratch
  <2>5. QED
    BY <2>1, <2>2, <2>3, <2>4
<1>2. Heap' = Heap
  BY <1>1 DEF Heap, Ids, At
<1>3. QED
  BY <1>1, <1>2

LEMMA ReadList ==
    ASSUME ListShape, DescendSet \/ DescendDel \/ KeyDoesNotExist \/ FindNode \/ Get
                      \/ GetRangeEnd \/ GetRangeNextLeaf \/ \E c \in Calls : Invoke(c)
    PROVE  ListInv'
<1>1. Heap' = Heap /\ pc' \in {"idle", "down"}
  BY ReadHeap DEF ListShape
<1>2. QED
  BY <1>1, SameHeapList DEF ListShape

LEMMA IdleList ==
    ASSUME ListShape, UNCHANGED vars
    PROVE  ListInv'
<1>1. /\ nodeStorage' = nodeStorage /\ root' = root /\ nextNodeId' = nextNodeId
      /\ changes' = changes /\ pc' = pc /\ path' = path
  BY DEF vars, storages, memory, scratch, client, locals
<1>2. Heap' = Heap
  BY <1>1 DEF Heap, Ids, At
<1>3. QED
  BY <1>1, <1>2 DEF ListInv, ListShape

LEMMA CommitNodeList ==
    ASSUME ListShape, CommitNode
    PROVE  ListInv'
<1>1. ShapeInv /\ ListInv
  BY DEF ListShape
<1>2. Heap' = Heap /\ pc' = "commit"
  BY <1>1, CommitNodeHeap DEF CommitNode
<1>3. QED
  BY <1>1, <1>2, SameHeapList

LEMMA ClearBufferList ==
    ASSUME ListShape, ClearBuffer, Finite(Heap')
    PROVE  ListInv'
<1> DEFINE h == Heap
           g == Heap'
<1>1. ShapeInv /\ ListInv
  BY DEF ListShape
<1>2. PICK E : TreeOf(E)
  BY <1>1 DEF ShapeInv, PairsMatch
<1>3. /\ DOMAIN h = Ids /\ DOMAIN g = Ids
      /\ \A x \in Ids : h[x] \in NodeRecords /\ g[x] \in {h[x], Stored(h[x])}
  BY <1>1, ClearBufferHeap
<1>4. TreeAt(h, <<>>, 0, 0, call.key, E) /\ pc' = "idle"
  <2>1. pc = "commit" /\ pc' = "idle"
    BY DEF ClearBuffer, Return
  <2>2. path = <<>> /\ Less = 0 /\ More = 0
    BY <1>1, <2>1 DEF ShapeInv, Shape, CallOK, Less, More
  <2>3. QED
    BY <1>2, <2>1, <2>2 DEF TreeOf
<1>5. Finite(h) /\ Finite(g) /\ ListOf(h)
  BY <1>1, AllFinite DEF ListInv
<1> HIDE DEF h, g
<1>6. ListOf(g)
  BY <1>3, <1>4, <1>5, StoredList
<1>7. QED
  BY <1>4, <1>6 DEF g, ListInv

LEMMA RootList ==
    ASSUME ListShape, RootStays \/ RootSplit \/ RootCollapse, Finite(Heap')
    PROVE  ListInv'
<1> DEFINE h == Heap
<1>1. ShapeInv /\ ListInv /\ pc = "up" /\ path = <<>> /\ StartCommit
  BY DEF ListShape, RootStays, RootSplit, RootCollapse, StartCommit
<1>2. PICK E : TreeOf(E)
  BY <1>1 DEF ShapeInv, PairsMatch
<1>3. TreeAt(h, <<>>, Less, More, call.key, E)
  BY <1>1, <1>2 DEF TreeOf
<1>4. Finite(h) /\ ListOf(h)
  BY <1>1, AllFinite DEF ListInv
<1>5. CASE RootStays
  <2>1. /\ root' = NewRoot /\ nextNodeId' = nextNodeId /\ changes' = changes
        /\ nodeStorage' = nodeStorage /\ pc' = "commit"
    BY <1>5 DEF RootStays, StartCommit, scratch, storages
  <2>2. AtRoot(Memory)
    BY <1>1, RootProperties
  <2>3. NewRoot = At(changes, 0)
    <3>1. NewRoot = HeapOf(Memory, nextNodeId)[0] /\ nextNodeId >= 1 /\ nextNodeId \in Nat
      BY <2>2, <1>1 DEF AtRoot, ShapeInv, Shape, CountersOK
    <3>2. QED
      BY <3>1 DEF HeapOf, Memory
  <2>4. Heap' = h
    BY <2>1, <2>3, <1>1 DEF Heap, Ids, At
  <2>5. QED
    BY <2>1, <2>4, <1>1, SameHeapList
<1>6. CASE RootSplit
  <2>1. PICK m, g, lo, hi : RootDoubled(m, Heap, g, lo, hi)
    BY <1>1, <1>2, <1>6, RootSplitHeap
  <2>2. m.changes = changes' /\ g = NewHeap(m, root', nextNodeId')
    BY <2>1 DEF RootDoubled
  <2>3. Heap' = g /\ pc' = "commit"
    BY <2>2, <1>1, NewHeapIsHeap
  <2>4. Less = 0 /\ More = 1
    BY <1>1, <1>6 DEF RootSplit, RootIsFull, Less, More
  <2>5. Finite(g) /\ RootDoubled(m, h, g, lo, hi) /\ TreeAt(h, <<>>, 0, 1, call.key, E)
    BY <2>1, <2>3, <2>4, <1>3
  <2> HIDE DEF h
  <2>6. ListOf(g)
    BY <2>5, <1>4, RootSplitList
  <2>7. QED
    BY <2>3, <2>6 DEF ListInv
<1>7. CASE RootCollapse
  <2>1. PICK m, g, c : RootLowered(m, Heap, g, c)
    BY <1>1, <1>2, <1>7, RootCollapseHeap
  <2>2. m.changes = changes' /\ g = NewHeap(m, root', nextNodeId')
    BY <2>1 DEF RootLowered
  <2>3. Heap' = g /\ pc' = "commit"
    BY <2>2, <1>1, NewHeapIsHeap
  <2>4. Less = 1 /\ More = 0
    BY <1>1, <1>7 DEF RootCollapse, RootHasOneChild, Less, More
  <2>5. Finite(g) /\ RootLowered(m, h, g, c) /\ TreeAt(h, <<>>, 1, 0, call.key, E)
    BY <2>1, <2>3, <2>4, <1>3
  <2> HIDE DEF h
  <2>6. ListOf(g)
    BY <2>5, <1>4, CollapseList
  <2>7. QED
    BY <2>3, <2>6 DEF ListInv
<1>8. QED
  BY <1>5, <1>6, <1>7

LEMMA InitList == Init => ListInv
<1> SUFFICES ASSUME Init PROVE ListInv
  OBVIOUS
<1>1. ShapeInv
  BY InitShape DEF Init, Empty, BufferIsCurrent, ShapeInv
<1>2. Finite(Heap) /\ DOMAIN Heap = Ids /\ pc = "idle" /\ nextNodeId = 1
  BY <1>1, AllFinite, HeapNodes DEF Init
<1>3. Heap[0].leaf /\ Heap[0].next = Nil /\ Heap[0].prev = Nil /\ 0 \in Ids
  <2>1. Heap[0] = EmptyRoot /\ 0 \in Ids
    BY <1>2 DEF Heap, Ids, At, Init, Empty
  <2>2. QED
    BY <2>1 DEF EmptyRoot, Leaf
<1>4. PICK live, height : ShapeOn(Heap, live, height, path, Less, More)
  BY <1>1, HeapHasShape DEF ShapeAt
<1>5. live = {0} /\ Leaves(Heap, 0) = LeavesIn(Heap, live)
  <2>1. Less \in {0, 1}
    BY DEF Less
  <2>2. IsFiniteSet(DOMAIN Heap) /\ \A a \in DOMAIN Heap : Listed(Heap[a])
    BY <1>2 DEF Finite
  <2>3. QED
    BY <2>1, <2>2, <1>3, <1>4, LeafRootAlone, LeavesOfTree
<1>6. Leaves(Heap, 0) = {0}
  BY <1>3, <1>5 DEF LeavesIn
<1>7. 0 # Nil /\ 0 \in DOMAIN Heap
  BY <1>2, <1>3 DEF Nil
<1>8. ListOn(Heap, {0})
  BY <1>3, <1>7, ListOfOne
<1>9. QED
  BY <1>2, <1>6, <1>8 DEF ListInv, ListOf

LEMMA ListStep == ListShape /\ [Next]_vars => ListShape'
<1> SUFFICES ASSUME ListShape, [Next]_vars PROVE ListShape'
  OBVIOUS
<1>1. ShapeInv'
  BY ShapeStep DEF ListShape
<1>2. Finite(Heap')
  <2>1. ShapeInv' => Finite(Heap)'
    BY AllFinite, PTL
  <2>2. QED
    BY <1>1, <2>1
<1>3. ListInv'
  <2>1. CASE DescendSet \/ DescendDel \/ KeyDoesNotExist \/ FindNode \/ Get
             \/ GetRangeEnd \/ GetRangeNextLeaf \/ \E c \in Calls : Invoke(c)
    BY <2>1, ReadList
  <2>2. CASE AscendPlain \/ SetOverflow \/ DelShortage
    BY <2>2, AscendPlainList, SetOverflowList, DelShortageList
  <2>3. CASE SetLeafAdd \/ SetLeafReplace \/ DelLeaf
    BY <2>3, SetLeafAddList, SetLeafReplaceList, DelLeafList
  <2>4. CASE RootStays \/ RootSplit \/ RootCollapse
    BY <2>4, <1>2, RootList
  <2>5. CASE CommitNode
    BY <2>5, CommitNodeList
  <2>6. CASE ClearBuffer
    BY <2>6, <1>2, ClearBufferList
  <2>7. CASE UNCHANGED vars
    BY <2>7, IdleList
  <2>8. QED
    BY <2>1, <2>2, <2>3, <2>4, <2>5, <2>6, <2>7 DEF Next, Step, QuietStep
<1>4. QED
  BY <1>1, <1>3 DEF ListShape

LEMMA ListKeptAlways == Spec => []ListShape
<1>1. Init => ListShape
  BY InitShape, InitList DEF Init, Empty, BufferIsCurrent, ShapeInv, ListShape
<1>2. QED
  BY <1>1, ListStep, PTL DEF Spec

-------------------------------------------------------------------------------
(* What the invariant says of the list. *)

\* A finite set with a strict order has a first element.
LEMMA HasFirst ==
    ASSUME NEW L, IsFiniteSet(L), L # {}, NEW R,
           \A a \in L : <<a, a>> \notin R,
           \A a, b, c \in L : <<a, b>> \in R /\ <<b, c>> \in R => <<a, c>> \in R
    PROVE  \E a \in L : \A d \in L : <<d, a>> \notin R
<1> DEFINE below(a) == {d \in L : <<d, a>> \in R}
           ranks == {Cardinality(below(a)) : a \in L}
<1>1. \A a \in L : IsFiniteSet(below(a)) /\ Cardinality(below(a)) \in Nat
  <2> TAKE a \in L
  <2>1. below(a) \in SUBSET L
    OBVIOUS
  <2>2. QED
    BY <2>1, FS_Subset, FS_CardinalityType
<1>2. ranks \subseteq Nat /\ ranks # {}
  <2>1. ASSUME NEW r \in ranks PROVE r \in Nat
    <3>1. PICK a \in L : r = Cardinality(below(a))
      BY <2>1
    <3>2. QED
      BY <3>1, <1>1
  <2>2. PICK a : a \in L
    OBVIOUS
  <2>3. Cardinality(below(a)) \in ranks
    BY <2>2
  <2> HIDE DEF below, ranks
  <2>4. QED
    BY <2>1, <2>3
<1>3. PICK r \in ranks : \A s \in ranks : r <= s
  <2> HIDE DEF ranks
  <2>1. PICK s : s \in ranks
    BY <1>2
  <2>2. QED
    BY <1>2, <2>1, HasSmallest
<1>4. PICK a \in L : r = Cardinality(below(a))
  OBVIOUS
<1>5. ASSUME NEW d \in L, <<d, a>> \in R PROVE FALSE
  <2>1. below(d) \in SUBSET below(a) /\ d \in below(a) /\ d \notin below(d)
    BY <1>5
  <2>2. Cardinality(below(d)) < Cardinality(below(a))
    <3>1. below(d) # below(a)
      BY <2>1
    <3> DEFINE s == below(d)
               t == below(a)
    <3>2. s \in SUBSET t /\ s # t /\ IsFiniteSet(t) /\ IsFiniteSet(s)
      BY <2>1, <3>1, <1>1
    <3> HIDE DEF s, t
    <3>3. Cardinality(s) <= Cardinality(t) /\ (Cardinality(s) = Cardinality(t) => s = t)
          /\ Cardinality(s) \in Nat /\ Cardinality(t) \in Nat
      BY <3>2, FS_Subset, FS_CardinalityType
    <3>4. Cardinality(s) < Cardinality(t)
      BY <3>2, <3>3
    <3>5. QED
      BY <3>4 DEF s, t
  <2>3. Cardinality(below(d)) \in ranks
    OBVIOUS
  <2>4. r <= Cardinality(below(d)) /\ Cardinality(below(d)) \in Nat
        /\ Cardinality(below(a)) \in Nat
    BY <2>3, <1>1, <1>3
  <2> HIDE DEF below, ranks
  <2>5. QED
    BY <2>2, <2>4, <1>4
<1>6. QED
  BY <1>5

\* A list has one last and one first leaf.
LEMMA ListEnds ==
    ASSUME NEW L, IsFiniteSet(L), L # {}, NEW nx, NEW pv, NEW lo, NEW hi,
           Threaded(L, nx, pv, lo, hi)
    PROVE  /\ \E a \in L : \A d \in L : nx[d] = Nil <=> d = a
           /\ \E a \in L : \A d \in L : pv[d] = Nil <=> d = a
<1> DEFINE R == {e \in L \X L : e[1] # e[2] /\ Before(e[1], e[2], lo, hi)}
           S == {e \in L \X L : e[1] # e[2] /\ Before(e[2], e[1], lo, hi)}
<1>1. /\ \A a \in L : \A b \in L \ {a} :
             /\ lo[a] \in Int /\ hi[a] \in Int /\ lo[a] <= hi[a]
             /\ Before(a, b, lo, hi) \/ Before(b, a, lo, hi)
      /\ Nil \notin L
      /\ \A a \in L : NextIsNext(a, L, nx, pv, lo, hi) /\ PrevIsPrev(a, L, nx, pv, lo, hi)
  BY DEF Threaded, InRow
<1>2. ASSUME NEW a \in L, NEW b \in L \ {a}, Before(a, b, lo, hi), Before(b, a, lo, hi)
      PROVE  FALSE
  <2>1. /\ lo[a] \in Int /\ hi[a] \in Int /\ lo[a] <= hi[a]
        /\ lo[b] \in Int /\ hi[b] \in Int /\ lo[b] <= hi[b]
    BY <1>1
  <2>2. QED
    BY <2>1, <1>2 DEF Before
<1>3. ASSUME NEW a \in L, NEW b \in L \ {a}, NEW c \in L \ {b},
             Before(a, b, lo, hi), Before(b, c, lo, hi)
      PROVE  a # c /\ Before(a, c, lo, hi)
  <2>1. /\ lo[b] \in Int /\ hi[b] \in Int /\ lo[b] <= hi[b] /\ hi[a] \in Int /\ lo[c] \in Int
    BY <1>1
  <2>2. Before(a, c, lo, hi)
    BY <2>1, <1>3 DEF Before
  <2>3. QED
    BY <2>2, <1>2, <1>3
<1>4. PICK a \in L : \A d \in L : <<d, a>> \notin S
  <2>1. \A x \in L : <<x, x>> \notin S
    OBVIOUS
  <2>2. \A x, y, z \in L : <<x, y>> \in S /\ <<y, z>> \in S => <<x, z>> \in S
    BY <1>3
  <2> HIDE DEF S
  <2>3. QED
    BY <2>1, <2>2, HasFirst
<1>5. PICK b \in L : \A d \in L : <<d, b>> \notin R
  <2>1. \A x \in L : <<x, x>> \notin R
    OBVIOUS
  <2>2. \A x, y, z \in L : <<x, y>> \in R /\ <<y, z>> \in R => <<x, z>> \in R
    BY <1>3
  <2> HIDE DEF R
  <2>3. QED
    BY <2>1, <2>2, HasFirst
<1>6. \A d \in L : nx[d] = Nil <=> d = a
  <2>1. \A d \in L \ {a} : ~Before(a, d, lo, hi)
    BY <1>4
  <2>2. nx[a] = Nil
    BY <2>1, <1>1 DEF NextIsNext
  <2>3. ASSUME NEW d \in L, nx[d] = Nil, d # a PROVE FALSE
    <3>1. Before(a, d, lo, hi)
      BY <2>3, <1>1 DEF NextIsNext
    <3>2. QED
      BY <3>1, <2>1, <2>3
  <2>4. QED
    BY <2>2, <2>3
<1>7. \A d \in L : pv[d] = Nil <=> d = b
  <2>1. \A d \in L \ {b} : ~Before(d, b, lo, hi)
    BY <1>5
  <2>2. pv[b] = Nil
    <3> SUFFICES ASSUME pv[b] # Nil PROVE FALSE
      OBVIOUS
    <3>1. pv[b] \in L \ {b} /\ nx[pv[b]] = b
      BY <1>1 DEF PrevIsPrev
    <3>2. Before(pv[b], b, lo, hi)
      BY <3>1, <1>1 DEF NextIsNext
    <3>3. QED
      BY <3>1, <3>2, <2>1
  <2>3. ASSUME NEW d \in L, pv[d] = Nil, d # b PROVE FALSE
    <3>1. Before(d, b, lo, hi)
      BY <2>3, <1>1 DEF PrevIsPrev
    <3>2. QED
      BY <3>1, <2>1, <2>3
  <2>4. QED
    BY <2>2, <2>3
<1>8. QED
  BY <1>6, <1>7

\* Leaves with the same neighbours are the same, and none lies between a leaf
\* and the next one.
LEMMA ListLinks ==
    ASSUME NEW L, NEW nx, NEW pv, NEW lo, NEW hi, Threaded(L, nx, pv, lo, hi),
           NEW a \in L, NEW b \in L
    PROVE  /\ nx[a] = b <=> pv[b] = a
           /\ nx[a] = b => /\ a # b /\ Before(a, b, lo, hi)
                           /\ \A d \in L : ~(Before(a, d, lo, hi) /\ Before(d, b, lo, hi))
<1>1. /\ \A x \in L : \A y \in L \ {x} :
             /\ lo[x] \in Int /\ hi[x] \in Int /\ lo[x] <= hi[x]
             /\ Before(x, y, lo, hi) \/ Before(y, x, lo, hi)
      /\ Nil \notin L
      /\ \A x \in L : NextIsNext(x, L, nx, pv, lo, hi) /\ PrevIsPrev(x, L, nx, pv, lo, hi)
  BY DEF Threaded, InRow
<1>2. nx[a] = b <=> pv[b] = a
  BY <1>1 DEF NextIsNext, PrevIsPrev
<1>3. ASSUME nx[a] = b
      PROVE  /\ a # b /\ Before(a, b, lo, hi)
             /\ \A d \in L \ {a, b} : Before(d, a, lo, hi) \/ Before(b, d, lo, hi)
  BY <1>1, <1>3 DEF NextIsNext
<1>4. ASSUME nx[a] = b, NEW d \in L, Before(a, d, lo, hi), Before(d, b, lo, hi)
      PROVE  FALSE
  <2>1. /\ lo[a] \in Int /\ hi[a] \in Int /\ lo[a] <= hi[a]
        /\ lo[b] \in Int /\ hi[b] \in Int /\ lo[b] <= hi[b]
        /\ lo[d] \in Int /\ hi[d] \in Int /\ lo[d] <= hi[d]
    BY <1>1, <1>3, <1>4
  <2>2. d # a /\ d # b
    BY <2>1, <1>4 DEF Before
  <2>3. Before(d, a, lo, hi) \/ Before(b, d, lo, hi)
    BY <2>2, <1>3, <1>4
  <2>4. QED
    BY <2>1, <2>3, <1>4 DEF Before
<1>5. QED
  BY <1>2, <1>3, <1>4

\* A tree has a leaf.
LEMMA SomeLeaf ==
    ASSUME NEW h, NEW live, NEW height, NEW up, NEW pos, Standing(h, live, height, up, pos)
    PROVE  LeavesIn(h, live) # {}
<1> DEFINE S == {height[a] : a \in live}
<1>1. /\ 0 \in live /\ live \subseteq Int /\ height \in [Int -> Nat]
      /\ \A a \in live : LinkedAt(h[a], a, live, height, up, pos)
      /\ \A a \in live : IsInner(h[a]) => Kids(h[a]) > 0
      /\ \A a \in live : Listed(h[a])
  BY DEF Standing, Linked, Filled
<1>2. S \subseteq Nat /\ height[0] \in S
  BY <1>1
<1>3. PICK d \in S : \A e \in S : d <= e
  <2> HIDE DEF S
  <2>1. S # {}
    BY <1>2
  <2>2. QED
    BY <1>2, <2>1, HasSmallest
<1>4. PICK a \in live : d = height[a]
  OBVIOUS
<1>5. ~IsInner(h[a])
  <2> SUFFICES ASSUME IsInner(h[a]) PROVE FALSE
    OBVIOUS
  <2>1. Kids(h[a]) > 0 /\ Kids(h[a]) \in Nat /\ LinkedAt(h[a], a, live, height, up, pos)
    BY <1>1 DEF LinkedAt
  <2>2. 1 \in 1 .. Kids(h[a]) /\ ~h[a].leaf
    BY <2>1 DEF IsInner
  <2>3. Kid(h[a], 1) \in live /\ height[Kid(h[a], 1)] + 1 = height[a]
    BY <2>1, <2>2 DEF LinkedAt
  <2> DEFINE e == height[Kid(h[a], 1)]
  <2>4. e \in S /\ e + 1 = d /\ e \in Nat
    BY <2>3, <1>1, <1>4
  <2> HIDE DEF e, S
  <2>5. d <= e
    BY <2>4, <1>3
  <2>6. QED
    BY <2>4, <2>5
<1>6. h[a].leaf
  BY <1>1, <1>5 DEF Listed, NodeRecords, IsInner
<1>7. QED
  BY <1>6 DEF LeavesIn

\* The leaves of the tree are nodes under their own ids.
LEMMA HeapLeaves ==
    ASSUME ShapeInv
    PROVE  /\ Leaves(Heap, 0) # {} /\ IsFiniteSet(Leaves(Heap, 0))
           /\ \A a \in Leaves(Heap, 0) : /\ a \in DOMAIN Heap /\ Heap[a].id = a
                                         /\ Heap[a].keys \in Seq(Keys)
                                         /\ Len(Heap[a].keys) = Kids(Heap[a])
<1>1. /\ IsFiniteSet(DOMAIN Heap) /\ DOMAIN Heap = Ids
      /\ \A x \in Ids : Heap[x].id = x /\ Listed(Heap[x])
  BY HeapNodes
<1>2. PICK E : TreeOf(E)
  BY DEF ShapeInv, PairsMatch
<1>3. PICK live, height, up, pos : Standing(Heap, live, height, up, pos)
  BY <1>2, HeapStands
<1>4. Leaves(Heap, 0) = LeavesIn(Heap, live)
  BY <1>3, RowsOfRoot DEF Leaves, LeavesIn
<1>5. live \in SUBSET DOMAIN Heap
  BY <1>3 DEF Standing, Linked
<1>6. LeavesIn(Heap, live) \in SUBSET DOMAIN Heap
  BY <1>5 DEF LeavesIn
<1>7. IsFiniteSet(Leaves(Heap, 0))
  BY <1>1, <1>4, <1>6, FS_Subset
<1>8. Leaves(Heap, 0) # {}
  BY <1>3, <1>4, SomeLeaf
<1>9. \A a \in Leaves(Heap, 0) : a \in Ids
  BY <1>1, <1>4, <1>6
<1>10. ASSUME NEW a \in Leaves(Heap, 0)
       PROVE  Heap[a].keys \in Seq(Keys) /\ Len(Heap[a].keys) = Kids(Heap[a])
  BY <1>1, <1>9 DEF Listed, Size, NodeRecords
<1>11. QED
  BY <1>1, <1>7, <1>8, <1>9, <1>10

\* Between calls and during a commit getRange finds the leaves in the order of
\* their keys, forwards and backwards, from one first leaf to one last leaf: a
\* split puts its halves in the place of the leaf, a join closes the gap, the
\* root takes over the ends of its last child, and no neighbour is told wrong.
THEOREM LeavesInOrder == Spec => []LeafListIsOrdered
<1>1. CommitShape /\ ListShape => LeafListIsOrdered
  <2> SUFFICES ASSUME ShapeInv, ReadsCurrent, ListInv PROVE LeafListIsOrdered
    BY DEF CommitShape, CommitInv, ListShape
  <2> DEFINE h == Heap
             L == Leaves(h, 0)
             all == {h[a] : a \in L}
             nx == Nexts(h)
             pv == Prevs(h)
             lo == Firsts(h)
             hi == Mosts(h)
  <2>1. Nodes = h
    BY NodesAreHeap
  <2>2. /\ Threaded(L, nx, pv, lo, hi) /\ L # {} /\ IsFiniteSet(L)
        /\ \A a \in L : /\ a \in DOMAIN h /\ h[a].id = a
                        /\ h[a].keys \in Seq(Keys) /\ Len(h[a].keys) = Kids(h[a])
    BY HeapLeaves DEF ListInv, ListOf, ListOn
  <2>3. \A a \in L : /\ nx[a] = h[a].next /\ pv[a] = h[a].prev
                     /\ lo[a] = h[a].keys[1] /\ hi[a] = GetMax(h[a])
    BY <2>2 DEF Nexts, Prevs, Firsts, Mosts, Key, Most, GetMax, Last
  <2>4. \A m \in all : \E a \in L : m = h[a]
    OBVIOUS
  <2> HIDE DEF nx, pv, lo, hi, h, L
  <2>5. \A a \in L : \A b \in L \ {a} :
            lo[a] \in Int /\ hi[a] \in Int /\ lo[b] \in Int /\ hi[b] \in Int
    BY <2>2 DEF Threaded, InRow
  <2>6. ASSUME NEW a \in L, NEW b \in L \ {a} PROVE Follows(h[a], h[b]) <=> Before(a, b, lo, hi)
    <3>1. h[b].keys[1] = lo[b] /\ GetMax(h[a]) = hi[a] /\ lo[b] \in Int /\ hi[a] \in Int
      BY <2>3, <2>5
    <3>2. QED
      BY <3>1 DEF Follows, Before
  <2>7. ASSUME NEW m \in all, NEW n \in all
        PROVE  /\ m.next = n.id <=> n.prev = m.id
               /\ m.next = n.id => /\ Follows(m, n)
                                   /\ ~\E l \in all : Follows(m, l) /\ Follows(l, n)
    <3>1. PICK a \in L : m = h[a]
      BY <2>4
    <3>2. PICK b \in L : n = h[b]
      BY <2>4
    <3>3. m.next = nx[a] /\ n.prev = pv[b] /\ m.id = a /\ n.id = b
      BY <2>2, <2>3, <3>1, <3>2
    <3>4. /\ nx[a] = b <=> pv[b] = a
          /\ nx[a] = b => /\ a # b /\ Before(a, b, lo, hi)
                          /\ \A d \in L : ~(Before(a, d, lo, hi) /\ Before(d, b, lo, hi))
      BY <2>2, ListLinks
    <3>5. ASSUME m.next = n.id, NEW l \in all, Follows(m, l), Follows(l, n) PROVE FALSE
      <4>1. PICK d \in L : l = h[d]
        BY <2>4
      <4>2. a # b /\ Before(a, b, lo, hi)
        BY <3>3, <3>4, <3>5
      <4>3. lo[a] \in Int /\ hi[a] \in Int /\ lo[b] \in Int /\ hi[b] \in Int
            /\ lo[d] \in Int /\ hi[d] \in Int
        BY <2>5, <4>2
      <4>4. Before(a, d, lo, hi) /\ Before(d, b, lo, hi)
        <5>1. h[d].keys[1] = lo[d] /\ GetMax(h[a]) = hi[a] /\ h[b].keys[1] = lo[b]
              /\ GetMax(h[d]) = hi[d]
          BY <2>3
        <5>2. Follows(h[a], h[d]) /\ Follows(h[d], h[b])
          BY <3>1, <3>2, <3>5, <4>1
        <5>3. QED
          BY <5>1, <5>2, <4>3 DEF Follows, Before
      <4>5. QED
        BY <4>4, <3>3, <3>4, <3>5
    <3>6. m.next = n.id => Follows(m, n)
      BY <3>1, <3>2, <3>3, <3>4, <2>6
    <3>7. QED
      BY <3>3, <3>4, <3>5, <3>6
  <2>8. /\ Cardinality({l \in all : l.next = Nil}) = 1
        /\ Cardinality({l \in all : l.prev = Nil}) = 1
    <3>1. /\ \E a \in L : \A d \in L : nx[d] = Nil <=> d = a
          /\ \E a \in L : \A d \in L : pv[d] = Nil <=> d = a
      BY <2>2, ListEnds
    <3>2. PICK a \in L : \A d \in L : nx[d] = Nil <=> d = a
      BY <3>1
    <3>3. PICK b \in L : \A d \in L : pv[d] = Nil <=> d = b
      BY <3>1
    <3>4. {l \in all : l.next = Nil} = {h[a]}
      BY <2>3, <3>2
    <3>5. {l \in all : l.prev = Nil} = {h[b]}
      BY <2>3, <3>3
    <3>6. QED
      BY <3>4, <3>5, FS_Singleton
  <2>9. QED
    BY <2>1, <2>7, <2>8 DEF LeafListIsOrdered, h, L
<1>2. QED
  BY <1>1, RootIsStored, ListKeptAlways, PTL

-------------------------------------------------------------------------------
(* Listings: the pairs of a dictionary in the order of their keys. *)

RisingSeq(ks) ==
    ks \in Seq(Int) /\ \A i, j \in 1 .. Len(ks) : i < j => ks[i] < ks[j]

InSeq(ks) == {ks[i] : i \in 1 .. Len(ks)}

\* s lists the pairs of D with a key in K.
Lists(s, K, D) ==
    \E ks : /\ RisingSeq(ks) /\ K = InSeq(ks)
            /\ s = [i \in 1 .. Len(ks) |-> <<ks[i], D[ks[i]]>>]

LEMMA ListsNothing == ASSUME NEW D PROVE Lists(<<>>, {}, D)
<1> DEFINE ks == <<>>
<1>1. ks \in Seq(Int) /\ Len(ks) = 0
  OBVIOUS
<1>2. RisingSeq(ks) /\ InSeq(ks) = {}
  BY <1>1 DEF RisingSeq, InSeq
<1>3. <<>> = [i \in 1 .. Len(ks) |-> <<ks[i], D[ks[i]]>>]
  BY <1>1
<1> HIDE DEF ks
<1>4. QED
  BY <1>2, <1>3 DEF Lists

\* The key of a place is the one with that many keys before it.
KeyAt(K, i) == CHOOSE k \in K : Cardinality({j \in K : j < k}) = i - 1

LEMMA SizeOfInterval ==
    ASSUME NEW n \in Nat
    PROVE  Cardinality(1 .. n) = n /\ IsFiniteSet(1 .. n)
<1>1. /\ IsFiniteSet(1 .. n)
      /\ Cardinality(1 .. n) = IF 1 > n THEN 0 ELSE n - 1 + 1
  BY FS_Interval
<1>2. QED
  BY <1>1

LEMMA BeforeInSeq ==
    ASSUME NEW ks, RisingSeq(ks), NEW i \in 1 .. Len(ks)
    PROVE  Cardinality({k \in InSeq(ks) : k < ks[i]}) = i - 1
<1> DEFINE S == {k \in InSeq(ks) : k < ks[i]}
           f == [j \in 1 .. i - 1 |-> ks[j]]
<1>1. /\ ks \in Seq(Int) /\ Len(ks) \in Nat
      /\ \A j, l \in 1 .. Len(ks) : j < l => ks[j] < ks[l]
      /\ \A j \in 1 .. Len(ks) : ks[j] \in Int
  BY DEF RisingSeq
<1>2. ASSUME NEW j \in 1 .. i - 1 PROVE ks[j] \in S
  BY <1>1 DEF InSeq
<1>3. ASSUME NEW k \in S PROVE \E j \in 1 .. i - 1 : ks[j] = k
  <2>1. PICK j \in 1 .. Len(ks) : k = ks[j]
    BY <1>3 DEF InSeq
  <2>2. ~ i < j /\ i # j
    BY <2>1, <1>1, <1>3
  <2>3. QED
    BY <2>1, <2>2, <1>1
<1>4. ASSUME NEW j \in 1 .. i - 1, NEW l \in 1 .. i - 1, ks[j] = ks[l] PROVE j = l
  <2>1. j \in 1 .. Len(ks) /\ l \in 1 .. Len(ks)
    BY <1>1
  <2>2. ~ j < l /\ ~ l < j
    BY <2>1, <1>4, <1>1
  <2>3. QED
    BY <2>1, <2>2
<1> HIDE DEF S
<1>5. ExistsBijection(1 .. i - 1, S)
  <2>1. f \in [1 .. i - 1 -> S] /\ \A j \in 1 .. i - 1 : f[j] = ks[j]
    BY <1>2
  <2> HIDE DEF f
  <2>2. \A j, l \in 1 .. i - 1 : f[j] = f[l] => j = l
    BY <2>1, <1>4
  <2>3. \A k \in S : \E j \in 1 .. i - 1 : f[j] = k
    BY <2>1, <1>3
  <2>4. f \in Surjection(1 .. i - 1, S)
    BY <2>1, <2>3 DEF Surjection
  <2>5. f \in Injection(1 .. i - 1, S)
    BY <2>1, <2>2 DEF Injection, IsInjective
  <2>6. QED
    BY <2>4, <2>5 DEF Bijection, ExistsBijection
<1>6. Cardinality(1 .. i - 1) = i - 1 /\ IsFiniteSet(1 .. i - 1)
  <2>1. i - 1 \in Nat
    BY <1>1
  <2>2. QED
    BY <2>1, SizeOfInterval
<1>7. Cardinality(S) = Cardinality(1 .. i - 1)
  BY <1>5, <1>6, FS_Bijection
<1>8. QED
  BY <1>6, <1>7 DEF S

LEMMA SizeOfSeq ==
    ASSUME NEW ks, RisingSeq(ks)
    PROVE  Cardinality(InSeq(ks)) = Len(ks)
<1> DEFINE S == InSeq(ks)
<1>1. /\ ks \in Seq(Int) /\ Len(ks) \in Nat
      /\ \A j, l \in 1 .. Len(ks) : j < l => ks[j] < ks[l]
      /\ \A j \in 1 .. Len(ks) : ks[j] \in Int
  BY DEF RisingSeq
<1>2. ASSUME NEW j \in 1 .. Len(ks), NEW l \in 1 .. Len(ks), ks[j] = ks[l] PROVE j = l
  <2>1. ~ j < l /\ ~ l < j
    BY <1>2, <1>1
  <2>2. QED
    BY <2>1
<1>3. ExistsBijection(1 .. Len(ks), S)
  <2> DEFINE f == [j \in 1 .. Len(ks) |-> ks[j]]
  <2>1. f \in [1 .. Len(ks) -> S] /\ \A j \in 1 .. Len(ks) : f[j] = ks[j]
    BY DEF InSeq
  <2> HIDE DEF f
  <2>2. \A j, l \in 1 .. Len(ks) : f[j] = f[l] => j = l
    BY <2>1, <1>2
  <2>3. \A k \in S : \E j \in 1 .. Len(ks) : f[j] = k
    BY <2>1 DEF InSeq
  <2> HIDE DEF S
  <2>4. f \in Surjection(1 .. Len(ks), S)
    BY <2>1, <2>3 DEF Surjection
  <2>5. f \in Injection(1 .. Len(ks), S)
    BY <2>1, <2>2 DEF Injection, IsInjective
  <2>6. QED
    BY <2>4, <2>5 DEF Bijection, ExistsBijection
<1>4. Cardinality(1 .. Len(ks)) = Len(ks) /\ IsFiniteSet(1 .. Len(ks))
  BY <1>1, SizeOfInterval
<1> HIDE DEF S
<1>5. Cardinality(S) = Cardinality(1 .. Len(ks))
  BY <1>3, <1>4, FS_Bijection
<1>6. QED
  BY <1>4, <1>5 DEF S

LEMMA PlaceInSeq ==
    ASSUME NEW ks, RisingSeq(ks), NEW i \in 1 .. Len(ks)
    PROVE  KeyAt(InSeq(ks), i) = ks[i]
<1> DEFINE K == InSeq(ks)
           P(k) == Cardinality({j \in K : j < k}) = i - 1
<1>1. /\ ks \in Seq(Int) /\ Len(ks) \in Nat
  BY DEF RisingSeq
<1>2. ks[i] \in K /\ P(ks[i])
  BY BeforeInSeq DEF InSeq
<1>3. ASSUME NEW k \in K, P(k) PROVE k = ks[i]
  <2>1. PICK j \in 1 .. Len(ks) : k = ks[j]
    BY DEF InSeq
  <2>2. Cardinality({l \in K : l < ks[j]}) = j - 1
    BY BeforeInSeq
  <2>3. j - 1 = i - 1
    BY <2>1, <2>2, <1>3
  <2>4. j = i
    BY <2>3
  <2>5. QED
    BY <2>1, <2>4
<1>4. KeyAt(K, i) = CHOOSE k \in K : P(k)
  BY DEF KeyAt
<1> HIDE DEF K, P
<1>5. (CHOOSE k \in K : P(k)) = ks[i]
  BY <1>2, <1>3
<1>6. QED
  BY <1>4, <1>5 DEF K

\* There is one listing only.
LEMMA ListsAll ==
    ASSUME NEW s, NEW K, NEW D, Lists(s, K, D)
    PROVE  s = [i \in 1 .. Cardinality(K) |-> <<KeyAt(K, i), D[KeyAt(K, i)]>>]
<1>1. PICK ks : /\ RisingSeq(ks) /\ K = InSeq(ks)
                /\ s = [i \in 1 .. Len(ks) |-> <<ks[i], D[ks[i]]>>]
  BY DEF Lists
<1>2. Cardinality(K) = Len(ks)
  BY <1>1, SizeOfSeq
<1>3. \A i \in 1 .. Len(ks) : KeyAt(K, i) = ks[i]
  BY <1>1, PlaceInSeq
<1>4. QED
  BY <1>1, <1>2, <1>3

\* The keys of f, n of them, rise and follow those of K.
Continues(f, n, K) ==
    \A i \in 1 .. n : /\ f[i] \in Int
                      /\ \A j \in 1 .. n : i < j => f[i] < f[j]
                      /\ \A k \in K : k < f[i]

Picked(f, n, D) == [i \in 1 .. n |-> <<f[i], D[f[i]]>>]

Picks(f, n) == {f[i] : i \in 1 .. n}

LEMMA ListsGo ==
    ASSUME NEW s, NEW K, NEW D, Lists(s, K, D), NEW n \in Int, NEW f, Continues(f, n, K)
    PROVE  Lists(s \o Picked(f, n, D), K \cup Picks(f, n), D)
<1> DEFINE t == Picked(f, n, D)
<1>0. /\ t = [i \in 1 .. n |-> <<f[i], D[f[i]]>>]
      /\ Picks(f, n) = {f[i] : i \in 1 .. n}
      /\ \A i \in 1 .. n : /\ f[i] \in Int
                           /\ \A j \in 1 .. n : i < j => f[i] < f[j]
                           /\ \A k \in K : k < f[i]
  BY DEF Picked, Picks, Continues
<1> HIDE DEF t
<1>1. PICK ks : /\ RisingSeq(ks) /\ K = InSeq(ks)
                /\ s = [i \in 1 .. Len(ks) |-> <<ks[i], D[ks[i]]>>]
  BY DEF Lists
<1>2. /\ ks \in Seq(Int) /\ Len(ks) \in Nat
      /\ \A j, l \in 1 .. Len(ks) : j < l => ks[j] < ks[l]
      /\ \A j \in 1 .. Len(ks) : ks[j] \in Int
  BY <1>1 DEF RisingSeq
<1> DEFINE m == Len(ks)
           o == IF n < 0 THEN 0 ELSE n
           us == [i \in 1 .. m + o |-> IF i <= m THEN ks[i] ELSE f[i - m]]
<1>3. o \in Nat /\ 1 .. o = 1 .. n /\ m \in Nat
  BY <1>2
<1> HIDE DEF o
<1>4. us \in Seq(Int) /\ Len(us) = m + o
  <2>1. us \in [1 .. m + o -> Int]
    BY <1>0, <1>2, <1>3
  <2>2. QED
    BY <2>1, <1>3
<1>5. /\ \A i \in 1 .. m : us[i] = ks[i]
      /\ \A i \in 1 .. o : us[m + i] = f[i]
  BY <1>3
<1>6. \A i \in 1 .. m + o : i \in 1 .. m \/ \E j \in 1 .. o : i = m + j
  <2>1. ASSUME NEW i \in 1 .. m + o, ~ i \in 1 .. m PROVE \E j \in 1 .. o : i = m + j
    <3>1. i - m \in 1 .. o /\ i = m + (i - m)
      BY <2>1, <1>3
    <3>2. QED
      BY <3>1
  <2>2. QED
    BY <2>1
<1> HIDE DEF us
<1>7. RisingSeq(us)
  <2>1. ASSUME NEW i \in 1 .. m + o, NEW j \in 1 .. m + o, i < j PROVE us[i] < us[j]
    <3>1. CASE j \in 1 .. m
      <4>1. i \in 1 .. m
        BY <3>1, <2>1, <1>3
      <4>2. QED
        BY <4>1, <3>1, <2>1, <1>2, <1>5
    <3>2. CASE \E y \in 1 .. o : j = m + y
      <4>1. PICK y \in 1 .. o : j = m + y
        BY <3>2
      <4>2. CASE i \in 1 .. m
        <5>1. ks[i] \in K
          BY <4>2, <1>1 DEF InSeq
        <5>2. QED
          BY <5>1, <4>1, <4>2, <1>0, <1>3, <1>5
      <4>3. CASE \E x \in 1 .. o : i = m + x
        <5>1. PICK x \in 1 .. o : i = m + x
          BY <4>3
        <5>2. x < y
          BY <5>1, <4>1, <2>1, <1>3
        <5>3. QED
          BY <5>1, <5>2, <4>1, <1>0, <1>3, <1>5
      <4>4. QED
        BY <4>2, <4>3, <1>6
    <3>3. QED
      BY <3>1, <3>2, <1>6
  <2>2. QED
    BY <2>1, <1>4 DEF RisingSeq
<1>8. InSeq(us) = K \cup {f[i] : i \in 1 .. n}
  <2>1. ASSUME NEW k \in InSeq(us) PROVE k \in K \cup {f[i] : i \in 1 .. n}
    <3>1. PICK i \in 1 .. m + o : k = us[i]
      BY <1>4 DEF InSeq
    <3>2. CASE i \in 1 .. m
      BY <3>1, <3>2, <1>1, <1>5 DEF InSeq
    <3>3. CASE \E j \in 1 .. o : i = m + j
      BY <3>1, <3>3, <1>3, <1>5
    <3>4. QED
      BY <3>2, <3>3, <1>6
  <2>2. ASSUME NEW k \in K PROVE k \in InSeq(us)
    <3>1. PICK i \in 1 .. m : k = ks[i]
      BY <1>1 DEF InSeq
    <3>2. i \in 1 .. m + o
      BY <1>3
    <3>3. QED
      BY <3>1, <3>2, <1>4, <1>5 DEF InSeq
  <2>3. ASSUME NEW i \in 1 .. n PROVE f[i] \in InSeq(us)
    <3>1. m + i \in 1 .. m + o /\ us[m + i] = f[i]
      BY <1>3, <1>5
    <3>2. QED
      BY <3>1, <1>4 DEF InSeq
  <2>4. QED
    BY <2>1, <2>2, <2>3
<1>9. s \o t = [i \in 1 .. Len(us) |-> <<us[i], D[us[i]]>>]
  <2> DEFINE d(k) == <<k, D[k]>>
             T == {d(k) : k \in InSeq(us)}
  <2>1. s = [i \in 1 .. m |-> d(ks[i])] /\ t = [i \in 1 .. o |-> d(f[i])]
    BY <1>0, <1>1, <1>3
  <2>2. \A i \in 1 .. m : d(ks[i]) \in T
    BY <1>1, <1>8 DEF InSeq
  <2>3. \A i \in 1 .. o : d(f[i]) \in T
    BY <1>3, <1>8
  <2> HIDE DEF T, d
  <2>4. s \in Seq(T) /\ Len(s) = m /\ t \in Seq(T) /\ Len(t) = o
    <3>1. s \in [1 .. m -> T] /\ t \in [1 .. o -> T]
      BY <2>1, <2>2, <2>3
    <3>2. QED
      BY ONLY <3>1, <1>3
  <2>5. SeqOfBoth(s \o t, T, s, t)
    BY <2>4, ConcatFacts
  <2>6. Len(s \o t) = m + o /\ s \o t \in Seq(T)
    BY <2>4, <2>5 DEF SeqOfBoth
  <2>7. ASSUME NEW i \in 1 .. m + o PROVE (s \o t)[i] = d(us[i])
    <3>1. CASE i \in 1 .. m
      BY <3>1, <2>1, <2>4, <2>5, <1>5 DEF SeqOfBoth
    <3>2. CASE \E j \in 1 .. o : i = m + j
      <4>1. PICK j \in 1 .. o : i = m + j
        BY <3>2
      <4>2. (s \o t)[m + j] = t[j]
        BY <2>4, <2>5 DEF SeqOfBoth
      <4>3. t[j] = d(f[j]) /\ us[m + j] = f[j]
        BY <2>1, <1>5
      <4>4. QED
        BY <4>1, <4>2, <4>3
    <3>3. QED
      BY <3>1, <3>2, <1>6
  <2>8. s \o t = [i \in 1 .. m + o |-> d(us[i])]
    <3> DEFINE u == s \o t
    <3>1. u \in [1 .. m + o -> T]
      BY <2>6, LenProperties
    <3> HIDE DEF u
    <3>2. u = [i \in 1 .. m + o |-> u[i]]
      BY <3>1
    <3>3. \A i \in 1 .. m + o : u[i] = d(us[i])
      BY <2>7 DEF u
    <3>4. QED
      BY <3>2, <3>3 DEF u
  <2>9. QED
    BY <2>8, <1>4 DEF d
<1>10. Lists(s \o t, K \cup {f[i] : i \in 1 .. n}, D)
  BY <1>7, <1>8, <1>9 DEF Lists
<1>11. QED
  BY <1>0, <1>10 DEF t

-------------------------------------------------------------------------------
(* What a search finds. *)

\* If all keys of the node at work are less than k, all keys of the tree are.
LEMMA AllBelow ==
    ASSUME NEW h, NEW q, NEW k \in Int, NEW E, AimedAt(h, q, k, E), NEW c, c = Cur(q),
           Most(h[c]) \in Int, Most(h[c]) < k
    PROVE  \A e \in E : e[1] \in Int /\ e[1] < k
<1>1. PICK live, height, low : AimedOn(h, live, height, low, q, k, E)
  BY DEF AimedAt
<1>2. /\ ShapeOn(h, live, height, q, 0, 0) /\ Order(h, live, low, 0)
      /\ Aim(h, live, height, low, c, k) /\ E = EntriesAt(h, live)
  BY <1>1 DEF AimedOn
<1>3. PICK up, pos : Linked(h, live, height, up, pos) /\ Chain(q, h, live, height)
  BY <1>2 DEF ShapeOn
<1>4. c \in live
  BY <1>3, CurLives
<1>5. /\ live \subseteq Int /\ height \in [Int -> Nat] /\ low \in [Int -> Int]
      /\ \A b \in live \ {0} : height[b] < height[0]
  BY <1>2, <1>3 DEF Linked, Hung, Order
<1>6. ASSUME NEW b \in live, height[b] = height[c] PROVE Most(h[b]) \in Int /\ Most(h[b]) < k
  <2>1. CASE b = c
    BY <2>1
  <2>2. CASE b # c
    <3>1. b # 0
      BY <2>2, <1>4, <1>5, <1>6
    <3>2. Most(h[b]) \in Int
      BY <3>1, <1>2, <1>3, ChildBelow
    <3>3. Most(h[b]) <= low[c] /\ low[c] < k /\ low[c] \in Int
      BY <2>2, <1>2, <1>4, <1>5, <1>6 DEF Aim
    <3>4. QED
      BY <3>2, <3>3
  <2>3. QED
    BY <2>1, <2>2
<1> DEFINE Far(d, a) == height[a] + d = height[c] /\ ~(Most(h[a]) \in Int /\ Most(h[a]) < k)
           S == {d \in Nat : \E a \in live : Far(d, a)}
<1>7. S = {}
  <2> SUFFICES ASSUME S # {} PROVE FALSE
    OBVIOUS
  <2>1. S \subseteq Nat
    OBVIOUS
  <2>2. PICK d \in S : \A x \in S : d <= x
    <3> HIDE DEF S
    <3>1. QED
      BY <2>1, HasSmallest
  <2>3. PICK a \in live : Far(d, a)
    BY <2>2
  <2>4. d \in Nat /\ height[a] \in Nat /\ height[c] \in Nat
    BY <1>4, <1>5, <2>2
  <2>5. d # 0
    BY <2>3, <2>4, <1>6
  <2>6. a # 0
    BY <2>3, <2>4, <2>5, <1>4, <1>5
  <2>7. /\ up[a] \in live /\ height[a] + 1 = height[up[a]]
        /\ Most(h[a]) \in Int /\ Most(h[a]) <= Most(h[up[a]])
    BY <2>6, <1>2, <1>3, ChildBelow
  <2>8. height[up[a]] + (d - 1) = height[c] /\ d - 1 \in Nat
    BY <2>3, <2>4, <2>5, <2>7, <1>5
  <2>9. ~(Most(h[up[a]]) \in Int /\ Most(h[up[a]]) < k)
    BY <2>3, <2>7
  <2>10. d - 1 \in S
    BY <2>7, <2>8, <2>9
  <2>11. QED
    BY <2>2, <2>4, <2>10
<1>8. ASSUME NEW e \in E PROVE e[1] \in Int /\ e[1] < k
  <2>1. PICK a \in live : e \in Own(h[a])
    BY <1>2 DEF EntriesAt
  <2>2. h[a].leaf /\ e \in PairsOf(h[a])
    BY <2>1 DEF Own
  <2>3. PICK j \in 1 .. Kids(h[a]) : e = <<Key(h[a], j), Kid(h[a], j)>>
    BY <2>2 DEF PairsOf
  <2>4. height[a] = 0 /\ Kids(h[a]) \in Nat
    BY <2>2, <1>3 DEF Linked, LinkedAt
  <2>5. height[c] \in Nat /\ height[a] + height[c] = height[c]
    BY <2>4, <1>4, <1>5
  <2>6. Most(h[a]) \in Int /\ Most(h[a]) < k
    BY <2>5, <1>7
  <2>7. \A i \in 1 .. Kids(h[a]) : /\ Key(h[a], i) \in Int
                                   /\ \A l \in 1 .. Kids(h[a]) : l < i => Key(h[a], l) < Key(h[a], i)
    BY <1>2 DEF Order, Ordered, Rising
  <2>8. Kids(h[a]) \in 1 .. Kids(h[a])
    BY <2>4
  <2>9. j = Kids(h[a]) \/ j < Kids(h[a])
    BY <2>4
  <2>10. Key(h[a], j) \in Int /\ Key(h[a], j) <= Most(h[a])
    BY <2>7, <2>8, <2>9 DEF Most
  <2>11. QED
    BY <2>3, <2>6, <2>10
<1>9. QED
  BY <1>8

\* The key of a search is in the leaf it comes to, or in none.
LEMMA FoundInLeaf ==
    ASSUME NEW h, NEW q, NEW k \in Int, NEW E, AimedAt(h, q, k, E), NEW c, c = Cur(q), h[c].leaf
    PROVE  /\ \A i \in 1 .. Kids(h[c]) : Key(h[c], i) = k => <<k, Kid(h[c], i)>> \in E
           /\ (\A i \in 1 .. Kids(h[c]) : Key(h[c], i) # k) => \A e \in E : e[1] # k
<1>1. PICK live, height, low : AimedOn(h, live, height, low, q, k, E)
  BY DEF AimedAt
<1>2. AtLeaf(h, live, low, q, c, k, E)
  BY <1>1, LeafFinds
<1>3. /\ E = EntriesAt(h, live \ {c}) \cup PairsOf(h[c])
      /\ \A e \in EntriesAt(h, live \ {c}) : e[1] # k
  BY <1>2 DEF AtLeaf
<1>4. \A i \in 1 .. Kids(h[c]) : Key(h[c], i) = k => <<k, Kid(h[c], i)>> \in PairsOf(h[c])
  BY DEF PairsOf
<1>5. ASSUME \A i \in 1 .. Kids(h[c]) : Key(h[c], i) # k, NEW e \in PairsOf(h[c]) PROVE e[1] # k
  <2>1. PICK i \in 1 .. Kids(h[c]) : e = <<Key(h[c], i), Kid(h[c], i)>>
    BY DEF PairsOf
  <2>2. QED
    BY <2>1, <1>5
<1>6. QED
  BY <1>3, <1>4, <1>5

\* getRange, from k on: the keys that are not in the leaf it comes to are less
\* than k or come after the leaf; if k does, no key is left.
RangeStarts(n, k, E) ==
    /\ \A e \in E : e \in PairsOf(n) \/ (e[1] \in Int /\ (e[1] < k \/ Most(n) < e[1]))
    /\ k <= Most(n) \/ \A e \in E : e[1] \in Int /\ e[1] < k

LEMMA RangeBegins ==
    ASSUME NEW h, NEW q, NEW k \in Int, NEW E, AimedAt(h, q, k, E), NEW c, c = Cur(q), h[c].leaf
    PROVE  IF Kids(h[c]) = 0 THEN E = {} ELSE RangeStarts(h[c], k, E)
<1>1. PICK live, height, low : AimedOn(h, live, height, low, q, k, E)
  BY DEF AimedAt
<1>2. AtLeaf(h, live, low, q, c, k, E)
  BY <1>1, LeafFinds
<1>3. /\ E = EntriesAt(h, live \ {c}) \cup PairsOf(h[c])
      /\ Rising(h[c], low[c]) /\ Kids(h[c]) \in Nat /\ low[c] \in Int /\ low[c] < k
      /\ q # <<>> => Kids(h[c]) >= 2
  BY <1>2 DEF AtLeaf, Rising
<1>4. /\ ShapeOn(h, live, height, q, 0, 0) /\ Order(h, live, low, 0)
      /\ Aim(h, live, height, low, c, k) /\ E = EntriesAt(h, live)
  BY <1>1 DEF AimedOn
<1>5. PICK up, pos : Linked(h, live, height, up, pos) /\ Chain(q, h, live, height)
  BY <1>4 DEF ShapeOn
<1>6. c \in live
  BY <1>5, CurLives
<1>7. CASE Kids(h[c]) = 0
  <2>1. q = <<>>
    BY <1>3, <1>7
  <2>2. live = {0} /\ c = 0
    BY <2>1, <1>4, LeafRootAlone DEF Cur
  <2>3. EntriesAt(h, live \ {c}) = {}
    BY <2>2 DEF EntriesAt
  <2>4. PairsOf(h[c]) = {}
    BY <1>7 DEF PairsOf
  <2>5. QED
    BY <2>3, <2>4, <1>3, <1>7
<1>8. CASE Kids(h[c]) # 0
  <2>1. Most(h[c]) \in Int
    BY <1>3, <1>8 DEF Rising, Most
  <2>2. ASSUME NEW e \in E, e \notin PairsOf(h[c])
        PROVE  e[1] \in Int /\ (e[1] < k \/ Most(h[c]) < e[1])
    <3>1. PICK b \in live \ {c} : e \in Own(h[b])
      BY <2>2, <1>3 DEF EntriesAt
    <3>2. h[b].leaf /\ e \in PairsOf(h[b])
      BY <3>1 DEF Own
    <3>3. PICK j \in 1 .. Kids(h[b]) : e = <<Key(h[b], j), Kid(h[b], j)>>
      BY <3>2 DEF PairsOf
    <3>4. height[b] = 0 /\ height[c] = 0 /\ Kids(h[b]) \in Nat
      BY <3>2, <1>5, <1>6 DEF Linked, LinkedAt
    <3>5. Rising(h[b], low[b])
      BY <1>4 DEF Order, Ordered
    <3>6. /\ low[b] \in Int /\ low[b] < Key(h[b], j) /\ Key(h[b], j) \in Int
          /\ Most(h[b]) \in Int /\ Key(h[b], j) <= Most(h[b])
      <4>1. Kids(h[b]) \in 1 .. Kids(h[b]) /\ (j = Kids(h[b]) \/ j < Kids(h[b]))
        BY <3>4
      <4>2. QED
        BY <4>1, <3>5 DEF Rising, Most
    <3>7. Apart(h, low, c, b)
      BY <3>4, <1>4, <1>5, <1>6, RowsApart
    <3>8. CASE Most(h[b]) <= low[c]
      BY <3>8, <3>3, <3>6, <1>3
    <3>9. CASE Most(h[c]) <= low[b]
      BY <3>9, <3>3, <3>6, <2>1
    <3>10. QED
      BY <3>7, <3>8, <3>9 DEF Apart
  <2>3. k <= Most(h[c]) \/ \A e \in E : e[1] \in Int /\ e[1] < k
    <3>1. CASE k <= Most(h[c])
      BY <3>1
    <3>2. CASE ~ k <= Most(h[c])
      <4>1. Most(h[c]) < k
        BY <3>2, <2>1
      <4>2. QED
        BY <4>1, <2>1, AllBelow
    <3>3. QED
      BY <3>1, <3>2
  <2>4. QED
    BY <2>2, <2>3, <1>8 DEF RangeStarts
<1>9. QED
  BY <1>7, <1>8

\* The leaves of the tree hold its pairs, each in order.
InLeaves(h, E) ==
    /\ E = UNION {PairsOf(h[a]) : a \in Leaves(h, 0)}
    /\ \A a \in Leaves(h, 0) : /\ a \in DOMAIN h /\ h[a].leaf /\ Kids(h[a]) \in Nat
                               /\ \E b : Rising(h[a], b)
    /\ \A a \in Leaves(h, 0) : \A d \in Leaves(h, 0) \ {a} : Kids(h[d]) # 0

LEMMA LeavesHold ==
    ASSUME NEW h, Finite(h), NEW q, NEW k, NEW E, AimedAt(h, q, k, E)
    PROVE  InLeaves(h, E)
<1>1. PICK live, height, low : AimedOn(h, live, height, low, q, k, E)
  BY DEF AimedAt
<1>2. /\ ShapeOn(h, live, height, q, 0, 0) /\ Order(h, live, low, 0) /\ E = EntriesAt(h, live)
  BY <1>1 DEF AimedOn
<1>3. PICK up, pos : Linked(h, live, height, up, pos)
  BY <1>2 DEF ShapeOn
<1>4. Leaves(h, 0) = LeavesIn(h, live) /\ live \subseteq DOMAIN h
  BY <1>2, LeavesOfTree DEF Finite
<1>5. ASSUME NEW a \in Leaves(h, 0)
      PROVE  a \in DOMAIN h /\ h[a].leaf /\ Kids(h[a]) \in Nat /\ \E b : Rising(h[a], b)
  <2>1. a \in live /\ h[a].leaf
    BY <1>4 DEF LeavesIn
  <2>2. QED
    BY <2>1, <1>2, <1>3, <1>4 DEF Linked, LinkedAt, Order, Ordered
<1>6. E = UNION {PairsOf(h[a]) : a \in Leaves(h, 0)}
  <2>1. ASSUME NEW e \in E PROVE \E a \in Leaves(h, 0) : e \in PairsOf(h[a])
    <3>1. PICK a \in live : e \in Own(h[a])
      BY <1>2 DEF EntriesAt
    <3>2. QED
      BY <3>1, <1>4 DEF Own, LeavesIn
  <2>2. ASSUME NEW a \in Leaves(h, 0), NEW e \in PairsOf(h[a]) PROVE e \in E
    <3>1. a \in live /\ h[a].leaf
      BY <1>4 DEF LeavesIn
    <3>2. QED
      BY <3>1, <1>2 DEF EntriesAt, Own
  <2>3. QED
    BY <2>1, <2>2
<1>7. ASSUME NEW a \in Leaves(h, 0), NEW d \in Leaves(h, 0) \ {a} PROVE Kids(h[d]) # 0
  <2>1. a \in live /\ d \in live /\ h[a].leaf /\ h[d].leaf /\ a # d
    BY <1>4 DEF LeavesIn
  <2>2. d # 0
    BY <2>1, <1>3, LeafBelowRoot
  <2>3. Sizes(h, live, Cur(q), 0, 0)
    BY <1>2 DEF ShapeOn
  <2>4. Size(h[d]) + 0 >= NodeSize /\ Size(h[d]) \in Nat /\ Kids(h[d]) = Size(h[d])
    BY <2>1, <2>2, <2>3, <1>4 DEF Sizes, Least
  <2>5. QED
    BY <2>4, NodeSizeAssumption
<1>8. QED
  BY <1>5, <1>6, <1>7 DEF InLeaves

\* The keys of a leaf are those from its first to its last one.
LEMMA KeysOfLeaf ==
    ASSUME NEW n, NEW b, Rising(n, b), Kids(n) \in Nat, NEW e \in PairsOf(n)
    PROVE  /\ Kids(n) # 0 /\ e[1] \in Int /\ Key(n, 1) \in Int /\ Most(n) \in Int
           /\ Key(n, 1) <= e[1] /\ e[1] <= Most(n)
<1>1. PICK j \in 1 .. Kids(n) : e = <<Key(n, j), Kid(n, j)>>
  BY DEF PairsOf
<1>2. 1 \in 1 .. Kids(n) /\ Kids(n) \in 1 .. Kids(n)
  BY <1>1
<1>3. j = 1 \/ 1 < j
  BY <1>1
<1>4. j = Kids(n) \/ j < Kids(n)
  BY <1>1
<1>5. QED
  BY <1>1, <1>2, <1>3, <1>4 DEF Rising, Most

-------------------------------------------------------------------------------
(* What getRange collects. *)

\* The dictionary of the pairs E over the values vs.
DictOf(D, E, vs) ==
    /\ DOMAIN D = {e[1] : e \in E} /\ \A e \in E : e[1] \in Int /\ D[e[1]] = vs[e[2]]

InRange(D, l, r) == {k \in DOMAIN D : l <= k /\ k < r}

\* The keys of the others are before or after those of leaf n.
Outside(n, E) ==
    \A e \in E : e \in PairsOf(n) \/ (e[1] \in Int /\ (e[1] < Key(n, 1) \/ Most(n) < e[1]))

Full(n, E) ==
    /\ Kids(n) \in Nat /\ Kids(n) # 0 /\ n.keys \in Seq(Keys) /\ Len(n.keys) = Kids(n)
    /\ (\E b : Rising(n, b)) /\ PairsOf(n) \subseteq E /\ Outside(n, E)

\* getRange has come to leaf n and has listed in s what lies before.
Visits(n, l, r, E, D, s) ==
    /\ Full(n, E)
    /\ l <= Most(n) \/ \A e \in E : e[1] < l
    /\ Lists(s, {k \in InRange(D, l, r) : k < Key(n, 1)}, D)

Slice(n, l, r, vs) ==
    [i \in 1 .. LowerBound(n, r) - LowerBound(n, l) |->
        <<n.keys[LowerBound(n, l) + i - 1], vs[n.ptrs[LowerBound(n, l) + i - 1]]>>]

UpToMost(n, l, r, D) == {k \in InRange(D, l, r) : k <= Most(n)}

LEMMA FullLeaf ==
    ASSUME NEW n, NEW E, Full(n, E), NEW k \in Int
    PROVE  /\ Key(n, 1) \in Int /\ Most(n) \in Int /\ Key(n, 1) <= Most(n)
           /\ Parts(n, k, LowerBound(n, k)) /\ LowerBound(n, k) \in 1 .. Kids(n) + 1
           /\ \A i \in 1 .. Kids(n) : /\ Key(n, i) \in Int /\ Key(n, i) <= Most(n)
                                      /\ Key(n, 1) <= Key(n, i)
                                      /\ \A j \in 1 .. Kids(n) : j < i => Key(n, j) < Key(n, i)
                                      /\ <<Key(n, i), Kid(n, i)>> \in E
<1>1. PICK b : Rising(n, b)
  BY DEF Full
<1>2. Kids(n) \in Nat /\ Kids(n) # 0 /\ n.keys \in Seq(Keys) /\ Len(n.keys) = Kids(n)
      /\ PairsOf(n) \subseteq E
  BY DEF Full
<1>3. Parts(n, k, LowerBound(n, k))
  BY <1>1, <1>2, PositionParts
<1>4. 1 \in 1 .. Kids(n) /\ Kids(n) \in 1 .. Kids(n)
  BY <1>2
<1>5. \A i \in 1 .. Kids(n) : /\ Key(n, i) \in Int
                              /\ \A j \in 1 .. Kids(n) : j < i => Key(n, j) < Key(n, i)
  BY <1>1 DEF Rising
<1>6. ASSUME NEW i \in 1 .. Kids(n) PROVE Key(n, i) <= Most(n) /\ Key(n, 1) <= Key(n, i)
  <2>1. (i = Kids(n) \/ i < Kids(n)) /\ (i = 1 \/ 1 < i)
    BY <1>2
  <2>2. Key(n, i) \in Int
    BY <1>5
  <2>3. QED
    BY <2>1, <2>2, <1>4, <1>5 DEF Most
<1>7. \A i \in 1 .. Kids(n) : <<Key(n, i), Kid(n, i)>> \in E
  BY <1>2 DEF PairsOf
<1>8. QED
  BY <1>3, <1>4, <1>5, <1>6, <1>7 DEF Parts, Most

LEMMA SliceLists ==
    ASSUME NEW n, NEW l \in Int, NEW r \in Int, NEW E, NEW D, NEW vs, DictOf(D, E, vs), NEW s,
           Visits(n, l, r, E, D, s)
    PROVE  Lists(s \o Slice(n, l, r, vs), UpToMost(n, l, r, D), D)
<1> DEFINE p == LowerBound(n, l)
           q == LowerBound(n, r)
           f == [i \in 1 .. q - p |-> Key(n, p + i - 1)]
           K == {k \in InRange(D, l, r) : k < Key(n, 1)}
<1>1. Full(n, E) /\ Lists(s, K, D)
  BY DEF Visits
<1>2. /\ Parts(n, l, p) /\ Parts(n, r, q) /\ p \in 1 .. Kids(n) + 1 /\ q \in 1 .. Kids(n) + 1
      /\ Key(n, 1) \in Int /\ Most(n) \in Int /\ Kids(n) \in Nat
      /\ \A i \in 1 .. Kids(n) : /\ Key(n, i) \in Int /\ Key(n, i) <= Most(n)
                                 /\ Key(n, 1) <= Key(n, i)
                                 /\ \A j \in 1 .. Kids(n) : j < i => Key(n, j) < Key(n, i)
                                 /\ <<Key(n, i), Kid(n, i)>> \in E
  BY <1>1, FullLeaf DEF Full
<1>3. Slice(n, l, r, vs) = [i \in 1 .. q - p |-> <<f[i], D[f[i]]>>]
  <2>1. ASSUME NEW i \in 1 .. q - p
        PROVE  /\ n.keys[p + i - 1] = f[i] /\ vs[n.ptrs[p + i - 1]] = D[f[i]]
    <3>1. p + i - 1 \in 1 .. Kids(n)
      BY <1>2
    <3>2. <<Key(n, p + i - 1), Kid(n, p + i - 1)>> \in E
      BY <3>1, <1>2
    <3>3. D[Key(n, p + i - 1)] = vs[Kid(n, p + i - 1)]
      BY <3>2 DEF DictOf
    <3>4. f[i] = Key(n, p + i - 1)
      OBVIOUS
    <3>5. QED
      BY <3>3, <3>4 DEF Key, Kid
  <2>2. Slice(n, l, r, vs) = [i \in 1 .. q - p |-> <<n.keys[p + i - 1], vs[n.ptrs[p + i - 1]]>>]
    BY DEF Slice
  <2> HIDE DEF f, p, q
  <2>3. QED
    BY <2>1, <2>2
<1>4. ASSUME NEW i \in 1 .. q - p
      PROVE  /\ f[i] \in Int /\ (\A j \in 1 .. q - p : i < j => f[i] < f[j])
             /\ \A k \in K : k < f[i]
  <2>1. p + i - 1 \in 1 .. Kids(n) /\ f[i] = Key(n, p + i - 1)
    BY <1>2
  <2>2. ASSUME NEW j \in 1 .. q - p, i < j PROVE f[i] < f[j]
    <3>1. p + j - 1 \in 1 .. Kids(n) /\ f[j] = Key(n, p + j - 1) /\ p + i - 1 < p + j - 1
      BY <1>2, <2>2
    <3>2. QED
      BY <2>1, <3>1, <1>2
  <2>3. \A k \in K : k \in Int
    BY DEF InRange, DictOf
  <2>4. \A k \in K : k < Key(n, 1)
    OBVIOUS
  <2>5. f[i] \in Int /\ Key(n, 1) <= f[i]
    BY <2>1, <1>2
  <2> HIDE DEF K, f
  <2>6. \A k \in K : k < f[i]
    BY <2>3, <2>4, <2>5, <1>2
  <2>7. QED
    BY <2>2, <2>5, <2>6
<1>5. UpToMost(n, l, r, D) = K \cup {f[i] : i \in 1 .. q - p}
  <2>1. ASSUME NEW k \in UpToMost(n, l, r, D), k \notin K
        PROVE  \E i \in 1 .. q - p : k = f[i]
    <3>1. k \in DOMAIN D /\ l <= k /\ k < r /\ k <= Most(n) /\ ~ k < Key(n, 1)
      BY <2>1 DEF UpToMost, InRange
    <3>2. PICK e \in E : k = e[1]
      BY <3>1 DEF DictOf
    <3>3. k \in Int
      BY <3>2 DEF DictOf
    <3>4. e \in PairsOf(n)
      BY <3>1, <3>2, <3>3, <1>1, <1>2 DEF Full, Outside
    <3>5. PICK j \in 1 .. Kids(n) : e = <<Key(n, j), Kid(n, j)>>
      BY <3>4 DEF PairsOf
    <3>6. k = Key(n, j)
      BY <3>2, <3>5
    <3>7. ~ j < p
      BY <3>1, <3>3, <3>6, <1>2 DEF Parts
    <3>8. j < q
      BY <3>1, <3>3, <3>6, <1>2 DEF Parts
    <3>9. j - p + 1 \in 1 .. q - p /\ p + (j - p + 1) - 1 = j
      BY <3>7, <3>8, <1>2
    <3>10. k = f[j - p + 1]
      BY <3>6, <3>9
    <3>11. QED
      BY <3>9, <3>10
  <2>2. ASSUME NEW k \in K PROVE k \in UpToMost(n, l, r, D)
    <3>1. k \in InRange(D, l, r) /\ k < Key(n, 1) /\ k \in Int /\ Key(n, 1) <= Most(n)
      BY <1>1, FullLeaf DEF InRange, DictOf
    <3>2. QED
      BY <3>1, <1>2 DEF UpToMost
  <2>3. ASSUME NEW i \in 1 .. q - p PROVE f[i] \in UpToMost(n, l, r, D)
    <3>1. p + i - 1 \in 1 .. Kids(n) /\ f[i] = Key(n, p + i - 1) /\ p + i - 1 < q
          /\ ~ p + i - 1 < p
      BY <1>2
    <3>2. l <= f[i] /\ f[i] < r
      BY <3>1, <1>2 DEF Parts
    <3>3. f[i] \in DOMAIN D
      <4>1. <<Key(n, p + i - 1), Kid(n, p + i - 1)>> \in E
        BY <3>1, <1>2
      <4>2. QED
        BY <4>1, <3>1 DEF DictOf
    <3>4. f[i] <= Most(n)
      BY <3>1, <1>2
    <3>5. QED
      BY <3>2, <3>3, <3>4 DEF UpToMost, InRange
  <2>4. \A k \in K : k \in UpToMost(n, l, r, D)
    BY <2>2
  <2> HIDE DEF K, f, p, q
  <2>5. QED
    BY <2>1, <2>3, <2>4
<1>6. q - p \in Int
  BY <1>2
<1> HIDE DEF K, f, p, q
<1>7. Lists(s \o Slice(n, l, r, vs), K \cup {f[i] : i \in 1 .. q - p}, D)
  <2>1. Continues(f, q - p, K)
    BY <1>4 DEF Continues
  <2>2. Lists(s \o Picked(f, q - p, D), K \cup Picks(f, q - p), D)
    BY <2>1, <1>1, <1>6, ListsGo
  <2>3. QED
    BY <2>2, <1>3 DEF Picked, Picks
<1>8. QED
  BY <1>5, <1>7

\* What is left to list after leaf n, when getRange stops there: nothing.
LEMMA RangeEnds ==
    ASSUME NEW n, NEW l \in Int, NEW r \in Int, NEW E, NEW D, NEW vs, DictOf(D, E, vs), NEW s,
           Visits(n, l, r, E, D, s),
           \/ LowerBound(n, l) = LowerBound(n, r) \/ LowerBound(n, r) <= Kids(n)
           \/ \A e \in E : e \in PairsOf(n) \/ e[1] < Key(n, 1)
    PROVE  UpToMost(n, l, r, D) = InRange(D, l, r)
<1> DEFINE p == LowerBound(n, l)
           q == LowerBound(n, r)
<1>1. Full(n, E) /\ (l <= Most(n) \/ \A e \in E : e[1] < l)
  BY DEF Visits
<1>2. /\ Parts(n, l, p) /\ Parts(n, r, q) /\ p \in 1 .. Kids(n) + 1 /\ q \in 1 .. Kids(n) + 1
      /\ Key(n, 1) \in Int /\ Most(n) \in Int /\ Kids(n) \in Nat /\ Key(n, 1) <= Most(n)
      /\ Kids(n) # 0
      /\ \A i \in 1 .. Kids(n) : Key(n, i) \in Int /\ Key(n, i) <= Most(n)
  BY <1>1, FullLeaf DEF Full
<1> SUFFICES ASSUME NEW k \in InRange(D, l, r) PROVE k <= Most(n)
  BY DEF UpToMost
<1>3. k \in DOMAIN D /\ l <= k /\ k < r
  BY DEF InRange
<1>4. PICK e \in E : k = e[1] /\ k \in Int
  BY <1>3 DEF DictOf
<1>5. CASE q <= Kids(n)
  <2>1. q \in 1 .. Kids(n) /\ ~ q < q
    BY <1>2, <1>5
  <2>2. r <= Key(n, q)
    BY <2>1, <1>2 DEF Parts
  <2>3. QED
    BY <2>1, <2>2, <1>2, <1>3, <1>4
<1>6. CASE p = q /\ ~ q <= Kids(n)
  <2>1. Kids(n) \in 1 .. Kids(n) /\ Kids(n) < p
    BY <1>2, <1>6
  <2>2. Most(n) < l
    BY <2>1, <1>2 DEF Parts, Most
  <2>3. k < l
    BY <2>2, <1>1, <1>2, <1>4
  <2>4. QED
    BY <2>3, <1>3, <1>4
<1>7. CASE \A x \in E : x \in PairsOf(n) \/ x[1] < Key(n, 1)
  <2>1. CASE e \in PairsOf(n)
    <3>1. PICK j \in 1 .. Kids(n) : e = <<Key(n, j), Kid(n, j)>>
      BY <2>1 DEF PairsOf
    <3>2. QED
      BY <3>1, <1>2, <1>4
  <2>2. CASE e[1] < Key(n, 1)
    BY <2>2, <1>2, <1>4
  <2>3. QED
    BY <2>1, <2>2, <1>7
<1>8. QED
  BY <1>5, <1>6, <1>7

\* Leaf m is the next one after leaf n.
Succeeds(m, n, E) ==
    /\ Most(n) < Key(m, 1)
    /\ \A e \in E : e \in PairsOf(m) \/ (e[1] \in Int /\ (e[1] <= Most(n) \/ Most(m) < e[1]))

LEMMA RangeGoesOn ==
    ASSUME NEW n, NEW l \in Int, NEW r \in Int, NEW E, NEW D, NEW vs, DictOf(D, E, vs), NEW s,
           Visits(n, l, r, E, D, s), LowerBound(n, l) # LowerBound(n, r),
           ~ LowerBound(n, r) <= Kids(n),
           NEW m, Full(m, E), Succeeds(m, n, E)
    PROVE  Visits(m, l, r, E, D, s \o Slice(n, l, r, vs))
<1> DEFINE p == LowerBound(n, l)
           q == LowerBound(n, r)
<1>1. Full(n, E)
  BY DEF Visits
<1>2. /\ Parts(n, l, p) /\ p \in 1 .. Kids(n) + 1 /\ q \in 1 .. Kids(n) + 1
      /\ Most(n) \in Int /\ Kids(n) \in Nat
      /\ \A i \in 1 .. Kids(n) : Key(n, i) \in Int /\ Key(n, i) <= Most(n)
  BY <1>1, FullLeaf DEF Full
<1>3. Key(m, 1) \in Int /\ Most(m) \in Int /\ Key(m, 1) <= Most(m) /\ Most(n) < Key(m, 1)
  BY FullLeaf DEF Succeeds
<1>4. l <= Most(m)
  <2>1. p \in 1 .. Kids(n) /\ ~ p < p
    BY <1>2
  <2>2. l <= Key(n, p)
    BY <2>1, <1>2 DEF Parts
  <2>3. QED
    BY <2>1, <2>2, <1>2, <1>3
<1>5. UpToMost(n, l, r, D) = {k \in InRange(D, l, r) : k < Key(m, 1)}
  <2>1. ASSUME NEW k \in InRange(D, l, r) PROVE k <= Most(n) <=> k < Key(m, 1)
    <3>1. PICK e \in E : k = e[1] /\ k \in Int
      BY DEF DictOf, InRange
    <3>2. CASE e \in PairsOf(m)
      <4>1. PICK j \in 1 .. Kids(m) : e = <<Key(m, j), Kid(m, j)>>
        BY <3>2 DEF PairsOf
      <4>2. Key(m, 1) <= k
        BY <4>1, <3>1, FullLeaf
      <4>3. QED
        BY <4>2, <3>1, <1>2, <1>3
    <3>3. CASE e[1] <= Most(n) \/ Most(m) < e[1]
      BY <3>1, <3>3, <1>2, <1>3
    <3>4. QED
      BY <3>2, <3>3 DEF Succeeds
  <2>2. QED
    BY <2>1 DEF UpToMost
<1>6. Lists(s \o Slice(n, l, r, vs), UpToMost(n, l, r, D), D)
  BY SliceLists
<1>7. QED
  BY <1>4, <1>5, <1>6 DEF Visits

\* A search for the left end has come to leaf n.
LEMMA RangeIsBegun ==
    ASSUME NEW n, NEW l \in Int, NEW r \in Int, NEW E, NEW D, NEW vs, DictOf(D, E, vs),
           Full(n, E), RangeStarts(n, l, E)
    PROVE  Visits(n, l, r, E, D, <<>>)
<1>1. Key(n, 1) \in Int /\ Most(n) \in Int /\ Key(n, 1) <= Most(n)
  BY FullLeaf
<1>2. ASSUME NEW k \in InRange(D, l, r), k < Key(n, 1) PROVE FALSE
  <2>1. PICK e \in E : k = e[1] /\ k \in Int
    BY DEF DictOf, InRange
  <2>2. l <= k
    BY DEF InRange
  <2>3. CASE e \in PairsOf(n)
    <3>1. PICK j \in 1 .. Kids(n) : e = <<Key(n, j), Kid(n, j)>>
      BY <2>3 DEF PairsOf
    <3>2. Key(n, 1) <= k
      BY <3>1, <2>1, FullLeaf
    <3>3. QED
      BY <3>2, <2>1, <1>1, <1>2
  <2>4. CASE e[1] < l \/ Most(n) < e[1]
    BY <2>1, <2>2, <2>4, <1>1, <1>2
  <2>5. QED
    BY <2>3, <2>4 DEF RangeStarts
<1>3. {k \in InRange(D, l, r) : k < Key(n, 1)} = {}
  BY <1>2
<1>4. Lists(<<>>, {k \in InRange(D, l, r) : k < Key(n, 1)}, D)
  BY <1>3, ListsNothing
<1>5. l <= Most(n) \/ \A e \in E : e[1] < l
  BY DEF RangeStarts
<1>6. QED
  BY <1>4, <1>5 DEF Visits

LEMMA LeafIsFull ==
    ASSUME NEW h, Finite(h), ListOf(h), NEW E, InLeaves(h, E), NEW c \in Leaves(h, 0),
           Kids(h[c]) # 0
    PROVE  Full(h[c], E)
<1> DEFINE n == h[c]
           L == Leaves(h, 0)
<1>1. /\ Threaded(L, Nexts(h), Prevs(h), Firsts(h), Mosts(h)) /\ L \subseteq DOMAIN h
      /\ E = UNION {PairsOf(h[a]) : a \in L}
      /\ \A a \in L : Kids(h[a]) \in Nat /\ \E b : Rising(h[a], b)
  BY DEF ListOf, ListOn, InLeaves
<1>2. n.keys \in Seq(Keys) /\ Len(n.keys) = Kids(n) /\ Kids(n) \in Nat
  BY <1>1 DEF Finite, Listed, Size, NodeRecords
<1>3. PairsOf(n) \subseteq E /\ \E b : Rising(n, b)
  BY <1>1
<1>4. ASSUME NEW e \in E, e \notin PairsOf(n)
      PROVE  e[1] \in Int /\ (e[1] < Key(n, 1) \/ Most(n) < e[1])
  <2>1. PICK a \in L : e \in PairsOf(h[a])
    BY <1>1
  <2>2. a # c
    BY <2>1, <1>4
  <2>3. PICK b : Rising(h[a], b)
    BY <1>1
  <2>4. /\ e[1] \in Int /\ Key(h[a], 1) \in Int /\ Most(h[a]) \in Int
        /\ Key(h[a], 1) <= e[1] /\ e[1] <= Most(h[a])
    BY <2>1, <2>3, <1>1, KeysOfLeaf
  <2>5. /\ Firsts(h)[a] = Key(h[a], 1) /\ Firsts(h)[c] = Key(n, 1)
        /\ Mosts(h)[a] = Most(h[a]) /\ Mosts(h)[c] = Most(n)
    BY <1>1 DEF Firsts, Mosts
  <2>6. /\ Firsts(h)[c] \in Int /\ Mosts(h)[c] \in Int
        /\ Mosts(h)[a] < Firsts(h)[c] \/ Mosts(h)[c] < Firsts(h)[a]
    BY <1>1, <2>2 DEF Threaded, InRow, Before
  <2> HIDE DEF n, L
  <2>7. QED
    BY <2>4, <2>5, <2>6
<1>5. QED
  BY <1>2, <1>3, <1>4 DEF Full, Outside

LEMMA LeafIsLast ==
    ASSUME NEW h, Finite(h), ListOf(h), NEW E, InLeaves(h, E), NEW c \in Leaves(h, 0),
           Kids(h[c]) # 0, h[c].next = Nil
    PROVE  \A e \in E : e \in PairsOf(h[c]) \/ e[1] < Key(h[c], 1)
<1> DEFINE n == h[c]
           L == Leaves(h, 0)
<1>1. /\ Threaded(L, Nexts(h), Prevs(h), Firsts(h), Mosts(h)) /\ L \subseteq DOMAIN h
      /\ E = UNION {PairsOf(h[a]) : a \in L}
      /\ \A a \in L : Kids(h[a]) \in Nat /\ \E b : Rising(h[a], b)
  BY DEF ListOf, ListOn, InLeaves
<1>2. ASSUME NEW e \in E, e \notin PairsOf(n) PROVE e[1] < Key(n, 1)
  <2>1. PICK a \in L : e \in PairsOf(h[a])
    BY <1>1
  <2>2. a # c
    BY <2>1, <1>2
  <2>3. PICK b : Rising(h[a], b)
    BY <1>1
  <2>4. e[1] \in Int /\ Most(h[a]) \in Int /\ e[1] <= Most(h[a])
    BY <2>1, <2>3, <1>1, KeysOfLeaf
  <2>5. Firsts(h)[c] = Key(n, 1) /\ Mosts(h)[a] = Most(h[a]) /\ Nexts(h)[c] = Nil
    BY <1>1 DEF Firsts, Mosts, Nexts
  <2>6. Firsts(h)[c] \in Int /\ Mosts(h)[a] < Firsts(h)[c]
    BY <1>1, <2>2, <2>5 DEF Threaded, InRow, NextIsNext, Before
  <2> HIDE DEF n, L
  <2>7. QED
    BY <2>4, <2>5, <2>6
<1>3. QED
  BY <1>2

LEMMA LeafHasNext ==
    ASSUME NEW h, Finite(h), ListOf(h), NEW E, InLeaves(h, E), NEW c \in Leaves(h, 0),
           Kids(h[c]) # 0, NEW d, d = h[c].next, d # Nil
    PROVE  d \in Leaves(h, 0) /\ Full(h[d], E) /\ Succeeds(h[d], h[c], E)
<1> DEFINE n == h[c]
           m == h[d]
           L == Leaves(h, 0)
<1>1. /\ Threaded(L, Nexts(h), Prevs(h), Firsts(h), Mosts(h)) /\ L \subseteq DOMAIN h
      /\ E = UNION {PairsOf(h[a]) : a \in L}
      /\ \A a \in L : Kids(h[a]) \in Nat /\ \E b : Rising(h[a], b)
      /\ \A a \in L : \A b \in L \ {a} : Kids(h[b]) # 0
  BY DEF ListOf, ListOn, InLeaves
<1>2. Nexts(h)[c] = d
  BY <1>1 DEF Nexts
<1>3. /\ d \in L \ {c} /\ Before(c, d, Firsts(h), Mosts(h))
      /\ \A a \in L \ {c, d} : \/ Before(a, c, Firsts(h), Mosts(h))
                               \/ Before(d, a, Firsts(h), Mosts(h))
  BY <1>1, <1>2 DEF Threaded, NextIsNext
<1>4. Kids(m) # 0
  BY <1>1, <1>3
<1>5. Full(m, E) /\ Full(n, E)
  BY <1>3, <1>4, LeafIsFull
<1>6. /\ Key(n, 1) \in Int /\ Most(n) \in Int /\ Key(n, 1) <= Most(n)
      /\ Key(m, 1) \in Int /\ Most(m) \in Int /\ Key(m, 1) <= Most(m)
  <2>1. 0 \in Int
    OBVIOUS
  <2>2. QED
    BY <2>1, <1>5, FullLeaf
<1>7. /\ Firsts(h)[c] = Key(n, 1) /\ Mosts(h)[c] = Most(n)
      /\ Firsts(h)[d] = Key(m, 1) /\ Mosts(h)[d] = Most(m)
  BY <1>1, <1>3 DEF Firsts, Mosts
<1>8. ASSUME NEW e \in E, e \notin PairsOf(m)
      PROVE  e[1] \in Int /\ (e[1] <= Most(n) \/ Most(m) < e[1])
  <2>1. PICK a \in L : e \in PairsOf(h[a])
    BY <1>1
  <2>2. PICK b : Rising(h[a], b)
    BY <1>1
  <2>3. /\ e[1] \in Int /\ Key(h[a], 1) \in Int /\ Most(h[a]) \in Int
        /\ Key(h[a], 1) <= e[1] /\ e[1] <= Most(h[a])
    BY <2>1, <2>2, <1>1, KeysOfLeaf
  <2>4. CASE a = c
    BY <2>3, <2>4
  <2>5. CASE a # c
    <3>1. a \in L \ {c, d}
      BY <2>1, <2>5, <1>8
    <3>2. Firsts(h)[a] = Key(h[a], 1) /\ Mosts(h)[a] = Most(h[a])
      BY <1>1 DEF Firsts, Mosts
    <3>3. Most(h[a]) < Key(n, 1) \/ Most(m) < Key(h[a], 1)
      BY <3>1, <3>2, <1>3, <1>7 DEF Before
    <3> HIDE DEF n, m, L
    <3>4. QED
      BY <3>3, <2>3, <1>6
  <2>6. QED
    BY <2>4, <2>5
<1>9. Most(n) < Key(m, 1)
  BY <1>3, <1>7 DEF Before
<1>10. QED
  BY <1>3, <1>5, <1>8, <1>9 DEF Succeeds

-------------------------------------------------------------------------------
(* The tree as a dictionary. *)

TreeInv == CommitShape /\ ListShape

LEMMA TreeInvStep == TreeInv /\ [Next]_vars => TreeInv'
BY CommitShapeStep, ListStep DEF TreeInv

LEMMA DictIsTree ==
    ASSUME TreeInv, NEW E, PairsMatch(E)
    PROVE  /\ TreeEntries = E /\ DictOf(Dict, E, valueStorage) /\ OneToOne(E)
           /\ Dict = [k \in {e[1] : e \in E} |-> Dict[k]]
<1>1. ShapeInv /\ ReadsCurrent /\ TreeOf(E) /\ Matched(E, DOMAIN valueStorage)
  BY DEF TreeInv, CommitShape, CommitInv, PairsMatch
<1>2. TreeEntries = E /\ OneToOne(E)
  BY <1>1, TreeHasPairs DEF Matched
<1>3. Dict = [k \in {e[1] : e \in E} |-> valueStorage[(CHOOSE e \in E : e[1] = k)[2]]]
  BY <1>2 DEF Dict
<1>4. ASSUME NEW e \in E PROVE e[1] \in Int
  <2>1. PICK live, height, up, pos :
            Standing(Heap, live, height, up, pos) /\ E = EntriesAt(Heap, live)
    BY <1>1, HeapStands
  <2>2. PICK a \in live : e \in Own(Heap[a])
    BY <2>1 DEF EntriesAt
  <2>3. a \in Ids
    BY <2>1, HeapNodes, <1>1 DEF Standing, Linked
  <2>4. NodeOK(Heap[a], nextNodeId, nextValueId)
    BY <2>3, HeapNodes, <1>1
  <2>5. PICK i \in 1 .. Kids(Heap[a]) : e = <<Key(Heap[a], i), Kid(Heap[a], i)>>
    BY <2>2 DEF Own, PairsOf
  <2>6. Key(Heap[a], i) \in Keys
    BY <2>4, KeysOfNode
  <2>7. QED
    BY <2>5, <2>6, KeysAssumption
<1>5. ASSUME NEW e \in E PROVE Dict[e[1]] = valueStorage[e[2]]
  <2>1. (CHOOSE f \in E : f[1] = e[1]) = e
    BY <1>2 DEF OneToOne
  <2>2. QED
    BY <1>3, <2>1
<1>6. QED
  BY <1>2, <1>3, <1>4, <1>5 DEF DictOf

DictHas(E) ==
    /\ TreeEntries = E /\ DictOf(Dict, E, valueStorage) /\ OneToOne(E)
    /\ Dict = [k \in {e[1] : e \in E} |-> Dict[k]]

DictIsRight == \A F : PairsMatch(F) => DictHas(F)

LEMMA DictHasTree == TreeInv => DictIsRight
BY DictIsTree DEF DictHas, DictIsRight

\* A step that changes neither the pairs nor the values.
LEMMA SameDict ==
    ASSUME TreeInv, TreeInv',
           QuietStep \/ CommitNode \/ UNCHANGED vars \/ \E c \in Calls : Invoke(c)
    PROVE  /\ Dict' = Dict /\ TreeEntries' = TreeEntries /\ valueStorage' = valueStorage
           /\ \E E : PairsMatch(E) /\ PairsMatch(E)'
<1>1. PICK E : PairsMatch(E)
  BY DEF TreeInv, ListShape, ShapeInv
<1>2. PairsMatch(E)' /\ valueStorage' = valueStorage
  BY <1>1, QuietMatch DEF TreeInv, ListShape
<1>3. TreeEntries = E
  BY <1>1, DictIsTree
<1>4. TreeEntries' = E
  <2>1. (TreeInv => DictIsRight)'
    BY DictHasTree, PTL
  <2>2. QED
    BY <1>2, <2>1 DEF DictHas, DictIsRight
<1>5. QED
  BY <1>1, <1>2, <1>3, <1>4 DEF Dict

-------------------------------------------------------------------------------
(* Where a call has come to on its way down. *)

Searching == \E q : AimedAt(Heap, q, call.key, TreeEntries) /\ node = Heap[Cur(q)]

Visiting ==
    \E a \in Leaves(Heap, 0) :
        node = Heap[a] /\ Visits(node, call.key, call.arg, TreeEntries, Dict, dest)

\* The search for a key has come to where the key belongs; getRange searches for
\* the left end first and then goes from leaf to leaf.
ReadInv ==
    /\ pc = "down" /\ ~Updates =>
            (Searching /\ dest = <<>>) \/ (call.op = "getRange" /\ Visiting)
    /\ dest # <<>> => pc = "down" /\ call.op = "getRange"

MapInv == TreeInv /\ ReadInv

\* What the steps of get and getRange start from.
Reading(E) ==
    /\ PairsMatch(E) /\ DictHas(E) /\ Finite(Heap) /\ ListOf(Heap) /\ InLeaves(Heap, E)
    /\ DOMAIN Heap = Ids /\ nextNodeId \in Nat
    /\ call \in Calls /\ call.key \in Int /\ (call.op = "getRange" => call.arg \in Int)
    /\ NodeOK(node, nextNodeId, nextValueId) /\ node \in NodeRecords
    /\ node.leaf \in BOOLEAN /\ Kids(node) = Size(node) /\ Size(node) \in Nat
    /\ \A id \in 1 .. nextNodeId - 1 : GetNode(Memory, id) = Heap[id] /\ Heap[id].id = id
    /\ \A id \in Ids : Heap[id].id = id

LEMMA ReadingDown ==
    ASSUME TreeInv, pc = "down"
    PROVE  \E E : Reading(E)
<1>1. /\ ShapeInv /\ ListInv /\ Shape
  BY DEF TreeInv, ListShape, ShapeInv
<1>2. PICK E : PairsMatch(E)
  BY <1>1 DEF ShapeInv
<1>3. DictHas(E)
  BY <1>2, DictHasTree DEF DictIsRight
<1>4. Finite(Heap) /\ ListOf(Heap)
  BY <1>1, AllFinite DEF ListInv
<1>5. InLeaves(Heap, E)
  BY <1>2, <1>4, LeavesHold DEF PairsMatch, TreeOf
<1>6. call \in Calls /\ NodeOK(node, nextNodeId, nextValueId) /\ nextNodeId \in Nat
  BY <1>1 DEF Shape, CallOK, NodesOK, CountersOK
<1>7. call.key \in Int /\ (call.op = "getRange" => call.arg \in Int)
  BY <1>6, CallsAssumption, KeysAssumption
<1>8. node \in NodeRecords /\ node.leaf \in BOOLEAN /\ Kids(node) = Size(node) /\ Size(node) \in Nat
  BY <1>6, NodeFacts DEF NodeOK
<1>9. DOMAIN Heap = Ids /\ \A id \in Ids : Heap[id].id = id
  BY <1>1, HeapNodes
<1>10. ASSUME NEW id \in 1 .. nextNodeId - 1
       PROVE  GetNode(Memory, id) = Heap[id] /\ id \in Ids
  <2>1. Running(Memory)
    BY <1>1, RunningMemory
  <2>2. id \in Known(Memory) /\ id # 0 /\ id \in Ids
    BY <2>1, <1>6 DEF Running, Ids
  <2>3. GetNode(Memory, id) = At(Memory.changes, id)
    BY <2>1, <2>2, GetNodeOK DEF Running
  <2>4. QED
    BY <2>1, <2>2, <2>3 DEF Running, HeapOf, Ids
<1>11. QED
  BY <1>2, <1>3, <1>4, <1>5, <1>6, <1>7, <1>8, <1>9, <1>10 DEF Reading

LEMMA AimedFrames ==
    ASSUME NEW h, NEW q, NEW k, NEW E, AimedAt(h, q, k, E)
    PROVE  q \in Seq(Frames)
<1>1. PICK live, height, low : AimedOn(h, live, height, low, q, k, E)
  BY DEF AimedAt
<1>2. PICK up, pos : Linked(h, live, height, up, pos) /\ Chain(q, h, live, height)
  BY <1>1 DEF AimedOn, ShapeOn
<1>3. QED
  BY <1>2 DEF Chain

LEMMA CurIsLeaf ==
    ASSUME NEW h, Finite(h), NEW q, NEW k, NEW E, AimedAt(h, q, k, E), h[Cur(q)].leaf
    PROVE  Cur(q) \in Leaves(h, 0)
<1>1. PICK live, height, low : AimedOn(h, live, height, low, q, k, E)
  BY DEF AimedAt
<1>2. ShapeOn(h, live, height, q, 0, 0)
  BY <1>1 DEF AimedOn
<1>3. PICK up, pos : Linked(h, live, height, up, pos) /\ Chain(q, h, live, height)
  BY <1>2 DEF ShapeOn
<1>4. Cur(q) \in live
  BY <1>3, CurLives
<1>5. Leaves(h, 0) = LeavesIn(h, live)
  BY <1>2, LeavesOfTree DEF Finite
<1>6. QED
  BY <1>4, <1>5 DEF LeavesIn

\* At a leaf with a key getRange has listed what lies before it.
LEMMA VisitsLeaf ==
    ASSUME MapInv, NEW E, Reading(E), pc = "down", call.op = "getRange", node.leaf
    PROVE  IF Kids(node) = 0 THEN E = {} /\ dest = <<>> ELSE Visiting
<1>1. TreeEntries = E /\ DictOf(Dict, E, valueStorage)
  BY DEF Reading, DictHas
<1>2. (Searching /\ dest = <<>>) \/ Visiting
  BY DEF MapInv, ReadInv, Updates
<1>3. CASE Searching /\ dest = <<>>
  <2>1. PICK q : AimedAt(Heap, q, call.key, E) /\ node = Heap[Cur(q)]
    BY <1>1, <1>3 DEF Searching
  <2>2. call.key \in Int /\ call.arg \in Int /\ Finite(Heap) /\ ListOf(Heap) /\ InLeaves(Heap, E)
    BY DEF Reading
  <2>3. IF Kids(node) = 0 THEN E = {} ELSE RangeStarts(node, call.key, E)
    BY <2>1, <2>2, RangeBegins
  <2>4. Cur(q) \in Leaves(Heap, 0)
    BY <2>1, <2>2, CurIsLeaf
  <2>5. CASE Kids(node) # 0
    <3>1. Full(node, E)
      BY <2>1, <2>2, <2>4, <2>5, LeafIsFull
    <3>2. Visits(node, call.key, call.arg, E, Dict, <<>>)
      BY <3>1, <2>2, <2>3, <2>5, <1>1, RangeIsBegun
    <3>3. QED
      BY <3>2, <2>1, <2>4, <2>5, <1>1, <1>3 DEF Visiting
  <2>6. QED
    BY <2>3, <2>5, <1>3
<1>4. CASE Visiting
  <2>1. Kids(node) # 0
    BY <1>4 DEF Visiting, Visits, Full
  <2>2. QED
    BY <2>1, <1>4
<1>5. QED
  BY <1>2, <1>3, <1>4

LEMMA FindNodeReads ==
    ASSUME MapInv, FindNode, TreeInv'
    PROVE  ReadInv'
<1>1. /\ pc = "down" /\ ~Updates /\ ~node.leaf /\ Position <= Size(node)
      /\ node' = GetNode(Memory, Kid(node, Position)) /\ call' = call /\ pc' = pc /\ dest' = dest
  BY DEF FindNode, Updates, client, ChildAtPosition, Kid
<1>2. PICK E : Reading(E)
  BY <1>1, ReadingDown DEF MapInv
<1>3. TreeEntries = E
  BY <1>2 DEF Reading, DictHas
<1>4. TreeEntries' = E /\ Heap' = Heap
  BY <1>3, SameDict, ReadHeap DEF MapInv, TreeInv, ListShape, QuietStep
<1>5. Searching /\ dest = <<>>
  <2>1. ASSUME Visiting PROVE FALSE
    <3>1. PICK a \in Leaves(Heap, 0) : node = Heap[a]
      BY <2>1 DEF Visiting
    <3>2. Heap[a].leaf
      BY <1>2, <3>1 DEF Reading, InLeaves
    <3>3. QED
      BY <3>1, <3>2, <1>1
  <2>2. QED
    BY <2>1, <1>1 DEF MapInv, ReadInv
<1>6. PICK q : AimedAt(Heap, q, call.key, E) /\ node = Heap[Cur(q)]
  BY <1>3, <1>5 DEF Searching
<1>7. /\ NodeOK(node, nextNodeId, nextValueId) /\ node \in NodeRecords /\ node.leaf \in BOOLEAN
      /\ Kids(node) = Size(node) /\ Size(node) \in Nat /\ call.key \in Int /\ DOMAIN Heap = Ids
      /\ nextNodeId \in Nat
      /\ \A id \in 1 .. nextNodeId - 1 : GetNode(Memory, id) = Heap[id]
      /\ \A id \in Ids : Heap[id].id = id
  BY <1>2 DEF Reading
<1>8. node.id = Cur(q)
  <2>1. PICK live, height, low : AimedOn(Heap, live, height, low, q, call.key, E)
    BY <1>6 DEF AimedAt
  <2>2. PICK up, pos : Linked(Heap, live, height, up, pos) /\ Chain(q, Heap, live, height)
    BY <2>1 DEF AimedOn, ShapeOn
  <2>3. Cur(q) \in DOMAIN Heap
    BY <2>2, CurLives DEF Linked
  <2>4. QED
    BY <2>3, <1>6, <1>7
<1>9. Parts(node, call.key, Position) /\ Position \in 1 .. Kids(node)
  <2>1. PICK b : Rising(node, b)
    BY <1>6, AimRises
  <2>2. node.keys \in Seq(Keys) /\ Len(node.keys) = Kids(node)
    BY <1>7, SequencesOfNode
  <2>3. Parts(node, call.key, Position)
    BY <2>1, <2>2, <1>7, PositionParts DEF Position
  <2>4. QED
    BY <2>3, <1>1, <1>7 DEF Parts
<1> DEFINE p == Append(q, [node |-> node, index |-> Position])
           id == Kid(node, Position)
<1>10. AimedAt(Heap, p, call.key, E)
  <2>1. IsWay(node, call.key, Position) /\ IsInner(node)
    BY <1>1, <1>7, <1>9 DEF IsWay, IsInner
  <2>2. QED
    BY <2>1, <1>6, <1>7, <1>8, EnterAimed
<1>11. Cur(p) = id
  <2>1. q \in Seq(Frames)
    BY <1>6, AimedFrames
  <2>2. Len(q) \in Nat
    BY <2>1, LenProperties
  <2> DEFINE frame == [node |-> node, index |-> Position]
  <2>3. frame \in Frames /\ Len(q) + 1 \in Nat
    BY <1>7, <1>9, <2>2 DEF Frames
  <2>4. frame.node = node /\ frame.index = Position
    OBVIOUS
  <2> HIDE DEF frame
  <2>5. p = Append(q, frame)
    BY DEF frame
  <2>6. p # <<>> /\ Len(p) = Len(q) + 1 /\ p[Len(q) + 1] = frame
    <3> HIDE DEF p
    <3>1. QED
      BY <2>1, <2>3, <2>5, AppendProperties
  <2> HIDE DEF p
  <2>7. QED
    BY <2>4, <2>6 DEF Cur
<1>12. node' = Heap[id]
  <2>1. id \in Handed(node.leaf, nextNodeId, nextValueId)
    BY <1>7, <1>9 DEF NodeOK
  <2>2. id \in 1 .. nextNodeId - 1
    BY <2>1, <1>1, <1>7 DEF Handed
  <2>3. QED
    BY <2>2, <1>1, <1>7
<1>13. Searching'
  BY <1>1, <1>3, <1>4, <1>10, <1>11, <1>12 DEF Searching
<1>14. QED
  BY <1>1, <1>5, <1>13 DEF ReadInv


LEMMA GetRangeNextLeafReads ==
    ASSUME MapInv, GetRangeNextLeaf, TreeInv'
    PROVE  ReadInv'
<1>1. /\ pc = "down" /\ call.op = "getRange" /\ node.leaf /\ ~LastLeaf
      /\ dest' = Collected /\ node' = GetNode(Memory, node.next) /\ call' = call /\ pc' = pc
  BY DEF GetRangeNextLeaf, client
<1>2. PICK E : Reading(E)
  BY <1>1, ReadingDown DEF MapInv
<1>3. TreeEntries = E /\ DictOf(Dict, E, valueStorage)
  BY <1>2 DEF Reading, DictHas
<1>4. TreeEntries' = E /\ Heap' = Heap /\ Dict' = Dict
  BY <1>3, SameDict, ReadHeap DEF MapInv, TreeInv, ListShape, QuietStep
<1>5. /\ call.key \in Int /\ call.arg \in Int /\ Finite(Heap) /\ ListOf(Heap) /\ InLeaves(Heap, E)
      /\ NodeOK(node, nextNodeId, nextValueId) /\ Kids(node) = Size(node) /\ Size(node) \in Nat
      /\ nextNodeId \in Nat /\ \A id \in 1 .. nextNodeId - 1 : GetNode(Memory, id) = Heap[id]
  BY <1>1, <1>2 DEF Reading
<1>6. Kids(node) # 0
  <2>1. ASSUME Kids(node) = 0 PROVE Position = RightPosition
    <3>1. node.keys \in Seq(Keys) /\ Len(node.keys) = 0
      BY <1>5, <2>1, SequencesOfNode
    <3>2. DOMAIN node.keys = {}
      BY <3>1
    <3>3. QED
      BY <3>2 DEF Position, RightPosition, LowerBound
  <2>2. QED
    BY <2>1, <1>1 DEF LastLeaf
<1>7. Visiting
  BY <1>1, <1>2, <1>6, VisitsLeaf
<1>8. PICK a \in Leaves(Heap, 0) :
          node = Heap[a] /\ Visits(node, call.key, call.arg, E, Dict, dest)
  BY <1>3, <1>7 DEF Visiting
<1> DEFINE d == node.next
           m == Heap[d]
<1>9. LowerBound(node, call.key) # LowerBound(node, call.arg) /\ d # Nil
      /\ ~ LowerBound(node, call.arg) <= Kids(node)
  BY <1>1, <1>5 DEF LastLeaf, Position, RightPosition
<1>10. d \in Leaves(Heap, 0) /\ Full(m, E) /\ Succeeds(m, node, E)
  BY <1>5, <1>6, <1>8, <1>9, LeafHasNext
<1>11. node' = m
  <2>1. d \in 1 .. nextNodeId - 1
    BY <1>5, <1>9 DEF NodeOK
  <2>2. QED
    BY <2>1, <1>1, <1>5
<1>12. Visits(m, call.key, call.arg, E, Dict, dest \o Slice(node, call.key, call.arg, valueStorage))
  <2> HIDE DEF m, d
  <2>1. QED
    BY <1>3, <1>5, <1>8, <1>9, <1>10, RangeGoesOn
<1>13. dest' = dest \o Slice(node, call.key, call.arg, valueStorage)
  BY <1>1 DEF Collected, Slice, Position, RightPosition
<1>14. Visiting'
  <2>1. Visits(node', call'.key, call'.arg, TreeEntries', Dict', dest')
    <3> HIDE DEF m, d
    <3>1. QED
      BY <1>1, <1>4, <1>11, <1>12, <1>13
  <2>2. d \in Leaves(Heap', 0) /\ node' = Heap'[d]
    BY <1>4, <1>10, <1>11
  <2>3. QED
    BY <2>1, <2>2 DEF Visiting
<1>15. QED
  BY <1>1, <1>14 DEF ReadInv

LEMMA InvokeReads ==
    ASSUME MapInv, NEW c \in Calls, Invoke(c), TreeInv'
    PROVE  ReadInv'
<1>1. /\ pc = "idle" /\ pc' = "down" /\ call' = c /\ node' = root /\ path' = path /\ dest' = dest
      /\ nextNodeId' = nextNodeId /\ root' = root /\ changes' = changes /\ nodeStorage' = nodeStorage
  BY DEF Invoke, storages, memory, scratch
<1>2. dest = <<>>
  BY <1>1 DEF MapInv, ReadInv
<1>3. ShapeInv /\ ShapeInv' /\ Shape
  BY DEF MapInv, TreeInv, ListShape, ShapeInv
<1>4. path' = <<>>
  BY <1>1, <1>3 DEF Shape, CallOK
<1>5. PICK E : PairsMatch(E)'
  BY <1>3 DEF ShapeInv
<1>6. TreeEntries' = E
  <2>1. (TreeInv => DictIsRight)'
    BY DictHasTree, PTL
  <2>2. QED
    BY <1>5, <2>1 DEF DictHas, DictIsRight
<1>7. AimedAt(Heap', <<>>, call'.key, E)
  BY <1>1, <1>4, <1>5 DEF PairsMatch, TreeOf
<1>8. Heap'[0] = root'
  <2>1. DOMAIN changes = {} /\ nextNodeId \in Nat /\ nextNodeId >= 1
    BY <1>1, <1>3 DEF Shape, StorageOK, CountersOK
  <2>2. 0 \in Ids' /\ pc' # "commit" /\ DOMAIN changes' = {}
    BY <1>1, <2>1 DEF Ids
  <2>3. QED
    BY <2>2 DEF Heap, At
<1>9. Cur(<<>>) = 0
  BY DEF Cur
<1>10. Searching'
  BY <1>1, <1>6, <1>7, <1>8, <1>9 DEF Searching
<1>11. QED
  BY <1>1, <1>2, <1>10 DEF ReadInv


LEMMA ReadInvStep == MapInv /\ [Next]_vars => ReadInv'
<1> SUFFICES ASSUME MapInv, [Next]_vars PROVE ReadInv'
  OBVIOUS
<1>1. TreeInv' /\ ReadInv
  BY TreeInvStep DEF MapInv
<1>2. CASE DescendSet \/ DescendDel
  <2>1. Updates /\ pc' = pc /\ call' = call /\ dest' = dest
    BY <1>2 DEF DescendSet, DescendDel, Updates, Enter, client
  <2>2. Updates'
    BY <2>1 DEF Updates
  <2>3. QED
    BY <1>1, <2>1, <2>2 DEF ReadInv, Updates
<1>3. CASE KeyDoesNotExist \/ Get \/ GetRangeEnd \/ ClearBuffer
  <2>1. pc' = "idle" /\ dest' = <<>>
    BY <1>3 DEF KeyDoesNotExist, Get, GetRangeEnd, ClearBuffer, Return
  <2>2. QED
    BY <2>1 DEF ReadInv
<1>4. CASE SetLeafAdd \/ SetLeafReplace \/ DelLeaf
  <2>1. call.op \in {"set", "del"} /\ pc' = "up" /\ dest' = dest
    BY <1>4 DEF SetLeafAdd, SetLeafReplace, DelLeaf
  <2>2. QED
    BY <1>1, <2>1 DEF ReadInv
<1>5. CASE AscendPlain \/ SetOverflow \/ DelShortage
  <2>1. pc = "up" /\ pc' = pc /\ dest' = dest
    BY <1>5 DEF AscendPlain, SetOverflow, DelShortage, Ascend
  <2>2. QED
    BY <1>1, <2>1 DEF ReadInv
<1>6. CASE RootStays \/ RootSplit \/ RootCollapse \/ CommitNode
  <2>1. pc \in {"up", "commit"} /\ pc' = "commit" /\ dest' = dest
    BY <1>6 DEF RootStays, RootSplit, RootCollapse, StartCommit, CommitNode
  <2>2. QED
    BY <1>1, <2>1 DEF ReadInv
<1>7. CASE FindNode \/ GetRangeNextLeaf
  BY <1>1, <1>7, FindNodeReads, GetRangeNextLeafReads
<1>8. CASE \E c \in Calls : Invoke(c)
  BY <1>1, <1>8, InvokeReads
<1>9. CASE UNCHANGED vars
  <2>1. /\ pc' = pc /\ call' = call /\ dest' = dest /\ node' = node /\ changes' = changes
        /\ buffer' = buffer /\ nodeStorage' = nodeStorage /\ root' = root
        /\ nextNodeId' = nextNodeId /\ valueStorage' = valueStorage
    BY <1>9 DEF vars, storages, memory, scratch, locals, client
  <2>2. Heap' = Heap
    BY <2>1 DEF Heap, Ids, At
  <2>3. TreeEntries' = TreeEntries /\ Dict' = Dict
    BY <1>1, <1>9, SameDict DEF MapInv
  <2>4. Searching' = Searching
    BY <2>1, <2>2, <2>3 DEF Searching
  <2>5. Visiting' = Visiting
    BY <2>1, <2>2, <2>3 DEF Visiting
  <2>6. QED
    BY <1>1, <2>1, <2>4, <2>5 DEF ReadInv, Updates
<1>10. QED
  BY <1>2, <1>3, <1>4, <1>5, <1>6, <1>7, <1>8, <1>9 DEF Next, Step, QuietStep

LEMMA MapInvKept == Spec => []MapInv
<1>1. Init => ReadInv
  BY DEF Init, ReadInv
<1>2. MapInv /\ [Next]_vars => ReadInv'
  BY ReadInvStep
<1>3. CommitShape /\ ListShape /\ ReadInv <=> MapInv
  BY DEF MapInv, TreeInv
<1>4. QED
  BY <1>1, <1>2, <1>3, RootIsStored, ListKeptAlways, PTL DEF Spec


-------------------------------------------------------------------------------
(* What a set and a del do to the dictionary. *)

\* D is a function on the keys of E.
OnKeys(D, E) == D = [k \in {e[1] : e \in E} |-> D[k]]

With(D, k, x) == [j \in DOMAIN D \cup {k} |-> IF j = k THEN x ELSE D[j]]
Without(D, k) == [j \in DOMAIN D \ {k} |-> D[j]]

LEMMA DictSet ==
    ASSUME NEW D, NEW E, NEW vs, DictOf(D, E, vs), Matched(E, DOMAIN vs), OnKeys(D, E),
           NEW k, NEW p, NEW x, NEW F, F = E \cup {<<k, p>>}, OneToOne(F),
           NEW G, DictOf(G, F, Put(vs, p, x)), OnKeys(G, F)
    PROVE  G = With(D, k, x)
<1> DEFINE e0 == <<k, p>>
           ws == Put(vs, p, x)
           S == DOMAIN D \cup {k}
<1>1. e0[1] = k /\ e0[2] = p /\ e0 \in F /\ ws[p] = x
  BY DEF Put
<1>2. \A e \in E : e \in F /\ e[2] \in DOMAIN vs /\ (e[2] # p => ws[e[2]] = vs[e[2]])
  BY DEF Matched, Put
<1>3. \A e \in F : e \in E \/ e = e0
  OBVIOUS
<1> HIDE DEF e0, ws
<1>4. /\ DOMAIN D = {e[1] : e \in E} /\ \A e \in E : D[e[1]] = vs[e[2]]
      /\ DOMAIN G = {e[1] : e \in F} /\ \A e \in F : G[e[1]] = ws[e[2]]
  BY DEF DictOf, ws
<1>5. {e[1] : e \in F} = S
  BY <1>1, <1>2, <1>3, <1>4
<1>6. G[k] = x
  BY <1>1, <1>4
<1>7. ASSUME NEW j \in S, j # k PROVE G[j] = D[j]
  <2>1. PICK e \in E : e[1] = j
    BY <1>4, <1>7
  <2>2. e[2] # p
    <3>1. e # e0
      BY <1>1, <1>7, <2>1
    <3>2. QED
      BY <1>1, <1>2, <2>1, <3>1 DEF OneToOne
  <2>3. G[e[1]] = ws[e[2]] /\ ws[e[2]] = vs[e[2]] /\ D[e[1]] = vs[e[2]]
    BY <1>2, <1>4, <2>1, <2>2
  <2>4. QED
    BY <2>1, <2>3
<1>8. G = [j \in S |-> G[j]]
  BY <1>5 DEF OnKeys
<1>9. QED
  BY <1>6, <1>7, <1>8 DEF With

LEMMA DictDel ==
    ASSUME NEW D, NEW E, NEW vs, DictOf(D, E, vs), Matched(E, DOMAIN vs),
           NEW k, NEW p, <<k, p>> \in E, NEW F, F = E \ {<<k, p>>},
           NEW G, DictOf(G, F, Drop(vs, p)), OnKeys(G, F)
    PROVE  k \in DOMAIN D /\ G = Without(D, k)
<1> DEFINE e0 == <<k, p>>
           ws == Drop(vs, p)
           S == DOMAIN D \ {k}
<1>1. e0[1] = k /\ e0[2] = p /\ e0 \in E /\ F = E \ {e0}
  OBVIOUS
<1>2. \A e \in E : e[2] \in DOMAIN vs /\ (e[2] # p => ws[e[2]] = vs[e[2]])
  BY DEF Matched, Drop
<1> HIDE DEF e0, ws
<1>3. \A e \in F : e \in E /\ e[1] # k /\ e[2] # p
  BY <1>1 DEF Matched, OneToOne
<1>4. /\ DOMAIN D = {e[1] : e \in E} /\ \A e \in E : D[e[1]] = vs[e[2]]
      /\ DOMAIN G = {e[1] : e \in F} /\ \A e \in F : G[e[1]] = ws[e[2]]
  BY DEF DictOf, ws
<1>5. k \in DOMAIN D
  BY <1>1, <1>4
<1>6. {e[1] : e \in F} = S
  <2>1. ASSUME NEW e \in E, e[1] # k PROVE e \in F
    BY <2>1, <1>1
  <2>2. QED
    BY <2>1, <1>3, <1>4
<1>7. ASSUME NEW j \in S PROVE G[j] = D[j]
  <2>1. PICK e \in F : e[1] = j
    BY <1>6
  <2>2. QED
    BY <1>2, <1>3, <1>4, <2>1
<1>8. G = [j \in S |-> G[j]]
  BY <1>6 DEF OnKeys
<1>9. QED
  BY <1>5, <1>7, <1>8 DEF Without

\* In its leaf a set or a del takes effect.
LEMMA WriteMaps ==
    ASSUME MapInv, TreeInv', SetLeafAdd \/ SetLeafReplace \/ DelLeaf
    PROVE  Map!Set \/ Map!Del
<1>1. ShapeInv
  BY DEF MapInv, TreeInv, ListShape
<1>2. PICK E : PairsMatch(E)
  BY <1>1 DEF ShapeInv
<1>3. PICK F : PairsMatch(F)' /\ Written(E, F)
  BY <1>1, <1>2, LeafMatch
<1>4. DictHas(E) /\ Matched(E, DOMAIN valueStorage)
  BY <1>2, DictHasTree DEF MapInv, DictIsRight, PairsMatch
<1>5. DictHas(F)'
  <2>1. (TreeInv => DictIsRight)'
    BY DictHasTree, PTL
  <2>2. QED
    BY <1>3, <2>1 DEF DictIsRight
<1>6. /\ DictOf(Dict, E, valueStorage) /\ OnKeys(Dict, E)
      /\ DictOf(Dict', F, valueStorage') /\ OnKeys(Dict', F) /\ OneToOne(F)
  BY <1>4, <1>5 DEF DictHas, OnKeys
<1>7. Phase = "called" /\ Phase' = "done" /\ call' = call /\ response' = response
  BY DEF SetLeafAdd, SetLeafReplace, DelLeaf, Phase, client
<1> DEFINE k == call.key
           x == call.arg
           D == Dict
           G == Dict'
<1>8. CASE call.op = "set"
  <2>1. PICK v : F = E \cup {<<k, v>>} /\ valueStorage' = Put(valueStorage, v, x)
    BY <1>3, <1>8 DEF Written
  <2>2. G = With(D, k, x)
    <3> HIDE DEF k, x, D, G
    <3>1. DictOf(D, E, valueStorage) /\ OnKeys(D, E) /\ DictOf(G, F, Put(valueStorage, v, x))
          /\ OnKeys(G, F)
      BY <1>6, <2>1 DEF D, G
    <3>2. Matched(E, DOMAIN valueStorage) /\ OneToOne(F) /\ F = E \cup {<<k, v>>}
      BY <1>4, <1>6, <2>1
    <3>3. QED
      BY ONLY <3>1, <3>2, DictSet
  <2>3. QED
    BY <1>7, <1>8, <2>2 DEF Map!Set, With
<1>9. CASE call.op = "del"
  <2>1. PICK v : /\ <<k, v>> \in E /\ F = E \ {<<k, v>>}
                 /\ valueStorage' = Drop(valueStorage, v)
    BY <1>3, <1>9 DEF Written
  <2>2. k \in DOMAIN D /\ G = Without(D, k)
    <3> HIDE DEF k, x, D, G
    <3>1. DictOf(D, E, valueStorage) /\ OnKeys(D, E) /\ DictOf(G, F, Drop(valueStorage, v))
          /\ OnKeys(G, F)
      BY <1>6, <2>1 DEF D, G
    <3>2. QED
      BY <3>1, <1>4, <2>1, DictDel
  <2>3. QED
    BY <1>7, <1>9, <2>2 DEF Map!Del, Without
<1>10. QED
  BY <1>3, <1>8, <1>9 DEF Written

\* The steps that go down, come up or commit do not show, and those that begin and
\* end a call leave the dictionary alone.
LEMMA WalkMaps ==
    ASSUME MapInv, TreeInv',
           \/ DescendSet \/ DescendDel \/ AscendPlain \/ SetOverflow \/ DelShortage
           \/ RootStays \/ RootSplit \/ RootCollapse \/ CommitNode
           \/ FindNode \/ GetRangeNextLeaf \/ UNCHANGED vars
    PROVE  UNCHANGED Map!vars
<1>1. Dict' = Dict
  BY SameDict DEF MapInv, QuietStep
<1>2. call' = call /\ response' = response
  BY DEF DescendSet, DescendDel, Enter, AscendPlain, SetOverflow, DelShortage, Ascend,
     RootStays, RootSplit, RootCollapse, StartCommit, CommitNode, FindNode,
     GetRangeNextLeaf, client, vars
<1>3. \/ pc' = pc \/ (pc = "up" /\ pc' = "commit")
  BY DEF DescendSet, DescendDel, Enter, AscendPlain, SetOverflow, DelShortage, Ascend,
     RootStays, RootSplit, RootCollapse, StartCommit, CommitNode, FindNode,
     GetRangeNextLeaf, vars
<1>4. Phase' = Phase
  BY <1>3 DEF Phase
<1>5. QED
  BY <1>1, <1>2, <1>4 DEF Map!vars

LEMMA InvokeMaps ==
    ASSUME MapInv, TreeInv', NEW c \in Calls, Invoke(c)
    PROVE  Map!Invoke(c)
<1>1. Dict' = Dict
  BY SameDict DEF MapInv
<1>2. Phase = "idle" /\ Phase' = "called" /\ call' = c /\ response' = NoResponse
  BY DEF Invoke, Phase
<1>3. QED
  BY <1>1, <1>2 DEF Map!Invoke, Map!NoResponse, NoResponse

LEMMA ReturnMaps ==
    ASSUME MapInv, TreeInv', KeyDoesNotExist \/ Get \/ GetRangeEnd \/ ClearBuffer,
           NEW r, Return(r)
    PROVE  Map!Return(r)
<1>1. Dict' = Dict
  BY SameDict DEF MapInv, QuietStep
<1>2. Phase' = "idle" /\ response' = r /\ call' = call
  BY DEF Return, Phase
<1>3. QED
  BY <1>1, <1>2 DEF Map!Return

LEMMA ClearBufferMaps ==
    ASSUME MapInv, TreeInv', ClearBuffer
    PROVE  Map!Acknowledge
<1>1. Map!Return(Done)
  BY ReturnMaps DEF ClearBuffer
<1>2. Phase = "done"
  BY DEF ClearBuffer, Phase
<1>3. QED
  BY <1>1, <1>2 DEF Map!Acknowledge, Map!Done, Done


-------------------------------------------------------------------------------
(* What the end of a search says of the dictionary. *)

\* A call whose pairs are E has come to where its key is, or would be.
Arrived(E) ==
    /\ PairsMatch(E) /\ Reading(E)
    /\ \E q : AimedAt(Heap, q, call.key, E) /\ node = Heap[Cur(q)]
    /\ ~node.leaf => Size(node) >= 2
    /\ \E b : Rising(node, b)
    /\ Parts(node, call.key, Position)

LEMMA SearchArrives ==
    ASSUME MapInv, pc = "down", call.op # "getRange" \/ ~node.leaf
    PROVE  \E E : Arrived(E)
<1>1. TreeInv /\ ReadInv /\ ShapeInv
  BY DEF MapInv, TreeInv, ListShape
<1>2. PICK E : Reading(E)
  BY <1>1, ReadingDown
<1>3. /\ PairsMatch(E) /\ TreeEntries = E /\ call.key \in Int
      /\ InLeaves(Heap, E) /\ NodeOK(node, nextNodeId, nextValueId)
      /\ node.leaf \in BOOLEAN /\ Kids(node) = Size(node)
  BY <1>2 DEF Reading, DictHas
<1>4. \E q : AimedAt(Heap, q, call.key, E) /\ node = Heap[Cur(q)]
  <2>1. CASE Updates
    <3>1. AimedAt(Heap, path, call.key, E)
      BY <1>3 DEF PairsMatch, TreeOf
    <3>2. node = Heap[Cur(path)]
      BY <1>1, <2>1 DEF ShapeInv, Shape, AtWork
    <3>3. QED
      BY <3>1, <3>2
  <2>2. CASE ~Updates
    <3>1. CASE call.op = "getRange" /\ Visiting
      <4>1. PICK a \in Leaves(Heap, 0) : node = Heap[a]
        BY <3>1 DEF Visiting
      <4>2. Heap[a].leaf
        BY <1>3, <4>1 DEF InLeaves
      <4>3. QED
        BY <3>1, <4>1, <4>2
    <3>2. CASE Searching
      BY <1>3, <3>2 DEF Searching
    <3>3. QED
      BY <1>1, <2>2, <3>1, <3>2 DEF ReadInv
  <2>3. QED
    BY <2>1, <2>2
<1>5. PICK q : AimedAt(Heap, q, call.key, E) /\ node = Heap[Cur(q)]
  BY <1>4
<1>6. ~node.leaf => Size(node) >= 2
  <2>1. ShapeAt(Heap, q, 0, 0) /\ 0 \in Nat
    BY <1>5, AimHasShape
  <2>2. /\ node.leaf = FALSE => Size(node) + 0 >= 2
        /\ Size(node) \in Nat
    BY <2>1, <1>5, NodeAtWork
  <2>3. QED
    BY <2>2, <1>3
<1>7. PICK b : Rising(node, b)
  BY <1>5, AimRises
<1>8. Parts(node, call.key, Position)
  <2>1. node.keys \in Seq(Keys) /\ Len(node.keys) = Kids(node)
    BY <1>3, SequencesOfNode
  <2>2. QED
    BY <2>1, <1>3, <1>7, PositionParts DEF Position
<1>9. QED
  BY <1>2, <1>3, <1>5, <1>6, <1>7, <1>8 DEF Arrived

LEMMA ArrivedLeaf ==
    ASSUME NEW E, Arrived(E), node.leaf
    PROVE  /\ call.key \in DOMAIN Dict <=> FindKey # Nil
           /\ FindKey # Nil => Dict[call.key] = valueStorage[node.ptrs[FindKey]]
<1> DEFINE k == call.key
           i == Position
<1>1. /\ DOMAIN Dict = {e[1] : e \in E} /\ \A e \in E : Dict[e[1]] = valueStorage[e[2]]
  BY DEF Arrived, Reading, DictHas, DictOf
<1>2. Kids(node) = Size(node) /\ Size(node) \in Nat /\ k \in Int
  BY DEF Arrived, Reading
<1>3. PICK q : AimedAt(Heap, q, k, E) /\ node = Heap[Cur(q)]
  BY DEF Arrived
<1>4. /\ i \in 1 .. Kids(node) + 1
      /\ \A j \in 1 .. Kids(node) : IF j < i THEN Key(node, j) < k ELSE k <= Key(node, j)
  BY DEF Arrived, Parts
<1>5. PICK b : Rising(node, b)
  BY DEF Arrived
<1>6. /\ \A j \in 1 .. Kids(node) : Key(node, j) = k => <<k, Kid(node, j)>> \in E
      /\ (\A j \in 1 .. Kids(node) : Key(node, j) # k) => \A e \in E : e[1] # k
  <2> HIDE DEF k
  <2>1. QED
    BY <1>2, <1>3, FoundInLeaf
<1>7. FindKey # Nil => i \in 1 .. Kids(node) /\ Key(node, i) = k /\ FindKey = i
  <2> HIDE DEF i
  <2>1. QED
    BY <1>2, <1>4 DEF FindKey, Key, i
<1>8. FindKey = Nil => ~(i <= Kids(node) /\ Key(node, i) = k)
  <2>1. i # Nil
    <3> HIDE DEF i
    <3>1. QED
      BY <1>2, <1>4 DEF Nil
  <2>2. QED
    BY <1>2, <2>1 DEF FindKey, Key
<1> HIDE DEF k, i
<1>9. ASSUME FindKey = Nil, NEW j \in 1 .. Kids(node) PROVE Key(node, j) # k
  <2>1. Key(node, j) \in Int /\ (i < j => Key(node, i) < Key(node, j) /\ Key(node, i) \in Int)
    BY <1>2, <1>4, <1>5, <1>9 DEF Rising
  <2>2. CASE j < i
    BY <2>1, <2>2, <1>2, <1>4
  <2>3. CASE j = i
    BY <1>2, <1>4, <1>8, <1>9, <2>3
  <2>4. CASE i < j
    <3>1. i \in 1 .. Kids(node) /\ k <= Key(node, i)
      BY <1>2, <1>4, <1>9, <2>4
    <3>2. QED
      BY <3>1, <2>1, <2>4, <1>2
  <2>5. QED
    BY <1>2, <1>4, <1>9, <2>2, <2>3, <2>4
<1>10. CASE FindKey = Nil
  BY <1>1, <1>6, <1>9, <1>10 DEF k
<1>11. CASE FindKey # Nil
  <2>1. <<k, Kid(node, i)>> \in E
    BY <1>6, <1>7, <1>11
  <2> DEFINE e0 == <<k, Kid(node, i)>>
  <2>2. e0[1] = k /\ e0[2] = Kid(node, i)
    OBVIOUS
  <2> HIDE DEF e0
  <2>3. e0 \in E
    BY <2>1 DEF e0
  <2>4. k \in DOMAIN Dict /\ Dict[k] = valueStorage[Kid(node, i)]
    BY <1>1, <2>2, <2>3
  <2>5. QED
    BY <1>7, <1>11, <2>4 DEF k, Kid
<1>12. QED
  BY <1>10, <1>11


LEMMA ArrivedAbove ==
    ASSUME NEW E, Arrived(E), ~node.leaf, Position > Size(node)
    PROVE  call.key \in Int /\ \A j \in DOMAIN Dict : j \in Int /\ j < call.key
<1> DEFINE k == call.key
<1>1. DOMAIN Dict = {e[1] : e \in E}
  BY DEF Arrived, Reading, DictHas, DictOf
<1>2. Kids(node) = Size(node) /\ Size(node) \in Nat /\ k \in Int /\ Size(node) >= 2
  BY DEF Arrived, Reading
<1>3. PICK q : AimedAt(Heap, q, k, E) /\ node = Heap[Cur(q)]
  BY DEF Arrived
<1>4. Key(node, Kids(node)) < k
  BY <1>2 DEF Arrived, Parts
<1>5. PICK b : Rising(node, b)
  BY DEF Arrived
<1>6. Most(node) \in Int /\ Most(node) < k
  BY <1>2, <1>4, <1>5 DEF Rising, Most
<1>7. \A e \in E : e[1] \in Int /\ e[1] < k
  <2> HIDE DEF k
  <2>1. QED
    BY <1>2, <1>3, <1>6, AllBelow
<1>8. QED
  BY <1>1, <1>2, <1>7

LEMMA KeyDoesNotExistMaps ==
    ASSUME MapInv, TreeInv', KeyDoesNotExist
    PROVE  Map!Missing \/ Map!GetRangeBeyondEnd
<1>1. Map!Return(Thrown) /\ Thrown = Map!Thrown
  BY ReturnMaps DEF KeyDoesNotExist, Thrown, Map!Thrown
<1>2. pc = "down" /\ Phase = "called"
  BY DEF KeyDoesNotExist, Phase
<1>3. call.op \in {"set", "del", "get", "getRange"}
  <2>1. call \in Calls
    BY <1>2 DEF MapInv, TreeInv, ListShape, ShapeInv, Shape, CallOK
  <2>2. QED
    BY <2>1, CallsAssumption
<1>4. CASE ~node.leaf /\ call.op # "set" /\ Position > Size(node)
  <2>1. PICK E : Arrived(E)
    BY <1>2, <1>4, SearchArrives
  <2>2. call.key \in Int /\ \A j \in DOMAIN Dict : j \in Int /\ j < call.key
    BY <2>1, <1>4, ArrivedAbove
  <2>3. CASE call.op = "getRange"
    BY <1>1, <1>2, <2>2, <2>3 DEF Map!GetRangeBeyondEnd
  <2>4. CASE call.op \in {"del", "get"}
    <3>1. call.key \notin DOMAIN Dict
      BY <2>2
    <3>2. QED
      BY <1>1, <1>2, <2>4, <3>1 DEF Map!Missing
  <2>5. QED
    BY <1>3, <1>4, <2>3, <2>4
<1>5. CASE node.leaf /\ call.op \in {"del", "get"} /\ FindKey = Nil
  <2>1. PICK E : Arrived(E)
    BY <1>2, <1>5, SearchArrives
  <2>2. call.key \notin DOMAIN Dict
    BY <2>1, <1>5, ArrivedLeaf
  <2>3. QED
    BY <1>1, <1>2, <1>5, <2>2 DEF Map!Missing
<1>6. QED
  BY <1>4, <1>5 DEF KeyDoesNotExist

LEMMA GetMaps ==
    ASSUME MapInv, TreeInv', Get
    PROVE  Map!Get
<1> DEFINE v == valueStorage[node.ptrs[FindKey]]
<1>1. pc = "down" /\ call.op = "get" /\ node.leaf /\ FindKey # Nil /\ Return(Answer(v))
  BY DEF Get
<1>2. PICK E : Arrived(E)
  BY <1>1, SearchArrives
<1>3. call.key \in DOMAIN Dict /\ Dict[call.key] = v
  BY <1>1, <1>2, ArrivedLeaf
<1>4. Map!Return(Answer(v))
  BY <1>1, ReturnMaps
<1>5. Map!Answer(v) = Answer(v) /\ Phase = "called"
  BY <1>1 DEF Map!Answer, Answer, Phase
<1> HIDE DEF v
<1>6. QED
  BY <1>1, <1>3, <1>4, <1>5 DEF Map!Get

\* The promised listing is the listing of the interval.
LEMMA PairsListed ==
    ASSUME NEW l, NEW r, NEW s, Lists(s, InRange(Dict, l, r), Dict)
    PROVE  s = Map!Pairs(l, r)
<1> DEFINE K == InRange(Dict, l, r)
           D == Dict
<1>1. s = [i \in 1 .. Cardinality(K) |-> <<KeyAt(K, i), D[KeyAt(K, i)]>>]
  <2> HIDE DEF K, D
  <2>1. Lists(s, K, D)
    BY DEF K, D
  <2>2. QED
    BY <2>1, ListsAll
<1>2. QED
  BY ONLY <1>1 DEF Map!Pairs, KeyAt, InRange, Map!Cardinality, Cardinality, K, D

LEMMA GetRangeEndMaps ==
    ASSUME MapInv, TreeInv', GetRangeEnd
    PROVE  Map!GetRange
<1> DEFINE l == call.key
           r == call.arg
           s == Collected
<1>1. pc = "down" /\ call.op = "getRange" /\ node.leaf /\ LastLeaf /\ Return(Listing(s))
  BY DEF GetRangeEnd
<1>2. PICK E : Reading(E)
  BY <1>1, ReadingDown DEF MapInv
<1>3. TreeEntries = E /\ DictOf(Dict, E, valueStorage)
  BY <1>2 DEF Reading, DictHas
<1>4. /\ l \in Int /\ r \in Int /\ Finite(Heap) /\ ListOf(Heap) /\ InLeaves(Heap, E)
      /\ NodeOK(node, nextNodeId, nextValueId) /\ Kids(node) = Size(node)
  BY <1>1, <1>2 DEF Reading
<1>5. s = dest \o Slice(node, l, r, valueStorage)
  BY DEF Collected, Slice, Position, RightPosition
<1>6. Lists(s, InRange(Dict, l, r), Dict)
  <2>1. CASE Kids(node) = 0
    <3>1. E = {} /\ dest = <<>>
      BY <1>1, <1>2, <2>1, VisitsLeaf
    <3>2. InRange(Dict, l, r) = {}
      BY <1>3, <3>1 DEF DictOf, InRange
    <3>3. Slice(node, l, r, valueStorage) = <<>>
      <4>1. node.keys \in Seq(Keys) /\ Len(node.keys) = 0
        BY <1>4, <2>1, SequencesOfNode
      <4>2. DOMAIN node.keys = {}
        BY <4>1
      <4>3. LowerBound(node, l) = LowerBound(node, r)
        BY <4>2 DEF LowerBound
      <4>4. LowerBound(node, l) \in Int
        BY <4>2, FS_EmptySet DEF LowerBound
      <4>5. 1 .. LowerBound(node, r) - LowerBound(node, l) = {}
        BY <4>3, <4>4
      <4>6. QED
        BY <4>5 DEF Slice
    <3>4. s = <<>>
      BY <1>5, <3>1, <3>3
    <3>5. QED
      BY <3>2, <3>4, ListsNothing
  <2>2. CASE Kids(node) # 0
    <3>1. Visiting
      BY <1>1, <1>2, <2>2, VisitsLeaf
    <3>2. PICK a \in Leaves(Heap, 0) : node = Heap[a] /\ Visits(node, l, r, E, Dict, dest)
      BY <1>3, <3>1 DEF Visiting
    <3>3. \/ LowerBound(node, l) = LowerBound(node, r) \/ LowerBound(node, r) <= Kids(node)
          \/ \A e \in E : e \in PairsOf(node) \/ e[1] < Key(node, 1)
      <4>1. CASE node.next = Nil
        BY <1>4, <2>2, <3>2, <4>1, LeafIsLast
      <4>2. QED
        BY <1>1, <1>4, <4>1 DEF LastLeaf, Position, RightPosition
    <3> HIDE DEF l, r, s
    <3>4. UpToMost(node, l, r, Dict) = InRange(Dict, l, r)
      BY <1>3, <1>4, <3>2, <3>3, RangeEnds
    <3>5. Lists(dest \o Slice(node, l, r, valueStorage), UpToMost(node, l, r, Dict), Dict)
      BY <1>3, <1>4, <3>2, SliceLists
    <3>6. QED
      BY <1>5, <3>4, <3>5
  <2>3. QED
    BY <2>1, <2>2
<1>7. s = Map!Pairs(l, r)
  BY <1>6, PairsListed
<1>8. Map!Return(Listing(s))
  BY <1>1, ReturnMaps
<1>9. Map!Listing(s) = Listing(s) /\ Phase = "called"
  BY <1>1 DEF Map!Listing, Listing, Phase
<1> HIDE DEF s
<1>10. QED
  BY <1>1, <1>7, <1>8, <1>9 DEF Map!GetRange

-------------------------------------------------------------------------------
LEMMA StepMaps == MapInv /\ MapInv' /\ [Next]_vars => [Map!Next]_Map!vars
<1> SUFFICES ASSUME MapInv, TreeInv', [Next]_vars PROVE [Map!Next]_Map!vars
  BY DEF MapInv
<1>1. CASE SetLeafAdd \/ SetLeafReplace \/ DelLeaf
  BY <1>1, WriteMaps DEF Map!Next
<1>2. CASE \/ DescendSet \/ DescendDel \/ AscendPlain \/ SetOverflow \/ DelShortage
           \/ RootStays \/ RootSplit \/ RootCollapse \/ CommitNode
           \/ FindNode \/ GetRangeNextLeaf \/ UNCHANGED vars
  BY <1>2, WalkMaps
<1>3. CASE KeyDoesNotExist
  BY <1>3, KeyDoesNotExistMaps DEF Map!Next
<1>4. CASE Get
  BY <1>4, GetMaps DEF Map!Next
<1>5. CASE GetRangeEnd
  BY <1>5, GetRangeEndMaps DEF Map!Next
<1>6. CASE ClearBuffer
  BY <1>6, ClearBufferMaps DEF Map!Next
<1>7. CASE \E c \in Calls : Invoke(c)
  BY <1>7, InvokeMaps DEF Map!Next
<1>8. QED
  BY <1>1, <1>2, <1>3, <1>4, <1>5, <1>6, <1>7 DEF Next, Step, QuietStep

\* The tree is a map: a set or a del changes the entry of its key and no other, at
\* the moment it reaches its leaf, a get returns the value that was set last, and a
\* getRange lists the pairs of its interval in order, whatever splits, joins and
\* collapses have happened and whatever of a commit has been written.
THEOREM TreeImplementsMap == Spec => ImplementsMap
<1>1. Init /\ MapInv => Map!Init
  <2> SUFFICES ASSUME Init, MapInv PROVE Map!Init
    OBVIOUS
  <2>1. PICK E : PairsMatch(E)
    BY DEF MapInv, TreeInv, ListShape, ShapeInv
  <2>2. DictHas(E)
    BY <2>1, DictHasTree DEF MapInv, DictIsRight
  <2>3. DOMAIN valueStorage = {}
    BY DEF Init, Empty
  <2>4. E = {}
    BY <2>1, <2>3 DEF PairsMatch, Matched
  <2>5. Dict = [k \in {} |-> k]
    <3>1. DOMAIN Dict = {} /\ Dict = [k \in DOMAIN Dict |-> Dict[k]]
      BY <2>2, <2>4 DEF DictHas, DictOf
    <3>2. QED
      BY <3>1
  <2>6. Phase = "idle" /\ call = NoCall /\ response = NoResponse
    BY DEF Init, Phase
  <2>7. QED
    BY <2>5, <2>6 DEF Map!Init, Map!NoCall, NoCall, Map!NoResponse, NoResponse
<1>2. MapInv /\ MapInv' /\ [Next]_vars => [Map!Next]_Map!vars
  BY StepMaps
<1>3. QED
  BY <1>1, <1>2, MapInvKept, PTL DEF Spec, ImplementsMap, Map!Spec

===============================================================================
