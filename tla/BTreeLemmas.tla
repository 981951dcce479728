----------------------------- MODULE BTreeLemmas -----------------------------
(***************************************************************************)
(* Lemmas on the nodes of BTree as a heap: a function h from ids to nodes. *)
(* They say when a heap is linked as a tree with its keys in order, and    *)
(* prove that the splits, joins, new and collapsed roots of BTree keep it  *)
(* so.                                                                     *)
(*                                                                         *)
(* A tree of any height is described without recursion.  Each live node    *)
(* has a height, 0 in a leaf; each live node but the root has one node     *)
(* above it (up) and one place there (pos).  So no two nodes share a       *)
(* child, no node is its own descendant and siblings are all leaves or all *)
(* inner nodes.                                                            *)
(*                                                                         *)
(* So is the order of the keys.  Each node has a bound, low, that its keys *)
(* lie above; the keys of an inner node are the largest ones of its        *)
(* children, but for the child at work on the way up, whose key in the     *)
(* node above is older than the child; and the bound of a child is not     *)
(* less than the keys before its place.                                    *)
(***************************************************************************)
EXTENDS BTree, SequenceTheorems, FiniteSetTheorems, WellFoundedInduction, TLAPS

NodeRecords ==
    [id : Int, leaf : BOOLEAN, keys : Seq(Keys), ptrs : Seq(Int),
     next : Int, prev : Int, deleted : BOOLEAN]

\* The pointers of a node, as operators that proofs need not expand.
Kids(n) == Len(n.ptrs)
Kid(n, i) == n.ptrs[i]

IsInner(n) == n.leaf = FALSE

\* Node n names only nodes and values whose ids have been handed out.
Handed(leaf, ids, values) == IF leaf THEN 0 .. values - 1 ELSE 1 .. ids - 1

NodeOK(n, ids, values) ==
    /\ n \in NodeRecords
    /\ n.id \in 0 .. ids - 1
    /\ Kids(n) = Size(n)
    /\ \A i \in 1 .. Kids(n) : Kid(n, i) \in Handed(n.leaf, ids, values)
    /\ n.next \in {Nil} \cup 1 .. ids - 1
    /\ n.prev \in {Nil} \cup 1 .. ids - 1

\* What the shape of a tree depends on: neither the keys themselves nor the
\* list of leaves.
SameCore(m, n) ==
    /\ m.leaf = n.leaf /\ m.deleted = n.deleted
    /\ Size(m) = Size(n) /\ Kids(m) = Kids(n)
    /\ \A i \in 1 .. Kids(n) : Kid(m, i) = Kid(n, i)

\* Node n is in its place as the node a of the tree.
LinkedAt(n, a, live, height, up, pos) ==
    /\ n.leaf \in BOOLEAN /\ Kids(n) \in Nat /\ ~n.deleted
    /\ n.leaf <=> height[a] = 0
    /\ ~n.leaf => \A i \in 1 .. Kids(n) :
            /\ Kid(n, i) \in live \ {0}
            /\ height[Kid(n, i)] + 1 = height[a]
            /\ up[Kid(n, i)] = a /\ pos[Kid(n, i)] = i

\* Node a is a child of the node above it; the root is above all others.
Hung(h, a, live, height, up, pos) ==
    /\ up[a] \in live /\ h[up[a]].leaf = FALSE
    /\ pos[a] \in 1 .. Kids(h[up[a]]) /\ Kid(h[up[a]], pos[a]) = a
    /\ height[a] < height[0]

Linked(h, live, height, up, pos) ==
    /\ 0 \in live /\ live \subseteq DOMAIN h /\ live \subseteq Int
    /\ height \in [Int -> Nat] /\ up \in [Int -> Int] /\ pos \in [Int -> Int]
    /\ \A a \in live : LinkedAt(h[a], a, live, height, up, pos)
    /\ \A a \in live \ {0} : Hung(h, a, live, height, up, pos)

-------------------------------------------------------------------------------
\* Sequences: what inserting and removing an element leaves where.
SeqWith(u, S, s, i, e) ==
    /\ u \in Seq(S) /\ Len(u) = Len(s) + 1
    /\ \A j \in 1 .. Len(s) + 1 :
            u[j] = IF j < i THEN s[j] ELSE IF j = i THEN e ELSE s[j - 1]

SeqWithout(u, S, s, i) ==
    /\ u \in Seq(S) /\ Len(u) = Len(s) - 1
    /\ \A j \in 1 .. Len(s) - 1 : u[j] = IF j < i THEN s[j] ELSE s[j + 1]

LEMMA InsertAtProperties ==
    ASSUME NEW S, NEW s \in Seq(S), NEW e \in S, NEW i \in 1 .. Len(s) + 1
    PROVE  SeqWith(InsertAt(s, i, e), S, s, i, e)
<1> DEFINE front == SubSeq(s, 1, i - 1)
           back == SubSeq(s, i, Len(s))
<1>1. Len(s) \in Nat /\ i \in Int /\ \A j \in 1 .. Len(s) : s[j] \in S
  BY LenProperties, ElementOfSeq
<1>2. /\ front \in Seq(S) /\ Len(front) = i - 1
      /\ \A j \in 1 .. i - 1 : front[j] = s[j]
  BY <1>1, SubSeqProperties, 1 \in Int, i - 1 \in Int
<1>3. /\ back \in Seq(S) /\ Len(back) = Len(s) - i + 1
      /\ \A j \in 1 .. Len(s) - i + 1 : back[j] = s[i + j - 1]
  BY <1>1, SubSeqProperties, Len(s) \in Int
<1>4. <<e>> \in Seq(S) /\ Len(<<e>>) = 1 /\ <<e>>[1] = e
  OBVIOUS
<1> HIDE DEF front, back
<1> DEFINE most == front \o <<e>>
<1>5. /\ most \in Seq(S) /\ Len(most) = i
      /\ \A j \in 1 .. i : most[j] = IF j < i THEN s[j] ELSE e
  <2>1. /\ most \in Seq(S) /\ Len(most) = Len(front) + Len(<<e>>)
        /\ \A j \in 1 .. Len(front) + Len(<<e>>) : most[j] =
                IF j <= Len(front) THEN front[j] ELSE <<e>>[j - Len(front)]
    BY <1>2, <1>4, ConcatProperties
  <2> HIDE DEF most
  <2>2. QED
    BY <2>1, <1>1, <1>2, <1>4
<1> HIDE DEF most
<1>6. /\ most \o back \in Seq(S)
      /\ Len(most \o back) = Len(most) + Len(back)
      /\ \A j \in 1 .. Len(most) + Len(back) : (most \o back)[j] =
                IF j <= Len(most) THEN most[j] ELSE back[j - Len(most)]
  BY <1>3, <1>5, ConcatProperties
<1>7. InsertAt(s, i, e) = most \o back
  BY DEF InsertAt, most, front, back
<1>8. SeqWith(most \o back, S, s, i, e)
  BY <1>1, <1>3, <1>5, <1>6 DEF SeqWith
<1>9. QED
  BY <1>7, <1>8

LEMMA RemoveAtProperties ==
    ASSUME NEW S, NEW s \in Seq(S), NEW i \in 1 .. Len(s)
    PROVE  SeqWithout(RemoveAt(s, i), S, s, i)
<1> DEFINE front == SubSeq(s, 1, i - 1)
           back == SubSeq(s, i + 1, Len(s))
<1>1. Len(s) \in Nat /\ i \in Int /\ \A j \in 1 .. Len(s) : s[j] \in S
  BY LenProperties, ElementOfSeq
<1>2. /\ front \in Seq(S) /\ Len(front) = i - 1
      /\ \A j \in 1 .. i - 1 : front[j] = s[j]
  BY <1>1, SubSeqProperties, 1 \in Int, i - 1 \in Int
<1>3. /\ back \in Seq(S) /\ Len(back) = Len(s) - i
      /\ \A j \in 1 .. Len(s) - i : back[j] = s[i + j]
  BY <1>1, SubSeqProperties, Len(s) \in Int, i + 1 \in Int
<1> HIDE DEF front, back
<1>4. /\ front \o back \in Seq(S)
      /\ Len(front \o back) = Len(front) + Len(back)
      /\ \A j \in 1 .. Len(front) + Len(back) : (front \o back)[j] =
                IF j <= Len(front) THEN front[j] ELSE back[j - Len(front)]
  BY <1>2, <1>3, ConcatProperties
<1>5. RemoveAt(s, i) = front \o back
  BY DEF RemoveAt, front, back
<1>6. ASSUME NEW j \in 1 .. Len(s) - 1
      PROVE  (front \o back)[j] = IF j < i THEN s[j] ELSE s[j + 1]
  <2>1. CASE j < i
    BY <2>1, <1>1, <1>2, <1>3, <1>4
  <2>2. CASE ~ j < i
    <3>1. (front \o back)[j] = back[j - (i - 1)]
      BY <2>2, <1>1, <1>2, <1>3, <1>4
    <3>2. j - (i - 1) \in 1 .. Len(s) - i /\ i + (j - (i - 1)) = j + 1
      BY <2>2, <1>1
    <3>3. QED
      BY <3>1, <3>2, <1>3, <2>2
  <2>3. QED
    BY <2>1, <2>2
<1>7. front \o back \in Seq(S) /\ Len(front \o back) = Len(s) - 1
  BY <1>1, <1>2, <1>3, <1>4
<1>8. SeqWithout(front \o back, S, s, i)
  BY <1>6, <1>7 DEF SeqWithout
<1>9. QED
  BY <1>5, <1>8

-------------------------------------------------------------------------------
\* Nodes: what the operations of BNode do to a node and its pointers.
LEMMA NodeFacts ==
    ASSUME NEW n, n \in NodeRecords
    PROVE  /\ n.id \in Int /\ n.leaf \in BOOLEAN /\ n.deleted \in BOOLEAN
           /\ n.keys \in Seq(Keys) /\ n.ptrs \in Seq(Int)
           /\ Kids(n) \in Nat /\ Size(n) \in Nat
           /\ n.next \in Int /\ n.prev \in Int
BY LenProperties DEF NodeRecords, Kids, Size

LEMMA NodeGrows ==
    ASSUME NEW n, NEW ids \in Int, NEW values \in Int, NodeOK(n, ids, values),
           NEW ids2 \in Int, NEW values2 \in Int, ids <= ids2, values <= values2
    PROVE  NodeOK(n, ids2, values2)
<1>1. Handed(n.leaf, ids, values) \subseteq Handed(n.leaf, ids2, values2)
  BY DEF Handed
<1>2. QED
  BY <1>1 DEF NodeOK

\* A node m that differs from n in its keys and pointers.
Replaced(m, n, ks, ps, ids, values) ==
    /\ NodeOK(m, ids, values)
    /\ m.keys = ks /\ m.ptrs = ps
    /\ m.id = n.id /\ m.leaf = n.leaf /\ m.deleted = n.deleted

LEMMA NodeChanged ==
    ASSUME NEW n, NEW ids \in Int, NEW values \in Int, NodeOK(n, ids, values),
           NEW ks \in Seq(Keys), NEW ps \in Seq(Int), Len(ps) = Len(ks),
           \A i \in 1 .. Len(ps) : ps[i] \in Handed(n.leaf, ids, values)
    PROVE  Replaced([n EXCEPT !.keys = ks, !.ptrs = ps], n, ks, ps, ids, values)
<1> DEFINE m == [n EXCEPT !.keys = ks, !.ptrs = ps]
<1>1. n \in NodeRecords
  BY DEF NodeOK
<1>2. /\ m \in NodeRecords
      /\ m.keys = ks /\ m.ptrs = ps /\ m.id = n.id /\ m.leaf = n.leaf
      /\ m.next = n.next /\ m.prev = n.prev /\ m.deleted = n.deleted
  BY <1>1 DEF NodeRecords
<1> HIDE DEF m
<1>3. Kids(m) = Size(m) /\ \A i \in 1 .. Kids(m) : Kid(m, i) \in Handed(m.leaf, ids, values)
  BY <1>2 DEF Kids, Kid, Size
<1>4. NodeOK(m, ids, values)
  BY <1>2, <1>3 DEF NodeOK
<1>5. Replaced(m, n, ks, ps, ids, values)
  BY <1>2, <1>4 DEF Replaced
<1>6. QED
  BY <1>5 DEF m

HalvesOf(n, S, s) ==
    /\ Middle(n) \in 0 .. Len(s)
    /\ 2 * Middle(n) = Len(s) \/ 2 * Middle(n) + 1 = Len(s)
    /\ LowerHalf(n, s) \in Seq(S) /\ UpperHalf(n, s) \in Seq(S)
    /\ Len(LowerHalf(n, s)) = Middle(n)
    /\ Len(UpperHalf(n, s)) = Len(s) - Middle(n)
    /\ \A j \in 1 .. Middle(n) : LowerHalf(n, s)[j] = s[j]
    /\ \A j \in 1 .. Len(s) - Middle(n) : UpperHalf(n, s)[j] = s[Middle(n) + j]

LEMMA HalfProperties ==
    ASSUME NEW n, NEW S, NEW s \in Seq(S), Len(s) = Size(n)
    PROVE  HalvesOf(n, S, s)
<1>1. Len(s) \in Nat /\ \A j \in 1 .. Len(s) : s[j] \in S
  BY LenProperties, ElementOfSeq
<1>2. /\ Middle(n) \in 0 .. Len(s)
      /\ 2 * Middle(n) = Len(s) \/ 2 * Middle(n) + 1 = Len(s)
  BY <1>1 DEF Middle
<1> DEFINE m == Middle(n)
<1> HIDE DEF m
<1>3. m \in 0 .. Len(s)
  BY <1>2 DEF m
<1>4. /\ SubSeq(s, 1, m) \in Seq(S) /\ Len(SubSeq(s, 1, m)) = m
      /\ \A j \in 1 .. m : SubSeq(s, 1, m)[j] = s[j]
  BY <1>1, <1>3, SubSeqProperties, 1 \in Int, m \in Int
<1>5. /\ SubSeq(s, m + 1, Len(s)) \in Seq(S)
      /\ Len(SubSeq(s, m + 1, Len(s))) = Len(s) - m
      /\ \A j \in 1 .. Len(s) - m : SubSeq(s, m + 1, Len(s))[j] = s[m + j]
  BY <1>1, <1>3, SubSeqProperties, m + 1 \in Int, Len(s) \in Int
<1>6. QED
  BY <1>2, <1>4, <1>5 DEF HalvesOf, LowerHalf, UpperHalf, m

\* The pair shares the pointers of n, the first of them has mid.
Shared(pair, n, mid) ==
    /\ Kids(pair[1]) = mid /\ Kids(pair[2]) = Kids(n) - mid
    /\ \A j \in 1 .. mid : Kid(pair[1], j) = Kid(n, j)
    /\ \A j \in 1 .. Kids(n) - mid : Kid(pair[2], j) = Kid(n, mid + j)

LEMMA SplitProperties ==
    ASSUME NEW n, NEW ids \in Int, NEW values \in Int, NodeOK(n, ids, values),
           NEW idL \in 1 .. ids - 1, NEW idR \in 1 .. ids - 1
    PROVE  LET pair == Split(n, idL, idR) IN
           /\ NodeOK(pair[1], ids, values) /\ NodeOK(pair[2], ids, values)
           /\ pair[1].id = idL /\ pair[2].id = idR
           /\ pair[1].leaf = n.leaf /\ pair[2].leaf = n.leaf
           /\ ~pair[1].deleted /\ ~pair[2].deleted
           /\ Middle(n) \in 0 .. Kids(n)
           /\ 2 * Middle(n) = Kids(n) \/ 2 * Middle(n) + 1 = Kids(n)
           /\ Shared(pair, n, Middle(n))
<1> DEFINE pair == Split(n, idL, idR)
           mid == Middle(n)
           keysL == LowerHalf(n, n.keys)
           keysR == UpperHalf(n, n.keys)
           ptrsL == LowerHalf(n, n.ptrs)
           ptrsR == UpperHalf(n, n.ptrs)
<1>1. /\ n.keys \in Seq(Keys) /\ n.ptrs \in Seq(Int)
      /\ Len(n.keys) = Size(n) /\ Len(n.ptrs) = Size(n)
  BY NodeFacts DEF NodeOK, Size, Kids
<1>2. HalvesOf(n, Keys, n.keys) /\ HalvesOf(n, Int, n.ptrs)
  BY <1>1, HalfProperties
<1>3. /\ keysL \in Seq(Keys) /\ keysR \in Seq(Keys)
      /\ ptrsL \in Seq(Int) /\ ptrsR \in Seq(Int)
      /\ Len(keysL) = mid /\ Len(keysR) = Kids(n) - mid
      /\ Len(ptrsL) = mid /\ Len(ptrsR) = Kids(n) - mid
      /\ mid \in 0 .. Kids(n) /\ (2 * mid = Kids(n) \/ 2 * mid + 1 = Kids(n))
  BY <1>1, <1>2 DEF HalvesOf, Kids
<1>4. /\ \A j \in 1 .. mid : ptrsL[j] = Kid(n, j)
      /\ \A j \in 1 .. Kids(n) - mid : ptrsR[j] = Kid(n, mid + j)
  BY <1>2 DEF HalvesOf, Kids, Kid
<1> HIDE DEF mid, keysL, keysR, ptrsL, ptrsR
<1>5. Kids(n) \in Nat /\ n.leaf \in BOOLEAN
  BY NodeFacts DEF NodeOK
<1>6. /\ \A j \in 1 .. Len(ptrsL) : ptrsL[j] \in Handed(n.leaf, ids, values)
      /\ \A j \in 1 .. Len(ptrsR) : ptrsR[j] \in Handed(n.leaf, ids, values)
  <2>1. /\ \A j \in 1 .. Kids(n) : Kid(n, j) \in Handed(n.leaf, ids, values)
        /\ Kids(n) \in Nat /\ mid \in 0 .. Kids(n)
        /\ Len(ptrsL) = mid /\ Len(ptrsR) = Kids(n) - mid
    BY <1>3, <1>5 DEF NodeOK
  <2>2. ASSUME NEW j \in 1 .. Len(ptrsL) PROVE ptrsL[j] \in Handed(n.leaf, ids, values)
    BY <2>1, <1>4
  <2>3. ASSUME NEW j \in 1 .. Len(ptrsR) PROVE ptrsR[j] \in Handed(n.leaf, ids, values)
    <3>1. mid + j \in 1 .. Kids(n) /\ ptrsR[j] = Kid(n, mid + j)
      BY <2>1, <1>4
    <3>2. QED
      BY <2>1, <3>1
  <2>4. QED
    BY <2>2, <2>3
<1>7. /\ pair[1] = [id |-> idL, leaf |-> n.leaf, keys |-> keysL, ptrs |-> ptrsL,
                     next |-> IF n.leaf THEN idR ELSE Nil,
                     prev |-> IF n.leaf THEN n.prev ELSE Nil, deleted |-> FALSE]
      /\ pair[2] = [id |-> idR, leaf |-> n.leaf, keys |-> keysR, ptrs |-> ptrsR,
                     next |-> IF n.leaf THEN n.next ELSE Nil,
                     prev |-> IF n.leaf THEN idL ELSE Nil, deleted |-> FALSE]
  BY <1>5 DEF Split, SplitLeaf, SplitInner, Leaf, Inner, keysL, keysR, ptrsL, ptrsR
<1> HIDE DEF pair
<1>8. n.next \in {Nil} \cup 1 .. ids - 1 /\ n.prev \in {Nil} \cup 1 .. ids - 1
  BY DEF NodeOK
<1>9. pair[1] \in NodeRecords /\ pair[2] \in NodeRecords
  BY <1>3, <1>5, <1>7, <1>8 DEF NodeRecords, Nil
<1>10. /\ pair[1].id = idL /\ pair[1].leaf = n.leaf /\ ~pair[1].deleted
       /\ pair[1].next \in {Nil} \cup 1 .. ids - 1 /\ pair[1].prev \in {Nil} \cup 1 .. ids - 1
       /\ pair[1].keys = keysL /\ pair[1].ptrs = ptrsL
       /\ pair[2].id = idR /\ pair[2].leaf = n.leaf /\ ~pair[2].deleted
       /\ pair[2].next \in {Nil} \cup 1 .. ids - 1 /\ pair[2].prev \in {Nil} \cup 1 .. ids - 1
       /\ pair[2].keys = keysR /\ pair[2].ptrs = ptrsR
  BY <1>7, <1>8
<1>11. Shared(pair, n, mid) /\ Size(pair[1]) = Kids(pair[1]) /\ Size(pair[2]) = Kids(pair[2])
  BY <1>3, <1>4, <1>10 DEF Shared, Kids, Kid, Size
<1>12. /\ \A j \in 1 .. Kids(pair[1]) : Kid(pair[1], j) \in Handed(n.leaf, ids, values)
       /\ \A j \in 1 .. Kids(pair[2]) : Kid(pair[2], j) \in Handed(n.leaf, ids, values)
  BY <1>6, <1>10 DEF Kids, Kid
<1>13. NodeOK(pair[1], ids, values) /\ NodeOK(pair[2], ids, values)
  BY <1>9, <1>10, <1>11, <1>12 DEF NodeOK
<1>14. QED
  BY <1>3, <1>10, <1>11, <1>13 DEF pair, mid

\* The pointers of a and then those of b.
Concatenated(m, a, b) ==
    /\ Kids(m) = Kids(a) + Kids(b)
    /\ \A j \in 1 .. Kids(a) : Kid(m, j) = Kid(a, j)
    /\ \A j \in 1 .. Kids(b) : Kid(m, Kids(a) + j) = Kid(b, j)

SeqOfBoth(u, S, s, t) ==
    /\ u \in Seq(S) /\ Len(u) = Len(s) + Len(t)
    /\ \A j \in 1 .. Len(s) : u[j] = s[j]
    /\ \A j \in 1 .. Len(t) : u[Len(s) + j] = t[j]

LEMMA ConcatFacts ==
    ASSUME NEW S, NEW s \in Seq(S), NEW t \in Seq(S)
    PROVE  SeqOfBoth(s \o t, S, s, t)
<1> DEFINE u == s \o t
<1>1. Len(s) \in Nat /\ Len(t) \in Nat
  BY LenProperties
<1>2. /\ u \in Seq(S) /\ Len(u) = Len(s) + Len(t)
      /\ \A i \in 1 .. Len(s) + Len(t) : u[i] = IF i <= Len(s) THEN s[i] ELSE t[i - Len(s)]
  BY ConcatProperties
<1> HIDE DEF u
<1>3. ASSUME NEW j \in 1 .. Len(t) PROVE u[Len(s) + j] = t[j]
  <2>1. Len(s) + j \in 1 .. Len(s) + Len(t) /\ ~ Len(s) + j <= Len(s) /\ Len(s) + j - Len(s) = j
    BY <1>1
  <2>2. QED
    BY <1>2, <2>1
<1>4. SeqOfBoth(u, S, s, t)
  BY <1>1, <1>2, <1>3 DEF SeqOfBoth
<1>5. QED
  BY <1>4 DEF u

LEMMA JoinProperties ==
    ASSUME NEW a, NEW b, NEW ids \in Int, NEW values \in Int,
           NodeOK(a, ids, values), NodeOK(b, ids, values), a.leaf = b.leaf
    PROVE  /\ NodeOK(Join(a, b), ids, values)
           /\ Join(a, b).id = a.id /\ Join(a, b).leaf = a.leaf
           /\ Join(a, b).deleted = a.deleted
           /\ Concatenated(Join(a, b), a, b)
<1> DEFINE ks == a.keys \o b.keys
           ps == a.ptrs \o b.ptrs
           m == [a EXCEPT !.keys = ks, !.ptrs = ps]
<1>1. /\ a \in NodeRecords /\ b \in NodeRecords
      /\ a.keys \in Seq(Keys) /\ a.ptrs \in Seq(Int)
      /\ b.keys \in Seq(Keys) /\ b.ptrs \in Seq(Int)
      /\ Len(a.keys) = Kids(a) /\ Len(a.ptrs) = Kids(a) /\ Kids(a) \in Nat
      /\ Len(b.keys) = Kids(b) /\ Len(b.ptrs) = Kids(b) /\ Kids(b) \in Nat
      /\ b.next \in {Nil} \cup 1 .. ids - 1
  BY NodeFacts DEF NodeOK, Kids, Size
<1>2. SeqOfBoth(ks, Keys, a.keys, b.keys)
  BY <1>1, ConcatFacts
<1>3. SeqOfBoth(ps, Int, a.ptrs, b.ptrs)
  BY <1>1, ConcatFacts
<1> HIDE DEF ks, ps
<1>4. /\ \A j \in 1 .. Kids(a) : ps[j] = Kid(a, j)
      /\ \A j \in 1 .. Kids(b) : ps[Kids(a) + j] = Kid(b, j)
      /\ Len(ps) = Kids(a) + Kids(b) /\ Len(ks) = Kids(a) + Kids(b)
      /\ ks \in Seq(Keys) /\ ps \in Seq(Int)
  BY <1>1, <1>2, <1>3 DEF SeqOfBoth, Kid, Kids
<1>5. ASSUME NEW j \in 1 .. Len(ps) PROVE ps[j] \in Handed(a.leaf, ids, values)
  <2>1. /\ \A i \in 1 .. Kids(a) : Kid(a, i) \in Handed(a.leaf, ids, values)
        /\ \A i \in 1 .. Kids(b) : Kid(b, i) \in Handed(a.leaf, ids, values)
        /\ Kids(a) \in Nat /\ Kids(b) \in Nat
    BY <1>1 DEF NodeOK
  <2>2. CASE j <= Kids(a)
    BY <2>1, <2>2, <1>4
  <2>3. CASE ~ j <= Kids(a)
    <3>1. PICK i \in 1 .. Kids(b) : j = Kids(a) + i
      <4>1. j - Kids(a) \in 1 .. Kids(b) /\ j = Kids(a) + (j - Kids(a))
        BY <2>1, <2>3, <1>4
      <4>2. QED
        BY <4>1
    <3>2. QED
      BY <3>1, <2>1, <1>4
  <2>4. QED
    BY <2>2, <2>3
<1>6. /\ NodeOK(m, ids, values)
      /\ m.keys = ks /\ m.ptrs = ps /\ m.id = a.id /\ m.leaf = a.leaf
      /\ m.deleted = a.deleted
  <2>1. Replaced(m, a, ks, ps, ids, values)
    BY <1>4, <1>5, NodeChanged
  <2>2. QED
    BY <2>1 DEF Replaced
<1>7. JoinInner(a, b) = m
  BY <1>1 DEF JoinInner, ks, ps, NodeRecords
<1> HIDE DEF m
<1> DEFINE l == [m EXCEPT !.next = b.next]
<1>8. Join(a, b) = IF a.leaf THEN l ELSE m
  BY <1>7 DEF Join, JoinLeaf
<1>9. /\ l \in NodeRecords /\ l.next = b.next
      /\ l.keys = ks /\ l.ptrs = ps /\ l.id = a.id /\ l.leaf = a.leaf
      /\ l.prev = m.prev /\ l.deleted = a.deleted
  BY <1>1, <1>6 DEF NodeRecords, NodeOK, Nil
<1> HIDE DEF l
<1>10. NodeOK(l, ids, values)
  <2>1. /\ Kids(l) = Kids(m) /\ Size(l) = Size(m)
        /\ \A i \in 1 .. Kids(m) : Kid(l, i) = Kid(m, i)
    BY <1>6, <1>9 DEF Kids, Kid, Size
  <2>2. QED
    BY <2>1, <1>1, <1>6, <1>9 DEF NodeOK
<1>11. Concatenated(m, a, b) /\ Concatenated(l, a, b)
  BY <1>4, <1>6, <1>9 DEF Concatenated, Kids, Kid
<1>12. QED
  BY <1>6, <1>8, <1>9, <1>10, <1>11

\* A node m that is n but for its keys and pointers.
Kept(m, n) == m.id = n.id /\ m.leaf = n.leaf /\ m.deleted = n.deleted

\* The pointers of n with p inserted at i, and with the one at i removed.
Grown(m, n, i, p) ==
    /\ Kids(m) = Kids(n) + 1
    /\ \A j \in 1 .. Kids(n) + 1 :
            Kid(m, j) = IF j < i THEN Kid(n, j) ELSE IF j = i THEN p ELSE Kid(n, j - 1)

Shrunk(m, n, i) ==
    /\ Kids(m) = Kids(n) - 1
    /\ \A j \in 1 .. Kids(n) - 1 : Kid(m, j) = IF j < i THEN Kid(n, j) ELSE Kid(n, j + 1)

LEMMA SequencesOfNode ==
    ASSUME NEW n, NEW ids, NEW values, NodeOK(n, ids, values)
    PROVE  /\ n \in NodeRecords
           /\ n.keys \in Seq(Keys) /\ n.ptrs \in Seq(Int)
           /\ Len(n.keys) = Kids(n) /\ Len(n.ptrs) = Kids(n)
           /\ Kids(n) \in Nat /\ Size(n) = Kids(n)
BY NodeFacts DEF NodeOK, Kids, Size

LEMMA AddKeyProperties ==
    ASSUME NEW n, NEW ids \in Int, NEW values \in Int, NodeOK(n, ids, values),
           NEW i \in 1 .. Kids(n) + 1, NEW key \in Keys,
           NEW p \in Handed(n.leaf, ids, values)
    PROVE  /\ NodeOK(AddKey(n, i, key, p), ids, values)
           /\ Kept(AddKey(n, i, key, p), n) /\ Grown(AddKey(n, i, key, p), n, i, p)
<1> DEFINE ks == InsertAt(n.keys, i, key)
           ps == InsertAt(n.ptrs, i, p)
           m == [n EXCEPT !.keys = ks, !.ptrs = ps]
<1>1. /\ n \in NodeRecords /\ n.keys \in Seq(Keys) /\ n.ptrs \in Seq(Int)
      /\ Len(n.keys) = Kids(n) /\ Len(n.ptrs) = Kids(n) /\ Kids(n) \in Nat
  BY SequencesOfNode
<1>2. p \in Int
  BY DEF Handed
<1>3. SeqWith(ks, Keys, n.keys, i, key) /\ SeqWith(ps, Int, n.ptrs, i, p)
  BY <1>1, <1>2, InsertAtProperties
<1> HIDE DEF ks, ps
<1>4. /\ ks \in Seq(Keys) /\ ps \in Seq(Int)
      /\ Len(ks) = Kids(n) + 1 /\ Len(ps) = Kids(n) + 1
      /\ \A j \in 1 .. Kids(n) + 1 :
            ps[j] = IF j < i THEN Kid(n, j) ELSE IF j = i THEN p ELSE Kid(n, j - 1)
  BY <1>1, <1>3 DEF SeqWith, Kids, Kid
<1>5. ASSUME NEW j \in 1 .. Len(ps) PROVE ps[j] \in Handed(n.leaf, ids, values)
  <2>1. \A k \in 1 .. Kids(n) : Kid(n, k) \in Handed(n.leaf, ids, values)
    BY DEF NodeOK
  <2>2. CASE j < i
    BY <2>1, <2>2, <1>1, <1>4
  <2>3. CASE j = i
    BY <2>3, <1>4
  <2>4. CASE j > i
    BY <2>1, <2>4, <1>1, <1>4
  <2>5. QED
    BY <2>2, <2>3, <2>4, <1>1, <1>4
<1>6. Replaced(m, n, ks, ps, ids, values)
  BY <1>4, <1>5, NodeChanged
<1>7. AddKey(n, i, key, p) = m
  BY <1>1 DEF AddKey, ks, ps, NodeRecords
<1> HIDE DEF m
<1>8. Grown(m, n, i, p)
  BY <1>4, <1>6 DEF Grown, Replaced, Kids, Kid
<1>9. QED
  BY <1>6, <1>7, <1>8 DEF Replaced, Kept

LEMMA DeleteKeyProperties ==
    ASSUME NEW n, NEW ids \in Int, NEW values \in Int, NodeOK(n, ids, values),
           NEW i \in 1 .. Kids(n)
    PROVE  /\ NodeOK(DeleteKey(n, i), ids, values)
           /\ Kept(DeleteKey(n, i), n) /\ Shrunk(DeleteKey(n, i), n, i)
<1> DEFINE ks == RemoveAt(n.keys, i)
           ps == RemoveAt(n.ptrs, i)
           m == [n EXCEPT !.keys = ks, !.ptrs = ps]
<1>1. /\ n \in NodeRecords /\ n.keys \in Seq(Keys) /\ n.ptrs \in Seq(Int)
      /\ Len(n.keys) = Kids(n) /\ Len(n.ptrs) = Kids(n) /\ Kids(n) \in Nat
  BY SequencesOfNode
<1>2. SeqWithout(ks, Keys, n.keys, i) /\ SeqWithout(ps, Int, n.ptrs, i)
  BY <1>1, RemoveAtProperties
<1> HIDE DEF ks, ps
<1>3. /\ ks \in Seq(Keys) /\ ps \in Seq(Int)
      /\ Len(ks) = Kids(n) - 1 /\ Len(ps) = Kids(n) - 1
      /\ \A j \in 1 .. Kids(n) - 1 : ps[j] = IF j < i THEN Kid(n, j) ELSE Kid(n, j + 1)
  BY <1>1, <1>2 DEF SeqWithout, Kids, Kid
<1>4. ASSUME NEW j \in 1 .. Len(ps) PROVE ps[j] \in Handed(n.leaf, ids, values)
  <2>1. \A k \in 1 .. Kids(n) : Kid(n, k) \in Handed(n.leaf, ids, values)
    BY DEF NodeOK
  <2>2. CASE j < i
    BY <2>1, <2>2, <1>1, <1>3
  <2>3. CASE ~ j < i
    BY <2>1, <2>3, <1>1, <1>3
  <2>4. QED
    BY <2>2, <2>3
<1>5. Replaced(m, n, ks, ps, ids, values)
  BY <1>3, <1>4, NodeChanged
<1>6. DeleteKey(n, i) = m
  BY <1>1 DEF DeleteKey, ks, ps, NodeRecords
<1> HIDE DEF m
<1>7. Shrunk(m, n, i)
  BY <1>3, <1>5 DEF Shrunk, Replaced, Kids, Kid
<1>8. QED
  BY <1>5, <1>6, <1>7 DEF Replaced, Kept

LEMMA UpdateKeyProperties ==
    ASSUME NEW n, NEW ids \in Int, NEW values \in Int, NodeOK(n, ids, values),
           NEW i \in 1 .. Kids(n), NEW key \in Keys
    PROVE  /\ NodeOK(UpdateKey(n, i, key), ids, values)
           /\ Kept(UpdateKey(n, i, key), n) /\ SameCore(UpdateKey(n, i, key), n)
<1> DEFINE ks == [n.keys EXCEPT ![i] = key]
           m == [n EXCEPT !.keys = ks]
<1>1. /\ n \in NodeRecords /\ n.keys \in Seq(Keys)
      /\ Len(n.keys) = Kids(n) /\ Kids(n) \in Nat /\ Size(n) = Kids(n)
  BY SequencesOfNode
<1>2. ks \in Seq(Keys) /\ Len(ks) = Kids(n)
  BY <1>1, ExceptSeq
<1> HIDE DEF ks
<1>3. /\ m \in NodeRecords /\ m.keys = ks /\ m.ptrs = n.ptrs
      /\ m.id = n.id /\ m.leaf = n.leaf /\ m.deleted = n.deleted
      /\ m.next = n.next /\ m.prev = n.prev
  BY <1>1, <1>2 DEF NodeRecords
<1>4. UpdateKey(n, i, key) = m
  BY <1>1 DEF UpdateKey, ks, NodeRecords
<1> HIDE DEF m
<1>5. Size(m) = Size(n) /\ Kids(m) = Kids(n) /\ \A j : Kid(m, j) = Kid(n, j)
  BY <1>1, <1>2, <1>3 DEF Size, Kids, Kid
<1>6. NodeOK(m, ids, values)
  BY <1>3, <1>5 DEF NodeOK
<1>7. QED
  BY <1>3, <1>4, <1>5, <1>6 DEF SameCore, Kept

LEMMA SetChildProperties ==
    ASSUME NEW n, NEW ids \in Int, NEW values \in Int, NodeOK(n, ids, values),
           NEW i \in 1 .. Kids(n), NEW p \in Handed(n.leaf, ids, values)
    PROVE  /\ NodeOK(SetChild(n, i, p), ids, values) /\ Kept(SetChild(n, i, p), n)
           /\ Kids(SetChild(n, i, p)) = Kids(n)
           /\ \A j \in 1 .. Kids(n) :
                    Kid(SetChild(n, i, p), j) = IF j = i THEN p ELSE Kid(n, j)
<1> DEFINE ps == [n.ptrs EXCEPT ![i] = p]
           m == [n EXCEPT !.ptrs = ps]
<1>1. /\ n \in NodeRecords /\ n.ptrs \in Seq(Int)
      /\ Len(n.ptrs) = Kids(n) /\ Kids(n) \in Nat /\ Size(n) = Kids(n)
  BY SequencesOfNode
<1>2. p \in Int
  BY DEF Handed
<1>3. /\ ps \in Seq(Int) /\ Len(ps) = Kids(n)
      /\ \A j \in 1 .. Kids(n) : ps[j] = IF j = i THEN p ELSE n.ptrs[j]
  BY <1>1, <1>2, ExceptSeq
<1> HIDE DEF ps
<1>4. /\ m \in NodeRecords /\ m.keys = n.keys /\ m.ptrs = ps
      /\ m.id = n.id /\ m.leaf = n.leaf /\ m.deleted = n.deleted
      /\ m.next = n.next /\ m.prev = n.prev
  BY <1>1, <1>3 DEF NodeRecords
<1>5. SetChild(n, i, p) = m
  BY <1>1 DEF SetChild, ps, NodeRecords
<1> HIDE DEF m
<1>6. /\ Size(m) = Size(n) /\ Kids(m) = Kids(n)
      /\ \A j \in 1 .. Kids(n) : Kid(m, j) = IF j = i THEN p ELSE Kid(n, j)
  BY <1>3, <1>4 DEF Size, Kids, Kid
<1>7. NodeOK(m, ids, values)
  BY <1>4, <1>6 DEF NodeOK
<1>8. QED
  BY <1>4, <1>5, <1>6, <1>7 DEF Kept

-------------------------------------------------------------------------------
(* Heaps: what a step does to a tree.  In each lemma h is the heap before   *)
(* and g the one after.                                                    *)

\* Keys, and whatever else is not in the core, may change; so may the size of a
\* leaf.
IsKept(h, g, live) ==
    /\ live \subseteq DOMAIN g
    /\ \A a \in live : \/ SameCore(g[a], h[a])
                       \/ /\ h[a].leaf = TRUE /\ g[a].leaf = TRUE /\ ~g[a].deleted
                          /\ Kids(g[a]) \in Nat

LEMMA KeptLinked ==
    ASSUME NEW h, NEW g, NEW live, NEW height, NEW up, NEW pos,
           Linked(h, live, height, up, pos), IsKept(h, g, live)
    PROVE  Linked(g, live, height, up, pos)
<1>1. ASSUME NEW a \in live PROVE LinkedAt(g[a], a, live, height, up, pos)
  <2> DEFINE ga == g[a]
             ha == h[a]
  <2>1. LinkedAt(ha, a, live, height, up, pos)
    BY DEF Linked
  <2>2. \/ SameCore(ga, ha)
        \/ ha.leaf = TRUE /\ ga.leaf = TRUE /\ ~ga.deleted /\ Kids(ga) \in Nat
    BY DEF IsKept
  <2> HIDE DEF ga, ha
  <2>3. LinkedAt(ga, a, live, height, up, pos)
    BY <2>1, <2>2 DEF LinkedAt, SameCore
  <2>4. QED
    BY <2>3 DEF ga
<1>2. ASSUME NEW a \in live \ {0} PROVE Hung(g, a, live, height, up, pos)
  <2> DEFINE b == up[a]
             gb == g[b]
             hb == h[b]
  <2>1. /\ b \in live /\ hb.leaf = FALSE /\ pos[a] \in 1 .. Kids(hb)
        /\ Kid(hb, pos[a]) = a /\ height[a] < height[0]
    BY DEF Linked, Hung
  <2>2. SameCore(gb, hb) \/ hb.leaf = TRUE
    BY <2>1 DEF IsKept
  <2> HIDE DEF gb, hb
  <2>3. gb.leaf = FALSE /\ pos[a] \in 1 .. Kids(gb) /\ Kid(gb, pos[a]) = a
    BY <2>1, <2>2 DEF SameCore
  <2>4. QED
    BY <2>1, <2>3 DEF Hung, gb
<1>3. QED
  BY <1>1, <1>2 DEF Linked, IsKept

\* g is a tree of the nodes live2, and those in same have the heights they had.
Relinked(g, live2, same, height) ==
    \E height2, up2, pos2 : /\ Linked(g, live2, height2, up2, pos2)
                            /\ \A a \in same : height2[a] = height[a]

\* The pointers of n with the one at i replaced by two, lo and hi.
Doubled(m, n, i, lo, hi) ==
    /\ Kids(m) = Kids(n) + 1
    /\ Kid(m, i) = lo /\ Kid(m, i + 1) = hi
    /\ \A j \in 1 .. Kids(n) : /\ j < i => Kid(m, j) = Kid(n, j)
                               /\ j > i => Kid(m, j + 1) = Kid(n, j)

\* Node c below p, at i, shares its pointers with a new node: of the two lo
\* takes the first mid of them and hi the others.
IsSplit(h, g, live, p, i, c, new, lo, hi, mid) ==
    /\ p \in live /\ ~h[p].leaf /\ i \in 1 .. Kids(h[p]) /\ c = Kid(h[p], i)
    /\ new \in Int \ live /\ mid \in 0 .. Kids(h[c])
    /\ \/ lo = new /\ hi = c
       \/ lo = c /\ hi = new
    /\ live \cup {new} \subseteq DOMAIN g
    /\ g[p].leaf = FALSE /\ ~g[p].deleted /\ Doubled(g[p], h[p], i, lo, hi)
    /\ g[lo].leaf = h[c].leaf /\ ~g[lo].deleted
    /\ g[hi].leaf = h[c].leaf /\ ~g[hi].deleted
    /\ Shared(<<g[lo], g[hi]>>, h[c], mid)
    /\ \A a \in live \ {p, c} : SameCore(g[a], h[a])

LEMMA SplitLinked ==
    ASSUME NEW h, NEW g, NEW live, NEW height, NEW up, NEW pos,
           Linked(h, live, height, up, pos),
           NEW p, NEW i, NEW c, NEW new, NEW lo, NEW hi, NEW mid,
           IsSplit(h, g, live, p, i, c, new, lo, hi, mid)
    PROVE  Relinked(g, live \cup {new}, live, height)
<1> DEFINE live2 == live \cup {new}
           height2 == [height EXCEPT ![new] = height[c]]
           up2 == [x \in Int |-> IF x \in {lo, hi} THEN p
                                 ELSE IF up[x] = c THEN (IF pos[x] <= mid THEN lo ELSE hi)
                                 ELSE up[x]]
           pos2 == [x \in Int |-> IF x = lo THEN i
                                  ELSE IF x = hi THEN i + 1
                                  ELSE IF up[x] = p /\ pos[x] > i THEN pos[x] + 1
                                  ELSE IF up[x] = c /\ pos[x] > mid THEN pos[x] - mid
                                  ELSE pos[x]]
           hp == h[p]
           hc == h[c]
           gp == g[p]
           gl == g[lo]
           gh == g[hi]
<1>1. /\ 0 \in live /\ live \subseteq Int /\ p \in live /\ p \in Int
      /\ i \in Int /\ mid \in Int /\ new \in Int /\ new \notin live
      /\ height \in [Int -> Nat] /\ up \in [Int -> Int] /\ pos \in [Int -> Int]
      /\ (lo = new /\ hi = c) \/ (lo = c /\ hi = new)
  BY DEF Linked, IsSplit
<1>2. LinkedAt(hp, p, live, height, up, pos) /\ ~hp.leaf
  BY DEF Linked, IsSplit
<1>3. /\ c \in live \ {0} /\ height[c] + 1 = height[p] /\ up[c] = p /\ pos[c] = i
      /\ Kids(hp) \in Nat /\ c = Kid(hp, i) /\ i \in 1 .. Kids(hp)
  BY <1>2 DEF LinkedAt, IsSplit
<1>4. LinkedAt(hc, c, live, height, up, pos) /\ Kids(hc) \in Nat /\ mid \in 0 .. Kids(hc)
  <2>1. LinkedAt(hc, c, live, height, up, pos) /\ mid \in 0 .. Kids(hc)
    BY <1>3 DEF Linked, IsSplit
  <2>2. QED
    BY <2>1 DEF LinkedAt
<1>5. /\ c \in Int /\ height[c] \in Nat /\ height[p] \in Nat
      /\ c # p /\ new # 0 /\ new # p /\ new # c /\ lo # hi
      /\ lo \in live2 \ {0} /\ hi \in live2 \ {0} /\ lo # p /\ hi # p
  BY <1>1, <1>3
<1>6. /\ gp.leaf = FALSE /\ ~gp.deleted /\ Doubled(gp, hp, i, lo, hi)
      /\ gl.leaf = hc.leaf /\ ~gl.deleted /\ gh.leaf = hc.leaf /\ ~gh.deleted
      /\ Kids(gl) = mid /\ \A j \in 1 .. mid : Kid(gl, j) = Kid(hc, j)
      /\ Kids(gh) = Kids(hc) - mid
      /\ \A j \in 1 .. Kids(hc) - mid : Kid(gh, j) = Kid(hc, mid + j)
  BY DEF IsSplit, Shared
<1> HIDE DEF hp, hc, gp, gl, gh
<1>7. /\ height2 \in [Int -> Nat] /\ up2 \in [Int -> Int] /\ pos2 \in [Int -> Int]
      /\ height2[new] = height[c] /\ \A a \in live : height2[a] = height[a]
  BY <1>1, <1>5
<1>8. /\ up2[lo] = p /\ pos2[lo] = i /\ height2[lo] = height[c]
      /\ up2[hi] = p /\ pos2[hi] = i + 1 /\ height2[hi] = height[c]
  BY <1>1, <1>3, <1>5
<1>9. ASSUME NEW x \in live, x # c
      PROVE  /\ up2[x] = IF up[x] = c THEN (IF pos[x] <= mid THEN lo ELSE hi) ELSE up[x]
             /\ pos2[x] = IF up[x] = p /\ pos[x] > i THEN pos[x] + 1
                          ELSE IF up[x] = c /\ pos[x] > mid THEN pos[x] - mid
                          ELSE pos[x]
             /\ x \in live2 /\ height2[x] = height[x] /\ x \in Int
  BY <1>1, <1>3, <1>7, <1>9
<1> HIDE DEF height2, up2, pos2
<1>10. LinkedAt(gp, p, live2, height2, up2, pos2)
  <2>1. /\ Kids(gp) \in Nat /\ Kids(gp) = Kids(hp) + 1
        /\ height2[p] # 0 /\ height2[p] = height[p]
    <3>1. Kids(gp) = Kids(hp) + 1
      BY <1>6 DEF Doubled
    <3>2. height2[p] = height[p] /\ Kids(hp) \in Nat
      BY <1>1, <1>3, <1>7
    <3>3. QED
      BY <3>1, <3>2, <1>3, <1>5
  <2>2. ASSUME NEW j \in 1 .. Kids(gp)
        PROVE  /\ Kid(gp, j) \in live2 \ {0}
               /\ height2[Kid(gp, j)] + 1 = height2[p]
               /\ up2[Kid(gp, j)] = p /\ pos2[Kid(gp, j)] = j
    <3>1. CASE j = i
      <4>1. Kid(gp, j) = lo
        BY <3>1, <1>6 DEF Doubled
      <4>2. QED
        BY <4>1, <3>1, <2>1, <1>3, <1>5, <1>8
    <3>2. CASE j = i + 1
      <4>1. Kid(gp, j) = hi
        BY <3>2, <1>6 DEF Doubled
      <4>2. QED
        BY <4>1, <3>2, <2>1, <1>3, <1>5, <1>8
    <3>3. CASE j < i
      <4> DEFINE x == Kid(hp, j)
      <4>1. Kid(gp, j) = x /\ j \in 1 .. Kids(hp)
        BY <3>3, <2>1, <1>1, <1>3, <1>6 DEF Doubled
      <4>2. x \in live \ {0} /\ height[x] + 1 = height[p] /\ up[x] = p /\ pos[x] = j
        BY <4>1, <1>2, <1>5 DEF LinkedAt
      <4> HIDE DEF x
      <4>3. ~ pos[x] > i /\ x # c
        BY <4>1, <4>2, <3>3, <1>1, <1>3
      <4>4. /\ up2[x] = p /\ pos2[x] = pos[x]
            /\ x \in live2 /\ height2[x] = height[x]
        BY <4>2, <4>3, <1>5, <1>9
      <4>5. QED
        BY <4>1, <4>2, <4>4, <2>1
    <3>4. CASE j > i + 1
      <4> DEFINE x == Kid(hp, j - 1)
      <4>1. Kid(gp, j) = x /\ j - 1 \in 1 .. Kids(hp)
        <5>1. j - 1 \in 1 .. Kids(hp) /\ j - 1 > i /\ (j - 1) + 1 = j
          BY <3>4, <2>1, <1>1, <1>3
        <5>2. QED
          BY <5>1, <1>6 DEF Doubled
      <4>2. x \in live \ {0} /\ height[x] + 1 = height[p] /\ up[x] = p /\ pos[x] = j - 1
        BY <4>1, <1>2, <1>5 DEF LinkedAt
      <4> HIDE DEF x
      <4>3. pos[x] > i /\ pos[x] + 1 = j /\ x # c
        BY <4>1, <4>2, <3>4, <1>1, <1>3
      <4>4. /\ up2[x] = p /\ pos2[x] = pos[x] + 1
            /\ x \in live2 /\ height2[x] = height[x]
        BY <4>2, <4>3, <1>5, <1>9
      <4>5. QED
        BY <4>1, <4>2, <4>3, <4>4, <2>1
    <3>5. QED
      BY <3>1, <3>2, <3>3, <3>4, <1>1
  <2>3. QED
    BY <2>1, <2>2, <1>6 DEF LinkedAt
<1>11. LinkedAt(gl, lo, live2, height2, up2, pos2)
  <2>1. gl.leaf \in BOOLEAN /\ (gl.leaf <=> height2[lo] = 0) /\ Kids(gl) \in Nat
    BY <1>1, <1>4, <1>6, <1>8 DEF LinkedAt
  <2>2. ASSUME ~gl.leaf, NEW j \in 1 .. Kids(gl)
        PROVE  /\ Kid(gl, j) \in live2 \ {0}
               /\ height2[Kid(gl, j)] + 1 = height2[lo]
               /\ up2[Kid(gl, j)] = lo /\ pos2[Kid(gl, j)] = j
    <3> DEFINE x == Kid(hc, j)
    <3>1. Kid(gl, j) = x /\ j \in 1 .. Kids(hc) /\ j <= mid
      BY <1>1, <1>4, <1>6
    <3>2. x \in live \ {0} /\ height[x] + 1 = height[c] /\ up[x] = c /\ pos[x] = j
      BY <3>1, <2>2, <1>4, <1>6 DEF LinkedAt
    <3> HIDE DEF x
    <3>3. pos[x] <= mid /\ ~ pos[x] > mid /\ x # c
      BY <3>1, <3>2, <1>1, <1>5
    <3>4. /\ up2[x] = lo /\ pos2[x] = pos[x]
          /\ x \in live2 /\ height2[x] = height[x]
      BY <3>2, <3>3, <1>5, <1>9
    <3>5. QED
      BY <3>1, <3>2, <3>4, <1>8
  <2>3. QED
    BY <2>1, <2>2, <1>6 DEF LinkedAt
<1>12. LinkedAt(gh, hi, live2, height2, up2, pos2)
  <2>1. gh.leaf \in BOOLEAN /\ (gh.leaf <=> height2[hi] = 0) /\ Kids(gh) \in Nat
    BY <1>1, <1>4, <1>6, <1>8 DEF LinkedAt
  <2>2. ASSUME ~gh.leaf, NEW j \in 1 .. Kids(gh)
        PROVE  /\ Kid(gh, j) \in live2 \ {0}
               /\ height2[Kid(gh, j)] + 1 = height2[hi]
               /\ up2[Kid(gh, j)] = hi /\ pos2[Kid(gh, j)] = j
    <3> DEFINE x == Kid(hc, mid + j)
    <3>1. Kid(gh, j) = x /\ mid + j \in 1 .. Kids(hc)
      BY <1>1, <1>4, <1>6
    <3>2. x \in live \ {0} /\ height[x] + 1 = height[c] /\ up[x] = c /\ pos[x] = mid + j
      BY <3>1, <2>2, <1>4, <1>6 DEF LinkedAt
    <3> HIDE DEF x
    <3>3. ~ pos[x] <= mid /\ pos[x] > mid /\ pos[x] - mid = j /\ x # c
      BY <3>1, <3>2, <1>1, <1>4, <1>5
    <3>4. /\ up2[x] = hi /\ pos2[x] = pos[x] - mid
          /\ x \in live2 /\ height2[x] = height[x]
      BY <3>2, <3>3, <1>5, <1>9
    <3>5. QED
      BY <3>1, <3>2, <3>3, <3>4, <1>8
  <2>3. QED
    BY <2>1, <2>2, <1>6 DEF LinkedAt
<1>13. ASSUME NEW a \in live \ {p, c} PROVE LinkedAt(g[a], a, live2, height2, up2, pos2)
  <2> DEFINE ga == g[a]
             ha == h[a]
  <2>1. SameCore(ga, ha) /\ LinkedAt(ha, a, live, height, up, pos)
    BY DEF Linked, IsSplit
  <2> HIDE DEF ga, ha
  <2>2. ASSUME ~ha.leaf, NEW j \in 1 .. Kids(ha)
        PROVE  /\ Kid(ha, j) \in live2 \ {0}
               /\ height2[Kid(ha, j)] + 1 = height2[a]
               /\ up2[Kid(ha, j)] = a /\ pos2[Kid(ha, j)] = j
    <3> DEFINE x == Kid(ha, j)
    <3>1. x \in live \ {0} /\ height[x] + 1 = height[a] /\ up[x] = a /\ pos[x] = j
      BY <2>1, <2>2 DEF LinkedAt
    <3>2. x # c /\ up[x] # c /\ up[x] # p /\ height2[a] = height[a]
      BY <3>1, <1>3, <1>7
    <3> HIDE DEF x
    <3>3. up2[x] = a /\ pos2[x] = j /\ x \in live2 /\ height2[x] = height[x]
      BY <3>1, <3>2, <1>9
    <3>4. QED
      BY <3>1, <3>2, <3>3 DEF x
  <2>3. height2[a] = height[a]
    BY <1>7
  <2>4. LinkedAt(ga, a, live2, height2, up2, pos2)
    BY <2>1, <2>2, <2>3 DEF LinkedAt, SameCore
  <2>5. QED
    BY <2>4 DEF ga
<1>14. \A a \in live2 : LinkedAt(g[a], a, live2, height2, up2, pos2)
  BY <1>1, <1>10, <1>11, <1>12, <1>13 DEF gp, gl, gh
<1>15. ASSUME NEW a \in live2 \ {0} PROVE Hung(g, a, live2, height2, up2, pos2)
  <2>1. height2[0] = height[0] /\ height[0] \in Nat
    BY <1>1, <1>7
  <2>2. height[c] < height[0]
    BY <1>3 DEF Linked, Hung
  <2>3. CASE a = lo
    <3>1. Kid(gp, i) = lo /\ i \in 1 .. Kids(gp)
      BY <1>3, <1>6 DEF Doubled
    <3>2. QED
      BY <2>1, <2>2, <2>3, <3>1, <1>1, <1>6, <1>8 DEF Hung, gp
  <2>4. CASE a = hi
    <3>1. Kid(gp, i + 1) = hi /\ i + 1 \in 1 .. Kids(gp)
      BY <1>3, <1>6 DEF Doubled
    <3>2. QED
      BY <2>1, <2>2, <2>4, <3>1, <1>1, <1>6, <1>8 DEF Hung, gp
  <2>5. CASE a \notin {lo, hi}
    <3> DEFINE b == up[a]
               j == pos[a]
               hb == h[b]
    <3>1. a \in live \ {0} /\ a # c
      BY <2>5, <1>1
    <3>2. /\ b \in live /\ hb.leaf = FALSE /\ j \in 1 .. Kids(hb) /\ Kid(hb, j) = a
          /\ height[a] < height[0]
      BY <3>1 DEF Linked, Hung
    <3>3. /\ up2[a] = IF b = c THEN (IF j <= mid THEN lo ELSE hi) ELSE b
          /\ pos2[a] = IF b = p /\ j > i THEN j + 1
                       ELSE IF b = c /\ j > mid THEN j - mid ELSE j
          /\ height2[a] < height2[0] /\ j \in Int /\ j >= 1
      BY <3>1, <3>2, <2>1, <1>9
    <3> HIDE DEF b, j
    <3>4. CASE b = c
      <4>1. hb = hc
        BY <3>4 DEF hc
      <4> HIDE DEF hb
      <4>2. CASE j <= mid
        <5>1. up2[a] = lo /\ pos2[a] = j
          BY <3>3, <3>4, <4>2, <1>1, <1>5
        <5>2. j \in 1 .. Kids(gl) /\ Kid(gl, j) = a /\ gl.leaf = FALSE
          BY <3>2, <3>3, <4>1, <4>2, <1>1, <1>4, <1>6
        <5>3. QED
          BY <5>1, <5>2, <3>3, <1>5 DEF Hung, gl
      <4>3. CASE ~ j <= mid
        <5>1. up2[a] = hi /\ pos2[a] = j - mid
          BY <3>3, <3>4, <4>3, <1>1, <1>5
        <5>2. j - mid \in 1 .. Kids(gh) /\ mid + (j - mid) = j
          BY <3>2, <3>3, <4>1, <4>3, <1>1, <1>4, <1>6
        <5>3. Kid(gh, j - mid) = a /\ gh.leaf = FALSE
          BY <5>2, <3>2, <4>1, <1>4, <1>6
        <5>4. QED
          BY <5>1, <5>2, <5>3, <3>3, <1>5 DEF Hung, gh
      <4>4. QED
        BY <4>2, <4>3
    <3>5. CASE b = p
      <4>1. hb = hp
        BY <3>5 DEF hp
      <4> HIDE DEF hb
      <4>2. j # i /\ j \in 1 .. Kids(hp) /\ b # c
        BY <3>1, <3>2, <3>5, <4>1, <1>3, <1>5
      <4>3. CASE j < i
        <5>1. up2[a] = p /\ pos2[a] = j
          BY <3>3, <3>5, <4>2, <4>3, <1>1, <1>5
        <5>2. j \in 1 .. Kids(gp) /\ Kid(gp, j) = a
          BY <3>2, <4>1, <4>2, <4>3, <1>3, <1>6 DEF Doubled
        <5>3. QED
          BY <5>1, <5>2, <3>3, <1>1, <1>6 DEF Hung, gp
      <4>4. CASE ~ j < i
        <5>1. j > i
          BY <4>2, <4>4, <3>3, <1>1
        <5>2. up2[a] = p /\ pos2[a] = j + 1
          BY <5>1, <3>3, <3>5, <4>2, <1>1, <1>5
        <5>3. j + 1 \in 1 .. Kids(gp) /\ Kid(gp, j + 1) = a
          BY <5>1, <3>2, <4>1, <4>2, <1>3, <1>6 DEF Doubled
        <5>4. QED
          BY <5>2, <5>3, <3>3, <1>1, <1>6 DEF Hung, gp
      <4>5. QED
        BY <4>3, <4>4
    <3>6. CASE b \notin {c, p}
      <4> DEFINE gb == g[b]
      <4>1. SameCore(gb, hb)
        BY <3>2, <3>6 DEF IsSplit
      <4> HIDE DEF gb, hb
      <4>2. gb.leaf = FALSE /\ j \in 1 .. Kids(gb) /\ Kid(gb, j) = a
        BY <4>1, <3>2 DEF SameCore
      <4>3. up2[a] = b /\ pos2[a] = j
        BY <3>3, <3>6
      <4>4. QED
        BY <4>2, <4>3, <3>2, <3>3 DEF Hung, gb
    <3>7. QED
      BY <3>4, <3>5, <3>6
  <2>6. QED
    BY <2>3, <2>4, <2>5
<1>16. Linked(g, live2, height2, up2, pos2)
  BY <1>1, <1>7, <1>14, <1>15 DEF Linked, IsSplit
<1>17. QED
  BY <1>7, <1>16 DEF Relinked

\* Node l, at k below p, takes the pointers of its right neighbour r, which
\* leaves the tree.
IsJoin(h, g, live, p, k, l, r) ==
    /\ p \in live /\ ~h[p].leaf /\ k \in 1 .. Kids(h[p]) /\ k + 1 \in 1 .. Kids(h[p])
    /\ l = Kid(h[p], k) /\ r = Kid(h[p], k + 1)
    /\ live \ {r} \subseteq DOMAIN g
    /\ g[p].leaf = FALSE /\ ~g[p].deleted /\ Shrunk(g[p], h[p], k + 1)
    /\ g[l].leaf = h[l].leaf /\ ~g[l].deleted /\ Concatenated(g[l], h[l], h[r])
    /\ \A a \in live \ {p, l, r} : SameCore(g[a], h[a])

LEMMA JoinLinked ==
    ASSUME NEW h, NEW g, NEW live, NEW height, NEW up, NEW pos,
           Linked(h, live, height, up, pos),
           NEW p, NEW k, NEW l, NEW r, IsJoin(h, g, live, p, k, l, r)
    PROVE  \E up2, pos2 : Linked(g, live \ {r}, height, up2, pos2)
<1> DEFINE live2 == live \ {r}
           hp == h[p]
           hl == h[l]
           hr == h[r]
           gp == g[p]
           gl == g[l]
           up2 == [x \in Int |-> IF up[x] = r THEN l ELSE up[x]]
           pos2 == [x \in Int |-> IF up[x] = r THEN Kids(hl) + pos[x]
                                  ELSE IF up[x] = p /\ pos[x] > k THEN pos[x] - 1
                                  ELSE pos[x]]
<1>1. /\ 0 \in live /\ live \subseteq Int /\ p \in live /\ p \in Int /\ k \in Int
      /\ height \in [Int -> Nat] /\ up \in [Int -> Int] /\ pos \in [Int -> Int]
  BY DEF Linked, IsJoin
<1>2. LinkedAt(hp, p, live, height, up, pos) /\ ~hp.leaf
  BY DEF Linked, IsJoin
<1>3. /\ l \in live \ {0} /\ height[l] + 1 = height[p] /\ up[l] = p /\ pos[l] = k
      /\ r \in live \ {0} /\ height[r] + 1 = height[p] /\ up[r] = p /\ pos[r] = k + 1
      /\ Kids(hp) \in Nat /\ k \in 1 .. Kids(hp) /\ k + 1 \in 1 .. Kids(hp)
      /\ l = Kid(hp, k)
  BY <1>2 DEF LinkedAt, IsJoin
<1>4. LinkedAt(hl, l, live, height, up, pos) /\ LinkedAt(hr, r, live, height, up, pos)
  BY <1>3 DEF Linked
<1>5. /\ l \in Int /\ r \in Int /\ height[l] \in Nat /\ height[r] \in Nat /\ height[p] \in Nat
      /\ l # p /\ r # p /\ l # r /\ height[l] = height[r]
  BY <1>1, <1>3
<1>6. Kids(hl) \in Nat /\ Kids(hr) \in Nat /\ (hl.leaf <=> hr.leaf) /\ hl.leaf \in BOOLEAN
  BY <1>4, <1>5 DEF LinkedAt
<1>7. /\ gp.leaf = FALSE /\ ~gp.deleted /\ Shrunk(gp, hp, k + 1)
      /\ gl.leaf = hl.leaf /\ ~gl.deleted /\ Concatenated(gl, hl, hr)
  BY DEF IsJoin
<1> HIDE DEF hp, hl, hr, gp, gl
<1>8. up2 \in [Int -> Int] /\ pos2 \in [Int -> Int]
  BY <1>1, <1>5, <1>6
<1>9. ASSUME NEW x \in live
      PROVE  /\ up2[x] = IF up[x] = r THEN l ELSE up[x]
             /\ pos2[x] = IF up[x] = r THEN Kids(hl) + pos[x]
                          ELSE IF up[x] = p /\ pos[x] > k THEN pos[x] - 1
                          ELSE pos[x]
  BY <1>1
<1> HIDE DEF up2, pos2
<1>10. LinkedAt(gp, p, live2, height, up2, pos2)
  <2>1. /\ Kids(gp) = Kids(hp) - 1
        /\ \A j \in 1 .. Kids(hp) - 1 :
                Kid(gp, j) = IF j < k + 1 THEN Kid(hp, j) ELSE Kid(hp, j + 1)
    BY <1>7 DEF Shrunk
  <2>2. ASSUME NEW j \in 1 .. Kids(gp)
        PROVE  /\ Kid(gp, j) \in live2 \ {0}
               /\ height[Kid(gp, j)] + 1 = height[p]
               /\ up2[Kid(gp, j)] = p /\ pos2[Kid(gp, j)] = j
    <3>1. CASE j <= k
      <4> DEFINE x == Kid(hp, j)
      <4>1. Kid(gp, j) = x /\ j \in 1 .. Kids(hp)
        BY <3>1, <2>1, <1>1, <1>3
      <4>2. x \in live \ {0} /\ height[x] + 1 = height[p] /\ up[x] = p /\ pos[x] = j
        BY <4>1, <1>2 DEF LinkedAt
      <4> HIDE DEF x
      <4>3. ~ pos[x] > k /\ x # r
        BY <4>1, <4>2, <3>1, <1>1, <1>3
      <4>4. up2[x] = p /\ pos2[x] = pos[x]
        BY <4>2, <4>3, <1>5, <1>9
      <4>5. QED
        BY <4>1, <4>2, <4>3, <4>4
    <3>2. CASE j > k
      <4> DEFINE x == Kid(hp, j + 1)
      <4>1. Kid(gp, j) = x /\ j + 1 \in 1 .. Kids(hp)
        BY <3>2, <2>1, <1>1, <1>3
      <4>2. x \in live \ {0} /\ height[x] + 1 = height[p] /\ up[x] = p /\ pos[x] = j + 1
        BY <4>1, <1>2 DEF LinkedAt
      <4> HIDE DEF x
      <4>3. pos[x] > k /\ pos[x] - 1 = j /\ x # r
        BY <4>1, <4>2, <3>2, <1>1, <1>3
      <4>4. up2[x] = p /\ pos2[x] = pos[x] - 1
        BY <4>2, <4>3, <1>5, <1>9
      <4>5. QED
        BY <4>1, <4>2, <4>3, <4>4
    <3>3. QED
      BY <3>1, <3>2, <1>1
  <2>3. Kids(gp) \in Nat /\ height[p] # 0
    BY <2>1, <1>3, <1>5
  <2>4. QED
    BY <2>2, <2>3, <1>7 DEF LinkedAt
<1>11. LinkedAt(gl, l, live2, height, up2, pos2)
  <2>1. /\ Kids(gl) = Kids(hl) + Kids(hr)
        /\ \A j \in 1 .. Kids(hl) : Kid(gl, j) = Kid(hl, j)
        /\ \A j \in 1 .. Kids(hr) : Kid(gl, Kids(hl) + j) = Kid(hr, j)
    BY <1>7 DEF Concatenated
  <2>2. gl.leaf \in BOOLEAN /\ (gl.leaf <=> height[l] = 0) /\ Kids(gl) \in Nat
    <3>1. hl.leaf <=> height[l] = 0
      BY <1>4 DEF LinkedAt
    <3>2. QED
      BY <3>1, <2>1, <1>6, <1>7
  <2>3. ASSUME ~gl.leaf, NEW j \in 1 .. Kids(gl)
        PROVE  /\ Kid(gl, j) \in live2 \ {0}
               /\ height[Kid(gl, j)] + 1 = height[l]
               /\ up2[Kid(gl, j)] = l /\ pos2[Kid(gl, j)] = j
    <3>1. CASE j <= Kids(hl)
      <4> DEFINE x == Kid(hl, j)
      <4>1. Kid(gl, j) = x /\ j \in 1 .. Kids(hl)
        BY <3>1, <2>1, <1>6
      <4>2. x \in live \ {0} /\ height[x] + 1 = height[l] /\ up[x] = l /\ pos[x] = j
        BY <4>1, <2>3, <1>4, <1>7 DEF LinkedAt
      <4> HIDE DEF x
      <4>3. x # r
        BY <4>2, <1>3, <1>5
      <4>4. up2[x] = l /\ pos2[x] = pos[x]
        BY <4>2, <1>5, <1>9
      <4>5. QED
        BY <4>1, <4>2, <4>3, <4>4
    <3>2. CASE j > Kids(hl)
      <4> DEFINE i == j - Kids(hl)
                 x == Kid(hr, i)
      <4>1. i \in 1 .. Kids(hr) /\ j = Kids(hl) + i
        BY <3>2, <2>1, <1>6
      <4> HIDE DEF i
      <4>2. Kid(gl, j) = x
        BY <4>1, <2>1
      <4>3. x \in live \ {0} /\ height[x] + 1 = height[r] /\ up[x] = r /\ pos[x] = i
        BY <4>1, <2>3, <1>4, <1>6, <1>7 DEF LinkedAt
      <4> HIDE DEF x
      <4>4. x # r
        BY <4>3, <1>3, <1>5
      <4>5. up2[x] = l /\ pos2[x] = Kids(hl) + pos[x]
        BY <4>3, <1>9
      <4>6. QED
        BY <4>1, <4>2, <4>3, <4>4, <4>5, <1>5
    <3>3. QED
      BY <3>1, <3>2, <2>2, <1>6
  <2>4. QED
    BY <2>2, <2>3, <1>7 DEF LinkedAt
<1>12. ASSUME NEW a \in live \ {p, l, r} PROVE LinkedAt(g[a], a, live2, height, up2, pos2)
  <2> DEFINE ga == g[a]
             ha == h[a]
  <2>1. SameCore(ga, ha) /\ LinkedAt(ha, a, live, height, up, pos)
    BY DEF Linked, IsJoin
  <2> HIDE DEF ga, ha
  <2>2. ASSUME ~ha.leaf, NEW j \in 1 .. Kids(ha)
        PROVE  /\ Kid(ha, j) \in live2 \ {0}
               /\ height[Kid(ha, j)] + 1 = height[a]
               /\ up2[Kid(ha, j)] = a /\ pos2[Kid(ha, j)] = j
    <3> DEFINE x == Kid(ha, j)
    <3>1. x \in live \ {0} /\ height[x] + 1 = height[a] /\ up[x] = a /\ pos[x] = j
      BY <2>1, <2>2 DEF LinkedAt
    <3>2. x # r /\ up[x] # r /\ up[x] # p
      BY <3>1, <1>3
    <3> HIDE DEF x
    <3>3. up2[x] = a /\ pos2[x] = j
      BY <3>1, <3>2, <1>9
    <3>4. QED
      BY <3>1, <3>2, <3>3 DEF x
  <2>3. LinkedAt(ga, a, live2, height, up2, pos2)
    BY <2>1, <2>2 DEF LinkedAt, SameCore
  <2>4. QED
    BY <2>3 DEF ga
<1>13. \A a \in live2 : LinkedAt(g[a], a, live2, height, up2, pos2)
  BY <1>10, <1>11, <1>12 DEF gp, gl
<1>14. ASSUME NEW a \in live2 \ {0} PROVE Hung(g, a, live2, height, up2, pos2)
  <2> DEFINE b == up[a]
             j == pos[a]
             hb == h[b]
  <2>1. a \in live \ {0} /\ a # r
    OBVIOUS
  <2>2. /\ b \in live /\ hb.leaf = FALSE /\ j \in 1 .. Kids(hb) /\ Kid(hb, j) = a
        /\ height[a] < height[0]
    BY <2>1 DEF Linked, Hung
  <2>3. /\ up2[a] = IF b = r THEN l ELSE b
        /\ pos2[a] = IF b = r THEN Kids(hl) + j ELSE IF b = p /\ j > k THEN j - 1 ELSE j
        /\ j \in Int /\ j >= 1
    BY <2>1, <2>2, <1>9
  <2> HIDE DEF b, j
  <2>4. /\ Kids(gl) = Kids(hl) + Kids(hr)
        /\ \A x \in 1 .. Kids(hl) : Kid(gl, x) = Kid(hl, x)
        /\ \A x \in 1 .. Kids(hr) : Kid(gl, Kids(hl) + x) = Kid(hr, x)
    BY <1>7 DEF Concatenated
  <2>5. l \in live2 /\ p \in live2
    BY <1>1, <1>3, <1>5
  <2>6. CASE b = r
    <3>1. hb = hr
      BY <2>6 DEF hr
    <3> HIDE DEF hb
    <3>2. up2[a] = l /\ pos2[a] = Kids(hl) + j
      BY <2>3, <2>6
    <3>3. /\ Kids(hl) + j \in 1 .. Kids(gl) /\ Kid(gl, Kids(hl) + j) = a
          /\ gl.leaf = FALSE
      BY <3>1, <2>2, <2>3, <2>4, <1>6, <1>7
    <3>4. QED
      BY <3>2, <3>3, <2>2, <2>5 DEF Hung, gl
  <2>7. CASE b = l
    <3>1. hb = hl
      BY <2>7 DEF hl
    <3> HIDE DEF hb
    <3>2. up2[a] = l /\ pos2[a] = j
      BY <2>3, <2>7, <1>5
    <3>3. j \in 1 .. Kids(gl) /\ Kid(gl, j) = a /\ gl.leaf = FALSE
      BY <3>1, <2>2, <2>3, <2>4, <1>6, <1>7
    <3>4. QED
      BY <3>2, <3>3, <2>2, <2>5 DEF Hung, gl
  <2>8. CASE b = p
    <3>1. hb = hp
      BY <2>8 DEF hp
    <3> HIDE DEF hb
    <3>2. j \in 1 .. Kids(hp) /\ j # k + 1
      BY <3>1, <2>1, <2>2 DEF IsJoin, hp
    <3>3. /\ Kids(gp) = Kids(hp) - 1
          /\ \A x \in 1 .. Kids(hp) - 1 :
                Kid(gp, x) = IF x < k + 1 THEN Kid(hp, x) ELSE Kid(hp, x + 1)
      BY <1>7 DEF Shrunk
    <3>4. CASE j > k
      <4>1. up2[a] = p /\ pos2[a] = j - 1
        BY <3>4, <2>3, <2>8, <1>5
      <4>2. j - 1 \in 1 .. Kids(hp) - 1 /\ ~ j - 1 < k + 1 /\ (j - 1) + 1 = j
        BY <3>2, <3>4, <1>1, <1>3
      <4>3. j - 1 \in 1 .. Kids(gp) /\ Kid(gp, j - 1) = a
        BY <4>2, <3>1, <3>3, <2>2
      <4>4. QED
        BY <4>1, <4>3, <2>2, <2>5, <1>7 DEF Hung, gp
    <3>5. CASE ~ j > k
      <4>1. up2[a] = p /\ pos2[a] = j
        BY <3>5, <2>3, <2>8, <1>5
      <4>2. j \in 1 .. Kids(hp) - 1 /\ j < k + 1
        BY <3>2, <3>5, <1>1, <1>3
      <4>3. j \in 1 .. Kids(gp) /\ Kid(gp, j) = a
        BY <4>2, <3>1, <3>3, <2>2
      <4>4. QED
        BY <4>1, <4>3, <2>2, <2>5, <1>7 DEF Hung, gp
    <3>6. QED
      BY <3>4, <3>5
  <2>9. CASE b \notin {r, l, p}
    <3> DEFINE gb == g[b]
    <3>1. SameCore(gb, hb)
      BY <2>2, <2>9 DEF IsJoin
    <3> HIDE DEF gb, hb
    <3>2. gb.leaf = FALSE /\ j \in 1 .. Kids(gb) /\ Kid(gb, j) = a
      BY <3>1, <2>2 DEF SameCore
    <3>3. up2[a] = b /\ pos2[a] = j /\ b \in live2
      BY <2>2, <2>3, <2>9
    <3>4. QED
      BY <3>2, <3>3, <2>2 DEF Hung, gb
  <2>10. QED
    BY <2>6, <2>7, <2>8, <2>9
<1>15. Linked(g, live2, height, up2, pos2)
  BY <1>1, <1>3, <1>8, <1>13, <1>14 DEF Linked, IsJoin
<1>16. QED
  BY <1>15

\* Two neighbours share the pointers of both anew: as if l took all of them,
\* in the node joined, under the node shrunk, and r came back for the last.
IsBalance(h, g, live, p, k, l, r, joined, shrunk, mid) ==
    /\ p \in live /\ ~h[p].leaf /\ k \in 1 .. Kids(h[p]) /\ k + 1 \in 1 .. Kids(h[p])
    /\ l = Kid(h[p], k) /\ r = Kid(h[p], k + 1)
    /\ joined.leaf = h[l].leaf /\ ~joined.deleted /\ Concatenated(joined, h[l], h[r])
    /\ shrunk.leaf = FALSE /\ ~shrunk.deleted /\ Shrunk(shrunk, h[p], k + 1)
    /\ live \subseteq DOMAIN g
    /\ g[p].leaf = FALSE /\ ~g[p].deleted /\ SameCore(g[p], h[p])
    /\ g[l].leaf = h[l].leaf /\ ~g[l].deleted
    /\ g[r].leaf = h[l].leaf /\ ~g[r].deleted
    /\ mid \in 0 .. Kids(joined) /\ Shared(<<g[l], g[r]>>, joined, mid)
    /\ \A a \in live \ {p, l, r} : SameCore(g[a], h[a])

LEMMA BalanceLinked ==
    ASSUME NEW h, NEW g, NEW live, NEW height, NEW up, NEW pos,
           Linked(h, live, height, up, pos),
           NEW p, NEW k, NEW l, NEW r, NEW joined, NEW shrunk, NEW mid,
           IsBalance(h, g, live, p, k, l, r, joined, shrunk, mid)
    PROVE  Relinked(g, live, live \ {r}, height)
<1> DEFINE between == [x \in DOMAIN h |-> IF x = p THEN shrunk
                                          ELSE IF x = l THEN joined ELSE h[x]]
           live1 == live \ {r}
           hp == h[p]
           gp == g[p]
<1>1. /\ p \in live /\ live \subseteq DOMAIN h /\ live \subseteq Int
      /\ height \in [Int -> Nat] /\ LinkedAt(hp, p, live, height, up, pos) /\ ~hp.leaf
      /\ k \in 1 .. Kids(hp) /\ k + 1 \in 1 .. Kids(hp)
      /\ l = Kid(hp, k) /\ r = Kid(hp, k + 1)
  BY DEF Linked, IsBalance
<1>2. /\ l \in live /\ height[l] + 1 = height[p] /\ pos[l] = k
      /\ r \in live /\ height[r] + 1 = height[p] /\ pos[r] = k + 1
      /\ Kids(hp) \in Nat /\ k \in Int
  BY <1>1 DEF LinkedAt
<1>3. p # l /\ p # r /\ l # r
  BY <1>1, <1>2
<1>4. /\ between[p] = shrunk /\ between[l] = joined
      /\ \A a \in live \ {p, l} : between[a] = h[a]
      /\ DOMAIN between = DOMAIN h
  BY <1>1, <1>2, <1>3
<1> HIDE DEF between
<1>5. IsJoin(h, between, live, p, k, l, r)
  BY <1>1, <1>2, <1>3, <1>4 DEF IsBalance, IsJoin, SameCore
<1>6. PICK up1, pos1 : Linked(between, live1, height, up1, pos1)
  BY <1>5, JoinLinked
<1>7. /\ Shrunk(shrunk, hp, k + 1) /\ SameCore(gp, hp)
      /\ shrunk.leaf = FALSE /\ joined.leaf = h[l].leaf
      /\ gp.leaf = FALSE /\ ~gp.deleted
  BY DEF IsBalance
<1> HIDE DEF hp, gp
<1>8. Doubled(gp, shrunk, k, l, r) /\ k \in 1 .. Kids(shrunk) /\ l = Kid(shrunk, k)
  <2>1. /\ Kids(shrunk) = Kids(hp) - 1
        /\ \A j \in 1 .. Kids(hp) - 1 :
                Kid(shrunk, j) = IF j < k + 1 THEN Kid(hp, j) ELSE Kid(hp, j + 1)
        /\ Kids(gp) = Kids(hp) /\ \A j \in 1 .. Kids(hp) : Kid(gp, j) = Kid(hp, j)
    BY <1>7 DEF Shrunk, SameCore
  <2>2. k \in 1 .. Kids(shrunk) /\ l = Kid(shrunk, k)
    BY <2>1, <1>1, <1>2
  <2>3. Kids(gp) = Kids(shrunk) + 1 /\ Kid(gp, k) = l /\ Kid(gp, k + 1) = r
    BY <2>1, <1>1, <1>2
  <2>4. ASSUME NEW j \in 1 .. Kids(shrunk)
        PROVE  /\ j < k => Kid(gp, j) = Kid(shrunk, j)
               /\ j > k => Kid(gp, j + 1) = Kid(shrunk, j)
    <3>1. j \in 1 .. Kids(hp) /\ j + 1 \in 1 .. Kids(hp) /\ j \in 1 .. Kids(hp) - 1
      BY <2>1, <1>2
    <3>2. QED
      BY <3>1, <2>1, <1>2
  <2>5. QED
    BY <2>2, <2>3, <2>4 DEF Doubled
<1>9. /\ r \in Int \ live1 /\ live1 \cup {r} = live
      /\ p \in live1 /\ live1 \subseteq live
  BY <1>1, <1>2, <1>3
<1>10. IsSplit(between, g, live1, p, k, l, r, l, r, mid)
  <2>1. \A a \in live1 \ {p, l} : SameCore(g[a], between[a])
    BY <1>4 DEF IsBalance
  <2>2. /\ live \subseteq DOMAIN g
        /\ g[l].leaf = h[l].leaf /\ ~g[l].deleted /\ g[r].leaf = h[l].leaf /\ ~g[r].deleted
        /\ mid \in 0 .. Kids(joined) /\ Shared(<<g[l], g[r]>>, joined, mid)
    BY DEF IsBalance
  <2>3. QED
    BY <2>1, <2>2, <1>4, <1>7, <1>8, <1>9 DEF IsSplit, gp
<1>11. Relinked(g, live1 \cup {r}, live1, height)
  BY <1>6, <1>10, SplitLinked
<1>12. QED
  <2> HIDE DEF live1
  <2>1. Relinked(g, live, live1, height)
    BY <1>9, <1>11
  <2>2. QED
    BY <2>1 DEF live1

\* g is a tree of the nodes live2, one row higher or lower than it was.
Raised(g, live2, height) ==
    \E height2, up2, pos2 : /\ Linked(g, live2, height2, up2, pos2)
                            /\ height2[0] = height[0] + 1

Lowered(g, live2, height) ==
    \E height2, up2, pos2 : /\ Linked(g, live2, height2, up2, pos2)
                            /\ height2[0] + 1 = height[0]

\* The root moves its pointers to two new nodes, its children from then on.
IsRootSplit(h, g, live, lo, hi, mid) ==
    /\ lo \in Int \ live /\ hi \in Int \ live /\ lo # hi /\ mid \in 0 .. Kids(h[0])
    /\ live \cup {lo, hi} \subseteq DOMAIN g
    /\ g[0].leaf = FALSE /\ ~g[0].deleted
    /\ Kids(g[0]) = 2 /\ Kid(g[0], 1) = lo /\ Kid(g[0], 2) = hi
    /\ g[lo].leaf = h[0].leaf /\ ~g[lo].deleted
    /\ g[hi].leaf = h[0].leaf /\ ~g[hi].deleted
    /\ Shared(<<g[lo], g[hi]>>, h[0], mid)
    /\ \A a \in live \ {0} : SameCore(g[a], h[a])

LEMMA RootSplitLinked ==
    ASSUME NEW h, NEW g, NEW live, NEW height, NEW up, NEW pos,
           Linked(h, live, height, up, pos),
           NEW lo, NEW hi, NEW mid, IsRootSplit(h, g, live, lo, hi, mid)
    PROVE  Raised(g, live \cup {lo, hi}, height)
<1> DEFINE live2 == live \cup {lo, hi}
           ht == height[0]
           height2 == [x \in Int |-> IF x \in {lo, hi} THEN ht
                                     ELSE IF x = 0 THEN ht + 1 ELSE height[x]]
           up2 == [x \in Int |-> IF x \in {lo, hi} THEN 0
                                 ELSE IF up[x] = 0 THEN (IF pos[x] <= mid THEN lo ELSE hi)
                                 ELSE up[x]]
           pos2 == [x \in Int |-> IF x = lo THEN 1 ELSE IF x = hi THEN 2
                                  ELSE IF up[x] = 0 /\ pos[x] > mid THEN pos[x] - mid
                                  ELSE pos[x]]
           h0 == h[0]
           g0 == g[0]
           gl == g[lo]
           gh == g[hi]
<1>1. /\ 0 \in live /\ live \subseteq Int /\ mid \in Int
      /\ lo \in Int /\ lo \notin live /\ hi \in Int /\ hi \notin live /\ lo # hi
      /\ height \in [Int -> Nat] /\ up \in [Int -> Int] /\ pos \in [Int -> Int]
  BY DEF Linked, IsRootSplit
<1>2. LinkedAt(h0, 0, live, height, up, pos) /\ mid \in 0 .. Kids(h0)
  BY DEF Linked, IsRootSplit
<1>3. Kids(h0) \in Nat /\ ht \in Nat /\ h0.leaf \in BOOLEAN /\ (h0.leaf <=> ht = 0)
  BY <1>1, <1>2 DEF LinkedAt
<1>4. /\ g0.leaf = FALSE /\ ~g0.deleted
      /\ Kids(g0) = 2 /\ Kid(g0, 1) = lo /\ Kid(g0, 2) = hi
      /\ gl.leaf = h0.leaf /\ ~gl.deleted /\ gh.leaf = h0.leaf /\ ~gh.deleted
      /\ Kids(gl) = mid /\ \A j \in 1 .. mid : Kid(gl, j) = Kid(h0, j)
      /\ Kids(gh) = Kids(h0) - mid
      /\ \A j \in 1 .. Kids(h0) - mid : Kid(gh, j) = Kid(h0, mid + j)
  BY DEF IsRootSplit, Shared
<1> HIDE DEF h0, g0, gl, gh
<1>5. /\ height2 \in [Int -> Nat] /\ up2 \in [Int -> Int] /\ pos2 \in [Int -> Int]
      /\ height2[lo] = ht /\ height2[hi] = ht /\ height2[0] = ht + 1
      /\ \A a \in live \ {0} : height2[a] = height[a]
  BY <1>1, <1>3
<1>6. up2[lo] = 0 /\ pos2[lo] = 1 /\ up2[hi] = 0 /\ pos2[hi] = 2
  BY <1>1
<1>7. ASSUME NEW x \in live
      PROVE  /\ up2[x] = IF up[x] = 0 THEN (IF pos[x] <= mid THEN lo ELSE hi) ELSE up[x]
             /\ pos2[x] = IF up[x] = 0 /\ pos[x] > mid THEN pos[x] - mid ELSE pos[x]
             /\ x \in live2
  BY <1>1
<1> HIDE DEF height2, up2, pos2, ht
<1>8. LinkedAt(g0, 0, live2, height2, up2, pos2)
  <2>1. ASSUME NEW j \in 1 .. Kids(g0)
        PROVE  /\ Kid(g0, j) \in live2 \ {0}
               /\ height2[Kid(g0, j)] + 1 = height2[0]
               /\ up2[Kid(g0, j)] = 0 /\ pos2[Kid(g0, j)] = j
    <3>1. lo \in live2 \ {0} /\ hi \in live2 \ {0}
      BY <1>1
    <3>2. j = 1 \/ j = 2
      BY <1>4
    <3>3. CASE j = 1
      BY <3>1, <3>3, <1>4, <1>5, <1>6
    <3>4. CASE j = 2
      BY <3>1, <3>4, <1>4, <1>5, <1>6
    <3>5. QED
      BY <3>2, <3>3, <3>4
  <2>2. height2[0] = ht + 1 /\ ht \in Nat /\ Kids(g0) = 2 /\ g0.leaf = FALSE
    BY <1>3, <1>4, <1>5
  <2>3. height2[0] # 0 /\ Kids(g0) \in Nat
    BY <2>2
  <2>4. QED
    BY <2>1, <2>2, <2>3, <1>4 DEF LinkedAt
<1>9. LinkedAt(gl, lo, live2, height2, up2, pos2)
  <2>1. ASSUME ~gl.leaf, NEW j \in 1 .. Kids(gl)
        PROVE  /\ Kid(gl, j) \in live2 \ {0}
               /\ height2[Kid(gl, j)] + 1 = height2[lo]
               /\ up2[Kid(gl, j)] = lo /\ pos2[Kid(gl, j)] = j
    <3> DEFINE x == Kid(h0, j)
    <3>1. Kid(gl, j) = x /\ j \in 1 .. Kids(h0) /\ j <= mid
      BY <1>1, <1>2, <1>3, <1>4
    <3>2. x \in live \ {0} /\ height[x] + 1 = ht /\ up[x] = 0 /\ pos[x] = j
      BY <3>1, <2>1, <1>2, <1>4 DEF LinkedAt, ht
    <3> HIDE DEF x
    <3>3. pos[x] <= mid /\ ~ pos[x] > mid
      BY <3>1, <3>2, <1>1
    <3>4. up2[x] = lo /\ pos2[x] = pos[x] /\ x \in live2 /\ height2[x] = height[x]
      BY <3>2, <3>3, <1>5, <1>7
    <3>5. QED
      BY <3>1, <3>2, <3>4, <1>5
  <2>2. gl.leaf \in BOOLEAN /\ (gl.leaf <=> height2[lo] = 0) /\ Kids(gl) \in Nat
    BY <1>2, <1>3, <1>4, <1>5
  <2>3. QED
    BY <2>1, <2>2, <1>4 DEF LinkedAt
<1>10. LinkedAt(gh, hi, live2, height2, up2, pos2)
  <2>1. ASSUME ~gh.leaf, NEW j \in 1 .. Kids(gh)
        PROVE  /\ Kid(gh, j) \in live2 \ {0}
               /\ height2[Kid(gh, j)] + 1 = height2[hi]
               /\ up2[Kid(gh, j)] = hi /\ pos2[Kid(gh, j)] = j
    <3> DEFINE x == Kid(h0, mid + j)
    <3>1. Kid(gh, j) = x /\ mid + j \in 1 .. Kids(h0)
      BY <1>1, <1>2, <1>3, <1>4
    <3>2. x \in live \ {0} /\ height[x] + 1 = ht /\ up[x] = 0 /\ pos[x] = mid + j
      BY <3>1, <2>1, <1>2, <1>4 DEF LinkedAt, ht
    <3> HIDE DEF x
    <3>3. ~ pos[x] <= mid /\ pos[x] > mid /\ pos[x] - mid = j
      BY <3>1, <3>2, <1>1, <1>2, <1>3
    <3>4. up2[x] = hi /\ pos2[x] = pos[x] - mid /\ x \in live2 /\ height2[x] = height[x]
      BY <3>2, <3>3, <1>5, <1>7
    <3>5. QED
      BY <3>1, <3>2, <3>3, <3>4, <1>5
  <2>2. gh.leaf \in BOOLEAN /\ (gh.leaf <=> height2[hi] = 0) /\ Kids(gh) \in Nat
    BY <1>2, <1>3, <1>4, <1>5
  <2>3. QED
    BY <2>1, <2>2, <1>4 DEF LinkedAt
<1>11. ASSUME NEW a \in live \ {0} PROVE LinkedAt(g[a], a, live2, height2, up2, pos2)
  <2> DEFINE ga == g[a]
             ha == h[a]
  <2>1. SameCore(ga, ha) /\ LinkedAt(ha, a, live, height, up, pos)
    BY DEF Linked, IsRootSplit
  <2> HIDE DEF ga, ha
  <2>2. ASSUME ~ha.leaf, NEW j \in 1 .. Kids(ha)
        PROVE  /\ Kid(ha, j) \in live2 \ {0}
               /\ height2[Kid(ha, j)] + 1 = height2[a]
               /\ up2[Kid(ha, j)] = a /\ pos2[Kid(ha, j)] = j
    <3> DEFINE x == Kid(ha, j)
    <3>1. x \in live \ {0} /\ height[x] + 1 = height[a] /\ up[x] = a /\ pos[x] = j
      BY <2>1, <2>2 DEF LinkedAt
    <3> HIDE DEF x
    <3>2. up2[x] = a /\ pos2[x] = j /\ x \in live2
      BY <3>1, <1>7
    <3>3. height2[x] = height[x] /\ height2[a] = height[a]
      BY <3>1, <1>5
    <3>4. QED
      BY <3>1, <3>2, <3>3 DEF x
  <2>3. height2[a] = height[a]
    BY <1>5
  <2>4. LinkedAt(ga, a, live2, height2, up2, pos2)
    BY <2>1, <2>2, <2>3 DEF LinkedAt, SameCore
  <2>5. QED
    BY <2>4 DEF ga
<1>12. \A a \in live2 : LinkedAt(g[a], a, live2, height2, up2, pos2)
  BY <1>8, <1>9, <1>10, <1>11 DEF g0, gl, gh
<1>13. live2 \subseteq DOMAIN g
  BY DEF IsRootSplit
<1>14. ASSUME NEW a \in live2 \ {0} PROVE Hung(g, a, live2, height2, up2, pos2)
  <2>1. CASE a = lo
    BY <2>1, <1>1, <1>3, <1>4, <1>5, <1>6 DEF Hung, g0
  <2>2. CASE a = hi
    BY <2>2, <1>1, <1>3, <1>4, <1>5, <1>6 DEF Hung, g0
  <2>3. CASE a \notin {lo, hi}
    <3> DEFINE b == up[a]
               j == pos[a]
               hb == h[b]
    <3>1. a \in live \ {0}
      BY <2>3
    <3>2. /\ b \in live /\ hb.leaf = FALSE /\ j \in 1 .. Kids(hb) /\ Kid(hb, j) = a
          /\ height[a] < ht
      BY <3>1 DEF Linked, Hung, ht
    <3>3. /\ up2[a] = IF b = 0 THEN (IF j <= mid THEN lo ELSE hi) ELSE b
          /\ pos2[a] = IF b = 0 /\ j > mid THEN j - mid ELSE j
          /\ b \in live2 /\ j \in Int /\ j >= 1
      BY <3>1, <3>2, <1>7
    <3>4. height2[a] < height2[0]
      <4>1. height[a] \in Nat /\ height2[a] = height[a]
        BY <3>1, <1>1, <1>5
      <4>2. QED
        BY <4>1, <3>2, <1>3, <1>5
    <3> HIDE DEF b, j
    <3>5. CASE b = 0
      <4>1. hb = h0
        BY <3>5 DEF h0
      <4> HIDE DEF hb
      <4>2. CASE j <= mid
        <5>1. up2[a] = lo /\ pos2[a] = j
          BY <3>3, <3>5, <4>2, <1>1
        <5>2. j \in 1 .. Kids(gl) /\ Kid(gl, j) = a /\ gl.leaf = FALSE
          BY <3>2, <3>3, <4>1, <4>2, <1>1, <1>4
        <5>3. QED
          BY <5>1, <5>2, <3>4 DEF Hung, gl
      <4>3. CASE ~ j <= mid
        <5>1. up2[a] = hi /\ pos2[a] = j - mid
          BY <3>3, <3>5, <4>3, <1>1
        <5>2. j - mid \in 1 .. Kids(gh) /\ mid + (j - mid) = j
          BY <3>2, <3>3, <4>1, <4>3, <1>1, <1>2, <1>3, <1>4
        <5>3. Kid(gh, j - mid) = a /\ gh.leaf = FALSE
          BY <5>2, <3>2, <4>1, <1>4
        <5>4. QED
          BY <5>1, <5>2, <5>3, <3>4 DEF Hung, gh
      <4>4. QED
        BY <4>2, <4>3
    <3>6. CASE b # 0
      <4> DEFINE gb == g[b]
      <4>1. SameCore(gb, hb)
        BY <3>2, <3>6 DEF IsRootSplit
      <4> HIDE DEF gb, hb
      <4>2. gb.leaf = FALSE /\ j \in 1 .. Kids(gb) /\ Kid(gb, j) = a
        BY <4>1, <3>2 DEF SameCore
      <4>3. up2[a] = b /\ pos2[a] = j
        BY <3>3, <3>6
      <4>4. QED
        BY <4>2, <4>3, <3>3, <3>4 DEF Hung, gb
    <3>7. QED
      BY <3>5, <3>6
  <2>4. QED
    BY <2>1, <2>2, <2>3
<1>15. Linked(g, live2, height2, up2, pos2)
  BY <1>1, <1>5, <1>12, <1>13, <1>14 DEF Linked
<1>16. height2[0] = height[0] + 1
  BY <1>5 DEF ht
<1> HIDE DEF live2, height2, up2, pos2
<1>17. Raised(g, live2, height)
  BY <1>15, <1>16 DEF Raised
<1>18. QED
  BY <1>17 DEF live2

\* The only child of the root becomes the root.
IsCollapse(h, g, live, c) ==
    /\ ~h[0].leaf /\ Kids(h[0]) = 1 /\ c = Kid(h[0], 1)
    /\ live \subseteq DOMAIN g
    /\ SameCore(g[0], h[c])
    /\ \A a \in live \ {0, c} : SameCore(g[a], h[a])

LEMMA CollapseLinked ==
    ASSUME NEW h, NEW g, NEW live, NEW height, NEW up, NEW pos,
           Linked(h, live, height, up, pos), NEW c, IsCollapse(h, g, live, c)
    PROVE  Lowered(g, live \ {c}, height)
<1> DEFINE live2 == live \ {c}
           height2 == [height EXCEPT ![0] = height[c]]
           up2 == [x \in Int |-> IF up[x] = c THEN 0 ELSE up[x]]
           h0 == h[0]
           hc == h[c]
           g0 == g[0]
<1>1. /\ 0 \in live /\ live \subseteq Int
      /\ height \in [Int -> Nat] /\ up \in [Int -> Int] /\ pos \in [Int -> Int]
  BY DEF Linked
<1>2. LinkedAt(h0, 0, live, height, up, pos) /\ ~h0.leaf /\ 1 \in 1 .. Kids(h0)
      /\ c = Kid(h0, 1) /\ Kids(h0) = 1
  BY DEF Linked, IsCollapse
<1>3. c \in live \ {0} /\ height[c] + 1 = height[0] /\ up[c] = 0 /\ pos[c] = 1
  BY <1>2 DEF LinkedAt
<1>4. LinkedAt(hc, c, live, height, up, pos) /\ SameCore(g0, hc) /\ height[c] \in Nat
  BY <1>1, <1>3 DEF Linked, IsCollapse
<1> HIDE DEF h0, hc, g0
<1>5. /\ height2 \in [Int -> Nat] /\ up2 \in [Int -> Int] /\ height2[0] = height[c]
      /\ \A a \in live \ {0} : height2[a] = height[a]
      /\ \A a \in live : up2[a] = IF up[a] = c THEN 0 ELSE up[a]
  BY <1>1, <1>3
<1> HIDE DEF height2, up2
<1>6. LinkedAt(g0, 0, live2, height2, up2, pos)
  <2>1. ASSUME ~hc.leaf, NEW j \in 1 .. Kids(hc)
        PROVE  /\ Kid(hc, j) \in live2 \ {0}
               /\ height2[Kid(hc, j)] + 1 = height2[0]
               /\ up2[Kid(hc, j)] = 0 /\ pos[Kid(hc, j)] = j
    <3> DEFINE x == Kid(hc, j)
    <3>1. x \in live \ {0} /\ height[x] + 1 = height[c] /\ up[x] = c /\ pos[x] = j
      BY <2>1, <1>4 DEF LinkedAt
    <3>2. x # c
      BY <3>1, <1>3
    <3> HIDE DEF x
    <3>3. up2[x] = 0 /\ height2[x] = height[x]
      BY <3>1, <1>5
    <3>4. QED
      BY <3>1, <3>2, <3>3, <1>5 DEF x
  <2>2. QED
    BY <2>1, <1>4, <1>5 DEF LinkedAt, SameCore
<1>7. ASSUME NEW a \in live \ {0, c} PROVE LinkedAt(g[a], a, live2, height2, up2, pos)
  <2> DEFINE ga == g[a]
             ha == h[a]
  <2>1. SameCore(ga, ha) /\ LinkedAt(ha, a, live, height, up, pos)
    BY DEF Linked, IsCollapse
  <2> HIDE DEF ga, ha
  <2>2. ASSUME ~ha.leaf, NEW j \in 1 .. Kids(ha)
        PROVE  /\ Kid(ha, j) \in live2 \ {0}
               /\ height2[Kid(ha, j)] + 1 = height2[a]
               /\ up2[Kid(ha, j)] = a /\ pos[Kid(ha, j)] = j
    <3> DEFINE x == Kid(ha, j)
    <3>1. x \in live \ {0} /\ height[x] + 1 = height[a] /\ up[x] = a /\ pos[x] = j
      BY <2>1, <2>2 DEF LinkedAt
    <3>2. x # c
      BY <3>1, <1>3
    <3> HIDE DEF x
    <3>3. up2[x] = a /\ height2[x] = height[x] /\ height2[a] = height[a]
      BY <3>1, <1>5
    <3>4. QED
      BY <3>1, <3>2, <3>3 DEF x
  <2>3. height2[a] = height[a]
    BY <1>5
  <2>4. LinkedAt(ga, a, live2, height2, up2, pos)
    BY <2>1, <2>2, <2>3 DEF LinkedAt, SameCore
  <2>5. QED
    BY <2>4 DEF ga
<1>8. \A a \in live2 : LinkedAt(g[a], a, live2, height2, up2, pos)
  BY <1>6, <1>7 DEF g0
<1>9. ASSUME NEW a \in live2 \ {0} PROVE Hung(g, a, live2, height2, up2, pos)
  <2> DEFINE b == up[a]
             j == pos[a]
             hb == h[b]
  <2>1. a \in live \ {0} /\ a # c
    OBVIOUS
  <2>2. /\ b \in live /\ hb.leaf = FALSE /\ j \in 1 .. Kids(hb) /\ Kid(hb, j) = a
        /\ height[a] < height[0] /\ height[a] \in Nat
    BY <2>1, <1>1 DEF Linked, Hung
  <2>3. b # 0
    <3>1. ASSUME b = 0 PROVE FALSE
      <4>1. hb = h0
        BY <3>1 DEF h0
      <4> HIDE DEF hb
      <4>2. j = 1
        BY <4>1, <2>2, <1>2
      <4>3. QED
        BY <4>1, <4>2, <2>1, <2>2, <1>2
    <3>2. QED
      BY <3>1
  <2>4. height[b] < height[0] /\ height[a] + 1 = height[b] /\ height[b] \in Nat
    <3>1. height[b] < height[0] /\ height[b] \in Nat /\ LinkedAt(hb, b, live, height, up, pos)
      BY <2>2, <2>3, <1>1 DEF Linked, Hung
    <3> HIDE DEF hb, b, j
    <3>2. QED
      BY <3>1, <2>2 DEF LinkedAt
  <2>5. height2[a] < height2[0]
    BY <2>1, <2>2, <2>4, <1>1, <1>3, <1>4, <1>5
  <2>6. up2[a] = IF b = c THEN 0 ELSE b
    BY <2>1, <1>5
  <2> HIDE DEF b, j
  <2>7. CASE b = c
    <3>1. hb = hc
      BY <2>7 DEF hc
    <3> HIDE DEF hb
    <3>2. g0.leaf = FALSE /\ j \in 1 .. Kids(g0) /\ Kid(g0, j) = a
      BY <3>1, <2>2, <1>4 DEF SameCore
    <3>3. up2[a] = 0 /\ 0 \in live2
      BY <2>6, <2>7, <1>1, <1>3
    <3>4. QED
      BY <3>2, <3>3, <2>5 DEF Hung, g0, j
  <2>8. CASE b # c
    <3> DEFINE gb == g[b]
    <3>1. SameCore(gb, hb)
      BY <2>2, <2>3, <2>8 DEF IsCollapse
    <3> HIDE DEF gb, hb
    <3>2. gb.leaf = FALSE /\ j \in 1 .. Kids(gb) /\ Kid(gb, j) = a
      BY <3>1, <2>2 DEF SameCore
    <3>3. up2[a] = b /\ b \in live2
      BY <2>2, <2>6, <2>8
    <3>4. QED
      BY <3>2, <3>3, <2>5 DEF Hung, gb, j
  <2>9. QED
    BY <2>7, <2>8
<1>10. Linked(g, live2, height2, up2, pos)
  BY <1>1, <1>3, <1>5, <1>8, <1>9 DEF Linked, IsCollapse
<1>11. height2[0] + 1 = height[0]
  BY <1>3, <1>5
<1> HIDE DEF live2, height2, up2
<1>12. Lowered(g, live2, height)
  BY <1>10, <1>11 DEF Lowered
<1>13. QED
  BY <1>12 DEF live2

-------------------------------------------------------------------------------
(* A heap and the path of a call: the tree, the frames above the node at    *)
(* work, and the sizes of the nodes.                                       *)

Frames == [node : NodeRecords, index : Int]

\* Frame i of path q holds a copy of the node i - 1 levels below the root, older
\* perhaps but with the same children, and has gone to one of them.
Framed(frame, i, h, live, height) ==
    /\ frame.node.id \in live
    /\ height[frame.node.id] + i = height[0] + 1
    /\ frame.node.leaf = FALSE
    /\ SameCore(frame.node, h[frame.node.id])
    /\ frame.index \in 1 .. Kids(frame.node)

OnPath(q, i, h, live, height) ==
    /\ Framed(q[i], i, h, live, height)
    /\ i < Len(q) => Kid(q[i].node, q[i].index) = q[i + 1].node.id

Chain(q, h, live, height) ==
    /\ q \in Seq(Frames)
    /\ \A i \in 1 .. Len(q) : OnPath(q, i, h, live, height)
    /\ q # <<>> => q[1].node.id = 0

\* The node at work: the child of the last frame, or the root.
Cur(q) == IF q = <<>> THEN 0 ELSE Kid(q[Len(q)].node, q[Len(q)].index)

\* Every node but the root has NodeSize to 2 * NodeSize - 1 keys, an inner root
\* 2 at least; the node at work may have less keys on the way up of a del and
\* more on that of a set.
Least(a, n) == IF a # 0 THEN NodeSize ELSE IF n.leaf THEN 0 ELSE 2

Sizes(h, live, cur, less, more) ==
    /\ \A x \in DOMAIN h : /\ Size(h[x]) \in Nat /\ Kids(h[x]) = Size(h[x])
                           /\ Size(h[x]) < 2 * NodeSize + (IF x = cur THEN more ELSE 0)
    /\ \A a \in live : Size(h[a]) + (IF a = cur THEN less ELSE 0) >= Least(a, h[a])

\* With each row of inner nodes come two nodes at least.
HighEnough(h, height) == 0 .. 2 * height[0] \subseteq DOMAIN h

ShapeOn(h, live, height, q, less, more) ==
    \E up, pos : /\ Linked(h, live, height, up, pos)
                 /\ Chain(q, h, live, height)
                 /\ Sizes(h, live, Cur(q), less, more)
                 /\ HighEnough(h, height)

ShapeAt(h, q, less, more) ==
    \E live, height : ShapeOn(h, live, height, q, less, more)

LEMMA FrontFrames ==
    ASSUME NEW q \in Seq(Frames), q # <<>>
    PROVE  /\ Front(q) \in Seq(Frames) /\ Len(q) \in Nat /\ Len(q) >= 1
           /\ Len(Front(q)) = Len(q) - 1
           /\ \A i \in 1 .. Len(q) - 1 : Front(q)[i] = q[i]
<1> DEFINE m == Len(q)
<1>1. m \in Nat /\ m >= 1 /\ \A i \in 1 .. m : q[i] \in Frames
  BY LenProperties, ElementOfSeq, EmptySeq
<1>2. Front(q) = SubSeq(q, 1, m - 1)
  BY DEF Front
<1> HIDE DEF m
<1>3. /\ SubSeq(q, 1, m - 1) \in Seq(Frames) /\ Len(SubSeq(q, 1, m - 1)) = m - 1
      /\ \A i \in 1 .. m - 1 : SubSeq(q, 1, m - 1)[i] = q[i]
  BY <1>1, SubSeqProperties, 1 \in Int, m - 1 \in Int
<1>4. QED
  BY <1>1, <1>2, <1>3 DEF m

\* The last frame returns: of the nodes above its own none has changed.
LEMMA ChainFront ==
    ASSUME NEW h, NEW live, NEW height, NEW up, NEW pos,
           Linked(h, live, height, up, pos),
           NEW q, Chain(q, h, live, height), q # <<>>,
           NEW g, NEW live2, NEW height2,
           \A a \in live : height[a] > height[q[Len(q)].node.id] =>
                /\ a \in live2 /\ height2[a] = height[a]
                /\ SameCore(g[a], h[a])
    PROVE  /\ Chain(Front(q), g, live2, height2)
           /\ Cur(Front(q)) = q[Len(q)].node.id
<1> DEFINE f == Front(q)
           m == Len(q)
           p == q[m].node.id
<1>1. /\ q \in Seq(Frames) /\ m \in Nat /\ m >= 1 /\ q[1].node.id = 0
      /\ \A i \in 1 .. m : q[i] \in Frames /\ OnPath(q, i, h, live, height)
  BY LenProperties, ElementOfSeq, EmptySeq DEF Chain
<1>2. /\ f \in Seq(Frames) /\ Len(f) = m - 1
      /\ \A i \in 1 .. m - 1 : f[i] = q[i]
  BY <1>1, FrontFrames
<1>3. 0 \in live /\ live \subseteq Int /\ height \in [Int -> Nat]
  BY DEF Linked
<1> HIDE DEF f, m
<1>4. p \in live /\ height[p] + m = height[0] + 1
  BY <1>1 DEF OnPath, Framed
<1>5. ASSUME NEW i \in 1 .. m - 1 PROVE OnPath(f, i, g, live2, height2)
  <2> DEFINE a == q[i].node.id
  <2>1. i \in 1 .. m /\ f[i] = q[i] /\ OnPath(q, i, h, live, height)
    BY <1>1, <1>2
  <2>2. a \in live /\ height[a] + i = height[0] + 1 /\ SameCore(q[i].node, h[a])
    BY <2>1 DEF OnPath, Framed
  <2> HIDE DEF a
  <2>3. height[a] > height[p] /\ height[0] > height[p]
    <3>1. height[a] \in Nat /\ height[p] \in Nat /\ height[0] \in Nat
      BY <2>2, <1>3, <1>4
    <3>2. i \in Int /\ i >= 1 /\ i < m /\ m \in Int
      BY <1>1
    <3> HIDE DEF p
    <3>3. QED
      BY <3>1, <3>2, <2>2, <1>4
  <2>4. /\ a \in live2 /\ height2[a] = height[a] /\ SameCore(g[a], h[a])
        /\ height2[0] = height[0]
    BY <2>2, <2>3, <1>3 DEF m
  <2>5. SameCore(q[i].node, g[a])
    BY <2>2, <2>4 DEF SameCore
  <2>6. i < Len(f) => f[i + 1] = q[i + 1] /\ i < m
    BY <1>1, <1>2
  <2>7. i < Len(f) => Kid(q[i].node, q[i].index) = f[i + 1].node.id
    BY <2>1, <2>6 DEF OnPath, m
  <2>8. QED
    BY <2>1, <2>2, <2>4, <2>5, <2>7 DEF OnPath, Framed, a
<1>6. f # <<>> => f[1].node.id = 0
  <2>1. f # <<>> => 1 \in 1 .. m - 1
    BY <1>1, <1>2, EmptySeq
  <2>2. QED
    BY <2>1, <1>1, <1>2
<1>7. Cur(f) = p
  <2>1. CASE m = 1
    BY <2>1, <1>1, <1>2, EmptySeq DEF Cur
  <2>2. CASE m # 1
    <3>1. m - 1 \in 1 .. m /\ m - 1 < m /\ (m - 1) + 1 = m /\ f # <<>> /\ f[m - 1] = q[m - 1]
      BY <2>2, <1>1, <1>2, EmptySeq
    <3>2. Kid(q[m - 1].node, q[m - 1].index) = q[m].node.id
      BY <3>1, <1>1 DEF OnPath, m
    <3>3. QED
      BY <3>1, <3>2, <1>2 DEF Cur
  <2>3. QED
    BY <2>1, <2>2
<1>8. Chain(f, g, live2, height2)
  BY <1>2, <1>5, <1>6 DEF Chain
<1>9. QED
  BY <1>7, <1>8 DEF f, m

\* The last frame and the node it has gone to.
LastFrame(h, q, live, height, up, pos, p, i, c) ==
    /\ p \in live /\ p = q[Len(q)].node.id /\ h[p].leaf = FALSE
    /\ SameCore(q[Len(q)].node, h[p])
    /\ i = q[Len(q)].index /\ i \in 1 .. Kids(h[p]) /\ Kids(h[p]) \in Nat
    /\ c = Kid(h[p], i) /\ c = Cur(q)
    /\ \A j \in 1 .. Kids(h[p]) :
            /\ Kid(h[p], j) \in live \ {0}
            /\ height[Kid(h[p], j)] + 1 = height[p]
            /\ up[Kid(h[p], j)] = p /\ pos[Kid(h[p], j)] = j

LEMMA LastFrameProperties ==
    ASSUME NEW h, NEW live, NEW height, NEW up, NEW pos,
           Linked(h, live, height, up, pos),
           NEW q, Chain(q, h, live, height), q # <<>>
    PROVE  LastFrame(h, q, live, height, up, pos,
                     q[Len(q)].node.id, q[Len(q)].index, Cur(q))
<1> DEFINE m == Len(q)
           n == q[m].node
           p == n.id
           hp == h[p]
<1>1. m \in 1 .. m /\ Cur(q) = Kid(n, q[m].index)
  BY LenProperties, EmptySeq DEF Chain, Cur
<1>2. OnPath(q, m, h, live, height)
  BY <1>1 DEF Chain
<1>3. /\ p \in live /\ n.leaf = FALSE /\ SameCore(n, hp) /\ q[m].index \in 1 .. Kids(n)
  BY <1>2 DEF OnPath, Framed
<1>4. LinkedAt(hp, p, live, height, up, pos)
  BY <1>3 DEF Linked
<1> HIDE DEF hp, n, m
<1>5. /\ hp.leaf = FALSE /\ Kids(hp) = Kids(n) /\ Kids(hp) \in Nat
      /\ \A j \in 1 .. Kids(hp) : Kid(n, j) = Kid(hp, j)
  BY <1>3, <1>4 DEF SameCore, LinkedAt
<1>6. QED
  BY <1>1, <1>3, <1>4, <1>5 DEF LastFrame, LinkedAt, hp, n, m

-------------------------------------------------------------------------------
(* The steps of a call, as steps from the tree of a heap h and a path to    *)
(* the tree of a heap g and the path after the step.                       *)

\* What a step on the way up finds: a node p with two children at least, the
\* one at work, c, at i, and its siblings, which are alive and like it.
Family(h, q, p, i, c, less, more) ==
    /\ p \in DOMAIN h /\ p = q[Len(q)].node.id /\ h[p].leaf = FALSE
    /\ SameCore(q[Len(q)].node, h[p])
    /\ i = q[Len(q)].index /\ i \in 1 .. Kids(h[p]) /\ c = Kid(h[p], i) /\ c = Cur(q)
    /\ Kids(h[p]) \in Nat /\ Kids(h[p]) >= 2
    /\ \A j \in 1 .. Kids(h[p]) :
            /\ Kid(h[p], j) \in DOMAIN h \ {0, p}
            /\ h[Kid(h[p], j)].leaf = h[c].leaf /\ ~h[Kid(h[p], j)].deleted
            /\ \A k \in 1 .. Kids(h[p]) : Kid(h[p], k) = Kid(h[p], j) => k = j
            /\ j # i => /\ Size(h[Kid(h[p], j)]) >= NodeSize
                        /\ Size(h[Kid(h[p], j)]) < 2 * NodeSize
    /\ Size(h[c]) \in Nat /\ Size(h[c]) + less >= NodeSize
    /\ Size(h[c]) < 2 * NodeSize + more
    /\ Cur(Front(q)) = p

LEMMA FamilyOfPath ==
    ASSUME NEW h, NEW q, NEW less \in Nat, NEW more \in Nat, ShapeAt(h, q, less, more), q # <<>>
    PROVE  Family(h, q, q[Len(q)].node.id, q[Len(q)].index, Cur(q), less, more)
<1>1. PICK live, height, up, pos : /\ Linked(h, live, height, up, pos)
                                   /\ Chain(q, h, live, height)
                                   /\ Sizes(h, live, Cur(q), less, more)
  BY DEF ShapeAt, ShapeOn
<1> DEFINE p == q[Len(q)].node.id
           i == q[Len(q)].index
           c == Cur(q)
           hp == h[p]
<1>2. LastFrame(h, q, live, height, up, pos, p, i, c)
  BY <1>1, LastFrameProperties
<1>3. Cur(Front(q)) = p
  BY <1>1, ChainFront DEF SameCore
<1>4. /\ p = q[Len(q)].node.id /\ SameCore(q[Len(q)].node, hp) /\ i = q[Len(q)].index
      /\ c = Cur(q)
  BY <1>2 DEF LastFrame
<1> HIDE DEF p, i, c, hp
<1>5. /\ p \in live /\ hp.leaf = FALSE
      /\ i \in 1 .. Kids(hp) /\ Kids(hp) \in Nat /\ c = Kid(hp, i)
      /\ \A j \in 1 .. Kids(hp) : /\ Kid(hp, j) \in live \ {0}
                                  /\ height[Kid(hp, j)] + 1 = height[p]
                                  /\ up[Kid(hp, j)] = p /\ pos[Kid(hp, j)] = j
  BY <1>2 DEF LastFrame, hp
<1>6. /\ live \subseteq DOMAIN h /\ live \subseteq Int /\ height \in [Int -> Nat]
      /\ \A a \in live : /\ h[a].leaf \in BOOLEAN /\ ~h[a].deleted
                         /\ h[a].leaf <=> height[a] = 0
  BY <1>1 DEF Linked, LinkedAt
<1>7. /\ \A x \in DOMAIN h : /\ Size(h[x]) \in Nat /\ Kids(h[x]) = Size(h[x])
                             /\ Size(h[x]) < 2 * NodeSize + (IF x = c THEN more ELSE 0)
      /\ \A a \in live : Size(h[a]) + (IF a = c THEN less ELSE 0) >= Least(a, h[a])
      /\ NodeSize \in Nat /\ NodeSize >= 2
  BY <1>1, NodeSizeAssumption DEF Sizes, c
<1>8. Kids(hp) >= 2
  <2>1. p # c
    <3>1. p \in live /\ height[c] + 1 = height[p]
      BY <1>5
    <3>2. height[p] \in Nat
      BY <3>1, <1>6
    <3>3. QED
      BY <3>1, <3>2
  <2>2. Size(hp) >= Least(p, hp) /\ Kids(hp) = Size(hp)
    BY <2>1, <1>5, <1>6, <1>7 DEF hp
  <2>3. Least(p, hp) \in Nat /\ Least(p, hp) >= 2
    BY <1>5, <1>7 DEF Least
  <2>4. QED
    BY <2>2, <2>3, <1>5
<1>9. ASSUME NEW j \in 1 .. Kids(hp)
      PROVE  /\ Kid(hp, j) \in DOMAIN h \ {0, p}
             /\ h[Kid(hp, j)].leaf = h[c].leaf /\ ~h[Kid(hp, j)].deleted
             /\ \A k \in 1 .. Kids(hp) : Kid(hp, k) = Kid(hp, j) => k = j
             /\ j # i => /\ Size(h[Kid(hp, j)]) >= NodeSize
                         /\ Size(h[Kid(hp, j)]) < 2 * NodeSize
  <2> DEFINE x == Kid(hp, j)
  <2>1. /\ x \in live \ {0} /\ height[x] + 1 = height[p] /\ pos[x] = j
        /\ c \in live \ {0} /\ height[c] + 1 = height[p] /\ pos[c] = i
    BY <1>5
  <2>2. \A k \in 1 .. Kids(hp) : Kid(hp, k) = Kid(hp, j) => k = j
    BY <1>5
  <2> HIDE DEF x
  <2>3. x # p /\ h[x].leaf = h[c].leaf /\ ~h[x].deleted /\ x \in DOMAIN h
    <3>1. height[x] \in Nat /\ height[c] \in Nat /\ height[p] \in Nat
      BY <2>1, <1>5, <1>6
    <3>2. height[x] = height[c] /\ x # p
      BY <3>1, <2>1
    <3>3. QED
      BY <3>2, <2>1, <1>6
  <2>4. j # i => /\ Size(h[x]) >= NodeSize
                 /\ Size(h[x]) < 2 * NodeSize
    <3>1. j # i => x # c
      BY <2>1
    <3>2. Least(x, h[x]) = NodeSize /\ x \in DOMAIN h /\ x \in live
      BY <2>1, <2>3 DEF Least
    <3>3. QED
      BY <3>1, <3>2, <1>7
  <2>5. QED
    BY <2>1, <2>2, <2>3, <2>4 DEF x
<1>10. /\ Size(h[c]) \in Nat /\ Size(h[c]) + less >= NodeSize
       /\ Size(h[c]) < 2 * NodeSize + more
  <2>1. c \in live \ {0} /\ c \in DOMAIN h
    BY <1>5, <1>6
  <2>2. Least(c, h[c]) = NodeSize
    BY <2>1 DEF Least
  <2>3. QED
    BY <2>1, <2>2, <1>7
<1>11. p \in DOMAIN h
  BY <1>5, <1>6
<1>12. Family(h, q, p, i, c, less, more)
  BY <1>3, <1>4, <1>5, <1>8, <1>9, <1>10, <1>11 DEF Family, hp
<1>13. QED
  BY <1>12 DEF p, i, c

\* The node at work.
LEMMA NodeAtWork ==
    ASSUME NEW h, NEW q, NEW less \in Nat, NEW more \in Nat, ShapeAt(h, q, less, more)
    PROVE  /\ 0 \in DOMAIN h /\ Cur(q) \in DOMAIN h
           /\ q \in Seq(Frames)
           /\ h[Cur(q)].leaf \in BOOLEAN /\ ~h[Cur(q)].deleted
           /\ Size(h[Cur(q)]) \in Nat /\ Kids(h[Cur(q)]) = Size(h[Cur(q)])
           /\ Size(h[Cur(q)]) < 2 * NodeSize + more
           /\ h[Cur(q)].leaf = FALSE => Size(h[Cur(q)]) + less >= 2
           /\ \A x \in DOMAIN h : x # Cur(q) => Size(h[x]) < 2 * NodeSize
<1>1. PICK live, height, up, pos : /\ Linked(h, live, height, up, pos)
                                   /\ Chain(q, h, live, height)
                                   /\ Sizes(h, live, Cur(q), less, more)
  BY DEF ShapeAt, ShapeOn
<1> DEFINE c == Cur(q)
<1>2. c \in live
  <2>1. CASE q = <<>>
    BY <2>1, <1>1 DEF Cur, Linked
  <2>2. CASE q # <<>>
    <3>1. LastFrame(h, q, live, height, up, pos, q[Len(q)].node.id, q[Len(q)].index, c)
      BY <2>2, <1>1, LastFrameProperties
    <3> HIDE DEF c
    <3>2. QED
      BY <3>1 DEF LastFrame
  <2>3. QED
    BY <2>1, <2>2
<1>3. c \in DOMAIN h /\ 0 \in DOMAIN h /\ h[c].leaf \in BOOLEAN /\ ~h[c].deleted
  BY <1>1, <1>2 DEF Linked, LinkedAt
<1>4. /\ \A x \in DOMAIN h : /\ Size(h[x]) \in Nat /\ Kids(h[x]) = Size(h[x])
                             /\ Size(h[x]) < 2 * NodeSize + (IF x = c THEN more ELSE 0)
      /\ Size(h[c]) + less >= Least(c, h[c])
      /\ NodeSize \in Nat /\ NodeSize >= 2
  BY <1>1, <1>2, NodeSizeAssumption DEF Sizes
<1> HIDE DEF c
<1>5. h[c].leaf = FALSE => Least(c, h[c]) \in Nat /\ Least(c, h[c]) >= 2
  BY <1>4 DEF Least
<1>6. h[c].leaf = FALSE => Size(h[c]) + less >= 2
  BY <1>3, <1>4, <1>5
<1>7. \A x \in DOMAIN h : x # c => Size(h[x]) < 2 * NodeSize
  BY <1>4
<1>8. Size(h[c]) < 2 * NodeSize + more /\ Size(h[c]) \in Nat /\ Kids(h[c]) = Size(h[c])
  BY <1>3, <1>4
<1>9. QED
  BY <1>1, <1>3, <1>6, <1>7, <1>8 DEF Chain, c

\* The call enters a child of the node at work.
LEMMA EnterTree ==
    ASSUME NEW h, NEW live, NEW height, NEW q, ShapeOn(h, live, height, q, 0, 0),
           NEW n, n = h[Cur(q)], n \in NodeRecords, n.id = Cur(q), IsInner(n),
           NEW i \in 1 .. Kids(n)
    PROVE  /\ ShapeOn(h, live, height, Append(q, [node |-> n, index |-> i]), 0, 0)
           /\ Cur(Append(q, [node |-> n, index |-> i])) = Kid(n, i)
<1> USE DEF IsInner
<1>1. PICK up, pos : /\ Linked(h, live, height, up, pos)
                     /\ Chain(q, h, live, height)
                     /\ Sizes(h, live, Cur(q), 0, 0)
                     /\ HighEnough(h, height)
  BY DEF ShapeOn
<1> DEFINE frame == [node |-> n, index |-> i]
           f == Append(q, frame)
           m == Len(q)
           c == Cur(q)
<1>2. /\ q \in Seq(Frames) /\ m \in Nat /\ frame \in Frames
      /\ frame.node = n /\ frame.index = i
  BY <1>1, LenProperties DEF Chain, Frames
<1> HIDE DEF frame
<1>3. /\ f \in Seq(Frames) /\ f # <<>> /\ Len(f) = m + 1
      /\ \A j \in 1 .. m : f[j] = q[j]
      /\ f[m + 1] = frame
  BY <1>2, AppendProperties
<1> HIDE DEF f
<1>4. Cur(f) = Kid(n, i)
  BY <1>2, <1>3 DEF Cur
<1>5. /\ \A j \in 1 .. m : OnPath(q, j, h, live, height)
      /\ q # <<>> => q[1].node.id = 0
      /\ 0 \in live /\ height \in [Int -> Nat] /\ live \subseteq Int
      /\ m = 0 <=> q = <<>>
  BY <1>1, <1>2, EmptySeq DEF Chain, Linked
<1>6. c \in live /\ height[c] + m = height[0]
  <2>1. CASE q = <<>>
    BY <2>1, <1>5 DEF Cur
  <2>2. CASE q # <<>>
    <3> DEFINE p == q[m].node.id
    <3>1. LastFrame(h, q, live, height, up, pos, p, q[m].index, c)
      BY <2>2, <1>1, LastFrameProperties
    <3>2. c \in live /\ height[c] + 1 = height[p]
      BY <3>1 DEF LastFrame
    <3>3. m \in 1 .. m
      BY <2>2, <1>2, <1>5
    <3>4. OnPath(q, m, h, live, height)
      BY <3>3, <1>5
    <3>5. height[p] + m = height[0] + 1 /\ p \in live
      BY <3>4 DEF OnPath, Framed
    <3> HIDE DEF p, m, c
    <3>6. height[c] \in Nat /\ height[p] \in Nat /\ height[0] \in Nat
      BY <3>2, <3>5, <1>5
    <3>7. m \in Int
      BY <1>2
    <3>8. height[c] + m = height[0]
      BY <3>2, <3>5, <3>6, <3>7
    <3>9. QED
      BY <3>2, <3>8
  <2>3. QED
    BY <2>1, <2>2
<1>7. ASSUME NEW j \in 1 .. m PROVE OnPath(f, j, h, live, height)
  <2>1. OnPath(q, j, h, live, height) /\ f[j] = q[j]
    BY <1>3, <1>5
  <2>2. CASE j < m
    <3>1. j + 1 \in 1 .. m
      BY <2>2, <1>2
    <3>2. f[j + 1] = q[j + 1]
      BY <3>1, <1>3
    <3>3. QED
      BY <2>1, <2>2, <3>2 DEF OnPath
  <2>3. CASE j = m
    <3>1. q # <<>> /\ f[j + 1].node.id = c
      <4>1. f[j + 1] = frame /\ m # 0
        BY <2>3, <1>2, <1>3
      <4>2. QED
        BY <4>1, <1>2, <1>5
    <3>2. Kid(q[m].node, q[m].index) = c
      BY <3>1 DEF Cur
    <3>3. QED
      BY <2>1, <2>3, <3>1, <3>2 DEF OnPath
  <2>4. QED
    BY <2>2, <2>3, <1>2
<1>8. OnPath(f, m + 1, h, live, height)
  <2>1. SameCore(n, h[c])
    BY DEF SameCore
  <2>2. height[c] + (m + 1) = height[0] + 1
    <3> HIDE DEF m, c
    <3>1. height[c] \in Nat /\ height[0] \in Nat
      BY <1>5, <1>6
    <3>2. QED
      BY <3>1, <1>2, <1>6
  <2>3. ~ m + 1 < Len(f)
    BY <1>2, <1>3
  <2>4. QED
    BY <2>1, <2>2, <2>3, <1>2, <1>3, <1>6 DEF OnPath, Framed
<1>9. f[1].node.id = 0
  <2>1. CASE q = <<>>
    <3>1. m = 0 /\ Cur(q) = 0
      BY <2>1, <1>5 DEF Cur
    <3>2. QED
      BY <3>1, <1>2, <1>3
  <2>2. CASE q # <<>>
    <3>1. 1 \in 1 .. m
      BY <2>2, <1>2, <1>5
    <3>2. QED
      BY <3>1, <2>2, <1>3, <1>5
  <2>3. QED
    BY <2>1, <2>2
<1>10. Chain(f, h, live, height)
  <2>1. ASSUME NEW j \in 1 .. Len(f) PROVE OnPath(f, j, h, live, height)
    <3>1. j \in 1 .. m \/ j = m + 1
      BY <1>2, <1>3
    <3>2. QED
      BY <3>1, <1>7, <1>8
  <2>2. QED
    BY <2>1, <1>3, <1>9 DEF Chain
<1>11. Sizes(h, live, Cur(f), 0, 0)
  BY <1>1 DEF Sizes
<1>12. QED
  BY <1>1, <1>4, <1>10, <1>11 DEF ShapeOn, f, frame

\* The call changes the leaf it has reached: by one key at most.
LeafResized(m, n, less, more) ==
    /\ n.leaf = TRUE /\ m.leaf = TRUE /\ ~m.deleted
    /\ Size(m) \in Nat /\ Kids(m) = Size(m)
    /\ Size(m) + less >= Size(n) /\ Size(m) <= Size(n) + more

LEMMA LeafTree ==
    ASSUME NEW h, NEW live, NEW height, NEW q, ShapeOn(h, live, height, q, 0, 0),
           NEW g, DOMAIN g = DOMAIN h,
           \A x \in DOMAIN h : x # Cur(q) => g[x] = h[x],
           NEW less \in Nat, NEW more \in Nat, LeafResized(g[Cur(q)], h[Cur(q)], less, more)
    PROVE  ShapeOn(g, live, height, q, less, more)
<1> USE DEF LeafResized
<1>1. PICK up, pos : /\ Linked(h, live, height, up, pos)
                     /\ Chain(q, h, live, height)
                     /\ Sizes(h, live, Cur(q), 0, 0)
                     /\ HighEnough(h, height)
  BY DEF ShapeOn
<1> DEFINE c == Cur(q)
<1>2. /\ \A x \in DOMAIN h : x # c => g[x] = h[x]
      /\ h[c].leaf = TRUE /\ g[c].leaf = TRUE /\ ~g[c].deleted
      /\ Size(g[c]) \in Nat /\ Kids(g[c]) = Size(g[c])
      /\ Size(g[c]) + less >= Size(h[c]) /\ Size(g[c]) <= Size(h[c]) + more
      /\ Sizes(h, live, c, 0, 0) /\ c \in DOMAIN h
  <2>1. ShapeAt(h, q, 0, 0)
    BY DEF ShapeAt
  <2>2. QED
    BY <2>1, <1>1, NodeAtWork
<1> HIDE DEF c
<1>3. live \subseteq DOMAIN h
  BY <1>1 DEF Linked
<1>4. IsKept(h, g, live)
  BY <1>2, <1>3 DEF IsKept, SameCore
<1>5. Linked(g, live, height, up, pos)
  BY <1>1, <1>4, KeptLinked
<1>6. Chain(q, g, live, height)
  <2>1. ASSUME NEW i \in 1 .. Len(q) PROVE OnPath(q, i, g, live, height)
    <3> DEFINE n == q[i].node
    <3>1. OnPath(q, i, h, live, height)
      BY <1>1 DEF Chain
    <3>2. n.id \in live /\ n.leaf = FALSE /\ SameCore(n, h[n.id])
      BY <3>1 DEF OnPath, Framed
    <3> HIDE DEF n
    <3>3. n.id # c
      BY <3>2, <1>2 DEF SameCore
    <3>4. g[n.id] = h[n.id]
      BY <3>2, <3>3, <1>2, <1>3
    <3>5. QED
      BY <3>1, <3>4 DEF OnPath, Framed, n
  <2>2. QED
    BY <2>1, <1>1 DEF Chain
<1>7. Sizes(g, live, c, less, more)
  <2>1. ASSUME NEW x \in DOMAIN h
        PROVE  /\ Size(g[x]) \in Nat /\ Kids(g[x]) = Size(g[x])
               /\ Size(g[x]) < 2 * NodeSize + (IF x = c THEN more ELSE 0)
    <3>1. /\ Size(h[x]) \in Nat /\ Kids(h[x]) = Size(h[x])
          /\ Size(h[x]) < 2 * NodeSize /\ NodeSize \in Nat
      BY <1>2, NodeSizeAssumption DEF Sizes
    <3>2. CASE x = c
      BY <3>1, <3>2, <1>2
    <3>3. CASE x # c
      BY <3>1, <3>3, <1>2
    <3>4. QED
      BY <3>2, <3>3
  <2>2. ASSUME NEW a \in live
        PROVE  Size(g[a]) + (IF a = c THEN less ELSE 0) >= Least(a, g[a])
    <3>1. /\ Size(h[a]) \in Nat /\ Size(h[a]) >= Least(a, h[a])
          /\ Least(a, h[a]) \in Nat
      BY <1>2, <1>3, NodeSizeAssumption DEF Sizes, Least
    <3>2. CASE a = c
      <4>1. Least(a, g[a]) = Least(a, h[a])
        BY <3>2, <1>2 DEF Least
      <4>2. QED
        BY <3>1, <3>2, <4>1, <1>2
    <3>3. CASE a # c
      BY <3>1, <3>3, <1>2, <1>3
    <3>4. QED
      BY <3>2, <3>3
  <2>3. QED
    BY <2>1, <2>2 DEF Sizes
<1>8. QED
  BY <1>1, <1>5, <1>6, <1>7 DEF ShapeOn, HighEnough, c

\* The sizes of a node whose core is kept.
LEMMA SameSize ==
    ASSUME NEW m, NEW n, SameCore(m, n)
    PROVE  /\ Size(m) = Size(n) /\ Kids(m) = Kids(n)
           /\ m.leaf = n.leaf /\ m.deleted = n.deleted
           /\ \A a : Least(a, m) = Least(a, n)
BY DEF SameCore, Least

\* The caller saves its copy; the child it went to fits.
LEMMA PlainTree ==
    ASSUME NEW h, NEW live, NEW height, NEW q, NEW less \in Nat, NEW more \in Nat,
           ShapeOn(h, live, height, q, less, more), q # <<>>,
           Size(h[Cur(q)]) \in NodeSize .. 2 * NodeSize - 1,
           NEW g, DOMAIN g = DOMAIN h, \A x \in DOMAIN h : SameCore(g[x], h[x])
    PROVE  ShapeOn(g, live, height, Front(q), less, more)
<1>1. PICK up, pos : /\ Linked(h, live, height, up, pos)
                     /\ Chain(q, h, live, height)
                     /\ Sizes(h, live, Cur(q), less, more)
                     /\ HighEnough(h, height)
  BY DEF ShapeOn
<1> DEFINE c == Cur(q)
           p == Cur(Front(q))
<1>2. live \subseteq DOMAIN h
  BY <1>1 DEF Linked
<1>3. IsKept(h, g, live)
  BY <1>2 DEF IsKept
<1>4. Linked(g, live, height, up, pos)
  BY <1>1, <1>3, KeptLinked
<1>5. Chain(Front(q), g, live, height)
  BY <1>1, <1>2, ChainFront
<1>6. c \in live \ {0}
  <2>1. LastFrame(h, q, live, height, up, pos, q[Len(q)].node.id, q[Len(q)].index, c)
    BY <1>1, LastFrameProperties
  <2> HIDE DEF c
  <2>2. QED
    BY <2>1 DEF LastFrame
<1>7. Sizes(h, live, c, less, more) /\ Size(h[c]) \in NodeSize .. 2 * NodeSize - 1
      /\ NodeSize \in Nat
  BY <1>1, NodeSizeAssumption
<1> HIDE DEF c, p
<1>8. ASSUME NEW x \in DOMAIN h
      PROVE  /\ Size(g[x]) \in Nat /\ Kids(g[x]) = Size(g[x])
             /\ Size(g[x]) < 2 * NodeSize + (IF x = p THEN more ELSE 0)
  <2>1. SameCore(g[x], h[x])
    OBVIOUS
  <2>2. Size(g[x]) = Size(h[x]) /\ Kids(g[x]) = Kids(h[x])
    BY <2>1, SameSize
  <2>3. Size(h[x]) \in Nat /\ Kids(h[x]) = Size(h[x]) /\ Size(h[x]) < 2 * NodeSize
    BY <1>7 DEF Sizes
  <2>4. QED
    BY <2>2, <2>3, <1>7
<1>9. ASSUME NEW a \in live
      PROVE  Size(g[a]) + (IF a = p THEN less ELSE 0) >= Least(a, g[a])
  <2>1. Size(g[a]) = Size(h[a]) /\ Least(a, g[a]) = Least(a, h[a])
    BY <1>2, SameSize
  <2>2. Size(h[a]) >= Least(a, h[a])
    <3>1. CASE a = c
      BY <3>1, <1>6, <1>7 DEF Least
    <3>2. CASE a # c
      <4>1. Size(h[a]) + 0 >= Least(a, h[a]) /\ Size(h[a]) \in Nat
        BY <3>2, <1>2, <1>7 DEF Sizes
      <4>2. QED
        BY <4>1
    <3>3. QED
      BY <3>1, <3>2
  <2>3. Size(h[a]) \in Nat /\ Least(a, h[a]) \in Nat
    BY <1>2, <1>7 DEF Sizes, Least
  <2>4. QED
    BY <2>1, <2>2, <2>3
<1>10. Sizes(g, live, p, less, more)
  BY <1>8, <1>9 DEF Sizes
<1>11. QED
  BY <1>1, <1>4, <1>5, <1>10 DEF ShapeOn, HighEnough, p

LEMMA SizesBefore ==
    ASSUME NEW h, NEW live, NEW c, NEW less \in Nat, NEW more \in Nat,
           live \subseteq DOMAIN h, Sizes(h, live, c, less, more)
    PROVE  /\ \A x \in DOMAIN h :
                    /\ Size(h[x]) \in Nat /\ Kids(h[x]) = Size(h[x])
                    /\ x # c => Size(h[x]) < 2 * NodeSize
           /\ \A a \in live : a # c => Size(h[a]) >= Least(a, h[a])
<1>1. \A x \in DOMAIN h :
            /\ Size(h[x]) \in Nat /\ Kids(h[x]) = Size(h[x])
            /\ x # c => Size(h[x]) < 2 * NodeSize
  BY NodeSizeAssumption DEF Sizes
<1>2. \A a \in live : a # c => Size(h[a]) >= Least(a, h[a])
  <2> TAKE a \in live
  <2> HAVE a # c
  <2>1. Size(h[a]) + 0 >= Least(a, h[a]) /\ Size(h[a]) \in Nat
    BY <1>1 DEF Sizes
  <2>2. QED
    BY <2>1
<1>3. QED
  BY <1>1, <1>2

\* A step on the way up keeps the core of all nodes but p, where the caller
\* works from then on, and those in touched, which fit if they are in the tree.
Refitted(h, g, live, live2, c, p, touched, less2, more2) ==
    /\ less2 \in Nat /\ more2 \in Nat
    /\ live \subseteq DOMAIN h /\ live2 \subseteq DOMAIN g /\ p \in live /\ p # c
    /\ \A x \in DOMAIN g : Kids(g[x]) = Size(g[x])
    /\ \A x \in DOMAIN g : x \notin touched \cup {p} =>
            /\ x \in DOMAIN h \ {c} /\ SameCore(g[x], h[x])
            /\ x \in live2 => x \in live
    /\ \A x \in touched :
            /\ x # p /\ Size(g[x]) \in Nat /\ Size(g[x]) < 2 * NodeSize
            /\ x \in live2 => x # 0 /\ Size(g[x]) >= NodeSize
    /\ g[p].leaf = h[p].leaf /\ Size(g[p]) \in Nat
    /\ Size(g[p]) + less2 >= Size(h[p]) /\ Size(g[p]) <= Size(h[p]) + more2

LEMMA SizesAfter ==
    ASSUME NEW h, NEW g, NEW live, NEW live2, NEW c, NEW p, NEW touched,
           NEW less \in Nat, NEW more \in Nat, NEW less2, NEW more2,
           Sizes(h, live, c, less, more),
           Refitted(h, g, live, live2, c, p, touched, less2, more2)
    PROVE  Sizes(g, live2, p, less2, more2)
<1> USE DEF Refitted
<1>1. /\ \A x \in DOMAIN h :
            /\ Size(h[x]) \in Nat /\ Kids(h[x]) = Size(h[x])
            /\ x # c => Size(h[x]) < 2 * NodeSize
      /\ \A a \in live : a # c => Size(h[a]) >= Least(a, h[a])
  BY SizesBefore DEF Refitted
<1>2. \A a, n : Least(a, n) \in Nat
  BY NodeSizeAssumption DEF Least
<1>3. ASSUME NEW x \in DOMAIN g
      PROVE  /\ Size(g[x]) \in Nat /\ Kids(g[x]) = Size(g[x])
             /\ Size(g[x]) < 2 * NodeSize + (IF x = p THEN more2 ELSE 0)
  <2>1. CASE x \in touched
    BY <2>1, NodeSizeAssumption
  <2>2. CASE x = p
    <3>1. Size(h[p]) \in Nat /\ Size(h[p]) < 2 * NodeSize
      BY <1>1
    <3>2. QED
      BY <2>2, <3>1, NodeSizeAssumption
  <2>3. CASE x \notin touched \cup {p}
    <3>1. x \in DOMAIN h \ {c} /\ Size(g[x]) = Size(h[x])
      BY <2>3, SameSize
    <3>2. Size(h[x]) \in Nat /\ Size(h[x]) < 2 * NodeSize
      BY <3>1, <1>1
    <3>3. QED
      BY <2>3, <3>1, <3>2, NodeSizeAssumption
  <2>4. QED
    BY <2>1, <2>2, <2>3
<1>4. ASSUME NEW a \in live2
      PROVE  Size(g[a]) + (IF a = p THEN less2 ELSE 0) >= Least(a, g[a])
  <2>1. CASE a \in touched
    <3>1. Least(a, g[a]) = NodeSize /\ a # p
      BY <2>1 DEF Least
    <3>2. Size(g[a]) >= NodeSize /\ Size(g[a]) \in Nat
      BY <2>1
    <3>3. QED
      BY <3>1, <3>2
  <2>2. CASE a = p
    <3>1. Least(p, g[p]) = Least(p, h[p])
      BY DEF Least
    <3>2. Size(h[p]) \in Nat /\ Size(h[p]) >= Least(p, h[p]) /\ Least(p, h[p]) \in Nat
      BY <1>1, <1>2
    <3>3. QED
      BY <2>2, <3>1, <3>2
  <2>3. CASE a \notin touched \cup {p}
    <3>1. a \in live /\ a # c /\ a \in DOMAIN h /\ SameCore(g[a], h[a])
      BY <2>3
    <3>2. Size(g[a]) = Size(h[a]) /\ Least(a, g[a]) = Least(a, h[a])
      BY <3>1, SameSize
    <3>3. Size(h[a]) \in Nat /\ Size(h[a]) >= Least(a, h[a])
      BY <3>1, <1>1
    <3>4. QED
      BY <2>3, <3>2, <3>3, <1>2
  <2>4. QED
    BY <2>1, <2>2, <2>3
<1>5. QED
  BY <1>3, <1>4 DEF Sizes

\* The child is full: it splits in two of NodeSize keys each.
LEMMA OverflowTree ==
    ASSUME NEW h, NEW live, NEW height, NEW q, ShapeOn(h, live, height, q, 0, 1), q # <<>>,
           NEW p, p = q[Len(q)].node.id, NEW i, i = q[Len(q)].index, NEW c, c = Cur(q),
           Size(h[c]) = 2 * NodeSize,
           NEW g, NEW new, DOMAIN g = DOMAIN h \cup {new},
           IsSplit(h, g, DOMAIN h, p, i, c, new, new, c, NodeSize),
           \A x \in DOMAIN g : Kids(g[x]) = Size(g[x])
    PROVE  \E height2 : ShapeOn(g, live \cup {new}, height2, Front(q), 0, 1)
<1>1. PICK up, pos : /\ Linked(h, live, height, up, pos)
                     /\ Chain(q, h, live, height)
                     /\ Sizes(h, live, c, 0, 1)
                     /\ HighEnough(h, height)
  BY DEF ShapeOn
<1> DEFINE live2 == live \cup {new}
<1>2. LastFrame(h, q, live, height, up, pos, p, i, c)
  BY <1>1, LastFrameProperties
<1>3. /\ p \in live /\ c \in live \ {0} /\ height[c] + 1 = height[p]
      /\ Kids(h[p]) \in Nat
  BY <1>2 DEF LastFrame
<1>4. /\ live \subseteq DOMAIN h /\ live \subseteq Int /\ 0 \in live /\ height \in [Int -> Nat]
      /\ p # c
  <2>1. live \subseteq DOMAIN h /\ live \subseteq Int /\ 0 \in live /\ height \in [Int -> Nat]
    BY <1>1 DEF Linked
  <2>2. height[c] \in Nat /\ height[p] \in Nat
    BY <2>1, <1>3
  <2>3. p # c
    BY <2>2, <1>3
  <2>4. QED
    BY <2>1, <2>3
<1>5. /\ new \in Int \ DOMAIN h
      /\ Kids(g[new]) = NodeSize /\ Kids(g[c]) = Kids(h[c]) - NodeSize
      /\ g[p].leaf = FALSE /\ h[p].leaf = FALSE /\ Kids(g[p]) = Kids(h[p]) + 1
      /\ \A a \in DOMAIN h \ {p, c} : SameCore(g[a], h[a])
  BY <1>2 DEF IsSplit, Shared, Doubled, LastFrame
<1>6. IsSplit(h, g, live, p, i, c, new, new, c, NodeSize)
  BY <1>3, <1>4 DEF IsSplit
<1>7. Relinked(g, live2, live, height)
  BY <1>1, <1>6, SplitLinked
<1>8. PICK height2, up2, pos2 : /\ Linked(g, live2, height2, up2, pos2)
                                /\ \A a \in live : height2[a] = height[a]
  BY <1>7 DEF Relinked
<1>9. ASSUME NEW a \in live, height[a] > height[p]
      PROVE  /\ a \in live2 /\ height2[a] = height[a]
             /\ SameCore(g[a], h[a])
  <2>1. height[c] \in Nat /\ height[p] \in Nat
    BY <1>3, <1>4
  <2>2. a # p /\ a # c
    BY <2>1, <1>3, <1>9
  <2>3. QED
    BY <2>2, <1>4, <1>5, <1>8
<1>10. Chain(Front(q), g, live2, height2) /\ Cur(Front(q)) = p
  <2>1. Linked(h, live, height, up, pos) /\ Chain(q, h, live, height)
    BY <1>1
  <2>2. p = q[Len(q)].node.id
    OBVIOUS
  <2>3. QED
    BY <2>1, <2>2, <1>9, ChainFront
<1>11. \A x \in DOMAIN h : Size(h[x]) \in Nat /\ Kids(h[x]) = Size(h[x])
  BY <1>1, <1>4, SizesBefore
<1>12. /\ Size(g[p]) = Size(h[p]) + 1 /\ Size(h[p]) \in Nat
       /\ Size(g[new]) = NodeSize /\ Size(g[c]) = NodeSize
  <2>1. p \in DOMAIN g /\ new \in DOMAIN g /\ c \in DOMAIN g /\ p \in DOMAIN h /\ c \in DOMAIN h
    BY <1>3, <1>4
  <2>2. QED
    BY <2>1, <1>5, <1>11, NodeSizeAssumption
<1>13. ASSUME NEW x \in {new, c}
       PROVE  /\ x # p /\ Size(g[x]) \in Nat /\ Size(g[x]) < 2 * NodeSize
              /\ x # 0 /\ Size(g[x]) >= NodeSize
  <2>1. x # p /\ x # 0 /\ Size(g[x]) = NodeSize
    BY <1>3, <1>4, <1>5, <1>12
  <2>2. QED
    BY <2>1, NodeSizeAssumption
<1>14. \A x \in DOMAIN g : x \notin {new, c} \cup {p} =>
            /\ x \in DOMAIN h \ {c} /\ SameCore(g[x], h[x])
            /\ x \in live2 => x \in live
  BY <1>5
<1>15. Sizes(g, live2, p, 0, 1)
  <2>1. live2 \subseteq DOMAIN g
    BY <1>8 DEF Linked
  <2>2. /\ g[p].leaf = h[p].leaf /\ Size(g[p]) \in Nat
        /\ Size(g[p]) + 0 >= Size(h[p]) /\ Size(g[p]) <= Size(h[p]) + 1
    <3>1. g[p].leaf = h[p].leaf
      BY <1>5
    <3>2. QED
      BY <3>1, <1>12
  <2> HIDE DEF live2
  <2>3. Refitted(h, g, live, live2, c, p, {new, c}, 0, 1)
    BY <2>1, <2>2, <1>3, <1>4, <1>13, <1>14 DEF Refitted
  <2>4. QED
    BY <2>3, <1>1, SizesAfter
<1>16. QED
  <2>1. HighEnough(g, height2)
    <3>1. height2[0] = height[0]
      BY <1>4, <1>8
    <3>2. QED
      BY <3>1, <1>1 DEF HighEnough
  <2>2. QED
    BY <2>1, <1>8, <1>10, <1>15 DEF ShapeOn

\* A short child has a neighbour in the same family, which fits: together they
\* have less than 3 * NodeSize - 1 keys, and no less than a node needs.
IsPair(h, q, p, k, l, r) ==
    /\ p = q[Len(q)].node.id
    /\ k \in 1 .. Kids(h[p]) /\ k + 1 \in 1 .. Kids(h[p])
    /\ l = Kid(h[p], k) /\ r = Kid(h[p], k + 1)
    /\ q[Len(q)].index \in {k, k + 1}
    /\ Size(h[Cur(q)]) + 1 = NodeSize

PairFits(h, q, p, l, r) ==
    /\ p \in DOMAIN h /\ h[p].leaf = FALSE /\ Kids(h[p]) \in Nat
    /\ l \in DOMAIN h \ {0, p} /\ r \in DOMAIN h \ {0, p} /\ l # r
    /\ h[l].leaf = h[r].leaf /\ ~h[l].deleted /\ ~h[r].deleted
    /\ Cur(q) \in {l, r}
    /\ Size(h[l]) \in Nat /\ Size(h[r]) \in Nat
    /\ Size(h[l]) < 2 * NodeSize /\ Size(h[r]) < 2 * NodeSize
    /\ Size(h[l]) + Size(h[r]) >= 2 * NodeSize - 1
    /\ Size(h[l]) + Size(h[r]) <= 3 * NodeSize - 2

LEMMA PairProperties ==
    ASSUME NEW h, NEW q, ShapeAt(h, q, 1, 0), q # <<>>,
           NEW p, NEW k, NEW l, NEW r, IsPair(h, q, p, k, l, r)
    PROVE  PairFits(h, q, p, l, r)
<1> DEFINE i == q[Len(q)].index
           c == Cur(q)
           hp == h[p]
<1>1. Family(h, q, p, i, c, 1, 0)
  BY FamilyOfPath DEF IsPair
<1>2. /\ k \in 1 .. Kids(hp) /\ k + 1 \in 1 .. Kids(hp)
      /\ l = Kid(hp, k) /\ r = Kid(hp, k + 1) /\ i \in {k, k + 1}
      /\ Size(h[c]) + 1 = NodeSize
  BY DEF IsPair
<1> HIDE DEF i, c, hp
<1>3. /\ p \in DOMAIN h /\ hp.leaf = FALSE /\ Kids(hp) \in Nat
      /\ c = Kid(hp, i) /\ Size(h[c]) \in Nat
      /\ \A j \in 1 .. Kids(hp) :
            /\ Kid(hp, j) \in DOMAIN h \ {0, p}
            /\ h[Kid(hp, j)].leaf = h[c].leaf /\ ~h[Kid(hp, j)].deleted
            /\ \A m \in 1 .. Kids(hp) : Kid(hp, m) = Kid(hp, j) => m = j
            /\ j # i => /\ Size(h[Kid(hp, j)]) >= NodeSize
                        /\ Size(h[Kid(hp, j)]) < 2 * NodeSize
  BY <1>1 DEF Family, hp
<1>4. l \in DOMAIN h \ {0, p} /\ ~h[l].deleted /\ h[l].leaf = h[c].leaf
  BY <1>2, <1>3
<1>5. r \in DOMAIN h \ {0, p} /\ ~h[r].deleted /\ h[r].leaf = h[c].leaf
  BY <1>2, <1>3
<1>6. k # k + 1 /\ k \in Int
  BY <1>2
<1>7. l # r
  BY <1>2, <1>3, <1>6
<1>8. c \in {l, r}
  BY <1>2, <1>3
<1>9. Size(h[l]) \in Nat /\ Size(h[r]) \in Nat
  <2>1. PICK live, height, up, pos : Linked(h, live, height, up, pos) /\ Sizes(h, live, c, 1, 0)
    BY DEF ShapeAt, ShapeOn, c
  <2>2. QED
    BY <2>1, <1>4, <1>5 DEF Sizes
<1>10. \/ c = l /\ Size(h[r]) >= NodeSize /\ Size(h[r]) < 2 * NodeSize
       \/ c = r /\ Size(h[l]) >= NodeSize /\ Size(h[l]) < 2 * NodeSize
  <2>1. CASE i = k
    BY <2>1, <1>2, <1>3, <1>6
  <2>2. CASE i = k + 1
    BY <2>2, <1>2, <1>3, <1>6
  <2>3. QED
    BY <2>1, <2>2, <1>2
<1>11. /\ Size(h[l]) < 2 * NodeSize /\ Size(h[r]) < 2 * NodeSize
       /\ Size(h[l]) + Size(h[r]) >= 2 * NodeSize - 1
       /\ Size(h[l]) + Size(h[r]) <= 3 * NodeSize - 2
  BY <1>2, <1>9, <1>10, NodeSizeAssumption
<1>12. QED
  BY <1>3, <1>4, <1>5, <1>7, <1>8, <1>9, <1>11 DEF hp, c, PairFits

\* The pair has enough keys for two nodes, which share them.
LEMMA BalanceTree ==
    ASSUME NEW h, NEW live, NEW height, NEW q, ShapeOn(h, live, height, q, 1, 0), q # <<>>,
           NEW p, NEW k, NEW l, NEW r, IsPair(h, q, p, k, l, r),
           NEW g, DOMAIN g = DOMAIN h, NEW joined, NEW shrunk, NEW mid,
           IsBalance(h, g, DOMAIN h, p, k, l, r, joined, shrunk, mid),
           Kids(joined) >= 2 * NodeSize,
           2 * mid = Kids(joined) \/ 2 * mid + 1 = Kids(joined),
           \A x \in DOMAIN g : Kids(g[x]) = Size(g[x])
    PROVE  \E height2 : ShapeOn(g, live, height2, Front(q), 1, 0)
<1> DEFINE c == Cur(q)
<1>1. PICK up, pos : /\ Linked(h, live, height, up, pos)
                     /\ Chain(q, h, live, height)
                     /\ Sizes(h, live, c, 1, 0)
                     /\ HighEnough(h, height)
  BY DEF ShapeOn
<1>2. LastFrame(h, q, live, height, up, pos, p, q[Len(q)].index, c)
  BY <1>1, LastFrameProperties DEF IsPair
<1>3. /\ l \in DOMAIN h \ {0, p} /\ r \in DOMAIN h \ {0, p} /\ l # r /\ c \in {l, r}
      /\ Size(h[l]) \in Nat /\ Size(h[r]) \in Nat
      /\ Size(h[l]) + Size(h[r]) <= 3 * NodeSize - 2
  <2>1. PairFits(h, q, p, l, r)
    <3>1. ShapeAt(h, q, 1, 0)
      BY DEF ShapeAt
    <3>2. QED
      BY <3>1, PairProperties
  <2>2. QED
    BY <2>1 DEF PairFits
<1> HIDE DEF c
<1>4. /\ p \in live /\ p \in DOMAIN h /\ h[p].leaf = FALSE
      /\ l \in live /\ height[l] + 1 = height[p]
      /\ r \in live /\ height[r] + 1 = height[p]
  <2>1. /\ k \in 1 .. Kids(h[p]) /\ k + 1 \in 1 .. Kids(h[p])
        /\ l = Kid(h[p], k) /\ r = Kid(h[p], k + 1)
    BY DEF IsPair
  <2>2. p \in live /\ h[p].leaf = FALSE
    BY <1>2 DEF LastFrame
  <2>3. \A j \in 1 .. Kids(h[p]) :
            Kid(h[p], j) \in live /\ height[Kid(h[p], j)] + 1 = height[p]
    BY <1>2 DEF LastFrame
  <2>4. p \in DOMAIN h
    BY <1>1, <2>2 DEF Linked
  <2>5. l \in live /\ height[l] + 1 = height[p]
    BY <2>1, <2>3
  <2>6. r \in live /\ height[r] + 1 = height[p]
    BY <2>1, <2>3
  <2>7. QED
    BY <2>2, <2>4, <2>5, <2>6
<1>5. /\ live \subseteq DOMAIN h /\ live \subseteq Int /\ height \in [Int -> Nat]
      /\ height[p] \in Nat /\ height[l] \in Nat /\ height[r] \in Nat
  <2>1. live \subseteq DOMAIN h /\ live \subseteq Int /\ height \in [Int -> Nat]
    BY <1>1 DEF Linked
  <2>2. QED
    BY <2>1, <1>4
<1>6. /\ Kids(joined) = Kids(h[l]) + Kids(h[r]) /\ mid \in 0 .. Kids(joined)
      /\ Kids(g[l]) = mid /\ Kids(g[r]) = Kids(joined) - mid
      /\ SameCore(g[p], h[p])
      /\ \A a \in DOMAIN h \ {p, l, r} : SameCore(g[a], h[a])
  BY DEF IsBalance, Shared, Concatenated
<1>7. IsBalance(h, g, live, p, k, l, r, joined, shrunk, mid)
  BY <1>4, <1>5 DEF IsBalance
<1>8. Relinked(g, live, live \ {r}, height)
  BY <1>1, <1>7, BalanceLinked
<1>9. PICK height2, up2, pos2 : /\ Linked(g, live, height2, up2, pos2)
                                /\ \A a \in live \ {r} : height2[a] = height[a]
  BY <1>8 DEF Relinked
<1>10. ASSUME NEW a \in live, height[a] > height[p]
       PROVE  /\ a \in live /\ height2[a] = height[a]
              /\ SameCore(g[a], h[a])
  <2>1. height[p] \in Nat /\ height[l] \in Nat /\ height[r] \in Nat
    BY <1>5
  <2>2. a # p /\ a # l /\ a # r
    BY <2>1, <1>4, <1>10
  <2>3. QED
    BY <2>2, <1>5, <1>6, <1>9
<1>11. Chain(Front(q), g, live, height2) /\ Cur(Front(q)) = p
  <2>1. p = q[Len(q)].node.id
    BY DEF IsPair
  <2>2. QED
    BY <2>1, <1>1, <1>10, ChainFront
<1>12. \A x \in DOMAIN h : Size(h[x]) \in Nat /\ Kids(h[x]) = Size(h[x])
  BY <1>1, <1>5, SizesBefore
<1>13. /\ Size(g[l]) = mid /\ Size(g[r]) = Kids(joined) - mid
       /\ mid \in Nat /\ Kids(joined) \in Nat /\ Kids(joined) <= 3 * NodeSize - 2
  <2>1. l \in DOMAIN g /\ r \in DOMAIN g /\ l \in DOMAIN h /\ r \in DOMAIN h
    BY <1>3
  <2>2. Kids(g[l]) = Size(g[l]) /\ Kids(g[r]) = Size(g[r])
    BY <2>1
  <2>3. Kids(joined) = Size(h[l]) + Size(h[r])
    BY <2>1, <1>6, <1>12
  <2>4. Kids(joined) \in Nat /\ Kids(joined) <= 3 * NodeSize - 2
    BY <2>3, <1>3
  <2>5. mid \in Nat
    BY <2>4, <1>6
  <2>6. QED
    BY <2>2, <2>4, <2>5, <1>6
<1>14. /\ mid >= NodeSize /\ mid < 2 * NodeSize
       /\ Kids(joined) - mid >= NodeSize /\ Kids(joined) - mid < 2 * NodeSize
       /\ Kids(joined) - mid \in Nat
  <2>1. Kids(joined) >= 2 * NodeSize /\ (2 * mid = Kids(joined) \/ 2 * mid + 1 = Kids(joined))
    OBVIOUS
  <2>2. Kids(joined) \in Nat /\ Kids(joined) <= 3 * NodeSize - 2 /\ mid \in Nat
    BY <1>13
  <2> DEFINE s == Kids(joined)
  <2> HIDE DEF s
  <2>3. s \in Nat /\ s >= 2 * NodeSize /\ s <= 3 * NodeSize - 2 /\ mid \in Nat
        /\ (2 * mid = s \/ 2 * mid + 1 = s)
    BY <2>1, <2>2 DEF s
  <2>4. /\ mid >= NodeSize /\ mid < 2 * NodeSize /\ s - mid >= NodeSize
        /\ s - mid < 2 * NodeSize /\ s - mid \in Nat
    BY <2>3, NodeSizeAssumption
  <2>5. QED
    BY <2>4 DEF s
<1>15. ASSUME NEW x \in {l, r}
       PROVE  /\ x # p /\ Size(g[x]) \in Nat /\ Size(g[x]) < 2 * NodeSize
              /\ x # 0 /\ Size(g[x]) >= NodeSize
  <2>1. x # p /\ x # 0
    BY <1>3
  <2>2. CASE x = l
    BY <2>1, <2>2, <1>13, <1>14
  <2>3. CASE x = r
    BY <2>1, <2>3, <1>13, <1>14
  <2>4. QED
    BY <2>2, <2>3
<1>16. Sizes(g, live, p, 1, 0)
  <2>1. g[p].leaf = h[p].leaf /\ Size(g[p]) = Size(h[p])
    BY <1>6, SameSize
  <2>2. Size(h[p]) \in Nat
    BY <1>4, <1>12
  <2>3. /\ Size(g[p]) \in Nat
        /\ Size(g[p]) + 1 >= Size(h[p]) /\ Size(g[p]) <= Size(h[p]) + 0
    BY <2>1, <2>2
  <2>4. \A x \in DOMAIN g : x \notin {l, r} \cup {p} =>
            /\ x \in DOMAIN h \ {c} /\ SameCore(g[x], h[x])
            /\ x \in live => x \in live
    BY <1>3, <1>6
  <2>5. p # c
    BY <1>3
  <2>6. Refitted(h, g, live, live, c, p, {l, r}, 1, 0)
    BY <2>1, <2>3, <2>4, <2>5, <1>4, <1>5, <1>15 DEF Refitted
  <2>7. QED
    BY <2>6, <1>1, SizesAfter
<1>17. QED
  <2>1. HighEnough(g, height2)
    <3>1. 0 \in live \ {r}
      BY <1>1, <1>3 DEF Linked
    <3>2. QED
      BY <3>1, <1>1, <1>9 DEF HighEnough
  <2>2. QED
    BY <2>1, <1>9, <1>11, <1>16 DEF ShapeOn

\* The pair has too few keys for two nodes: the left one takes all, and the
\* right one leaves the tree.
LEMMA JoinTree ==
    ASSUME NEW h, NEW live, NEW height, NEW q, ShapeOn(h, live, height, q, 1, 0), q # <<>>,
           NEW p, NEW k, NEW l, NEW r, IsPair(h, q, p, k, l, r),
           NEW g, DOMAIN g = DOMAIN h, IsJoin(h, g, DOMAIN h, p, k, l, r),
           Kids(h[l]) + Kids(h[r]) < 2 * NodeSize, Size(g[r]) = Size(h[r]),
           \A x \in DOMAIN g : Kids(g[x]) = Size(g[x])
    PROVE  ShapeOn(g, live \ {r}, height, Front(q), 1, 0)
<1> DEFINE c == Cur(q)
<1>1. PICK up, pos : /\ Linked(h, live, height, up, pos)
                     /\ Chain(q, h, live, height)
                     /\ Sizes(h, live, c, 1, 0)
                     /\ HighEnough(h, height)
  BY DEF ShapeOn
<1> DEFINE live2 == live \ {r}
<1>2. LastFrame(h, q, live, height, up, pos, p, q[Len(q)].index, c)
  BY <1>1, LastFrameProperties DEF IsPair
<1>3. /\ l \in DOMAIN h \ {0, p} /\ r \in DOMAIN h \ {0, p} /\ l # r /\ c \in {l, r}
      /\ Size(h[l]) \in Nat /\ Size(h[r]) \in Nat /\ Size(h[r]) < 2 * NodeSize
      /\ Size(h[l]) + Size(h[r]) >= 2 * NodeSize - 1
  <2>1. PairFits(h, q, p, l, r)
    <3>1. ShapeAt(h, q, 1, 0)
      BY DEF ShapeAt
    <3>2. QED
      BY <3>1, PairProperties
  <2>2. QED
    BY <2>1 DEF PairFits
<1> HIDE DEF c
<1>4. /\ p \in live /\ p \in DOMAIN h /\ h[p].leaf = FALSE
      /\ l \in live /\ height[l] + 1 = height[p]
      /\ r \in live /\ height[r] + 1 = height[p]
  <2>1. /\ k \in 1 .. Kids(h[p]) /\ k + 1 \in 1 .. Kids(h[p])
        /\ l = Kid(h[p], k) /\ r = Kid(h[p], k + 1)
    BY DEF IsPair
  <2>2. p \in live /\ h[p].leaf = FALSE
    BY <1>2 DEF LastFrame
  <2>3. \A j \in 1 .. Kids(h[p]) :
            Kid(h[p], j) \in live /\ height[Kid(h[p], j)] + 1 = height[p]
    BY <1>2 DEF LastFrame
  <2>4. p \in DOMAIN h
    BY <1>1, <2>2 DEF Linked
  <2>5. l \in live /\ height[l] + 1 = height[p]
    BY <2>1, <2>3
  <2>6. r \in live /\ height[r] + 1 = height[p]
    BY <2>1, <2>3
  <2>7. QED
    BY <2>2, <2>4, <2>5, <2>6
<1>5. /\ live \subseteq DOMAIN h /\ live \subseteq Int /\ height \in [Int -> Nat]
      /\ height[p] \in Nat /\ height[l] \in Nat /\ height[r] \in Nat
  <2>1. live \subseteq DOMAIN h /\ live \subseteq Int /\ height \in [Int -> Nat]
    BY <1>1 DEF Linked
  <2>2. QED
    BY <2>1, <1>4
<1>6. /\ Kids(g[l]) = Kids(h[l]) + Kids(h[r])
      /\ Kids(g[p]) = Kids(h[p]) - 1 /\ g[p].leaf = FALSE
      /\ \A a \in DOMAIN h \ {p, l, r} : SameCore(g[a], h[a])
      /\ k \in 1 .. Kids(h[p])
  BY DEF IsJoin, Shrunk, Concatenated
<1>7. IsJoin(h, g, live, p, k, l, r)
  BY <1>4, <1>5 DEF IsJoin
<1>8. PICK up2, pos2 : Linked(g, live2, height, up2, pos2)
  BY <1>1, <1>7, JoinLinked
<1>9. ASSUME NEW a \in live, height[a] > height[p]
      PROVE  /\ a \in live2 /\ height[a] = height[a]
             /\ SameCore(g[a], h[a])
  <2>1. height[p] \in Nat /\ height[l] \in Nat /\ height[r] \in Nat
    BY <1>5
  <2>2. a # p /\ a # l /\ a # r
    BY <2>1, <1>4, <1>9
  <2>3. QED
    BY <2>2, <1>5, <1>6
<1>10. Chain(Front(q), g, live2, height) /\ Cur(Front(q)) = p
  <2>1. p = q[Len(q)].node.id
    BY DEF IsPair
  <2>2. QED
    BY <2>1, <1>1, <1>9, ChainFront
<1>11. \A x \in DOMAIN h : Size(h[x]) \in Nat /\ Kids(h[x]) = Size(h[x])
  BY <1>1, <1>5, SizesBefore
<1>12. /\ Size(g[l]) = Size(h[l]) + Size(h[r]) /\ Size(g[l]) < 2 * NodeSize
  BY <1>3, <1>6, <1>11
<1>13. ASSUME NEW x \in {l, r}
       PROVE  /\ x # p /\ Size(g[x]) \in Nat /\ Size(g[x]) < 2 * NodeSize
              /\ x \in live2 => x # 0 /\ Size(g[x]) >= NodeSize
  <2>1. Size(g[l]) >= NodeSize /\ Size(g[l]) \in Nat
    BY <1>3, <1>12, NodeSizeAssumption
  <2>2. CASE x = l
    BY <2>1, <2>2, <1>3, <1>12
  <2>3. CASE x = r
    BY <2>3, <1>3
  <2>4. QED
    BY <2>2, <2>3
<1>14. Sizes(g, live2, p, 1, 0)
  <2>1. Size(g[p]) = Size(h[p]) - 1 /\ Size(h[p]) \in Nat /\ Size(h[p]) >= 1
    <3>1. Size(h[p]) \in Nat /\ Kids(h[p]) = Size(h[p]) /\ Kids(g[p]) = Size(g[p])
      BY <1>4, <1>11
    <3>2. Kids(h[p]) >= 1
      BY <3>1, <1>6
    <3>3. QED
      BY <3>1, <3>2, <1>6
  <2>2. /\ Size(g[p]) \in Nat
        /\ Size(g[p]) + 1 >= Size(h[p]) /\ Size(g[p]) <= Size(h[p]) + 0
    BY <2>1
  <2>3. \A x \in DOMAIN g : x \notin {l, r} \cup {p} =>
            /\ x \in DOMAIN h \ {c} /\ SameCore(g[x], h[x])
            /\ x \in live2 => x \in live
    BY <1>3, <1>6
  <2>4. p # c /\ live2 \subseteq DOMAIN g /\ g[p].leaf = h[p].leaf
    BY <1>3, <1>4, <1>5, <1>6
  <2> HIDE DEF live2
  <2>5. Refitted(h, g, live, live2, c, p, {l, r}, 1, 0)
    BY <2>2, <2>3, <2>4, <1>4, <1>5, <1>13 DEF Refitted
  <2>6. QED
    BY <2>5, <1>1, SizesAfter
<1>15. QED
  BY <1>1, <1>8, <1>10, <1>14 DEF ShapeOn, HighEnough


\* At the root a call has no frame left.
LEMMA NoFrames == \A h, live, height : Chain(<<>>, h, live, height)
<1>1. <<>> \in Seq(Frames) /\ Len(<<>>) = 0
  BY EmptySeq
<1>2. QED
  BY <1>1 DEF Chain

\* The root stays as it is.
RootFits(n) == Size(n) < 2 * NodeSize /\ (IsInner(n) => Size(n) >= 2)

LEMMA RootStaysTree ==
    ASSUME NEW h, NEW live, NEW height, NEW less \in Nat, NEW more \in Nat,
           ShapeOn(h, live, height, <<>>, less, more), RootFits(h[0])
    PROVE  ShapeOn(h, live, height, <<>>, 0, 0)
<1> USE DEF RootFits, IsInner
<1>1. PICK up, pos : /\ Linked(h, live, height, up, pos)
                     /\ Chain(<<>>, h, live, height)
                     /\ Sizes(h, live, 0, less, more)
                     /\ HighEnough(h, height)
  BY DEF ShapeOn, Cur
<1>2. live \subseteq DOMAIN h /\ 0 \in live /\ h[0].leaf \in BOOLEAN
  BY <1>1 DEF Linked, LinkedAt
<1>3. ASSUME NEW x \in DOMAIN h
      PROVE  /\ Size(h[x]) \in Nat /\ Kids(h[x]) = Size(h[x])
             /\ Size(h[x]) < 2 * NodeSize
  BY <1>1, <1>2, SizesBefore
<1>4. ASSUME NEW a \in live
      PROVE  Size(h[a]) >= Least(a, h[a])
  <2>1. CASE a = 0
    BY <2>1, <1>2, <1>3 DEF Least
  <2>2. CASE a # 0
    BY <2>2, <1>1, <1>2, SizesBefore
  <2>3. QED
    BY <2>1, <2>2
<1>5. Sizes(h, live, 0, 0, 0)
  <2>1. \A x \in DOMAIN h : Size(h[x]) < 2 * NodeSize + (IF x = 0 THEN 0 ELSE 0)
    BY <1>3, NodeSizeAssumption
  <2>2. \A a \in live : Size(h[a]) + (IF a = 0 THEN 0 ELSE 0) >= Least(a, h[a])
    BY <1>2, <1>3, <1>4
  <2>3. QED
    BY <1>3, <2>1, <2>2 DEF Sizes
<1>6. QED
  BY <1>1, <1>5 DEF ShapeOn, Cur

\* What is left to show when the heap g is a tree again.
LEMMA WholeTree ==
    ASSUME NEW g, NEW live, NEW height, NEW up, NEW pos,
           Linked(g, live, height, up, pos), HighEnough(g, height),
           \A x \in DOMAIN g : /\ Size(g[x]) \in Nat /\ Kids(g[x]) = Size(g[x])
                               /\ Size(g[x]) < 2 * NodeSize,
           \A a \in live : Size(g[a]) >= Least(a, g[a])
    PROVE  ShapeOn(g, live, height, <<>>, 0, 0)
<1>1. live \subseteq DOMAIN g
  BY DEF Linked
<1>2. Sizes(g, live, 0, 0, 0)
  <2>1. \A x \in DOMAIN g : Size(g[x]) < 2 * NodeSize + (IF x = 0 THEN 0 ELSE 0)
    BY NodeSizeAssumption
  <2>2. \A a \in live : Size(g[a]) + (IF a = 0 THEN 0 ELSE 0) >= Least(a, g[a])
    BY <1>1
  <2>3. QED
    BY <2>1, <2>2 DEF Sizes
<1>3. QED
  BY <1>2, NoFrames DEF ShapeOn, Cur

\* A full root becomes an inner node over its halves.
LEMMA RootSplitTree ==
    ASSUME NEW h, NEW live, NEW height, ShapeOn(h, live, height, <<>>, 0, 1), Size(h[0]) = 2 * NodeSize,
           NEW ids \in Nat, DOMAIN h = 0 .. ids - 1,
           NEW g, NEW lo, NEW hi, {lo, hi} = {ids, ids + 1}, DOMAIN g = DOMAIN h \cup {lo, hi},
           IsRootSplit(h, g, DOMAIN h, lo, hi, NodeSize),
           \A x \in DOMAIN g : Kids(g[x]) = Size(g[x])
    PROVE  \E height2 : ShapeOn(g, live \cup {lo, hi}, height2, <<>>, 0, 0)
<1>1. PICK up, pos : /\ Linked(h, live, height, up, pos)
                     /\ Sizes(h, live, 0, 0, 1)
                     /\ HighEnough(h, height)
  BY DEF ShapeOn, Cur
<1>2. live \subseteq DOMAIN h /\ 0 \in live
  BY <1>1 DEF Linked
<1>3. /\ \A x \in DOMAIN h : /\ Size(h[x]) \in Nat /\ Kids(h[x]) = Size(h[x])
                             /\ x # 0 => Size(h[x]) < 2 * NodeSize
      /\ \A a \in live : a # 0 => Size(h[a]) >= Least(a, h[a])
  BY <1>1, <1>2, SizesBefore
<1>4. IsRootSplit(h, g, live, lo, hi, NodeSize)
  BY <1>2 DEF IsRootSplit
<1>5. PICK height2, up2, pos2 : /\ Linked(g, live \cup {lo, hi}, height2, up2, pos2)
                                /\ height2[0] = height[0] + 1
  <2>1. Raised(g, live \cup {lo, hi}, height)
    BY <1>1, <1>4, RootSplitLinked
  <2>2. QED
    BY <2>1 DEF Raised
<1>6. /\ lo \notin DOMAIN h /\ hi \notin DOMAIN h
      /\ lo \in DOMAIN g /\ hi \in DOMAIN g /\ 0 \in DOMAIN g /\ 0 \in DOMAIN h
      /\ Kids(g[0]) = 2 /\ g[0].leaf = FALSE
      /\ Kids(g[lo]) = NodeSize /\ Kids(g[hi]) = Kids(h[0]) - NodeSize
      /\ \A a \in DOMAIN h \ {0} : SameCore(g[a], h[a])
  BY <1>2 DEF IsRootSplit, Shared
<1>7. Size(g[0]) = 2 /\ Size(g[lo]) = NodeSize /\ Size(g[hi]) = NodeSize
  BY <1>3, <1>6, NodeSizeAssumption
<1>8. \A a \in DOMAIN h \ {0} : Size(g[a]) = Size(h[a]) /\ Least(a, g[a]) = Least(a, h[a])
  BY <1>6, SameSize
<1>9. ASSUME NEW x \in DOMAIN g
      PROVE  Size(g[x]) \in Nat /\ Size(g[x]) < 2 * NodeSize
  <2>1. CASE x \in {0, lo, hi}
    BY <2>1, <1>7, NodeSizeAssumption
  <2>2. CASE x \in DOMAIN h \ {0}
    BY <2>2, <1>3, <1>8
  <2>3. QED
    BY <2>1, <2>2
<1>10. ASSUME NEW a \in live \cup {lo, hi}
       PROVE  Size(g[a]) >= Least(a, g[a])
  <2>1. CASE a = 0
    BY <2>1, <1>6, <1>7 DEF Least
  <2>2. CASE a \in {lo, hi}
    BY <2>2, <1>6, <1>7, NodeSizeAssumption DEF Least
  <2>3. CASE a \in live \ {0}
    BY <2>3, <1>2, <1>3, <1>8
  <2>4. QED
    BY <2>1, <2>2, <2>3
<1>11. QED
  <2>1. height[0] \in Nat
    BY <1>1, <1>2 DEF Linked
  <2>2. 2 * height[0] \in 0 .. ids - 1
    BY <2>1, <1>1 DEF HighEnough
  <2>3. DOMAIN g = 0 .. ids + 1
    <3>1. DOMAIN g = (0 .. ids - 1) \cup {ids, ids + 1}
      OBVIOUS
    <3>2. (0 .. ids - 1) \cup {ids, ids + 1} = 0 .. ids + 1
      OBVIOUS
    <3>3. QED
      BY <3>1, <3>2
  <2>4. HighEnough(g, height2)
    BY <2>1, <2>2, <2>3, <1>5 DEF HighEnough
  <2>5. QED
    BY <2>4, <1>5, <1>9, <1>10, WholeTree

\* An inner root with one child gives way to it.
LEMMA CollapseTree ==
    ASSUME NEW h, NEW live, NEW height, ShapeOn(h, live, height, <<>>, 1, 0),
           NEW g, DOMAIN g = DOMAIN h,
           NEW c, IsCollapse(h, g, DOMAIN h, c), Size(g[c]) = Size(h[c]),
           \A x \in DOMAIN g : Kids(g[x]) = Size(g[x])
    PROVE  \E height2 : ShapeOn(g, live \ {c}, height2, <<>>, 0, 0)
<1>1. PICK up, pos : /\ Linked(h, live, height, up, pos)
                     /\ Sizes(h, live, 0, 1, 0)
                     /\ HighEnough(h, height)
  BY DEF ShapeOn, Cur
<1>2. live \subseteq DOMAIN h /\ 0 \in live
  BY <1>1 DEF Linked
<1>3. /\ \A x \in DOMAIN h : /\ Size(h[x]) \in Nat /\ Kids(h[x]) = Size(h[x])
                             /\ x # 0 => Size(h[x]) < 2 * NodeSize
      /\ \A a \in live : a # 0 => Size(h[a]) >= Least(a, h[a])
  BY <1>1, <1>2, SizesBefore
<1>4. IsCollapse(h, g, live, c)
  BY <1>2 DEF IsCollapse
<1>5. PICK height2, up2, pos2 : /\ Linked(g, live \ {c}, height2, up2, pos2)
                                /\ height2[0] + 1 = height[0]
  <2>1. Lowered(g, live \ {c}, height)
    BY <1>1, <1>4, CollapseLinked
  <2>2. QED
    BY <2>1 DEF Lowered
<1>6. c \in live \ {0}
  <2>1. ~h[0].leaf /\ Kids(h[0]) = 1 /\ c = Kid(h[0], 1)
    BY DEF IsCollapse
  <2>2. \A i \in 1 .. Kids(h[0]) : Kid(h[0], i) \in live \ {0}
    <3>1. LinkedAt(h[0], 0, live, height, up, pos)
      BY <1>1 DEF Linked
    <3>2. QED
      BY <2>1, <3>1 DEF LinkedAt
  <2>3. 1 \in 1 .. Kids(h[0])
    BY <2>1
  <2>4. QED
    BY <2>1, <2>2, <2>3
<1>7. /\ SameCore(g[0], h[c])
      /\ \A a \in DOMAIN h \ {0, c} : SameCore(g[a], h[a])
  BY DEF IsCollapse
<1>8. Size(g[0]) = Size(h[c])
  BY <1>7, SameSize
<1>9. \A a \in DOMAIN h \ {0, c} :
            Size(g[a]) = Size(h[a]) /\ Least(a, g[a]) = Least(a, h[a])
  BY <1>7, SameSize
<1>10. /\ Size(h[c]) \in Nat /\ Size(h[c]) < 2 * NodeSize /\ Size(h[c]) >= NodeSize
  BY <1>2, <1>3, <1>6 DEF Least
<1>11. ASSUME NEW x \in DOMAIN g
       PROVE  Size(g[x]) \in Nat /\ Size(g[x]) < 2 * NodeSize
  <2>1. CASE x \in {0, c}
    BY <2>1, <1>8, <1>10
  <2>2. CASE x \in DOMAIN h \ {0, c}
    BY <2>2, <1>3, <1>9
  <2>3. QED
    BY <2>1, <2>2
<1>12. ASSUME NEW a \in live \ {c}
       PROVE  Size(g[a]) >= Least(a, g[a])
  <2>1. CASE a = 0
    BY <2>1, <1>8, <1>10, NodeSizeAssumption DEF Least
  <2>2. CASE a # 0
    BY <2>2, <1>2, <1>3, <1>9
  <2>3. QED
    BY <2>1, <2>2
<1>13. QED
  <2>1. height[0] \in Nat /\ height2[0] \in Nat
    BY <1>1, <1>2, <1>5 DEF Linked
  <2>2. 0 .. 2 * height2[0] \subseteq 0 .. 2 * height[0]
    BY <2>1, <1>5
  <2>3. HighEnough(g, height2)
    BY <2>2, <1>1 DEF HighEnough
  <2>4. QED
    BY <2>3, <1>5, <1>11, <1>12, WholeTree

-------------------------------------------------------------------------------
\* Heaps that differ in keys and list pointers only are the same tree.
LEMMA SameCoreTransitive ==
    ASSUME NEW a, NEW b, NEW c, SameCore(a, b), SameCore(b, c)
    PROVE  SameCore(a, c)
BY DEF SameCore

LEMMA SameCoreBack ==
    ASSUME NEW a, NEW b, SameCore(a, b)
    PROVE  SameCore(b, a)
BY DEF SameCore

LEMMA SameTree ==
    ASSUME NEW h, NEW live, NEW height, NEW q, NEW less \in Nat, NEW more \in Nat,
           ShapeOn(h, live, height, q, less, more),
           NEW g, DOMAIN g = DOMAIN h, \A x \in DOMAIN h : SameCore(g[x], h[x])
    PROVE  ShapeOn(g, live, height, q, less, more)
<1>1. PICK up, pos : /\ Linked(h, live, height, up, pos)
                     /\ Chain(q, h, live, height)
                     /\ Sizes(h, live, Cur(q), less, more)
                     /\ HighEnough(h, height)
  BY DEF ShapeOn
<1>2. live \subseteq DOMAIN h
  BY <1>1 DEF Linked
<1>3. IsKept(h, g, live)
  BY <1>2 DEF IsKept
<1>4. Linked(g, live, height, up, pos)
  BY <1>1, <1>3, KeptLinked
<1>5. Chain(q, g, live, height)
  <2>1. ASSUME NEW i \in 1 .. Len(q)
        PROVE  OnPath(q, i, g, live, height)
    <3>1. OnPath(q, i, h, live, height)
      BY <1>1 DEF Chain
    <3>2. Framed(q[i], i, h, live, height)
      BY <3>1 DEF OnPath
    <3>3. SameCore(q[i].node, g[q[i].node.id])
      <4>1. /\ SameCore(q[i].node, h[q[i].node.id]) /\ q[i].node.id \in live
        BY <3>2 DEF Framed
      <4>2. SameCore(h[q[i].node.id], g[q[i].node.id])
        BY <4>1, <1>2, SameCoreBack
      <4>3. QED
        BY <4>1, <4>2, SameCoreTransitive
    <3>4. Framed(q[i], i, g, live, height)
      BY <3>2, <3>3 DEF Framed
    <3>5. QED
      BY <3>1, <3>4 DEF OnPath
  <2>2. QED
    BY <2>1, <1>1 DEF Chain
<1>6. \A x \in DOMAIN h : Size(g[x]) = Size(h[x]) /\ Kids(g[x]) = Kids(h[x])
                          /\ Least(x, g[x]) = Least(x, h[x])
  BY SameSize
<1>7. Sizes(g, live, Cur(q), less, more)
  <2> DEFINE c == Cur(q)
  <2>1. Sizes(h, live, c, less, more)
    BY <1>1
  <2> HIDE DEF c
  <2>2. ASSUME NEW x \in DOMAIN g
        PROVE  /\ Size(g[x]) \in Nat /\ Kids(g[x]) = Size(g[x])
               /\ Size(g[x]) < 2 * NodeSize + (IF x = c THEN more ELSE 0)
    BY <2>1, <1>6 DEF Sizes
  <2>3. ASSUME NEW a \in live
        PROVE  Size(g[a]) + (IF a = c THEN less ELSE 0) >= Least(a, g[a])
    BY <2>1, <1>2, <1>6 DEF Sizes
  <2>4. Sizes(g, live, c, less, more)
    BY <2>2, <2>3 DEF Sizes
  <2>5. QED
    BY <2>4 DEF c
<1>8. QED
  BY <1>1, <1>4, <1>5, <1>7 DEF ShapeOn, HighEnough

\* A call that has changed nothing may end anywhere.
LEMMA HomeTree ==
    ASSUME NEW h, NEW live, NEW height, NEW q, ShapeOn(h, live, height, q, 0, 0)
    PROVE  ShapeOn(h, live, height, <<>>, 0, 0)
<1>1. PICK up, pos : /\ Linked(h, live, height, up, pos)
                     /\ Sizes(h, live, Cur(q), 0, 0)
                     /\ HighEnough(h, height)
  BY DEF ShapeOn
<1> DEFINE c == Cur(q)
<1>2. Sizes(h, live, c, 0, 0) /\ live \subseteq DOMAIN h
  BY <1>1 DEF Linked
<1> HIDE DEF c
<1>3. \A x \in DOMAIN h : /\ Size(h[x]) \in Nat /\ Kids(h[x]) = Size(h[x])
                          /\ Size(h[x]) < 2 * NodeSize
  BY <1>2, NodeSizeAssumption DEF Sizes
<1>4. \A a \in live : Size(h[a]) >= Least(a, h[a])
  BY <1>2, <1>3 DEF Sizes
<1>5. QED
  BY <1>1, <1>3, <1>4, WholeTree

\* What the storage keeps of a node is all that the tree needs of it.
LEMMA StoredTree0 ==
    ASSUME NEW h, NEW live, NEW height, ShapeOn(h, live, height, <<>>, 0, 0),
           NEW g, DOMAIN g = DOMAIN h,
           \A x \in DOMAIN h : h[x] \in NodeRecords /\ g[x] \in {h[x], Stored(h[x])}
    PROVE  ShapeOn(g, live, height, <<>>, 0, 0)
<1>1. PICK up, pos : /\ Linked(h, live, height, up, pos)
                     /\ Sizes(h, live, 0, 0, 0)
                     /\ HighEnough(h, height)
  BY DEF ShapeOn, Cur
<1>2. live \subseteq DOMAIN h /\ \A a \in live : ~h[a].deleted
  BY <1>1 DEF Linked, LinkedAt
<1>3. \A x \in DOMAIN h :
            /\ g[x].leaf = h[x].leaf /\ g[x].keys = h[x].keys /\ g[x].ptrs = h[x].ptrs
            /\ g[x].deleted \in {h[x].deleted, FALSE} /\ h[x].deleted \in BOOLEAN
  BY DEF Stored, NodeRecords
<1>4. \A x \in DOMAIN h : Size(g[x]) = Size(h[x]) /\ Kids(g[x]) = Kids(h[x])
                          /\ Least(x, g[x]) = Least(x, h[x])
  BY <1>3 DEF Size, Kids, Least
<1>5. ASSUME NEW a \in live
      PROVE  SameCore(g[a], h[a])
  <2>1. h[a].deleted = FALSE
    BY <1>2, <1>3
  <2>2. g[a].deleted = h[a].deleted
    BY <2>1, <1>2, <1>3
  <2>3. QED
    BY <2>2, <1>2, <1>3, <1>4 DEF SameCore, Kid
<1>6. IsKept(h, g, live)
  BY <1>2, <1>5 DEF IsKept
<1>7. Linked(g, live, height, up, pos)
  BY <1>1, <1>6, KeptLinked
<1>8. \A x \in DOMAIN g : /\ Size(g[x]) \in Nat /\ Kids(g[x]) = Size(g[x])
                          /\ Size(g[x]) < 2 * NodeSize
  BY <1>1, <1>4, NodeSizeAssumption DEF Sizes
<1>9. \A a \in live : Size(g[a]) >= Least(a, g[a])
  <2>1. \A a \in live : Size(h[a]) >= Least(a, h[a])
    BY <1>1, <1>2, <1>4, <1>8 DEF Sizes
  <2>2. QED
    BY <2>1, <1>2, <1>4
<1>10. QED
  <2>1. HighEnough(g, height)
    BY <1>1 DEF HighEnough
  <2>2. QED
    BY <2>1, <1>7, <1>8, <1>9, WholeTree

\* The caller's copy with the new child before the old one.
LEMMA DoubledByGrowth ==
    ASSUME NEW n, NEW a, SameCore(a, n), Kids(n) \in Nat,
           NEW i \in 1 .. Kids(n), NEW new, NEW m, Grown(m, a, i, new)
    PROVE  Doubled(m, n, i, new, Kid(n, i))
<1>1. Kids(a) = Kids(n) /\ \A j \in 1 .. Kids(n) : Kid(a, j) = Kid(n, j)
  BY DEF SameCore
<1>2. /\ Kids(m) = Kids(n) + 1
      /\ \A j \in 1 .. Kids(n) + 1 :
            Kid(m, j) = IF j < i THEN Kid(a, j) ELSE IF j = i THEN new ELSE Kid(a, j - 1)
  BY <1>1 DEF Grown
<1>3. Kid(m, i) = new
  BY <1>2
<1>4. ASSUME NEW j \in 1 .. Kids(n), j < i
      PROVE  Kid(m, j) = Kid(n, j)
  BY <1>1, <1>2, <1>4
<1>5. ASSUME NEW j \in 1 .. Kids(n), j >= i
      PROVE  Kid(m, j + 1) = Kid(n, j)
  <2>1. j + 1 \in 1 .. Kids(n) + 1 /\ ~(j + 1 < i) /\ j + 1 # i /\ j + 1 - 1 = j
    BY <1>5
  <2>2. Kid(m, j + 1) = Kid(a, j + 1 - 1)
    BY <2>1, <1>2
  <2>3. QED
    BY <2>1, <2>2, <1>1
<1>6. QED
  BY <1>2, <1>3, <1>4, <1>5 DEF Doubled

\* The caller's copy after a join: the left child takes the right one's place,
\* and the left one's is removed.
LEMMA ShrunkByJoin ==
    ASSUME NEW n, NEW a, SameCore(a, n), Kids(n) \in Nat,
           NEW k \in 1 .. Kids(n), k + 1 \in 1 .. Kids(n),
           NEW b, Kids(b) = Kids(a),
           \A j \in 1 .. Kids(a) : Kid(b, j) = IF j = k + 1 THEN Kid(n, k) ELSE Kid(a, j),
           NEW m, Shrunk(m, b, k)
    PROVE  Shrunk(m, n, k + 1)
<1>1. Kids(a) = Kids(n) /\ \A j \in 1 .. Kids(n) : Kid(a, j) = Kid(n, j)
  BY DEF SameCore
<1>2. /\ Kids(m) = Kids(n) - 1
      /\ \A j \in 1 .. Kids(n) - 1 : Kid(m, j) = IF j < k THEN Kid(b, j) ELSE Kid(b, j + 1)
  BY <1>1 DEF Shrunk
<1>3. \A j \in 1 .. Kids(n) : Kid(b, j) = IF j = k + 1 THEN Kid(n, k) ELSE Kid(n, j)
  BY <1>1
<1>4. ASSUME NEW j \in 1 .. Kids(n) - 1
      PROVE  Kid(m, j) = IF j < k + 1 THEN Kid(n, j) ELSE Kid(n, j + 1)
  <2>1. j \in 1 .. Kids(n) /\ j + 1 \in 1 .. Kids(n)
    OBVIOUS
  <2>2. CASE j < k
    BY <2>1, <2>2, <1>2, <1>3
  <2>3. CASE j = k
    BY <2>1, <2>3, <1>2, <1>3
  <2>4. CASE j > k
    BY <2>1, <2>4, <1>2, <1>3
  <2>5. QED
    BY <2>2, <2>3, <2>4
<1>5. QED
  BY <1>2, <1>4 DEF Shrunk

-------------------------------------------------------------------------------
(* The order of the keys, and the pairs in the leaves. *)

Key(n, i) == n.keys[i]

\* The largest key of a node in order.
Most(n) == Key(n, Kids(n))

\* What order and pairs depend on.
SameBody(m, n) == SameCore(m, n) /\ m.keys = n.keys

LEMMA SameBodyTransitive ==
    ASSUME NEW a, NEW b, NEW c, SameBody(a, b), SameBody(b, c)
    PROVE  SameBody(a, c)
BY SameCoreTransitive DEF SameBody

LEMMA SameBodyOfItself == ASSUME NEW n PROVE SameBody(n, n)
BY DEF SameBody, SameCore

-------------------------------------------------------------------------------
\* Nodes: what the operations of BNode do to the keys.
LEMMA KeysOfNode ==
    ASSUME NEW n, NEW ids, NEW values, NodeOK(n, ids, values)
    PROVE  /\ Kids(n) \in Nat /\ Size(n) = Kids(n)
           /\ \A i \in 1 .. Kids(n) : Key(n, i) \in Keys
<1>1. n.keys \in Seq(Keys) /\ Len(n.keys) = Kids(n) /\ Kids(n) \in Nat /\ Size(n) = Kids(n)
  BY SequencesOfNode
<1>2. QED
  BY <1>1, ElementOfSeq DEF Key

LEMMA MostIsLast ==
    ASSUME NEW n, NEW ids, NEW values, NodeOK(n, ids, values), Kids(n) # 0
    PROVE  GetMax(n) = Most(n)
BY SequencesOfNode DEF GetMax, Most, Key, Last

KeysShared(pair, n, mid) ==
    /\ \A j \in 1 .. mid : Key(pair[1], j) = Key(n, j)
    /\ \A j \in 1 .. Kids(n) - mid : Key(pair[2], j) = Key(n, mid + j)

LEMMA SplitKeys ==
    ASSUME NEW n, NEW ids, NEW values, NodeOK(n, ids, values), NEW idL, NEW idR
    PROVE  KeysShared(Split(n, idL, idR), n, Middle(n))
<1> DEFINE pair == Split(n, idL, idR)
<1>1. n.keys \in Seq(Keys) /\ Len(n.keys) = Size(n) /\ Size(n) = Kids(n)
  BY SequencesOfNode
<1>2. HalvesOf(n, Keys, n.keys)
  BY <1>1, HalfProperties
<1>3. pair[1].keys = LowerHalf(n, n.keys) /\ pair[2].keys = UpperHalf(n, n.keys)
  BY DEF Split, SplitLeaf, SplitInner, Leaf, Inner
<1> HIDE DEF pair
<1>4. KeysShared(pair, n, Middle(n))
  BY <1>1, <1>2, <1>3 DEF KeysShared, HalvesOf, Key
<1>5. QED
  BY <1>4 DEF pair

KeysConcatenated(m, a, b) ==
    /\ \A j \in 1 .. Kids(a) : Key(m, j) = Key(a, j)
    /\ \A j \in 1 .. Kids(b) : Key(m, Kids(a) + j) = Key(b, j)

LEMMA JoinKeys ==
    ASSUME NEW a, NEW b, NEW ids, NEW values,
           NodeOK(a, ids, values), NodeOK(b, ids, values)
    PROVE  KeysConcatenated(Join(a, b), a, b)
<1>1. /\ a \in NodeRecords
      /\ a.keys \in Seq(Keys) /\ Len(a.keys) = Kids(a)
      /\ b.keys \in Seq(Keys) /\ Len(b.keys) = Kids(b)
  BY SequencesOfNode
<1>2. SeqOfBoth(a.keys \o b.keys, Keys, a.keys, b.keys)
  BY <1>1, ConcatFacts
<1>3. Join(a, b).keys = a.keys \o b.keys
  BY <1>1 DEF Join, JoinLeaf, JoinInner, NodeRecords
<1>4. QED
  BY <1>1, <1>2, <1>3 DEF SeqOfBoth, KeysConcatenated, Key

\* The keys of n with k inserted at i, with the one at i removed, and with the
\* one at i replaced by k.
KeysGrown(m, n, i, k) ==
    \A j \in 1 .. Kids(n) + 1 :
        Key(m, j) = IF j < i THEN Key(n, j) ELSE IF j = i THEN k ELSE Key(n, j - 1)

KeysShrunk(m, n, i) ==
    \A j \in 1 .. Kids(n) - 1 : Key(m, j) = IF j < i THEN Key(n, j) ELSE Key(n, j + 1)

KeyUpdated(m, n, i, k) ==
    \A j \in 1 .. Kids(n) : Key(m, j) = IF j = i THEN k ELSE Key(n, j)

LEMMA AddKeyKeys ==
    ASSUME NEW n, NEW ids, NEW values, NodeOK(n, ids, values),
           NEW i \in 1 .. Kids(n) + 1, NEW k \in Keys, NEW p
    PROVE  KeysGrown(AddKey(n, i, k, p), n, i, k)
<1>1. n \in NodeRecords /\ n.keys \in Seq(Keys) /\ Len(n.keys) = Kids(n)
  BY SequencesOfNode
<1>2. SeqWith(InsertAt(n.keys, i, k), Keys, n.keys, i, k)
  BY <1>1, InsertAtProperties
<1>3. AddKey(n, i, k, p).keys = InsertAt(n.keys, i, k)
  BY <1>1 DEF AddKey, NodeRecords
<1>4. QED
  BY <1>1, <1>2, <1>3 DEF SeqWith, KeysGrown, Key

LEMMA DeleteKeyKeys ==
    ASSUME NEW n, NEW ids, NEW values, NodeOK(n, ids, values), NEW i \in 1 .. Kids(n)
    PROVE  KeysShrunk(DeleteKey(n, i), n, i)
<1>1. n \in NodeRecords /\ n.keys \in Seq(Keys) /\ Len(n.keys) = Kids(n)
  BY SequencesOfNode
<1>2. SeqWithout(RemoveAt(n.keys, i), Keys, n.keys, i)
  BY <1>1, RemoveAtProperties
<1>3. DeleteKey(n, i).keys = RemoveAt(n.keys, i)
  BY <1>1 DEF DeleteKey, NodeRecords
<1>4. QED
  BY <1>1, <1>2, <1>3 DEF SeqWithout, KeysShrunk, Key

LEMMA UpdateKeyKeys ==
    ASSUME NEW n, NEW ids, NEW values, NodeOK(n, ids, values),
           NEW i \in 1 .. Kids(n), NEW k \in Keys
    PROVE  KeyUpdated(UpdateKey(n, i, k), n, i, k)
<1>1. n \in NodeRecords /\ n.keys \in Seq(Keys) /\ Len(n.keys) = Kids(n)
  BY SequencesOfNode
<1>2. UpdateKey(n, i, k).keys = [n.keys EXCEPT ![i] = k]
  BY <1>1 DEF UpdateKey, NodeRecords
<1>3. QED
  BY <1>1, <1>2, ExceptSeq DEF KeyUpdated, Key

LEMMA SetChildKeys ==
    ASSUME NEW n, NEW ids, NEW values, NodeOK(n, ids, values), NEW i, NEW p
    PROVE  \A j \in 1 .. Kids(n) : Key(SetChild(n, i, p), j) = Key(n, j)
<1>1. n \in NodeRecords
  BY SequencesOfNode
<1>2. SetChild(n, i, p).keys = n.keys
  BY <1>1 DEF SetChild, NodeRecords
<1>3. QED
  BY <1>2 DEF Key

-------------------------------------------------------------------------------
(* Nodes in order.  A node n with the bound b is in order in the heap h     *)
(* with the bounds low if its keys rise above b, its children lie over the *)
(* keys before them, and its keys top those children; x is the child that  *)
(* the last of these need not hold for.                                    *)

Rising(n, b) ==
    /\ b \in Int
    /\ \A i \in 1 .. Kids(n) : Key(n, i) \in Int /\ b < Key(n, i)
    /\ \A i, j \in 1 .. Kids(n) : j < i => Key(n, j) < Key(n, i)

Over(n, b, low) ==
    \A i \in 1 .. Kids(n) :
        /\ low[Kid(n, i)] \in Int /\ b <= low[Kid(n, i)]
        /\ \A j \in 1 .. Kids(n) : j < i => Key(n, j) <= low[Kid(n, i)]

Tops(n, h, x) == \A i \in 1 .. Kids(n) : Kid(n, i) # x => Key(n, i) = Most(h[Kid(n, i)])

Ordered(n, b, h, low, x) ==
    /\ Rising(n, b)
    /\ n.leaf = FALSE => Over(n, b, low) /\ Tops(n, h, x)

\* The same node in another heap, where its children have the same bounds and
\* largest keys.
Unmoved(n, h, low, x, g, low2, x2) ==
    \A i \in 1 .. Kids(n) :
        /\ low2[Kid(n, i)] = low[Kid(n, i)]
        /\ Kid(n, i) # x2 => Kid(n, i) # x /\ Most(g[Kid(n, i)]) = Most(h[Kid(n, i)])

LEMMA OrderedMoves ==
    ASSUME NEW n, NEW b, NEW h, NEW low, NEW x, Ordered(n, b, h, low, x),
           NEW m, SameBody(m, n), NEW g, NEW low2, NEW x2,
           IsInner(n) => Unmoved(n, h, low, x, g, low2, x2)
    PROVE  Ordered(m, b, g, low2, x2)
<1> USE DEF IsInner
<1>1. /\ Kids(m) = Kids(n) /\ m.leaf = n.leaf
      /\ \A i \in 1 .. Kids(n) : Key(m, i) = Key(n, i) /\ Kid(m, i) = Kid(n, i)
  BY DEF SameBody, SameCore, Key
<1>2. Rising(m, b)
  BY <1>1 DEF Ordered, Rising
<1>3. ASSUME n.leaf = FALSE
      PROVE  Over(m, b, low2) /\ Tops(m, g, x2)
  <2>1. Over(n, b, low) /\ Tops(n, h, x) /\ Unmoved(n, h, low, x, g, low2, x2)
    BY <1>3 DEF Ordered
  <2>2. Over(m, b, low2)
    BY <1>1, <2>1 DEF Over, Unmoved
  <2>3. Tops(m, g, x2)
    BY <1>1, <2>1 DEF Tops, Unmoved
  <2>4. QED
    BY <2>2, <2>3
<1>4. QED
  BY <1>1, <1>2, <1>3 DEF Ordered

\* The halves of a node in order: the key in the middle bounds the upper one.
Halved(pair, n, mid) ==
    /\ Kids(n) \in Nat /\ mid \in 1 .. Kids(n) - 1
    /\ Shared(pair, n, mid) /\ KeysShared(pair, n, mid)
    /\ pair[1].leaf = n.leaf /\ pair[2].leaf = n.leaf

LEMMA HalvesOrdered ==
    ASSUME NEW n, NEW b, NEW h, NEW low, NEW x, Ordered(n, b, h, low, x),
           NEW pair, NEW mid, Halved(pair, n, mid)
    PROVE  /\ Ordered(pair[1], b, h, low, x) /\ Ordered(pair[2], Key(n, mid), h, low, x)
           /\ Most(pair[1]) = Key(n, mid) /\ Most(pair[2]) = Most(n)
           /\ Key(n, mid) \in Int /\ b < Key(n, mid) /\ Key(n, mid) < Most(n)
<1> DEFINE u == pair[1]
           v == pair[2]
           N == Kids(n)
<1>1. /\ N \in Nat /\ mid \in 1 .. N - 1 /\ mid \in Int
      /\ Kids(u) = mid /\ Kids(v) = N - mid
      /\ \A j \in 1 .. mid : Kid(u, j) = Kid(n, j) /\ Key(u, j) = Key(n, j)
      /\ \A j \in 1 .. N - mid : Kid(v, j) = Kid(n, mid + j) /\ Key(v, j) = Key(n, mid + j)
      /\ u.leaf = n.leaf /\ v.leaf = n.leaf
  BY DEF Halved, Shared, KeysShared
<1>2. /\ b \in Int
      /\ \A i \in 1 .. N : Key(n, i) \in Int /\ b < Key(n, i)
      /\ \A i, j \in 1 .. N : j < i => Key(n, j) < Key(n, i)
  BY DEF Ordered, Rising
<1> HIDE DEF u, v, N
<1>3. Key(n, mid) \in Int /\ b < Key(n, mid) /\ Key(n, mid) < Key(n, N)
  BY <1>1, <1>2
<1>4. Key(u, Kids(u)) = Key(n, mid) /\ Key(v, Kids(v)) = Key(n, N)
  <2>1. mid \in 1 .. mid /\ N - mid \in 1 .. N - mid /\ mid + (N - mid) = N
    BY <1>1
  <2>2. QED
    BY <2>1, <1>1
<1>5. Rising(u, b)
  <2>1. \A i \in 1 .. mid : i \in 1 .. N
    BY <1>1
  <2>2. QED
    BY <2>1, <1>1, <1>2 DEF Rising
<1>6. Rising(v, Key(n, mid))
  <2>1. \A i \in 1 .. N - mid : mid + i \in 1 .. N /\ mid < mid + i
    BY <1>1
  <2>2. \A i \in 1 .. N - mid : Key(v, i) \in Int /\ Key(n, mid) < Key(v, i)
    BY <2>1, <1>1, <1>2
  <2>3. ASSUME NEW i \in 1 .. N - mid, NEW j \in 1 .. N - mid, j < i
        PROVE  Key(v, j) < Key(v, i)
    <3>1. mid + j < mid + i
      BY <2>3, <1>1
    <3>2. QED
      BY <3>1, <2>1, <1>1, <1>2
  <2>4. QED
    BY <2>2, <2>3, <1>1, <1>3 DEF Rising
<1>7. ASSUME n.leaf = FALSE
      PROVE  Over(u, b, low) /\ Tops(u, h, x) /\ Over(v, Key(n, mid), low) /\ Tops(v, h, x)
  <2>1. /\ \A i \in 1 .. N :
             /\ low[Kid(n, i)] \in Int /\ b <= low[Kid(n, i)]
             /\ \A j \in 1 .. N : j < i => Key(n, j) <= low[Kid(n, i)]
        /\ \A i \in 1 .. N : Kid(n, i) # x => Key(n, i) = Most(h[Kid(n, i)])
    BY <1>7 DEF Ordered, Over, Tops, N
  <2>2. \A i \in 1 .. mid : i \in 1 .. N
    BY <1>1
  <2>3. \A i \in 1 .. N - mid : mid + i \in 1 .. N /\ mid < mid + i
    BY <1>1
  <2>4. Over(u, b, low)
    BY <2>1, <2>2, <1>1 DEF Over
  <2>5. Tops(u, h, x)
    BY <2>1, <2>2, <1>1 DEF Tops
  <2>6. Tops(v, h, x)
    BY <2>1, <2>3, <1>1 DEF Tops
  <2>7. ASSUME NEW i \in 1 .. N - mid
        PROVE  /\ low[Kid(v, i)] \in Int /\ Key(n, mid) <= low[Kid(v, i)]
               /\ \A j \in 1 .. N - mid : j < i => Key(v, j) <= low[Kid(v, i)]
    <3>1. mid \in 1 .. N
      BY <1>1
    <3>2. low[Kid(v, i)] \in Int /\ Key(n, mid) <= low[Kid(v, i)]
      BY <3>1, <2>1, <2>3, <1>1
    <3>3. ASSUME NEW j \in 1 .. N - mid, j < i
          PROVE  Key(v, j) <= low[Kid(v, i)]
      <4>1. mid + j < mid + i
        BY <3>3, <1>1
      <4>2. QED
        BY <4>1, <2>1, <2>3, <1>1
    <3>4. QED
      BY <3>2, <3>3
  <2>8. Over(v, Key(n, mid), low)
    BY <2>7, <1>1 DEF Over
  <2>9. QED
    BY <2>4, <2>5, <2>6, <2>8
<1>8. Ordered(u, b, h, low, x) /\ Ordered(v, Key(n, mid), h, low, x)
  BY <1>1, <1>5, <1>6, <1>7 DEF Ordered
<1>9. QED
  BY <1>3, <1>4, <1>8 DEF u, v, N, Most

\* Two nodes in order, one after the other: b is the bound of the second one.
Joined(m, u, v, b) ==
    /\ Kids(u) \in Nat /\ Kids(u) > 0 /\ Kids(v) \in Nat /\ Kids(v) > 0 /\ Most(u) <= b
    /\ Concatenated(m, u, v) /\ KeysConcatenated(m, u, v)
    /\ m.leaf = u.leaf /\ v.leaf = u.leaf

LEMMA JoinOrdered ==
    ASSUME NEW h, NEW low, NEW x,
           NEW u, NEW a, Ordered(u, a, h, low, x),
           NEW v, NEW b, Ordered(v, b, h, low, x), NEW m, Joined(m, u, v, b)
    PROVE  Ordered(m, a, h, low, x) /\ Most(m) = Most(v)
<1> USE DEF Joined
<1> DEFINE N == Kids(u)
           M == Kids(v)
<1>1. /\ N \in Nat /\ N > 0 /\ M \in Nat /\ M > 0 /\ Kids(m) = N + M
      /\ \A j \in 1 .. N : Kid(m, j) = Kid(u, j) /\ Key(m, j) = Key(u, j)
      /\ \A j \in 1 .. M : Kid(m, N + j) = Kid(v, j) /\ Key(m, N + j) = Key(v, j)
  BY DEF Concatenated, KeysConcatenated
<1>2. /\ a \in Int
      /\ \A i \in 1 .. N : Key(u, i) \in Int /\ a < Key(u, i)
      /\ \A i, j \in 1 .. N : j < i => Key(u, j) < Key(u, i)
  BY DEF Ordered, Rising
<1>3. /\ b \in Int
      /\ \A i \in 1 .. M : Key(v, i) \in Int /\ b < Key(v, i)
      /\ \A i, j \in 1 .. M : j < i => Key(v, j) < Key(v, i)
  BY DEF Ordered, Rising
<1>4. Key(u, N) <= b
  BY DEF Most
<1> HIDE DEF N, M
<1>5. a < b /\ \A i \in 1 .. N : Key(u, i) <= b
  <2>1. N \in 1 .. N
    BY <1>1
  <2>2. \A i \in 1 .. N : i < N \/ i = N
    BY <1>1
  <2>3. QED
    BY <2>1, <2>2, <1>2, <1>3, <1>4
<1>6. ASSUME NEW i \in 1 .. N + M
      PROVE  i \in 1 .. N \/ \E j \in 1 .. M : i = N + j
  <2>1. CASE i > N
    <3>1. i - N \in 1 .. M /\ i = N + (i - N)
      BY <2>1, <1>1
    <3>2. QED
      BY <3>1
  <2>2. QED
    BY <2>1, <1>1
<1>7. Rising(m, a)
  <2>1. ASSUME NEW i \in 1 .. N + M
        PROVE  Key(m, i) \in Int /\ a < Key(m, i)
    BY <1>1, <1>2, <1>3, <1>5, <1>6
  <2>2. ASSUME NEW i \in 1 .. N + M, NEW j \in 1 .. N + M, j < i
        PROVE  Key(m, j) < Key(m, i)
    <3>1. CASE i \in 1 .. N
      <4>1. j \in 1 .. N
        BY <3>1, <2>2, <1>1
      <4>2. QED
        BY <3>1, <4>1, <2>2, <1>1, <1>2
    <3>2. CASE i \notin 1 .. N
      <4>1. PICK i2 \in 1 .. M : i = N + i2
        BY <3>2, <1>6
      <4>2. Key(m, i) = Key(v, i2) /\ b < Key(v, i2) /\ Key(v, i2) \in Int
        BY <4>1, <1>1, <1>3
      <4>3. CASE j \in 1 .. N
        BY <4>2, <4>3, <1>1, <1>2, <1>3, <1>5
      <4>4. CASE j \notin 1 .. N
        <5>1. PICK j2 \in 1 .. M : j = N + j2
          BY <4>4, <1>6
        <5>2. j2 < i2
          BY <4>1, <5>1, <2>2, <1>1
        <5>3. QED
          BY <5>1, <5>2, <4>1, <1>1, <1>3
      <4>5. QED
        BY <4>3, <4>4
    <3>3. QED
      BY <3>1, <3>2
  <2>3. QED
    BY <2>1, <2>2, <1>1, <1>2 DEF Rising
<1>8. ASSUME m.leaf = FALSE
      PROVE  Over(m, a, low) /\ Tops(m, h, x)
  <2>1. /\ \A i \in 1 .. N :
             /\ low[Kid(u, i)] \in Int /\ a <= low[Kid(u, i)]
             /\ \A j \in 1 .. N : j < i => Key(u, j) <= low[Kid(u, i)]
        /\ \A i \in 1 .. N : Kid(u, i) # x => Key(u, i) = Most(h[Kid(u, i)])
    BY <1>8 DEF Ordered, Over, Tops, N
  <2>2. /\ \A i \in 1 .. M :
             /\ low[Kid(v, i)] \in Int /\ b <= low[Kid(v, i)]
             /\ \A j \in 1 .. M : j < i => Key(v, j) <= low[Kid(v, i)]
        /\ \A i \in 1 .. M : Kid(v, i) # x => Key(v, i) = Most(h[Kid(v, i)])
    BY <1>8 DEF Ordered, Over, Tops, M
  <2>3. Tops(m, h, x)
    BY <2>1, <2>2, <1>1, <1>6 DEF Tops
  <2>4. ASSUME NEW i \in 1 .. N + M
        PROVE  /\ low[Kid(m, i)] \in Int /\ a <= low[Kid(m, i)]
               /\ \A j \in 1 .. N + M : j < i => Key(m, j) <= low[Kid(m, i)]
    <3>1. CASE i \in 1 .. N
      <4>1. ASSUME NEW j \in 1 .. N + M, j < i PROVE j \in 1 .. N
        BY <3>1, <4>1, <1>1
      <4>2. QED
        BY <3>1, <4>1, <2>1, <1>1
    <3>2. CASE i \notin 1 .. N
      <4>1. PICK i2 \in 1 .. M : i = N + i2
        BY <3>2, <1>6
      <4>2. Kid(m, i) = Kid(v, i2) /\ b <= low[Kid(v, i2)] /\ low[Kid(v, i2)] \in Int
        BY <4>1, <2>2, <1>1
      <4>3. ASSUME NEW j \in 1 .. N + M, j < i
            PROVE  Key(m, j) <= low[Kid(v, i2)]
        <5>1. CASE j \in 1 .. N
          BY <5>1, <4>2, <1>1, <1>2, <1>3, <1>5
        <5>2. CASE j \notin 1 .. N
          <6>1. PICK j2 \in 1 .. M : j = N + j2
            BY <5>2, <1>6
          <6>2. j2 < i2
            BY <4>1, <6>1, <4>3, <1>1
          <6>3. QED
            BY <6>1, <6>2, <2>2, <1>1
        <5>3. QED
          BY <5>1, <5>2
      <4>4. QED
        BY <4>2, <4>3, <1>2, <1>3, <1>5
    <3>3. QED
      BY <3>1, <3>2
  <2>5. Over(m, a, low)
    BY <2>4, <1>1 DEF Over
  <2>6. QED
    BY <2>3, <2>5
<1>9. Most(m) = Most(v)
  <2>1. M \in 1 .. M
    BY <1>1
  <2>2. Key(m, N + M) = Key(v, M)
    BY <2>1, <1>1
  <2>3. QED
    BY <2>2, <1>1 DEF Most, M
<1>10. QED
  BY <1>7, <1>8, <1>9 DEF Ordered

\* The caller has updated the key of the child at work, c at i, to its largest
\* one, k.
IsRefresh(m, n, h, low, c, i, k) ==
    /\ n.leaf = FALSE /\ Kids(n) \in Nat /\ i \in 1 .. Kids(n) /\ c = Kid(n, i)
    /\ \A j \in 1 .. Kids(n) : Kid(n, j) = c => j = i
    /\ k \in Int /\ low[c] < k /\ k = Most(h[c])
    /\ k <= Key(n, i) \/ i = Kids(n)
    /\ SameCore(m, n) /\ KeyUpdated(m, n, i, k)

LEMMA RefreshOrdered ==
    ASSUME NEW n, NEW b, NEW h, NEW low, NEW c, Ordered(n, b, h, low, c),
           NEW m, NEW i, NEW k, IsRefresh(m, n, h, low, c, i, k)
    PROVE  /\ Ordered(m, b, h, low, 0)
           /\ i < Kids(n) => Most(m) = Most(n)
           /\ i = Kids(n) => Most(m) = k
<1> DEFINE N == Kids(n)
<1>0. /\ n.leaf = FALSE /\ Kids(n) \in Nat /\ i \in 1 .. Kids(n) /\ c = Kid(n, i)
      /\ \A j \in 1 .. Kids(n) : Kid(n, j) = c => j = i
      /\ k \in Int /\ low[c] < k /\ k = Most(h[c])
      /\ k <= Key(n, i) \/ i = Kids(n)
      /\ SameCore(m, n) /\ KeyUpdated(m, n, i, k)
  BY DEF IsRefresh
<1>1. /\ Kids(m) = N /\ m.leaf = FALSE /\ N \in Nat /\ i \in 1 .. N
      /\ \A j \in 1 .. N : Kid(m, j) = Kid(n, j)
      /\ \A j \in 1 .. N : Key(m, j) = IF j = i THEN k ELSE Key(n, j)
      /\ k <= Key(n, i) \/ i = N
  BY <1>0 DEF SameCore, KeyUpdated
<1>2. /\ b \in Int
      /\ \A j \in 1 .. N : Key(n, j) \in Int /\ b < Key(n, j)
      /\ \A j, l \in 1 .. N : l < j => Key(n, l) < Key(n, j)
      /\ \A j \in 1 .. N :
             /\ low[Kid(n, j)] \in Int /\ b <= low[Kid(n, j)]
             /\ \A l \in 1 .. N : l < j => Key(n, l) <= low[Kid(n, j)]
      /\ \A j \in 1 .. N : Kid(n, j) # c => Key(n, j) = Most(h[Kid(n, j)])
  BY <1>0 DEF Ordered, Rising, Over, Tops
<1>3. b < k /\ \A j \in 1 .. N : j < i => Key(n, j) < k
  BY <1>0, <1>1, <1>2
<1>4. \A j \in 1 .. N : i < j => k < Key(n, j) /\ k <= low[Kid(n, j)]
  BY <1>0, <1>1, <1>2
<1>5. Most(m) = IF i = N THEN k ELSE Most(n)
  BY <1>1 DEF Most
<1> HIDE DEF N
<1>6. Rising(m, b)
  <2>1. \A j \in 1 .. N : Key(m, j) \in Int /\ b < Key(m, j)
    BY <1>0, <1>1, <1>2, <1>3
  <2>2. ASSUME NEW j \in 1 .. N, NEW l \in 1 .. N, l < j
        PROVE  Key(m, l) < Key(m, j)
    BY <2>2, <1>0, <1>1, <1>2, <1>3, <1>4
  <2>3. QED
    BY <2>1, <2>2, <1>1, <1>2 DEF Rising
<1>7. Over(m, b, low)
  <2>1. ASSUME NEW j \in 1 .. N
        PROVE  /\ low[Kid(m, j)] \in Int /\ b <= low[Kid(m, j)]
               /\ \A l \in 1 .. N : l < j => Key(m, l) <= low[Kid(m, j)]
    BY <1>1, <1>2, <1>4
  <2>2. QED
    BY <2>1, <1>1 DEF Over
<1>8. Tops(m, h, 0)
  <2>1. \A j \in 1 .. N : j # i => Kid(n, j) # c
    BY <1>0 DEF N
  <2>2. QED
    BY <2>1, <1>0, <1>1, <1>2 DEF Tops
<1>9. QED
  BY <1>0, <1>1, <1>5, <1>6, <1>7, <1>8 DEF Ordered, N

\* The caller's copy with two children, lo up to k and hi, in place of one.
IsDoubling(m, n, h, low, g, low2, i, k, lo, hi) ==
    /\ IsInner(n) /\ Kids(n) \in Nat /\ i \in 1 .. Kids(n)
    /\ \A j \in 1 .. Kids(n) : Kid(n, j) # 0
    /\ k \in Int /\ low[Kid(n, i)] < k /\ k < Key(n, i)
    /\ IsInner(m) /\ Doubled(m, n, i, lo, hi) /\ KeysGrown(m, n, i, k)
    /\ low2[lo] = low[Kid(n, i)] /\ low2[hi] = k
    /\ k = Most(g[lo]) /\ Key(n, i) = Most(g[hi])
    /\ \A j \in 1 .. Kids(n) : j # i =>
            /\ low2[Kid(n, j)] = low[Kid(n, j)]
            /\ Most(g[Kid(n, j)]) = Most(h[Kid(n, j)])

LEMMA DoubledOrdered ==
    ASSUME NEW n, NEW b, NEW h, NEW low, Ordered(n, b, h, low, 0),
           NEW m, NEW g, NEW low2, NEW i, NEW k, NEW lo, NEW hi,
           IsDoubling(m, n, h, low, g, low2, i, k, lo, hi), NEW x
    PROVE  Ordered(m, b, g, low2, x) /\ Most(m) = Most(n)
<1> USE DEF IsInner, IsDoubling
<1> DEFINE N == Kids(n)
<1>1. /\ Kids(m) = N + 1 /\ N \in Nat /\ i \in 1 .. N
      /\ Kid(m, i) = lo /\ Kid(m, i + 1) = hi
      /\ \A j \in 1 .. N : /\ j < i => Kid(m, j) = Kid(n, j)
                           /\ j > i => Kid(m, j + 1) = Kid(n, j)
  BY DEF Doubled
<1>2. /\ b \in Int
      /\ \A j \in 1 .. N : Key(n, j) \in Int /\ b < Key(n, j)
      /\ \A j, l \in 1 .. N : l < j => Key(n, l) < Key(n, j)
      /\ \A j \in 1 .. N :
             /\ low[Kid(n, j)] \in Int /\ b <= low[Kid(n, j)]
             /\ \A l \in 1 .. N : l < j => Key(n, l) <= low[Kid(n, j)]
      /\ \A j \in 1 .. N : Key(n, j) = Most(h[Kid(n, j)])
  BY DEF Ordered, Rising, Over, Tops
<1>3. Most(n) = Key(n, N)
  BY DEF Most
<1> HIDE DEF N
\* Where the key and the child at j come from.
<1>4. /\ \A j \in 1 .. N + 1 : j < i => Key(m, j) = Key(n, j)
      /\ Key(m, i) = k
      /\ \A j \in i .. N : Key(m, j + 1) = Key(n, j)
  <2>1. \A j \in 1 .. N + 1 :
            Key(m, j) = IF j < i THEN Key(n, j) ELSE IF j = i THEN k ELSE Key(n, j - 1)
    BY DEF KeysGrown, N
  <2>2. ASSUME NEW j \in i .. N PROVE Key(m, j + 1) = Key(n, j)
    <3>1. j + 1 \in 1 .. N + 1 /\ ~(j + 1 < i) /\ j + 1 # i /\ j + 1 - 1 = j
      BY <1>1
    <3>2. QED
      BY <3>1, <2>1
  <2>3. QED
    BY <2>1, <2>2, <1>1
<1>5. ASSUME NEW j \in 1 .. N + 1
      PROVE  \/ j < i /\ j \in 1 .. N
             \/ j = i
             \/ j = i + 1
             \/ \E l \in 1 .. N : l > i /\ j = l + 1
  <2>1. CASE j > i + 1
    <3>1. j - 1 \in 1 .. N /\ j - 1 > i /\ j = (j - 1) + 1
      BY <2>1, <1>1
    <3>2. QED
      BY <3>1
  <2>2. QED
    BY <2>1, <1>1
<1>6. /\ \A j \in 1 .. N : j < i => Key(n, j) < k /\ Key(n, j) <= low[Kid(n, i)]
      /\ b < k /\ b <= low[Kid(n, i)] /\ low[Kid(n, i)] \in Int
      /\ \A j \in 1 .. N : i < j => Key(n, i) <= low[Kid(n, j)]
  BY <1>1, <1>2
<1>7. Rising(m, b)
  <2>1. ASSUME NEW j \in 1 .. N + 1 PROVE Key(m, j) \in Int /\ b < Key(m, j)
    <3>1. CASE j <= i
      <4>1. j = i \/ (j < i /\ j \in 1 .. N)
        BY <3>1, <1>1
      <4>2. QED
        BY <4>1, <1>2, <1>4, <1>6
    <3>2. CASE j > i
      <4>1. j - 1 \in i .. N /\ j = (j - 1) + 1 /\ j - 1 \in 1 .. N
        BY <3>2, <1>1
      <4>2. Key(m, j) = Key(n, j - 1)
        BY <4>1, <1>4
      <4>3. QED
        BY <4>1, <4>2, <1>2
    <3>3. QED
      BY <3>1, <3>2, <1>1
  <2>2. ASSUME NEW j \in 1 .. N + 1, NEW l \in 1 .. N + 1, l < j
        PROVE  Key(m, l) < Key(m, j)
    <3>1. CASE j < i
      <4>1. l < i /\ l \in 1 .. N /\ j \in 1 .. N
        BY <3>1, <2>2, <1>1
      <4>2. QED
        BY <3>1, <4>1, <2>2, <1>2, <1>4
    <3>2. CASE j = i
      <4>1. l < i /\ l \in 1 .. N
        BY <3>2, <2>2, <1>1
      <4>2. QED
        BY <3>2, <4>1, <1>4, <1>6
    <3>3. CASE j > i
      <4>1. PICK j2 \in i .. N : j = j2 + 1
        <5>1. j - 1 \in i .. N /\ j = (j - 1) + 1
          BY <3>3, <1>1
        <5>2. QED
          BY <5>1
      <4>2. Key(m, j) = Key(n, j2) /\ j2 \in 1 .. N
        BY <4>1, <1>1, <1>4
      <4>3. CASE l < i
        <5>1. l \in 1 .. N /\ l < j2
          BY <4>1, <4>3, <1>1
        <5>2. QED
          BY <4>2, <4>3, <5>1, <1>2, <1>4
      <4>4. CASE l = i
        <5>1. j2 = i \/ i < j2
          BY <4>1, <1>1
        <5>2. k < Key(n, j2)
          BY <5>1, <4>2, <1>1, <1>2
        <5>3. QED
          BY <5>2, <4>2, <4>4, <1>4
      <4>5. CASE l > i
        <5>1. l - 1 \in i .. N /\ l = (l - 1) + 1 /\ l - 1 \in 1 .. N /\ l - 1 < j2
          BY <4>1, <4>5, <2>2, <1>1
        <5>2. Key(m, l) = Key(n, l - 1)
          BY <5>1, <1>4
        <5>3. QED
          BY <4>2, <5>1, <5>2, <1>2
      <4>6. QED
        BY <4>3, <4>4, <4>5, <1>1
    <3>4. QED
      BY <3>1, <3>2, <3>3, <1>1
  <2>3. QED
    BY <2>1, <2>2, <1>1, <1>2 DEF Rising
\* Every key before place j is one of n before it, or k.
<1>8. Over(m, b, low2)
  <2>1. ASSUME NEW j \in 1 .. N + 1, NEW l \in 1 .. N + 1, l < j
        PROVE  Key(m, l) <= low2[Kid(m, j)]
    <3>1. CASE j < i
      <4>1. l < i /\ l \in 1 .. N /\ j \in 1 .. N /\ l < j
        BY <3>1, <2>1, <1>1
      <4>2. Kid(m, j) = Kid(n, j) /\ low2[Kid(n, j)] = low[Kid(n, j)]
        BY <3>1, <4>1, <1>1 DEF N
      <4>3. QED
        BY <4>1, <4>2, <1>2, <1>4
    <3>2. CASE j = i
      <4>1. l < i /\ l \in 1 .. N
        BY <3>2, <2>1, <1>1
      <4>2. QED
        BY <3>2, <4>1, <1>1, <1>4, <1>6
    <3>3. CASE j = i + 1
      <4>1. l = i \/ (l < i /\ l \in 1 .. N)
        BY <3>3, <2>1, <1>1
      <4>2. QED
        BY <3>3, <4>1, <1>1, <1>4, <1>6, <1>2
    <3>4. CASE j > i + 1
      <4>1. j - 1 \in 1 .. N /\ j - 1 > i /\ j = (j - 1) + 1
        BY <3>4, <1>1
      <4>2. Kid(m, j) = Kid(n, j - 1)
        BY <4>1, <1>1
      <4>3. low2[Kid(n, j - 1)] = low[Kid(n, j - 1)]
        BY <4>1 DEF N
      <4>4. CASE l < i
        <5>1. l \in 1 .. N /\ l < j - 1
          BY <4>1, <4>4, <1>1
        <5>2. QED
          BY <4>1, <4>2, <4>3, <4>4, <5>1, <1>2, <1>4
      <4>5. CASE l = i
        BY <4>1, <4>2, <4>3, <4>5, <1>1, <1>2, <1>4, <1>6
      <4>6. CASE l > i
        <5>1. l - 1 \in i .. N /\ l = (l - 1) + 1 /\ l - 1 \in 1 .. N /\ l - 1 < j - 1
          BY <4>6, <2>1, <1>1
        <5>2. Key(m, l) = Key(n, l - 1)
          BY <5>1, <1>4
        <5>3. QED
          BY <4>1, <4>2, <4>3, <5>1, <5>2, <1>2
      <4>7. QED
        BY <4>4, <4>5, <4>6, <1>1
    <3>5. QED
      BY <3>1, <3>2, <3>3, <3>4, <1>1
  <2>2. ASSUME NEW j \in 1 .. N + 1
        PROVE  low2[Kid(m, j)] \in Int /\ b <= low2[Kid(m, j)]
    <3>1. CASE j < i /\ j \in 1 .. N
      <4>1. low2[Kid(n, j)] = low[Kid(n, j)]
        BY <3>1, <1>1 DEF N
      <4>2. QED
        BY <3>1, <4>1, <1>1, <1>2
    <3>2. CASE j = i
      BY <3>2, <1>1, <1>6
    <3>3. CASE j = i + 1
      BY <3>3, <1>1, <1>2, <1>6
    <3>4. CASE \E l \in 1 .. N : l > i /\ j = l + 1
      <4>1. PICK l \in 1 .. N : l > i /\ j = l + 1
        BY <3>4
      <4>2. low2[Kid(n, l)] = low[Kid(n, l)]
        BY <4>1, <1>1 DEF N
      <4>3. QED
        BY <4>1, <4>2, <1>1, <1>2
    <3>5. QED
      BY <3>1, <3>2, <3>3, <3>4, <1>5
  <2>3. QED
    BY <2>1, <2>2, <1>1 DEF Over
<1>9. Tops(m, g, x)
  <2>1. ASSUME NEW j \in 1 .. N + 1
        PROVE  Key(m, j) = Most(g[Kid(m, j)])
    <3>1. CASE j < i /\ j \in 1 .. N
      <4>1. Most(g[Kid(n, j)]) = Most(h[Kid(n, j)])
        BY <3>1, <1>1 DEF N
      <4>2. QED
        BY <3>1, <4>1, <1>1, <1>2, <1>4
    <3>2. CASE j = i
      BY <3>2, <1>1, <1>4
    <3>3. CASE j = i + 1
      <4>1. i \in i .. N
        BY <1>1
      <4>2. QED
        BY <3>3, <4>1, <1>1, <1>4
    <3>4. CASE \E l \in 1 .. N : l > i /\ j = l + 1
      <4>1. PICK l \in 1 .. N : l > i /\ j = l + 1
        BY <3>4
      <4>2. Most(g[Kid(n, l)]) = Most(h[Kid(n, l)]) /\ l \in i .. N
        BY <4>1, <1>1 DEF N
      <4>3. QED
        BY <4>1, <4>2, <1>1, <1>2, <1>4
    <3>5. QED
      BY <3>1, <3>2, <3>3, <3>4, <1>5
  <2>2. QED
    BY <2>1, <1>1 DEF Tops
<1>10. Most(m) = Most(n)
  <2>1. N \in i .. N
    BY <1>1
  <2>2. QED
    BY <2>1, <1>1, <1>3, <1>4 DEF Most
<1>11. QED
  BY <1>7, <1>8, <1>9, <1>10 DEF Ordered

\* The caller's copy with a new key e between two neighbours that have shared
\* their keys anew.
IsSharing(m, n, h, low, g, low2, i, e) ==
    /\ IsInner(n) /\ Kids(n) \in Nat /\ i \in 1 .. Kids(n) /\ i + 1 \in 1 .. Kids(n)
    /\ \A j \in 1 .. Kids(n) : Kid(n, j) # 0
    /\ e \in Int /\ low[Kid(n, i)] < e /\ e < Key(n, i + 1)
    /\ SameCore(m, n) /\ KeyUpdated(m, n, i, e)
    /\ low2[Kid(n, i)] = low[Kid(n, i)] /\ low2[Kid(n, i + 1)] = e
    /\ e = Most(g[Kid(n, i)]) /\ Key(n, i + 1) = Most(g[Kid(n, i + 1)])
    /\ \A j \in 1 .. Kids(n) : j \notin {i, i + 1} =>
            /\ low2[Kid(n, j)] = low[Kid(n, j)]
            /\ Most(g[Kid(n, j)]) = Most(h[Kid(n, j)])

LEMMA SharedOrdered ==
    ASSUME NEW n, NEW b, NEW h, NEW low, Ordered(n, b, h, low, 0),
           NEW m, NEW g, NEW low2, NEW i, NEW e, IsSharing(m, n, h, low, g, low2, i, e), NEW x
    PROVE  Ordered(m, b, g, low2, x) /\ Most(m) = Most(n)
<1> USE DEF IsInner, IsSharing
<1> DEFINE N == Kids(n)
<1>1. /\ Kids(m) = N /\ m.leaf = FALSE /\ N \in Nat /\ i \in 1 .. N /\ i + 1 \in 1 .. N
      /\ \A j \in 1 .. N : Kid(m, j) = Kid(n, j)
      /\ \A j \in 1 .. N : Key(m, j) = IF j = i THEN e ELSE Key(n, j)
  BY DEF SameCore, KeyUpdated
<1>2. /\ b \in Int
      /\ \A j \in 1 .. N : Key(n, j) \in Int /\ b < Key(n, j)
      /\ \A j, l \in 1 .. N : l < j => Key(n, l) < Key(n, j)
      /\ \A j \in 1 .. N :
             /\ low[Kid(n, j)] \in Int /\ b <= low[Kid(n, j)]
             /\ \A l \in 1 .. N : l < j => Key(n, l) <= low[Kid(n, j)]
      /\ \A j \in 1 .. N : Key(n, j) = Most(h[Kid(n, j)])
  BY DEF Ordered, Rising, Over, Tops
<1>3. Most(n) = Key(n, N) /\ Most(m) = Key(m, N)
  BY <1>1 DEF Most
<1> HIDE DEF N
<1>4. /\ b < e /\ \A j \in 1 .. N : j < i => Key(n, j) < e
      /\ \A j \in 1 .. N : j > i => e < Key(n, j)
      /\ \A j \in 1 .. N : j > i + 1 => e < low[Kid(n, j)]
  <2>1. b < e /\ \A j \in 1 .. N : j < i => Key(n, j) < e
    BY <1>1, <1>2
  <2>2. ASSUME NEW j \in 1 .. N, j > i PROVE e < Key(n, j)
    <3>1. j = i + 1 \/ i + 1 < j
      BY <2>2, <1>1
    <3>2. QED
      BY <3>1, <1>1, <1>2
  <2>3. ASSUME NEW j \in 1 .. N, j > i + 1 PROVE e < low[Kid(n, j)]
    <3>1. Key(n, i + 1) <= low[Kid(n, j)] /\ low[Kid(n, j)] \in Int /\ Key(n, i + 1) \in Int
      BY <2>3, <1>1, <1>2
    <3>2. QED
      BY <3>1
  <2>4. QED
    BY <2>1, <2>2, <2>3
<1>5. Rising(m, b)
  <2>1. \A j \in 1 .. N : Key(m, j) \in Int /\ b < Key(m, j)
    BY <1>1, <1>2, <1>4
  <2>2. ASSUME NEW j \in 1 .. N, NEW l \in 1 .. N, l < j
        PROVE  Key(m, l) < Key(m, j)
    BY <2>2, <1>1, <1>2, <1>4
  <2>3. QED
    BY <2>1, <2>2, <1>1, <1>2 DEF Rising
<1>6. Over(m, b, low2)
  <2>1. ASSUME NEW j \in 1 .. N
        PROVE  /\ low2[Kid(n, j)] \in Int /\ b <= low2[Kid(n, j)]
               /\ \A l \in 1 .. N : l < j => Key(m, l) <= low2[Kid(n, j)]
    <3>1. CASE j = i + 1
      <4>1. low2[Kid(n, j)] = e
        BY <3>1
      <4>2. ASSUME NEW l \in 1 .. N, l < j PROVE Key(m, l) <= e
        <5>1. l = i \/ l < i
          BY <4>2, <3>1, <1>1
        <5>2. QED
          BY <5>1, <1>1, <1>2, <1>4
      <4>3. QED
        BY <4>1, <4>2, <1>2, <1>4
    <3>2. CASE j # i + 1
      <4>1. low2[Kid(n, j)] = low[Kid(n, j)]
        BY <3>2 DEF N
      <4>2. ASSUME NEW l \in 1 .. N, l < j PROVE Key(m, l) <= low[Kid(n, j)]
        <5>1. CASE l = i
          <6>1. j > i + 1
            BY <5>1, <4>2, <3>2, <1>1
          <6>2. QED
            BY <5>1, <6>1, <1>1, <1>2, <1>4
        <5>2. CASE l # i
          BY <5>2, <4>2, <1>1, <1>2
        <5>3. QED
          BY <5>1, <5>2
      <4>3. QED
        BY <4>1, <4>2, <1>2
    <3>3. QED
      BY <3>1, <3>2
  <2>2. QED
    BY <2>1, <1>1 DEF Over
<1>7. Tops(m, g, x)
  <2>1. ASSUME NEW j \in 1 .. N PROVE Key(m, j) = Most(g[Kid(n, j)])
    <3>1. CASE j \notin {i, i + 1}
      <4>1. Most(g[Kid(n, j)]) = Most(h[Kid(n, j)])
        BY <3>1 DEF N
      <4>2. QED
        BY <3>1, <4>1, <1>1, <1>2
    <3>2. CASE j \in {i, i + 1}
      BY <3>2, <1>1
    <3>3. QED
      BY <3>1, <3>2
  <2>2. QED
    BY <2>1, <1>1 DEF Tops
<1>8. Most(m) = Most(n)
  BY <1>1, <1>3
<1>9. QED
  BY <1>1, <1>5, <1>6, <1>7, <1>8 DEF Ordered

\* The caller's copy after a join: the key at i goes with the child after it.
IsShrinking(m, n, h, g, i) ==
    /\ IsInner(n) /\ Kids(n) \in Nat /\ i \in 1 .. Kids(n) /\ i + 1 \in 1 .. Kids(n)
    /\ \A j \in 1 .. Kids(n) : Kid(n, j) # 0
    /\ IsInner(m) /\ Shrunk(m, n, i + 1) /\ KeysShrunk(m, n, i)
    /\ Key(n, i + 1) = Most(g[Kid(n, i)])
    /\ \A j \in 1 .. Kids(n) : j \notin {i, i + 1} => Most(g[Kid(n, j)]) = Most(h[Kid(n, j)])

LEMMA ShrunkOrdered ==
    ASSUME NEW n, NEW b, NEW h, NEW low, Ordered(n, b, h, low, 0),
           NEW m, NEW g, NEW i, IsShrinking(m, n, h, g, i), NEW x
    PROVE  Ordered(m, b, g, low, x) /\ Most(m) = Most(n)
<1> USE DEF IsInner, IsShrinking
<1> DEFINE N == Kids(n)
<1>1. /\ Kids(m) = N - 1 /\ N \in Nat /\ i \in 1 .. N - 1
      /\ \A j \in 1 .. N - 1 : Kid(m, j) = IF j < i + 1 THEN Kid(n, j) ELSE Kid(n, j + 1)
      /\ \A j \in 1 .. N - 1 : Key(m, j) = IF j < i THEN Key(n, j) ELSE Key(n, j + 1)
  BY DEF Shrunk, KeysShrunk
<1>2. /\ b \in Int
      /\ \A j \in 1 .. N : Key(n, j) \in Int /\ b < Key(n, j)
      /\ \A j, l \in 1 .. N : l < j => Key(n, l) < Key(n, j)
      /\ \A j \in 1 .. N :
             /\ low[Kid(n, j)] \in Int /\ b <= low[Kid(n, j)]
             /\ \A l \in 1 .. N : l < j => Key(n, l) <= low[Kid(n, j)]
      /\ \A j \in 1 .. N : Key(n, j) = Most(h[Kid(n, j)])
  BY DEF Ordered, Rising, Over, Tops
<1>3. Most(n) = Key(n, N) /\ Most(m) = Key(m, N - 1)
  BY <1>1 DEF Most
<1> HIDE DEF N
<1>4. \A j \in 1 .. N - 1 : j \in 1 .. N /\ j + 1 \in 1 .. N
  BY <1>1
<1>5. Rising(m, b)
  <2>1. \A j \in 1 .. N - 1 : Key(m, j) \in Int /\ b < Key(m, j)
    BY <1>1, <1>2, <1>4
  <2>2. ASSUME NEW j \in 1 .. N - 1, NEW l \in 1 .. N - 1, l < j
        PROVE  Key(m, l) < Key(m, j)
    BY <2>2, <1>1, <1>2, <1>4
  <2>3. QED
    BY <2>1, <2>2, <1>1, <1>2 DEF Rising
<1>6. Over(m, b, low)
  <2>1. ASSUME NEW j \in 1 .. N - 1
        PROVE  /\ low[Kid(m, j)] \in Int /\ b <= low[Kid(m, j)]
    BY <1>1, <1>2, <1>4
  <2>2. ASSUME NEW j \in 1 .. N - 1, NEW l \in 1 .. N - 1, l < j
        PROVE  Key(m, l) <= low[Kid(m, j)]
    <3>1. CASE j < i + 1
      <4>1. Kid(m, j) = Kid(n, j) /\ Key(m, l) = Key(n, l)
        BY <3>1, <2>2, <1>1
      <4>2. QED
        BY <4>1, <2>2, <1>2, <1>4
    <3>2. CASE ~ j < i + 1
      <4>1. Kid(m, j) = Kid(n, j + 1)
        BY <3>2, <1>1
      <4>2. PICK l2 \in {l, l + 1} : Key(m, l) = Key(n, l2)
        BY <1>1
      <4>3. l2 \in 1 .. N /\ l2 < j + 1 /\ j + 1 \in 1 .. N
        BY <4>2, <2>2, <1>4
      <4>4. QED
        BY <4>1, <4>2, <4>3, <1>2
    <3>3. QED
      BY <3>1, <3>2
  <2>3. QED
    BY <2>1, <2>2, <1>1, <1>2 DEF Over
<1>7. Tops(m, g, x)
  <2>1. ASSUME NEW j \in 1 .. N - 1 PROVE Key(m, j) = Most(g[Kid(m, j)])
    <3>1. CASE j = i
      BY <3>1, <1>1
    <3>2. CASE j < i
      <4>1. Most(g[Kid(n, j)]) = Most(h[Kid(n, j)])
        BY <3>2, <1>1, <1>4 DEF N
      <4>2. QED
        BY <3>2, <4>1, <1>1, <1>2, <1>4
    <3>3. CASE j > i
      <4>1. Most(g[Kid(n, j + 1)]) = Most(h[Kid(n, j + 1)])
        <5>1. j + 1 \in 1 .. N /\ j + 1 \notin {i, i + 1}
          BY <3>3, <1>1, <1>4
        <5>2. QED
          BY <5>1 DEF N
      <4>2. QED
        BY <3>3, <4>1, <1>1, <1>2, <1>4
    <3>4. QED
      BY <3>1, <3>2, <3>3, <1>1
  <2>2. QED
    BY <2>1, <1>1 DEF Tops
<1>8. Most(m) = Most(n)
  BY <1>1, <1>3
<1>9. QED
  BY <1>1, <1>5, <1>6, <1>7, <1>8 DEF Ordered

-------------------------------------------------------------------------------
\* The pairs of a key and a value id in the leaves.
PairsOf(n) == {<<Key(n, i), Kid(n, i)>> : i \in 1 .. Kids(n)}

Own(n) == IF n.leaf THEN PairsOf(n) ELSE {}

EntriesAt(h, live) == UNION {Own(h[a]) : a \in live}

LEMMA SameOwn ==
    ASSUME NEW m, NEW n, SameBody(m, n)
    PROVE  Own(m) = Own(n) /\ Most(m) = Most(n)
<1>1. /\ Kids(m) = Kids(n) /\ m.leaf = n.leaf /\ m.keys = n.keys
      /\ \A i \in 1 .. Kids(n) : Kid(m, i) = Kid(n, i)
  BY DEF SameBody, SameCore
<1>2. PairsOf(m) = PairsOf(n)
  BY <1>1 DEF PairsOf, Key
<1>3. QED
  BY <1>1, <1>2 DEF Own, Most, Key

LEMMA OwnHalved ==
    ASSUME NEW pair, NEW n, NEW mid, Halved(pair, n, mid)
    PROVE  Own(pair[1]) \cup Own(pair[2]) = Own(n)
<1> DEFINE u == pair[1]
           v == pair[2]
           N == Kids(n)
<1>1. /\ N \in Nat /\ mid \in 1 .. N - 1 /\ mid \in Int
      /\ Kids(u) = mid /\ Kids(v) = N - mid
      /\ \A j \in 1 .. mid : Kid(u, j) = Kid(n, j) /\ Key(u, j) = Key(n, j)
      /\ \A j \in 1 .. N - mid : Kid(v, j) = Kid(n, mid + j) /\ Key(v, j) = Key(n, mid + j)
      /\ u.leaf = n.leaf /\ v.leaf = n.leaf
  BY DEF Halved, Shared, KeysShared
<1> HIDE DEF u, v, N
<1>2. /\ \A j \in 1 .. mid : j \in 1 .. N
      /\ \A j \in 1 .. N - mid : mid + j \in 1 .. N
  BY <1>1
<1>3. ASSUME NEW i \in 1 .. N
      PROVE  i \in 1 .. mid \/ \E j \in 1 .. N - mid : i = mid + j
  <2>1. CASE i > mid
    <3>1. i - mid \in 1 .. N - mid /\ i = mid + (i - mid)
      BY <2>1, <1>1
    <3>2. QED
      BY <3>1
  <2>2. QED
    BY <2>1, <1>1
<1>4. PairsOf(u) \cup PairsOf(v) = {<<Key(n, i), Kid(n, i)>> : i \in 1 .. N}
  <2>1. PairsOf(u) = {<<Key(n, j), Kid(n, j)>> : j \in 1 .. mid}
    BY <1>1 DEF PairsOf
  <2>2. PairsOf(v) = {<<Key(n, mid + j), Kid(n, mid + j)>> : j \in 1 .. N - mid}
    BY <1>1 DEF PairsOf
  <2>3. QED
    BY <2>1, <2>2, <1>2, <1>3
<1>5. QED
  BY <1>1, <1>4 DEF Own, PairsOf, u, v, N

LEMMA OwnJoined ==
    ASSUME NEW m, NEW u, NEW v, NEW b, Joined(m, u, v, b)
    PROVE  Own(m) = Own(u) \cup Own(v)
<1> USE DEF Joined
<1> DEFINE N == Kids(u)
           M == Kids(v)
<1>1. /\ N \in Nat /\ M \in Nat /\ Kids(m) = N + M
      /\ \A j \in 1 .. N : Kid(m, j) = Kid(u, j) /\ Key(m, j) = Key(u, j)
      /\ \A j \in 1 .. M : Kid(m, N + j) = Kid(v, j) /\ Key(m, N + j) = Key(v, j)
  BY DEF Concatenated, KeysConcatenated
<1> HIDE DEF N, M
<1>2. /\ \A j \in 1 .. N : j \in 1 .. N + M
      /\ \A j \in 1 .. M : N + j \in 1 .. N + M
  BY <1>1
<1>3. ASSUME NEW i \in 1 .. N + M
      PROVE  i \in 1 .. N \/ \E j \in 1 .. M : i = N + j
  <2>1. CASE i > N
    <3>1. i - N \in 1 .. M /\ i = N + (i - N)
      BY <2>1, <1>1
    <3>2. QED
      BY <3>1
  <2>2. QED
    BY <2>1, <1>1
<1>4. PairsOf(m) = {<<Key(u, i), Kid(u, i)>> : i \in 1 .. N}
                       \cup {<<Key(v, i), Kid(v, i)>> : i \in 1 .. M}
  <2>1. PairsOf(m) = {<<Key(m, i), Kid(m, i)>> : i \in 1 .. N + M}
    BY <1>1 DEF PairsOf
  <2>2. /\ {<<Key(u, i), Kid(u, i)>> : i \in 1 .. N} = {<<Key(m, i), Kid(m, i)>> : i \in 1 .. N}
        /\ {<<Key(v, i), Kid(v, i)>> : i \in 1 .. M}
               = {<<Key(m, N + i), Kid(m, N + i)>> : i \in 1 .. M}
    BY <1>1
  <2>3. QED
    BY <2>1, <2>2, <1>2, <1>3
<1>5. QED
  BY <1>4 DEF Own, PairsOf, N, M

LEMMA EntriesOfBoth ==
    ASSUME NEW h, NEW A, NEW B
    PROVE  EntriesAt(h, A \cup B) = EntriesAt(h, A) \cup EntriesAt(h, B)
BY DEF EntriesAt

\* Only the nodes of T have changed, to those of T2, and hold the same pairs.
LEMMA EntriesStay ==
    ASSUME NEW h, NEW g, NEW live, NEW live2, NEW T, NEW T2,
           T \subseteq live, T2 \subseteq live2, live \ T = live2 \ T2,
           \A a \in live \ T : Own(g[a]) = Own(h[a]),
           EntriesAt(g, T2) = EntriesAt(h, T)
    PROVE  EntriesAt(g, live2) = EntriesAt(h, live)
<1> DEFINE same == live \ T
<1>1. live = T \cup same /\ live2 = T2 \cup same
  OBVIOUS
<1>2. \A a \in same : Own(g[a]) = Own(h[a])
  OBVIOUS
<1> HIDE DEF same
<1>3. EntriesAt(g, same) = EntriesAt(h, same)
  <2>1. {Own(g[a]) : a \in same} = {Own(h[a]) : a \in same}
    BY <1>2
  <2>2. QED
    BY <2>1 DEF EntriesAt
<1>4. EntriesAt(g, T2 \cup same) = EntriesAt(g, T2) \cup EntriesAt(g, same)
  BY EntriesOfBoth
<1>5. EntriesAt(h, T \cup same) = EntriesAt(h, T) \cup EntriesAt(h, same)
  BY EntriesOfBoth
<1>6. QED
  BY <1>1, <1>3, <1>4, <1>5

-------------------------------------------------------------------------------
\* Heaps in order; x is the node at work on the way up, 0 if there is none.
Order(h, live, low, x) ==
    low \in [Int -> Int] /\ \A a \in live : Ordered(h[a], low[a], h, low, x)

\* The nodes p and those of T, children of p, may change; so may the largest
\* keys of their own, and the bounds of T.  All others stay, and stay in order.
Around(h, g, live, low, low2, p, T) ==
    /\ \A a \in live \ (T \cup {p}) : SameBody(g[a], h[a]) /\ low2[a] = low[a]
    /\ p # 0 => low2[p] = low[p]

LEMMA OthersOrdered ==
    ASSUME NEW h, NEW live, NEW height, NEW up, NEW pos, Linked(h, live, height, up, pos),
           NEW low, NEW c, Order(h, live, low, c),
           NEW g, NEW low2, NEW p, NEW T, Around(h, g, live, low, low2, p, T),
           c = 0 \/ up[c] = p, \A t \in T : up[t] = p,
           NEW a \in live \ (T \cup {p})
    PROVE  Ordered(g[a], low2[a], g, low2, p)
<1> DEFINE n == h[a]
<1>1. Ordered(n, low[a], h, low, c)
  BY DEF Order
<1>2. SameBody(g[a], n) /\ low2[a] = low[a]
  BY DEF Around
<1>3. ASSUME IsInner(n) PROVE Unmoved(n, h, low, c, g, low2, p)
  <2>1. ASSUME NEW i \in 1 .. Kids(n)
        PROVE  /\ low2[Kid(n, i)] = low[Kid(n, i)]
               /\ Kid(n, i) # p => Kid(n, i) # c /\ Most(g[Kid(n, i)]) = Most(h[Kid(n, i)])
    <3> DEFINE b == Kid(n, i)
    <3>1. LinkedAt(n, a, live, height, up, pos)
      BY DEF Linked
    <3>2. b \in live \ {0} /\ up[b] = a
      BY <1>3, <3>1 DEF LinkedAt, IsInner
    <3> HIDE DEF b
    <3>3. b \notin T /\ b # c
      BY <3>2
    <3>4. low2[b] = low[b]
      BY <3>2, <3>3 DEF Around
    <3>5. b # p => SameBody(g[b], h[b])
      BY <3>2, <3>3 DEF Around
    <3>6. b # p => Most(g[b]) = Most(h[b])
      BY <3>5, SameOwn
    <3>7. QED
      BY <3>3, <3>4, <3>6 DEF b
  <2>2. QED
    BY <2>1 DEF Unmoved
<1> HIDE DEF n
<1>4. Ordered(g[a], low[a], g, low2, p)
  BY <1>1, <1>2, <1>3, OrderedMoves
<1>5. QED
  BY <1>2, <1>4

\* A node whose children are two rows below p: they have not changed.
LEMMA LowerOrdered ==
    ASSUME NEW h, NEW live, NEW height, NEW up, NEW pos, Linked(h, live, height, up, pos),
           NEW g, NEW low, NEW low2, NEW p, NEW T, Around(h, g, live, low, low2, p, T),
           NEW c \in T, p \in live, \A t \in T : height[t] + 1 = height[p],
           NEW n, NEW b, Ordered(n, b, h, low, c),
           IsInner(n) => \A i \in 1 .. Kids(n) :
                                Kid(n, i) \in live /\ height[Kid(n, i)] + 2 = height[p],
           NEW m, SameBody(m, n), NEW x
    PROVE  Ordered(m, b, g, low2, x)
<1> USE DEF IsInner
<1>1. ASSUME n.leaf = FALSE PROVE Unmoved(n, h, low, c, g, low2, x)
  <2>1. ASSUME NEW i \in 1 .. Kids(n)
        PROVE  /\ low2[Kid(n, i)] = low[Kid(n, i)]
               /\ Kid(n, i) # c /\ Most(g[Kid(n, i)]) = Most(h[Kid(n, i)])
    <3> DEFINE d == Kid(n, i)
    <3>1. d \in live /\ height[d] + 2 = height[p]
      BY <1>1
    <3> HIDE DEF d
    <3>2. height \in [Int -> Nat] /\ live \subseteq Int
      BY DEF Linked
    <3>3. height[d] \in Nat /\ height[p] \in Nat
      BY <3>1, <3>2
    <3>4. d \notin T /\ d # p
      BY <3>1, <3>3
    <3>5. SameBody(g[d], h[d]) /\ low2[d] = low[d]
      BY <3>1, <3>4 DEF Around
    <3>6. Most(g[d]) = Most(h[d])
      BY <3>5, SameOwn
    <3>7. QED
      BY <3>4, <3>5, <3>6 DEF d
  <2>2. QED
    BY <2>1 DEF Unmoved
<1>2. QED
  BY <1>1, OrderedMoves

\* The children of a child t of p are two rows below p.
LEMMA TwoRowsBelow ==
    ASSUME NEW h, NEW live, NEW height, NEW up, NEW pos, Linked(h, live, height, up, pos),
           NEW p \in live, NEW t \in live, height[t] + 1 = height[p], IsInner(h[t]),
           NEW i \in 1 .. Kids(h[t])
    PROVE  Kid(h[t], i) \in live /\ height[Kid(h[t], i)] + 2 = height[p]
<1> USE DEF IsInner
<1>1. LinkedAt(h[t], t, live, height, up, pos) /\ height \in [Int -> Nat] /\ live \subseteq Int
  BY DEF Linked
<1>2. Kid(h[t], i) \in live /\ height[Kid(h[t], i)] + 1 = height[t]
  BY <1>1 DEF LinkedAt
<1>3. height[Kid(h[t], i)] \in Nat /\ height[t] \in Nat /\ height[p] \in Nat
  BY <1>1, <1>2
<1>4. QED
  BY <1>2, <1>3

\* The frames of path q have the keys of their nodes, and k, the key of the
\* call, is not above the key of the child each has gone to, unless that is the
\* last child.
GuidedAt(frame, h, k) ==
    /\ frame.node.keys = h[frame.node.id].keys
    /\ frame.index < Kids(frame.node) => k <= Key(frame.node, frame.index)

Guided(h, q, k) == \A i \in 1 .. Len(q) : GuidedAt(q[i], h, k)

\* On the way up: the largest key of the node at work is not above the one its
\* caller has for it, or it is k.
UpTo(a, b, k) == a <= b \/ a = k

Edged(h, q, k) ==
    q # <<>> => UpTo(Most(h[Cur(q)]), Key(q[Len(q)].node, q[Len(q)].index), k)

\* The caller's copy with the key of its child as it is now.
IsRefreshed(par, h, q) ==
    LET frame == q[Len(q)] IN
    /\ SameCore(par, frame.node)
    /\ KeyUpdated(par, frame.node, frame.index, Most(h[Cur(q)]))

Refreshed(par, h, low, q, p, k) ==
    /\ Ordered(par, low[p], h, low, 0) /\ SameCore(par, h[p])
    /\ Most(h[Cur(q)]) \in Int /\ low[Cur(q)] < Most(h[Cur(q)])
    /\ UpTo(Most(par), Most(h[p]), k)

LEMMA CallerRefreshed ==
    ASSUME NEW h, NEW live, NEW height, NEW up, NEW pos, Linked(h, live, height, up, pos),
           NEW q, Chain(q, h, live, height), q # <<>>,
           NEW low, Order(h, live, low, Cur(q)), NEW k \in Int,
           Guided(h, q, k), Edged(h, q, k), Kids(h[Cur(q)]) # 0,
           NEW par, IsRefreshed(par, h, q), NEW p, p = q[Len(q)].node.id
    PROVE  Refreshed(par, h, low, q, p, k)
<1> DEFINE frame == q[Len(q)]
           i == frame.index
           c == Cur(q)
           n == h[p]
           e == Most(h[c])
<1>1. LastFrame(h, q, live, height, up, pos, p, i, c)
  BY LastFrameProperties
<1>2. /\ p \in live /\ n.leaf = FALSE /\ SameCore(frame.node, n)
      /\ i \in 1 .. Kids(n) /\ Kids(n) \in Nat /\ c = Kid(n, i)
      /\ \A j \in 1 .. Kids(n) : Kid(n, j) \in live \ {0} /\ pos[Kid(n, j)] = j
  BY <1>1 DEF LastFrame
<1>3. /\ SameCore(par, frame.node) /\ KeyUpdated(par, frame.node, i, e)
      /\ e <= Key(frame.node, i) \/ e = k
      /\ Kids(h[c]) # 0
  BY DEF IsRefreshed, Edged, UpTo
<1>4. GuidedAt(frame, h, k)
  <2>1. Len(q) \in 1 .. Len(q)
    BY FrontFrames DEF Chain
  <2>2. QED
    BY <2>1 DEF Guided
<1>5. frame.node.keys = n.keys /\ (i < Kids(frame.node) => k <= Key(frame.node, i))
  BY <1>4 DEF GuidedAt
<1>6. c \in live \ {0}
  BY <1>2
<1>7. Ordered(n, low[p], h, low, c) /\ Ordered(h[c], low[c], h, low, c)
  BY <1>2, <1>6 DEF Order
<1>8. LinkedAt(h[c], c, live, height, up, pos)
  BY <1>6 DEF Linked
<1> HIDE DEF frame, i, c, n, e
<1>9. e \in Int /\ low[c] < e
  <2>1. Kids(h[c]) \in 1 .. Kids(h[c])
    BY <1>3, <1>8 DEF LinkedAt
  <2>2. QED
    BY <2>1, <1>7 DEF Ordered, Rising, Most, e
<1>10. SameCore(par, n) /\ KeyUpdated(par, n, i, e)
  <2>1. SameCore(par, n)
    BY <1>2, <1>3, SameCoreTransitive
  <2>2. Kids(frame.node) = Kids(n)
    BY <1>2 DEF SameCore
  <2>3. KeyUpdated(par, n, i, e)
    BY <2>2, <1>3, <1>5 DEF KeyUpdated, Key
  <2>4. QED
    BY <2>1, <2>3
<1>11. e <= Key(n, i) \/ e = k
  BY <1>3, <1>5 DEF Key
<1>12. e <= Key(n, i) \/ i = Kids(n)
  <2>1. Kids(frame.node) = Kids(n)
    BY <1>2 DEF SameCore
  <2>2. i < Kids(n) => k <= Key(n, i)
    BY <2>1, <1>5 DEF Key
  <2>3. QED
    BY <2>2, <1>2, <1>11
<1>13. \A j \in 1 .. Kids(n) : Kid(n, j) = c => j = i
  BY <1>2
<1>14. /\ Ordered(par, low[p], h, low, 0)
       /\ i < Kids(n) => Most(par) = Most(n)
       /\ i = Kids(n) => Most(par) = e
  <2>1. IsRefresh(par, n, h, low, c, i, e)
    BY <1>2, <1>9, <1>10, <1>12, <1>13 DEF IsRefresh, e
  <2>2. QED
    BY <2>1, <1>7, RefreshOrdered
<1>15. Most(par) <= Most(n) \/ Most(par) = k
  <2>1. CASE i < Kids(n)
    <3>1. Kids(n) \in 1 .. Kids(n)
      BY <1>2
    <3>2. Most(n) \in Int
      BY <3>1, <1>7 DEF Ordered, Rising, Most
    <3>3. QED
      BY <3>2, <2>1, <1>14
  <2>2. CASE i = Kids(n)
    BY <2>2, <1>11, <1>14 DEF Most
  <2>3. QED
    BY <2>1, <2>2, <1>2
<1>16. QED
  BY <1>9, <1>10, <1>14, <1>15 DEF n, c, e, Refreshed, UpTo

\* The frames above the caller: their nodes have not changed.
LEMMA CallersAbove ==
    ASSUME NEW h, NEW live, NEW height, NEW up, NEW pos, Linked(h, live, height, up, pos),
           NEW q, Chain(q, h, live, height), q # <<>>,
           NEW low, Order(h, live, low, Cur(q)), NEW k, Guided(h, q, k),
           NEW p, p = q[Len(q)].node.id,
           NEW g, \A a \in live : height[a] > height[p] => SameBody(g[a], h[a]),
           UpTo(Most(g[p]), Most(h[p]), k)
    PROVE  Guided(g, Front(q), k) /\ Edged(g, Front(q), k)
<1> DEFINE f == Front(q)
           m == Len(q)
           c == Cur(q)
<1>1. /\ q \in Seq(Frames)
      /\ \A i \in 1 .. m : OnPath(q, i, h, live, height)
  BY DEF Chain
<1>2. /\ m \in Nat /\ m >= 1 /\ Len(f) = m - 1
      /\ \A i \in 1 .. m - 1 : f[i] = q[i]
      /\ f \in Seq(Frames)
  BY <1>1, FrontFrames
<1>3. Cur(f) = p
  <2>1. \A a \in live : SameCore(h[a], h[a])
    BY DEF SameCore
  <2>2. QED
    BY <2>1, ChainFront
<1>4. LastFrame(h, q, live, height, up, pos, p, q[m].index, c)
  BY LastFrameProperties
<1>5. p \in live /\ c \in live /\ height[c] + 1 = height[p]
  BY <1>4 DEF LastFrame
<1>6. 0 \in live /\ live \subseteq Int /\ height \in [Int -> Nat]
  BY DEF Linked
<1> HIDE DEF f, m, c
<1>7. p # c
  <2>1. height[p] \in Nat /\ height[c] \in Nat
    BY <1>5, <1>6
  <2>2. QED
    BY <2>1, <1>5
<1>8. height[p] + m = height[0] + 1
  <2>1. m \in 1 .. m
    BY <1>2
  <2>2. QED
    BY <2>1, <1>1 DEF OnPath, Framed, m
<1>9. ASSUME NEW i \in 1 .. m - 1
      PROVE  /\ q[i].node.id \in live /\ SameBody(g[q[i].node.id], h[q[i].node.id])
             /\ GuidedAt(q[i], h, k) /\ OnPath(q, i, h, live, height)
  <2> DEFINE a == q[i].node.id
  <2>1. i \in 1 .. m /\ OnPath(q, i, h, live, height) /\ GuidedAt(q[i], h, k)
    <3>1. i \in 1 .. m
      BY <1>2
    <3>2. QED
      BY <3>1, <1>1 DEF Guided, m
  <2>2. a \in live /\ height[a] + i = height[0] + 1
    BY <2>1 DEF OnPath, Framed
  <2> HIDE DEF a
  <2>3. height[a] > height[p]
    <3>1. height[a] \in Nat /\ height[p] \in Nat /\ height[0] \in Nat
      BY <2>2, <1>5, <1>6
    <3>2. i \in Int /\ i < m
      BY <1>2
    <3>3. QED
      BY <3>1, <3>2, <2>2, <1>2, <1>8
  <2>4. SameBody(g[a], h[a])
    BY <2>2, <2>3
  <2>5. QED
    BY <2>1, <2>2, <2>4 DEF a
<1>10. Guided(g, f, k)
  <2>1. ASSUME NEW i \in 1 .. m - 1 PROVE GuidedAt(f[i], g, k)
    BY <1>2, <1>9 DEF GuidedAt, SameBody
  <2>2. QED
    BY <2>1, <1>2 DEF Guided
<1>11. Edged(g, f, k)
  <2>1. CASE f = <<>>
    BY <2>1 DEF Edged
  <2>2. CASE f # <<>>
    <3> DEFINE fr == q[m - 1]
               a == fr.node.id
               n == h[a]
    <3>1. m - 1 \in 1 .. m - 1 /\ Len(f) = m - 1 /\ f[m - 1] = fr
      BY <2>2, <1>2, EmptySeq
    <3>2. /\ a \in live /\ GuidedAt(fr, h, k) /\ OnPath(q, m - 1, h, live, height)
      BY <3>1, <1>9
    <3>3. Kid(fr.node, fr.index) = p
      <4>1. m - 1 < m /\ (m - 1) + 1 = m
        BY <1>2
      <4>2. QED
        BY <3>2, <4>1 DEF OnPath, m
    <3>4. SameCore(fr.node, n) /\ fr.node.leaf = FALSE /\ fr.index \in 1 .. Kids(fr.node)
      BY <3>2 DEF OnPath, Framed
    <3>5. fr.node.keys = n.keys
      BY <3>2 DEF GuidedAt
    <3>6. Ordered(n, low[a], h, low, c)
      BY <3>2 DEF Order, c
    <3> HIDE DEF fr, n
    <3>7. n.leaf = FALSE /\ fr.index \in 1 .. Kids(n) /\ Kid(n, fr.index) = p
      BY <3>3, <3>4 DEF SameCore
    <3>8. Key(n, fr.index) = Most(h[p])
      BY <3>6, <3>7, <1>7 DEF Ordered, Tops
    <3>9. Key(fr.node, fr.index) = Most(h[p])
      BY <3>5, <3>8 DEF Key
    <3>10. QED
      BY <3>1, <3>9, <1>3 DEF Edged
  <2>3. QED
    BY <2>1, <2>2
<1>12. QED
  BY <1>10, <1>11 DEF f

-------------------------------------------------------------------------------
(* The steps of a call, as above, on heaps in order.          *)

\* What the caller does on the way up: of p, its node, and the children of p in
\* T it knows what they become.
CallerDid(h, g, live, live2, low, low2, q, par, p, T) ==
    /\ p = q[Len(q)].node.id /\ IsRefreshed(par, h, q)
    /\ low2 \in [Int -> Int]
    /\ \A t \in T : \E j \in 1 .. Kids(h[p]) : t = Kid(h[p], j)
    /\ Around(h, g, live, low, low2, p, T)
    /\ \A a \in live2 : a \in T \cup {p} \/ a \notin live =>
            Ordered(g[a], low2[a], g, low2, p)
    /\ Most(g[p]) = Most(par)

LEMMA CallerOrder ==
    ASSUME NEW h, NEW live, NEW height, NEW up, NEW pos, Linked(h, live, height, up, pos),
           NEW q, Chain(q, h, live, height), q # <<>>,
           NEW low, Order(h, live, low, Cur(q)), NEW k \in Int,
           Guided(h, q, k), Edged(h, q, k), Kids(h[Cur(q)]) # 0,
           NEW g, NEW live2, NEW low2, NEW par, NEW p, NEW T,
           CallerDid(h, g, live, live2, low, low2, q, par, p, T)
    PROVE  /\ Order(g, live2, low2, Cur(Front(q)))
           /\ Guided(g, Front(q), k) /\ Edged(g, Front(q), k)
<1> DEFINE c == Cur(q)
           i == q[Len(q)].index
<1>1. /\ p = q[Len(q)].node.id /\ IsRefreshed(par, h, q)
      /\ low2 \in [Int -> Int]
      /\ \A t \in T : \E j \in 1 .. Kids(h[p]) : t = Kid(h[p], j)
      /\ Around(h, g, live, low, low2, p, T)
      /\ \A a \in live2 : a \in T \cup {p} \/ a \notin live =>
              Ordered(g[a], low2[a], g, low2, p)
      /\ Most(g[p]) = Most(par)
  BY DEF CallerDid
<1>2. LastFrame(h, q, live, height, up, pos, p, i, c)
  BY <1>1, LastFrameProperties
<1>3. /\ p \in live /\ i \in 1 .. Kids(h[p]) /\ c = Kid(h[p], i)
      /\ \A j \in 1 .. Kids(h[p]) :
              /\ Kid(h[p], j) \in live \ {0}
              /\ height[Kid(h[p], j)] + 1 = height[p] /\ up[Kid(h[p], j)] = p
  BY <1>2 DEF LastFrame
<1>4. ASSUME NEW t \in T PROVE up[t] = p /\ t \in live /\ height[t] + 1 = height[p]
  <2>1. PICK j \in 1 .. Kids(h[p]) : t = Kid(h[p], j)
    BY <1>1
  <2>2. QED
    BY <2>1, <1>3
<1>5. up[c] = p
  BY <1>3
<1>6. live \subseteq Int /\ height \in [Int -> Nat]
  BY DEF Linked
<1>7. Cur(Front(q)) = p
  <2>1. \A a \in live : SameCore(h[a], h[a])
    BY DEF SameCore
  <2>2. QED
    BY <2>1, <1>1, ChainFront
<1>8. UpTo(Most(par), Most(h[p]), k)
  BY <1>1, CallerRefreshed DEF Refreshed
<1> HIDE DEF c, i
<1>9. Order(g, live2, low2, p)
  <2>1. ASSUME NEW a \in live2 PROVE Ordered(g[a], low2[a], g, low2, p)
    <3>1. CASE a \in live \ (T \cup {p})
      BY <3>1, <1>1, <1>4, <1>5, OthersOrdered DEF c
    <3>2. CASE a \in T \cup {p} \/ a \notin live
      BY <3>2, <1>1
    <3>3. QED
      BY <3>1, <3>2
  <2>2. QED
    BY <2>1, <1>1 DEF Order
<1>10. \A a \in live : height[a] > height[p] => SameBody(g[a], h[a])
  <2>1. ASSUME NEW a \in live, height[a] > height[p] PROVE a \notin T \cup {p}
    <3>1. height[a] \in Nat /\ height[p] \in Nat
      BY <1>3, <1>6
    <3>2. QED
      BY <3>1, <2>1, <1>4
  <2>2. QED
    BY <2>1, <1>1 DEF Around
<1>11. Guided(g, Front(q), k) /\ Edged(g, Front(q), k)
  BY <1>1, <1>8, <1>10, CallersAbove
<1>12. QED
  BY <1>7, <1>9, <1>11

\* The tree of a heap and the path of a call for the key k: E are its pairs.
TreeOn(h, live, height, low, q, less, more, k, E) ==
    /\ ShapeOn(h, live, height, q, less, more)
    /\ Order(h, live, low, Cur(q))
    /\ Guided(h, q, k) /\ Edged(h, q, k)
    /\ E = EntriesAt(h, live)

TreeAt(h, q, less, more, k, E) ==
    \E live, height, low : TreeOn(h, live, height, low, q, less, more, k, E)

LEMMA TreeHasShape ==
    ASSUME NEW h, NEW q, NEW less, NEW more, NEW k, NEW E, TreeAt(h, q, less, more, k, E)
    PROVE  ShapeAt(h, q, less, more)
  BY DEF TreeAt, TreeOn, ShapeAt

\* The children of p in T make way for those in T2.
Exchanged(live, live2, p, T, T2) ==
    /\ p \in live /\ p \notin T \cup T2
    /\ T \subseteq live /\ live2 = (live \ T) \cup T2

LEMMA CallerKeepsPairs ==
    ASSUME NEW h, NEW g, NEW live, NEW live2, NEW low, NEW low2, NEW p, NEW T, NEW T2,
           Around(h, g, live, low, low2, p, T), Exchanged(live, live2, p, T, T2),
           IsInner(h[p]), IsInner(g[p]),
           EntriesAt(g, T2) = EntriesAt(h, T)
    PROVE  EntriesAt(g, live2) = EntriesAt(h, live)
<1> USE DEF IsInner
<1>0. /\ p \in live /\ p \notin T \cup T2
      /\ T \subseteq live /\ live2 = (live \ T) \cup T2
  BY DEF Exchanged
<1>1. \A a \in live \ (T \cup {p}) : Own(g[a]) = Own(h[a])
  BY SameOwn DEF Around
<1>2. Own(g[p]) = {} /\ Own(h[p]) = {}
  BY DEF Own
<1>3. \A a \in live \ T : Own(g[a]) = Own(h[a])
  BY <1>0, <1>1, <1>2
<1>4. EntriesAt(g, live \ T) = EntriesAt(h, live \ T)
  BY <1>3 DEF EntriesAt
<1>5. EntriesAt(g, live2) = EntriesAt(g, live \ T) \cup EntriesAt(g, T2)
  BY <1>0, EntriesOfBoth
<1>6. EntriesAt(h, live) = EntriesAt(h, live \ T) \cup EntriesAt(h, T)
  <2>1. live = (live \ T) \cup T
    BY <1>0
  <2>2. QED
    BY <2>1, EntriesOfBoth
<1>7. QED
  BY <1>4, <1>5, <1>6

\* No node is its own child.
LEMMA ChildDiffers ==
    ASSUME NEW h, NEW live, NEW height, NEW up, NEW pos, Linked(h, live, height, up, pos),
           NEW p \in live, NEW t \in live, height[t] + 1 = height[p]
    PROVE  t # p
<1>1. height[p] \in Nat /\ height[t] \in Nat
  BY DEF Linked
<1>2. QED
  BY <1>1

LEMMA PlainInOrder ==
    ASSUME NEW h, NEW q, NEW less \in Nat, NEW more \in Nat, NEW k \in Int, NEW E,
           TreeAt(h, q, less, more, k, E), q # <<>>,
           Size(h[Cur(q)]) \in NodeSize .. 2 * NodeSize - 1,
           NEW p, p = q[Len(q)].node.id, NEW par, IsRefreshed(par, h, q),
           NEW g, DOMAIN g = DOMAIN h, SameBody(g[p], par),
           \A x \in DOMAIN h \ {p} : SameBody(g[x], h[x])
    PROVE  TreeAt(g, Front(q), less, more, k, E)
<1>1. PICK live, height, low : TreeOn(h, live, height, low, q, less, more, k, E)
  BY DEF TreeAt
<1>2. /\ ShapeOn(h, live, height, q, less, more) /\ Order(h, live, low, Cur(q))
      /\ Guided(h, q, k) /\ Edged(h, q, k) /\ E = EntriesAt(h, live)
  BY <1>1 DEF TreeOn
<1>3. PICK up, pos : /\ Linked(h, live, height, up, pos) /\ Chain(q, h, live, height)
                     /\ Sizes(h, live, Cur(q), less, more)
  BY <1>2 DEF ShapeOn
<1>4. LastFrame(h, q, live, height, up, pos, p, q[Len(q)].index, Cur(q))
  BY <1>3, LastFrameProperties
<1>5. /\ p \in live /\ IsInner(h[p]) /\ Cur(q) \in live
  BY <1>4 DEF LastFrame, IsInner
<1>6. live \subseteq DOMAIN h
  BY <1>3 DEF Linked
<1>7. Kids(h[Cur(q)]) # 0
  <2>1. Kids(h[Cur(q)]) = Size(h[Cur(q)])
    BY <1>3, <1>5, <1>6 DEF Sizes
  <2>2. QED
    BY <2>1, NodeSizeAssumption
<1>8. Refreshed(par, h, low, q, p, k)
  BY <1>2, <1>3, <1>7, CallerRefreshed
<1>9. Ordered(par, low[p], h, low, 0) /\ SameCore(par, h[p])
  BY <1>8 DEF Refreshed
<1>10. SameCore(g[p], h[p]) /\ Most(g[p]) = Most(par)
  <2>1. SameCore(g[p], par)
    BY DEF SameBody
  <2>2. QED
    BY <2>1, <1>9, SameCoreTransitive, SameOwn
<1>11. \A x \in DOMAIN h : SameCore(g[x], h[x])
  BY <1>10 DEF SameBody
<1>12. ShapeOn(g, live, height, Front(q), less, more)
  BY <1>2, <1>11, PlainTree
<1>13. Around(h, g, live, low, low, p, {})
  BY <1>6 DEF Around
<1>14. Ordered(g[p], low[p], g, low, p)
  <2>1. IsInner(par) /\ Kids(par) = Kids(h[p])
        /\ \A j \in 1 .. Kids(h[p]) : Kid(par, j) = Kid(h[p], j)
    BY <1>5, <1>9 DEF SameCore, IsInner
  <2>2. \A j \in 1 .. Kids(h[p]) : /\ Kid(h[p], j) \in live \ {p}
    <3>1. \A j \in 1 .. Kids(h[p]) :
              Kid(h[p], j) \in live /\ height[Kid(h[p], j)] + 1 = height[p]
      BY <1>4 DEF LastFrame
    <3>2. QED
      BY <3>1, <1>3, <1>5, ChildDiffers
  <2>3. \A j \in 1 .. Kids(h[p]) : Most(g[Kid(h[p], j)]) = Most(h[Kid(h[p], j)])
    BY <2>2, <1>6, SameOwn
  <2>4. \A j \in 1 .. Kids(h[p]) : Kid(h[p], j) # 0
    BY <1>4 DEF LastFrame
  <2>5. Unmoved(par, h, low, 0, g, low, p)
    BY <2>1, <2>3, <2>4 DEF Unmoved
  <2>6. QED
    BY <2>5, <1>9, OrderedMoves
<1>15. CallerDid(h, g, live, live, low, low, q, par, p, {})
  <2>1. low \in [Int -> Int]
    BY <1>2 DEF Order
  <2>2. QED
    BY <2>1, <1>10, <1>13, <1>14 DEF CallerDid
<1>16. /\ Order(g, live, low, Cur(Front(q)))
       /\ Guided(g, Front(q), k) /\ Edged(g, Front(q), k)
  BY <1>2, <1>3, <1>7, <1>15, CallerOrder
<1>17. EntriesAt(g, live) = EntriesAt(h, live)
  <2> DEFINE T == {}
  <2>1. IsInner(g[p])
    BY <1>5, <1>10 DEF SameCore, IsInner
  <2>2. EntriesAt(g, T) = EntriesAt(h, T)
    BY DEF EntriesAt
  <2>3. Exchanged(live, live, p, T, T)
    BY <1>5 DEF Exchanged
  <2>4. Around(h, g, live, low, low, p, T)
    BY <1>13
  <2> HIDE DEF T
  <2>5. QED
    BY <2>1, <2>2, <2>3, <2>4, <1>5, CallerKeepsPairs
<1>18. QED
  BY <1>2, <1>12, <1>16, <1>17 DEF TreeAt, TreeOn

\* What a step on the way up finds: the caller's copy par of the node p, up to
\* date and in order, over the child at work, c at i, and its siblings.
AtCaller(h, live, height, low, par, p, i, c) ==
    /\ p \in live /\ IsInner(h[p]) /\ c \in live /\ c \notin {0, p}
    /\ Kids(par) \in Nat /\ i \in 1 .. Kids(par) /\ c = Kid(par, i)
    /\ \A j \in 1 .. Kids(par) :
            /\ Kid(par, j) \in live \ {0, p} /\ height[Kid(par, j)] + 1 = height[p]
            /\ \A l \in 1 .. Kids(par) : Kid(par, l) = Kid(par, j) => l = j
    /\ IsInner(par) /\ SameCore(par, h[p]) /\ Ordered(par, low[p], h, low, 0)
    /\ Key(par, i) = Most(h[c])
    /\ \A t \in live : Ordered(h[t], low[t], h, low, c)

LEMMA CallerFinds ==
    ASSUME NEW h, NEW live, NEW height, NEW up, NEW pos, Linked(h, live, height, up, pos),
           NEW q, Chain(q, h, live, height), q # <<>>,
           NEW low, Order(h, live, low, Cur(q)), NEW k \in Int,
           Guided(h, q, k), Edged(h, q, k), Kids(h[Cur(q)]) # 0,
           NEW par, IsRefreshed(par, h, q)
    PROVE  AtCaller(h, live, height, low, par, q[Len(q)].node.id, q[Len(q)].index, Cur(q))
<1> DEFINE p == q[Len(q)].node.id
           i == q[Len(q)].index
           c == Cur(q)
<1>1. LastFrame(h, q, live, height, up, pos, p, i, c)
  BY LastFrameProperties
<1>2. /\ p \in live /\ IsInner(h[p]) /\ Kids(h[p]) \in Nat
      /\ i \in 1 .. Kids(h[p]) /\ c = Kid(h[p], i)
  BY <1>1 DEF LastFrame, IsInner
<1>3. \A j \in 1 .. Kids(h[p]) :
          /\ Kid(h[p], j) \in live \ {0} /\ height[Kid(h[p], j)] + 1 = height[p]
          /\ pos[Kid(h[p], j)] = j
  BY <1>1 DEF LastFrame
<1>4. Refreshed(par, h, low, q, p, k)
  BY CallerRefreshed
<1>5. Ordered(par, low[p], h, low, 0) /\ SameCore(par, h[p])
  BY <1>4 DEF Refreshed
<1>6. /\ Kids(par) = Kids(h[p]) /\ IsInner(par)
      /\ \A j \in 1 .. Kids(h[p]) : Kid(par, j) = Kid(h[p], j)
  BY <1>2, <1>5 DEF SameCore, IsInner
<1>7. KeyUpdated(par, q[Len(q)].node, i, Most(h[c])) /\ SameCore(par, q[Len(q)].node)
  BY DEF IsRefreshed
<1>8. \A t \in live : Ordered(h[t], low[t], h, low, c)
  BY DEF Order
<1> HIDE DEF p, i, c
<1>9. ASSUME NEW j \in 1 .. Kids(par) PROVE Kid(par, j) # p
  BY <1>2, <1>3, <1>6, ChildDiffers
<1>10. Key(par, i) = Most(h[c])
  BY <1>2, <1>6, <1>7 DEF KeyUpdated, SameCore
<1>11. ASSUME NEW j \in 1 .. Kids(par), NEW l \in 1 .. Kids(par), Kid(par, l) = Kid(par, j)
       PROVE  l = j
  BY <1>3, <1>6, <1>11
<1>12. c \in live /\ c \notin {0, p} /\ c = Kid(par, i) /\ i \in 1 .. Kids(par)
  BY <1>2, <1>3, <1>6, <1>9
<1>13. QED
  BY <1>2, <1>3, <1>5, <1>6, <1>8, <1>9, <1>10, <1>11, <1>12 DEF AtCaller, p, i, c

\* The children of n are some of those of the nodes in T.
Among(n, h, T) ==
    \A j \in 1 .. Kids(n) : \E t \in T : \E l \in 1 .. Kids(h[t]) :
        IsInner(h[t]) /\ Kid(n, j) = Kid(h[t], l)

\* A child of p that now has children of its own and of its siblings in T.
LEMMA ChildMoves ==
    ASSUME NEW h, NEW live, NEW height, NEW up, NEW pos, Linked(h, live, height, up, pos),
           NEW low, NEW par, NEW p, NEW i, NEW c, AtCaller(h, live, height, low, par, p, i, c),
           NEW g, NEW low2, NEW T, Around(h, g, live, low, low2, p, T), c \in T,
           \A t \in T : t \in live /\ height[t] + 1 = height[p],
           NEW n, NEW b, Ordered(n, b, h, low, c),
           IsInner(n) => Among(n, h, T),
           NEW m, SameBody(m, n)
    PROVE  Ordered(m, b, g, low2, p)
<1>1. p \in live /\ \A t \in T : height[t] + 1 = height[p]
  BY DEF AtCaller
<1>2. \A t \in T : t \in live
  OBVIOUS
<1>3. ASSUME IsInner(n), NEW j \in 1 .. Kids(n)
      PROVE  Kid(n, j) \in live /\ height[Kid(n, j)] + 2 = height[p]
  <2>1. PICK t \in T : \E l \in 1 .. Kids(h[t]) : IsInner(h[t]) /\ Kid(n, j) = Kid(h[t], l)
    BY <1>3 DEF Among
  <2>2. t \in live /\ height[t] + 1 = height[p]
    OBVIOUS
  <2>3. PICK l \in 1 .. Kids(h[t]) : IsInner(h[t]) /\ Kid(n, j) = Kid(h[t], l)
    BY <2>1
  <2>4. Kid(h[t], l) \in live /\ height[Kid(h[t], l)] + 2 = height[p]
    BY <2>2, <2>3, <1>1, <1>2, TwoRowsBelow
  <2>5. QED
    BY <2>3, <2>4
<1>4. QED
  BY <1>1, <1>2, <1>3, LowerOrdered

LEMMA OverflowInOrder ==
    ASSUME NEW h, NEW q, NEW k \in Int, NEW E, TreeAt(h, q, 0, 1, k, E), q # <<>>,
           NEW p, p = q[Len(q)].node.id, NEW i, i = q[Len(q)].index, NEW c, c = Cur(q),
           Size(h[c]) = 2 * NodeSize,
           NEW par, IsRefreshed(par, h, q),
           NEW g, NEW new, DOMAIN g = DOMAIN h \cup {new},
           IsSplit(h, g, DOMAIN h, p, i, c, new, new, c, NodeSize),
           KeysShared(<<g[new], g[c]>>, h[c], NodeSize),
           KeysGrown(g[p], par, i, Key(h[c], NodeSize)),
           \A x \in DOMAIN h \ {p, c} : SameBody(g[x], h[x]),
           \A x \in DOMAIN g : Kids(g[x]) = Size(g[x])
    PROVE  TreeAt(g, Front(q), 0, 1, k, E)
<1>1. PICK live, height, low : TreeOn(h, live, height, low, q, 0, 1, k, E)
  BY DEF TreeAt
<1>2. /\ ShapeOn(h, live, height, q, 0, 1) /\ Order(h, live, low, Cur(q))
      /\ Guided(h, q, k) /\ Edged(h, q, k) /\ E = EntriesAt(h, live)
  BY <1>1 DEF TreeOn
<1>3. PICK up, pos : /\ Linked(h, live, height, up, pos) /\ Chain(q, h, live, height)
                     /\ Sizes(h, live, Cur(q), 0, 1)
  BY <1>2 DEF ShapeOn
<1>4. 0 \in live /\ live \subseteq DOMAIN h /\ live \subseteq Int
  BY <1>3 DEF Linked
<1>5. Kids(h[c]) = 2 * NodeSize
  <2>1. LastFrame(h, q, live, height, up, pos, p, i, c)
    BY <1>3, LastFrameProperties
  <2>2. c \in live
    BY <2>1 DEF LastFrame
  <2>3. QED
    BY <2>2, <1>3, <1>4 DEF Sizes
<1>6. AtCaller(h, live, height, low, par, p, i, c)
  <2>1. Kids(h[Cur(q)]) # 0
    BY <1>5, NodeSizeAssumption
  <2>2. QED
    BY <2>1, <1>2, <1>3, CallerFinds
<1>7. /\ p \in live /\ IsInner(h[p]) /\ c \in live /\ c \notin {0, p}
      /\ Kids(par) \in Nat /\ i \in 1 .. Kids(par) /\ c = Kid(par, i)
      /\ \A j \in 1 .. Kids(par) :
              /\ Kid(par, j) \in live \ {0, p} /\ height[Kid(par, j)] + 1 = height[p]
              /\ \A l \in 1 .. Kids(par) : Kid(par, l) = Kid(par, j) => l = j
      /\ IsInner(par) /\ SameCore(par, h[p]) /\ Ordered(par, low[p], h, low, 0)
      /\ Key(par, i) = Most(h[c])
      /\ Ordered(h[c], low[c], h, low, c)
  BY <1>6 DEF AtCaller
<1>8. /\ new \in Int \ DOMAIN h /\ new \notin live /\ new # p /\ new # c
      /\ IsInner(g[p]) /\ Doubled(g[p], par, i, new, c)
      /\ g[new].leaf = h[c].leaf /\ g[c].leaf = h[c].leaf
      /\ Shared(<<g[new], g[c]>>, h[c], NodeSize)
  <2>1. /\ new \in Int \ DOMAIN h
        /\ g[p].leaf = FALSE /\ Doubled(g[p], h[p], i, new, c)
        /\ g[new].leaf = h[c].leaf /\ g[c].leaf = h[c].leaf
        /\ Shared(<<g[new], g[c]>>, h[c], NodeSize)
    BY DEF IsSplit
  <2>2. Doubled(g[p], par, i, new, c)
    BY <2>1, <1>7 DEF SameCore, Doubled
  <2>3. QED
    BY <2>1, <2>2, <1>4, <1>7 DEF IsInner
<1> DEFINE mid == Key(h[c], NodeSize)
           live2 == live \cup {new}
           low2 == [low EXCEPT ![new] = low[c], ![c] = mid]
<1>9. Halved(<<g[new], g[c]>>, h[c], NodeSize)
  BY <1>5, <1>8, NodeSizeAssumption DEF Halved
<1>10. /\ Ordered(g[new], low[c], h, low, c) /\ Ordered(g[c], mid, h, low, c)
       /\ Most(g[new]) = mid /\ Most(g[c]) = Most(h[c])
       /\ mid \in Int /\ low[c] < mid /\ mid < Most(h[c])
  <2> DEFINE pair == <<g[new], g[c]>>
  <2>1. pair[1] = g[new] /\ pair[2] = g[c]
    OBVIOUS
  <2>2. Halved(pair, h[c], NodeSize)
    BY <1>9
  <2> HIDE DEF pair
  <2>3. /\ Ordered(pair[1], low[c], h, low, c) /\ Ordered(pair[2], Key(h[c], NodeSize), h, low, c)
        /\ Most(pair[1]) = Key(h[c], NodeSize) /\ Most(pair[2]) = Most(h[c])
        /\ Key(h[c], NodeSize) \in Int /\ low[c] < Key(h[c], NodeSize)
        /\ Key(h[c], NodeSize) < Most(h[c])
    BY <2>2, <1>7, HalvesOrdered
  <2>4. QED
    BY <2>1, <2>3
<1>11. low \in [Int -> Int]
  BY <1>2 DEF Order
<1>12. /\ low2 \in [Int -> Int] /\ low2[new] = low[c] /\ low2[c] = mid
       /\ \A a \in live \ {c} : low2[a] = low[a]
  BY <1>4, <1>7, <1>8, <1>10, <1>11
<1> HIDE DEF mid, low2, live2
<1>13. Around(h, g, live, low, low2, p, {c})
  BY <1>4, <1>7, <1>12 DEF Around
<1>14. Ordered(g[new], low[c], g, low2, p) /\ Ordered(g[c], mid, g, low2, p)
  <2> DEFINE T == {c}
  <2>1. Around(h, g, live, low, low2, p, T) /\ c \in T
        /\ \A t \in T : t \in live /\ height[t] + 1 = height[p]
    BY <1>7, <1>13
  <2>2. c \in T /\ SameBody(g[new], g[new]) /\ SameBody(g[c], g[c])
    BY DEF SameBody, SameCore
  <2> HIDE DEF T
  <2>3. IsInner(g[new]) => Among(g[new], h, T)
    <3>1. \A j \in 1 .. Kids(g[new]) : j \in 1 .. Kids(h[c]) /\ Kid(g[new], j) = Kid(h[c], j)
      BY <1>5, <1>8, NodeSizeAssumption DEF Shared
    <3>2. QED
      BY <3>1, <2>2, <1>8 DEF IsInner, Among
  <2>4. IsInner(g[c]) => Among(g[c], h, T)
    <3>1. \A j \in 1 .. Kids(g[c]) : NodeSize + j \in 1 .. Kids(h[c])
                                     /\ Kid(g[c], j) = Kid(h[c], NodeSize + j)
      BY <1>5, <1>8, NodeSizeAssumption DEF Shared
    <3>2. QED
      BY <3>1, <2>2, <1>8 DEF IsInner, Among
  <2>5. Ordered(g[new], low[c], g, low2, p)
    BY <2>1, <2>2, <2>3, <1>3, <1>6, <1>10, ChildMoves
  <2>6. Ordered(g[c], mid, g, low2, p)
    BY <2>1, <2>2, <2>4, <1>3, <1>6, <1>10, ChildMoves
  <2>7. QED
    BY <2>5, <2>6
<1>15. Ordered(g[p], low[p], g, low2, p) /\ Most(g[p]) = Most(par)
  <2>1. \A j \in 1 .. Kids(par) : j # i =>
            /\ low2[Kid(par, j)] = low[Kid(par, j)]
            /\ Most(g[Kid(par, j)]) = Most(h[Kid(par, j)])
    <3>1. \A j \in 1 .. Kids(par) : j # i => Kid(par, j) \in live \ {p, c}
      BY <1>7
    <3>2. QED
      BY <3>1, <1>4, <1>12, SameOwn
  <2>2. \A j \in 1 .. Kids(par) : Kid(par, j) # 0
    BY <1>7
  <2>3. /\ low2[new] = low[Kid(par, i)] /\ low2[c] = mid /\ mid = Most(g[new])
        /\ Key(par, i) = Most(g[c]) /\ mid \in Int
        /\ low[Kid(par, i)] < mid /\ mid < Key(par, i)
    BY <1>7, <1>10, <1>12
  <2>4. KeysGrown(g[p], par, i, mid)
    BY DEF mid
  <2>5. IsDoubling(g[p], par, h, low, g, low2, i, mid, new, c)
    BY <2>1, <2>2, <2>3, <2>4, <1>7, <1>8 DEF IsDoubling
  <2>6. Ordered(par, low[p], h, low, 0)
    BY <1>7
  <2>7. Ordered(g[p], low[p], g, low2, p)
    BY <2>5, <2>6, DoubledOrdered
  <2>8. Most(g[p]) = Most(par)
    BY <2>5, <2>6, <2>7, DoubledOrdered
  <2>9. QED
    BY <2>7, <2>8
<1>16. CallerDid(h, g, live, live2, low, low2, q, par, p, {c})
  <2>1. ASSUME NEW a \in live2, a \in {c} \cup {p} \/ a \notin live
        PROVE  Ordered(g[a], low2[a], g, low2, p)
    <3>1. a \in {c, p, new}
      BY <2>1 DEF live2
    <3>2. low2[p] = low[p]
      BY <1>7, <1>12
    <3>3. QED
      BY <3>1, <3>2, <1>12, <1>14, <1>15
  <2>2. \E j \in 1 .. Kids(h[p]) : c = Kid(h[p], j)
    BY <1>7 DEF SameCore
  <2>3. QED
    BY <2>1, <2>2, <1>12, <1>13, <1>15 DEF CallerDid
<1>17. /\ Order(g, live2, low2, Cur(Front(q)))
       /\ Guided(g, Front(q), k) /\ Edged(g, Front(q), k)
  <2>1. Kids(h[Cur(q)]) # 0
    BY <1>5, NodeSizeAssumption
  <2>2. QED
    BY <2>1, <1>2, <1>3, <1>16, CallerOrder
<1>18. EntriesAt(g, live2) = EntriesAt(h, live)
  <2> DEFINE T == {c}
             T2 == {c, new}
  <2>1. Exchanged(live, live2, p, T, T2)
    <3>1. p \in live /\ c \in live /\ p # c /\ p # new
      BY <1>7, <1>8
    <3>2. live2 = live \cup {new} /\ T = {c} /\ T2 = {c, new}
      BY DEF live2
    <3> HIDE DEF live2, T, T2
    <3>3. QED
      BY ONLY <3>1, <3>2 DEF Exchanged
  <2>2. Own(g[new]) \cup Own(g[c]) = Own(h[c])
    <3> DEFINE pair == <<g[new], g[c]>>
    <3>1. pair[1] = g[new] /\ pair[2] = g[c]
      OBVIOUS
    <3> HIDE DEF pair
    <3>2. Own(pair[1]) \cup Own(pair[2]) = Own(h[c])
      BY <1>9, OwnHalved DEF pair
    <3>3. QED
      BY <3>1, <3>2
  <2>3. EntriesAt(g, T2) = EntriesAt(h, T)
    BY <2>2 DEF EntriesAt
  <2>4. Around(h, g, live, low, low2, p, T)
    BY <1>13
  <2>5. IsInner(h[p]) /\ IsInner(g[p])
    BY <1>7, <1>8
  <2> HIDE DEF T, T2
  <2>6. QED
    BY <2>1, <2>3, <2>4, <2>5, CallerKeepsPairs
<1>19. PICK height2 : ShapeOn(g, live2, height2, Front(q), 0, 1)
  BY <1>2, OverflowTree DEF live2
<1>20. QED
  BY <1>2, <1>17, <1>18, <1>19 DEF TreeAt, TreeOn

\* What the caller finds of the child at work and a neighbour: l and then r.
PairAtCaller(h, live, height, low, par, p, at, l, r, c) ==
    /\ \E i : AtCaller(h, live, height, low, par, p, i, c)
    /\ at \in 1 .. Kids(par) /\ at + 1 \in 1 .. Kids(par) /\ Kids(par) \in Nat
    /\ l = Kid(par, at) /\ r = Kid(par, at + 1) /\ l # r /\ c \in {l, r}
    /\ \A t \in {l, r} : t \in live \ {0, p} /\ height[t] + 1 = height[p]
    /\ Ordered(h[l], low[l], h, low, c) /\ Ordered(h[r], low[r], h, low, c)
    /\ h[r].leaf = h[l].leaf
    /\ Kids(h[l]) \in Nat /\ Kids(h[l]) > 0 /\ Kids(h[r]) \in Nat /\ Kids(h[r]) > 0
    /\ Most(h[l]) <= low[r] /\ Key(par, at + 1) = Most(h[r])

LEMMA CallerFindsPair ==
    ASSUME NEW h, NEW live, NEW height, NEW up, NEW pos, Linked(h, live, height, up, pos),
           NEW q, Chain(q, h, live, height), q # <<>>, Sizes(h, live, Cur(q), 1, 0),
           NEW low, Order(h, live, low, Cur(q)), NEW key \in Int,
           Guided(h, q, key), Edged(h, q, key), NEW par, IsRefreshed(par, h, q),
           NEW p, NEW at, NEW l, NEW r, IsPair(h, q, p, at, l, r)
    PROVE  /\ PairAtCaller(h, live, height, low, par, p, at, l, r, Cur(q))
           /\ Kids(h[Cur(q)]) # 0
<1> DEFINE c == Cur(q)
           i == q[Len(q)].index
<1>1. /\ p = q[Len(q)].node.id
      /\ at \in 1 .. Kids(h[p]) /\ at + 1 \in 1 .. Kids(h[p])
      /\ l = Kid(h[p], at) /\ r = Kid(h[p], at + 1)
      /\ i \in {at, at + 1}
  BY DEF IsPair
<1>2. LastFrame(h, q, live, height, up, pos, p, i, c)
  BY <1>1, LastFrameProperties
<1>3. /\ p \in live /\ c = Kid(h[p], i) /\ c \in {l, r} /\ Kids(h[p]) \in Nat
      /\ \A t \in {l, r} : t \in live \ {0} /\ height[t] + 1 = height[p]
  BY <1>1, <1>2 DEF LastFrame
<1>4. live \subseteq DOMAIN h /\ height \in [Int -> Nat]
      /\ \A t \in {l, r} : LinkedAt(h[t], t, live, height, up, pos)
  BY <1>3 DEF Linked
<1>5. \A t \in {l, r} : Kids(h[t]) \in Nat /\ Kids(h[t]) > 0
  <2>1. ASSUME NEW t \in {l, r} PROVE Kids(h[t]) \in Nat /\ Kids(h[t]) > 0
    <3>1. t \in live \ {0} /\ t \in DOMAIN h
      BY <1>3, <1>4
    <3>2. Size(h[t]) \in Nat /\ Kids(h[t]) = Size(h[t])
          /\ Size(h[t]) + (IF t = c THEN 1 ELSE 0) >= Least(t, h[t])
      BY <3>1 DEF Sizes
    <3>3. Least(t, h[t]) = NodeSize
      BY <3>1 DEF Least
    <3>4. QED
      BY <3>2, <3>3, NodeSizeAssumption
  <2>2. QED
    BY <2>1
<1>6. Kids(h[Cur(q)]) # 0
  BY <1>3, <1>5
<1>7. AtCaller(h, live, height, low, par, p, i, c)
  BY <1>1, <1>6, CallerFinds
<1>8. /\ SameCore(par, h[p]) /\ Ordered(par, low[p], h, low, 0) /\ IsInner(par)
      /\ \A j \in 1 .. Kids(par) :
              /\ Kid(par, j) \in live \ {0, p}
              /\ \A m \in 1 .. Kids(par) : Kid(par, m) = Kid(par, j) => m = j
      /\ \A t \in live : Ordered(h[t], low[t], h, low, c)
  BY <1>7 DEF AtCaller
<1>9. /\ Kids(par) = Kids(h[p]) /\ at \in 1 .. Kids(par) /\ at + 1 \in 1 .. Kids(par)
      /\ l = Kid(par, at) /\ r = Kid(par, at + 1)
  BY <1>1, <1>8 DEF SameCore
<1>10. l # r
  <2>1. at # at + 1
    BY <1>9, <1>3
  <2>2. QED
    BY <2>1, <1>8, <1>9
<1>11. h[r].leaf = h[l].leaf
  <2>1. height[l] = height[r]
    <3>1. height[l] \in Nat /\ height[r] \in Nat /\ height[l] + 1 = height[p] /\ height[r] + 1 = height[p]
      <4>1. l \in Int /\ r \in Int
        BY <1>3 DEF Linked
      <4>2. QED
        BY <4>1, <1>3, <1>4
    <3>2. QED
      BY <3>1
  <2>2. h[l].leaf \in BOOLEAN /\ h[r].leaf \in BOOLEAN
        /\ (h[l].leaf <=> height[l] = 0) /\ (h[r].leaf <=> height[r] = 0)
    BY <1>4 DEF LinkedAt
  <2>3. QED
    BY <2>1, <2>2
<1>12. Key(par, at) = Most(h[l]) /\ Key(par, at + 1) = Most(h[r]) /\ Key(par, at) <= low[r]
  <2>1. Over(par, low[p], low) /\ Tops(par, h, 0)
    BY <1>8 DEF Ordered, IsInner
  <2>2. l # 0 /\ r # 0
    BY <1>3
  <2>3. Key(par, at) = Most(h[l]) /\ Key(par, at + 1) = Most(h[r])
    BY <2>1, <2>2, <1>9 DEF Tops
  <2>4. at < at + 1
    BY <1>9, <1>3
  <2>5. Key(par, at) <= low[r]
    BY <2>1, <2>4, <1>9 DEF Over
  <2>6. QED
    BY <2>3, <2>5
<1>13. /\ Ordered(h[l], low[l], h, low, c) /\ Ordered(h[r], low[r], h, low, c)
       /\ \A t \in {l, r} : t \in live \ {0, p}
  BY <1>3, <1>8, <1>9
<1>14. PairAtCaller(h, live, height, low, par, p, at, l, r, c)
  <2> HIDE DEF c, i
  <2>1. \E j : AtCaller(h, live, height, low, par, p, j, c)
    BY <1>7
  <2>2. QED
    BY <2>1, <1>3, <1>5, <1>9, <1>10, <1>11, <1>12, <1>13 DEF PairAtCaller
<1>15. QED
  BY <1>6, <1>14

\* The children of l and r, all in m, or shared by the nodes of a pair.
LEMMA AmongJoined ==
    ASSUME NEW h, NEW l, NEW r, NEW m, Kids(h[l]) \in Nat, Kids(h[r]) \in Nat,
           IsInner(h[l]), IsInner(h[r]), Concatenated(m, h[l], h[r])
    PROVE  Among(m, h, {l, r})
<1>1. ASSUME NEW j \in 1 .. Kids(m)
      PROVE  \E t \in {l, r} : \E i \in 1 .. Kids(h[t]) : IsInner(h[t]) /\ Kid(m, j) = Kid(h[t], i)
  <2>1. Kids(m) = Kids(h[l]) + Kids(h[r])
    BY DEF Concatenated
  <2>2. CASE j <= Kids(h[l])
    <3>1. j \in 1 .. Kids(h[l])
      BY <2>2
    <3>2. Kid(m, j) = Kid(h[l], j)
      BY <3>1 DEF Concatenated
    <3>3. QED
      BY <3>1, <3>2
  <2>3. CASE j > Kids(h[l])
    <3> DEFINE i == j - Kids(h[l])
    <3>1. i \in 1 .. Kids(h[r]) /\ Kids(h[l]) + i = j
      BY <2>1, <2>3
    <3>2. Kid(m, Kids(h[l]) + i) = Kid(h[r], i)
      BY <3>1 DEF Concatenated
    <3> HIDE DEF i
    <3>3. QED
      BY <3>1, <3>2
  <2>4. QED
    BY <2>1, <2>2, <2>3
<1>2. QED
  BY <1>1 DEF Among

LEMMA AmongHalves ==
    ASSUME NEW h, NEW T, NEW n, Among(n, h, T), NEW pair, NEW mid, Halved(pair, n, mid)
    PROVE  Among(pair[1], h, T) /\ Among(pair[2], h, T)
<1>1. /\ Kids(n) \in Nat /\ mid \in 1 .. Kids(n) - 1 /\ Shared(pair, n, mid)
  BY DEF Halved
<1>2. \A j \in 1 .. Kids(pair[1]) : j \in 1 .. Kids(n) /\ Kid(pair[1], j) = Kid(n, j)
  BY <1>1 DEF Shared
<1>3. \A j \in 1 .. Kids(pair[2]) : mid + j \in 1 .. Kids(n) /\ Kid(pair[2], j) = Kid(n, mid + j)
  BY <1>1 DEF Shared
<1>4. QED
  BY <1>2, <1>3 DEF Among

LEMMA BalanceInOrder ==
    ASSUME NEW h, NEW q, NEW key \in Int, NEW E, TreeAt(h, q, 1, 0, key, E), q # <<>>,
           NEW p, NEW at, NEW l, NEW r, IsPair(h, q, p, at, l, r),
           NEW par, IsRefreshed(par, h, q),
           NEW g, DOMAIN g = DOMAIN h, NEW joined, NEW shrunk, NEW mid,
           IsBalance(h, g, DOMAIN h, p, at, l, r, joined, shrunk, mid),
           Kids(joined) >= 2 * NodeSize,
           2 * mid = Kids(joined) \/ 2 * mid + 1 = Kids(joined),
           KeysConcatenated(joined, h[l], h[r]), KeysShared(<<g[l], g[r]>>, joined, mid),
           SameCore(g[p], par), KeyUpdated(g[p], par, at, Key(joined, mid)),
           \A x \in DOMAIN h \ {p, l, r} : SameBody(g[x], h[x]),
           \A x \in DOMAIN g : Kids(g[x]) = Size(g[x])
    PROVE  TreeAt(g, Front(q), 1, 0, key, E)
<1>1. PICK live, height, low : TreeOn(h, live, height, low, q, 1, 0, key, E)
  BY DEF TreeAt
<1>2. /\ ShapeOn(h, live, height, q, 1, 0) /\ Order(h, live, low, Cur(q))
      /\ Guided(h, q, key) /\ Edged(h, q, key) /\ E = EntriesAt(h, live)
  BY <1>1 DEF TreeOn
<1>3. PICK up, pos : /\ Linked(h, live, height, up, pos) /\ Chain(q, h, live, height)
                     /\ Sizes(h, live, Cur(q), 1, 0)
  BY <1>2 DEF ShapeOn
<1>4. 0 \in live /\ live \subseteq DOMAIN h /\ live \subseteq Int
  BY <1>3 DEF Linked
<1> DEFINE c == Cur(q)
<1>5. PairAtCaller(h, live, height, low, par, p, at, l, r, c) /\ Kids(h[Cur(q)]) # 0
  BY <1>2, <1>3, CallerFindsPair
<1> HIDE DEF c
<1>6. PICK i : AtCaller(h, live, height, low, par, p, i, c)
  BY <1>5 DEF PairAtCaller
<1>7. /\ p \in live /\ IsInner(h[p]) /\ IsInner(par) /\ SameCore(par, h[p])
      /\ \A j \in 1 .. Kids(par) :
              /\ Kid(par, j) \in live \ {0, p}
              /\ \A m \in 1 .. Kids(par) : Kid(par, m) = Kid(par, j) => m = j
      /\ Ordered(par, low[p], h, low, 0)
  BY <1>6 DEF AtCaller
<1>8. /\ at \in 1 .. Kids(par) /\ at + 1 \in 1 .. Kids(par) /\ Kids(par) \in Nat
      /\ l = Kid(par, at) /\ r = Kid(par, at + 1) /\ l # r /\ c \in {l, r}
      /\ \A t \in {l, r} : t \in live \ {0, p} /\ height[t] + 1 = height[p]
      /\ Ordered(h[l], low[l], h, low, c) /\ Ordered(h[r], low[r], h, low, c)
      /\ h[r].leaf = h[l].leaf
      /\ Kids(h[l]) \in Nat /\ Kids(h[l]) > 0 /\ Kids(h[r]) \in Nat /\ Kids(h[r]) > 0
      /\ Most(h[l]) <= low[r] /\ Key(par, at + 1) = Most(h[r])
  BY <1>5 DEF PairAtCaller
<1>9. /\ joined.leaf = h[l].leaf /\ Concatenated(joined, h[l], h[r])
      /\ mid \in 0 .. Kids(joined)
      /\ g[l].leaf = h[l].leaf /\ g[r].leaf = h[l].leaf
      /\ Shared(<<g[l], g[r]>>, joined, mid)
  BY DEF IsBalance
<1>10. Joined(joined, h[l], h[r], low[r])
  BY <1>8, <1>9 DEF Joined
<1>11. Kids(joined) \in Nat /\ mid \in 1 .. Kids(joined) - 1
  <2>1. Kids(joined) \in Nat
    BY <1>8, <1>9 DEF Concatenated
  <2>2. QED
    BY <2>1, <1>9, NodeSizeAssumption
<1>12. Halved(<<g[l], g[r]>>, joined, mid)
  BY <1>9, <1>11 DEF Halved
<1>13. Ordered(joined, low[l], h, low, c) /\ Most(joined) = Most(h[r])
  BY <1>8, <1>10, JoinOrdered
<1> DEFINE e == Key(joined, mid)
           low2 == [low EXCEPT ![r] = e]
           T == {l, r}
           pair == <<g[l], g[r]>>
<1>14. pair[1] = g[l] /\ pair[2] = g[r] /\ Halved(pair, joined, mid)
  BY <1>12
<1> HIDE DEF pair
<1>15. /\ Ordered(g[l], low[l], h, low, c) /\ Ordered(g[r], e, h, low, c)
       /\ Most(g[l]) = e /\ Most(g[r]) = Most(h[r])
       /\ e \in Int /\ low[l] < e /\ e < Most(h[r])
  <2>1. /\ Ordered(pair[1], low[l], h, low, c) /\ Ordered(pair[2], Key(joined, mid), h, low, c)
        /\ Most(pair[1]) = Key(joined, mid) /\ Most(pair[2]) = Most(joined)
        /\ Key(joined, mid) \in Int /\ low[l] < Key(joined, mid)
        /\ Key(joined, mid) < Most(joined)
    BY <1>13, <1>14, HalvesOrdered
  <2>2. QED
    BY <2>1, <1>13, <1>14
<1>16. /\ low2 \in [Int -> Int] /\ low2[r] = e
       /\ \A a \in live \ {r} : low2[a] = low[a]
  <2>1. low \in [Int -> Int]
    BY <1>2 DEF Order
  <2>2. QED
    BY <2>1, <1>4, <1>8, <1>15
<1>17. KeyUpdated(g[p], par, at, e)
  OBVIOUS
<1> HIDE DEF e, low2
<1>18. Around(h, g, live, low, low2, p, T)
  BY <1>4, <1>7, <1>8, <1>16 DEF Around
<1>19. c \in T /\ \A t \in T : t \in live /\ height[t] + 1 = height[p]
  BY <1>8
<1>20. Ordered(g[l], low[l], g, low2, p) /\ Ordered(g[r], e, g, low2, p)
  <2>1. IsInner(h[l]) => Among(g[l], h, T) /\ Among(g[r], h, T)
    <3>1. ASSUME IsInner(h[l]) PROVE Among(joined, h, {l, r})
      <4>1. IsInner(h[r])
        BY <3>1, <1>8 DEF IsInner
      <4>2. QED
        BY <3>1, <4>1, <1>8, <1>9, AmongJoined
    <3>2. QED
      BY <3>1, <1>14, AmongHalves
  <2>2. (IsInner(g[l]) => Among(g[l], h, T)) /\ (IsInner(g[r]) => Among(g[r], h, T))
    BY <2>1, <1>9 DEF IsInner
  <2>3. SameBody(g[l], g[l]) /\ SameBody(g[r], g[r])
    BY DEF SameBody, SameCore
  <2> HIDE DEF T
  <2>4. Ordered(g[l], low[l], g, low2, p)
    BY <2>2, <2>3, <1>3, <1>6, <1>15, <1>18, <1>19, ChildMoves
  <2>5. Ordered(g[r], e, g, low2, p)
    BY <2>2, <2>3, <1>3, <1>6, <1>15, <1>18, <1>19, ChildMoves
  <2>6. QED
    BY <2>4, <2>5
<1>21. Ordered(g[p], low[p], g, low2, p) /\ Most(g[p]) = Most(par)
  <2>1. \A j \in 1 .. Kids(par) : j \notin {at, at + 1} =>
            /\ low2[Kid(par, j)] = low[Kid(par, j)]
            /\ Most(g[Kid(par, j)]) = Most(h[Kid(par, j)])
    <3>1. \A j \in 1 .. Kids(par) : j \notin {at, at + 1} => Kid(par, j) \in live \ {p, l, r}
      BY <1>7, <1>8
    <3>2. QED
      BY <3>1, <1>4, <1>16, SameOwn
  <2>2. \A j \in 1 .. Kids(par) : Kid(par, j) # 0
    BY <1>7
  <2>3. /\ low2[l] = low[l] /\ low2[r] = e /\ e = Most(g[l])
        /\ Key(par, at + 1) = Most(g[r]) /\ e \in Int
        /\ low[l] < e /\ e < Key(par, at + 1)
    BY <1>8, <1>15, <1>16
  <2>4. IsSharing(g[p], par, h, low, g, low2, at, e)
    BY <2>1, <2>2, <2>3, <1>7, <1>8, <1>17 DEF IsSharing
  <2>5. Ordered(par, low[p], h, low, 0)
    BY <1>7
  <2>6. Ordered(g[p], low[p], g, low2, p)
    BY <2>4, <2>5, SharedOrdered
  <2>7. Most(g[p]) = Most(par)
    BY <2>4, <2>5, <2>6, SharedOrdered
  <2>8. QED
    BY <2>6, <2>7
<1>22. CallerDid(h, g, live, live, low, low2, q, par, p, T)
  <2>1. ASSUME NEW a \in live, a \in T \cup {p} PROVE Ordered(g[a], low2[a], g, low2, p)
    <3>1. a \in {l, r, p}
      BY <2>1
    <3>2. low2[p] = low[p] /\ low2[l] = low[l]
      BY <1>7, <1>8, <1>16
    <3>3. QED
      BY <3>1, <3>2, <1>16, <1>20, <1>21
  <2>2. \A t \in T : \E j \in 1 .. Kids(h[p]) : t = Kid(h[p], j)
    BY <1>7, <1>8 DEF SameCore
  <2>3. p = q[Len(q)].node.id
    BY DEF IsPair
  <2> HIDE DEF T
  <2>4. QED
    BY <2>1, <2>2, <2>3, <1>16, <1>18, <1>21 DEF CallerDid
<1>23. /\ Order(g, live, low2, Cur(Front(q)))
       /\ Guided(g, Front(q), key) /\ Edged(g, Front(q), key)
  <2> HIDE DEF T
  <2>1. QED
    BY <1>2, <1>3, <1>5, <1>22, CallerOrder
<1>24. EntriesAt(g, live) = EntriesAt(h, live)
  <2>1. Exchanged(live, live, p, T, T)
    BY <1>7, <1>8 DEF Exchanged
  <2>2. Own(g[l]) \cup Own(g[r]) = Own(h[l]) \cup Own(h[r])
    <3>1. Own(pair[1]) \cup Own(pair[2]) = Own(joined)
      BY <1>14, OwnHalved
    <3>2. Own(joined) = Own(h[l]) \cup Own(h[r])
      BY <1>10, OwnJoined
    <3>3. QED
      BY <3>1, <3>2, <1>14
  <2>3. EntriesAt(g, T) = EntriesAt(h, T)
    BY <2>2 DEF EntriesAt
  <2>4. IsInner(h[p]) /\ IsInner(g[p])
    BY <1>7 DEF IsInner, SameCore
  <2> HIDE DEF T
  <2>5. QED
    BY <2>1, <2>3, <2>4, <1>18, CallerKeepsPairs
<1>25. PICK height2 : ShapeOn(g, live, height2, Front(q), 1, 0)
  BY <1>2, BalanceTree
<1>26. QED
  BY <1>2, <1>23, <1>24, <1>25 DEF TreeAt, TreeOn

LEMMA JoinInOrder ==
    ASSUME NEW h, NEW q, NEW key \in Int, NEW E, TreeAt(h, q, 1, 0, key, E), q # <<>>,
           NEW p, NEW at, NEW l, NEW r, IsPair(h, q, p, at, l, r),
           NEW par, IsRefreshed(par, h, q),
           NEW g, DOMAIN g = DOMAIN h, IsJoin(h, g, DOMAIN h, p, at, l, r),
           Kids(h[l]) + Kids(h[r]) < 2 * NodeSize, Size(g[r]) = Size(h[r]),
           KeysConcatenated(g[l], h[l], h[r]),
           Shrunk(g[p], par, at + 1), KeysShrunk(g[p], par, at),
           \A x \in DOMAIN h \ {p, l, r} : SameBody(g[x], h[x]),
           \A x \in DOMAIN g : Kids(g[x]) = Size(g[x])
    PROVE  TreeAt(g, Front(q), 1, 0, key, E)
<1>1. PICK live, height, low : TreeOn(h, live, height, low, q, 1, 0, key, E)
  BY DEF TreeAt
<1>2. /\ ShapeOn(h, live, height, q, 1, 0) /\ Order(h, live, low, Cur(q))
      /\ Guided(h, q, key) /\ Edged(h, q, key) /\ E = EntriesAt(h, live)
  BY <1>1 DEF TreeOn
<1>3. PICK up, pos : /\ Linked(h, live, height, up, pos) /\ Chain(q, h, live, height)
                     /\ Sizes(h, live, Cur(q), 1, 0)
  BY <1>2 DEF ShapeOn
<1>4. 0 \in live /\ live \subseteq DOMAIN h /\ live \subseteq Int
  BY <1>3 DEF Linked
<1> DEFINE c == Cur(q)
<1>5. PairAtCaller(h, live, height, low, par, p, at, l, r, c) /\ Kids(h[Cur(q)]) # 0
  BY <1>2, <1>3, CallerFindsPair
<1> HIDE DEF c
<1>6. PICK i : AtCaller(h, live, height, low, par, p, i, c)
  BY <1>5 DEF PairAtCaller
<1>7. /\ p \in live /\ IsInner(h[p]) /\ IsInner(par) /\ SameCore(par, h[p])
      /\ \A j \in 1 .. Kids(par) :
              /\ Kid(par, j) \in live \ {0, p}
              /\ \A m \in 1 .. Kids(par) : Kid(par, m) = Kid(par, j) => m = j
      /\ Ordered(par, low[p], h, low, 0)
  BY <1>6 DEF AtCaller
<1>8. /\ at \in 1 .. Kids(par) /\ at + 1 \in 1 .. Kids(par) /\ Kids(par) \in Nat
      /\ l = Kid(par, at) /\ r = Kid(par, at + 1) /\ l # r /\ c \in {l, r}
      /\ \A t \in {l, r} : t \in live \ {0, p} /\ height[t] + 1 = height[p]
      /\ Ordered(h[l], low[l], h, low, c) /\ Ordered(h[r], low[r], h, low, c)
      /\ h[r].leaf = h[l].leaf
      /\ Kids(h[l]) \in Nat /\ Kids(h[l]) > 0 /\ Kids(h[r]) \in Nat /\ Kids(h[r]) > 0
      /\ Most(h[l]) <= low[r] /\ Key(par, at + 1) = Most(h[r])
  BY <1>5 DEF PairAtCaller
<1>9. /\ g[l].leaf = h[l].leaf /\ Concatenated(g[l], h[l], h[r]) /\ IsInner(g[p])
  BY DEF IsJoin, IsInner
<1>10. Joined(g[l], h[l], h[r], low[r])
  BY <1>8, <1>9 DEF Joined
<1>11. Ordered(g[l], low[l], h, low, c) /\ Most(g[l]) = Most(h[r])
  BY <1>8, <1>10, JoinOrdered
<1> DEFINE T == {l, r}
           live2 == live \ {r}
<1>12. Around(h, g, live, low, low, p, T)
  BY <1>4, <1>7, <1>8 DEF Around
<1>13. c \in T /\ \A t \in T : t \in live /\ height[t] + 1 = height[p]
  BY <1>8
<1>14. Ordered(g[l], low[l], g, low, p)
  <2>1. IsInner(g[l]) => Among(g[l], h, T)
    <3>1. ASSUME IsInner(g[l]) PROVE Among(g[l], h, {l, r})
      <4>1. IsInner(h[l]) /\ IsInner(h[r])
        BY <3>1, <1>8, <1>9 DEF IsInner
      <4>2. QED
        BY <4>1, <1>8, <1>9, AmongJoined
    <3>2. QED
      BY <3>1
  <2>2. SameBody(g[l], g[l])
    BY DEF SameBody, SameCore
  <2> HIDE DEF T
  <2>3. QED
    BY <2>1, <2>2, <1>3, <1>6, <1>11, <1>12, <1>13, ChildMoves
<1>15. Ordered(g[p], low[p], g, low, p) /\ Most(g[p]) = Most(par)
  <2>1. \A j \in 1 .. Kids(par) : j \notin {at, at + 1} =>
            Most(g[Kid(par, j)]) = Most(h[Kid(par, j)])
    <3>1. \A j \in 1 .. Kids(par) : j \notin {at, at + 1} => Kid(par, j) \in live \ {p, l, r}
      BY <1>7, <1>8
    <3>2. QED
      BY <3>1, <1>4, SameOwn
  <2>2. \A j \in 1 .. Kids(par) : Kid(par, j) # 0
    BY <1>7
  <2>3. Key(par, at + 1) = Most(g[Kid(par, at)])
    BY <1>8, <1>11
  <2>4. IsShrinking(g[p], par, h, g, at)
    BY <2>1, <2>2, <2>3, <1>7, <1>8, <1>9 DEF IsShrinking
  <2>5. Ordered(par, low[p], h, low, 0)
    BY <1>7
  <2>6. Ordered(g[p], low[p], g, low, p)
    BY <2>4, <2>5, ShrunkOrdered
  <2>7. Most(g[p]) = Most(par)
    BY <2>4, <2>5, <2>6, ShrunkOrdered
  <2>8. QED
    BY <2>6, <2>7
<1>16. CallerDid(h, g, live, live2, low, low, q, par, p, T)
  <2>1. ASSUME NEW a \in live2, a \in T \cup {p} \/ a \notin live
        PROVE  Ordered(g[a], low[a], g, low, p)
    <3>1. a \in {l, p}
      BY <2>1
    <3>2. QED
      BY <3>1, <1>14, <1>15
  <2>2. \A t \in T : \E j \in 1 .. Kids(h[p]) : t = Kid(h[p], j)
    BY <1>7, <1>8 DEF SameCore
  <2>3. p = q[Len(q)].node.id /\ low \in [Int -> Int]
    BY <1>2 DEF IsPair, Order
  <2> HIDE DEF T, live2
  <2>4. QED
    BY <2>1, <2>2, <2>3, <1>12, <1>15 DEF CallerDid
<1>17. /\ Order(g, live2, low, Cur(Front(q)))
       /\ Guided(g, Front(q), key) /\ Edged(g, Front(q), key)
  <2> HIDE DEF T, live2
  <2>1. QED
    BY <1>2, <1>3, <1>5, <1>16, CallerOrder
<1>18. EntriesAt(g, live2) = EntriesAt(h, live)
  <2> DEFINE T2 == {l}
  <2>1. Exchanged(live, live2, p, T, T2)
    BY <1>7, <1>8 DEF Exchanged
  <2>2. Own(g[l]) = Own(h[l]) \cup Own(h[r])
    BY <1>10, OwnJoined
  <2>3. EntriesAt(g, T2) = EntriesAt(h, T)
    BY <2>2 DEF EntriesAt
  <2>4. IsInner(h[p]) /\ IsInner(g[p])
    BY <1>7, <1>9
  <2> HIDE DEF T, T2, live2
  <2>5. QED
    BY <2>1, <2>3, <2>4, <1>12, CallerKeepsPairs
<1>19. ShapeOn(g, live2, height, Front(q), 1, 0)
  BY <1>2, JoinTree
<1>20. QED
  BY <1>2, <1>17, <1>18, <1>19 DEF TreeAt, TreeOn

-------------------------------------------------------------------------------
\* The key of a child in the node above it, and the child's bound.
LEMMA ChildBelow ==
    ASSUME NEW h, NEW live, NEW height, NEW up, NEW pos, Linked(h, live, height, up, pos),
           NEW low, Order(h, live, low, 0), NEW a \in live \ {0}
    PROVE  /\ up[a] \in live /\ height[a] + 1 = height[up[a]]
           /\ pos[a] \in 1 .. Kids(h[up[a]]) /\ Kid(h[up[a]], pos[a]) = a
           /\ Most(h[a]) = Key(h[up[a]], pos[a]) /\ Most(h[a]) \in Int
           /\ Most(h[a]) <= Most(h[up[a]]) /\ low[up[a]] <= low[a]
           /\ low[a] \in Int /\ low[up[a]] \in Int /\ Most(h[up[a]]) \in Int
           /\ \A j \in 1 .. Kids(h[up[a]]) : j < pos[a] => Key(h[up[a]], j) <= low[a]
<1> DEFINE u == up[a]
           n == h[u]
           i == pos[a]
<1>1. u \in live /\ n.leaf = FALSE /\ i \in 1 .. Kids(n) /\ Kid(n, i) = a
  BY DEF Linked, Hung
<1>2. LinkedAt(n, u, live, height, up, pos)
  BY <1>1 DEF Linked
<1>3. height[a] + 1 = height[u] /\ Kids(n) \in Nat
  BY <1>1, <1>2 DEF LinkedAt
<1>4. Ordered(n, low[u], h, low, 0)
  BY <1>1 DEF Order
<1> HIDE DEF u, n, i
<1>5. Rising(n, low[u]) /\ Over(n, low[u], low) /\ Tops(n, h, 0)
  BY <1>1, <1>4 DEF Ordered
<1>6. Kids(n) \in 1 .. Kids(n)
  BY <1>1, <1>3
<1>7. Key(n, i) = Most(h[a])
  BY <1>1, <1>5 DEF Tops
<1>8. Key(n, i) \in Int /\ Most(n) \in Int /\ low[u] \in Int
  BY <1>1, <1>5, <1>6 DEF Rising, Most
<1>9. Key(n, i) <= Most(n)
  <2>1. CASE i = Kids(n)
    BY <2>1, <1>8 DEF Most
  <2>2. CASE i < Kids(n)
    <3>1. Key(n, i) < Key(n, Kids(n))
      BY <2>2, <1>1, <1>5, <1>6 DEF Rising
    <3>2. QED
      BY <3>1, <1>8 DEF Most
  <2>3. QED
    BY <2>1, <2>2, <1>1, <1>3
<1>10. low[a] \in Int /\ low[u] <= low[a]
       /\ \A j \in 1 .. Kids(n) : j < i => Key(n, j) <= low[a]
  BY <1>1, <1>5 DEF Over
<1>11. QED
  BY <1>1, <1>3, <1>7, <1>8, <1>9, <1>10 DEF u, n, i

LEMMA HasSmallest ==
    ASSUME NEW S, S \subseteq Nat, S # {}
    PROVE  \E d \in S : \A e \in S : d <= e
<1> DEFINE R == OpToRel(<, Nat)
<1>1. IsWellFoundedOn(R, Nat)
  BY NatLessThanWellFounded
<1>2. \A x, y \in Nat : y < x => <<y, x>> \in R
  BY DEF OpToRel
<1> HIDE DEF R
<1>3. PICK d \in S : \A e \in S : ~(<<e, d>> \in R)
  BY <1>1, WFMin
<1>4. ASSUME NEW e \in S PROVE d <= e
  <2>1. d \in Nat /\ e \in Nat
    OBVIOUS
  <2>2. ~(e < d)
    BY <2>1, <1>2, <1>3
  <2>3. QED
    BY <2>1, <2>2
<1>5. QED
  BY <1>4

\* Of two nodes of a row one lies below the bound of the other.
Apart(h, low, a, b) == Most(h[a]) <= low[b] \/ Most(h[b]) <= low[a]

LEMMA RowsApart ==
    ASSUME NEW h, NEW live, NEW height, NEW up, NEW pos, Linked(h, live, height, up, pos),
           NEW low, Order(h, live, low, 0),
           NEW a \in live, NEW b \in live, a # b, height[a] = height[b]
    PROVE  Apart(h, low, a, b)
<1> DEFINE Near(d) == \E x, y \in live : /\ x # y /\ height[x] = height[y]
                                         /\ d + height[x] = height[0] /\ ~Apart(h, low, x, y)
           S == {d \in Nat : Near(d)}
<1>1. 0 \in live /\ live \subseteq Int /\ height \in [Int -> Nat]
  BY DEF Linked
<1>2. SUFFICES ASSUME ~Apart(h, low, a, b) PROVE FALSE
  OBVIOUS
<1>3. \A x \in live : x = 0 \/ height[x] < height[0]
  BY DEF Linked, Hung
<1>4. height[0] - height[a] \in S
  <2>1. height[0] \in Nat /\ height[a] \in Nat /\ height[a] <= height[0]
    BY <1>1, <1>3
  <2>2. height[0] - height[a] \in Nat /\ (height[0] - height[a]) + height[a] = height[0]
    BY <2>1
  <2>3. QED
    BY <2>2, <1>2
<1> HIDE DEF S
<1>5. S \subseteq Nat
  BY DEF S
<1>6. PICK d \in S : \A e \in S : d <= e
  BY <1>4, <1>5, HasSmallest
<1>7. PICK x \in live, y \in live : /\ x # y /\ height[x] = height[y]
                                    /\ d + height[x] = height[0] /\ ~Apart(h, low, x, y)
  BY <1>6 DEF S
<1>8. d \in Nat /\ height[x] \in Nat /\ height[0] \in Nat /\ height[y] \in Nat
  BY <1>1, <1>5, <1>6, <1>7
<1>9. x \in live \ {0} /\ y \in live \ {0}
  <2>1. x = 0 => y = 0
    BY <1>3, <1>7, <1>8
  <2>2. y = 0 => x = 0
    BY <1>3, <1>7, <1>8
  <2>3. QED
    BY <2>1, <2>2, <1>7
<1> DEFINE u == up[x]
           v == up[y]
<1>10. /\ u \in live /\ height[x] + 1 = height[u]
       /\ pos[x] \in 1 .. Kids(h[u]) /\ Kid(h[u], pos[x]) = x
       /\ Most(h[x]) = Key(h[u], pos[x]) /\ Most(h[x]) \in Int
       /\ Most(h[x]) <= Most(h[u]) /\ low[u] <= low[x]
       /\ low[x] \in Int /\ low[u] \in Int /\ Most(h[u]) \in Int
       /\ \A j \in 1 .. Kids(h[u]) : j < pos[x] => Key(h[u], j) <= low[x]
  BY <1>9, ChildBelow
<1>11. /\ v \in live /\ height[y] + 1 = height[v]
       /\ pos[y] \in 1 .. Kids(h[v]) /\ Kid(h[v], pos[y]) = y
       /\ Most(h[y]) = Key(h[v], pos[y]) /\ Most(h[y]) \in Int
       /\ Most(h[y]) <= Most(h[v]) /\ low[v] <= low[y]
       /\ low[y] \in Int /\ low[v] \in Int /\ Most(h[v]) \in Int
       /\ \A j \in 1 .. Kids(h[v]) : j < pos[y] => Key(h[v], j) <= low[y]
  BY <1>9, ChildBelow
<1> HIDE DEF u, v
<1>12. CASE u = v
  <2>1. pos[x] \in Int /\ pos[y] \in Int /\ pos[x] # pos[y]
    BY <1>7, <1>10, <1>11, <1>12
  <2>2. CASE pos[x] < pos[y]
    <3>1. Most(h[x]) <= low[y]
      BY <2>2, <1>10, <1>11, <1>12
    <3>2. QED
      BY <3>1, <1>7 DEF Apart
  <2>3. CASE pos[y] < pos[x]
    <3>1. Most(h[y]) <= low[x]
      BY <2>3, <1>10, <1>11, <1>12
    <3>2. QED
      BY <3>1, <1>7 DEF Apart
  <2>4. QED
    BY <2>1, <2>2, <2>3
<1>13. CASE u # v
  <2>1. height[u] \in Nat /\ height[v] \in Nat
    BY <1>1, <1>10, <1>11
  <2>2. height[u] = height[v] /\ d - 1 \in Nat /\ (d - 1) + height[u] = height[0]
    <3>1. height[x] < height[0]
      BY <1>3, <1>9
    <3>2. QED
      BY <3>1, <2>1, <1>7, <1>8, <1>10, <1>11
  <2>3. Apart(h, low, u, v)
    <3>1. SUFFICES ASSUME ~Apart(h, low, u, v) PROVE FALSE
      OBVIOUS
    <3>2. d - 1 \in S
      BY <3>1, <2>2, <1>10, <1>11, <1>13 DEF S
    <3>3. d <= d - 1
      BY <3>2, <1>6
    <3>4. QED
      BY <3>3, <1>8
  <2>4. CASE Most(h[u]) <= low[v]
    <3>1. Most(h[x]) <= low[y]
      BY <2>4, <1>10, <1>11
    <3>2. QED
      BY <3>1, <1>7 DEF Apart
  <2>5. CASE Most(h[v]) <= low[u]
    <3>1. Most(h[y]) <= low[x]
      BY <2>5, <1>10, <1>11
    <3>2. QED
      BY <3>1, <1>7 DEF Apart
  <2>6. QED
    BY <2>3, <2>4, <2>5 DEF Apart
<1>14. QED
  BY <1>12, <1>13

-------------------------------------------------------------------------------
\* Place i of node n parts the keys below k from those that are not.
Parts(n, k, i) ==
    /\ i \in 1 .. Kids(n) + 1
    /\ \A j \in 1 .. Kids(n) : IF j < i THEN Key(n, j) < k ELSE k <= Key(n, j)

LEMMA PositionParts ==
    ASSUME NEW n, NEW b, Rising(n, b), n.keys \in Seq(Keys), Len(n.keys) = Kids(n), NEW k \in Int
    PROVE  Parts(n, k, LowerBound(n, k))
<1> DEFINE N == Kids(n)
           below == {j \in 1 .. N : Key(n, j) < k}
           S == {d \in Nat : d + 1 \notin below}
<1>1. /\ \A j \in 1 .. N : Key(n, j) \in Int
      /\ \A i, j \in 1 .. N : j < i => Key(n, j) < Key(n, i)
      /\ N \in Nat /\ DOMAIN n.keys = 1 .. N
  BY LenProperties DEF Rising
<1>2. N \in S
  BY <1>1
<1>3. S \subseteq Nat
  OBVIOUS
<1> HIDE DEF S
<1>4. PICK m \in S : \A e \in S : m <= e
  BY <1>2, <1>3, HasSmallest
<1>5. m \in Nat /\ m + 1 \notin below /\ m <= N
  BY <1>2, <1>4 DEF S
<1>6. ASSUME NEW j \in 1 .. m PROVE j \in below
  <2>1. j - 1 \in Nat /\ j - 1 < m /\ (j - 1) + 1 = j
    BY <1>5
  <2>2. j - 1 \notin S
    BY <2>1, <1>4, <1>5
  <2>3. QED
    BY <2>1, <2>2 DEF S
<1>7. ASSUME NEW j \in below, j > m PROVE FALSE
  <2>1. j \in 1 .. N /\ Key(n, j) < k /\ m + 1 \in 1 .. N /\ j # m + 1
    BY <1>5, <1>7
  <2>2. m + 1 < j
    BY <2>1, <1>5, <1>7
  <2>3. Key(n, m + 1) < Key(n, j)
    BY <2>1, <2>2, <1>1
  <2>4. m + 1 \in below
    <3>1. Key(n, m + 1) \in Int /\ Key(n, j) \in Int
      BY <2>1, <1>1
    <3>2. Key(n, m + 1) < k
      BY <3>1, <2>1, <2>3
    <3>3. QED
      BY <3>2, <2>1
  <2>5. QED
    BY <2>4, <1>5
<1>8. below = 1 .. m
  <2>1. \A j \in below : j \in 1 .. m
    BY <1>5, <1>7
  <2>2. QED
    BY <2>1, <1>6
<1>9. LowerBound(n, k) = m + 1
  <2>1. {j \in DOMAIN n.keys : n.keys[j] < k} = 1 .. m
    <3>1. {j \in DOMAIN n.keys : n.keys[j] < k} = below
      BY <1>1 DEF Key
    <3>2. QED
      BY <3>1, <1>8
  <2>2. Cardinality(1 .. m) = m
    BY <1>5, FS_Interval
  <2>3. QED
    BY <2>1, <2>2 DEF LowerBound
<1>10. \A j \in 1 .. N : IF j < m + 1 THEN Key(n, j) < k ELSE k <= Key(n, j)
  <2>1. ASSUME NEW j \in 1 .. N, j < m + 1 PROVE Key(n, j) < k
    BY <2>1, <1>5, <1>6
  <2>2. ASSUME NEW j \in 1 .. N, ~(j < m + 1) PROVE k <= Key(n, j)
    <3>1. j \notin below
      BY <2>2, <1>5, <1>7
    <3>2. QED
      BY <3>1, <1>1
  <2>3. QED
    BY <2>1, <2>2
<1>11. QED
  BY <1>5, <1>9, <1>10 DEF Parts

\* A node's bound may be lowered, down to what its caller allows.
Lowering(h, live, up, pos, low, low2, t) ==
    /\ t \in live /\ low2 \in [Int -> Int]
    /\ \A a \in live \ {t} : low2[a] = low[a]
    /\ low2[t] <= low[t]
    /\ t # 0 => /\ low[up[t]] <= low2[t]
                /\ \A j \in 1 .. Kids(h[up[t]]) : j < pos[t] => Key(h[up[t]], j) <= low2[t]

LEMMA OrderLowered ==
    ASSUME NEW h, NEW live, NEW height, NEW up, NEW pos, Linked(h, live, height, up, pos),
           NEW low, Order(h, live, low, 0),
           NEW low2, NEW t, Lowering(h, live, up, pos, low, low2, t)
    PROVE  Order(h, live, low2, 0)
<1>1. /\ t \in live /\ low2 \in [Int -> Int]
      /\ \A a \in live \ {t} : low2[a] = low[a]
      /\ low2[t] <= low[t]
      /\ t # 0 => /\ low[up[t]] <= low2[t]
                  /\ \A j \in 1 .. Kids(h[up[t]]) : j < pos[t] => Key(h[up[t]], j) <= low2[t]
  BY DEF Lowering
<1>2. live \subseteq Int /\ low \in [Int -> Int]
  BY DEF Linked, Order
<1>3. ASSUME NEW a \in live PROVE Ordered(h[a], low2[a], h, low2, 0)
  <2> DEFINE n == h[a]
  <2>1. Ordered(n, low[a], h, low, 0) /\ LinkedAt(n, a, live, height, up, pos)
    BY DEF Order, Linked
  <2>2. low2[a] \in Int /\ low[a] \in Int /\ low2[a] <= low[a]
    BY <1>1, <1>2
  <2>3. IsInner(n) => \A i \in 1 .. Kids(n) :
            /\ Kid(n, i) \in live \ {0} /\ height[Kid(n, i)] + 1 = height[a]
            /\ up[Kid(n, i)] = a /\ pos[Kid(n, i)] = i
    BY <2>1 DEF LinkedAt, IsInner
  <2> HIDE DEF n
  <2>4. Rising(n, low2[a])
    BY <2>1, <2>2 DEF Ordered, Rising
  <2>5. ASSUME IsInner(n) PROVE Over(n, low2[a], low2)
    <3>1. ASSUME NEW i \in 1 .. Kids(n)
          PROVE  /\ low2[Kid(n, i)] \in Int /\ low2[a] <= low2[Kid(n, i)]
                 /\ \A j \in 1 .. Kids(n) : j < i => Key(n, j) <= low2[Kid(n, i)]
      <4> DEFINE b == Kid(n, i)
      <4>1. /\ b \in live \ {0} /\ height[b] + 1 = height[a] /\ up[b] = a /\ pos[b] = i
        BY <2>3, <2>5
      <4>2. /\ low[b] \in Int /\ low[a] <= low[b]
            /\ \A j \in 1 .. Kids(n) : j < i => Key(n, j) <= low[b]
        BY <2>1, <2>5 DEF Ordered, Over, IsInner
      <4> HIDE DEF b
      <4>3. b # a
        BY <4>1, ChildDiffers
      <4>4. low2[b] \in Int
        BY <4>1, <1>1, <1>2
      <4>5. CASE b = t
        <5>1. a # t /\ low2[a] = low[a]
          BY <4>3, <4>5, <1>1
        <5>2. /\ low[a] <= low2[b]
              /\ \A j \in 1 .. Kids(n) : j < i => Key(n, j) <= low2[b]
          BY <4>1, <4>5, <1>1 DEF n
        <5>3. QED
          BY <4>4, <5>1, <5>2 DEF b
      <4>6. CASE b # t
        <5>1. low2[b] = low[b]
          BY <4>1, <4>6, <1>1
        <5>2. low2[a] <= low[b]
          BY <4>2, <2>2
        <5>3. QED
          BY <4>2, <4>4, <5>1, <5>2 DEF b
      <4>7. QED
        BY <4>5, <4>6
    <3>2. QED
      BY <3>1 DEF Over
  <2>6. QED
    BY <2>1, <2>4, <2>5 DEF Ordered, IsInner, n
<1>4. QED
  BY <1>1, <1>3 DEF Order

\* A call for the key k on its way down has come to node c, where k belongs: it
\* lies above the bound of c, and not above its keys unless no node to the right
\* of c is left.
Aim(h, live, height, low, c, k) ==
    /\ low[c] < k
    /\ \/ k <= Most(h[c])
       \/ \A b \in live \ {c} : height[b] = height[c] => Most(h[b]) <= low[c]

AimedOn(h, live, height, low, q, k, E) ==
    /\ ShapeOn(h, live, height, q, 0, 0) /\ Order(h, live, low, 0) /\ Guided(h, q, k)
    /\ Aim(h, live, height, low, Cur(q), k)
    /\ E = EntriesAt(h, live)

AimedAt(h, q, k, E) == \E live, height, low : AimedOn(h, live, height, low, q, k, E)

LEMMA AimHasShape ==
    ASSUME NEW h, NEW q, NEW k, NEW E, AimedAt(h, q, k, E)
    PROVE  ShapeAt(h, q, 0, 0)
  BY DEF AimedAt, AimedOn, ShapeAt

\* A call starts at the root.
LEMMA StartsAimed ==
    ASSUME NEW h, NEW j, NEW E, TreeAt(h, <<>>, 0, 0, j, E), NEW k \in Int
    PROVE  AimedAt(h, <<>>, k, E)
<1>1. PICK live, height, low : TreeOn(h, live, height, low, <<>>, 0, 0, j, E)
  BY DEF TreeAt
<1>2. /\ ShapeOn(h, live, height, <<>>, 0, 0) /\ Order(h, live, low, 0) /\ E = EntriesAt(h, live)
  BY <1>1 DEF TreeOn, Cur
<1>3. PICK up, pos : Linked(h, live, height, up, pos)
  BY <1>2 DEF ShapeOn
<1>4. 0 \in live /\ live \subseteq Int /\ height \in [Int -> Nat] /\ low \in [Int -> Int]
      /\ \A a \in live \ {0} : height[a] < height[0]
  BY <1>2, <1>3 DEF Linked, Hung, Order
<1> DEFINE b == IF low[0] < k THEN low[0] ELSE k - 1
           low2 == [low EXCEPT ![0] = b]
<1>5. b \in Int /\ b <= low[0] /\ b < k
  <2>1. low[0] \in Int
    BY <1>4
  <2>2. QED
    BY <2>1
<1> HIDE DEF b
<1>6. low2 \in [Int -> Int] /\ low2[0] = b /\ \A a \in live \ {0} : low2[a] = low[a]
  BY <1>4, <1>5
<1> HIDE DEF low2
<1>7. Order(h, live, low2, 0)
  <2>1. Lowering(h, live, up, pos, low, low2, 0)
    BY <1>4, <1>5, <1>6 DEF Lowering
  <2>2. QED
    BY <2>1, <1>2, <1>3, OrderLowered
<1>8. Aim(h, live, height, low2, 0, k)
  <2>1. \A a \in live \ {0} : height[a] # height[0]
    <3>1. ASSUME NEW a \in live \ {0} PROVE height[a] # height[0]
      <4>1. height[a] \in Nat /\ height[0] \in Nat /\ height[a] < height[0]
        BY <1>4
      <4>2. QED
        BY <4>1
    <3>2. QED
      BY <3>1
  <2>2. QED
    BY <2>1, <1>5, <1>6 DEF Aim
<1>9. Guided(h, <<>>, k) /\ Cur(<<>>) = 0
  BY DEF Guided, Cur
<1>10. QED
  BY <1>2, <1>7, <1>8, <1>9 DEF AimedAt, AimedOn

\* The node at work is in the tree.
LEMMA CurLives ==
    ASSUME NEW h, NEW live, NEW height, NEW up, NEW pos, Linked(h, live, height, up, pos),
           NEW q, Chain(q, h, live, height)
    PROVE  Cur(q) \in live
<1>1. CASE q = <<>>
  BY <1>1 DEF Cur, Linked
<1>2. CASE q # <<>>
  <2> DEFINE p == q[Len(q)].node.id
             i == q[Len(q)].index
             c == Cur(q)
  <2>1. LastFrame(h, q, live, height, up, pos, p, i, c)
    BY <1>2, LastFrameProperties
  <2> HIDE DEF p, i, c
  <2>2. c \in live
    BY <2>1 DEF LastFrame
  <2>3. QED
    BY <2>2 DEF c
<1>3. QED
  BY <1>1, <1>2

\* The child of n that a set or del of k goes to.
IsWay(n, k, i) ==
    /\ i \in 1 .. Kids(n)
    /\ Parts(n, k, i) \/ (i = Kids(n) /\ Parts(n, k, i + 1))

LEMMA WayParts ==
    ASSUME NEW n, NEW k \in Int, NEW i, IsWay(n, k, i), Kids(n) \in Nat,
           \A j \in 1 .. Kids(n) : Key(n, j) \in Int
    PROVE  /\ \A j \in 1 .. Kids(n) : j < i => Key(n, j) < k
           /\ k <= Key(n, i) \/ (i = Kids(n) /\ Key(n, i) < k)
           /\ i < Kids(n) => k <= Key(n, i)
<1>1. i \in 1 .. Kids(n)
  BY DEF IsWay
<1>2. CASE Parts(n, k, i)
  BY <1>1, <1>2 DEF Parts
<1>3. CASE i = Kids(n) /\ Parts(n, k, i + 1)
  BY <1>1, <1>3 DEF Parts
<1>4. QED
  BY <1>2, <1>3 DEF IsWay

LEMMA EnterAimed ==
    ASSUME NEW h, NEW q, NEW k \in Int, NEW E, AimedAt(h, q, k, E),
           NEW n, n = h[Cur(q)], n \in NodeRecords, n.id = Cur(q), IsInner(n),
           NEW i, IsWay(n, k, i)
    PROVE  AimedAt(h, Append(q, [node |-> n, index |-> i]), k, E)
<1> DEFINE a == Cur(q)
           c == Kid(n, i)
           frame == [node |-> n, index |-> i]
           f == Append(q, frame)
<1>1. PICK live, height, low : AimedOn(h, live, height, low, q, k, E)
  BY DEF AimedAt
<1>2. /\ ShapeOn(h, live, height, q, 0, 0) /\ Order(h, live, low, 0) /\ Guided(h, q, k)
      /\ Aim(h, live, height, low, a, k)
      /\ E = EntriesAt(h, live)
  BY <1>1 DEF AimedOn
<1>3. PICK up, pos : Linked(h, live, height, up, pos) /\ Chain(q, h, live, height)
  BY <1>2 DEF ShapeOn
<1>4. i \in 1 .. Kids(n)
  BY DEF IsWay
<1>5. ShapeOn(h, live, height, f, 0, 0) /\ Cur(f) = c
  BY <1>2, <1>4, EnterTree
<1>6. a \in live
  BY <1>3, CurLives
<1>7. /\ live \subseteq Int /\ height \in [Int -> Nat] /\ low \in [Int -> Int]
      /\ \A b \in live \ {0} : height[b] < height[0]
      /\ Kids(n) \in Nat
      /\ \A j \in 1 .. Kids(n) :
            /\ Kid(n, j) \in live \ {0} /\ height[Kid(n, j)] + 1 = height[a]
            /\ up[Kid(n, j)] = a /\ pos[Kid(n, j)] = j
  <2>1. LinkedAt(n, a, live, height, up, pos)
    BY <1>3, <1>6 DEF Linked
  <2>2. QED
    BY <1>2, <1>3, <2>1 DEF Linked, LinkedAt, Hung, Order, IsInner
<1>8. /\ low[a] \in Int
      /\ \A j \in 1 .. Kids(n) : Key(n, j) \in Int /\ low[a] < Key(n, j)
      /\ \A j, l \in 1 .. Kids(n) : l < j => Key(n, l) < Key(n, j)
  BY <1>2, <1>6 DEF Order, Ordered, Rising
<1>9. /\ \A j \in 1 .. Kids(n) : j < i => Key(n, j) < k
      /\ k <= Key(n, i) \/ (i = Kids(n) /\ Key(n, i) < k)
      /\ i < Kids(n) => k <= Key(n, i)
  BY <1>7, <1>8, WayParts
<1>10. c \in live \ {0} /\ height[c] + 1 = height[a] /\ up[c] = a /\ pos[c] = i
  BY <1>4, <1>7
<1> HIDE DEF a, c
<1>11. /\ Most(h[c]) = Key(n, i) /\ low[c] \in Int /\ low[a] <= low[c]
       /\ \A j \in 1 .. Kids(n) : j < i => Key(n, j) <= low[c]
  <2>1. /\ Most(h[c]) = Key(h[up[c]], pos[c]) /\ low[c] \in Int /\ low[up[c]] <= low[c]
        /\ \A j \in 1 .. Kids(h[up[c]]) : j < pos[c] => Key(h[up[c]], j) <= low[c]
    BY <1>2, <1>3, <1>10, ChildBelow
  <2>2. h[up[c]] = n
    BY <1>10 DEF a
  <2>3. QED
    BY <2>1, <2>2, <1>10
<1> DEFINE b == IF i = 1 THEN low[a] ELSE Key(n, i - 1)
           low2 == [low EXCEPT ![c] = b]
<1>12. /\ b \in Int /\ b <= low[c] /\ low[a] <= b /\ b < k
       /\ \A j \in 1 .. Kids(n) : j < i => Key(n, j) <= b
  <2>1. CASE i = 1
    BY <2>1, <1>2, <1>4, <1>7, <1>8, <1>11 DEF Aim
  <2>2. CASE i # 1
    <3>1. i - 1 \in 1 .. Kids(n) /\ i - 1 < i
      BY <2>2, <1>4, <1>7
    <3>2. /\ b \in Int /\ b <= low[c] /\ low[a] <= b /\ b < k
      BY <3>1, <2>2, <1>8, <1>9, <1>11
    <3>3. ASSUME NEW j \in 1 .. Kids(n), j < i PROVE Key(n, j) <= b
      <4>1. j = i - 1 \/ j < i - 1
        BY <3>3, <1>4, <1>7
      <4>2. Key(n, j) \in Int /\ Key(n, i - 1) \in Int
        BY <3>1, <1>8
      <4>3. QED
        BY <4>1, <4>2, <3>1, <2>2, <1>8
    <3>4. QED
      BY <3>2, <3>3
  <2>3. QED
    BY <2>1, <2>2
<1> HIDE DEF b
<1>13. low2 \in [Int -> Int] /\ low2[c] = b /\ \A x \in live \ {c} : low2[x] = low[x]
  BY <1>7, <1>10, <1>12
<1> HIDE DEF low2
<1>14. Order(h, live, low2, 0)
  <2>1. h[up[c]] = n
    BY <1>10 DEF a
  <2>2. Lowering(h, live, up, pos, low, low2, c)
    BY <2>1, <1>10, <1>12, <1>13 DEF Lowering
  <2>3. QED
    BY <2>2, <1>2, <1>3, OrderLowered
<1>15. Aim(h, live, height, low2, c, k)
  <2>1. CASE k <= Key(n, i)
    BY <2>1, <1>11, <1>12, <1>13 DEF Aim
  <2>2. CASE i = Kids(n) /\ Key(n, i) < k
    <3>1. ASSUME NEW x \in live \ {c}, height[x] = height[c] PROVE Most(h[x]) <= b
      <4>1. x # 0
        <5>1. height[c] < height[0] /\ height[c] \in Nat /\ height[0] \in Nat
          BY <1>7, <1>10
        <5>2. QED
          BY <5>1, <3>1
      <4>2. /\ up[x] \in live /\ height[x] + 1 = height[up[x]]
            /\ pos[x] \in 1 .. Kids(h[up[x]]) /\ Kid(h[up[x]], pos[x]) = x
            /\ Most(h[x]) = Key(h[up[x]], pos[x]) /\ Most(h[x]) \in Int
            /\ Most(h[x]) <= Most(h[up[x]]) /\ Most(h[up[x]]) \in Int
        BY <4>1, <3>1, <1>2, <1>3, ChildBelow
      <4>3. CASE up[x] = a
        <5>1. h[up[x]] = n
          BY <4>3 DEF a
        <5>2. pos[x] # i
          BY <5>1, <4>2, <3>1 DEF c
        <5>3. pos[x] \in 1 .. Kids(n) /\ pos[x] < i
          BY <5>1, <5>2, <4>2, <2>2, <1>7
        <5>4. QED
          BY <5>1, <5>3, <4>2, <1>12
      <4>4. CASE up[x] # a
        <5>1. height[up[x]] = height[a]
          BY <4>2, <3>1, <1>10
        <5>2. ~ k <= Most(n)
          <6>1. Most(n) = Key(n, i)
            BY <2>2 DEF Most
          <6>2. QED
            BY <6>1, <2>2, <1>4, <1>8
        <5>3. \A y \in live \ {a} : height[y] = height[a] => Most(h[y]) <= low[a]
          BY <5>2, <1>2 DEF Aim, a
        <5>4. Most(h[up[x]]) <= low[a]
          BY <5>1, <5>3, <4>2, <4>4
        <5>5. QED
          BY <5>4, <4>2, <1>8, <1>12
      <4>5. QED
        BY <4>3, <4>4
    <3>2. QED
      BY <3>1, <1>12, <1>13 DEF Aim
  <2>3. QED
    BY <2>1, <2>2, <1>9
<1>16. Guided(h, f, k)
  <2>1. q \in Seq(Frames)
    BY <1>3 DEF Chain
  <2>2. frame \in Frames /\ frame.node = n /\ frame.index = i
    BY <1>4, <1>7 DEF Frames
  <2> HIDE DEF frame
  <2>3. /\ Len(f) = Len(q) + 1 /\ Len(q) \in Nat
        /\ \A j \in 1 .. Len(q) : f[j] = q[j]
        /\ f[Len(q) + 1] = frame
    BY <2>1, <2>2, AppendProperties, LenProperties
  <2> HIDE DEF f
  <2>4. GuidedAt(frame, h, k)
    BY <2>2, <1>9 DEF GuidedAt, a
  <2>5. ASSUME NEW j \in 1 .. Len(f) PROVE GuidedAt(f[j], h, k)
    <3>1. j \in 1 .. Len(q) \/ j = Len(q) + 1
      BY <2>3
    <3>2. QED
      BY <3>1, <2>3, <2>4, <1>2 DEF Guided
  <2>6. QED
    BY <2>5 DEF Guided
<1>17. AimedOn(h, live, height, low2, f, k, E)
  BY <1>2, <1>5, <1>14, <1>15, <1>16 DEF AimedOn
<1>18. QED
  BY <1>17 DEF AimedAt, f, frame

\* The key k is in no other leaf than the one the call has come to.
LEMMA OnlyHere ==
    ASSUME NEW h, NEW live, NEW height, NEW up, NEW pos, Linked(h, live, height, up, pos),
           NEW low, Order(h, live, low, 0), NEW c \in live, NEW k \in Int,
           Aim(h, live, height, low, c, k), h[c].leaf, NEW b \in live \ {c}, NEW e \in Own(h[b])
    PROVE  e[1] # k
<1>1. h[b].leaf /\ \E j \in 1 .. Kids(h[b]) : e = <<Key(h[b], j), Kid(h[b], j)>>
  BY DEF Own, PairsOf
<1>2. PICK j \in 1 .. Kids(h[b]) : e = <<Key(h[b], j), Kid(h[b], j)>>
  BY <1>1
<1>3. height[b] = 0 /\ height[c] = 0 /\ Kids(h[b]) \in Nat
  BY <1>1 DEF Linked, LinkedAt
<1>4. /\ low[b] \in Int /\ low[b] < Key(h[b], j) /\ Key(h[b], j) \in Int
      /\ \A i, l \in 1 .. Kids(h[b]) : l < i => Key(h[b], l) < Key(h[b], i)
      /\ \A i \in 1 .. Kids(h[b]) : Key(h[b], i) \in Int
  BY DEF Order, Ordered, Rising
<1>5. low[c] \in Int /\ low[c] < k
  BY DEF Order, Ordered, Rising, Aim
<1>6. Key(h[b], j) <= Most(h[b]) /\ Most(h[b]) \in Int
  <2>1. Kids(h[b]) \in 1 .. Kids(h[b])
    BY <1>3
  <2>2. j = Kids(h[b]) \/ j < Kids(h[b])
    BY <1>3
  <2>3. QED
    BY <2>1, <2>2, <1>4 DEF Most
<1>7. Apart(h, low, c, b)
  BY <1>3, RowsApart
<1>8. CASE Most(h[b]) <= low[c]
  BY <1>8, <1>2, <1>4, <1>5, <1>6
<1>9. CASE Most(h[c]) <= low[b] /\ k <= Most(h[c])
  <2>1. Most(h[c]) \in Int \/ Kids(h[c]) = 0
    <3>1. /\ \A i \in 1 .. Kids(h[c]) : Key(h[c], i) \in Int
          /\ Kids(h[c]) \in Nat
      BY DEF Order, Ordered, Rising, Linked, LinkedAt
    <3>2. Kids(h[c]) = 0 \/ Kids(h[c]) \in 1 .. Kids(h[c])
      BY <3>1
    <3>3. QED
      BY <3>1, <3>2 DEF Most
  <2>2. c # 0 \/ b # 0
    OBVIOUS
  <2>3. Most(h[c]) \in Int
    <3>1. c # 0
      <4>1. ASSUME c = 0 PROVE FALSE
        <5>1. height[b] < height[0]
          BY <4>1 DEF Linked, Hung
        <5>2. QED
          BY <5>1, <4>1, <1>3
      <4>2. QED
        BY <4>1
    <3>2. QED
      BY <3>1, ChildBelow
  <2>4. QED
    BY <2>3, <1>2, <1>4, <1>9
<1>10. QED
  BY <1>3, <1>7, <1>8, <1>9 DEF Aim, Apart

\* The leaf at work becomes m, in the heap g.
LeafBecomes(h, g, c, m) ==
    /\ DOMAIN g = DOMAIN h /\ m = g[c] /\ m.leaf
    /\ \A x \in DOMAIN h : x # c => g[x] = h[x]

LEMMA LeafInOrder ==
    ASSUME NEW h, NEW live, NEW height, NEW low, NEW q, NEW k \in Int, NEW E,
           AimedOn(h, live, height, low, q, k, E),
           NEW c, c = Cur(q), NEW g, NEW m, LeafBecomes(h, g, c, m),
           NEW less \in Nat, NEW more \in Nat, LeafResized(m, h[c], less, more),
           Rising(m, low[c]), q # <<>> => UpTo(Most(m), Most(h[c]), k)
    PROVE  TreeAt(g, q, less, more, k, EntriesAt(h, live \ {c}) \cup PairsOf(m))
<1>1. /\ ShapeOn(h, live, height, q, 0, 0) /\ Order(h, live, low, 0) /\ Guided(h, q, k)
  BY DEF AimedOn
<1>2. PICK up, pos : Linked(h, live, height, up, pos) /\ Chain(q, h, live, height)
  BY <1>1 DEF ShapeOn
<1>3. c \in live
  BY <1>2, CurLives
<1>4. /\ DOMAIN g = DOMAIN h /\ m = g[c] /\ m.leaf
      /\ \A x \in DOMAIN h : x # c => g[x] = h[x]
      /\ live \subseteq DOMAIN h /\ h[c].leaf
  BY <1>2 DEF LeafBecomes, Linked, LeafResized
<1>5. ShapeOn(g, live, height, q, less, more)
  BY <1>1, <1>4, LeafTree
<1>6. \A b \in live \ {c} : g[b] = h[b]
  BY <1>4
<1>7. ASSUME NEW b \in live PROVE Ordered(g[b], low[b], g, low, c)
  <2>1. CASE b = c
    BY <2>1, <1>4 DEF Ordered
  <2>2. CASE b # c
    <3>1. SameBody(g[b], h[b])
      BY <2>2, <1>6 DEF SameBody, SameCore
    <3>2. Ordered(h[b], low[b], h, low, 0)
      BY <1>1 DEF Order
    <3>3. ASSUME IsInner(h[b]) PROVE Unmoved(h[b], h, low, 0, g, low, c)
      <4>1. \A i \in 1 .. Kids(h[b]) : Kid(h[b], i) \in live \ {0}
        BY <3>3, <1>2 DEF Linked, LinkedAt, IsInner
      <4>2. QED
        BY <4>1, <1>6 DEF Unmoved
    <3>4. QED
      BY <3>1, <3>2, <3>3, OrderedMoves
  <2>3. QED
    BY <2>1, <2>2
<1>8. Order(g, live, low, c)
  BY <1>1, <1>7 DEF Order
<1>9. ASSUME NEW i \in 1 .. Len(q)
      PROVE  /\ q[i].node.id \in live /\ q[i].node.id # c
             /\ q[i].node.keys = h[q[i].node.id].keys
  <2>1. Framed(q[i], i, h, live, height)
    BY <1>2 DEF Chain, OnPath
  <2>2. q[i].node.id \in live /\ h[q[i].node.id].leaf = FALSE
    BY <2>1 DEF Framed, SameCore
  <2>3. QED
    BY <2>2, <1>1, <1>4 DEF Guided, GuidedAt
<1>10. Guided(g, q, k)
  BY <1>1, <1>6, <1>9 DEF Guided, GuidedAt
<1>11. Edged(g, q, k)
  <2>1. CASE q # <<>>
    <3> DEFINE p == q[Len(q)].node.id
               i == q[Len(q)].index
    <3>1. LastFrame(h, q, live, height, up, pos, p, i, c)
      BY <2>1, <1>2, LastFrameProperties
    <3>2. Len(q) \in 1 .. Len(q)
      <4>1. Len(q) \in Nat /\ Len(q) # 0
        BY <2>1, <1>2, LenProperties, EmptySeq DEF Chain
      <4>2. QED
        BY <4>1
    <3>3. q[Len(q)].node.keys = h[p].keys
      BY <3>2, <1>9
    <3> HIDE DEF p, i
    <3>4. p \in live /\ h[p].leaf = FALSE /\ i \in 1 .. Kids(h[p]) /\ Kid(h[p], i) = c /\ c # 0
      BY <3>1 DEF LastFrame
    <3>5. Ordered(h[p], low[p], h, low, 0)
      BY <3>4, <1>1 DEF Order
    <3>6. Key(h[p], i) = Most(h[c])
      BY <3>4, <3>5 DEF Ordered, Tops
    <3>7. Key(q[Len(q)].node, i) = Most(h[c])
      BY <3>3, <3>6 DEF Key
    <3>8. QED
      BY <3>7, <2>1, <1>4 DEF Edged, i
  <2>2. QED
    BY <2>1 DEF Edged
<1>12. EntriesAt(h, live \ {c}) \cup PairsOf(m) = EntriesAt(g, live)
  <2>1. EntriesAt(g, live \ {c}) = EntriesAt(h, live \ {c})
    BY <1>6 DEF EntriesAt
  <2>2. EntriesAt(g, {c}) = PairsOf(m)
    BY <1>4 DEF EntriesAt, Own
  <2>3. live = (live \ {c}) \cup {c}
    BY <1>3
  <2>4. EntriesAt(g, live) = EntriesAt(g, live \ {c}) \cup EntriesAt(g, {c})
    BY <2>3, EntriesOfBoth
  <2>5. QED
    BY <2>1, <2>2, <2>4
<1>13. TreeOn(g, live, height, low, q, less, more, k, EntriesAt(h, live \ {c}) \cup PairsOf(m))
  BY <1>5, <1>8, <1>10, <1>11, <1>12 DEF TreeOn
<1>14. QED
  BY <1>13 DEF TreeAt

\* A leaf with the new key k at its place, over v, and one without its key at i.
LEMMA LeafGrown ==
    ASSUME NEW n, NEW b, Rising(n, b), Kids(n) \in Nat,
           NEW k \in Int, b < k, NEW i, Parts(n, k, i), \A j \in 1 .. Kids(n) : Key(n, j) # k,
           NEW v, NEW m, Grown(m, n, i, v), KeysGrown(m, n, i, k)
    PROVE  /\ Rising(m, b) /\ PairsOf(m) = PairsOf(n) \cup {<<k, v>>}
           /\ UpTo(Most(m), Most(n), k)
<1>1. /\ b \in Int /\ i \in 1 .. Kids(n) + 1 /\ Kids(n) \in Nat
      /\ \A j \in 1 .. Kids(n) : Key(n, j) \in Int /\ b < Key(n, j)
      /\ \A j, l \in 1 .. Kids(n) : l < j => Key(n, l) < Key(n, j)
  BY DEF Rising, Parts
<1>2. \A j \in 1 .. Kids(n) : IF j < i THEN Key(n, j) < k ELSE k < Key(n, j)
  BY <1>1 DEF Parts
<1>3. Kids(m) = Kids(n) + 1
  BY DEF Grown
<1>4. \A j \in 1 .. Kids(n) + 1 :
            /\ Kid(m, j) = IF j < i THEN Kid(n, j) ELSE IF j = i THEN v ELSE Kid(n, j - 1)
            /\ Key(m, j) = IF j < i THEN Key(n, j) ELSE IF j = i THEN k ELSE Key(n, j - 1)
  BY DEF Grown, KeysGrown
<1>5. ASSUME NEW j \in 1 .. Kids(m) PROVE Key(m, j) \in Int /\ b < Key(m, j)
  <2>1. CASE j < i
    <3>1. j \in 1 .. Kids(n)
      BY <2>1, <1>1, <1>3
    <3>2. QED
      BY <3>1, <2>1, <1>1, <1>3, <1>4
  <2>2. CASE j = i
    BY <2>2, <1>1, <1>3, <1>4
  <2>3. CASE j > i
    <3>1. j - 1 \in 1 .. Kids(n)
      BY <2>3, <1>1, <1>3
    <3>2. QED
      BY <3>1, <2>3, <1>1, <1>3, <1>4
  <2>4. QED
    BY <2>1, <2>2, <2>3, <1>1
<1>6. ASSUME NEW j \in 1 .. Kids(m), NEW l \in 1 .. Kids(m), l < j
      PROVE  Key(m, l) < Key(m, j)
  <2>1. CASE j < i
    <3>1. j \in 1 .. Kids(n) /\ l \in 1 .. Kids(n) /\ l < i
      BY <2>1, <1>1, <1>3, <1>6
    <3>2. QED
      BY <3>1, <2>1, <1>1, <1>3, <1>4, <1>6
  <2>2. CASE j = i
    <3>1. l \in 1 .. Kids(n) /\ l < i
      BY <2>2, <1>1, <1>3, <1>6
    <3>2. QED
      BY <3>1, <2>2, <1>2, <1>3, <1>4
  <2>3. CASE j > i
    <3>1. j - 1 \in 1 .. Kids(n) /\ ~ j - 1 < i
      BY <2>3, <1>1, <1>3
    <3>2. Key(m, j) = Key(n, j - 1) /\ k < Key(n, j - 1)
      BY <3>1, <2>3, <1>1, <1>2, <1>3, <1>4
    <3>3. CASE l < i
      <4>1. (l \in 1 .. Kids(n) /\ l < j - 1) \/ l = j - 1
        BY <3>3, <2>3, <1>1, <1>3
      <4>2. l \in 1 .. Kids(n)
        BY <3>3, <1>1, <1>3
      <4>3. Key(m, l) = Key(n, l) /\ Key(n, l) < k
        BY <4>2, <3>3, <1>2, <1>3, <1>4
      <4>4. QED
        BY <4>2, <4>3, <3>1, <3>2, <1>1
    <3>4. CASE l = i
      BY <3>2, <3>4, <1>3, <1>4
    <3>5. CASE l > i
      <4>1. l - 1 \in 1 .. Kids(n) /\ l - 1 < j - 1
        BY <3>5, <1>1, <1>3, <1>6
      <4>2. Key(m, l) = Key(n, l - 1)
        BY <3>5, <1>1, <1>3, <1>4
      <4>3. QED
        BY <4>1, <4>2, <3>1, <3>2, <1>1
    <3>6. QED
      BY <3>3, <3>4, <3>5, <1>1
  <2>4. QED
    BY <2>1, <2>2, <2>3, <1>1
<1>7. ASSUME NEW j \in 1 .. Kids(m)
      PROVE  <<Key(m, j), Kid(m, j)>> \in PairsOf(n) \cup {<<k, v>>}
  <2>1. CASE j < i
    <3>1. j \in 1 .. Kids(n) /\ Key(m, j) = Key(n, j) /\ Kid(m, j) = Kid(n, j)
      BY <2>1, <1>1, <1>3, <1>4
    <3>2. QED
      BY <3>1 DEF PairsOf
  <2>2. CASE j = i
    BY <2>2, <1>3, <1>4
  <2>3. CASE j > i
    <3>1. j - 1 \in 1 .. Kids(n) /\ Key(m, j) = Key(n, j - 1) /\ Kid(m, j) = Kid(n, j - 1)
      BY <2>3, <1>1, <1>3, <1>4
    <3>2. QED
      BY <3>1 DEF PairsOf
  <2>4. QED
    BY <2>1, <2>2, <2>3, <1>1
<1>8. ASSUME NEW j \in 1 .. Kids(n) PROVE <<Key(n, j), Kid(n, j)>> \in PairsOf(m)
  <2>1. CASE j < i
    <3>1. j \in 1 .. Kids(m) /\ Key(m, j) = Key(n, j) /\ Kid(m, j) = Kid(n, j)
      BY <2>1, <1>1, <1>3, <1>4
    <3>2. QED
      BY <3>1 DEF PairsOf
  <2>2. CASE ~ j < i
    <3>1. j + 1 \in 1 .. Kids(n) + 1 /\ ~ j + 1 < i /\ j + 1 # i /\ (j + 1) - 1 = j
      BY <2>2, <1>1
    <3>2. Key(m, j + 1) = Key(n, j) /\ Kid(m, j + 1) = Kid(n, j) /\ j + 1 \in 1 .. Kids(m)
      BY <3>1, <1>3, <1>4
    <3>3. <<Key(m, j + 1), Kid(m, j + 1)>> \in PairsOf(m)
      BY <3>2 DEF PairsOf
    <3>4. QED
      BY <3>2, <3>3
  <2>3. QED
    BY <2>1, <2>2
<1>9. <<k, v>> \in PairsOf(m)
  <2>1. i \in 1 .. Kids(m) /\ Key(m, i) = k /\ Kid(m, i) = v
    BY <1>1, <1>3, <1>4
  <2>2. QED
    BY <2>1 DEF PairsOf
<1>10. PairsOf(m) = PairsOf(n) \cup {<<k, v>>}
  BY <1>7, <1>8, <1>9 DEF PairsOf
<1>11. UpTo(Most(m), Most(n), k)
  <2>1. CASE i = Kids(n) + 1
    BY <2>1, <1>1, <1>3, <1>4 DEF Most, UpTo
  <2>2. CASE i # Kids(n) + 1
    <3>1. /\ Kids(n) + 1 \in 1 .. Kids(n) + 1 /\ ~ Kids(n) + 1 < i /\ (Kids(n) + 1) - 1 = Kids(n)
          /\ Kids(n) \in 1 .. Kids(n)
      BY <2>2, <1>1
    <3>2. Key(m, Kids(m)) = Key(n, Kids(n)) /\ Key(n, Kids(n)) \in Int
      BY <3>1, <2>2, <1>1, <1>3, <1>4
    <3>3. QED
      BY <3>2 DEF Most, UpTo
  <2>3. QED
    BY <2>1, <2>2
<1>12. Rising(m, b)
  BY <1>1, <1>5, <1>6 DEF Rising
<1>13. QED
  BY <1>10, <1>11, <1>12

LEMMA LeafShrunk ==
    ASSUME NEW n, NEW b, Rising(n, b), Kids(n) \in Nat, NEW i \in 1 .. Kids(n), NEW k,
           NEW m, Shrunk(m, n, i), KeysShrunk(m, n, i)
    PROVE  /\ Rising(m, b) /\ PairsOf(m) = PairsOf(n) \ {<<Key(n, i), Kid(n, i)>>}
           /\ Kids(n) >= 2 => UpTo(Most(m), Most(n), k)
<1>1. /\ b \in Int
      /\ \A j \in 1 .. Kids(n) : Key(n, j) \in Int /\ b < Key(n, j)
      /\ \A j, l \in 1 .. Kids(n) : l < j => Key(n, l) < Key(n, j)
  BY DEF Rising
<1>2. Kids(m) = Kids(n) - 1
  BY DEF Shrunk
<1>3. \A j \in 1 .. Kids(n) - 1 :
            /\ Kid(m, j) = IF j < i THEN Kid(n, j) ELSE Kid(n, j + 1)
            /\ Key(m, j) = IF j < i THEN Key(n, j) ELSE Key(n, j + 1)
  BY DEF Shrunk, KeysShrunk
<1> DEFINE old(j) == IF j < i THEN j ELSE j + 1
<1>4. ASSUME NEW j \in 1 .. Kids(m)
      PROVE  /\ old(j) \in 1 .. Kids(n) /\ old(j) # i
             /\ Key(m, j) = Key(n, old(j)) /\ Kid(m, j) = Kid(n, old(j))
  BY <1>2, <1>3
<1>5. ASSUME NEW j \in 1 .. Kids(m), NEW l \in 1 .. Kids(m), l < j PROVE old(l) < old(j)
  BY <1>2, <1>5
<1>6. ASSUME NEW j \in 1 .. Kids(n), j # i PROVE \E l \in 1 .. Kids(m) : old(l) = j
  <2>1. CASE j < i
    BY <2>1, <1>2
  <2>2. CASE j > i
    <3>1. j - 1 \in 1 .. Kids(m) /\ old(j - 1) = j
      BY <2>2, <1>2
    <3>2. QED
      BY <3>1
  <2>3. QED
    BY <2>1, <2>2, <1>6
<1> HIDE DEF old
<1>7. Rising(m, b)
  BY <1>1, <1>4, <1>5 DEF Rising
<1>8. ASSUME NEW j \in 1 .. Kids(m)
      PROVE  <<Key(m, j), Kid(m, j)>> \in PairsOf(n) \ {<<Key(n, i), Kid(n, i)>>}
  <2>1. old(j) \in 1 .. Kids(n) /\ (old(j) < i \/ i < old(j))
    BY <1>4
  <2>2. Key(n, old(j)) # Key(n, i)
    BY <2>1, <1>1, <1>4
  <2>3. QED
    BY <2>2, <1>4 DEF PairsOf
<1>9. ASSUME NEW j \in 1 .. Kids(n), j # i PROVE <<Key(n, j), Kid(n, j)>> \in PairsOf(m)
  <2>1. PICK l \in 1 .. Kids(m) : old(l) = j
    BY <1>6, <1>9
  <2>2. QED
    BY <2>1, <1>4 DEF PairsOf
<1>10. PairsOf(m) = PairsOf(n) \ {<<Key(n, i), Kid(n, i)>>}
  <2>1. PairsOf(m) \subseteq PairsOf(n) \ {<<Key(n, i), Kid(n, i)>>}
    BY <1>8 DEF PairsOf
  <2>2. ASSUME NEW e \in PairsOf(n), e # <<Key(n, i), Kid(n, i)>> PROVE e \in PairsOf(m)
    <3>1. PICK j \in 1 .. Kids(n) : e = <<Key(n, j), Kid(n, j)>>
      BY DEF PairsOf
    <3>2. QED
      BY <3>1, <2>2, <1>9
  <2>3. QED
    BY <2>1, <2>2
<1>11. ASSUME Kids(n) >= 2 PROVE UpTo(Most(m), Most(n), k)
  <2>1. Kids(m) \in 1 .. Kids(m) /\ Kids(n) \in 1 .. Kids(n)
    BY <1>2, <1>11
  <2>2. old(Kids(m)) \in 1 .. Kids(n) /\ Key(m, Kids(m)) = Key(n, old(Kids(m)))
    BY <2>1, <1>4
  <2>3. Key(n, old(Kids(m))) <= Key(n, Kids(n))
    <3>1. old(Kids(m)) = Kids(n) \/ old(Kids(m)) < Kids(n)
      BY <2>2
    <3>2. QED
      BY <3>1, <2>1, <2>2, <1>1
  <2>4. QED
    BY <2>2, <2>3 DEF Most, UpTo
<1>12. QED
  BY <1>7, <1>10, <1>11

\* What a call finds in the leaf it has come to.
AtLeaf(h, live, low, q, c, k, E) ==
    /\ E = EntriesAt(h, live \ {c}) \cup PairsOf(h[c])
    /\ \A e \in EntriesAt(h, live \ {c}) : e[1] # k
    /\ Rising(h[c], low[c]) /\ low[c] < k /\ Kids(h[c]) \in Nat
    /\ q # <<>> => Kids(h[c]) >= 2

LEMMA LeafFinds ==
    ASSUME NEW h, NEW live, NEW height, NEW low, NEW q, NEW k \in Int, NEW E,
           AimedOn(h, live, height, low, q, k, E), NEW c, c = Cur(q), h[c].leaf
    PROVE  AtLeaf(h, live, low, q, c, k, E)
<1>1. /\ ShapeOn(h, live, height, q, 0, 0) /\ Order(h, live, low, 0)
      /\ Aim(h, live, height, low, c, k) /\ E = EntriesAt(h, live)
  BY DEF AimedOn
<1>2. PICK up, pos : /\ Linked(h, live, height, up, pos) /\ Chain(q, h, live, height)
                     /\ Sizes(h, live, c, 0, 0)
  BY <1>1 DEF ShapeOn
<1>3. c \in live
  BY <1>2, CurLives
<1>4. Rising(h[c], low[c]) /\ low[c] < k
  BY <1>1, <1>3 DEF Order, Ordered, Aim
<1>5. Kids(h[c]) \in Nat
  BY <1>2, <1>3 DEF Linked, LinkedAt
<1>6. ASSUME q # <<>> PROVE Kids(h[c]) >= 2
  <2> DEFINE p == q[Len(q)].node.id
             i == q[Len(q)].index
  <2>1. LastFrame(h, q, live, height, up, pos, p, i, c)
    BY <1>2, <1>6, LastFrameProperties
  <2> HIDE DEF p, i
  <2>2. c # 0
    BY <2>1 DEF LastFrame
  <2>3. c \in DOMAIN h
    BY <1>2, <1>3 DEF Linked
  <2>4. Size(h[c]) + 0 >= NodeSize /\ Kids(h[c]) = Size(h[c])
    BY <2>2, <2>3, <1>2, <1>3 DEF Sizes, Least
  <2>5. QED
    BY <2>4, <1>5, NodeSizeAssumption
<1>7. \A e \in EntriesAt(h, live \ {c}) : e[1] # k
  <2>1. ASSUME NEW b \in live \ {c}, NEW e \in Own(h[b]) PROVE e[1] # k
    BY <1>1, <1>2, <1>3, OnlyHere
  <2>2. QED
    BY <2>1 DEF EntriesAt
<1>8. E = EntriesAt(h, live \ {c}) \cup PairsOf(h[c])
  <2>1. live = (live \ {c}) \cup {c}
    BY <1>3
  <2>2. EntriesAt(h, {c}) = PairsOf(h[c])
    BY DEF EntriesAt, Own
  <2>3. EntriesAt(h, live) = EntriesAt(h, live \ {c}) \cup EntriesAt(h, {c})
    BY <2>1, EntriesOfBoth
  <2>4. QED
    BY <2>2, <2>3, <1>1
<1>9. QED
  BY <1>4, <1>5, <1>6, <1>7, <1>8 DEF AtLeaf

LeafAdds(n, m, k, i, v) ==
    /\ Parts(n, k, i) /\ (i <= Kids(n) => Key(n, i) # k)
    /\ Grown(m, n, i, v) /\ KeysGrown(m, n, i, k)

LEMMA AddInOrder ==
    ASSUME NEW h, NEW q, NEW k \in Int, NEW E, AimedAt(h, q, k, E), NEW c, c = Cur(q),
           NEW g, NEW m, LeafBecomes(h, g, c, m), LeafResized(m, h[c], 0, 1),
           NEW i, NEW v, LeafAdds(h[c], m, k, i, v)
    PROVE  /\ TreeAt(g, q, 0, 1, k, E \cup {<<k, v>>})
           /\ \A e \in E : e[1] # k
<1> DEFINE n == h[c]
<1>1. PICK live, height, low : AimedOn(h, live, height, low, q, k, E)
  BY DEF AimedAt
<1>2. n.leaf
  BY DEF LeafResized
<1>3. AtLeaf(h, live, low, q, c, k, E)
  BY <1>1, <1>2, LeafFinds
<1>4. /\ E = EntriesAt(h, live \ {c}) \cup PairsOf(n)
      /\ \A e \in EntriesAt(h, live \ {c}) : e[1] # k
      /\ Rising(n, low[c]) /\ low[c] < k /\ Kids(n) \in Nat
  BY <1>3 DEF AtLeaf
<1> HIDE DEF n
<1>5. /\ Parts(n, k, i) /\ (i <= Kids(n) => Key(n, i) # k)
      /\ Grown(m, n, i, v) /\ KeysGrown(m, n, i, k)
  BY DEF LeafAdds, n
<1>6. \A j \in 1 .. Kids(n) : Key(n, j) # k
  <2>1. ASSUME NEW j \in 1 .. Kids(n) PROVE Key(n, j) # k
    <3>1. i \in 1 .. Kids(n) + 1 /\ (IF j < i THEN Key(n, j) < k ELSE k <= Key(n, j))
      BY <1>5 DEF Parts
    <3>2. Key(n, j) \in Int
      BY <1>4 DEF Rising
    <3>3. CASE j < i
      BY <3>1, <3>2, <3>3
    <3>4. CASE j = i
      BY <3>4, <1>4, <1>5
    <3>5. CASE i < j
      <4>1. i \in 1 .. Kids(n)
        BY <3>1, <3>5, <1>4
      <4>2. k <= Key(n, i) /\ Key(n, i) < Key(n, j) /\ Key(n, i) \in Int
        BY <4>1, <3>5, <1>4, <1>5 DEF Parts, Rising
      <4>3. QED
        BY <4>2, <3>2
    <3>6. QED
      BY <3>1, <3>3, <3>4, <3>5, <1>4
  <2>2. QED
    BY <2>1
<1>7. /\ Rising(m, low[c]) /\ PairsOf(m) = PairsOf(n) \cup {<<k, v>>}
      /\ UpTo(Most(m), Most(n), k)
  BY <1>4, <1>5, <1>6, LeafGrown
<1>8. TreeAt(g, q, 0, 1, k, EntriesAt(h, live \ {c}) \cup PairsOf(m))
  BY <1>1, <1>7, LeafInOrder DEF n
<1>9. EntriesAt(h, live \ {c}) \cup PairsOf(m) = E \cup {<<k, v>>}
  BY <1>4, <1>7
<1>10. \A e \in E : e[1] # k
  BY <1>4, <1>6 DEF PairsOf
<1>11. QED
  BY <1>8, <1>9, <1>10

\* A set of a key that the leaf has changes no node.
LEMMA ReplaceInOrder ==
    ASSUME NEW h, NEW q, NEW k \in Int, NEW E, AimedAt(h, q, k, E), NEW c, c = Cur(q),
           LeafBecomes(h, h, c, h[c]), LeafResized(h[c], h[c], 0, 1),
           NEW i \in 1 .. Kids(h[c]), Key(h[c], i) = k
    PROVE  TreeAt(h, q, 0, 1, k, E) /\ <<k, Kid(h[c], i)>> \in E
<1> DEFINE n == h[c]
<1>1. PICK live, height, low : AimedOn(h, live, height, low, q, k, E)
  BY DEF AimedAt
<1>2. n.leaf
  BY DEF LeafResized
<1>3. AtLeaf(h, live, low, q, c, k, E)
  BY <1>1, <1>2, LeafFinds
<1>4. /\ E = EntriesAt(h, live \ {c}) \cup PairsOf(n)
      /\ Rising(n, low[c]) /\ Kids(n) \in Nat
  BY <1>3 DEF AtLeaf
<1>5. UpTo(Most(n), Most(n), k)
  <2>1. Kids(n) \in 1 .. Kids(n)
    BY <1>4
  <2>2. Most(n) \in Int
    BY <2>1, <1>4 DEF Rising, Most
  <2>3. QED
    BY <2>2 DEF UpTo
<1>6. TreeAt(h, q, 0, 1, k, EntriesAt(h, live \ {c}) \cup PairsOf(n))
  BY <1>1, <1>4, <1>5, LeafInOrder
<1>7. <<k, Kid(n, i)>> \in PairsOf(n)
  BY DEF PairsOf
<1>8. QED
  BY <1>4, <1>6, <1>7

LEMMA DeleteInOrder ==
    ASSUME NEW h, NEW q, NEW k \in Int, NEW E, AimedAt(h, q, k, E), NEW c, c = Cur(q),
           NEW g, NEW m, LeafBecomes(h, g, c, m), LeafResized(m, h[c], 1, 0),
           NEW i \in 1 .. Kids(h[c]), Key(h[c], i) = k,
           Shrunk(m, h[c], i), KeysShrunk(m, h[c], i)
    PROVE  /\ TreeAt(g, q, 1, 0, k, E \ {<<k, Kid(h[c], i)>>})
           /\ <<k, Kid(h[c], i)>> \in E
<1> DEFINE n == h[c]
<1>1. PICK live, height, low : AimedOn(h, live, height, low, q, k, E)
  BY DEF AimedAt
<1>2. n.leaf
  BY DEF LeafResized
<1>3. AtLeaf(h, live, low, q, c, k, E)
  BY <1>1, <1>2, LeafFinds
<1>4. /\ E = EntriesAt(h, live \ {c}) \cup PairsOf(n)
      /\ \A e \in EntriesAt(h, live \ {c}) : e[1] # k
      /\ Rising(n, low[c]) /\ Kids(n) \in Nat
      /\ q # <<>> => Kids(n) >= 2
  BY <1>3 DEF AtLeaf
<1>5. /\ Rising(m, low[c]) /\ PairsOf(m) = PairsOf(n) \ {<<k, Kid(n, i)>>}
      /\ Kids(n) >= 2 => UpTo(Most(m), Most(n), k)
  <2>1. /\ Rising(m, low[c]) /\ PairsOf(m) = PairsOf(n) \ {<<Key(n, i), Kid(n, i)>>}
        /\ Kids(n) >= 2 => UpTo(Most(m), Most(n), k)
    BY <1>4, LeafShrunk
  <2>2. QED
    BY <2>1
<1>6. TreeAt(g, q, 1, 0, k, EntriesAt(h, live \ {c}) \cup PairsOf(m))
  BY <1>1, <1>4, <1>5, LeafInOrder
<1>7. <<k, Kid(n, i)>> \in PairsOf(n)
  BY DEF PairsOf
<1>8. EntriesAt(h, live \ {c}) \cup PairsOf(m) = E \ {<<k, Kid(n, i)>>}
  <2> DEFINE e == <<k, Kid(n, i)>>
             others == EntriesAt(h, live \ {c})
  <2>1. e \notin others
    <3>1. e[1] = k
      OBVIOUS
    <3>2. QED
      BY <3>1, <1>4
  <2>2. E = others \cup PairsOf(n) /\ PairsOf(m) = PairsOf(n) \ {e}
    BY <1>4, <1>5
  <2> HIDE DEF e, others
  <2>3. others \cup PairsOf(m) = E \ {e}
    BY <2>1, <2>2
  <2>4. QED
    BY <2>3 DEF e, others
<1>9. QED
  BY <1>4, <1>6, <1>7, <1>8

-------------------------------------------------------------------------------
\* The root, and the heaps a call leaves behind.

LEMMA RootStaysInOrder ==
    ASSUME NEW h, NEW less \in Nat, NEW more \in Nat, NEW k, NEW E,
           TreeAt(h, <<>>, less, more, k, E), RootFits(h[0])
    PROVE  TreeAt(h, <<>>, 0, 0, k, E)
<1>1. PICK live, height, low : TreeOn(h, live, height, low, <<>>, less, more, k, E)
  BY DEF TreeAt
<1>2. ShapeOn(h, live, height, <<>>, less, more)
  BY <1>1 DEF TreeOn
<1>3. ShapeOn(h, live, height, <<>>, 0, 0)
  BY <1>2, RootStaysTree
<1>4. TreeOn(h, live, height, low, <<>>, 0, 0, k, E)
  BY <1>1, <1>3 DEF TreeOn
<1>5. QED
  BY <1>4 DEF TreeAt

\* A call that has changed nothing may end anywhere.
LEMMA HomeInOrder ==
    ASSUME NEW h, NEW q, NEW k, NEW E, AimedAt(h, q, k, E), NEW j
    PROVE  TreeAt(h, <<>>, 0, 0, j, E)
<1>1. PICK live, height, low : AimedOn(h, live, height, low, q, k, E)
  BY DEF AimedAt
<1>2. ShapeOn(h, live, height, q, 0, 0) /\ Order(h, live, low, 0) /\ E = EntriesAt(h, live)
  BY <1>1 DEF AimedOn
<1>3. ShapeOn(h, live, height, <<>>, 0, 0)
  BY <1>2, HomeTree
<1>4. Guided(h, <<>>, j) /\ Edged(h, <<>>, j) /\ Cur(<<>>) = 0
  BY DEF Guided, Edged, Cur
<1>5. TreeOn(h, live, height, low, <<>>, 0, 0, j, E)
  BY <1>2, <1>3, <1>4 DEF TreeOn
<1>6. QED
  BY <1>5 DEF TreeAt

\* The nodes of the tree keep their bodies.
LEMMA SameOrder ==
    ASSUME NEW h, NEW live, NEW height, NEW up, NEW pos, Linked(h, live, height, up, pos),
           NEW low, NEW x, Order(h, live, low, x), NEW g, \A a \in live : SameBody(g[a], h[a])
    PROVE  Order(g, live, low, x) /\ EntriesAt(g, live) = EntriesAt(h, live)
<1>1. \A a \in live : Own(g[a]) = Own(h[a]) /\ Most(g[a]) = Most(h[a])
  BY SameOwn
<1>2. ASSUME NEW a \in live PROVE Ordered(g[a], low[a], g, low, x)
  <2>1. SameBody(g[a], h[a]) /\ Ordered(h[a], low[a], h, low, x)
    BY DEF Order
  <2>2. ASSUME IsInner(h[a]) PROVE Unmoved(h[a], h, low, x, g, low, x)
    <3>1. \A i \in 1 .. Kids(h[a]) : Kid(h[a], i) \in live \ {0}
      BY <2>2 DEF Linked, LinkedAt, IsInner
    <3>2. QED
      BY <3>1, <1>1 DEF Unmoved
  <2>3. QED
    BY <2>1, <2>2, OrderedMoves
<1>3. Order(g, live, low, x)
  BY <1>2 DEF Order
<1>4. EntriesAt(g, live) = EntriesAt(h, live)
  BY <1>1 DEF EntriesAt
<1>5. QED
  BY <1>3, <1>4

LEMMA SameInOrder ==
    ASSUME NEW h, NEW q, NEW less \in Nat, NEW more \in Nat, NEW k, NEW E,
           TreeAt(h, q, less, more, k, E),
           NEW g, DOMAIN g = DOMAIN h, \A x \in DOMAIN h : SameBody(g[x], h[x])
    PROVE  TreeAt(g, q, less, more, k, E)
<1>1. PICK live, height, low : TreeOn(h, live, height, low, q, less, more, k, E)
  BY DEF TreeAt
<1>2. /\ ShapeOn(h, live, height, q, less, more) /\ Order(h, live, low, Cur(q))
      /\ Guided(h, q, k) /\ Edged(h, q, k) /\ E = EntriesAt(h, live)
  BY <1>1 DEF TreeOn
<1>3. PICK up, pos : Linked(h, live, height, up, pos) /\ Chain(q, h, live, height)
  BY <1>2 DEF ShapeOn
<1>4. live \subseteq DOMAIN h /\ Cur(q) \in live
  BY <1>3, CurLives DEF Linked
<1>5. ShapeOn(g, live, height, q, less, more)
  <2>1. \A x \in DOMAIN h : SameCore(g[x], h[x])
    BY DEF SameBody
  <2>2. QED
    BY <2>1, <1>2, SameTree
<1>6. \A a \in live : SameBody(g[a], h[a])
  BY <1>4
<1>7. Order(g, live, low, Cur(q)) /\ EntriesAt(g, live) = E
  BY <1>2, <1>3, <1>6, SameOrder
<1>8. Guided(g, q, k)
  <2>1. ASSUME NEW i \in 1 .. Len(q) PROVE GuidedAt(q[i], g, k)
    <3>1. q[i].node.id \in live
      BY <1>3 DEF Chain, OnPath, Framed
    <3>2. GuidedAt(q[i], h, k)
      BY <1>2 DEF Guided
    <3>3. g[q[i].node.id].keys = h[q[i].node.id].keys
      BY <3>1, <1>6 DEF SameBody
    <3>4. QED
      BY <3>2, <3>3 DEF GuidedAt
  <2>2. QED
    BY <2>1 DEF Guided
<1>9. Edged(g, q, k)
  <2>1. Most(g[Cur(q)]) = Most(h[Cur(q)])
    BY <1>4, <1>6, SameOwn
  <2>2. QED
    BY <2>1, <1>2 DEF Edged
<1>10. TreeOn(g, live, height, low, q, less, more, k, E)
  BY <1>5, <1>7, <1>8, <1>9 DEF TreeOn
<1>11. QED
  BY <1>10 DEF TreeAt

LEMMA StoredInOrder ==
    ASSUME NEW h, NEW k, NEW E, TreeAt(h, <<>>, 0, 0, k, E),
           NEW g, DOMAIN g = DOMAIN h,
           \A x \in DOMAIN h : h[x] \in NodeRecords /\ g[x] \in {h[x], Stored(h[x])}
    PROVE  TreeAt(g, <<>>, 0, 0, k, E)
<1>1. PICK live, height, low : TreeOn(h, live, height, low, <<>>, 0, 0, k, E)
  BY DEF TreeAt
<1>2. ShapeOn(h, live, height, <<>>, 0, 0) /\ Order(h, live, low, 0) /\ E = EntriesAt(h, live)
  BY <1>1 DEF TreeOn, Cur
<1>3. ShapeOn(g, live, height, <<>>, 0, 0)
  BY <1>2, StoredTree0
<1>4. PICK up, pos : Linked(h, live, height, up, pos)
  BY <1>2 DEF ShapeOn
<1>5. ASSUME NEW a \in live PROVE SameBody(g[a], h[a])
  <2>1. a \in DOMAIN h /\ ~h[a].deleted
    BY <1>4 DEF Linked, LinkedAt
  <2>2. h[a] \in NodeRecords /\ g[a] \in {h[a], Stored(h[a])}
    BY <2>1
  <2>3. h[a].deleted = FALSE
    BY <2>1, <2>2, NodeFacts
  <2>4. /\ g[a].leaf = h[a].leaf /\ g[a].keys = h[a].keys /\ g[a].ptrs = h[a].ptrs
        /\ g[a].deleted = h[a].deleted
    BY <2>2, <2>3 DEF Stored, NodeRecords
  <2>5. QED
    BY <2>4 DEF SameBody, SameCore, Size, Kids, Kid
<1>6. Order(g, live, low, 0) /\ EntriesAt(g, live) = E
  BY <1>2, <1>4, <1>5, SameOrder
<1>7. Guided(g, <<>>, k) /\ Edged(g, <<>>, k) /\ Cur(<<>>) = 0
  BY DEF Guided, Edged, Cur
<1>8. TreeOn(g, live, height, low, <<>>, 0, 0, k, E)
  BY <1>3, <1>6, <1>7 DEF TreeOn
<1>9. QED
  BY <1>8 DEF TreeAt

\* Children of nodes that have not changed have not changed, and are not the
\* root.
LEMMA RowsStay ==
    ASSUME NEW h, NEW live, NEW low, NEW g, NEW low2, NEW n, NEW b, Ordered(n, b, h, low, 0),
           IsInner(n) => \A i \in 1 .. Kids(n) :
                /\ SameBody(g[Kid(n, i)], h[Kid(n, i)])
                /\ low2[Kid(n, i)] = low[Kid(n, i)] /\ Kid(n, i) # 0,
           NEW m, SameBody(m, n)
    PROVE  Ordered(m, b, g, low2, 0)
<1>1. ASSUME IsInner(n) PROVE Unmoved(n, h, low, 0, g, low2, 0)
  <2>1. \A i \in 1 .. Kids(n) : Most(g[Kid(n, i)]) = Most(h[Kid(n, i)])
    BY <1>1, SameOwn
  <2>2. QED
    BY <2>1, <1>1 DEF Unmoved
<1>2. QED
  BY <1>1, OrderedMoves

\* The root has the keys k and l now, over the nodes lo and hi.
NewTop(n, k, l) == IsInner(n) /\ Key(n, 1) = k /\ Key(n, 2) = l

LEMMA RootSplitInOrder ==
    ASSUME NEW h, NEW k, NEW E, TreeAt(h, <<>>, 0, 1, k, E), Size(h[0]) = 2 * NodeSize,
           NEW ids \in Nat, DOMAIN h = 0 .. ids - 1,
           NEW g, NEW lo, NEW hi, {lo, hi} = {ids, ids + 1}, DOMAIN g = DOMAIN h \cup {lo, hi},
           IsRootSplit(h, g, DOMAIN h, lo, hi, NodeSize),
           \A x \in DOMAIN g : Kids(g[x]) = Size(g[x]),
           KeysShared(<<g[lo], g[hi]>>, h[0], NodeSize),
           NewTop(g[0], Key(h[0], NodeSize), Most(h[0])),
           \A x \in DOMAIN h \ {0} : SameBody(g[x], h[x])
    PROVE  TreeAt(g, <<>>, 0, 0, k, E)
<1> DEFINE h0 == h[0]
           g0 == g[0]
           mid == NodeSize
           mk == Key(h0, mid)
<1>1. PICK live, height, low : TreeOn(h, live, height, low, <<>>, 0, 1, k, E)
  BY DEF TreeAt
<1>2. ShapeOn(h, live, height, <<>>, 0, 1) /\ Order(h, live, low, 0) /\ E = EntriesAt(h, live)
  BY <1>1 DEF TreeOn, Cur
<1>3. \E height2 : ShapeOn(g, live \cup {lo, hi}, height2, <<>>, 0, 0)
  BY <1>2, RootSplitTree
<1>4. PICK up, pos : Linked(h, live, height, up, pos) /\ Sizes(h, live, 0, 0, 1)
  BY <1>2 DEF ShapeOn, Cur
<1>5. /\ 0 \in live /\ live \subseteq DOMAIN h /\ live \subseteq Int /\ low \in [Int -> Int]
      /\ lo \in Int /\ hi \in Int /\ lo # hi /\ lo \notin live /\ hi \notin live
      /\ lo # 0 /\ hi # 0
  BY <1>2, <1>4 DEF Linked, Order, IsRootSplit
<1>6. Kids(h0) = 2 * NodeSize /\ mid \in 1 .. Kids(h0) - 1 /\ Kids(h0) \in Nat
  BY <1>4, <1>5, NodeSizeAssumption DEF Sizes
<1>7. Halved(<<g[lo], g[hi]>>, h0, mid)
  BY <1>6 DEF IsRootSplit, Halved
<1>8. Ordered(h0, low[0], h, low, 0)
  BY <1>2, <1>5 DEF Order
<1>9. /\ Ordered(g[lo], low[0], h, low, 0) /\ Ordered(g[hi], mk, h, low, 0)
      /\ Most(g[lo]) = mk /\ Most(g[hi]) = Most(h0)
      /\ mk \in Int /\ low[0] < mk /\ mk < Most(h0)
  <2> DEFINE pair == <<g[lo], g[hi]>>
  <2>1. pair[1] = g[lo] /\ pair[2] = g[hi] /\ Halved(pair, h0, mid)
    BY <1>7
  <2> HIDE DEF pair, h0, mid
  <2>2. /\ Ordered(pair[1], low[0], h, low, 0) /\ Ordered(pair[2], Key(h0, mid), h, low, 0)
        /\ Most(pair[1]) = Key(h0, mid) /\ Most(pair[2]) = Most(h0)
        /\ Key(h0, mid) \in Int /\ low[0] < Key(h0, mid) /\ Key(h0, mid) < Most(h0)
    BY <2>1, <1>8, HalvesOrdered
  <2>3. QED
    BY <2>1, <2>2
<1>10. Own(g[lo]) \cup Own(g[hi]) = Own(h0)
  <2> DEFINE pair == <<g[lo], g[hi]>>
  <2>1. pair[1] = g[lo] /\ pair[2] = g[hi] /\ Halved(pair, h0, mid)
    BY <1>7
  <2> HIDE DEF pair, h0, mid
  <2>2. Own(pair[1]) \cup Own(pair[2]) = Own(h0)
    BY <2>1, OwnHalved
  <2>3. QED
    BY <2>1, <2>2
<1> DEFINE low2 == [low EXCEPT ![lo] = low[0], ![hi] = mk]
<1>11. /\ low2 \in [Int -> Int] /\ low2[lo] = low[0] /\ low2[hi] = mk
       /\ \A a \in live : low2[a] = low[a]
  <2>1. low[0] \in Int
    BY <1>5
  <2>2. QED
    BY <2>1, <1>5, <1>9
<1> HIDE DEF low2
<1>12. \A a \in live \ {0} : SameBody(g[a], h[a]) /\ low2[a] = low[a]
  BY <1>5, <1>11
<1>13. ASSUME NEW a \in live, IsInner(h[a]), NEW i \in 1 .. Kids(h[a])
       PROVE  /\ SameBody(g[Kid(h[a], i)], h[Kid(h[a], i)])
              /\ low2[Kid(h[a], i)] = low[Kid(h[a], i)] /\ Kid(h[a], i) # 0
  <2>1. Kid(h[a], i) \in live \ {0}
    BY <1>4, <1>13 DEF Linked, LinkedAt, IsInner
  <2>2. QED
    BY <2>1, <1>12
<1>14. ASSUME NEW a \in live \ {0} PROVE Ordered(g[a], low2[a], g, low2, 0)
  <2>1. Ordered(h[a], low2[a], h, low, 0) /\ SameBody(g[a], h[a])
    BY <1>2, <1>12 DEF Order
  <2>2. IsInner(h[a]) => \A i \in 1 .. Kids(h[a]) :
                /\ SameBody(g[Kid(h[a], i)], h[Kid(h[a], i)])
                /\ low2[Kid(h[a], i)] = low[Kid(h[a], i)] /\ Kid(h[a], i) # 0
    BY <1>13
  <2>3. QED
    BY <2>1, <2>2, RowsStay
<1>15. ASSUME NEW n, NEW b, n \in {g[lo], g[hi]}, Ordered(n, b, h, low, 0)
       PROVE  Ordered(n, b, g, low2, 0)
  <2>1. SameBody(n, n)
    BY DEF SameBody, SameCore
  <2>2. ASSUME IsInner(n), NEW i \in 1 .. Kids(n)
        PROVE  \E j \in 1 .. Kids(h0) : IsInner(h0) /\ Kid(n, i) = Kid(h0, j)
    <3>1. IsInner(h0)
      BY <2>2, <1>7, <1>15 DEF Halved, IsInner
    <3>2. CASE n = g[lo]
      <4>1. Kids(n) = mid /\ Kid(n, i) = Kid(h0, i)
        BY <2>2, <3>2, <1>7 DEF Halved, Shared
      <4>2. i \in 1 .. Kids(h0)
        BY <4>1, <1>6
      <4>3. QED
        BY <3>1, <4>1, <4>2
    <3>3. CASE n = g[hi]
      <4>1. Kids(n) = Kids(h0) - mid /\ Kid(n, i) = Kid(h0, mid + i)
        BY <2>2, <3>3, <1>7 DEF Halved, Shared
      <4>2. mid + i \in 1 .. Kids(h0)
        <5> HIDE DEF mid, h0
        <5>1. i \in 1 .. Kids(h0) - mid
          BY <4>1, <2>2
        <5>2. QED
          BY <5>1, <1>6
      <4>3. QED
        BY <3>1, <4>1, <4>2
    <3>4. QED
      BY <3>2, <3>3, <1>15
  <2>3. IsInner(n) => \A i \in 1 .. Kids(n) :
                /\ SameBody(g[Kid(n, i)], h[Kid(n, i)])
                /\ low2[Kid(n, i)] = low[Kid(n, i)] /\ Kid(n, i) # 0
    BY <2>2, <1>5, <1>13
  <2>4. QED
    BY <2>1, <2>3, <1>15, RowsStay
<1>16. Ordered(g[lo], low2[lo], g, low2, 0) /\ Ordered(g[hi], low2[hi], g, low2, 0)
  BY <1>9, <1>11, <1>15
<1>17. /\ IsInner(g0) /\ Kids(g0) = 2 /\ Kid(g0, 1) = lo /\ Kid(g0, 2) = hi
       /\ Key(g0, 1) = mk /\ Key(g0, 2) = Most(h0)
  BY DEF IsRootSplit, NewTop
<1>18. low[0] \in Int /\ Most(h0) \in Int
  <2>1. Kids(h0) \in 1 .. Kids(h0)
    BY <1>6, NodeSizeAssumption
  <2>2. QED
    BY <2>1, <1>5, <1>8 DEF Ordered, Rising, Most
<1> HIDE DEF h0, g0, mid, mk
<1>19. Ordered(g0, low2[0], g, low2, 0)
  <2>1. \A i \in 1 .. Kids(g0) : i = 1 \/ i = 2
    BY <1>17
  <2>2. low2[0] = low[0]
    BY <1>5, <1>11
  <2>3. Rising(g0, low2[0])
    BY <2>1, <2>2, <1>9, <1>17, <1>18 DEF Rising
  <2>4. Over(g0, low2[0], low2)
    <3>1. ASSUME NEW i \in 1 .. Kids(g0)
          PROVE  /\ low2[Kid(g0, i)] \in Int /\ low2[0] <= low2[Kid(g0, i)]
                 /\ \A j \in 1 .. Kids(g0) : j < i => Key(g0, j) <= low2[Kid(g0, i)]
      <4>1. CASE i = 1
        <5>1. low2[Kid(g0, i)] = low[0] /\ \A j \in 1 .. Kids(g0) : ~ j < i
          BY <4>1, <1>11, <1>17
        <5>2. QED
          BY <5>1, <2>2, <1>18
      <4>2. CASE i = 2
        <5>1. low2[Kid(g0, i)] = mk /\ \A j \in 1 .. Kids(g0) : j < i => j = 1
          <6>1. low2[Kid(g0, i)] = mk
            BY <4>2, <1>11, <1>17
          <6>2. \A j \in 1 .. 2 : j < 2 => j = 1
            OBVIOUS
          <6>3. QED
            BY <6>1, <6>2, <4>2, <1>17
        <5>2. Key(g0, 1) <= mk
          BY <1>9, <1>17
        <5>3. low2[0] <= mk
          BY <2>2, <1>9, <1>18
        <5>4. \A j \in 1 .. Kids(g0) : j < i => Key(g0, j) <= mk
          BY <5>1, <5>2
        <5>5. QED
          BY <5>1, <5>3, <5>4, <1>9
      <4>3. QED
        BY <4>1, <4>2, <2>1
    <3>2. QED
      BY <3>1 DEF Over
  <2>5. Tops(g0, g, 0)
    BY <2>1, <1>9, <1>17 DEF Tops
  <2>6. QED
    BY <2>3, <2>4, <2>5 DEF Ordered
<1>20. Order(g, live \cup {lo, hi}, low2, 0)
  <2>1. ASSUME NEW a \in live \cup {lo, hi} PROVE Ordered(g[a], low2[a], g, low2, 0)
    BY <1>14, <1>16, <1>19 DEF g0
  <2>2. QED
    BY <2>1, <1>11 DEF Order
<1>21. EntriesAt(g, live \cup {lo, hi}) = E
  <2> DEFINE T == {0}
             T2 == {0, lo, hi}
             live2 == live \cup {lo, hi}
  <2>1. T \subseteq live /\ T2 \subseteq live2 /\ live \ T = live2 \ T2
    BY <1>5
  <2>2. \A a \in live \ T : Own(g[a]) = Own(h[a])
    BY <1>12, SameOwn
  <2>3. EntriesAt(g, T2) = EntriesAt(h, T)
    <3>1. EntriesAt(h, T) = Own(h0)
      BY DEF EntriesAt, h0
    <3>2. EntriesAt(g, T2) = Own(g0) \cup Own(g[lo]) \cup Own(g[hi])
      BY DEF EntriesAt, g0
    <3>3. Own(g0) = {}
      BY <1>17 DEF Own, IsInner
    <3>4. QED
      BY <3>1, <3>2, <3>3, <1>10
  <2> HIDE DEF T, T2, live2
  <2>4. EntriesAt(g, live2) = EntriesAt(h, live)
    BY <2>1, <2>2, <2>3, EntriesStay
  <2>5. QED
    BY <2>4, <1>2 DEF live2
<1>22. Guided(g, <<>>, k) /\ Edged(g, <<>>, k) /\ Cur(<<>>) = 0
  BY DEF Guided, Edged, Cur
<1>23. PICK height2 : ShapeOn(g, live \cup {lo, hi}, height2, <<>>, 0, 0)
  BY <1>3
<1>24. TreeOn(g, live \cup {lo, hi}, height2, low2, <<>>, 0, 0, k, E)
  BY <1>20, <1>21, <1>22, <1>23 DEF TreeOn
<1>25. QED
  BY <1>24 DEF TreeAt

\* An inner root with one child gives way to it.
LEMMA CollapseInOrder ==
    ASSUME NEW h, NEW k, NEW E, TreeAt(h, <<>>, 1, 0, k, E),
           NEW g, DOMAIN g = DOMAIN h,
           NEW c, IsCollapse(h, g, DOMAIN h, c), Size(g[c]) = Size(h[c]),
           \A x \in DOMAIN g : Kids(g[x]) = Size(g[x]),
           SameBody(g[0], h[c]), \A x \in DOMAIN h \ {0, c} : SameBody(g[x], h[x])
    PROVE  TreeAt(g, <<>>, 0, 0, k, E)
<1> DEFINE h0 == h[0]
<1>1. PICK live, height, low : TreeOn(h, live, height, low, <<>>, 1, 0, k, E)
  BY DEF TreeAt
<1>2. ShapeOn(h, live, height, <<>>, 1, 0) /\ Order(h, live, low, 0) /\ E = EntriesAt(h, live)
  BY <1>1 DEF TreeOn, Cur
<1>3. \E height2 : ShapeOn(g, live \ {c}, height2, <<>>, 0, 0)
  BY <1>2, CollapseTree
<1>4. PICK up, pos : Linked(h, live, height, up, pos)
  BY <1>2 DEF ShapeOn
<1>5. /\ 0 \in live /\ live \subseteq DOMAIN h /\ live \subseteq Int /\ low \in [Int -> Int]
      /\ height \in [Int -> Nat]
  BY <1>2, <1>4 DEF Linked, Order
<1>6. /\ IsInner(h0) /\ c \in live \ {0} /\ height[c] + 1 = height[0] /\ up[c] = 0
  <2>1. LinkedAt(h0, 0, live, height, up, pos)
    BY <1>4, <1>5 DEF Linked
  <2>2. h0.leaf = FALSE /\ 1 \in 1 .. Kids(h0) /\ c = Kid(h0, 1)
    BY <2>1 DEF IsCollapse, LinkedAt
  <2>3. QED
    BY <2>1, <2>2 DEF LinkedAt, IsInner
<1> DEFINE low2 == [low EXCEPT ![0] = low[c]]
<1>7. low2 \in [Int -> Int] /\ low2[0] = low[c] /\ \A a \in live \ {0} : low2[a] = low[a]
  BY <1>5, <1>6
<1> HIDE DEF low2
\* The children of the nodes that are left are none of the two.
<1>8. ASSUME NEW a \in live \ {0}, IsInner(h[a]), NEW i \in 1 .. Kids(h[a])
      PROVE  /\ SameBody(g[Kid(h[a], i)], h[Kid(h[a], i)])
             /\ low2[Kid(h[a], i)] = low[Kid(h[a], i)] /\ Kid(h[a], i) # 0
  <2>1. Kid(h[a], i) \in live \ {0} /\ up[Kid(h[a], i)] = a
    BY <1>4, <1>8 DEF Linked, LinkedAt, IsInner
  <2>2. Kid(h[a], i) # c
    BY <2>1, <1>6
  <2>3. QED
    BY <2>1, <2>2, <1>5, <1>7
<1>9. ASSUME NEW a \in live \ {0, c} PROVE Ordered(g[a], low2[a], g, low2, 0)
  <2>1. Ordered(h[a], low2[a], h, low, 0) /\ SameBody(g[a], h[a])
    BY <1>2, <1>5, <1>7 DEF Order
  <2>2. IsInner(h[a]) => \A i \in 1 .. Kids(h[a]) :
                /\ SameBody(g[Kid(h[a], i)], h[Kid(h[a], i)])
                /\ low2[Kid(h[a], i)] = low[Kid(h[a], i)] /\ Kid(h[a], i) # 0
    BY <1>8
  <2>3. QED
    BY <2>1, <2>2, RowsStay
<1>10. Ordered(g[0], low2[0], g, low2, 0)
  <2>1. Ordered(h[c], low2[0], h, low, 0)
    BY <1>2, <1>6, <1>7 DEF Order
  <2>2. IsInner(h[c]) => \A i \in 1 .. Kids(h[c]) :
                /\ SameBody(g[Kid(h[c], i)], h[Kid(h[c], i)])
                /\ low2[Kid(h[c], i)] = low[Kid(h[c], i)] /\ Kid(h[c], i) # 0
    BY <1>6, <1>8
  <2>3. QED
    BY <2>1, <2>2, RowsStay
<1>11. Order(g, live \ {c}, low2, 0)
  BY <1>7, <1>9, <1>10 DEF Order
<1>12. EntriesAt(g, live \ {c}) = E
  <2> DEFINE T == {0, c}
             T2 == {0}
             live2 == live \ {c}
  <2>1. T \subseteq live /\ T2 \subseteq live2 /\ live \ T = live2 \ T2
    BY <1>5, <1>6
  <2>2. \A a \in live \ T : Own(g[a]) = Own(h[a])
    BY <1>5, SameOwn
  <2>3. EntriesAt(g, T2) = EntriesAt(h, T)
    <3>1. EntriesAt(g, T2) = Own(g[0])
      BY DEF EntriesAt
    <3>2. EntriesAt(h, T) = Own(h0) \cup Own(h[c])
      BY DEF EntriesAt
    <3>3. Own(h0) = {}
      BY <1>6 DEF Own, IsInner
    <3>4. Own(g[0]) = Own(h[c])
      BY SameOwn
    <3>5. QED
      BY <3>1, <3>2, <3>3, <3>4
  <2> HIDE DEF T, T2, live2
  <2>4. EntriesAt(g, live2) = EntriesAt(h, live)
    BY <2>1, <2>2, <2>3, EntriesStay
  <2>5. QED
    BY <2>4, <1>2 DEF live2
<1>13. Guided(g, <<>>, k) /\ Edged(g, <<>>, k) /\ Cur(<<>>) = 0
  BY DEF Guided, Edged, Cur
<1>14. PICK height2 : ShapeOn(g, live \ {c}, height2, <<>>, 0, 0)
  BY <1>3
<1>15. TreeOn(g, live \ {c}, height2, low2, <<>>, 0, 0, k, E)
  BY <1>11, <1>12, <1>13, <1>14 DEF TreeOn
<1>16. QED
  BY <1>15 DEF TreeAt

-------------------------------------------------------------------------------
\* The pairs give each key one value id and each value id one key, and D are the
\* value ids.
OneToOne(E) == \A e, f \in E : e[1] = f[1] \/ e[2] = f[2] => e = f

Matched(E, D) == OneToOne(E) /\ {e[2] : e \in E} = D

LEMMA MatchedGrows ==
    ASSUME NEW E, NEW D, Matched(E, D), NEW k, NEW v, \A e \in E : e[1] # k, v \notin D
    PROVE  Matched(E \cup {<<k, v>>}, D \cup {v})
<1> DEFINE e0 == <<k, v>>
<1>1. e0[1] = k /\ e0[2] = v
  OBVIOUS
<1> HIDE DEF e0
<1>2. \A e \in E : e[1] # e0[1] /\ e[2] # e0[2]
  BY <1>1 DEF Matched
<1>3. {e[2] : e \in E \cup {e0}} = {e[2] : e \in E} \cup {v}
  BY <1>1
<1>4. OneToOne(E \cup {e0})
  BY <1>2 DEF Matched, OneToOne
<1>5. Matched(E \cup {e0}, D \cup {v})
  BY <1>3, <1>4 DEF Matched
<1>6. QED
  BY <1>5 DEF e0

LEMMA MatchedShrinks ==
    ASSUME NEW E, NEW D, Matched(E, D), NEW k, NEW v, <<k, v>> \in E
    PROVE  Matched(E \ {<<k, v>>}, D \ {v})
<1> DEFINE e0 == <<k, v>>
<1>1. e0 \in E /\ e0[1] = k /\ e0[2] = v
  OBVIOUS
<1> HIDE DEF e0
<1>2. \A e \in E : e # e0 => e[2] # v
  BY <1>1 DEF Matched, OneToOne
<1>3. {e[2] : e \in E \ {e0}} = {e[2] : e \in E} \ {v}
  BY <1>1, <1>2
<1>4. OneToOne(E \ {e0})
  BY DEF Matched, OneToOne
<1>5. Matched(E \ {e0}, D \ {v})
  BY <1>3, <1>4 DEF Matched
<1>6. QED
  BY <1>5 DEF e0

-------------------------------------------------------------------------------
(* The rows below a node.  In module BTree they are computed row by row; in a   *)
(* heap that is linked as a tree the row d below a node c are the nodes d - 1   *)
(* rows lower that lie within c.                                               *)

\* Every inner node has a child, every node but the root a key.
Filled(h, live) == \A a \in live : IsInner(h[a]) \/ a # 0 => Kids(h[a]) > 0

Listed(n) == n \in NodeRecords /\ Kids(n) = Size(n)

Standing(h, live, height, up, pos) ==
    /\ Linked(h, live, height, up, pos) /\ Filled(h, live)
    /\ IsFiniteSet(DOMAIN h) /\ \A a \in live : Listed(h[a])

InnerNodes(h) == {a \in DOMAIN h : ~h[a].leaf}

LEMMA ListedNode ==
    ASSUME NEW n, Listed(n)
    PROVE  /\ DOMAIN n.keys = 1 .. Kids(n) /\ DOMAIN n.ptrs = 1 .. Kids(n)
           /\ n.leaf \in BOOLEAN /\ Kids(n) \in Nat /\ PairsIn(n) = PairsOf(n)
<1>1. /\ n.keys \in Seq(Keys) /\ n.ptrs \in Seq(Int) /\ n.leaf \in BOOLEAN
      /\ Len(n.keys) = Kids(n) /\ Len(n.ptrs) = Kids(n) /\ Kids(n) \in Nat
  BY NodeFacts DEF Listed, Size, Kids
<1>2. DOMAIN n.keys = 1 .. Kids(n) /\ DOMAIN n.ptrs = 1 .. Kids(n)
  BY <1>1, LenProperties
<1>3. PairsIn(n) = PairsOf(n)
  BY <1>2 DEF PairsIn, PairsOf, Key, Kid
<1>4. QED
  BY <1>1, <1>2, <1>3

\* What RowNumbers counts.
LEMMA RowsCounted ==
    ASSUME NEW h, IsFiniteSet(DOMAIN h)
    PROVE  /\ IsFiniteSet(InnerNodes(h)) /\ Cardinality(InnerNodes(h)) \in Nat
           /\ RowNumbers(h) = 1 .. Cardinality(InnerNodes(h)) + 1
<1>1. InnerNodes(h) \subseteq DOMAIN h
  BY DEF InnerNodes
<1>2. IsFiniteSet(InnerNodes(h))
  BY <1>1, FS_Subset
<1>3. Cardinality(InnerNodes(h)) \in Nat
  BY <1>2, FS_CardinalityType
<1>4. QED
  BY <1>2, <1>3 DEF RowNumbers, InnerNodes

\* Rows is the only function of its defining equation.
RowsOf(v, h, top) ==
    v = [d \in RowNumbers(h) |-> IF d = 1 THEN {top} ELSE Children(h, v[d - 1])]

LEMMA RowsUnique ==
    ASSUME NEW h, IsFiniteSet(DOMAIN h), NEW top, NEW w, RowsOf(w, h, top)
    PROVE  Rows(h, top) = w
<1> DEFINE v == Rows(h, top)
           D == RowNumbers(h)
           S == {d \in D : v[d] # w[d]}
<1>1. Rows(h, top) = CHOOSE u : RowsOf(u, h, top)
  BY DEF Rows, RowsOf
<1>2. RowsOf(v, h, top)
  <2>1. RowsOf(CHOOSE u : RowsOf(u, h, top), h, top)
    OBVIOUS
  <2>2. QED
    BY <2>1, <1>1
<1> HIDE DEF v
<1>3. D \subseteq Nat /\ \A d \in D : d >= 1 /\ (d # 1 => d - 1 \in D)
  BY RowsCounted
<1> HIDE DEF D
<1>4. /\ v = [d \in D |-> IF d = 1 THEN {top} ELSE Children(h, v[d - 1])]
      /\ w = [d \in D |-> IF d = 1 THEN {top} ELSE Children(h, w[d - 1])]
  BY <1>2 DEF RowsOf, D
<1>5. /\ \A d \in D : v[d] = IF d = 1 THEN {top} ELSE Children(h, v[d - 1])
      /\ \A d \in D : w[d] = IF d = 1 THEN {top} ELSE Children(h, w[d - 1])
      /\ v = [d \in D |-> v[d]] /\ w = [d \in D |-> w[d]]
  BY <1>4
<1>6. S = {}
  <2>1. SUFFICES ASSUME S # {} PROVE FALSE
    OBVIOUS
  <2>2. PICK d \in S : \A e \in S : d <= e
    BY <2>1, <1>3, HasSmallest
  <2>3. d \in D /\ v[d] # w[d] /\ d \in Nat
    BY <1>3, <2>2
  <2>4. d # 1
    BY <2>3, <1>5
  <2>5. d - 1 \in D /\ d - 1 \notin S
    BY <2>2, <2>3, <2>4, <1>3
  <2>6. v[d - 1] = w[d - 1]
    BY <2>5
  <2>7. QED
    BY <2>3, <2>4, <2>6, <1>5
<1>7. QED
  BY <1>5, <1>6 DEF v

\* Each height up to that of the root has a node.
LEMMA HeightsTaken ==
    ASSUME NEW h, NEW live, NEW height, NEW up, NEW pos, Standing(h, live, height, up, pos),
           NEW t \in 0 .. height[0]
    PROVE  \E a \in live : height[a] = t
<1> DEFINE S == {d \in Nat : d <= height[0] /\ \A a \in live : height[a] + d # height[0]}
<1>1. /\ 0 \in live /\ live \subseteq Int /\ height \in [Int -> Nat]
      /\ \A a \in live : LinkedAt(h[a], a, live, height, up, pos)
  BY DEF Standing, Linked
<1>2. height[0] \in Nat
  BY <1>1
<1>3. S = {}
  <2>1. SUFFICES ASSUME S # {} PROVE FALSE
    OBVIOUS
  <2>2. PICK d \in S : \A e \in S : d <= e
    BY <2>1, HasSmallest
  <2>3. d \in Nat /\ d <= height[0] /\ \A a \in live : height[a] + d # height[0]
    BY <2>2
  <2>4. d # 0
    BY <2>3, <1>1, <1>2
  <2>5. d - 1 \in Nat /\ d - 1 \notin S
    BY <2>2, <2>3, <2>4
  <2>6. PICK a \in live : height[a] + (d - 1) = height[0]
    BY <2>3, <2>5, <1>2
  <2>7. height[a] \in Nat /\ height[a] # 0
    BY <1>1, <1>2, <2>3, <2>6
  <2>8. ~h[a].leaf /\ LinkedAt(h[a], a, live, height, up, pos)
    BY <1>1, <2>7 DEF LinkedAt
  <2>9. Kids(h[a]) \in Nat /\ Kids(h[a]) > 0
    BY <2>8 DEF Standing, Filled, IsInner, LinkedAt
  <2>10. Kid(h[a], 1) \in live /\ height[Kid(h[a], 1)] + 1 = height[a]
    BY <2>8, <2>9 DEF LinkedAt
  <2>11. height[Kid(h[a], 1)] \in Nat
    BY <2>10, <1>1
  <2>12. height[Kid(h[a], 1)] + d = height[0]
    BY <2>3, <2>6, <2>7, <2>10, <2>11, <1>2
  <2>13. QED
    BY <2>3, <2>10, <2>12
<1>4. height[0] - t \in Nat /\ height[0] - t <= height[0] /\ t \in Int
  BY <1>2
<1>5. height[0] - t \notin S
  BY <1>3
<1>6. PICK a \in live : height[a] + (height[0] - t) = height[0]
  BY <1>4, <1>5
<1>7. QED
  BY <1>1, <1>2, <1>4, <1>6

\* So there are as many rows as RowNumbers allows, or less.
LEMMA RowsEnough ==
    ASSUME NEW h, NEW live, NEW height, NEW up, NEW pos, Standing(h, live, height, up, pos)
    PROVE  1 .. height[0] + 1 \subseteq RowNumbers(h)
<1> DEFINE T == 1 .. height[0]
           f == [t \in T |-> CHOOSE a \in live : height[a] = t]
<1>1. /\ 0 \in live /\ live \subseteq Int /\ height \in [Int -> Nat] /\ live \subseteq DOMAIN h
      /\ \A a \in live : LinkedAt(h[a], a, live, height, up, pos)
  BY DEF Standing, Linked
<1>2. height[0] \in Nat
  BY <1>1
<1>3. ASSUME NEW t \in T PROVE f[t] \in live /\ height[f[t]] = t
  <2>1. \E a \in live : height[a] = t
    BY <1>2, HeightsTaken
  <2>2. QED
    BY <2>1
<1> HIDE DEF f
<1>4. \A t \in T : f[t] \in InnerNodes(h)
  <2>1. TAKE t \in T
  <2>2. f[t] \in live /\ height[f[t]] # 0
    BY <1>2, <1>3
  <2>3. QED
    BY <2>2, <1>1 DEF LinkedAt, InnerNodes
<1>5. f \in [T -> InnerNodes(h)]
  BY <1>4 DEF f
<1>6. \A s, t \in T : f[s] = f[t] => s = t
  BY <1>3
<1>7. f \in Injection(T, InnerNodes(h))
  BY <1>5, <1>6 DEF Injection, IsInjective
<1>8. /\ IsFiniteSet(InnerNodes(h)) /\ Cardinality(InnerNodes(h)) \in Nat
      /\ RowNumbers(h) = 1 .. Cardinality(InnerNodes(h)) + 1
  BY RowsCounted DEF Standing
<1>9. Cardinality(T) <= Cardinality(InnerNodes(h))
  BY <1>7, <1>8, FS_Injection
<1>10. Cardinality(T) = height[0]
  BY <1>2, FS_Interval
<1>11. QED
  BY <1>2, <1>8, <1>9, <1>10

-------------------------------------------------------------------------------
\* Node a lies between the bound of c and its largest key.
Within(h, low, a, c) == c = 0 \/ (low[c] <= low[a] /\ Most(h[a]) <= Most(h[c]))

RowAt(h, live, height, low, c, d) ==
    {a \in live : height[a] + d = height[c] + 1 /\ Within(h, low, a, c)}

\* All nodes of the rows of c and below.
Subtree(h, live, height, low, c) ==
    {a \in live : height[a] <= height[c] /\ Within(h, low, a, c)}

\* A node with a key above its bound.
LEMMA BelowMost ==
    ASSUME NEW h, NEW live, NEW height, NEW up, NEW pos, Standing(h, live, height, up, pos),
           NEW low, Order(h, live, low, 0), NEW a \in live \ {0}
    PROVE  low[a] \in Int /\ Most(h[a]) \in Int /\ low[a] < Most(h[a])
<1>1. Kids(h[a]) > 0 /\ Kids(h[a]) \in Nat
  BY ListedNode DEF Standing, Filled
<1>2. Rising(h[a], low[a])
  BY DEF Order, Ordered
<1>3. QED
  BY <1>1, <1>2 DEF Rising, Most

\* Of two nodes the lower one lies within the other one or apart from it.
LEMMA WithinOrApart ==
    ASSUME NEW h, NEW live, NEW height, NEW up, NEW pos, Standing(h, live, height, up, pos),
           NEW low, Order(h, live, low, 0),
           NEW c \in live \ {0}, NEW a \in live \ {0}, height[a] <= height[c]
    PROVE  Within(h, low, a, c) \/ Apart(h, low, a, c)
<1> DEFINE Odd(x) == ~Within(h, low, x, c) /\ ~Apart(h, low, x, c)
           S == {d \in Nat : \E x \in live \ {0} : height[x] + d = height[c] /\ Odd(x)}
<1>1. /\ 0 \in live /\ live \subseteq Int /\ height \in [Int -> Nat]
      /\ \A x \in live \ {0} : height[x] < height[0]
      /\ Linked(h, live, height, up, pos)
  BY DEF Standing, Linked, Hung
<1>2. S = {}
  <2>1. SUFFICES ASSUME S # {} PROVE FALSE
    OBVIOUS
  <2>2. PICK d \in S : \A e \in S : d <= e
    BY <2>1, HasSmallest
  <2>3. d \in Nat
    BY <2>2
  <2>4. PICK x \in live \ {0} : height[x] + d = height[c] /\ Odd(x)
    BY <2>2
  <2>5. low[c] \in Int /\ Most(h[c]) \in Int
    BY BelowMost
  <2>6. /\ up[x] \in live /\ height[x] + 1 = height[up[x]]
        /\ Most(h[x]) \in Int /\ Most(h[x]) <= Most(h[up[x]]) /\ low[up[x]] <= low[x]
        /\ low[x] \in Int /\ low[up[x]] \in Int /\ Most(h[up[x]]) \in Int
    BY <1>1, ChildBelow
  <2>7. height[x] \in Nat /\ height[c] \in Nat /\ height[0] \in Nat /\ height[up[x]] \in Nat
    BY <1>1, <2>6
  <2>8. CASE d = 0
    <3>1. height[x] = height[c]
      BY <2>4, <2>7, <2>8
    <3>2. CASE x = c
      BY <3>2, <2>4, <2>5 DEF Within
    <3>3. CASE x # c
      <4>1. Apart(h, low, x, c)
        BY <1>1, <3>1, <3>3, RowsApart
      <4>2. QED
        BY <4>1, <2>4
    <3>4. QED
      BY <3>2, <3>3
  <2>9. CASE d # 0
    <3>1. d - 1 \in Nat /\ d - 1 \notin S /\ height[up[x]] + (d - 1) = height[c]
      BY <2>2, <2>3, <2>4, <2>6, <2>7, <2>9
    <3>2. up[x] # 0
      <4>1. height[up[x]] < height[0]
        BY <1>1, <2>3, <2>7, <3>1
      <4>2. QED
        BY <4>1, <2>7
    <3>3. ~Odd(up[x])
      BY <2>6, <3>1, <3>2
    <3>4. CASE Within(h, low, up[x], c)
      <4>1. Within(h, low, x, c)
        BY <3>4, <2>5, <2>6 DEF Within
      <4>2. QED
        BY <4>1, <2>4
    <3>5. CASE Apart(h, low, up[x], c)
      <4>1. Apart(h, low, x, c)
        BY <3>5, <2>5, <2>6 DEF Apart
      <4>2. QED
        BY <4>1, <2>4
    <3>6. QED
      BY <3>3, <3>4, <3>5
  <2>10. QED
    BY <2>8, <2>9
<1>3. height[c] - height[a] \in Nat /\ height[a] + (height[c] - height[a]) = height[c]
  <2>1. height[a] \in Nat /\ height[c] \in Nat
    BY <1>1
  <2>2. QED
    BY <2>1
<1>4. QED
  BY <1>2, <1>3

\* A node within another is not apart from it.
\* The children of the nodes of a row are the nodes of the next one.
LEMMA ChildrenOfRow ==
    ASSUME NEW h, NEW live, NEW height, NEW up, NEW pos, Standing(h, live, height, up, pos),
           NEW low, NEW c \in live, c = 0 \/ Order(h, live, low, 0), NEW d \in Nat, d >= 1
    PROVE  Children(h, RowAt(h, live, height, low, c, d)) = RowAt(h, live, height, low, c, d + 1)
<1> DEFINE row == RowAt(h, live, height, low, c, d)
           next == RowAt(h, live, height, low, c, d + 1)
<1>1. /\ 0 \in live /\ live \subseteq Int /\ height \in [Int -> Nat]
      /\ \A x \in live : x = 0 \/ height[x] < height[0]
      /\ Linked(h, live, height, up, pos)
      /\ \A x \in live : LinkedAt(h[x], x, live, height, up, pos)
      /\ \A x \in live \ {0} : Hung(h, x, live, height, up, pos)
  BY DEF Standing, Linked, Hung
<1>2. \A x \in live : height[x] \in Nat /\ DOMAIN h[x].ptrs = 1 .. Kids(h[x])
  BY <1>1, ListedNode DEF Standing
<1>3. ASSUME NEW x \in Children(h, row) PROVE x \in next
  <2>0. PICK a \in row : ~h[a].leaf /\ \E i \in DOMAIN h[a].ptrs : x = h[a].ptrs[i]
    BY DEF Children
  <2>1. PICK i \in DOMAIN h[a].ptrs : ~h[a].leaf /\ x = h[a].ptrs[i]
    BY <2>0
  <2>2. a \in live /\ height[a] + d = height[c] + 1 /\ Within(h, low, a, c)
    BY <2>1 DEF RowAt
  <2>3. i \in 1 .. Kids(h[a]) /\ x = Kid(h[a], i)
    BY <1>2, <2>1, <2>2 DEF Kid
  <2>4. x \in live \ {0} /\ height[x] + 1 = height[a] /\ up[x] = a
    BY <1>1, <2>1, <2>2, <2>3 DEF LinkedAt
  <2>5. height[x] + (d + 1) = height[c] + 1
    <3>1. height[x] \in Nat /\ height[a] \in Nat /\ height[c] \in Nat
      BY <1>2, <2>2, <2>4
    <3>2. QED
      BY <3>1, <2>2, <2>4
  <2>6. Within(h, low, x, c)
    <3>1. CASE c = 0
      BY <3>1 DEF Within
    <3>2. CASE c # 0
      <4>1. Order(h, live, low, 0)
        BY <3>2
      <4>2. /\ Most(h[x]) \in Int /\ Most(h[x]) <= Most(h[a]) /\ low[a] <= low[x]
            /\ low[x] \in Int /\ low[a] \in Int /\ Most(h[a]) \in Int
        BY <4>1, <1>1, <2>4, ChildBelow
      <4>3. low[c] \in Int /\ Most(h[c]) \in Int
        BY <3>2, <4>1, BelowMost
      <4>4. QED
        BY <3>2, <2>2, <4>2, <4>3 DEF Within
    <3>3. QED
      BY <3>1, <3>2
  <2>7. QED
    BY <2>4, <2>5, <2>6 DEF RowAt
<1>4. ASSUME NEW x \in next PROVE x \in Children(h, row)
  <2>1. x \in live /\ height[x] + (d + 1) = height[c] + 1 /\ Within(h, low, x, c)
    BY DEF RowAt
  <2>2. x # 0
    <3>1. height[x] \in Nat /\ height[c] \in Nat /\ height[0] \in Nat
      BY <1>1, <1>2, <2>1
    <3>2. QED
      BY <3>1, <1>1, <2>1
  <2> DEFINE a == up[x]
  <2>3. /\ a \in live /\ h[a].leaf = FALSE
        /\ pos[x] \in 1 .. Kids(h[a]) /\ Kid(h[a], pos[x]) = x
    BY <1>1, <2>1, <2>2 DEF Hung
  <2> HIDE DEF a
  <2>4. height[x] + 1 = height[a]
    BY <1>1, <2>3 DEF LinkedAt
  <2>5. height[a] + d = height[c] + 1
    <3>1. height[x] \in Nat /\ height[a] \in Nat /\ height[c] \in Nat
      BY <1>2, <2>1, <2>3
    <3>2. QED
      BY <3>1, <2>1, <2>4
  <2>6. Within(h, low, a, c)
    <3>1. CASE c = 0
      BY <3>1 DEF Within
    <3>2. CASE c # 0
      <4>1. Order(h, live, low, 0)
        BY <3>2
      <4>2. /\ Most(h[x]) \in Int /\ Most(h[x]) <= Most(h[a]) /\ low[a] <= low[x]
            /\ low[x] \in Int /\ low[a] \in Int /\ Most(h[a]) \in Int
        BY <4>1, <1>1, <2>1, <2>2, ChildBelow DEF a
      <4>3. low[c] \in Int /\ Most(h[c]) \in Int
        BY <3>2, <4>1, BelowMost
      <4>4. low[x] < Most(h[x])
        BY <4>1, <2>1, <2>2, BelowMost
      <4>5. height[a] <= height[c] /\ a # 0
        <5>1. height[a] \in Nat /\ height[c] \in Nat /\ height[0] \in Nat
          BY <1>1, <1>2, <2>3
        <5>2. height[c] < height[0]
          BY <3>2, <1>1
        <5>3. QED
          BY <5>1, <5>2, <2>5
      <4>6. Within(h, low, a, c) \/ Apart(h, low, a, c)
        BY <4>1, <4>5, <3>2, <2>3, WithinOrApart
      <4>7. ~Apart(h, low, a, c)
        <5>1. low[c] <= low[x] /\ Most(h[x]) <= Most(h[c])
          BY <2>1, <3>2 DEF Within
        <5>2. QED
          BY <5>1, <4>2, <4>3, <4>4 DEF Apart
      <4>8. QED
        BY <4>6, <4>7
    <3>3. QED
      BY <3>1, <3>2
  <2>7. a \in row /\ ~h[a].leaf
    BY <2>3, <2>5, <2>6 DEF RowAt
  <2>8. pos[x] \in DOMAIN h[a].ptrs /\ x = h[a].ptrs[pos[x]]
    BY <1>2, <2>3 DEF Kid
  <2>9. QED
    BY <2>7, <2>8 DEF Children
<1>5. QED
  BY <1>3, <1>4

\* The row of c is c alone.
LEMMA FirstRow ==
    ASSUME NEW h, NEW live, NEW height, NEW up, NEW pos, Standing(h, live, height, up, pos),
           NEW low, NEW c \in live, c = 0 \/ Order(h, live, low, 0)
    PROVE  RowAt(h, live, height, low, c, 1) = {c}
<1>1. /\ 0 \in live /\ live \subseteq Int /\ height \in [Int -> Nat]
      /\ \A x \in live : x = 0 \/ height[x] < height[0]
      /\ Linked(h, live, height, up, pos)
  BY DEF Standing, Linked, Hung
<1>2. \A x \in live : height[x] \in Nat
  BY <1>1
<1>3. Within(h, low, c, c)
  BY BelowMost DEF Within
<1>4. ASSUME NEW x \in RowAt(h, live, height, low, c, 1), x # c PROVE FALSE
  <2>1. x \in live /\ height[x] + 1 = height[c] + 1 /\ Within(h, low, x, c)
    BY DEF RowAt
  <2>2. height[x] = height[c]
    BY <1>2, <2>1
  <2>3. CASE c = 0
    <3>1. height[x] < height[0]
      BY <2>1, <2>3, <1>1, <1>4
    <3>2. QED
      BY <3>1, <2>1, <2>2, <2>3, <1>2
  <2>4. CASE c # 0
    <3>1. Order(h, live, low, 0)
      BY <2>4
    <3>2. x # 0
      <4>1. height[c] < height[0] /\ height[0] \in Nat /\ height[c] \in Nat
        BY <1>1, <1>2, <2>4
      <4>2. QED
        BY <4>1, <2>2
    <3>3. Apart(h, low, x, c)
      BY <1>1, <1>4, <2>1, <2>2, <3>1, RowsApart
    <3>4. /\ low[x] \in Int /\ Most(h[x]) \in Int /\ low[x] < Most(h[x])
          /\ low[c] \in Int /\ Most(h[c]) \in Int
      BY <3>1, <3>2, <2>1, <2>4, BelowMost
    <3>5. QED
      BY <2>1, <2>4, <3>3, <3>4 DEF Apart, Within
  <2>5. QED
    BY <2>3, <2>4
<1>5. c \in RowAt(h, live, height, low, c, 1)
  BY <1>2, <1>3 DEF RowAt
<1>6. QED
  BY <1>4, <1>5

\* The rows of module BTree, in closed form.
LEMMA RowsOfTree ==
    ASSUME NEW h, NEW live, NEW height, NEW up, NEW pos, Standing(h, live, height, up, pos),
           NEW low, NEW c \in live, c = 0 \/ Order(h, live, low, 0)
    PROVE  /\ Rows(h, c) = [d \in RowNumbers(h) |-> RowAt(h, live, height, low, c, d)]
           /\ Below(h, c) = Subtree(h, live, height, low, c)
<1> DEFINE D == RowNumbers(h)
           w == [d \in D |-> RowAt(h, live, height, low, c, d)]
<1>1. IsFiniteSet(DOMAIN h)
  BY DEF Standing
<1>2. D \subseteq Nat /\ \A d \in D : d >= 1 /\ (d # 1 => d - 1 \in D)
  BY <1>1, RowsCounted
<1>3. ASSUME NEW d \in D
      PROVE  RowAt(h, live, height, low, c, d) = IF d = 1 THEN {c} ELSE Children(h, w[d - 1])
  <2>1. CASE d = 1
    BY <2>1, FirstRow
  <2>2. CASE d # 1
    <3>1. d - 1 \in Nat /\ d - 1 >= 1 /\ d - 1 \in D /\ d - 1 + 1 = d
      BY <1>2, <2>2
    <3>2. Children(h, RowAt(h, live, height, low, c, d - 1)) =
              RowAt(h, live, height, low, c, d - 1 + 1)
      BY <3>1, ChildrenOfRow
    <3>3. w[d - 1] = RowAt(h, live, height, low, c, d - 1)
      BY <3>1
    <3>4. QED
      BY <2>2, <3>1, <3>2, <3>3
  <2>3. QED
    BY <2>1, <2>2
<1>4. RowsOf(w, h, c)
  <2>1. w = [d \in D |-> IF d = 1 THEN {c} ELSE Children(h, w[d - 1])]
    BY <1>3
  <2>2. QED
    BY <2>1 DEF RowsOf
<1>5. Rows(h, c) = w
  BY <1>1, <1>4, RowsUnique
<1>6. /\ 0 \in live /\ live \subseteq Int /\ height \in [Int -> Nat]
      /\ \A x \in live : x = 0 \/ height[x] < height[0]
  BY DEF Standing, Linked, Hung
<1>7. Below(h, c) = UNION {RowAt(h, live, height, low, c, d) : d \in D}
  BY <1>5 DEF Below
<1>8. height[c] \in Nat /\ height[0] \in Nat /\ height[c] <= height[0]
  BY <1>6
<1>9. \A a \in live : height[a] <= height[c] => height[c] + 1 - height[a] \in D
  <2>1. TAKE a \in live
  <2>2. height[a] \in Nat
    BY <1>6
  <2>3. 1 .. height[0] + 1 \subseteq D
    BY RowsEnough
  <2>4. QED
    BY <2>2, <2>3, <1>8
<1>10. ASSUME NEW a \in Below(h, c) PROVE a \in Subtree(h, live, height, low, c)
  <2>1. PICK d \in D : a \in RowAt(h, live, height, low, c, d)
    BY <1>7
  <2>2. a \in live /\ height[a] + d = height[c] + 1 /\ Within(h, low, a, c)
    BY <2>1 DEF RowAt
  <2>3. d \in Nat /\ d >= 1 /\ height[a] \in Nat
    BY <1>2, <1>6, <2>2
  <2>4. height[a] <= height[c]
    BY <2>2, <2>3, <1>8
  <2>5. QED
    BY <2>2, <2>4 DEF Subtree
<1>11. ASSUME NEW a \in Subtree(h, live, height, low, c) PROVE a \in Below(h, c)
  <2>1. a \in live /\ height[a] <= height[c] /\ Within(h, low, a, c)
    BY DEF Subtree
  <2>2. height[a] \in Nat /\ height[c] + 1 - height[a] \in D
    BY <1>6, <1>9, <2>1
  <2>3. height[a] + (height[c] + 1 - height[a]) = height[c] + 1
    BY <2>2, <1>8
  <2>4. a \in RowAt(h, live, height, low, c, height[c] + 1 - height[a])
    BY <2>1, <2>3 DEF RowAt
  <2>5. QED
    BY <1>7, <2>2, <2>4
<1>12. QED
  BY <1>5, <1>10, <1>11

\* The pairs below c, and those of the whole tree.
LEMMA EntriesBelow ==
    ASSUME NEW h, NEW live, NEW height, NEW up, NEW pos, Standing(h, live, height, up, pos),
           NEW low, NEW c \in live, c = 0 \/ Order(h, live, low, 0)
    PROVE  Entries(h, c) = EntriesAt(h, Subtree(h, live, height, low, c))
<1> DEFINE T == Subtree(h, live, height, low, c)
<1>1. Below(h, c) = T
  BY RowsOfTree
<1>2. \A a \in T : h[a].leaf \in BOOLEAN /\ PairsIn(h[a]) = PairsOf(h[a])
  BY ListedNode DEF Standing, Subtree
<1> HIDE DEF T
<1>3. Entries(h, c) = UNION {PairsIn(h[a]) : a \in {b \in T : h[b].leaf}}
  BY <1>1 DEF Entries, Leaves
<1>4. ASSUME NEW e PROVE e \in Entries(h, c) <=> e \in EntriesAt(h, T)
  <2>1. e \in Entries(h, c) <=> \E a \in T : h[a].leaf /\ e \in PairsOf(h[a])
    BY <1>2, <1>3
  <2>2. e \in EntriesAt(h, T) <=> \E a \in T : e \in Own(h[a])
    BY DEF EntriesAt
  <2>3. \A a \in T : e \in Own(h[a]) <=> h[a].leaf /\ e \in PairsOf(h[a])
    BY <1>2 DEF Own
  <2>4. QED
    BY <2>1, <2>2, <2>3
<1>5. QED
  BY <1>4 DEF T

RowsLevel(h) ==
    \A d \in RowNumbers(h) : \A a, b \in Rows(h, 0)[d] : h[a].leaf = h[b].leaf

LEMMA RowsOfRoot ==
    ASSUME NEW h, NEW live, NEW height, NEW up, NEW pos, Standing(h, live, height, up, pos)
    PROVE  /\ Below(h, 0) = live /\ Entries(h, 0) = EntriesAt(h, live)
           /\ RowsLevel(h)
<1>1. /\ 0 \in live /\ live \subseteq Int /\ height \in [Int -> Nat]
      /\ \A x \in live : x = 0 \/ height[x] < height[0]
      /\ \A x \in live : LinkedAt(h[x], x, live, height, up, pos)
  BY DEF Standing, Linked, Hung
<1>2. \A x \in live : height[x] \in Nat /\ height[x] <= height[0]
  BY <1>1
<1> DEFINE low == height
<1> HIDE DEF low
<1>3. Subtree(h, live, height, low, 0) = live
  BY <1>2 DEF Subtree, Within
<1>4. /\ Rows(h, 0) = [d \in RowNumbers(h) |-> RowAt(h, live, height, low, 0, d)]
      /\ Below(h, 0) = Subtree(h, live, height, low, 0)
  BY <1>1, RowsOfTree
<1>5. Entries(h, 0) = EntriesAt(h, live)
  BY <1>1, <1>3, EntriesBelow
<1>6. ASSUME NEW d \in RowNumbers(h), NEW a \in Rows(h, 0)[d], NEW b \in Rows(h, 0)[d]
      PROVE  h[a].leaf = h[b].leaf
  <2>1. RowNumbers(h) \subseteq Nat
    BY RowsCounted DEF Standing
  <2>2. /\ a \in live /\ height[a] + d = height[0] + 1
        /\ b \in live /\ height[b] + d = height[0] + 1
    BY <1>4 DEF RowAt
  <2>3. height[a] \in Nat /\ height[b] \in Nat /\ d \in Nat /\ height[0] \in Nat
    BY <1>1, <1>2, <2>1, <2>2
  <2>4. height[a] = height[b]
    BY <2>2, <2>3
  <2>5. QED
    BY <1>1, <2>2, <2>4 DEF LinkedAt
<1>7. RowsLevel(h)
  BY <1>6 DEF RowsLevel
<1>8. QED
  BY <1>3, <1>4, <1>5, <1>7

\* Below each node there is a leaf with the same largest key.
LEMMA LastLeafBelow ==
    ASSUME NEW h, NEW live, NEW height, NEW up, NEW pos, Standing(h, live, height, up, pos),
           NEW low, Order(h, live, low, 0), NEW c \in live \ {0}
    PROVE  \E b \in Subtree(h, live, height, low, c) \ {0} :
                h[b].leaf /\ Most(h[b]) = Most(h[c])
<1> DEFINE Fit(b) == b \in live \ {0} /\ Within(h, low, b, c) /\ Most(h[b]) = Most(h[c])
           S == {d \in Nat : d <= height[c] /\ \A b : Fit(b) => height[b] + d # height[c]}
<1>1. /\ 0 \in live /\ live \subseteq Int /\ height \in [Int -> Nat]
      /\ \A x \in live : x = 0 \/ height[x] < height[0]
      /\ Linked(h, live, height, up, pos)
      /\ \A x \in live : LinkedAt(h[x], x, live, height, up, pos)
  BY DEF Standing, Linked, Hung
<1>2. \A x \in live : height[x] \in Nat
  BY <1>1
<1>3. low[c] \in Int /\ Most(h[c]) \in Int
  BY BelowMost
<1>4. S = {}
  <2>1. SUFFICES ASSUME S # {} PROVE FALSE
    OBVIOUS
  <2>2. PICK d \in S : \A e \in S : d <= e
    BY <2>1, HasSmallest
  <2>3. d \in Nat /\ d <= height[c] /\ height[c] \in Nat
    BY <1>2, <2>2
  <2>4. \A b : Fit(b) => height[b] + d # height[c]
    BY <2>2
  <2>5. Fit(c)
    BY <1>3 DEF Within
  <2>6. d # 0
    BY <2>3, <2>4, <2>5
  <2>7. d - 1 \in Nat /\ d - 1 <= height[c] /\ d - 1 \notin S
    BY <2>2, <2>3, <2>6
  <2>8. PICK b : Fit(b) /\ height[b] + (d - 1) = height[c]
    BY <2>7
  <2>9. height[b] \in Nat /\ height[b] # 0 /\ height[b] = height[c] - d + 1
    BY <1>2, <2>3, <2>8
  <2>10. /\ h[b].leaf = FALSE /\ Kids(h[b]) \in Nat /\ Kids(h[b]) > 0
         /\ LinkedAt(h[b], b, live, height, up, pos)
    BY <1>1, <2>8, <2>9 DEF LinkedAt, Standing, Filled
  <2> DEFINE x == Kid(h[b], Kids(h[b]))
  <2>11. x \in live \ {0} /\ height[x] + 1 = height[b] /\ up[x] = b /\ pos[x] = Kids(h[b])
    BY <2>10 DEF LinkedAt
  <2> HIDE DEF x
  <2>12. /\ Most(h[x]) = Key(h[up[x]], pos[x]) /\ low[up[x]] <= low[x]
         /\ low[x] \in Int /\ low[up[x]] \in Int
    BY <1>1, <2>11, ChildBelow
  <2>13. Most(h[x]) = Most(h[b]) /\ low[b] <= low[x] /\ low[b] \in Int
    BY <2>11, <2>12 DEF Most
  <2>14. Within(h, low, x, c)
    BY <1>3, <2>8, <2>12, <2>13 DEF Within
  <2>15. Fit(x)
    BY <2>8, <2>11, <2>13, <2>14
  <2>16. height[x] + d = height[c]
    <3>1. height[x] \in Nat
      BY <1>2, <2>11
    <3>2. QED
      BY <3>1, <2>3, <2>9, <2>11
  <2>17. QED
    BY <2>4, <2>15, <2>16
<1>5. height[c] \in Nat /\ height[c] <= height[c]
  BY <1>2
<1>6. PICK b : Fit(b) /\ height[b] + height[c] = height[c]
  BY <1>4, <1>5
<1>7. height[b] = 0
  BY <1>2, <1>5, <1>6
<1>8. h[b].leaf
  BY <1>1, <1>6, <1>7 DEF LinkedAt
<1>9. QED
  BY <1>5, <1>6, <1>7, <1>8 DEF Subtree

\* The keys below a child are above the key before its place and up to its own.
LEMMA KeysAreSeparate ==
    ASSUME NEW h, NEW live, NEW height, NEW up, NEW pos, Standing(h, live, height, up, pos),
           NEW low, Order(h, live, low, 0), NEW a \in live, IsInner(h[a])
    PROVE  KeysSeparate(h, a)
<1>1. /\ Linked(h, live, height, up, pos) /\ live \subseteq Int
      /\ LinkedAt(h[a], a, live, height, up, pos) /\ \A x \in live : Listed(h[x])
  BY DEF Standing, Linked
<1>2. Kids(h[a]) \in Nat /\ DOMAIN h[a].ptrs = 1 .. Kids(h[a]) /\ Rising(h[a], low[a])
  BY <1>1, ListedNode DEF Order, Ordered
<1>3. ASSUME NEW i \in 1 .. Kids(h[a]), NEW c, c = Kid(h[a], i), NEW below,
             below = {e[1] : e \in Entries(h, c)}
      PROVE  /\ Key(h[a], i) \in below
             /\ \A k \in below : k <= Key(h[a], i) /\ (i > 1 => Key(h[a], i - 1) < k)
  <2>1. c \in live \ {0} /\ up[c] = a /\ pos[c] = i
    BY <1>1, <1>3 DEF LinkedAt, IsInner
  <2>2. /\ Most(h[c]) = Key(h[a], i) /\ Most(h[c]) \in Int /\ low[c] \in Int
        /\ \A j \in 1 .. Kids(h[a]) : j < i => Key(h[a], j) <= low[c]
    BY <1>1, <2>1, ChildBelow
  <2>3. Entries(h, c) = EntriesAt(h, Subtree(h, live, height, low, c))
    BY <2>1, EntriesBelow
  <2>4. Key(h[a], i) \in below
    <3>1. PICK b \in Subtree(h, live, height, low, c) \ {0} :
                h[b].leaf /\ Most(h[b]) = Most(h[c])
      BY <2>1, LastLeafBelow
    <3>2. b \in live \ {0}
      BY <3>1 DEF Subtree
    <3>3. Kids(h[b]) \in 1 .. Kids(h[b])
      BY <3>2, <1>1, ListedNode DEF Standing, Filled
    <3>4. <<Most(h[b]), Kid(h[b], Kids(h[b]))>> \in Own(h[b])
      BY <3>1, <3>3 DEF Own, PairsOf, Most
    <3>5. <<Most(h[b]), Kid(h[b], Kids(h[b]))>> \in Entries(h, c)
      BY <2>3, <3>1, <3>4 DEF EntriesAt
    <3>6. Most(h[b]) \in below
      BY <3>5, <1>3
    <3>7. QED
      BY <2>2, <3>1, <3>6
  <2>5. ASSUME NEW k \in below
        PROVE  k \in Int /\ k <= Key(h[a], i) /\ low[c] < k
    <3>1. PICK e \in Entries(h, c) : k = e[1]
      BY <1>3
    <3>2. PICK b \in Subtree(h, live, height, low, c) : e \in Own(h[b])
      BY <2>3, <3>1 DEF EntriesAt
    <3>3. b \in live /\ Within(h, low, b, c) /\ height[b] <= height[c]
      BY <3>2 DEF Subtree
    <3>4. b # 0
      <4>1. height[c] < height[0] /\ height[c] \in Nat /\ height[0] \in Nat
        BY <1>1, <2>1 DEF Linked, Hung
      <4>2. QED
        BY <4>1, <3>3
    <3>5. PICK j \in 1 .. Kids(h[b]) : e = <<Key(h[b], j), Kid(h[b], j)>>
      BY <3>2 DEF Own, PairsOf
    <3>6. k = Key(h[b], j)
      BY <3>1, <3>5
    <3>7. Rising(h[b], low[b]) /\ Kids(h[b]) \in Nat
      BY <3>3, <1>1, ListedNode DEF Order, Ordered
    <3>8. k \in Int /\ low[b] < k /\ k <= Most(h[b]) /\ Most(h[b]) \in Int /\ low[b] \in Int
      BY <3>6, <3>7 DEF Rising, Most
    <3>9. QED
      BY <2>1, <2>2, <3>3, <3>8 DEF Within
  <2>6. i > 1 => Key(h[a], i - 1) <= low[c] /\ Key(h[a], i - 1) \in Int
    BY <1>2, <2>2 DEF Rising
  <2>7. QED
    BY <2>2, <2>4, <2>5, <2>6
<1>4. SUFFICES ASSUME NEW i \in DOMAIN h[a].ptrs
               PROVE  LET keys == h[a].keys
                          below == {e[1] : e \in Entries(h, h[a].ptrs[i])}
                      IN  /\ keys[i] \in below
                          /\ \A k \in below : k <= keys[i] /\ (i > 1 => keys[i - 1] < k)
  BY DEF KeysSeparate
<1> DEFINE c == h[a].ptrs[i]
           below == {e[1] : e \in Entries(h, c)}
<1>5. i \in 1 .. Kids(h[a]) /\ c = Kid(h[a], i)
  BY <1>2 DEF Kid
<1>6. below = {e[1] : e \in Entries(h, c)}
  OBVIOUS
<1> HIDE DEF below, c
<1>7. /\ Key(h[a], i) \in below
      /\ \A k \in below : k <= Key(h[a], i) /\ (i > 1 => Key(h[a], i - 1) < k)
  BY <1>3, <1>5, <1>6
<1>8. QED
  BY <1>7 DEF Key, below, c

\* A heap that is linked as a tree and in order is what module BTree calls one.
LEMMA OrderedIsTree ==
    ASSUME NEW h, NEW live, NEW height, NEW up, NEW pos, Standing(h, live, height, up, pos),
           NEW low, Order(h, live, low, 0), Sizes(h, live, 0, 0, 0),
           root.id = 0, \A a \in live : h[a].id = a
    PROVE  IsTree(h)
<1>1. Below(h, 0) = live /\ RowsLevel(h)
  BY RowsOfRoot
<1>2. ASSUME NEW a \in live
      PROVE  /\ SizeFits(h[a]) /\ ~h[a].deleted /\ Ascending(h[a].keys)
             /\ ~h[a].leaf => KeysSeparate(h, a)
  <2>1. ~h[a].deleted /\ a \in DOMAIN h /\ Listed(h[a])
    BY DEF Standing, Linked, LinkedAt
  <2>2. SizeFits(h[a])
    <3>1. Size(h[a]) \in Nat /\ Size(h[a]) < 2 * NodeSize + 0
      BY <2>1 DEF Sizes
    <3>2. Size(h[a]) + 0 >= Least(a, h[a])
      BY DEF Sizes
    <3>3. h[a].leaf \in BOOLEAN
      BY <2>1, ListedNode
    <3>4. QED
      BY <3>1, <3>2, <3>3, NodeSizeAssumption DEF SizeFits, Least
  <2>3. Ascending(h[a].keys)
    <3>1. Rising(h[a], low[a]) /\ Kids(h[a]) \in Nat /\ Len(h[a].keys) = Kids(h[a])
      BY <2>1, ListedNode DEF Order, Ordered, Listed, Size
    <3>2. \A i \in 1 .. Kids(h[a]) - 1 : Key(h[a], i) < Key(h[a], i + 1)
      BY <3>1 DEF Rising
    <3>3. QED
      BY <3>1, <3>2 DEF Ascending, Key
  <2>4. ~h[a].leaf => KeysSeparate(h, a)
    BY <2>1, ListedNode, KeysAreSeparate DEF IsInner
  <2>5. QED
    BY <2>1, <2>2, <2>3, <2>4
<1>3. QED
  BY <1>1, <1>2 DEF IsTree, RowsLevel
===============================================================================
