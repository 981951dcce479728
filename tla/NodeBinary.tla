------------------------------ MODULE NodeBinary ------------------------------
(***************************************************************************)
(* The binary form of a node: toBinary, and the constructors that read it  *)
(* back from a block of the node storage (src/node, src/utilities.h,       *)
(* key_value_storage.h).  Writing and reading are two pieces of code that  *)
(* agree on offsets only, so a binary is a sequence of bytes here: the     *)
(* first byte of a number stands for the number, the others are Rest.      *)
(***************************************************************************)
EXTENDS BNode

CONSTANTS
    KeyBytes,       \* sizeof(Key)
    Elements        \* NodeStorage's ELEMENTS_IN_NODE

Word == 8                   \* sizeof(size_t)
TypeBytes == 4              \* sizeof(NodeType)
Rest == -2
Garbage == -3               \* what reading at a wrong place gives

\* The block size of a NodeStorage.
BlockSize == Word * (2 + 2 + Elements) + KeyBytes * Elements

-------------------------------------------------------------------------------
\* serialize and deserialize
Serialize(value, bytes) == [i \in 1 .. bytes |-> IF i = 1 THEN value ELSE Rest]

Deserialize(src, index, bytes) ==
    IF index + bytes > Len(src) THEN Garbage
    ELSE LET part == SubSeq(src, index + 1, index + bytes) IN
         IF part = Serialize(part[1], bytes) \/ part = [i \in 1 .. bytes |-> 0]
         THEN part[1] ELSE Garbage

\* serialize for the numbers of s, one after the other.
SerializeAll(s, bytes) ==
    [i \in 1 .. Len(s) * bytes |->
        IF (i - 1) % bytes = 0 THEN s[(i - 1) \div bytes + 1] ELSE Rest]

\* toBinary: the type, what every node has, the links of a leaf, the pointers.
CommonPart(n) ==
    SerializeAll(<<n.id, Size(n)>>, Word) \o SerializeAll(n.keys, KeyBytes)

InnerPart(n) == CommonPart(n) \o SerializeAll(n.ptrs, Word)

LeafPart(n) ==
    CommonPart(n) \o SerializeAll(<<n.next, n.prev>>, Word) \o SerializeAll(n.ptrs, Word)

ToBinary(n) ==
    Serialize(IF n.leaf THEN 2 ELSE 1, TypeBytes)
        \o (IF n.leaf THEN LeafPart(n) ELSE InnerPart(n))

\* IOStorage::insert brings the binary to the size of a block: it fills up with
\* zeros, and cuts off what does not fit once assertions are compiled out.
ToBlock(binary) ==
    [i \in 1 .. BlockSize |-> IF i <= Len(binary) THEN binary[i] ELSE 0]

\* The constructors that read a node.  What every node has comes first; the
\* part's beg is the position behind the keys.
Numbers(src, beg, count, bytes) ==
    [i \in 1 .. count |-> Deserialize(src, beg + (i - 1) * bytes, bytes)]

ReadCommon(src, beg) ==
    LET size == Deserialize(src, beg + Word, Word) IN
    [id |-> Deserialize(src, beg, Word),
     keys |-> Numbers(src, beg + 2 * Word, size, KeyBytes),
     beg |-> beg + 2 * Word + size * KeyBytes]

ReadInner(src, part) ==
    Inner(part.id, part.keys, Numbers(src, part.beg, Len(part.keys), Word))

ReadLeafWithoutPrev(src, part) ==               \* mutant of ReadLeaf
    Leaf(part.id, part.keys, Numbers(src, part.beg + Word, Len(part.keys), Word),
         Deserialize(src, part.beg, Word), Nil)

ReadLeaf(src, part) ==
    Leaf(part.id, part.keys, Numbers(src, part.beg + 2 * Word, Len(part.keys), Word),
         Deserialize(src, part.beg, Word), Deserialize(src, part.beg + Word, Word))

FromBinary(src) ==
    LET part == ReadCommon(src, TypeBytes) IN
    IF Deserialize(src, 0, TypeBytes) = 2 THEN ReadLeaf(src, part) ELSE ReadInner(src, part)

\* The block that a commit writes.
Block(n) == ToBlock(ToBinary(n))

===============================================================================
