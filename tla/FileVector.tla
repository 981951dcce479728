------------------------------ MODULE FileVector ------------------------------
(***************************************************************************)
(* What a FileArray holds, seen through its public interface and without   *)
(* its file, its stream buffer and its journal: a vector of equal-sized    *)
(* elements.  Indexes are zero-based, as in the code; element i of the     *)
(* vector f is f[i + 1].                                                   *)
(*                                                                         *)
(* IOStorage is built from these operators.  Module FileArray models the   *)
(* same class with the file, the buffer and the journal.                   *)
(***************************************************************************)
EXTENDS Integers, Sequences

\* FileArray::readElement, whose assertion wants index < size().
ReadElement(f, index) == f[index + 1]

\* FileArray::back
Back(f) == ReadElement(f, Len(f) - 1)

\* FileArray::pushBack: write at the end, then the incremented size.
PushBack(f, src) == Append(f, src)

\* FileArray::popBack: only the size shrinks, the element stays in the file
\* behind the new end and is no longer part of the vector.
PopBackForgetsSize(f) == f

PopBack(f) == SubSeq(f, 1, Len(f) - 1)

\* FileArray::writeElement: the position just behind the end is a pushBack.
\* A position further out is not an element of any file (reading the old
\* contents for the journal fails there), so callers need index <= size().
WriteElement(f, src, index) ==
    IF index = Len(f) THEN PushBack(f, src) ELSE [f EXCEPT ![index + 1] = src]

===============================================================================
