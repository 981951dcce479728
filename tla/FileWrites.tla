------------------------------ MODULE FileWrites ------------------------------
(***************************************************************************)
(* The file of a FileArray, shared by the modules that take its writes one *)
(* by one (FileArray, IOStorageCrash).  A file is a function from cells to *)
(* values: the cell Header holds the number of elements, cell i the element*)
(* of index i.                                                             *)
(***************************************************************************)
EXTENDS FileVector, FiniteSetsExt

CONSTANT NoData         \* a cell behind the end of a file

Header == -1

\* Writes and journal records: a cell and what it is to hold.
At(cell, value) == [at |-> cell, value |-> value]

NoWrite == At(Header, NoData)

Apply(file, w) == IF w = NoWrite THEN file ELSE [file EXCEPT ![w.at] = w.value]

\* One write after the other: each cell ends with what was last written to it.
WritesOf(ws, cell) == {i \in DOMAIN ws : ws[i] # NoWrite /\ ws[i].at = cell}

Replay(file, ws) ==
    [cell \in DOMAIN file |->
        IF WritesOf(ws, cell) = {} THEN file[cell]
        ELSE ws[Max(WritesOf(ws, cell))].value]

\* The elements of a file.
Vector(file) == [i \in 1 .. file[Header] |-> file[i - 1]]

===============================================================================
