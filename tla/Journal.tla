-------------------------------- MODULE Journal --------------------------------
(***************************************************************************)
(* The header of a journal file (src/io/Journal.cpp): next_position, the   *)
(* end of the valid records, is kept twice with a check byte behind it, so *)
(* that an interrupted update is recognised.  One action per write that    *)
(* reaches the file (each seek of the stream flushes what was written      *)
(* before it; the second number and the reset check byte go together), and *)
(* crashes between any two of them or in the middle of one.  FileArray     *)
(* extends this module by the records.                                     *)
(***************************************************************************)
EXTENDS Integers

CONSTANTS
    Positions,      \* the values next_position takes
    First,          \* the position behind the header, that of an empty journal
    Torn,           \* a value of which only some bytes were written
    Tearing,        \* whether a crash can interrupt a write in the middle
    TearsUnderCheck, \* and the first number's while the check byte is still 1
    MaxStops        \* bound: crashes in a behaviour

ASSUME PositionsAssumption ==
    /\ First \in Positions /\ Torn \notin Positions
    /\ Tearing \in BOOLEAN /\ TearsUnderCheck \in BOOLEAN /\ MaxStops \in Nat

VARIABLES
    var1, var2,         \* the two numbers in the file
    check_byte,
    next_position,      \* the number in memory
    step,               \* what writeNextPosition writes next, if it runs
    stops               \* crashes so far

headerVars == <<var1, var2, check_byte, next_position, step, stops>>

\* The creating constructor has written and synchronised the header.
HeaderInit ==
    /\ var1 = First /\ var2 = First /\ check_byte = 0
    /\ next_position = First
    /\ step = "ready" /\ stops = 0

\* readNextPosition.
ReadFirst == var1                               \* mutants of ReadNextPosition
ReadSecond == var2

ReadNextPosition == IF var1 = var2 \/ check_byte = 1 THEN var1 ELSE var2

\* writeNextPosition, called with the end of a new record or, at the end of a
\* restore, with First.
WriteNextPosition(p) ==
    /\ step = "ready"
    /\ next_position' = p
    /\ step' = "first"
    /\ UNCHANGED <<var1, var2, check_byte, stops>>

WriteFirst ==
    /\ step = "first"
    /\ var1' = next_position
    /\ step' = "check"
    /\ UNCHANGED <<var2, check_byte, next_position, stops>>

SetCheckByte ==
    /\ step = "check"
    /\ check_byte' = 1
    /\ step' = "second"
    /\ UNCHANGED <<var1, var2, next_position, stops>>

WriteSecond ==
    /\ step = "second"
    /\ var2' = next_position /\ check_byte' = 0
    /\ step' = "ready"
    /\ UNCHANGED <<var1, next_position, stops>>

\* The program stops; with Tearing, in the middle of writing a number.  The check
\* byte comes after the second number, which may be whole without it.  An
\* earlier crash may have left the check byte at 1 when the first number is
\* written; only with TearsUnderCheck can a crash tear the number then.
Stop ==
    /\ step # "crashed" /\ stops < MaxStops
    /\ stops' = stops + 1
    /\ \/ UNCHANGED <<var1, var2>>
       \/ /\ Tearing /\ step = "first" /\ (check_byte = 1 => TearsUnderCheck)
          /\ var1' = Torn /\ UNCHANGED var2
       \/ /\ Tearing /\ step = "second"
          /\ var2' \in {Torn, next_position} /\ UNCHANGED var1
    /\ step' = "crashed"
    /\ UNCHANGED <<check_byte, next_position>>

\* The constructors that open an existing journal.
OpenJournal ==
    /\ step = "crashed"
    /\ next_position' = ReadNextPosition
    /\ step' = "ready"
    /\ UNCHANGED <<var1, var2, check_byte, stops>>

HeaderNext ==
    \/ \E p \in Positions : WriteNextPosition(p)
    \/ WriteFirst \/ SetCheckByte \/ WriteSecond
    \/ Stop \/ OpenJournal

HeaderSpec == HeaderInit /\ [][HeaderNext]_headerVars

-------------------------------------------------------------------------------
(* Properties *)

Writing == step \in {"first", "check", "second"}

\* Type correctness; in particular no torn number is ever read into memory.
HeaderTypeOK ==
    /\ {var1, var2} \subseteq Positions \cup {Torn}
    /\ check_byte \in {0, 1} /\ next_position \in Positions
    /\ step \in {"ready", "first", "check", "second", "crashed"}
    /\ stops \in 0 .. MaxStops

\* The update of next_position is atomic: whenever the program stops, a reader
\* finds the old number or the new one.  The check byte is not reset when a
\* journal is opened or an update begins, so with TearsUnderCheck this holds for
\* one crash only.
Register == INSTANCE PositionRegister WITH
    position <- ReadNextPosition,
    wanted <- IF Writing THEN next_position ELSE ReadNextPosition

UpdateIsAtomic == Register!Spec

\* The comment on readNextPosition (Journal.cpp:8-11): the check byte is 1 only
\* when the first number is completely written.
CheckByteMeansFirstWritten == check_byte = 1 => var1 # Torn

===============================================================================
