--------------------------- MODULE PositionRegister ---------------------------
(***************************************************************************)
(* What the header of a journal promises: one number that is replaced as a *)
(* whole.  A crash loses the number being written or keeps it; it never    *)
(* leaves anything else.                                                   *)
(***************************************************************************)
CONSTANTS Positions, First

VARIABLES
    position,   \* what a reader of the file would find
    wanted      \* the number being written, position itself when none is

vars == <<position, wanted>>

Init == position = First /\ wanted = First

Request(p) == wanted' = p /\ UNCHANGED position

Replace == position' = wanted /\ UNCHANGED wanted

\* A crash before the replacement.
Forget == wanted' = position /\ UNCHANGED position

Next == (\E p \in Positions : Request(p)) \/ Replace \/ Forget

Spec == Init /\ [][Next]_vars

===============================================================================
