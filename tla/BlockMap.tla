------------------------------- MODULE BlockMap -------------------------------
(***************************************************************************)
(* What an IOStorage promises its client: a map from ids to blocks.  The   *)
(* client inserts under an id that holds no block and erases an id that    *)
(* holds one; nothing else changes the map, and one id's operation never   *)
(* touches the block of another.                                           *)
(***************************************************************************)
CONSTANTS Ids, Blocks

VARIABLE blocks     \* a function from the ids in use to their blocks

Init == blocks = [id \in {} |-> id]

Insert(id, block) ==
    /\ id \notin DOMAIN blocks
    /\ blocks' = [i \in DOMAIN blocks \cup {id} |->
                    IF i = id THEN block ELSE blocks[i]]

Erase(id) ==
    /\ id \in DOMAIN blocks
    /\ blocks' = [i \in DOMAIN blocks \ {id} |-> blocks[i]]

Next ==
    \E id \in Ids :
        \/ \E block \in Blocks : Insert(id, block)
        \/ Erase(id)

Spec == Init /\ [][Next]_blocks

===============================================================================
