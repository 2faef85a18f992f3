------------------------------ MODULE MCStage2 ------------------------------
(* Images whose memories share level 1 entries; the last two are not       *)
(* loaded to their own memory, as the second of os.c: there is no table    *)
(* for the address of the one, and no block at that of the other.          *)
EXTENDS Stage2, TLC

CONSTANTS b1, b2, b3, b4, b5, b6

Loading == {[start |-> 1, count |-> 2, img |-> {1}],
            [start |-> 3, count |-> 2, img |-> {3}]}
MCOses == Loading \cup {[start |-> 2, count |-> 1, img |-> {0}],
                        [start |-> 2, count |-> 1, img |-> {3}]}
Heap == Permutations(Blocks)
=============================================================================
