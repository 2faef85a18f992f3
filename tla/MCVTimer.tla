------------------------------ MODULE MCVTimer ------------------------------
(* Small instances of VTimer: a guest disables, enables, and masks.        *)
EXTENDS VTimer

MCCtls == {[enable |-> FALSE, imask |-> FALSE], [enable |-> TRUE, imask |-> FALSE],
           [enable |-> TRUE, imask |-> TRUE]}
=============================================================================
