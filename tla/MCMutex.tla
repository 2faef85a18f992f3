------------------------------ MODULE MCMutex ------------------------------
(* Mutex with a high, a middle and a low thread above the idle thread. All *)
(* take m1, the high one again and again, and the low one also takes m2,   *)
(* in either order.                                                        *)
EXTENDS Mutex, TLC

CONSTANTS high, mid, low, idle, m1, m2

MCBase == (high :> 0 @@ mid :> 1 @@ low :> 2 @@ idle :> 3)
Both(n, k) == (m1 :> n @@ m2 :> k)
MCTakes == (high :> Both(3, 0) @@ mid :> Both(1, 0) @@ low :> Both(1, 1)
            @@ idle :> Both(0, 0))
=============================================================================
