---------------------------- MODULE MCVgicDist ----------------------------
(* VgicDist with two guests; the first has two vCPUs. The last of the two  *)
(* shared vIRQs is not set up: it is bound to its own line.                *)
EXTENDS VgicDist, TLC

CONSTANTS a, b, c

(* The vCPUs of one VM are alike.                                          *)
Siblings == Permutations({a, b})
MCVmOf == (a :> 0 @@ b :> 0 @@ c :> 1)
MCJunk == {[enable |-> TRUE, state |-> "INACTIVE", prio |-> LOWEST, cfg |-> 0,
            hw |-> TRUE, pint |-> UART + 1]}
=============================================================================
