---------------------------- MODULE MCWorldSwitch ----------------------------
(* Two VMs, A with one or two vCPUs and B with one.                        *)
EXTENDS WorldSwitch

CONSTANTS a1, a2, b1, A, B, zero, one

MCVmOf == [v \in Vcpus |-> IF v = b1 THEN B ELSE A]
MCIdOf == [v \in Vcpus |-> IF v = a2 THEN one ELSE zero]
=============================================================================
