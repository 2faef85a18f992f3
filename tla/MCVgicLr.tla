------------------------------ MODULE MCVgicLr ------------------------------
(* Small instances of VgicLr: see the VgicLr_*.cfg files. The vCPUs are     *)
(* interchangeable.                                                        *)
EXTENDS VgicLr, TLC

VcpuSymmetry == Permutations(Vcpus)
=============================================================================
