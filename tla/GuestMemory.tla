---------------------------- MODULE GuestMemory ----------------------------
(***************************************************************************)
(* What guest memory promises, without tables: each slot has a map from    *)
(* guest addresses to blocks. An address is given a block once, the block  *)
(* belongs to the VM that is in the slot at that moment and is mapped      *)
(* nowhere else, and no address is ever changed or unmapped, by no failure *)
(* and no other VM.                                                        *)
(***************************************************************************)
CONSTANTS Slots, Vms, Addrs, Blocks, None

VARIABLES
  mem,     \* the block of each address of each slot
  owner,   \* the VM a block was allocated for
  tenant,  \* the VM in each slot
  used     \* VMs created so far

vars == <<mem, owner, tenant, used>>

Init ==
  /\ mem = [s \in Slots |-> [a \in Addrs |-> None]]
  /\ owner = [b \in Blocks |-> None]
  /\ tenant = [s \in Slots |-> None] /\ used = {}

Create(s, v) ==
  /\ tenant[s] = None /\ v \notin used
  /\ tenant' = [tenant EXCEPT ![s] = v] /\ used' = used \cup {v}
  /\ UNCHANGED <<mem, owner>>

Delete(s) ==
  /\ tenant[s] # None /\ tenant' = [tenant EXCEPT ![s] = None]
  /\ UNCHANGED <<mem, owner, used>>

Allocate(s, b) ==
  /\ tenant[s] # None /\ owner[b] = None
  /\ owner' = [owner EXCEPT ![b] = tenant[s]]
  /\ UNCHANGED <<mem, tenant, used>>

Map(s, a, b) ==
  /\ mem[s][a] = None /\ owner[b] = tenant[s] /\ tenant[s] # None
  /\ \A t \in Slots : \A c \in Addrs : mem[t][c] # b
  /\ mem' = [mem EXCEPT ![s] = [mem[s] EXCEPT ![a] = b]]
  /\ UNCHANGED <<owner, tenant, used>>

Next ==
  \E s \in Slots : \/ Delete(s) \/ \E v \in Vms : Create(s, v)
                   \/ \E b \in Blocks : Allocate(s, b) \/ \E a \in Addrs : Map(s, a, b)

Spec == Init /\ [][Next]_vars
=============================================================================
