------------------------------- MODULE Stage2 -------------------------------
(***************************************************************************)
(* Guest memory: vm_init of a VM allocates 2 MB blocks from the host's     *)
(* heap, maps them into the slot's stage-2 tables and loads the image      *)
(* through them. Tables, table pages and their bitmap belong to the slot   *)
(* and outlive its VM; nothing of them is cleared, and no block is freed,  *)
(* when the VM is deleted. Addresses are counted in 2 MB blocks.           *)
(***************************************************************************)
EXTENDS Integers

CONSTANTS
  MAX_VM_NUM,
  Blocks,            (* 2 MB blocks of the host's heap                      *)
  Pages,             (* the table pages of a slot                          *)
  PUD_NUM, PMD_NUM,  (* entries of a level 1 and of a level 2 table        *)
  Oses,              (* os_img: start and count of the memory, and the     *)
                     (* blocks the image is loaded to                      *)
  None

Slots == 0 .. MAX_VM_NUM - 1
Puds  == 0 .. PUD_NUM - 1
Pmds  == 0 .. PMD_NUM - 1
Ipas  == 0 .. PUD_NUM * PMD_NUM - 1

ASSUME S2Constants ==
  /\ MAX_VM_NUM \in Nat /\ PUD_NUM \in Nat /\ PMD_NUM \in Nat \ {0}
  /\ Pages \subseteq Nat
  /\ Oses \subseteq [start : Nat, count : Nat, img : SUBSET Ipas]
  /\ \A o \in Oses : o.start + o.count < PUD_NUM * PMD_NUM  \* s2_map asserts it

ASSUME S2Names == None \notin Nat /\ None \notin Blocks /\ None \notin Oses

S2_PUD_IDX(ipa) == ipa \div PMD_NUM
S2_PMD_IDX(ipa) == ipa % PMD_NUM

VARIABLES
  total,   \* rt_hyp.total_vm; VMs are named by the order of creation
  vm,      \* the VM in each slot
  os,      \* the image of each VM
  made,    \* VMs with their vCPUs: vcpus_create succeeded
  online,  \* VMs whose vm_init succeeded
  pgd,     \* S2_MMUTable_Group: the table page of each level 1 entry
  page,    \* S2_MMUPage_Group: the blocks a table page maps
  bitmap,  \* s2_page_bitmap
  owner,   \* the VM an allocated block was allocated for
  job,     \* where vm_init is: its slot, blocks allocated, mb_head, address
  host,    \* "fault" once an empty entry or a missing vCPU was dereferenced
  tenants  \* the VMs that were in a slot (not in the code)

tables == <<pgd, page, bitmap>>
vmVars == <<total, vm, os, tenants>>
vars   == <<vmVars, made, online, tables, owner, job, host>>

NoJob == [pc |-> "idle", s |-> 0, n |-> 0, mbs |-> {}, va |-> 0]

(* rt_init_s2_mmu_table clears all tables once.                            *)
Init ==
  /\ total = 0 /\ vm = [s \in Slots |-> None] /\ os = [v \in Slots |-> None]
  /\ made = {} /\ online = {} /\ tenants = [s \in Slots |-> {}]
  /\ pgd = [s \in Slots |-> [p \in Puds |-> None]]
  /\ page = [s \in Slots |-> [k \in Pages |-> [i \in Pmds |-> None]]]
  /\ bitmap = [s \in Slots |-> {}]
  /\ owner = [b \in Blocks |-> None]
  /\ job = NoJob /\ host = "ok"

-----------------------------------------------------------------------------
(* create_vm and delete_vm, for what concerns memory. Which free slot is   *)
(* taken depends on the bits that failed creations left set.               *)

AtPrompt == host = "ok" /\ job.pc = "idle"

create_vm(s, o) ==
  /\ AtPrompt /\ vm[s] = None /\ total < MAX_VM_NUM
  /\ vm' = [vm EXCEPT ![s] = total] /\ os' = [os EXCEPT ![total] = o]
  /\ tenants' = [tenants EXCEPT ![s] = @ \cup {total}]
  /\ total' = total + 1
  /\ UNCHANGED <<made, online, tables, owner, job, host>>

Unlink(s) ==
  /\ AtPrompt /\ vm[s] # None /\ vm[s] \in made
  /\ vm' = [vm EXCEPT ![s] = None]
  /\ made' = made \ {vm[s]} /\ online' = online \ {vm[s]}
  /\ UNCHANGED <<total, os, tenants, tables, job, host>>

(* Mutant: the memory goes back to the heap, the tables stay.              *)
delete_vm_releases(s) ==
  /\ Unlink(s)
  /\ owner' = [b \in Blocks |-> IF owner[b] = vm[s] THEN None ELSE owner[b]]
delete_vm(s) == Unlink(s) /\ UNCHANGED owner

(* vm_shutdown reads every entry of vm->vcpus: before the first vm_init    *)
(* there is no array, and one that failed early left no vCPUs in it.       *)
delete_vm_faults(s) ==
  /\ AtPrompt /\ vm[s] # None /\ vm[s] \notin made
  /\ host' = "fault"
  /\ UNCHANGED <<vmVars, made, online, tables, owner, job>>

-----------------------------------------------------------------------------
(* vm_init. It may be called again for a VM it failed for.                 *)

Running(pc) == host = "ok" /\ job.pc = pc
Os == os[vm[job.s]]
Fails == job' = NoJob /\ UNCHANGED <<vmVars, online, tables, owner, host>>

(* vm_mm_struct_init: the slot's tables as they are. The array of vCPUs is *)
(* a new one.                                                              *)
vm_mm_struct_init(s) ==
  /\ AtPrompt /\ vm[s] # None /\ vm[s] \notin online
  /\ made' = made \ {vm[s]}
  /\ job' = [pc |-> "alloc", s |-> s, n |-> 0, mbs |-> {}, va |-> os[vm[s]].start]
  /\ UNCHANGED <<vmVars, online, tables, owner, host>>

(* alloc_vm_memory, one block. In which order the list is later walked is  *)
(* left open.                                                              *)
alloc_mem_block(b) ==
  /\ Running("alloc") /\ job.n < Os.count /\ owner[b] = None
  /\ owner' = [owner EXCEPT ![b] = vm[job.s]]
  /\ job' = [job EXCEPT !.n = @ + 1, !.mbs = @ \cup {b}]
  /\ UNCHANGED <<vmVars, made, online, tables, host>>

(* A failed allocation leaves the blocks before it allocated.              *)
alloc_mem_block_fails ==
  Running("alloc") /\ job.n < Os.count /\ Fails /\ UNCHANGED made

allocated ==
  /\ Running("alloc") /\ job.n = Os.count
  /\ job' = [job EXCEPT !.pc = "map"]
  /\ UNCHANGED <<vmVars, made, online, tables, owner, host>>

(* _kernel_free_s2_page: the first page whose bit is clear (bitmap_find_next *)
(* is not in the repository; with all bits set it must return the last).   *)
FirstFree(s, k) == k \notin bitmap[s] /\ \A j \in Pages \ bitmap[s] : k <= j
(* Mutant: the bit is not set.                                             *)
kernel_free_s2_page_unset(s, k) == FirstFree(s, k) /\ UNCHANGED bitmap
kernel_free_s2_page(s, k) ==
  FirstFree(s, k) /\ bitmap' = [bitmap EXCEPT ![s] = @ \cup {k}]

Mapping == Running("map") /\ job.va < Os.start + Os.count
(* Mutant: mb is not advanced.                                             *)
Advance_va(b) == job' = [job EXCEPT !.va = @ + 1]
Advance(b) == job' = [job EXCEPT !.va = @ + 1, !.mbs = @ \ {b}]

(* s2_map of block b at job.va. A level 1 entry without a table gets a     *)
(* cleared one.                                                            *)
s2_map_new_pmd(b, k) ==
  LET s == job.s
  IN  /\ Mapping /\ b \in job.mbs /\ pgd[s][S2_PUD_IDX(job.va)] = None
      /\ kernel_free_s2_page(s, k)
      /\ pgd' = [pgd EXCEPT ![s][S2_PUD_IDX(job.va)] = k]
      /\ page' = [page EXCEPT ![s][k] =
                    [i \in Pmds |-> IF i = S2_PMD_IDX(job.va) THEN b ELSE None]]
      /\ Advance(b)
      /\ UNCHANGED <<vmVars, made, online, owner, host>>

(* Mutant: an address that cannot be mapped is passed over.                *)
s2_map_no_page_ignored ==
  /\ Mapping /\ pgd[job.s][S2_PUD_IDX(job.va)] = None
  /\ Pages \subseteq bitmap[job.s]
  /\ job' = [job EXCEPT !.va = @ + 1]
  /\ UNCHANGED <<vmVars, made, online, tables, owner, host>>
s2_map_no_page ==
  /\ Mapping /\ pgd[job.s][S2_PUD_IDX(job.va)] = None
  /\ Pages \subseteq bitmap[job.s]
  /\ Fails /\ UNCHANGED made

s2_map_pmd_block(b) ==
  LET s == job.s
      k == pgd[s][S2_PUD_IDX(job.va)]
  IN  /\ Mapping /\ b \in job.mbs /\ k # None /\ page[s][k][S2_PMD_IDX(job.va)] = None
      /\ page' = [page EXCEPT ![s][k][S2_PMD_IDX(job.va)] = b]
      /\ Advance(b)
      /\ UNCHANGED <<vmVars, made, online, pgd, bitmap, owner, host>>

(* An entry left by an earlier VM or an earlier attempt is taken for a     *)
(* table of pages: s2_map_pte writes into the block it names, and the      *)
(* entry stays.                                                            *)
s2_map_pte(b) ==
  LET s == job.s
      k == pgd[s][S2_PUD_IDX(job.va)]
  IN  /\ Mapping /\ b \in job.mbs /\ k # None /\ page[s][k][S2_PMD_IDX(job.va)] # None
      /\ Advance(b)
      /\ UNCHANGED <<vmVars, made, online, tables, owner, host>>

(* map_vm_memory is done; vcpus_create may still fail.                     *)
Mapped == Running("map") /\ job.va = Os.start + Os.count
vcpus_create_fails == Mapped /\ Fails /\ UNCHANGED made

Walk(s, ipa) ==
  LET k == pgd[s][S2_PUD_IDX(ipa)]
  IN  IF k = None THEN None ELSE page[s][k][S2_PMD_IDX(ipa)]

(* The first address of the image that has no memory.                      *)
Missing(a) ==
  /\ a \in Os.img /\ Walk(job.s, a) = None
  /\ \A c \in Os.img : c < a => Walk(job.s, c) # None
(* s2_translate tests the address of the entry it reads, which is null for *)
(* the first entry of a table that does not exist.                         *)
NullEntry(a) == pgd[job.s][S2_PUD_IDX(a)] = None /\ S2_PMD_IDX(a) = 0

os_img_load ==
  /\ Mapped /\ \A a \in Os.img : Walk(job.s, a) # None
  /\ made' = made \cup {vm[job.s]} /\ online' = online \cup {vm[job.s]}
  /\ job' = NoJob
  /\ UNCHANGED <<vmVars, tables, owner, host>>
os_img_load_fails ==
  /\ Mapped /\ \E a \in Ipas : Missing(a) /\ NullEntry(a)
  /\ made' = made \cup {vm[job.s]} /\ Fails
(* Every other unmapped address is read through a null or an empty entry.  *)
os_img_load_faults ==
  /\ Mapped /\ \E a \in Ipas : Missing(a) /\ ~ NullEntry(a)
  /\ host' = "fault"
  /\ UNCHANGED <<vmVars, made, online, tables, owner, job>>

Next ==
  \/ \E s \in Slots : \/ delete_vm(s) \/ delete_vm_faults(s)
                      \/ vm_mm_struct_init(s)
                      \/ \E o \in Oses : create_vm(s, o)
  \/ \E b \in Blocks : \/ alloc_mem_block(b) \/ s2_map_pmd_block(b) \/ s2_map_pte(b)
                       \/ \E k \in Pages : s2_map_new_pmd(b, k)
  \/ alloc_mem_block_fails \/ allocated \/ s2_map_no_page
  \/ vcpus_create_fails \/ os_img_load \/ os_img_load_fails \/ os_img_load_faults

Spec == Init /\ [][Next]_vars

-----------------------------------------------------------------------------
(* Every variable is in range.                                             *)
TypeOK ==
  /\ total \in 0 .. MAX_VM_NUM
  /\ vm \in [Slots -> Slots \cup {None}] /\ os \in [Slots -> Oses \cup {None}]
  /\ made \subseteq Slots /\ online \subseteq made /\ tenants \in [Slots -> SUBSET Slots]
  /\ pgd \in [Slots -> [Puds -> Pages \cup {None}]]
  /\ page \in [Slots -> [Pages -> [Pmds -> Blocks \cup {None}]]]
  /\ bitmap \in [Slots -> SUBSET Pages]
  /\ owner \in [Blocks -> Slots \cup {None}]
  /\ job \in [pc : {"idle", "alloc", "map"}, s : Nat, n : Nat,
              mbs : SUBSET Blocks, va : Nat]
  /\ host \in {"ok", "fault"}

(* A page in use has its bit set and serves one level 1 entry, through     *)
(* every retry and every reuse of the slot: _kernel_free_s2_page never     *)
(* hands out a page that still translates addresses.                       *)
PagesOnce ==
  \A s \in Slots : \A p \in Puds : pgd[s][p] # None =>
    /\ pgd[s][p] \in bitmap[s]
    /\ \A q \in Puds : pgd[s][q] = pgd[s][p] => q = p

(* The block at entry i of the table of level 1 entry p, None if none.     *)
At(s, p, i) == IF pgd[s][p] = None THEN None ELSE page[s][pgd[s][p]][i]

(* No block is mapped in two slots, whatever VMs were deleted and whichever *)
(* vm_init failed half-way: guests do not share memory.                    *)
SlotsApart ==
  \A s, t \in Slots : s # t => \A p, q \in Puds, i, j \in Pmds :
    At(s, p, i) # None => At(s, p, i) # At(t, q, j)

(* In a slot that had one VM every mapping, also those left by failed      *)
(* attempts, goes to a block allocated for that VM, and no two to the same.*)
OwnBlocks ==
  \A s \in Slots : \A p \in Puds, i \in Pmds : At(s, p, i) # None =>
    /\ \A v \in Slots : tenants[s] = {v} => owner[At(s, p, i)] = v
    /\ \A q \in Puds, j \in Pmds : At(s, q, j) = At(s, p, i) => q = p /\ j = i

(* An online VM has all of its memory mapped, also when table pages ran    *)
(* out or entries were already taken.                                      *)
OnlineMapped ==
  \A s \in Slots : vm[s] # None /\ vm[s] \in online =>
    \A a \in Ipas : os[vm[s]].start <= a /\ a < os[vm[s]].start + os[vm[s]].count
                      => Walk(s, a) # None

(* "If it can use this vm_idx, then means that this vm_idx is new."        *)
(* (stage2.c:79): an online VM's memory is what was allocated for it.      *)
NewVmOwnsMemory ==
  \A s \in Slots : vm[s] # None /\ vm[s] \in online =>
    \A p \in Puds, i \in Pmds : At(s, p, i) # None => owner[At(s, p, i)] = vm[s]

(* The tables as a map: what s2_translate finds for each address.          *)
Memory == INSTANCE GuestMemory WITH
  Vms <- Slots, Addrs <- Ipas, tenant <- vm, used <- 0 .. total - 1,
  mem <- [s \in Slots |-> [a \in Ipas |-> Walk(s, a)]]

(* Tables, table pages and bitmap implement guest memory: through every    *)
(* retry and every reuse of a slot, a step changes the translation of at   *)
(* most one address, which had none, to a block of the slot's VM that is   *)
(* mapped nowhere else.                                                    *)
ImplementsMemory == Memory!Spec
=============================================================================
