---------------------------- MODULE Stage2Proofs ----------------------------
(* Guest memory stays apart for any number of slots, blocks, table pages,  *)
(* table entries and images.                                               *)
EXTENDS Stage2, TLAPS

(* VMs are numbered in order of creation and live in one slot each.        *)
Created ==
  /\ \A s \in Slots : vm[s] # None => vm[s] < total /\ vm[s] \in tenants[s]
  /\ \A s \in Slots : \A v \in tenants[s] : v < total
  /\ \A s, t \in Slots : s # t => tenants[s] \cap tenants[t] = {}
  /\ \A v \in Slots : v < total => os[v] \in Oses
  /\ \A v \in online : v < total

(* A mapped block belongs to a VM the slot has had, and is mapped once.    *)
Owned ==
  \A s \in Slots : \A p \in Puds, i \in Pmds :
    At(s, p, i) # None => owner[At(s, p, i)] \in tenants[s]
Single ==
  \A s \in Slots : \A p, q \in Puds, i, j \in Pmds :
    At(s, p, i) # None /\ At(s, q, j) = At(s, p, i) => q = p /\ j = i

(* The vm_init in progress: the blocks it has still to map are its VM's    *)
(* and not mapped, and what it has passed is mapped.                       *)
JobInv ==
  job.pc # "idle" =>
    /\ job.s \in Slots /\ vm[job.s] # None /\ vm[job.s] \notin online
    /\ Os.start <= job.va /\ job.va <= Os.start + Os.count
    /\ \A b \in job.mbs : /\ owner[b] = vm[job.s]
                          /\ \A p \in Puds, i \in Pmds : At(job.s, p, i) # b
    /\ \A a \in Ipas : Os.start <= a /\ a < job.va => Walk(job.s, a) # None

S2Inv == /\ TypeOK /\ Created /\ PagesOnce /\ Owned /\ Single
         /\ OnlineMapped /\ JobInv

JobRecord ==
  [pc : {"idle", "alloc", "map"}, s : Nat, n : Nat, mbs : SUBSET Blocks, va : Nat]

(* The only change a step makes to the tables: a free entry gets a block.  *)
Grown(s, p, i, b) ==
  /\ At(s, p, i) = None
  /\ \A t \in Slots, q \in Puds, j \in Pmds :
       At(t, q, j)' = IF t = s /\ q = p /\ j = i THEN b ELSE At(t, q, j)

-----------------------------------------------------------------------------
(* A quotient is below the number of divisors that fit.                    *)
LEMMA DivBound ==
  ASSUME NEW n \in Nat \ {0}, NEW m \in Nat, NEW a \in Nat, a < m * n
  PROVE  a \div n \in 0 .. m - 1 /\ a % n \in 0 .. n - 1
  OBVIOUS

(* The indices of an address are in range.                                 *)
LEMMA IdxRange ==
  ASSUME NEW a \in Ipas
  PROVE  S2_PUD_IDX(a) \in Puds /\ S2_PMD_IDX(a) \in Pmds
  <1>1. PMD_NUM \in Nat \ {0} /\ PUD_NUM \in Nat
    BY S2Constants
  <1>2. a \in Nat /\ a < PUD_NUM * PMD_NUM
    BY <1>1 DEF Ipas
  <1> QED
    BY <1>1, <1>2, DivBound DEF S2_PUD_IDX, S2_PMD_IDX, Puds, Pmds

(* The address being mapped is one.                                        *)
LEMMA VaRange ==
  ASSUME S2Inv, Mapping
  PROVE  /\ job.s \in Slots /\ job.va \in Ipas /\ vm[job.s] \in Slots
         /\ Os \in Oses /\ Os.start \in Nat /\ Os.count \in Nat
  <1>1. job.s \in Slots /\ vm[job.s] # None /\ job.va \in Nat
    BY DEF S2Inv, JobInv, Mapping, Running, TypeOK
  <1>2. vm[job.s] \in Slots /\ Os \in Oses
    BY <1>1 DEF S2Inv, Created, TypeOK, Os
  <1>3. /\ Os.start \in Nat /\ Os.count \in Nat
        /\ Os.start + Os.count < PUD_NUM * PMD_NUM
    BY <1>2, S2Constants
  <1>4. job.va < PUD_NUM * PMD_NUM /\ PUD_NUM * PMD_NUM \in Nat
    BY <1>1, <1>3, S2Constants DEF Mapping
  <1> QED
    BY <1>1, <1>2, <1>3, <1>4 DEF Ipas

(* A new level 2 table holds one block; the page was in no use before.     *)
LEMMA NewPmdGrows ==
  ASSUME S2Inv, NEW b \in Blocks, NEW k \in Pages, s2_map_new_pmd(b, k)
  PROVE  Grown(job.s, S2_PUD_IDX(job.va), S2_PMD_IDX(job.va), b)
  <1> DEFINE s == job.s
             p == S2_PUD_IDX(job.va)
             i == S2_PMD_IDX(job.va)
  <1>1. s \in Slots /\ p \in Puds /\ i \in Pmds
    BY VaRange, IdxRange DEF s2_map_new_pmd
  <1>2. /\ pgd[s][p] = None /\ k \notin bitmap[s]
        /\ pgd' = [pgd EXCEPT ![s][p] = k]
        /\ page' = [page EXCEPT ![s][k] = [j \in Pmds |-> IF j = i THEN b ELSE None]]
    BY DEF s2_map_new_pmd, kernel_free_s2_page, FirstFree
  <1>3. /\ pgd \in [Slots -> [Puds -> Pages \cup {None}]]
        /\ page \in [Slots -> [Pages -> [Pmds -> Blocks \cup {None}]]]
        /\ k # None
    BY S2Constants, S2Names DEF S2Inv, TypeOK
  <1>4. \A q \in Puds : pgd[s][q] # k
    BY <1>1, <1>2, <1>3 DEF S2Inv, PagesOnce
  <1> HIDE DEF s, p, i
  <1>5. At(s, p, i) = None
    BY <1>2 DEF At
  <1>6. ASSUME NEW t \in Slots, NEW q \in Puds, NEW j \in Pmds
        PROVE  At(t, q, j)' = IF t = s /\ q = p /\ j = i THEN b ELSE At(t, q, j)
    <2>1. CASE t # s
      BY <1>1, <1>2, <1>3, <2>1 DEF At
    <2>2. CASE t = s /\ q # p
      BY <1>1, <1>2, <1>3, <1>4, <2>2 DEF At
    <2>3. CASE t = s /\ q = p
      <3>1. pgd'[t][q] = k /\ page'[t][k][j] = IF j = i THEN b ELSE None
        BY <1>1, <1>2, <1>3, <2>3
      <3> QED
        BY <1>2, <1>3, <2>3, <3>1 DEF At
    <2> QED
      BY <2>1, <2>2, <2>3
  <1>7. Grown(s, p, i, b)
    BY <1>5, <1>6 DEF Grown
  <1> QED
    BY <1>7 DEF s, p, i

(* An existing table serves one level 1 entry, so only that changes.       *)
LEMMA PmdBlockGrows ==
  ASSUME S2Inv, NEW b \in Blocks, s2_map_pmd_block(b)
  PROVE  Grown(job.s, S2_PUD_IDX(job.va), S2_PMD_IDX(job.va), b)
  <1> DEFINE s == job.s
             p == S2_PUD_IDX(job.va)
             i == S2_PMD_IDX(job.va)
             k == pgd[s][p]
  <1>1. s \in Slots /\ p \in Puds /\ i \in Pmds
    BY VaRange, IdxRange DEF s2_map_pmd_block
  <1>2. /\ k # None /\ page[s][k][i] = None /\ pgd' = pgd
        /\ page' = [page EXCEPT ![s][k][i] = b]
    BY DEF s2_map_pmd_block
  <1>3. /\ pgd \in [Slots -> [Puds -> Pages \cup {None}]]
        /\ page \in [Slots -> [Pages -> [Pmds -> Blocks \cup {None}]]]
        /\ k \in Pages
    BY <1>1, <1>2 DEF S2Inv, TypeOK
  <1>4. \A q \in Puds : pgd[s][q] = k => q = p
    BY <1>1, <1>2 DEF S2Inv, PagesOnce
  <1>0. k = pgd[s][p]
    OBVIOUS
  <1> HIDE DEF s, p, i, k
  <1>5. At(s, p, i) = None
    BY <1>0, <1>2 DEF At
  <1>6. ASSUME NEW t \in Slots, NEW q \in Puds, NEW j \in Pmds
        PROVE  At(t, q, j)' = IF t = s /\ q = p /\ j = i THEN b ELSE At(t, q, j)
    <2>1. CASE t # s
      BY <1>1, <1>2, <1>3, <2>1 DEF At
    <2>2. CASE t = s /\ q # p
      BY <1>1, <1>2, <1>3, <1>4, <2>2 DEF At
    <2>3. CASE t = s /\ q = p
      BY <1>0, <1>1, <1>2, <1>3, <2>3 DEF At
    <2> QED
      BY <2>1, <2>2, <2>3
  <1>7. Grown(s, p, i, b)
    BY <1>5, <1>6 DEF Grown
  <1> QED
    BY <1>7 DEF s, p, i

(* Advancing keeps the job a job.                                          *)
LEMMA AdvanceType ==
  ASSUME S2Inv, NEW b, Advance(b)
  PROVE  (job \in JobRecord)'
  <1>1. job \in JobRecord
    BY DEF S2Inv, TypeOK, JobRecord
  <1>2. job.va + 1 \in Nat /\ job.mbs \ {b} \in SUBSET Blocks
    BY <1>1 DEF JobRecord
  <1>3. job' = [job EXCEPT !.va = job.va + 1, !.mbs = job.mbs \ {b}]
    BY DEF Advance
  <1> QED
    BY <1>1, <1>2, <1>3 DEF JobRecord

(* Translating an address looks at one entry.                              *)
LEMMA WalkAt ==
  ASSUME NEW s, NEW a
  PROVE  /\ Walk(s, a) = At(s, S2_PUD_IDX(a), S2_PMD_IDX(a))
         /\ Walk(s, a)' = At(s, S2_PUD_IDX(a), S2_PMD_IDX(a))'
  BY DEF Walk, At, S2_PUD_IDX, S2_PMD_IDX

(* A step that maps one of the job's blocks keeps the job's invariant when *)
(* it empties no entry and leaves the address passed mapped.               *)
LEMMA JobAdvances ==
  ASSUME S2Inv, Mapping, NEW b \in job.mbs, Advance(b),
         UNCHANGED <<vmVars, online, owner>>,
         NEW s, NEW va, s = job.s, va = job.va, Walk(s, va)' # None,
         \A a \in Ipas : Walk(s, a) # None => Walk(s, a)' # None,
         \A q \in Puds, j \in Pmds : At(s, q, j)' = At(s, q, j) \/ At(s, q, j)' = b
  PROVE  JobInv'
  <1>1. /\ s \in Slots /\ va \in Ipas /\ vm[s] \in Slots
        /\ Os.start \in Nat /\ Os.count \in Nat
    BY VaRange
  <1>2. /\ job'.s = s /\ job'.va = va + 1 /\ job'.mbs = job.mbs \ {b}
        /\ job'.pc = "map"
    BY DEF Advance, S2Inv, TypeOK, Mapping, Running
  <1>3. Os' = Os /\ vm' = vm /\ online' = online /\ owner' = owner
    BY <1>2 DEF Os, vmVars
  <1>4. va \in Nat /\ Ipas \subseteq Nat
    BY <1>1, S2Constants DEF Ipas
  <1>5. /\ vm[s] # None /\ vm[s] \notin online
        /\ Os.start <= va /\ va < Os.start + Os.count
        /\ \A c \in job.mbs : /\ owner[c] = vm[s]
                              /\ \A q \in Puds, j \in Pmds : At(s, q, j) # c
        /\ \A a \in Ipas : Os.start <= a /\ a < va => Walk(s, a) # None
    BY DEF S2Inv, JobInv, Mapping, Running
  <1>6. Os.start <= va + 1 /\ va + 1 <= Os.start + Os.count
    BY <1>1, <1>4, <1>5
  <1>7. \A c \in job.mbs \ {b} : \A q \in Puds, j \in Pmds : At(s, q, j)' # c
    BY <1>5
  <1>8. \A a \in Ipas : Os.start <= a /\ a < va + 1 => Walk(s, a)' # None
    <2> SUFFICES ASSUME NEW a \in Ipas, Os.start <= a, a < va + 1
                 PROVE  Walk(s, a)' # None
      OBVIOUS
    <2>1. CASE a = va
      BY <2>1
    <2>2. CASE a # va
      BY <1>4, <1>5, <2>2
    <2> QED
      BY <2>1, <2>2
  <1>9. \A q, j : At(job.s, q, j)' = At(s, q, j)'
    BY <1>2 DEF At
  <1>10. \A a : Walk(job.s, a)' = Walk(s, a)'
    BY <1>2 DEF Walk
  <1> QED
    BY <1>1, <1>2, <1>3, <1>5, <1>6, <1>7, <1>8, <1>9, <1>10 DEF JobInv

(* Mapping one of the job's blocks at a free entry keeps the ownership and *)
(* extends what is mapped.                                                 *)
LEMMA GrownKeeps ==
  ASSUME S2Inv, Mapping, NEW b \in job.mbs, Advance(b),
         UNCHANGED <<vmVars, online, owner>>,
         Grown(job.s, S2_PUD_IDX(job.va), S2_PMD_IDX(job.va), b)
  PROVE  Owned' /\ Single' /\ OnlineMapped' /\ JobInv'
  <1> PICK s \in Slots, va \in Ipas : s = job.s /\ va = job.va
    BY VaRange
  <1> DEFINE p == S2_PUD_IDX(va)
             i == S2_PMD_IDX(va)
  <1>2. p \in Puds /\ i \in Pmds
    BY IdxRange
  <1>3. /\ b # None /\ owner[b] = vm[s] /\ vm[s] \in tenants[s]
        /\ \A q \in Puds, j \in Pmds : At(s, q, j) # b
    BY S2Names DEF S2Inv, TypeOK, JobInv, Mapping, Running, Created
  <1>4. \A t \in Slots, q \in Puds, j \in Pmds :
          At(t, q, j)' = IF t = s /\ q = p /\ j = i THEN b ELSE At(t, q, j)
    BY DEF Grown
  <1>5. At(s, p, i) = None
    BY DEF Grown
  <1> HIDE DEF p, i
  <1>6. Owned'
    <2> SUFFICES ASSUME NEW t \in Slots, NEW q \in Puds, NEW j \in Pmds,
                        At(t, q, j)' # None
                 PROVE  (owner[At(t, q, j)] \in tenants[t])'
      BY DEF Owned
    <2> QED
      BY <1>3, <1>4 DEF S2Inv, Owned, vmVars
  <1>7. Single'
    <2> SUFFICES ASSUME NEW t \in Slots, NEW q \in Puds, NEW r \in Puds,
                        NEW j \in Pmds, NEW l \in Pmds,
                        At(t, q, j)' # None, At(t, r, l)' = At(t, q, j)'
                 PROVE  r = q /\ l = j
      BY DEF Single
    <2> QED
      BY <1>3, <1>4 DEF S2Inv, Single
  <1>8. \A t \in Slots, a \in Ipas : Walk(t, a) # None => Walk(t, a)' # None
    <2> SUFFICES ASSUME NEW t \in Slots, NEW a \in Ipas, Walk(t, a) # None
                 PROVE  Walk(t, a)' # None
      OBVIOUS
    <2> QED
      BY <1>3, <1>4, IdxRange, WalkAt
  <1>9. OnlineMapped'
    BY <1>8 DEF S2Inv, OnlineMapped, vmVars
  <1>10. Walk(s, va)' # None
    BY <1>2, <1>3, <1>4, WalkAt DEF p, i
  <1>11. JobInv'
    BY <1>4, <1>8, <1>10, JobAdvances
  <1> QED
    BY <1>6, <1>7, <1>9, <1>11

(* A step that leaves the tables alone leaves every translation alone.     *)
LEMMA SameTables ==
  ASSUME UNCHANGED tables
  PROVE  /\ \A s, p, i : At(s, p, i)' = At(s, p, i)
         /\ \A s, a : Walk(s, a)' = Walk(s, a)
         /\ PagesOnce => PagesOnce'
  BY DEF tables, At, Walk, PagesOnce

-----------------------------------------------------------------------------
(* rt_init_s2_mmu_table establishes the invariant.                         *)
LEMMA InitS2 == Init => S2Inv
  <1> SUFFICES ASSUME Init PROVE S2Inv
    OBVIOUS
  <1> USE S2Constants, S2Names DEF Init
  <1>1. TypeOK
    BY DEF TypeOK, NoJob, Slots
  <1>2. Created
    BY DEF Created, Slots
  <1>3. \A s \in Slots, p \in Puds : pgd[s][p] = None
    OBVIOUS
  <1>4. PagesOnce /\ Owned /\ Single
    BY <1>3 DEF PagesOnce, Owned, Single, At
  <1>5. OnlineMapped /\ JobInv
    BY DEF OnlineMapped, JobInv, NoJob
  <1> QED
    BY <1>1, <1>2, <1>4, <1>5 DEF S2Inv

(* One lemma per operation: each keeps the invariant.                      *)
LEMMA CreateKeeps ==
  ASSUME S2Inv, NEW s \in Slots, NEW o \in Oses, create_vm(s, o)
  PROVE  S2Inv'
  <1> USE DEF create_vm, AtPrompt
  <1>1. /\ total \in Nat /\ total < MAX_VM_NUM /\ total \in Slots /\ total # None
    BY S2Constants, S2Names DEF S2Inv, TypeOK, Slots
  <1>2. /\ vm' = [vm EXCEPT ![s] = total] /\ os' = [os EXCEPT ![total] = o]
        /\ tenants' = [tenants EXCEPT ![s] = @ \cup {total}]
        /\ total' = total + 1 /\ job' = job /\ online' = online /\ owner' = owner
        /\ UNCHANGED tables
    OBVIOUS
  <1>3. TypeOK'
    <2>1. (total \in 0 .. MAX_VM_NUM)'
      BY <1>1, <1>2, S2Constants
    <2>2. /\ (vm \in [Slots -> Slots \cup {None}])'
          /\ (os \in [Slots -> Oses \cup {None}])'
          /\ (tenants \in [Slots -> SUBSET Slots])'
      BY <1>1, <1>2 DEF S2Inv, TypeOK
    <2> QED
      BY <1>2, <2>1, <2>2 DEF S2Inv, TypeOK, tables
  <1>4. Created'
    BY <1>1, <1>2 DEF S2Inv, TypeOK, Created, Slots
  <1>5. PagesOnce' /\ Owned' /\ Single'
    BY <1>2, SameTables DEF S2Inv, TypeOK, Owned, Single
  <1>6. OnlineMapped'
    <2> SUFFICES ASSUME NEW t \in Slots, (vm[t] # None /\ vm[t] \in online)'
                 PROVE  (\A a \in Ipas : os[vm[t]].start <= a
                           /\ a < os[vm[t]].start + os[vm[t]].count => Walk(t, a) # None)'
      BY DEF OnlineMapped
    <2>1. t # s /\ vm'[t] = vm[t] /\ vm[t] # total
      BY <1>1, <1>2 DEF S2Inv, TypeOK, Created
    <2>2. os'[vm[t]] = os[vm[t]]
      BY <1>1, <1>2, <2>1 DEF S2Inv, TypeOK
    <2> QED
      BY <1>2, <2>1, <2>2, SameTables DEF S2Inv, OnlineMapped
  <1>7. JobInv'
    BY <1>2 DEF JobInv
  <1> QED
    BY <1>3, <1>4, <1>5, <1>6, <1>7 DEF S2Inv

LEMMA DeleteKeeps ==
  ASSUME S2Inv, NEW s \in Slots, delete_vm(s)
  PROVE  S2Inv'
  <1> USE DEF delete_vm, Unlink, AtPrompt
  <1>1. /\ vm' = [vm EXCEPT ![s] = None]
        /\ made' = made \ {vm[s]} /\ online' = online \ {vm[s]}
        /\ UNCHANGED <<total, os, tenants, owner, job, host>> /\ UNCHANGED tables
    OBVIOUS
  <1>2. TypeOK'
    BY <1>1 DEF S2Inv, TypeOK, tables
  <1>3. Created'
    BY <1>1 DEF S2Inv, TypeOK, Created
  <1>4. PagesOnce' /\ Owned' /\ Single'
    BY <1>1, SameTables DEF S2Inv, Owned, Single
  <1>5. OnlineMapped'
    <2> SUFFICES ASSUME NEW t \in Slots, (vm[t] # None /\ vm[t] \in online)'
                 PROVE  (\A a \in Ipas : os[vm[t]].start <= a
                           /\ a < os[vm[t]].start + os[vm[t]].count => Walk(t, a) # None)'
      BY DEF OnlineMapped
    <2>1. vm'[t] = vm[t] /\ vm[t] # None /\ vm[t] \in online
      BY <1>1 DEF S2Inv, TypeOK
    <2> QED
      BY <1>1, <2>1, SameTables DEF S2Inv, OnlineMapped
  <1>6. JobInv'
    BY <1>1 DEF JobInv
  <1> QED
    BY <1>2, <1>3, <1>4, <1>5, <1>6 DEF S2Inv

(* Steps of vm_init that leave the tables alone keep all but the job's own *)
(* invariant, also when they take a free block.                            *)
LEMMA QuietKeeps ==
  ASSUME S2Inv, UNCHANGED <<vmVars, online>>, UNCHANGED tables, TypeOK',
         \A c \in Blocks : owner[c] # None => owner'[c] = owner[c]
  PROVE  Created' /\ PagesOnce' /\ Owned' /\ Single' /\ OnlineMapped'
  <1>1. Created'
    BY DEF S2Inv, Created, vmVars
  <1>2. PagesOnce' /\ Single'
    BY SameTables DEF S2Inv, Single
  <1>3. OnlineMapped'
    BY SameTables DEF S2Inv, OnlineMapped, vmVars
  <1>4. Owned'
    <2> SUFFICES ASSUME NEW s \in Slots, NEW p \in Puds, NEW i \in Pmds,
                        At(s, p, i)' # None
                 PROVE  (owner[At(s, p, i)] \in tenants[s])'
      BY DEF Owned
    <2>1. At(s, p, i)' = At(s, p, i)
      BY SameTables
    <2>2. At(s, p, i) \in Blocks
      BY <2>1 DEF S2Inv, TypeOK, At
    <2>3. owner[At(s, p, i)] \in tenants[s] /\ owner[At(s, p, i)] # None
      BY <2>1, S2Names DEF S2Inv, TypeOK, Owned, Slots
    <2> QED
      BY <2>1, <2>2, <2>3 DEF vmVars
  <1> QED
    BY <1>1, <1>2, <1>3, <1>4

LEMMA InitJobKeeps ==
  ASSUME S2Inv, NEW s \in Slots, vm_mm_struct_init(s)
  PROVE  S2Inv'
  <1> USE DEF vm_mm_struct_init, AtPrompt
  <1>1. /\ vm[s] \in Slots /\ os[vm[s]] \in Oses
        /\ os[vm[s]].start \in Nat /\ os[vm[s]].count \in Nat
    BY S2Constants DEF S2Inv, TypeOK, Created
  <1>2. TypeOK'
    <2>1. made' \subseteq Slots /\ online' \subseteq made'
      BY DEF S2Inv, TypeOK
    <2>2. (job \in JobRecord)'
      BY <1>1 DEF JobRecord, Slots
    <2> QED
      BY <2>1, <2>2 DEF S2Inv, TypeOK, vmVars, tables, JobRecord
  <1>3. Created' /\ PagesOnce' /\ Owned' /\ Single' /\ OnlineMapped'
    BY <1>2, QuietKeeps
  <1>4. Ipas \subseteq Nat
    BY S2Constants DEF Ipas
  <1>5. Os' = os[vm[s]] /\ job'.va = Os'.start
    BY DEF Os, vmVars
  <1>6. JobInv'
    BY <1>1, <1>4, <1>5 DEF JobInv, vmVars
  <1> QED
    BY <1>2, <1>3, <1>6 DEF S2Inv

LEMMA AllocKeeps ==
  ASSUME S2Inv, NEW b \in Blocks, alloc_mem_block(b)
  PROVE  S2Inv'
  <1> USE DEF alloc_mem_block, Running
  <1>0. job.s \in Slots /\ vm[job.s] \in Slots /\ vm[job.s] # None
    BY DEF S2Inv, TypeOK, JobInv
  <1>1. /\ job'.pc = "alloc" /\ job'.s = job.s /\ job'.va = job.va
        /\ job'.mbs = job.mbs \cup {b} /\ job'.n = job.n + 1
        /\ owner' = [owner EXCEPT ![b] = vm[job.s]]
    BY DEF S2Inv, TypeOK
  <1>2. TypeOK'
    <2>1. job \in JobRecord
      BY DEF S2Inv, TypeOK, JobRecord
    <2>2. job.n + 1 \in Nat /\ job.mbs \cup {b} \in SUBSET Blocks
      BY <2>1 DEF JobRecord
    <2>3. job' = [job EXCEPT !.n = job.n + 1, !.mbs = job.mbs \cup {b}]
      OBVIOUS
    <2>4. (job \in JobRecord)'
      BY <2>1, <2>2, <2>3 DEF JobRecord
    <2>5. (owner \in [Blocks -> Slots \cup {None}])'
      BY <1>0, <1>1 DEF S2Inv, TypeOK
    <2> QED
      BY <2>4, <2>5 DEF S2Inv, TypeOK, vmVars, tables, JobRecord
  <1>3. \A c \in Blocks : owner[c] # None => owner'[c] = owner[c]
    BY <1>1 DEF S2Inv, TypeOK
  <1>4. Created' /\ PagesOnce' /\ Owned' /\ Single' /\ OnlineMapped'
    BY <1>2, <1>3, QuietKeeps
  <1>5. Os' = Os
    BY <1>1 DEF Os, vmVars
  <1>6. \A p \in Puds, i \in Pmds : At(job.s, p, i) # b
    BY <1>0, S2Names DEF S2Inv, TypeOK, Owned, Slots
  <1>7. \A p, i : At(job.s, p, i)' = At(job.s, p, i)
    BY <1>1 DEF At, tables
  <1>8. \A a : Walk(job.s, a)' = Walk(job.s, a)
    BY <1>1 DEF Walk, tables
  <1>9. \A c \in job'.mbs : owner'[c] = vm[job.s]
    BY <1>1, <1>0 DEF S2Inv, TypeOK, JobInv
  <1>10. JobInv'
    BY <1>0, <1>1, <1>5, <1>6, <1>7, <1>8, <1>9 DEF S2Inv, JobInv, vmVars
  <1> QED
    BY <1>2, <1>4, <1>10 DEF S2Inv

LEMMA AllocatedKeeps ==
  ASSUME S2Inv, allocated
  PROVE  S2Inv'
  <1> USE DEF allocated, Running
  <1>1. /\ job'.pc = "map" /\ job'.s = job.s /\ job'.va = job.va
        /\ job'.mbs = job.mbs
    BY DEF S2Inv, TypeOK
  <1>2. TypeOK'
    BY DEF S2Inv, TypeOK, vmVars, tables
  <1>3. Created' /\ PagesOnce' /\ Owned' /\ Single' /\ OnlineMapped'
    BY <1>2, QuietKeeps
  <1>4. Os' = Os
    BY <1>1 DEF Os, vmVars
  <1>5. \A p, i : At(job.s, p, i)' = At(job.s, p, i)
    BY <1>1 DEF At, tables
  <1>6. \A a : Walk(job.s, a)' = Walk(job.s, a)
    BY <1>1 DEF Walk, tables
  <1>7. JobInv'
    BY <1>1, <1>4, <1>5, <1>6 DEF S2Inv, JobInv, vmVars
  <1> QED
    BY <1>2, <1>3, <1>7 DEF S2Inv

LEMMA FailsKeeps ==
  ASSUME S2Inv, Fails, made \subseteq made', made' \subseteq Slots
  PROVE  S2Inv'
  <1> USE DEF Fails
  <1>1. TypeOK'
    BY DEF S2Inv, TypeOK, NoJob, vmVars, tables
  <1>2. Created' /\ PagesOnce' /\ Owned' /\ Single' /\ OnlineMapped'
    BY <1>1, QuietKeeps
  <1>3. JobInv'
    BY DEF JobInv, NoJob
  <1> QED
    BY <1>1, <1>2, <1>3 DEF S2Inv

LEMMA NewPmdKeeps ==
  ASSUME S2Inv, NEW b \in Blocks, NEW k \in Pages, s2_map_new_pmd(b, k)
  PROVE  S2Inv'
  <1>1. Mapping /\ b \in job.mbs /\ Advance(b)
        /\ UNCHANGED <<vmVars, made, online, owner, host>>
    BY DEF s2_map_new_pmd
  <1>2. Owned' /\ Single' /\ OnlineMapped' /\ JobInv'
    BY <1>1, NewPmdGrows, GrownKeeps
  <1>3. /\ job.s \in Slots /\ S2_PUD_IDX(job.va) \in Puds /\ S2_PMD_IDX(job.va) \in Pmds
        /\ job.va \in Nat
    BY <1>1, VaRange, IdxRange DEF S2Inv, TypeOK
  <1>4. /\ bitmap' = [bitmap EXCEPT ![job.s] = @ \cup {k}] /\ k \notin bitmap[job.s]
        /\ pgd' = [pgd EXCEPT ![job.s][S2_PUD_IDX(job.va)] = k]
        /\ page' = [page EXCEPT ![job.s][k] =
                      [i \in Pmds |-> IF i = S2_PMD_IDX(job.va) THEN b ELSE None]]
    BY DEF s2_map_new_pmd, kernel_free_s2_page, FirstFree
  <1>5. (job \in JobRecord)'
    BY <1>1, AdvanceType
  <1>6. /\ (pgd \in [Slots -> [Puds -> Pages \cup {None}]])'
        /\ (page \in [Slots -> [Pages -> [Pmds -> Blocks \cup {None}]]])'
        /\ (bitmap \in [Slots -> SUBSET Pages])'
    BY <1>3, <1>4 DEF S2Inv, TypeOK
  <1>7. TypeOK'
    BY <1>1, <1>5, <1>6 DEF S2Inv, TypeOK, vmVars, JobRecord
  <1>8. Created'
    BY <1>1 DEF S2Inv, Created, vmVars
  <1>9. PagesOnce'
    <2> SUFFICES ASSUME NEW s \in Slots, NEW p \in Puds, NEW q \in Puds,
                        pgd'[s][p] # None
                 PROVE  /\ pgd'[s][p] \in bitmap'[s]
                        /\ pgd'[s][q] = pgd'[s][p] => q = p
      BY DEF PagesOnce
    <2> QED
      BY <1>3, <1>4 DEF S2Inv, TypeOK, PagesOnce
  <1> QED
    BY <1>2, <1>7, <1>8, <1>9 DEF S2Inv

LEMMA PmdBlockKeeps ==
  ASSUME S2Inv, NEW b \in Blocks, s2_map_pmd_block(b)
  PROVE  S2Inv'
  <1>1. /\ Mapping /\ b \in job.mbs /\ Advance(b)
        /\ UNCHANGED <<vmVars, made, online, pgd, bitmap, owner, host>>
    BY DEF s2_map_pmd_block
  <1>2. Owned' /\ Single' /\ OnlineMapped' /\ JobInv'
    BY <1>1, PmdBlockGrows, GrownKeeps
  <1>3. job.s \in Slots /\ S2_PUD_IDX(job.va) \in Puds /\ S2_PMD_IDX(job.va) \in Pmds
    BY <1>1, VaRange, IdxRange
  <1>4. (page \in [Slots -> [Pages -> [Pmds -> Blocks \cup {None}]]])'
    BY <1>3 DEF s2_map_pmd_block, S2Inv, TypeOK
  <1>5. TypeOK'
    BY <1>1, <1>4, AdvanceType DEF S2Inv, TypeOK, vmVars, JobRecord
  <1>6. Created' /\ PagesOnce'
    BY <1>1 DEF S2Inv, Created, PagesOnce, vmVars
  <1> QED
    BY <1>2, <1>5, <1>6 DEF S2Inv

LEMMA PteKeeps ==
  ASSUME S2Inv, NEW b \in Blocks, s2_map_pte(b)
  PROVE  S2Inv'
  <1>1. /\ Mapping /\ b \in job.mbs /\ Advance(b)
        /\ UNCHANGED <<vmVars, made, online, owner, host>> /\ UNCHANGED tables
    BY DEF s2_map_pte
  <1>2. TypeOK'
    BY <1>1, AdvanceType DEF S2Inv, TypeOK, vmVars, tables, JobRecord
  <1>3. Created' /\ PagesOnce' /\ Owned' /\ Single' /\ OnlineMapped'
    BY <1>1, <1>2, QuietKeeps
  <1> PICK s \in Slots, va \in Ipas : s = job.s /\ va = job.va
    BY <1>1, VaRange
  <1>4. Walk(s, va) # None
    BY DEF s2_map_pte, Walk
  <1>5. JobInv'
    BY <1>1, <1>4, SameTables, JobAdvances
  <1> QED
    BY <1>2, <1>3, <1>5 DEF S2Inv

(* A VM goes online only when its whole memory has been passed.            *)
LEMMA LoadKeeps ==
  ASSUME S2Inv, os_img_load
  PROVE  S2Inv'
  <1> USE DEF os_img_load, Mapped, Running
  <1>1. job.s \in Slots /\ vm[job.s] \in Slots /\ vm[job.s] # None
    BY DEF S2Inv, TypeOK, JobInv
  <1>2. TypeOK'
    BY <1>1 DEF S2Inv, TypeOK, NoJob, vmVars, tables
  <1>3. Created' /\ PagesOnce' /\ Owned' /\ Single'
    <2>1. Created'
      BY <1>1 DEF S2Inv, Created, vmVars
    <2> QED
      BY <2>1, SameTables DEF S2Inv, Owned, Single, vmVars
  <1>4. OnlineMapped'
    <2> SUFFICES ASSUME NEW t \in Slots, (vm[t] # None /\ vm[t] \in online)'
                 PROVE  (\A a \in Ipas : os[vm[t]].start <= a
                           /\ a < os[vm[t]].start + os[vm[t]].count => Walk(t, a) # None)'
      BY DEF OnlineMapped
    <2>0. vm' = vm /\ os' = os
      BY DEF vmVars
    <2>1. CASE vm[t] \in online
      BY <2>0, <2>1, SameTables DEF S2Inv, OnlineMapped
    <2>2. CASE vm[t] = vm[job.s]
      <3>1. t = job.s
        BY <1>1, <2>0, <2>2 DEF S2Inv, Created
      <3> QED
        BY <2>0, <3>1, SameTables DEF S2Inv, JobInv, Os
    <2> QED
      BY <2>0, <2>1, <2>2
  <1>5. JobInv'
    BY DEF JobInv, NoJob
  <1> QED
    BY <1>2, <1>3, <1>4, <1>5 DEF S2Inv

LEMMA FaultKeeps ==
  ASSUME S2Inv, os_img_load_faults \/ \E s \in Slots : delete_vm_faults(s)
  PROVE  S2Inv'
  <1>1. /\ UNCHANGED <<vmVars, made, online, owner, job>> /\ UNCHANGED tables
        /\ host' = "fault"
    BY DEF os_img_load_faults, delete_vm_faults
  <1>2. TypeOK'
    BY <1>1 DEF S2Inv, TypeOK, vmVars, tables
  <1>3. Created' /\ PagesOnce' /\ Owned' /\ Single' /\ OnlineMapped'
    BY <1>1, <1>2, QuietKeeps
  <1>4. JobInv'
    BY <1>1 DEF S2Inv, JobInv, Os, At, Walk, vmVars, tables
  <1> QED
    BY <1>2, <1>3, <1>4 DEF S2Inv

LEMMA StutterKeeps ==
  ASSUME S2Inv, UNCHANGED vars
  PROVE  S2Inv'
  BY DEF vars, vmVars, tables, S2Inv, TypeOK, Created, PagesOnce, Owned, Single,
         OnlineMapped, JobInv, Os, At, Walk

(* Every step keeps the invariant.                                         *)
LEMMA NextS2 ==
  ASSUME S2Inv, [Next]_vars
  PROVE  S2Inv'
  <1>1. ASSUME NEW s \in Slots, delete_vm(s) PROVE S2Inv'
    BY <1>1, DeleteKeeps
  <1>2. ASSUME NEW s \in Slots, vm_mm_struct_init(s) PROVE S2Inv'
    BY <1>2, InitJobKeeps
  <1>3. ASSUME NEW s \in Slots, NEW o \in Oses, create_vm(s, o) PROVE S2Inv'
    BY <1>3, CreateKeeps
  <1>4. ASSUME NEW b \in Blocks, alloc_mem_block(b) PROVE S2Inv'
    BY <1>4, AllocKeeps
  <1>5. ASSUME NEW b \in Blocks, s2_map_pmd_block(b) PROVE S2Inv'
    BY <1>5, PmdBlockKeeps
  <1>6. ASSUME NEW b \in Blocks, s2_map_pte(b) PROVE S2Inv'
    BY <1>6, PteKeeps
  <1>7. ASSUME NEW b \in Blocks, NEW k \in Pages, s2_map_new_pmd(b, k) PROVE S2Inv'
    BY <1>7, NewPmdKeeps
  <1>8. CASE alloc_mem_block_fails \/ s2_map_no_page \/ vcpus_create_fails
    <2>1. Fails /\ made' = made /\ made \subseteq Slots
      BY <1>8 DEF alloc_mem_block_fails, s2_map_no_page, vcpus_create_fails,
                  S2Inv, TypeOK
    <2> QED
      BY <2>1, FailsKeeps
  <1>9. CASE allocated
    BY <1>9, AllocatedKeeps
  <1>10. CASE os_img_load
    BY <1>10, LoadKeeps
  <1>11. CASE os_img_load_faults \/ \E s \in Slots : delete_vm_faults(s)
    BY <1>11, FaultKeeps
  <1>13. CASE os_img_load_fails
    <2>1. Fails /\ made' = made \cup {vm[job.s]}
      BY <1>13 DEF os_img_load_fails
    <2>2. vm[job.s] \in Slots /\ made \subseteq Slots
      BY <1>13 DEF os_img_load_fails, Mapped, Running, S2Inv, TypeOK, JobInv
    <2> QED
      BY <2>1, <2>2, FailsKeeps
  <1>12. CASE UNCHANGED vars
    BY <1>12, StutterKeeps
  <1> QED
    BY <1>1, <1>2, <1>3, <1>4, <1>5, <1>6, <1>7, <1>8, <1>9, <1>10, <1>11, <1>12,
       <1>13 DEF Next

-----------------------------------------------------------------------------
(* What the invariant says of the blocks.                                  *)
LEMMA BlocksApart ==
  ASSUME S2Inv
  PROVE  SlotsApart /\ OwnBlocks
  <1>1. SlotsApart
    BY DEF S2Inv, Created, Owned, SlotsApart
  <1>2. OwnBlocks
    BY DEF S2Inv, Owned, Single, OwnBlocks
  <1> QED
    BY <1>1, <1>2

(* The invariant holds always.                                             *)
LEMMA S2Always == Spec => []S2Inv
  BY InitS2, NextS2, PTL DEF Spec

(* No two slots map one block and a slot's first VM maps only its own,     *)
(* through every failed or repeated vm_init and every deletion.            *)
THEOREM GuestsApart == Spec => [](SlotsApart /\ OwnBlocks)
  BY S2Always, BlocksApart, PTL

(* A table page serves one level 1 entry, and a VM that run_vm started has *)
(* all of its memory mapped, also after table pages ran out.               *)
THEOREM TablesCorrect == Spec => [](TypeOK /\ PagesOnce /\ OnlineMapped)
  <1>1. S2Inv => TypeOK /\ PagesOnce /\ OnlineMapped
    BY DEF S2Inv
  <1> QED
    BY <1>1, S2Always, PTL

-----------------------------------------------------------------------------
(* The tables implement guest memory. Mem is the map of the abstract       *)
(* specification.                                                          *)
Mem == [s \in Slots |-> [a \in Ipas |-> Walk(s, a)]]

(* Different addresses use different entries.                              *)
LEMMA IdxInjective ==
  ASSUME NEW a \in Ipas, NEW c \in Ipas, S2_PUD_IDX(a) = S2_PUD_IDX(c),
         S2_PMD_IDX(a) = S2_PMD_IDX(c)
  PROVE  a = c
  <1>1. PMD_NUM \in Nat \ {0} /\ a \in Nat /\ c \in Nat
    BY S2Constants DEF Ipas
  <1>2. \A n \in Nat \ {0}, x, y \in Nat : x \div n = y \div n /\ x % n = y % n => x = y
    OBVIOUS
  <1> QED
    BY <1>1, <1>2 DEF S2_PUD_IDX, S2_PMD_IDX

(* A step that leaves the tables alone leaves the map alone.               *)
LEMMA SameMem ==
  ASSUME UNCHANGED tables
  PROVE  Mem' = Mem
  BY SameTables DEF Mem

(* A free entry that gets a block is one address of the map that does.     *)
LEMMA GrownMem ==
  ASSUME S2Inv, NEW s \in Slots, NEW va \in Ipas, NEW b,
         Grown(s, S2_PUD_IDX(va), S2_PMD_IDX(va), b)
  PROVE  /\ Mem[s][va] = None
         /\ Mem' = [Mem EXCEPT ![s] = [Mem[s] EXCEPT ![va] = b]]
  <1>1. \A t \in Slots, a \in Ipas : Mem[t][a] = Walk(t, a)
    BY DEF Mem
  <1>2. Walk(s, va) = None
    BY WalkAt DEF Grown
  <1>3. \A t \in Slots, a \in Ipas :
          Walk(t, a)' = IF t = s /\ a = va THEN b ELSE Walk(t, a)
    <2> SUFFICES ASSUME NEW t \in Slots, NEW a \in Ipas
                 PROVE  Walk(t, a)' = IF t = s /\ a = va THEN b ELSE Walk(t, a)
      OBVIOUS
    <2>1. S2_PUD_IDX(a) \in Puds /\ S2_PMD_IDX(a) \in Pmds
      BY IdxRange
    <2>2. S2_PUD_IDX(a) = S2_PUD_IDX(va) /\ S2_PMD_IDX(a) = S2_PMD_IDX(va) => a = va
      BY IdxInjective
    <2> QED
      BY <2>1, <2>2, WalkAt DEF Grown
  <1> DEFINE Upd(t, a) == IF t = s /\ a = va THEN b ELSE Walk(t, a)
  <1>4. Mem' = [t \in Slots |-> [a \in Ipas |-> Upd(t, a)]]
    <2>1. \A t \in Slots : [a \in Ipas |-> Walk(t, a)'] = [a \in Ipas |-> Upd(t, a)]
      BY <1>3
    <2> QED
      BY <2>1 DEF Mem
  <1>5. [Mem EXCEPT ![s] = [Mem[s] EXCEPT ![va] = b]]
          = [t \in Slots |-> [a \in Ipas |-> Upd(t, a)]]
    <2>1. \A t \in Slots : t # s => Mem[t] = [a \in Ipas |-> Upd(t, a)]
      BY DEF Mem
    <2>2. [Mem[s] EXCEPT ![va] = b] = [a \in Ipas |-> Upd(s, a)]
      BY DEF Mem
    <2>3. Mem = [t \in Slots |-> Mem[t]]
      BY DEF Mem
    <2> HIDE DEF Upd
    <2> QED
      BY <2>1, <2>2, <2>3
  <1> QED
    BY <1>1, <1>2, <1>4, <1>5

LEMMA MemoryInit == Init => Memory!Init
  <1> SUFFICES ASSUME Init PROVE Memory!Init
    OBVIOUS
  <1>1. \A s \in Slots, a \in Ipas : Walk(s, a) = None
    BY IdxRange DEF Init, Walk
  <1>2. 0 .. total - 1 = {}
    BY DEF Init
  <1> QED
    BY <1>1, <1>2 DEF Memory!Init, Init

(* The block a job maps next is its VM's and mapped in no slot.            *)
LEMMA JobBlockUnmapped ==
  ASSUME S2Inv, Mapping, NEW b \in job.mbs
  PROVE  /\ owner[b] = vm[job.s] /\ vm[job.s] # None
         /\ \A t \in Slots, a \in Ipas : Walk(t, a) # b
  <1>1. /\ job.s \in Slots /\ owner[b] = vm[job.s] /\ vm[job.s] # None
        /\ vm[job.s] \in tenants[job.s] /\ b # None
        /\ \A p \in Puds, i \in Pmds : At(job.s, p, i) # b
    BY S2Names DEF S2Inv, TypeOK, JobInv, Mapping, Running, Created
  <1>2. ASSUME NEW t \in Slots, NEW p \in Puds, NEW i \in Pmds PROVE At(t, p, i) # b
    BY <1>1 DEF S2Inv, Owned, Created
  <1> QED
    BY <1>1, <1>2, IdxRange, WalkAt

(* s2_map of a block at a free entry is Map of the abstract specification. *)
LEMMA GrownIsMap ==
  ASSUME S2Inv, Mapping, NEW b \in job.mbs, UNCHANGED <<vmVars, owner>>,
         Grown(job.s, S2_PUD_IDX(job.va), S2_PMD_IDX(job.va), b)
  PROVE  Memory!Next
  <1> PICK s \in Slots, va \in Ipas : s = job.s /\ va = job.va
    BY VaRange
  <1>1. /\ Mem[s][va] = None
        /\ Mem' = [Mem EXCEPT ![s] = [Mem[s] EXCEPT ![va] = b]]
    BY GrownMem
  <1>2. /\ owner[b] = vm[s] /\ vm[s] # None
        /\ \A t \in Slots, a \in Ipas : Mem[t][a] # b
    BY JobBlockUnmapped DEF Mem
  <1>3. b \in Blocks
    BY DEF S2Inv, TypeOK
  <1>4. Memory!Map(s, va, b)
    BY <1>1, <1>2 DEF Memory!Map, Mem, vmVars
  <1> QED
    BY <1>3, <1>4 DEF Memory!Next

LEMMA MemoryStep ==
  ASSUME S2Inv, [Next]_vars
  PROVE  [Memory!Next]_(Memory!vars)
  <1> USE DEF vmVars
  <1>1. ASSUME NEW s \in Slots, delete_vm(s) PROVE Memory!Next
    <2>1. Mem' = Mem
      BY <1>1, SameMem DEF delete_vm, Unlink
    <2>2. Memory!Delete(s)
      BY <1>1, <2>1 DEF delete_vm, Unlink, Memory!Delete, Mem
    <2> QED
      BY <2>2 DEF Memory!Next
  <1>2. ASSUME NEW s \in Slots, NEW o \in Oses, create_vm(s, o) PROVE Memory!Next
    <2>1. Mem' = Mem
      BY <1>2, SameMem DEF create_vm
    <2>2. /\ total \in Nat /\ total \in Slots /\ total \notin 0 .. total - 1
          /\ 0 .. (total + 1) - 1 = (0 .. total - 1) \cup {total}
      BY <1>2, S2Constants DEF S2Inv, TypeOK, create_vm, Slots
    <2>3. Memory!Create(s, total)
      BY <1>2, <2>1, <2>2 DEF create_vm, Memory!Create, Mem
    <2> QED
      BY <2>2, <2>3 DEF Memory!Next
  <1>3. ASSUME NEW b \in Blocks, alloc_mem_block(b) PROVE Memory!Next
    <2>1. Mem' = Mem
      BY <1>3, SameMem DEF alloc_mem_block
    <2> PICK s \in Slots : s = job.s /\ vm[s] # None
      BY <1>3 DEF alloc_mem_block, Running, S2Inv, JobInv
    <2>2. Memory!Allocate(s, b)
      BY <1>3, <2>1 DEF alloc_mem_block, Memory!Allocate, Mem
    <2> QED
      BY <2>2 DEF Memory!Next
  <1>4. ASSUME NEW b \in Blocks, NEW k \in Pages, s2_map_new_pmd(b, k) PROVE Memory!Next
    <2>1. Mapping /\ b \in job.mbs /\ UNCHANGED <<vmVars, owner>>
      BY <1>4 DEF s2_map_new_pmd
    <2> QED
      BY <1>4, <2>1, NewPmdGrows, GrownIsMap
  <1>5. ASSUME NEW b \in Blocks, s2_map_pmd_block(b) PROVE Memory!Next
    <2>1. Mapping /\ b \in job.mbs /\ UNCHANGED <<vmVars, owner>>
      BY <1>5 DEF s2_map_pmd_block
    <2> QED
      BY <1>5, <2>1, PmdBlockGrows, GrownIsMap
  <1>6. ASSUME UNCHANGED <<vmVars, owner>>, UNCHANGED tables PROVE UNCHANGED Memory!vars
    BY <1>6, SameMem DEF Memory!vars, Mem
  <1>7. CASE \/ \E s \in Slots : vm_mm_struct_init(s) \/ delete_vm_faults(s)
             \/ \E b \in Blocks : s2_map_pte(b)
             \/ allocated \/ os_img_load \/ os_img_load_faults \/ UNCHANGED vars
    <2>1. UNCHANGED <<vmVars, owner>> /\ UNCHANGED tables
      BY <1>7 DEF vm_mm_struct_init, delete_vm_faults, s2_map_pte, allocated,
                  os_img_load, os_img_load_faults, vars
    <2> QED
      BY <1>6, <2>1
  <1>8. CASE \/ alloc_mem_block_fails \/ s2_map_no_page \/ vcpus_create_fails
             \/ os_img_load_fails
    <2>1. UNCHANGED <<vmVars, owner>> /\ UNCHANGED tables
      BY <1>8 DEF alloc_mem_block_fails, s2_map_no_page, vcpus_create_fails,
                  os_img_load_fails, Fails
    <2> QED
      BY <1>6, <2>1
  <1> QED
    BY <1>1, <1>2, <1>3, <1>4, <1>5, <1>7, <1>8 DEF Next

(* The stage-2 tables implement GuestMemory: every step of create_vm,      *)
(* delete_vm and vm_init is one step of the abstract memory or none, also  *)
(* when pages run out, entries are already taken or vm_init is retried.    *)
THEOREM TablesImplementMemory == Spec => ImplementsMemory
  <1>1. S2Inv /\ [Next]_vars => [Memory!Next]_(Memory!vars)
    BY MemoryStep
  <1> QED
    BY <1>1, MemoryInit, S2Always, PTL DEF Spec, ImplementsMemory, Memory!Spec
=============================================================================
