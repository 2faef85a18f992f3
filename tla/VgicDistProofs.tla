--------------------------- MODULE VgicDistProofs ---------------------------
(***************************************************************************)
(* Proofs about VgicDist, for any VMs, vCPUs and sizes of the registers,   *)
(* any virq_num and whatever rt_malloc leaves in the vIRQs that vgicd_init *)
(* does not reach.                                                         *)
(***************************************************************************)
EXTENDS VgicDist, WellFoundedInduction, TLAPS

IInv == TypeOK /\ HwWasMounted /\ (acc # None => ~wild)

(* A field that is written keeps the binding of its vIRQ to the hardware;  *)
(* a zero bit changes nothing.                                             *)
LEMMA WrittenKeeps ==
  ASSUME NEW reg \in Regs, NEW r \in Virqs, NEW x \in Values(reg)
  PROVE  /\ Written(reg, r, x) \in Virqs
         /\ Written(reg, r, x).hw = r.hw /\ Written(reg, r, x).pint = r.pint
         /\ reg \in BitRegs /\ ~x => Written(reg, r, x) = r
  <1>1. CASE reg \in {"ISEN", "ICEN"}
    <2>1. x \in BOOLEAN BY <1>1 DEF Values
    <2>. QED BY <1>1, <2>1 DEF Written, Virqs
  <1>2. CASE reg \in {"ISPND", "ICPND"}
    <2>1. x \in BOOLEAN BY <1>2 DEF Values
    <2>. QED BY <1>2, <2>1 DEF Written, Virqs, States
  <1>3. CASE reg = "PRIO"
    <2>1. x \in Prios BY <1>3 DEF Values
    <2>. QED BY <1>3, <2>1 DEF Written, Virqs, BitRegs
  <1>4. CASE reg = "ICFGR"
    <2>1. x \in Cfgs BY <1>4 DEF Values
    <2>. QED BY <1>4, <2>1 DEF Written, Virqs, BitRegs
  <1>. QED BY <1>1, <1>2, <1>3, <1>4 DEF Regs, BitRegs

(* What the physical line becomes is a line.                               *)
LEMMA UpdatedTyped ==
  ASSUME NEW reg \in Regs, NEW line \in Lines, NEW r \in Virqs
  PROVE  Updated(reg, line, r) \in Lines
  BY DEF Updated, Lines, Virqs, Regs, BitRegs

(* The members of Ids.                                                     *)
LEMMA IdsOf ==
  /\ \A k \in Ids : k = <<k[1], k[2]>> /\ k[2] \in Intids
  /\ \A m \in Vms, i \in SharedIds : <<m, i>> \in Ids
  /\ \A c \in Vcpus, i \in PrivIds : <<c, i>> \in Ids
  <1>1. SharedIds \subseteq Intids
    BY VgicDistConstants DEF SharedIds, Intids
  <1>2. PrivIds \subseteq Intids
    BY VgicDistConstants DEF PrivIds, Intids
  <1>. QED BY <1>1, <1>2, VgicDistConstants DEF Ids

(* Some vIRQ of a set has the largest number.                              *)
LEMMA LastExists ==
  ASSUME NEW S, S \subseteq Ids, S # {}
  PROVE  \E k \in S : \A j \in S : j[2] <= k[2]
  <1> DEFINE above(k) == WORD + VIRQS - k[2]
             T == {above(k) : k \in S}
  <1>1. \A k \in S : k[2] \in Int /\ above(k) \in Nat
    BY IdsOf, VgicDistConstants DEF Intids
  <1>2. T \subseteq Nat /\ T # {} BY <1>1
  <1>3. \E x \in T : \A y \in T : ~(<<y, x>> \in OpToRel(<, Nat))
    BY <1>2, WFMin, NatLessThanWellFounded
  <1>4. \A x, y \in Nat : <<y, x>> \in OpToRel(<, Nat) <=> y < x
    BY DEF OpToRel
  <1>5. PICK k \in S : \A j \in S : ~(<<above(j), above(k)>> \in OpToRel(<, Nat))
    BY <1>3
  <1>6. \A j \in S : ~(above(j) < above(k)) BY <1>1, <1>4, <1>5
  <1>. QED BY <1>1, <1>6, VgicDistConstants

(* The vIRQs a store of val at the number first writes.                    *)
Goal(owner, first, reg, val) ==
  {k \in Ids : /\ k[1] = owner /\ k[2] - first \in DOMAIN val
               /\ reg \in BitRegs => val[k[2] - first]}

(* One handler: it changes only the vIRQs of its owner that the fields     *)
(* name, binds none to the hardware, and reaches the lines of those that   *)
(* are bound.                                                              *)
LEMMA StoreStep ==
  ASSUME IInv, NEW owner, NEW first \in Int, NEW reg \in Regs,
         NEW val \in [0 .. Fields(reg) - 1 -> Values(reg)],
         Store(owner, first, reg, val)
  PROVE  /\ virq' \in [Ids -> Virqs]
         /\ \A k \in Ids : virq'[k].hw = virq[k].hw /\ virq'[k].pint = virq[k].pint
         /\ \A k \in Ids : virq'[k] # virq[k] => k \in Goal(owner, first, reg, val)
         /\ phys' \in [Intids -> Lines]
         /\ \A p \in Intids : phys'[p] # phys[p] =>
              \E k \in Goal(owner, first, reg, val) : virq[k].hw /\ virq[k].pint = p
  <1> DEFINE Fld(k) == k[2] - first
             Hit(k) == k[1] = owner /\ Fld(k) \in DOMAIN val
             After == [k \in Ids |-> IF Hit(k) THEN Written(reg, virq[k], val[Fld(k)])
                                               ELSE virq[k]]
             Reach(p) == {k \in Ids : /\ Hit(k) /\ virq[k].pint = p
                                      /\ Updates(reg, virq[k], val[Fld(k)])}
             LastOf(S) == CHOOSE k \in S : \A j \in S : j[2] <= k[2]
  <1>1. virq' = After BY DEF Store
  <1>2. phys' = [p \in Intids |-> IF Reach(p) = {} THEN phys[p]
                                  ELSE Updated(reg, phys[p], After[LastOf(Reach(p))])]
    BY DEF Store
  <1>3. \A k \in Ids : Hit(k) =>
           /\ After[k] \in Virqs
           /\ After[k].hw = virq[k].hw /\ After[k].pint = virq[k].pint
           /\ reg \in BitRegs /\ ~val[Fld(k)] => After[k] = virq[k]
    <2> SUFFICES ASSUME NEW k \in Ids, Hit(k)
                 PROVE  /\ After[k] \in Virqs
                        /\ After[k].hw = virq[k].hw /\ After[k].pint = virq[k].pint
                        /\ reg \in BitRegs /\ ~val[Fld(k)] => After[k] = virq[k]
      OBVIOUS
    <2>1. virq[k] \in Virqs /\ val[Fld(k)] \in Values(reg) BY DEF IInv, TypeOK
    <2>2. After[k] = Written(reg, virq[k], val[Fld(k)]) OBVIOUS
    <2> HIDE DEF After
    <2>. QED BY <2>1, <2>2, WrittenKeeps
  <1>4. \A k \in Ids : ~Hit(k) => After[k] = virq[k] OBVIOUS
  <1>5. \A k \in Ids : virq[k] \in Virqs BY DEF IInv, TypeOK
  <1>6. \A k \in Ids : After[k] \in Virqs BY <1>3, <1>4, <1>5
  <1>7. \A p \in Intids : \A k \in Reach(p) :
           /\ k \in Ids /\ Hit(k) /\ virq[k].hw /\ virq[k].pint = p
           /\ reg \in BitRegs => val[Fld(k)]
    <2> SUFFICES ASSUME NEW p \in Intids, NEW k \in Reach(p)
                 PROVE  /\ k \in Ids /\ Hit(k) /\ virq[k].hw /\ virq[k].pint = p
                        /\ reg \in BitRegs => val[Fld(k)]
      OBVIOUS
    <2>1. k \in Ids /\ Hit(k) /\ virq[k].pint = p /\ Updates(reg, virq[k], val[Fld(k)])
      OBVIOUS
    <2>2. virq[k].hw BY <2>1 DEF Updates
    <2>3. virq[k] \in Virqs /\ val[Fld(k)] \in Values(reg) BY <1>5, <2>1
    <2>4. reg \in BitRegs /\ ~val[Fld(k)] => Written(reg, virq[k], val[Fld(k)]) = virq[k]
      BY <2>3, WrittenKeeps
    <2>5. reg \in BitRegs => val[Fld(k)]
      BY <2>1, <2>4 DEF Updates, BitRegs
    <2>. QED BY <2>1, <2>2, <2>5
  <1>8. \A p \in Intids : Reach(p) # {} => LastOf(Reach(p)) \in Ids
    <2> SUFFICES ASSUME NEW p \in Intids, Reach(p) # {} PROVE LastOf(Reach(p)) \in Ids
      OBVIOUS
    <2>1. Reach(p) \subseteq Ids OBVIOUS
    <2> HIDE DEF Reach
    <2>2. \E i \in Reach(p) : \A j \in Reach(p) : j[2] <= i[2] BY <2>1, LastExists
    <2>3. LastOf(Reach(p)) \in Reach(p) BY <2>2
    <2>. QED BY <2>1, <2>3
  <1>9. virq' \in [Ids -> Virqs] BY <1>1, <1>6
  <1>10. phys' \in [Intids -> Lines]
    <2>1. \A p \in Intids : phys[p] \in Lines BY DEF IInv, TypeOK
    <2>2. \A p \in Intids : Reach(p) # {} =>
             Updated(reg, phys[p], After[LastOf(Reach(p))]) \in Lines
      BY <2>1, <1>6, <1>8, UpdatedTyped
    <2> HIDE DEF Reach, LastOf, After
    <2>. QED BY <1>2, <2>1, <2>2
  <1>11. \A p \in Intids : phys'[p] # phys[p] =>
            \E k \in Goal(owner, first, reg, val) : virq[k].hw /\ virq[k].pint = p
    <2>1. \A p \in Intids : phys'[p] # phys[p] => Reach(p) # {} BY <1>2
    <2>2. \A p \in Intids : Reach(p) # {} => \E k \in Reach(p) : TRUE OBVIOUS
    <2> HIDE DEF Reach
    <2>. QED BY <2>1, <2>2, <1>7 DEF Goal
  <1>12. \A k \in Ids : virq'[k] # virq[k] => k \in Goal(owner, first, reg, val)
    BY <1>1, <1>3, <1>4 DEF Goal
  <1> HIDE DEF After
  <1>. QED BY <1>1, <1>3, <1>4, <1>9, <1>10, <1>11, <1>12

-----------------------------------------------------------------------------
(* The binding of a vIRQ to the hardware.                                  *)
LEMMA BoundTyped ==
  ASSUME NEW r \in Virqs, NEW b \in BOOLEAN
  PROVE  /\ Bound(r, b) \in Virqs /\ Bound(r, b).enable = r.enable
         /\ Bound(r, b).hw => (b /\ r.enable /\ Bound(r, b).pint = UART)
                              \/ (~r.enable /\ r.hw /\ Bound(r, b).pint = r.pint)
  <1>1. UART \in Intids /\ 0 \in Intids
    BY VgicDistConstants DEF SharedIds, Intids
  <1>. QED BY <1>1 DEF Bound, Virqs

LEMMA UmountStep ==
  ASSUME IInv, NEW vs, vs = vgic_virq_umount(console, virq)
  PROVE  /\ vs \in [Ids -> Virqs]
         /\ \A k \in Ids : vs[k].enable = virq[k].enable
         /\ \A k \in Ids : SetUp(k) /\ vs[k].hw => k \in given /\ vs[k].pint = k[2]
  <1>1. CASE console = Host
    BY <1>1 DEF vgic_virq_umount, IInv, TypeOK, HwWasMounted
  <1>2. CASE console # Host
    <2>1. <<console, UART>> \in Ids
      BY <1>2, IdsOf, VgicDistConstants DEF IInv, TypeOK
    <2>2. virq \in [Ids -> Virqs] /\ virq[<<console, UART>>] \in Virqs
      BY <2>1 DEF IInv, TypeOK
    <2>3. vs = [virq EXCEPT ![<<console, UART>>] = Bound(virq[<<console, UART>>], FALSE)]
      BY <1>2 DEF vgic_virq_umount
    <2>4. \A k \in Ids : SetUp(k) /\ virq[k].hw => k \in given /\ virq[k].pint = k[2]
      BY DEF IInv, HwWasMounted
    <2>5. /\ Bound(virq[<<console, UART>>], FALSE) \in Virqs
          /\ Bound(virq[<<console, UART>>], FALSE).enable = virq[<<console, UART>>].enable
          /\ Bound(virq[<<console, UART>>], FALSE).hw =>
               virq[<<console, UART>>].hw
                 /\ Bound(virq[<<console, UART>>], FALSE).pint = virq[<<console, UART>>].pint
      BY <2>2, BoundTyped
    <2>. QED BY <2>1, <2>2, <2>3, <2>4, <2>5
  <1>. QED BY <1>1, <1>2

LEMMA AttachStep ==
  ASSUME IInv, NEW m \in Vms, vc_attach(m)
  PROVE  IInv'
  <1> DEFINE vs == vgic_virq_umount(console, virq)
             u  == <<m, UART>>
  <1>1. /\ vs \in [Ids -> Virqs]
        /\ \A k \in Ids : vs[k].enable = virq[k].enable
        /\ \A k \in Ids : SetUp(k) /\ vs[k].hw => k \in given /\ vs[k].pint = k[2]
    BY UmountStep
  <1> HIDE DEF vs
  <1>2. u \in Ids /\ u \in Vms \X SharedIds BY IdsOf, VgicDistConstants
  <1>3. virq' = [vs EXCEPT ![u] = Bound(vs[u], TRUE)]
    BY DEF vc_attach, vgic_virq_mount, vs
  <1>4. given' = given \union {k \in {u} : virq[k].enable} BY DEF vc_attach
  <1>5. /\ Bound(vs[u], TRUE) \in Virqs
        /\ Bound(vs[u], TRUE).hw =>
             \/ vs[u].enable /\ Bound(vs[u], TRUE).pint = UART
             \/ vs[u].hw /\ Bound(vs[u], TRUE).pint = vs[u].pint
    BY <1>1, <1>2, BoundTyped
  <1>6. virq' \in [Ids -> Virqs] BY <1>1, <1>2, <1>3, <1>5
  <1>7. given' \subseteq Vms \X SharedIds BY <1>2, <1>4 DEF IInv, TypeOK
  <1>8. HwWasMounted'
    <2> SUFFICES ASSUME NEW k \in Ids, SetUp(k), virq'[k].hw
                 PROVE  k \in given' /\ virq'[k].pint = k[2]
      BY DEF HwWasMounted
    <2>1. CASE k = u
      <3>1. u[2] = UART OBVIOUS
      <3>. QED BY <2>1, <3>1, <1>1, <1>2, <1>3, <1>4, <1>5
    <2>2. CASE k # u BY <2>2, <1>1, <1>2, <1>3, <1>4
    <2>. QED BY <2>1, <2>2
  <1>9. phys' \in [Intids -> Lines]
    BY DEF vc_attach, ReopenDevice, IInv, TypeOK, Lines
  <1>. QED
    BY <1>6, <1>7, <1>8, <1>9 DEF IInv, TypeOK, vc_attach, None

LEMMA DetachStep ==
  ASSUME IInv, vc_detach
  PROVE  IInv'
  <1>1. /\ virq' \in [Ids -> Virqs]
        /\ \A k \in Ids : SetUp(k) /\ virq'[k].hw => k \in given /\ virq'[k].pint = k[2]
    BY UmountStep DEF vc_detach
  <1>2. phys' \in [Intids -> Lines]
    BY DEF vc_detach, ReopenDevice, IInv, TypeOK, Lines
  <1>. QED BY <1>1, <1>2 DEF IInv, TypeOK, HwWasMounted, vc_detach, None

LEMMA IrqStep ==
  ASSUME IInv, NEW ir \in SharedIds, rt_hw_trap_irq(ir)
  PROVE  IInv'
  <1>1. phys' \in [Intids -> Lines]
    BY DEF rt_hw_trap_irq, IInv, TypeOK, Lines
  <1>2. /\ virq' \in [Ids -> Virqs]
        /\ \A k \in Ids : virq'[k].hw = virq[k].hw /\ virq'[k].pint = virq[k].pint
    <2>1. CASE UNCHANGED virq BY <2>1 DEF IInv, TypeOK
    <2>2. ASSUME NEW m \in Vms,
                 virq' = [virq EXCEPT ![<<m, ir>>].state = "PENDING"]
          PROVE  /\ virq' \in [Ids -> Virqs]
                 /\ \A k \in Ids : virq'[k].hw = virq[k].hw /\ virq'[k].pint = virq[k].pint
      <3>1. <<m, ir>> \in Ids BY IdsOf
      <3>2. virq \in [Ids -> Virqs] /\ virq[<<m, ir>>] \in Virqs
        BY <3>1 DEF IInv, TypeOK
      <3>3. [virq[<<m, ir>>] EXCEPT !.state = "PENDING"] \in Virqs
        BY <3>2 DEF Virqs, States
      <3>4. /\ [virq[<<m, ir>>] EXCEPT !.state = "PENDING"].hw = virq[<<m, ir>>].hw
            /\ [virq[<<m, ir>>] EXCEPT !.state = "PENDING"].pint = virq[<<m, ir>>].pint
        BY <3>2 DEF Virqs
      <3>. QED BY <2>2, <3>1, <3>2, <3>3, <3>4
    <2>. QED BY <2>1, <2>2 DEF rt_hw_trap_irq
  <1>. QED BY <1>1, <1>2 DEF IInv, TypeOK, HwWasMounted, rt_hw_trap_irq, None

-----------------------------------------------------------------------------
(* The store in progress goes through one handler of the running guest.    *)
LEMMA EmulateStep ==
  ASSUME IInv, vgic_emulate
  PROVE  /\ IInv'
         /\ (acc.gicd => \A k \in Named(acc) : SetUp(k)) =>
              \A p \in Intids : <<VmOf[curr], p>> \notin given => phys'[p] = phys[p]
         /\ acc.gicd \/ acc.reg \in BitRegs =>
              \A k \in Ids \ Named(acc) : virq'[k] = virq[k]
  <1> DEFINE owner == IF acc.gicd THEN VmOf[curr] ELSE curr
             first == IF acc.gicd THEN gicd_first(acc.reg, acc.word)
                                  ELSE gicr_first(acc.reg, acc.word)
  <1>1. Store(owner, first, acc.reg, acc.val) BY DEF vgic_emulate
  <1>2. /\ acc.gicd \in BOOLEAN /\ acc.reg \in Regs
        /\ acc.val \in [0 .. Fields(acc.reg) - 1 -> Values(acc.reg)]
        /\ acc.word \in Words(acc.gicd, acc.reg)
    BY DEF vgic_emulate, IInv, TypeOK
  <1>3. Fields(acc.reg) \in Nat \ {0} BY VgicDistConstants DEF Fields
  <1>4. acc.word \in Nat BY <1>2, <1>3, VgicDistConstants DEF Words
  <1>5. first \in Int BY <1>3, <1>4 DEF gicd_first, gicr_first
  <1> HIDE DEF owner, first
  <1>6. /\ virq' \in [Ids -> Virqs]
        /\ \A k \in Ids : virq'[k].hw = virq[k].hw /\ virq'[k].pint = virq[k].pint
        /\ \A k \in Ids : virq'[k] # virq[k] => k \in Goal(owner, first, acc.reg, acc.val)
        /\ phys' \in [Intids -> Lines]
        /\ \A p \in Intids : phys'[p] # phys[p] =>
             \E k \in Goal(owner, first, acc.reg, acc.val) : virq[k].hw /\ virq[k].pint = p
    BY <1>1, <1>2, <1>5, StoreStep
  <1>7. IInv' BY <1>6 DEF IInv, TypeOK, HwWasMounted, vgic_emulate, None
  <1>9. ASSUME acc.gicd \/ acc.reg \in BitRegs
        PROVE  first = acc.word * Fields(acc.reg)
    <2>1. CASE acc.gicd BY <2>1, <1>3, <1>4 DEF first, gicd_first
    <2>2. CASE ~acc.gicd
      <3>1. Fields(acc.reg) = WORD BY <2>2, <1>9 DEF Fields, BitRegs
      <3>2. WORD * acc.word < WORD BY <2>2, <3>1, <1>2 DEF Words
      <3>3. acc.word = 0
        <4>1. WORD \in Nat \ {0} BY VgicDistConstants
        <4>2. acc.word >= 1 => WORD * acc.word >= WORD
          BY <1>4, <4>1, SMTT(30)
        <4>3. WORD * acc.word \in Int BY <1>4, <4>1
        <4>. QED BY <1>4, <3>2, <4>1, <4>2, <4>3
      <3>. QED BY <2>2, <3>1, <3>3, VgicDistConstants DEF first, gicr_first
    <2>. QED BY <2>1, <2>2, <1>2
  <1>8. ASSUME acc.gicd => \A k \in Named(acc) : SetUp(k), NEW p \in Intids, phys'[p] # phys[p]
        PROVE  <<VmOf[curr], p>> \in given
    <2>1. PICK k \in Ids : /\ k[1] = owner /\ k[2] - first \in DOMAIN acc.val
                           /\ acc.reg \in BitRegs => acc.val[k[2] - first]
                           /\ virq[k].hw /\ virq[k].pint = p
      BY <1>6, <1>8 DEF Goal
    <2>2. CASE acc.gicd
      <3>1. first = acc.word * Fields(acc.reg) BY <2>2, <1>9
      <3>2. k \in Named(acc) BY <2>1, <2>2, <3>1 DEF Named, owner
      <3>3. SetUp(k) BY <1>8, <2>2, <3>2
      <3>4. k \in given /\ virq[k].pint = k[2] BY <2>1, <3>3 DEF IInv, HwWasMounted
      <3>. QED BY <2>1, <2>2, <3>4, IdsOf DEF owner
    <2>3. CASE ~acc.gicd
      <3>1. curr \in Vcpus /\ curr \notin Vms BY VgicDistConstants DEF IInv, TypeOK
      <3>2. k[1] = curr BY <2>1, <2>3 DEF owner
      <3>3. k[2] \in PrivIds BY <3>1, <3>2 DEF Ids
      <3>4. SetUp(k) BY <3>3, VgicDistConstants DEF SetUp, PrivIds, SharedIds
      <3>5. k \in given BY <2>1, <3>4 DEF IInv, HwWasMounted
      <3>. QED BY <3>1, <3>2, <3>5 DEF IInv, TypeOK
    <2>. QED BY <2>2, <2>3, <1>2
  <1>10. ASSUME acc.gicd \/ acc.reg \in BitRegs, NEW k \in Ids, virq'[k] # virq[k]
         PROVE  k \in Named(acc)
    <2>1. first = acc.word * Fields(acc.reg) BY <1>9, <1>10
    <2>2. /\ k[1] = owner /\ k[2] - first \in DOMAIN acc.val
          /\ acc.reg \in BitRegs => acc.val[k[2] - first]
      BY <1>6, <1>10 DEF Goal
    <2>. QED BY <2>1, <2>2 DEF Named, owner
  <1>. QED BY <1>7, <1>8, <1>10

(* A store that leaves virqs reaches at most the physical GIC; none to an  *)
(* announced shared line does.                                             *)
LEMMA OutsideStep ==
  ASSUME IInv, vgic_emulate_outside
  PROVE  IInv' /\ wild' /\ ~Announced(acc)
  <1>1. /\ acc.gicd /\ acc.reg \in Regs
        /\ acc.val \in [0 .. Fields(acc.reg) - 1 -> Values(acc.reg)]
        /\ acc.word \in Words(acc.gicd, acc.reg)
    BY DEF vgic_emulate_outside, IInv, TypeOK
  <1>2. PICK f \in Outside(acc), r \in Junk :
          phys' = IF Updates(acc.reg, r, acc.val[f])
                  THEN [phys EXCEPT ![r.pint] =
                          Updated(acc.reg, phys[r.pint], Written(acc.reg, r, acc.val[f]))]
                  ELSE phys
    BY DEF vgic_emulate_outside
  <1>3. f \in 0 .. Fields(acc.reg) - 1 /\ gicd_first(acc.reg, acc.word) + f \notin SharedIds
    BY <1>1 DEF Outside
  <1>4. Fields(acc.reg) \in Nat \ {0} BY VgicDistConstants DEF Fields
  <1>5. acc.word \in Nat BY <1>1, <1>4, VgicDistConstants DEF Words
  <1>6. phys' \in [Intids -> Lines]
    <2>1. r \in Virqs /\ r.pint \in Intids BY VgicDistConstants DEF Virqs
    <2>2. acc.val[f] \in Values(acc.reg) BY <1>1, <1>3
    <2>3. phys \in [Intids -> Lines] BY DEF IInv, TypeOK
    <2>4. Written(acc.reg, r, acc.val[f]) \in Virqs BY <1>1, <2>1, <2>2, WrittenKeeps
    <2>5. Updated(acc.reg, phys[r.pint], Written(acc.reg, r, acc.val[f])) \in Lines
      BY <1>1, <2>1, <2>3, <2>4, UpdatedTyped
    <2>. QED BY <1>2, <2>1, <2>3, <2>5
  <1>7. ~Announced(acc)
    <2> SUFFICES ASSUME Announced(acc) PROVE FALSE OBVIOUS
    <2> DEFINE base == Fields(acc.reg) * acc.word
    <2>1. base \in Nat /\ Fields(acc.reg) * (acc.word + 1) = base + Fields(acc.reg)
      BY <1>4, <1>5
    <2>2. base >= WORD /\ base + Fields(acc.reg) <= LINES
      BY <1>1, <2>1 DEF Announced
    <2>3. LINES \in Int BY VgicDistConstants DEF LINES
    <2>4. base + f \notin SharedIds BY <1>3 DEF gicd_first
    <2> HIDE DEF base
    <2>. QED BY <1>3, <1>4, <2>1, <2>2, <2>3, <2>4, VgicDistConstants DEF SharedIds
  <1>. QED BY <1>6, <1>7 DEF vgic_emulate_outside, IInv, TypeOK, HwWasMounted, None

LEMMA TrapStep ==
  ASSUME IInv, NEW c \in Vcpus, NEW gicd \in BOOLEAN, NEW reg \in Regs,
         NEW w \in Words(gicd, reg), NEW val \in [0 .. Fields(reg) - 1 -> Values(reg)],
         Trap(c, gicd, reg, w, val)
  PROVE  IInv'
  <1>1. stores' \in 0 .. MAX_STORES BY VgicDistConstants DEF Trap, IInv, TypeOK
  <1>2. /\ acc'.gicd = gicd /\ acc'.reg = reg /\ acc'.word = w /\ acc'.val = val
    BY DEF Trap
  <1>. QED BY <1>1, <1>2 DEF Trap, IInv, TypeOK, HwWasMounted

LEMMA InitIInv ==
  ASSUME Init
  PROVE  IInv
  <1>1. PICK junk \in [Vms \X {i \in SharedIds : i >= VIRQ_NUM} -> Junk] :
          virq = [k \in Ids |-> IF k \in DOMAIN junk THEN junk[k] ELSE Fresh(k[2])]
    BY DEF Init, vgic_init
  <1>2. 0 \in Intids BY VgicDistConstants DEF SharedIds, Intids
  <1>3. \A i \in Intids : Fresh(i) \in Virqs /\ ~Fresh(i).hw
    BY <1>2, VgicDistConstants DEF Fresh, Virqs, States, Cfgs, Edge
  <1>4. \A k \in Ids : SetUp(k) => k \notin DOMAIN junk
    BY VgicDistConstants DEF SetUp, SharedIds
  <1>5. virq \in [Ids -> Virqs] /\ HwWasMounted
    BY <1>1, <1>3, <1>4, IdsOf, VgicDistConstants DEF HwWasMounted
  <1>6. phys \in [Intids -> Lines]
    BY VgicDistConstants DEF Init, Lines, Cfgs, Edge
  <1>7. acc = None /\ wild = FALSE /\ given = {} /\ console = Host /\ stores = 0 /\ curr \in Vcpus
    BY DEF Init
  <1>8. stores \in 0 .. MAX_STORES BY <1>7, VgicDistConstants
  <1>. QED BY <1>5, <1>6, <1>7, <1>8 DEF IInv, TypeOK

LEMMA NextIInv ==
  ASSUME IInv, [Next]_vars
  PROVE  IInv'
  <1>1. CASE GuestStores BY <1>1, TrapStep DEF GuestStores
  <1>2. CASE vgic_emulate BY <1>2, EmulateStep
  <1>8. CASE vgic_emulate_outside BY <1>8, OutsideStep
  <1>3. CASE \E m \in Vms : vc_attach(m) BY <1>3, AttachStep
  <1>4. CASE vc_detach BY <1>4, DetachStep
  <1>5. CASE \E ir \in SharedIds : rt_hw_trap_irq(ir) BY <1>5, IrqStep
  <1>6. CASE \E c \in Vcpus : Switch(c)
    BY <1>6 DEF Switch, IInv, TypeOK, HwWasMounted, None
  <1>7. CASE UNCHANGED vars BY <1>7 DEF vars, IInv, TypeOK, HwWasMounted, None
  <1>. QED BY <1>1, <1>2, <1>3, <1>4, <1>5, <1>6, <1>7, <1>8 DEF Next

(* While a store is emulated nothing else happens.                         *)
LEMMA OnlyEmulate ==
  ASSUME [Next]_vars, acc # None
  PROVE  vgic_emulate \/ vgic_emulate_outside \/ UNCHANGED <<virq, phys, wild>>
  BY DEF Next, vars, GuestStores, Trap, vc_attach, vc_detach, rt_hw_trap_irq, Switch

(* A vIRQ that was set up and is backed by hardware was mounted to its VM  *)
(* by the host (vgic_virq_mount), under its own number, whatever guests    *)
(* store, however the console moves and interrupts arrive.                 *)
THEOREM BindingCorrect == Spec => [](TypeOK /\ HwWasMounted)
  <1>1. Init => IInv BY InitIInv
  <1>2. IInv /\ [Next]_vars => IInv' BY NextIInv
  <1>3. IInv => TypeOK /\ HwWasMounted BY DEF IInv
  <1>. QED BY <1>1, <1>2, <1>3, PTL DEF Spec

(* A guest's store to an announced shared line stays within virqs, one that*)
(* stays within them changes only the vIRQs it names, of its own VM or     *)
(* vCPU, and one to vIRQs that are set up reaches the physical GIC only at *)
(* interrupts mounted to its VM (vgic_gicd_write_*,                        *)
(* vgic_gicr_sgi_write_*, vgic_update).                                    *)
THEOREM StoresConfined == Spec => OnlyNamed /\ PhysOnlyMounted
  <1>1. Init => IInv BY InitIInv
  <1>2. IInv /\ [Next]_vars => IInv' BY NextIInv
  <1>3. IInv /\ vgic_emulate => ~wild' BY DEF IInv, vgic_emulate
  <1>4. IInv /\ [Next]_vars =>
          [acc # None =>
             /\ Announced(acc) => ~wild'
             /\ ~wild' /\ (acc.gicd \/ acc.reg \in BitRegs) =>
                  \A k \in Ids \ Named(acc) : virq'[k] = virq[k]]_vars
    BY <1>3, OnlyEmulate, EmulateStep, OutsideStep DEF IInv
  <1>5. IInv /\ [Next]_vars =>
          [acc # None /\ ~wild' /\ (acc.gicd => \A k \in Named(acc) : SetUp(k)) =>
             \A p \in Intids : <<VmOf[curr], p>> \notin given => phys'[p] = phys[p]]_vars
    BY <1>3, OnlyEmulate, EmulateStep, OutsideStep
  <1>. QED BY <1>1, <1>2, <1>4, <1>5, PTL DEF Spec, OnlyNamed, PhysOnlyMounted
=============================================================================
