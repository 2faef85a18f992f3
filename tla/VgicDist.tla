------------------------------ MODULE VgicDist ------------------------------
(***************************************************************************)
(* The distributor and redistributor registers a guest sees (vgic.c): the  *)
(* stores it traps on, the vIRQs they change and, for a vIRQ backed by     *)
(* hardware, the physical GIC they reach. The host binds the UART's vIRQ   *)
(* to the hardware as the console moves between VMs (vconsole.c).          *)
(* Interrupts are named by vINTID, so virqs[i] of a gicd is <<m, i + WORD>>*)
(***************************************************************************)
EXTENDS Integers

CONSTANTS
  NVM,        (* VMs, the slots 0 .. NVM - 1 of rt_hyp.vms                 *)
  Vcpus,      (* all vCPUs                                                 *)
  VmOf,       (* the VM of each vCPU                                       *)
  WORD,       (* VIRQ_PRIV_NUM, also the bits of a register: 32            *)
  SGIS,       (* VIRQ_SGI_NUM, also the fields of a GICx_ICFGR: 16         *)
  FIELDS,     (* fields of a GICx_IPRIORITYR: 4                            *)
  VIRQ_NUM,   (* virq_num of the guest's image: 127                        *)
  VIRQS,      (* length of the array virqs of a gicd: 128                  *)
  SPACE,      (* interrupts a block of gicd registers has room for: 1024   *)
  Junk,       (* what rt_malloc may leave where a vIRQ is read             *)
  UART,       (* PL011_UART0_IRQNUM, a shared interrupt                    *)
  Prios,      (* priorities guests write                                   *)
  LOWEST,     (* GIC_LOWEST_PRIO                                           *)
  MAX_STORES  (* bound on the stores that trap                             *)

Vms == 0 .. NVM - 1
LINES == WORD * ((VIRQ_NUM + 1) \div WORD)   \* vINTIDs GICD_TYPER announces
PrivIds == 0 .. WORD - 1
SharedIds == WORD .. WORD + VIRQS - 1        \* the vINTIDs of virqs
Intids == 0 .. WORD + VIRQS - 1

VARIABLES
  virq,      \* the vIRQs: <<c, i>> in the gicr of vCPU c, <<m, i>> in the gicd of VM m
  phys,      \* the physical GIC, per INTID
  curr,      \* get_curr_vcpu()
  acc,       \* the trapped store being emulated, or None
  console,   \* rt_hyp.curr_vc_idx, Host when it is MAX_VM_NUM
  given,     \* history: <<m, ir>> for every ir the host ever mounted to VM m
  stores,    \* stores so far
  wild       \* a store has left virqs: the model ends here

vars == <<virq, phys, curr, acc, console, given, stores, wild>>

Host == -1
None == [none |-> TRUE]
Edge == 2   \* 0b10
Cfgs == {0, Edge}
States == {"INACTIVE", "PENDING", "ACTIVE", "PENDING_ACTIVE"}
Virqs == [enable : BOOLEAN, state : States, prio : Prios, cfg : Cfgs,
          hw : BOOLEAN, pint : Intids]
Ids == (Vcpus \X PrivIds) \union (Vms \X SharedIds)
Lines == [on : BOOLEAN, pend : BOOLEAN, prio : Prios, cfg : Cfgs]

ASSUME VgicDistConstants ==
  /\ NVM \in Nat /\ VmOf \in [Vcpus -> Vms]
  /\ WORD \in Nat \ {0} /\ SGIS \in 1 .. WORD /\ FIELDS \in 1 .. WORD
  /\ WORD % SGIS = 0 /\ WORD % FIELDS = 0
  /\ VIRQ_NUM \in Nat /\ VIRQS \in Nat /\ LINES <= WORD + VIRQS /\ SPACE \in Nat
  /\ UART \in SharedIds /\ UART < VIRQ_NUM /\ Junk \subseteq Virqs
  /\ LOWEST \in Prios /\ MAX_STORES \in Nat /\ Vcpus \cap Vms = {}

(***************************************************************************)
(* Creation. vgicd_init stops at virq_num: what lies above it in the array *)
(* is what rt_malloc returned.                                             *)
(***************************************************************************)
Fresh(i) == [enable |-> FALSE, state |-> "INACTIVE", prio |-> LOWEST, hw |-> FALSE,
             pint |-> 0, cfg |-> IF i < SGIS THEN Edge ELSE 0]

vgic_init ==
  \E junk \in [Vms \X {i \in SharedIds : i >= VIRQ_NUM} -> Junk] :
    virq = [k \in Ids |-> IF k \in DOMAIN junk THEN junk[k] ELSE Fresh(k[2])]

Init ==
  /\ vgic_init
  /\ phys = [p \in Intids |-> [on |-> p = UART, pend |-> FALSE, prio |-> LOWEST,
                               cfg |-> IF p < SGIS THEN Edge ELSE 0]]
  /\ curr \in Vcpus /\ acc = None /\ console = Host /\ given = {} /\ stores = 0
  /\ wild = FALSE

(***************************************************************************)
(* Registers. A store writes one field per interrupt: a bit, where 0 has   *)
(* no effect, a priority or a configuration.                               *)
(***************************************************************************)
BitRegs == {"ISEN", "ICEN", "ISPND", "ICPND"}
Regs == BitRegs \union {"PRIO", "ICFGR"}

Fields(reg) == CASE reg = "PRIO" -> FIELDS [] reg = "ICFGR" -> SGIS [] OTHER -> WORD
Values(reg) == CASE reg = "PRIO" -> Prios [] reg = "ICFGR" -> Cfgs [] OTHER -> BOOLEAN

(* What field x of a store to reg makes of vIRQ r.                         *)
Written(reg, r, x) ==
  CASE reg = "ISEN"  -> IF x THEN [r EXCEPT !.enable = TRUE] ELSE r
    [] reg = "ICEN"  -> IF x THEN [r EXCEPT !.enable = FALSE] ELSE r
    [] reg = "ISPND" -> IF ~x THEN r
                        ELSE IF r.state = "INACTIVE" THEN [r EXCEPT !.state = "PENDING"]
                        ELSE IF r.state = "ACTIVE" THEN [r EXCEPT !.state = "PENDING_ACTIVE"]
                        ELSE r
    [] reg = "ICPND" -> IF ~x THEN r
                        ELSE IF r.state = "PENDING" THEN [r EXCEPT !.state = "INACTIVE"]
                        ELSE IF r.state = "PENDING_ACTIVE" THEN [r EXCEPT !.state = "ACTIVE"]
                        ELSE r
    [] reg = "PRIO"  -> [r EXCEPT !.prio = x]
    [] reg = "ICFGR" -> [r EXCEPT !.cfg = x]

(* Whether ops->update is called for it, and acts: vgic_update.            *)
(* Mutant: the physical line is reached whatever hw says.                  *)
Updates_always(reg, r, x) ==
  CASE reg \in {"ISEN", "ICEN"} -> x
    [] reg \in {"ISPND", "ICPND"} -> Written(reg, r, x) # r
    [] OTHER -> TRUE
Updates(reg, r, x) ==
  /\ r.hw
  /\ CASE reg \in {"ISEN", "ICEN"} -> x
       [] reg \in {"ISPND", "ICPND"} -> Written(reg, r, x) # r
       [] OTHER -> TRUE

(* The vgic_update_* handlers: what they make of the physical line.        *)
Updated(reg, line, r) ==
  CASE reg = "ISEN"  -> [line EXCEPT !.on = TRUE]
    [] reg = "ICEN"  -> [line EXCEPT !.on = FALSE]
    [] reg = "ISPND" -> [line EXCEPT !.pend = TRUE]
    [] reg = "ICPND" -> [line EXCEPT !.pend = FALSE]
    [] reg = "PRIO"  -> [line EXCEPT !.prio = r.prio]
    [] reg = "ICFGR" -> [line EXCEPT !.cfg = r.cfg]

(* One handler: field f of the store goes to the vIRQ owner, first + f.    *)
Store(owner, first, reg, val) ==
  LET Fld(k) == k[2] - first
      Hit(k) == k[1] = owner /\ Fld(k) \in DOMAIN val
      After == [k \in Ids |-> IF Hit(k) THEN Written(reg, virq[k], val[Fld(k)])
                                        ELSE virq[k]]
      Reach(p) == {k \in Ids : /\ Hit(k) /\ virq[k].pint = p
                               /\ Updates(reg, virq[k], val[Fld(k)])}
      LastOf(S) == CHOOSE k \in S : \A j \in S : j[2] <= k[2]
  IN /\ virq' = After
     /\ phys' = [p \in Intids |-> IF Reach(p) = {} THEN phys[p]
                                  ELSE Updated(reg, phys[p], After[LastOf(Reach(p))])]

(* The vgic_gicd_write_* handlers: irq counts from Fields * off.           *)
(* Mutant: the offset is ignored, as in the gicr handlers.                 *)
gicd_first_unused(reg, w) == WORD
gicd_first(reg, w) == Fields(reg) * w

(* The vgic_gicr_sgi_write_* handlers: irq is computed from the offset and *)
(* not used, so every word starts at interrupt 0 of the vCPU.              *)
gicr_first(reg, w) == 0

(* A guest stores to a word of its gicd or of its gicr.                    *)
Trap(c, gicd, reg, w, val) ==
  /\ ~wild /\ acc = None /\ c = curr /\ stores < MAX_STORES
  /\ acc' = [gicd |-> gicd, reg |-> reg, word |-> w, val |-> val]
  /\ stores' = stores + 1
  /\ UNCHANGED <<virq, phys, curr, console, given, wild>>

(* The words vgic_gicd_write_emulate accepts: every block to its end, but  *)
(* GICD_PRIO_END is one word short. The gicr has those of the private ones.*)
Words(gicd, reg) ==
  LET last == IF reg = "PRIO" THEN 2 ELSE 1
  IN IF gicd THEN 0 .. (SPACE \div Fields(reg)) - last
             ELSE {w \in 0 .. WORD : Fields(reg) * w < WORD}

GuestStores ==
  \E c \in Vcpus, gicd \in BOOLEAN, reg \in Regs :
    \E w \in Words(gicd, reg), val \in [0 .. Fields(reg) - 1 -> Values(reg)] :
      Trap(c, gicd, reg, w, val)

(* The fields of the store for which a gicd handler indexes virqs with a   *)
(* number outside it. Only the two pending handlers leave the private      *)
(* interrupts alone.                                                       *)
Outside(a) ==
  {f \in DOMAIN a.val :
     /\ gicd_first(a.reg, a.word) + f \notin SharedIds
     /\ a.reg \in BitRegs => a.val[f]
     /\ a.reg \in {"ISPND", "ICPND"} => gicd_first(a.reg, a.word) + f >= WORD}

vgic_emulate ==
  /\ acc # None
  /\ acc.gicd => Outside(acc) = {}
  /\ IF acc.gicd
     THEN Store(VmOf[curr], gicd_first(acc.reg, acc.word), acc.reg, acc.val)
     ELSE Store(curr, gicr_first(acc.reg, acc.word), acc.reg, acc.val)
  /\ acc' = None
  /\ UNCHANGED <<curr, console, given, stores, wild>>

(* The store leaves virqs, before or behind: what lies there is overwritten*)
(* and taken for a vIRQ, which may send the store on to any line.          *)
vgic_emulate_outside ==
  /\ acc # None /\ acc.gicd
  /\ \E f \in Outside(acc), r \in Junk :
       phys' = IF Updates(acc.reg, r, acc.val[f])
               THEN [phys EXCEPT ![r.pint] =
                       Updated(acc.reg, @, Written(acc.reg, r, acc.val[f]))]
               ELSE phys
  /\ acc' = None /\ wild' = TRUE
  /\ UNCHANGED <<virq, curr, console, given, stores>>

(***************************************************************************)
(* The console. Mounting and unmounting act only on a vIRQ its guest has   *)
(* enabled; closing and opening the device may mask or unmask the line.    *)
(***************************************************************************)
Bound(r, b) ==
  IF r.enable THEN [r EXCEPT !.hw = b, !.pint = IF b THEN UART ELSE 0] ELSE r

vgic_virq_umount(m, vs) ==
  IF m = Host THEN vs ELSE [vs EXCEPT ![<<m, UART>>] = Bound(@, FALSE)]
(* Mutant: the vIRQ of every VM is bound.                                  *)
vgic_virq_mount_all(m, vs) ==
  [k \in Ids |-> IF k[2] = UART THEN Bound(vs[k], TRUE) ELSE vs[k]]
vgic_virq_mount(m, vs) == [vs EXCEPT ![<<m, UART>>] = Bound(@, TRUE)]

ReopenDevice == \E b \in BOOLEAN : phys' = [phys EXCEPT ![UART].on = b]

vc_attach(m) ==
  /\ ~wild /\ acc = None
  /\ virq' = vgic_virq_mount(m, vgic_virq_umount(console, virq))
  /\ given' = given \union {k \in {<<m, UART>>} : virq[k].enable}
  /\ console' = m /\ ReopenDevice
  /\ UNCHANGED <<curr, acc, stores, wild>>

vc_detach ==
  /\ ~wild /\ acc = None /\ console # Host
  /\ virq' = vgic_virq_umount(console, virq)
  /\ console' = Host /\ ReopenDevice
  /\ UNCHANGED <<curr, acc, given, stores, wild>>

(***************************************************************************)
(* A physical interrupt (rt_hw_trap_irq): the first VM whose vIRQ is       *)
(* enabled and backed by hardware gets it, if its vCPU may take it, and    *)
(* the host otherwise.                                                     *)
(***************************************************************************)
Takers(ir) == {m \in Vms : virq[<<m, ir>>].enable /\ virq[<<m, ir>>].hw}
vcpu_get_irq_owner(m, ir) == m \in Takers(ir) /\ \A n \in Takers(ir) : m <= n

rt_hw_trap_irq(ir) ==
  /\ ~wild /\ acc = None /\ phys[ir].on
  /\ phys' = [phys EXCEPT ![ir].pend = FALSE]
  /\ \/ UNCHANGED virq
     \/ \E m \in Vms : /\ vcpu_get_irq_owner(m, ir)
                        /\ virq' = [virq EXCEPT ![<<m, ir>>].state = "PENDING"]
  /\ UNCHANGED <<curr, acc, console, given, stores, wild>>

(* The scheduler runs another vCPU.                                        *)
Switch(c) ==
  /\ ~wild /\ acc = None /\ curr' = c
  /\ UNCHANGED <<virq, phys, acc, console, given, stores, wild>>

Next ==
  \/ GuestStores
  \/ vgic_emulate
  \/ vgic_emulate_outside
  \/ \E m \in Vms : vc_attach(m)
  \/ vc_detach
  \/ \E ir \in SharedIds : rt_hw_trap_irq(ir)
  \/ \E c \in Vcpus : Switch(c)

Spec == Init /\ [][Next]_vars

(***************************************************************************)
(* Properties.                                                             *)
(***************************************************************************)
(* Every variable has its type: in particular a store leaves the fields of *)
(* a vIRQ within what the hardware accepts.                                *)
TypeOK ==
  /\ virq \in [Ids -> Virqs] /\ phys \in [Intids -> Lines] /\ curr \in Vcpus
  /\ acc # None => /\ acc.gicd \in BOOLEAN /\ acc.reg \in Regs
                   /\ acc.word \in Words(acc.gicd, acc.reg)
                   /\ acc.val \in [0 .. Fields(acc.reg) - 1 -> Values(acc.reg)]
  /\ console \in Vms \union {Host} /\ given \subseteq Vms \X SharedIds
  /\ stores \in 0 .. MAX_STORES /\ wild \in BOOLEAN

(* The interrupts the store names, as the GIC numbers them.                *)
Named(a) ==
  LET owner == IF a.gicd THEN VmOf[curr] ELSE curr
      base == a.word * Fields(a.reg)
  IN {k \in Ids : /\ k[1] = owner /\ k[2] - base \in DOMAIN a.val
                  /\ a.reg \in BitRegs => a.val[k[2] - base]}

(* A store to the gicr, or to a word of shared lines GICD_TYPER announces. *)
Announced(a) ==
  a.gicd => Fields(a.reg) * a.word >= WORD /\ Fields(a.reg) * (a.word + 1) <= LINES

(* A store to a word of a shared line that GICD_TYPER announces, or to the *)
(* gicr, stays within virqs; and a store that stays within them changes no *)
(* vIRQ but those its address and its bits name, of the running vCPU or    *)
(* its VM: never another guest's, and never a neighbour's. The other words *)
(* of the gicd are accepted and leave the array (vgic_emulate_outside).    *)
(* Stores to GICR_IPRIORITYR and GICR_ICFGR are left out: gicr_first.      *)
OnlyNamed ==
  [][acc # None =>
       /\ Announced(acc) => ~wild'
       /\ ~wild' /\ (acc.gicd \/ acc.reg \in BitRegs) =>
            \A k \in Ids \ Named(acc) : virq'[k] = virq[k]]_vars

(* vgicd_init, or vgicr_init, has set the vIRQ up.                         *)
SetUp(k) == k[2] < VIRQ_NUM

(* A guest reaches a physical line only after the host gave it to its VM:  *)
(* no sequence of stores, console switches and interrupts lets it mask,    *)
(* unmask or reconfigure any other. It is claimed of stores within virqs   *)
(* that name only vIRQs vgicd_init has set up: a shipped guest announces   *)
(* vIRQ 127, which it has not, and whose hw is what rt_malloc left.        *)
PhysOnlyMounted ==
  [][acc # None /\ ~wild' /\ (acc.gicd => \A k \in Named(acc) : SetUp(k)) =>
       \A p \in Intids : <<VmOf[curr], p>> \notin given => phys'[p] = phys[p]]_vars

(* A vIRQ that vgicd_init or vgicr_init has set up is backed by hardware   *)
(* only after the host mounted it to its VM, under its own number: an      *)
(* interrupt injected into a guest is one it was given.                    *)
HwWasMounted ==
  \A k \in Ids : SetUp(k) /\ virq[k].hw => k \in given /\ virq[k].pint = k[2]
=============================================================================
