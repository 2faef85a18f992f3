----------------------------- MODULE WorldSwitch -----------------------------
(***************************************************************************)
(* The world switch: what rt_schedule's hook does to the system registers  *)
(* of the core when the running thread changes between the host and the    *)
(* vCPUs (nVHE build). rt_schedule runs the hook at once; in an interrupt  *)
(* the stacks are exchanged only when the interrupt returns, and by then   *)
(* rt_schedule may have run again (rt_tick_increase yields, then           *)
(* rt_timer_check wakes a thread).                                         *)
(***************************************************************************)
CONSTANTS
  Vcpus, Vms,  (* vCPUs, and VMs by slot                                    *)
  VmOf,        (* the VM of a vCPU                                         *)
  IdOf,        (* vcpu->id: its index in that VM, which its guest reads    *)
  Hosts,       (* host threads, all above the vCPUs' priority              *)
  Idle,        (* the idle thread, below it                                *)
  None,
  GuestRegs,   (* registers the guests write, and what they write          *)
  GuestVals

ASSUME WsConstants == VmOf \in [Vcpus -> Vms] /\ DOMAIN IdOf = Vcpus

Threads == Vcpus \cup Hosts \cup {Idle}

(* Registers that are treated alike stand for one another: "el1" for all   *)
(* that only a guest and the hook write, "id" for VMPIDR and VPIDR, which  *)
(* the hook alone writes. Kept: those nothing overwrites between the       *)
(* guest's write and the hook.                                             *)
Sysregs == {"el1", "id", "cpacr", "vbar"}
Kept    == {"el1", "id"}
Values  == GuestVals \cup {IdOf[v] : v \in Vcpus}
             \cup {"reset", "fpen", "trap", "default", "vectors"}

ASSUME WsNames ==
  /\ Hosts \cap Vcpus = {} /\ Idle \notin Hosts \cup Vcpus
  /\ None \notin Vms
  /\ GuestRegs \subseteq Sysregs \ {"id"}

VARIABLES
  hw,       \* the EL1 registers of the core
  hwRoot,   \* VTTBR_EL2: the VM whose stage-2 tables and VMID it names
  tge,      \* HCR_EL2.TGE: the trap settings are the host's
  ctx,      \* vcpu_ctxt.sys_regs
  root,     \* vm->arch->vttbr_el2
  made,     \* VMs with initialised vCPUs
  ready,    \* threads that are ready or running
  curr,     \* rt_current_thread
  cpu,      \* the thread whose stack and general registers are in use
  irq,      \* rt_interrupt_nest > 0
  sw,       \* rt_thread_switch_interrupt_flag, and its from and to
  file,     \* what each vCPU's registers should hold (not in the code)
  mixed,    \* vCPUs that took part in a switch from vCPU to vCPU, and
  mixedVm   \* VMs entered from another VM (not in the code)

regs  == <<hw, hwRoot, tge, ctx, root>>
sched == <<curr, cpu, sw>>
ghost == <<file, mixed, mixedVm>>
vars  == <<regs, sched, ghost, made, ready, irq>>

NoRegs   == [r \in Sysregs |-> "reset"]
NoSwitch == [flag |-> FALSE, from |-> Idle, to |-> Idle]

Init ==
  /\ hw = NoRegs /\ hwRoot = None /\ tge = TRUE
  /\ ctx = [v \in Vcpus |-> NoRegs]
  /\ root = [m \in Vms |-> None]
  /\ made = {} /\ ready = Hosts \cup {Idle}
  /\ curr \in Hosts /\ cpu = curr /\ irq = FALSE /\ sw = NoSwitch
  /\ file = [v \in Vcpus |-> [r \in Kept |-> "reset"]]
  /\ mixed = {} /\ mixedVm = {}

-----------------------------------------------------------------------------
(* The parts of the handlers.                                              *)

(* CPACR_EL1 and VBAR_EL1 are the guest's own registers in this build.     *)
activate_trap(h) == [h EXCEPT !["cpacr"] = "trap", !["vbar"] = "vectors"]

(* Mutant: a register is forgotten in the list of saved ones.              *)
hook_vcpu_regs_save_short(v, h) ==
  [ctx EXCEPT ![v] = [h EXCEPT !["el1"] = ctx[v]["el1"]]]
hook_vcpu_regs_save(v, h) == [ctx EXCEPT ![v] = h]

(* Mutant: VTTBR is loaded only the first time.                            *)
load_stage2_setting_once(v) == IF hwRoot = None THEN root[VmOf[v]] ELSE hwRoot
(* flush_vm_all_tlb puts back the VTTBR it finds.                          *)
load_stage2_setting(v) == root[VmOf[v]]
save_stage2_setting(v) == [root EXCEPT ![VmOf[v]] = hwRoot]

host_to_guest_arch_handler(v) ==
  /\ hw' = activate_trap(ctx[v]) /\ tge' = FALSE
  /\ hwRoot' = load_stage2_setting(v)
  /\ UNCHANGED <<ctx, root, mixed, mixedVm>>

(* deactivate_trap sets CPACR before the registers are saved.              *)
guest_to_host_arch_handler(v) ==
  /\ root' = save_stage2_setting(v)
  /\ tge' = TRUE /\ hw' = [hw EXCEPT !["cpacr"] = "default"]
  /\ ctx' = hook_vcpu_regs_save(v, hw')
  /\ UNCHANGED <<hwRoot, mixed, mixedVm>>

(* vcpu_to_vcpu_arch_handler and guest_to_guest_arch_handler only print.   *)
guest_to_guest_arch_handler(v, w) ==
  /\ mixed' = mixed \cup {v, w}
  /\ mixedVm' = mixedVm \cup ({VmOf[w]} \ {VmOf[v]})
  /\ UNCHANGED regs

switch_hook(from, to) ==
  \/ /\ from \notin Vcpus /\ to \in Vcpus
     /\ host_to_guest_arch_handler(to)
  \/ /\ from \in Vcpus /\ to \notin Vcpus
     /\ guest_to_host_arch_handler(from)
  \/ /\ from \in Vcpus /\ to \in Vcpus
     /\ guest_to_guest_arch_handler(from, to)
  \/ /\ from \notin Vcpus /\ to \notin Vcpus
     /\ UNCHANGED <<regs, mixed, mixedVm>>

-----------------------------------------------------------------------------
(* The scheduler.                                                          *)

(* Mutant: a second switch in one interrupt forgets where it started.      *)
rt_hw_context_switch_interrupt_from(from, to) ==
  [flag |-> TRUE, from |-> from, to |-> to]
(* Mutant: a second switch in one interrupt is not recorded.               *)
rt_hw_context_switch_interrupt_first(from, to) ==
  IF sw.flag THEN sw ELSE [flag |-> TRUE, from |-> from, to |-> to]
(* The first call in an interrupt sets from, the last one sets to.         *)
rt_hw_context_switch_interrupt(from, to) ==
  [flag |-> TRUE, from |-> IF sw.flag THEN sw.from ELSE from, to |-> to]

(* The threads of the highest priority among r.                            *)
Top(r) ==
  IF r \cap Hosts # {} THEN r \cap Hosts
  ELSE IF r \cap Vcpus # {} THEN r \cap Vcpus ELSE {Idle}

(* The running thread goes on unless it is outranked or yields to an equal.*)
ToThreads(r, yield) ==
  IF curr \in Top(r) /\ (yield => Top(r) = {curr}) THEN {curr} ELSE Top(r) \ {curr}

rt_schedule(r, yield) ==
  /\ ready' = r
  /\ \E t \in ToThreads(r, yield) :
       \/ t = curr /\ UNCHANGED <<regs, sched, mixed, mixedVm>>
       \/ /\ t # curr /\ switch_hook(curr, t) /\ curr' = t
          /\ \/ /\ irq /\ sw' = rt_hw_context_switch_interrupt(curr, t)
                /\ UNCHANGED cpu
             \/ ~ irq /\ cpu' = t /\ UNCHANGED sw
  /\ UNCHANGED <<file, made, irq>>

-----------------------------------------------------------------------------
(* Who calls.                                                              *)

(* vcpus_create of a VM's first run: vcpu_state_init for each vCPU. A slot  *)
(* is used again after vm_free, by a VM with the same tables and VMID.     *)
vcpu_state_init(v) ==
  [NoRegs EXCEPT !["id"] = IdOf[v], !["cpacr"] = "fpen"]

VcpusOf(m) == {v \in Vcpus : VmOf[v] = m}

vm_init(m) ==
  /\ ~ irq /\ curr \in Hosts /\ m \notin made
  /\ made' = made \cup {m}
  /\ ctx' = [v \in Vcpus |-> IF v \in VcpusOf(m) THEN vcpu_state_init(v) ELSE ctx[v]]
  /\ root' = [root EXCEPT ![m] = m]
  /\ file' = [v \in Vcpus |-> [r \in Kept |->
                IF v \in VcpusOf(m) THEN vcpu_state_init(v)[r] ELSE file[v][r]]]
  /\ UNCHANGED <<hw, hwRoot, tge, sched, mixed, mixedVm, ready, irq>>

(* vm_free: the threads, the vCPUs and what they saved are gone.           *)
vm_free(m) ==
  /\ ~ irq /\ curr \in Hosts /\ m \in made
  /\ made' = made \ {m}
  /\ ready' = ready \ VcpusOf(m)
  /\ ctx' = [v \in Vcpus |-> IF v \in VcpusOf(m) THEN NoRegs ELSE ctx[v]]
  /\ root' = [root EXCEPT ![m] = None]
  /\ file' = [v \in Vcpus |-> [r \in Kept |->
                IF v \in VcpusOf(m) THEN NoRegs[r] ELSE file[v][r]]]
  /\ mixed' = mixed \ VcpusOf(m) /\ mixedVm' = mixedVm \ {m}
  /\ UNCHANGED <<hw, hwRoot, tge, sched, irq>>

(* An interrupt handler, a host thread or the handler of a vCPU's trap     *)
(* makes a thread ready: vcpu_go, or any wake-up of a host thread.         *)
wakes(t) ==
  /\ irq \/ curr # Idle
  /\ t \in Vcpus => VmOf[t] \in made
  /\ rt_schedule(ready \cup {t}, FALSE)

(* A host thread blocks; a vCPU suspends itself or ends, in a trap.        *)
waits ==
  /\ ~ irq /\ curr # Idle
  /\ rt_schedule(ready \ {curr}, FALSE)

(* rt_tick_increase: the time slice is over.                               *)
tick == irq /\ rt_schedule(ready, TRUE)

irq_enter ==
  /\ ~ irq /\ irq' = TRUE
  /\ UNCHANGED <<regs, sched, ghost, made, ready>>

(* The end of vector_irq: the stacks are exchanged if the flag is set.     *)
irq_exit ==
  /\ irq /\ irq' = FALSE
  /\ cpu' = IF sw.flag THEN sw.to ELSE cpu
  /\ sw' = NoSwitch
  /\ UNCHANGED <<regs, curr, ghost, made, ready>>

(* The guest on the core writes one of its registers.                      *)
guest_writes(v, r, x) ==
  /\ ~ irq /\ cpu = v
  /\ hw' = [hw EXCEPT ![r] = x]
  /\ file' = IF r \in Kept THEN [file EXCEPT ![v][r] = x] ELSE file
  /\ UNCHANGED <<hwRoot, tge, ctx, root, sched, mixed, mixedVm, made, ready, irq>>

Next ==
  \/ \E m \in Vms : vm_init(m) \/ vm_free(m)
  \/ \E t \in Vcpus \cup Hosts : wakes(t)
  \/ waits \/ tick \/ irq_enter \/ irq_exit
  \/ \E v \in Vcpus, r \in GuestRegs, x \in GuestVals : guest_writes(v, r, x)

Spec == Init /\ [][Next]_vars

-----------------------------------------------------------------------------
(* Every variable is in range, no vCPU of a VM without vCPUs is scheduled, *)
(* and the running thread is one that may run.                             *)
TypeOK ==
  /\ hw \in [Sysregs -> Values] /\ hwRoot \in Vms \cup {None} /\ tge \in BOOLEAN
  /\ ctx \in [Vcpus -> [Sysregs -> Values]]
  /\ root \in [Vms -> Vms \cup {None}]
  /\ made \subseteq Vms /\ ready \subseteq Threads /\ Idle \in ready
  /\ \A v \in Vcpus \cap ready : VmOf[v] \in made
  /\ curr \in ready /\ cpu \in Threads /\ irq \in BOOLEAN
  /\ sw \in [flag : BOOLEAN, from : Threads, to : Threads]
  /\ file \in [Vcpus -> [Kept -> Values]]
  /\ mixed \subseteq Vcpus /\ mixedVm \subseteq Vms

(* However often rt_schedule runs in one interrupt, its return saves the   *)
(* stack of the thread it interrupted and continues the current thread.    *)
StacksMatch ==
  /\ sw.flag => irq /\ sw.from = cpu /\ sw.to = curr
  /\ ~ sw.flag => cpu = curr

(* rt_hw_trap_sync tells a guest's exception from a host's by HCR_EL2.TGE: *)
(* whenever code of a thread runs, TGE is clear just if it is a vCPU,      *)
(* although the hook sets it earlier than the stacks are exchanged.        *)
TrapsMatch == ~ irq => (tge <=> cpu \notin Vcpus)

RegsOf(v) == IF curr = v THEN hw ELSE ctx[v]

(* A vCPU that was only ever switched from and to the host has, saved or   *)
(* on the core, the registers it last wrote, whatever others do meanwhile. *)
RegsKept ==
  \A v \in Vcpus \ mixed : VmOf[v] \in made =>
    \A r \in Kept : RegsOf(v)[r] = file[v][r]

(* A VM never entered from another VM keeps its own stage-2 root, saved    *)
(* and on the core: save_stage2_setting reads back what was loaded.        *)
RootKept ==
  \A m \in made \ mixedVm :
    /\ root[m] = m
    /\ \A v \in Vcpus : curr = v /\ VmOf[v] = m => hwRoot = m

(* "save guest_1 runtime env", "resotre guest_2 runtime env"               *)
(* (virt_arch.c:312): every vCPU runs with its own registers and under the *)
(* stage-2 tables of its own VM.                                           *)
OwnRegs ==
  \A v \in Vcpus : curr = v =>
    (\A r \in Kept : hw[r] = file[v][r]) /\ hwRoot = VmOf[v]
=============================================================================
