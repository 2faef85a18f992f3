---------------------------- MODULE VmLifecycle ----------------------------
(***************************************************************************)
(* The life of virtual machines: the shell commands of hypervisor.c and    *)
(* vconsole.c, the VM and vCPU operations of vm.c they call, the traps of  *)
(* a running guest, and the interrupts, timers and threads that run in     *)
(* between on the single core.                                             *)
(*                                                                         *)
(* A struct vm is named by the value total_vm had when it was created, so  *)
(* an object keeps its name after it is unlinked or freed and a dangling   *)
(* pointer can be told from a pointer to the slot's next VM.               *)
(***************************************************************************)
EXTENDS Integers, FiniteSets

CONSTANTS
  MAX_VM_NUM,   (* length of rt_hyp.vms                                    *)
  BITMAP_BITS,  (* bits of vm_bitmap                                       *)
  OsVcpus,      (* the cpu.num values of the OS images in os_img           *)
  MAX_VCPU,     (* largest cpu.num                                         *)
  RT_DEBUG,     (* RT_ASSERT is compiled in                                *)
  HCR_TWI,      (* WFI/WFE of a guest traps to EL2                         *)
  Failures,     (* allocations may fail, commands may be mistyped          *)
  PtrBytes,     (* the low bytes a pointer from rt_malloc may have         *)
  Shell, Idle,  (* the finsh thread and the idle thread                    *)
  NULL

ASSUME VmConstants ==
  /\ MAX_VM_NUM \in 1 .. 255                          \* indices are rt_uint8_t
  /\ BITMAP_BITS \in MAX_VM_NUM .. 256
  /\ MAX_VCPU \in Nat \ {0}
  /\ OsVcpus \subseteq 0 .. MAX_VCPU
  /\ PtrBytes \subseteq 0 .. 255
  /\ RT_DEBUG \in BOOLEAN /\ HCR_TWI \in BOOLEAN /\ Failures \in BOOLEAN

Slots == 0 .. MAX_VM_NUM - 1          \* indexes of rt_hyp.vms
Bits  == 0 .. BITMAP_BITS - 1         \* bits of rt_hyp.vm_bitmap
Obj   == 0 .. MAX_VM_NUM - 1          \* struct vm objects, by creation order
Vcpu  == Obj \X (0 .. MAX_VCPU - 1)   \* struct vcpu and its rt_thread

ASSUME VmNames ==
  /\ NULL \notin Obj
  /\ Shell \notin Vcpu /\ Idle \notin Vcpu /\ Shell # Idle

VARIABLES
  total_vm, vm_bitmap, vms, curr_vm_idx, curr_vc_idx,  \* struct hypervisor
  vmStatus,    \* vm->status, "NONE" before create_vm
  nr_vcpus,    \* vm->nr_vcpus
  vcpus,       \* vm->vcpus: "null", "junk" (not every entry valid), "ok", "freed"
  gic,         \* VMs with a gicd, gicrs and a vConsole (vgic_init, vc_create)
  enable, hw,  \* VMs whose UART vIRQ is enabled, is bound to the physical one
  open,        \* VMs whose vConsole has is_open
  vcpuStatus,  \* vcpu->status, "NONE" before vcpu_create
  ptimer,      \* vCPUs whose ptimer soft timer is started
  parked,      \* vCPUs switched out inside vcpu_shutdown
  thr,         \* stat of vcpu->tid, "none" before creation, "freed" after it
  curr,        \* rt_current_thread
  sh,          \* shell: "wait" for input, "ready", or inside delete_vm
  del,         \* vm_idx and del_vm of delete_vm
  host         \* "ok", or why the host has stopped

hypVars  == <<total_vm, vm_bitmap, vms, curr_vm_idx>>
vmVars   == <<vmStatus, nr_vcpus, vcpus>>
conVars  == <<enable, hw, open, curr_vc_idx>>
vcpuVars == <<vcpuStatus, ptimer, parked>>
kernVars == <<thr, curr>>
vars == <<hypVars, vmVars, gic, conVars, vcpuVars, kernVars, sh, del, host>>

VmStatus   == {"OFFLINE", "ONLINE", "SUSPEND", "NEVER_RUN", "UNKNOWN"}
ThreadStat == {"none", "INIT", "READY", "SUSPEND", "CLOSE", "freed"}
(* A host that has stopped: a failed RT_ASSERT, or undefined behaviour.    *)
Stopped == {"assert_self", "assert_init", "assert_type",
            "null", "junk", "uaf", "out_of_bounds"}

vcpusOf(o) == {o} \X (0 .. nr_vcpus[o] - 1)
Live       == {i \in Slots : vms[i] # NULL}

-----------------------------------------------------------------------------
(* rt_hyp_init, and the boot state: the shell waits for its first line.    *)
Init ==
  /\ total_vm = 0 /\ vm_bitmap = {} /\ vms = [i \in Slots |-> NULL]
  /\ curr_vm_idx = MAX_VM_NUM /\ curr_vc_idx = MAX_VM_NUM
  /\ vmStatus = [o \in Obj |-> "NONE"] /\ nr_vcpus = [o \in Obj |-> 0]
  /\ vcpus = [o \in Obj |-> "null"]
  /\ gic = {} /\ enable = {} /\ hw = {} /\ open = {}
  /\ vcpuStatus = [v \in Vcpu |-> "NONE"] /\ ptimer = {} /\ parked = {}
  /\ thr = [v \in Vcpu |-> "none"] /\ curr = Idle
  /\ sh = "wait" /\ del = NULL /\ host = "ok"

-----------------------------------------------------------------------------
(* The RT-Thread calls the hypervisor makes.                               *)

(* rt_schedule: the shell has priority 20, every vCPU thread 21. Which of  *)
(* several ready vCPU threads is next is left open.                        *)
Scheduled(t, s) ==
  LET ready == {v \in Vcpu : t[v] = "READY"}
  IN  IF s # "wait" THEN {Shell} ELSE IF ready # {} THEN ready ELSE {Idle}

rt_schedule(t) == curr' \in Scheduled(t, sh)

Stop(why) == host' = why /\ UNCHANGED kernVars

(* A call on a reclaimed thread fails the object-type assertion, or reads   *)
(* freed memory.                                                           *)
FreedThread == IF RT_DEBUG THEN "assert_type" ELSE "uaf"

rt_thread_startup(v) ==
  \/ thr[v] = "freed" /\ Stop(FreedThread)
  \/ RT_DEBUG /\ thr[v] \notin {"INIT", "freed"} /\ Stop("assert_init")
  \/ /\ thr[v] # "freed"
     /\ RT_DEBUG => thr[v] = "INIT"
     /\ thr' = [thr EXCEPT ![v] = "READY"]
     /\ rt_schedule(thr')
     /\ UNCHANGED host

(* Mutant: whatever the thread's state, it goes to the ready queue.        *)
rt_thread_resume_any(v) ==
  /\ thr' = [thr EXCEPT ![v] = "READY"]
  /\ rt_schedule(thr')
  /\ UNCHANGED host

rt_thread_resume(v) ==
  \/ thr[v] = "freed" /\ Stop(FreedThread)
  \/ /\ thr[v] # "freed"
     /\ thr' = [thr EXCEPT ![v] = IF @ = "SUSPEND" THEN "READY" ELSE @]
     /\ rt_schedule(thr')
     /\ UNCHANGED host

-----------------------------------------------------------------------------
(* vm.c: vCPU operations.                                                  *)

vcpu_go(v) ==
  \/ /\ vcpuStatus[v] = "ONLINE"
     /\ rt_schedule(thr)
     /\ UNCHANGED <<vcpuStatus, thr, host>>
  \/ /\ vcpuStatus[v] \in {"OFFLINE", "NEVER_RUN"}
     /\ vcpuStatus' = [vcpuStatus EXCEPT ![v] = "ONLINE"]
     /\ rt_thread_startup(v)
  \/ /\ vcpuStatus[v] = "SUSPEND"
     /\ vcpuStatus' = [vcpuStatus EXCEPT ![v] = "ONLINE"]
     /\ rt_thread_resume(v)
  \/ vcpuStatus[v] = "UNKNOWN" /\ UNCHANGED <<vcpuStatus, kernVars, host>>

(* Reading an entry of a vm->vcpus that is NULL, or not (or no longer) set. *)
ArrayFault(o) == IF vcpus[o] = "null" THEN "null" ELSE "junk"

(* vm_go: vCPU 0, which exists whenever the array is valid.                *)
vm_go(o) ==
  \/ vcpus[o] = "ok" /\ vcpu_go(<<o, 0>>)
  \/ vcpus[o] # "ok" /\ Stop(ArrayFault(o)) /\ UNCHANGED vcpuStatus

-----------------------------------------------------------------------------
(* hypervisor.c: shell commands. A command runs on the shell thread, above *)
(* every vCPU thread; only interrupts and the timer thread cut into it.    *)

AtPrompt == host = "ok" /\ curr = Shell /\ sh = "ready"

(* Mutant: the limit on the number of VMs is not checked.                  *)
TakeBit_no_limit(i) ==
  /\ i \notin vm_bitmap /\ \A j \in Bits \ vm_bitmap : i <= j
  /\ vm_bitmap' = vm_bitmap \cup {i}

(* create_vm takes the first clear bit (bitmap_find_next is external) and  *)
(* sets it before anything can fail. MAX_VM_NUM creations and it refuses.  *)
TakeBit(i) ==
  /\ total_vm # MAX_VM_NUM
  /\ i \notin vm_bitmap /\ \A j \in Bits \ vm_bitmap : i <= j
  /\ vm_bitmap' = vm_bitmap \cup {i}

(* A failed allocation, or an option that is rejected, returns with the    *)
(* bit still set; if it was the vgic that failed, vgic_free(NULL) writes   *)
(* through it, and without -i vm_config_init reads vm->os = NULL.          *)
create_vm_fails ==
  /\ AtPrompt /\ Failures
  /\ \E i \in Bits : TakeBit(i)
  /\ host' \in {"ok", "null"}
  /\ UNCHANGED <<total_vm, vms, curr_vm_idx, vmVars, gic, conVars, vcpuVars,
                 kernVars, sh, del>>

(* Bits lost to failures leave an index past the array: new_vm is written  *)
(* behind it, where curr_vc_idx comes first (then rt_hyp.arch).             *)
create_vm ==
  /\ AtPrompt
  /\ \E i \in Bits, n \in OsVcpus :
       /\ TakeBit(i)
       /\ vmStatus' = [vmStatus EXCEPT ![total_vm] = "NEVER_RUN"]
       /\ nr_vcpus' = [nr_vcpus EXCEPT ![total_vm] = n]
       /\ curr_vm_idx' = i
       /\ \/ /\ i \in Slots /\ vms' = [vms EXCEPT ![i] = total_vm]
             /\ UNCHANGED <<curr_vc_idx, host>>
          \/ /\ i \notin Slots /\ host' = "out_of_bounds" /\ UNCHANGED vms
             /\ IF i = MAX_VM_NUM THEN curr_vc_idx' \in PtrBytes
                                  ELSE UNCHANGED curr_vc_idx
  /\ total_vm' = total_vm + 1
  /\ UNCHANGED <<vcpus, gic, enable, hw, open, vcpuVars, kernVars, sh, del>>

(* pick_vm -i n stores n whether or not the slot is used. Without -i it    *)
(* stores an uninitialized index (here: any, or one past the array) whose  *)
(* entry happens not to be NULL.                                           *)
pick_vm ==
  /\ AtPrompt
  /\ \/ curr_vm_idx' \in Slots
     \/ Failures /\ curr_vm_idx' = MAX_VM_NUM
  /\ UNCHANGED <<total_vm, vm_bitmap, vms, vmVars, gic, conVars, vcpuVars,
                 kernVars, sh, del, host>>

(* vm_idx_check and the lookup every command starts with.                  *)
Picked(o) == AtPrompt /\ curr_vm_idx \in Slots /\ vms[curr_vm_idx] = o /\ o # NULL

(* run_vm of a stopped or paused VM.                                       *)
run_vm_again(o) ==
  /\ Picked(o) /\ vmStatus[o] \in {"OFFLINE", "SUSPEND"}
  /\ vmStatus' = [vmStatus EXCEPT ![o] = "ONLINE"]
  /\ vm_go(o)
  /\ UNCHANGED <<hypVars, nr_vcpus, vcpus, gic, conVars, ptimer, parked, sh, del>>

(* run_vm of a new VM. vm_init fails before the vCPUs exist (in the array's *)
(* own allocation, or in the memory setup, which leaves the fresh array     *)
(* unset), in vcpus_create (which then frees every entry, set or not), or   *)
(* in os_img_load, with everything created. Status stays NEVER_RUN.         *)
vm_init_fails_early(o) ==
  /\ Picked(o) /\ vmStatus[o] = "NEVER_RUN"
  /\ \/ (Failures \/ nr_vcpus[o] = 0) /\ host' = "ok"
        /\ vcpus' = [vcpus EXCEPT ![o] = "null"]
     \/ Failures /\ nr_vcpus[o] > 0 /\ host' \in {"ok", "junk"}
        /\ vcpus' = [vcpus EXCEPT ![o] = "junk"]
  /\ UNCHANGED <<hypVars, vmStatus, nr_vcpus, gic, conVars, vcpuVars,
                 kernVars, sh, del>>

vm_init_fails_late(o) ==
  /\ Picked(o) /\ vmStatus[o] = "NEVER_RUN" /\ nr_vcpus[o] > 0 /\ Failures
  /\ vcpus' = [vcpus EXCEPT ![o] = "ok"]
  /\ gic' = gic \cup {o}
  /\ vcpuStatus' = [v \in Vcpu |-> IF v \in vcpusOf(o) THEN "NEVER_RUN" ELSE vcpuStatus[v]]
  /\ thr' = [v \in Vcpu |-> IF v \in vcpusOf(o) THEN "INIT" ELSE thr[v]]
  /\ UNCHANGED <<hypVars, vmStatus, nr_vcpus, conVars, ptimer, parked, curr, sh,
                 del, host>>

(* The first run: vm_init, then vcpu_go starts the thread of vCPU 0.       *)
run_vm_first(o) ==
  /\ Picked(o) /\ vmStatus[o] = "NEVER_RUN" /\ nr_vcpus[o] > 0
  /\ vcpus' = [vcpus EXCEPT ![o] = "ok"]
  /\ gic' = gic \cup {o}
  /\ vmStatus' = [vmStatus EXCEPT ![o] = "ONLINE"]
  /\ vcpuStatus' = [v \in Vcpu |-> IF v \notin vcpusOf(o) THEN vcpuStatus[v]
                                  ELSE IF v[2] = 0 THEN "ONLINE" ELSE "NEVER_RUN"]
  /\ thr' = [v \in Vcpu |-> IF v \notin vcpusOf(o) THEN thr[v]
                           ELSE IF v[2] = 0 THEN "READY" ELSE "INIT"]
  /\ rt_schedule(thr')
  /\ UNCHANGED <<hypVars, nr_vcpus, conVars, ptimer, parked, sh, del, host>>

(* vgic_init does not report a failed allocation of gicd: the VM is run,   *)
(* and the first switch to its vCPU restores through the missing gicr.     *)
run_vm_no_gic(o) ==
  /\ Picked(o) /\ vmStatus[o] = "NEVER_RUN" /\ nr_vcpus[o] > 0
  /\ Failures /\ o \notin gic
  /\ Stop("null")
  /\ UNCHANGED <<hypVars, vmVars, gic, conVars, vcpuVars, sh, del>>

(* pause_vm -> vm_suspend: rt_thread_suspend of each vCPU thread in turn,   *)
(* which asserts that a thread suspends itself. Without the assertion the   *)
(* first thread that is not ready turns the VM's status UNKNOWN, or, if it  *)
(* has been reclaimed, is read after it was freed.                          *)
pause_vm(o) ==
  /\ Picked(o)
  /\ LET n    == nr_vcpus[o]
         bad  == {c \in 0 .. n - 1 : thr[<<o, c>>] # "READY"}
         done == {c \in 0 .. n - 1 : \A b \in bad : c < b}
         gone == \E b \in bad : thr[<<o, b>>] = "freed" /\ \A c \in bad : b <= c
     IN  \/ n > 0 /\ vcpus[o] # "ok" /\ Stop(ArrayFault(o)) /\ UNCHANGED vmStatus
         \/ /\ n > 0 /\ vcpus[o] = "ok" /\ RT_DEBUG /\ UNCHANGED vmStatus
            /\ Stop(IF thr[<<o, 0>>] = "freed" THEN "assert_type" ELSE "assert_self")
         \/ /\ n > 0 => vcpus[o] = "ok" /\ ~RT_DEBUG
            /\ vmStatus' = [vmStatus EXCEPT ![o] = IF gone THEN @ ELSE
                              IF bad = {} THEN "SUSPEND" ELSE "UNKNOWN"]
            /\ thr' = [v \in Vcpu |-> IF v[1] = o /\ v[2] \in done THEN "SUSPEND" ELSE thr[v]]
            /\ host' = IF gone THEN "uaf" ELSE "ok"
            /\ UNCHANGED curr
  /\ UNCHANGED <<hypVars, nr_vcpus, vcpus, gic, conVars, vcpuVars, sh, del>>

(* Mutant: the status changes and the threads are not deleted.             *)
vm_shutdown_keeps_threads(o) ==
  /\ vmStatus' = [vmStatus EXCEPT ![o] = "OFFLINE"]
  /\ UNCHANGED <<thr, curr, host>>

(* vm_shutdown: rt_thread_delete of every vCPU thread; a closed one is left *)
(* alone, one the idle thread has reclaimed is no longer a thread object.   *)
vm_shutdown(o) ==
  \/ nr_vcpus[o] > 0 /\ vcpus[o] # "ok" /\ Stop(ArrayFault(o)) /\ UNCHANGED vmStatus
  \/ /\ vcpus[o] = "ok" /\ \E v \in vcpusOf(o) : thr[v] = "freed"
     /\ Stop(FreedThread) /\ UNCHANGED vmStatus
  \/ /\ nr_vcpus[o] > 0 => vcpus[o] = "ok"
     /\ \A v \in vcpusOf(o) : thr[v] # "freed"
     /\ vmStatus' = [vmStatus EXCEPT ![o] = "OFFLINE"]
     /\ thr' = [v \in Vcpu |-> IF v \in vcpusOf(o) THEN "CLOSE" ELSE thr[v]]
     /\ UNCHANGED <<curr, host>>

halt_vm(o) ==
  /\ Picked(o) /\ vm_shutdown(o)
  /\ UNCHANGED <<hypVars, nr_vcpus, vcpus, gic, conVars, vcpuVars, sh, del>>

(* Mutant: the bit is cleared first, not last.                             *)
delete_vm_clears_first(o) ==
  /\ Picked(o) /\ vm_shutdown(o)
  /\ sh' = IF host' = "ok" THEN "unlink" ELSE sh
  /\ del' = IF host' = "ok" THEN <<curr_vm_idx, o>> ELSE del
  /\ vm_bitmap' = vm_bitmap \ {curr_vm_idx}
  /\ UNCHANGED <<total_vm, vms, curr_vm_idx, nr_vcpus, vcpus, gic, conVars, vcpuVars>>

(* delete_vm: halt, unlink the slot, free, clear the bit. Interrupts and    *)
(* the timer thread may run between these.                                  *)
delete_vm_halt(o) ==
  /\ Picked(o) /\ vm_shutdown(o)
  /\ sh' = IF host' = "ok" THEN "unlink" ELSE sh
  /\ del' = IF host' = "ok" THEN <<curr_vm_idx, o>> ELSE del
  /\ UNCHANGED <<hypVars, nr_vcpus, vcpus, gic, conVars, vcpuVars>>

(* Mutant: the VM is freed while its slot still points to it.              *)
delete_vm_frees_linked ==
  /\ host = "ok" /\ curr = Shell /\ sh = "unlink"
  /\ sh' = "free"
  /\ UNCHANGED <<hypVars, vmVars, gic, conVars, vcpuVars, kernVars, del, host>>

delete_vm_unlink ==
  /\ host = "ok" /\ curr = Shell /\ sh = "unlink"
  /\ vms' = [vms EXCEPT ![del[1]] = NULL]
  /\ sh' = "free"
  /\ UNCHANGED <<total_vm, vm_bitmap, curr_vm_idx, vmVars, gic, conVars,
                 vcpuVars, kernVars, del, host>>

(* vm_free: the vgic and the vCPUs are freed; their threads are closed     *)
(* already and the armed ptimers stay armed.                               *)
delete_vm_free ==
  /\ host = "ok" /\ curr = Shell /\ sh = "free"
  /\ vcpus' = [vcpus EXCEPT ![del[2]] = "freed"]
  /\ sh' = "clear"
  /\ UNCHANGED <<hypVars, vmStatus, nr_vcpus, gic, conVars, vcpuVars, kernVars,
                 del, host>>

delete_vm_clear ==
  /\ host = "ok" /\ curr = Shell /\ sh = "clear"
  /\ vm_bitmap' = vm_bitmap \ {del[1]}
  /\ sh' = "ready" /\ del' = NULL
  /\ UNCHANGED <<total_vm, vms, curr_vm_idx, vmVars, gic, conVars, vcpuVars,
                 kernVars, host>>

-----------------------------------------------------------------------------
(* vconsole.c: who has the UART.                                           *)

(* get_curr_vc finds the vConsole of the slot curr_vc_idx names; a VM that *)
(* never ran has none.                                                     *)
CurrVc == IF curr_vc_idx = MAX_VM_NUM \/ vms[curr_vc_idx] \notin gic
          THEN NULL ELSE vms[curr_vc_idx]

(* vc_detach: umount only touches an enabled vIRQ.                         *)
HwWithout(o)   == IF o \in enable THEN hw \ {o} ELSE hw

(* Mutant: the VM that has the console is not detached first.              *)
attach_vm_no_detach(i) ==
  /\ AtPrompt /\ vms[i] # NULL /\ vmStatus[vms[i]] = "ONLINE"
  /\ open' = open \cup {vms[i]} /\ curr_vc_idx' = i
  /\ UNCHANGED <<hypVars, vmVars, gic, enable, hw, vcpuVars, kernVars, sh, del, host>>

(* vc_attach: detach the VM that has the console, open this VM's, and bind *)
(* the physical interrupt if the guest has enabled its vIRQ by now.        *)
attach_vm(i) ==
  /\ AtPrompt /\ vms[i] # NULL /\ vmStatus[vms[i]] = "ONLINE"
  /\ LET o == vms[i]
     IN  \/ /\ curr_vc_idx # MAX_VM_NUM /\ vms[curr_vc_idx] = NULL
            /\ Stop("null") /\ UNCHANGED conVars
         \/ /\ curr_vc_idx # MAX_VM_NUM => vms[curr_vc_idx] # NULL
            /\ open' = (open \ {CurrVc}) \cup {o}
            /\ hw' = LET h == IF CurrVc = NULL THEN hw ELSE HwWithout(CurrVc)
                     IN  IF o \in enable THEN h \cup {o} ELSE h
            /\ curr_vc_idx' = i
            /\ UNCHANGED <<enable, kernVars, host>>
  /\ UNCHANGED <<hypVars, vmVars, gic, vcpuVars, sh, del>>

-----------------------------------------------------------------------------
(* A guest that runs: what it can trap into.                               *)

Guest(v) == host = "ok" /\ curr = v /\ v \notin parked

(* Writes to GICD_ISENABLER and GICD_ICENABLER for the UART.               *)
guest_enables(v) ==
  /\ Guest(v) /\ v[1] \notin enable
  /\ enable' = enable \cup {v[1]}
  /\ UNCHANGED <<hypVars, vmVars, gic, hw, open, curr_vc_idx, vcpuVars, kernVars,
                 sh, del, host>>

guest_disables(v) ==
  /\ Guest(v) /\ v[1] \in enable
  /\ enable' = enable \ {v[1]}
  /\ UNCHANGED <<hypVars, vmVars, gic, hw, open, curr_vc_idx, vcpuVars, kernVars,
                 sh, del, host>>

(* console_mmio_handler: the guest writes 0x2 to its open vConsole.        *)
guest_quits_console(v) ==
  /\ Guest(v) /\ v[1] \in open /\ curr_vc_idx # MAX_VM_NUM
  /\ \/ vms[curr_vc_idx] = NULL /\ host' = "null" /\ UNCHANGED conVars
     \/ /\ CurrVc # NULL
        /\ open' = open \ {CurrVc} /\ hw' = HwWithout(CurrVc)
        /\ curr_vc_idx' = MAX_VM_NUM
        /\ UNCHANGED <<enable, host>>
  /\ UNCHANGED <<hypVars, vmVars, gic, vcpuVars, kernVars, sh, del>>

(* vtimer_handler_cntp_ctl: a write starts or stops the ptimer.            *)
guest_sets_ptimer(v) ==
  /\ Guest(v)
  /\ ptimer' = IF v \in ptimer THEN ptimer \ {v} ELSE ptimer \cup {v}
  /\ UNCHANGED <<hypVars, vmVars, gic, conVars, vcpuStatus, parked, kernVars,
                 sh, del, host>>

(* Mutant: the thread is suspended and the vCPU's status is not changed.   *)
guest_wfx_status_kept(v) ==
  /\ HCR_TWI /\ Guest(v) /\ vcpuStatus[v] = "ONLINE"
  /\ thr' = [thr EXCEPT ![v] = "SUSPEND"]
  /\ rt_schedule(thr')
  /\ UNCHANGED <<hypVars, vmVars, gic, conVars, vcpuVars, sh, del, host>>

(* ec_wfx_handler -> vcpu_suspend, on the vCPU's own thread.               *)
guest_wfx(v) ==
  /\ HCR_TWI /\ Guest(v) /\ vcpuStatus[v] = "ONLINE"
  /\ vcpuStatus' = [vcpuStatus EXCEPT ![v] = "SUSPEND"]
  /\ thr' = [thr EXCEPT ![v] = IF @ = "READY" THEN "SUSPEND" ELSE @]
  /\ rt_schedule(thr')
  /\ UNCHANGED <<hypVars, vmVars, gic, conVars, ptimer, parked, sh, del, host>>

(* vcpu_fault -> vcpu_shutdown: the vCPU's thread suspends itself half-way *)
(* and rt_schedule leaves it there. In any other status it is marked, and  *)
(* a suspended one would lose its thread.                                  *)
guest_faults(v) ==
  /\ Guest(v)
  /\ \/ /\ vcpuStatus[v] = "ONLINE"
        /\ vcpuStatus' = [vcpuStatus EXCEPT ![v] = "OFFLINE"]
        /\ thr' = [thr EXCEPT ![v] = IF @ = "READY" THEN "SUSPEND" ELSE @]
        /\ parked' = parked \cup {v}
        /\ rt_schedule(thr')
     \/ /\ vcpuStatus[v] # "ONLINE"
        /\ vcpuStatus' = [vcpuStatus EXCEPT ![v] = "UNKNOWN"]
        /\ thr' = [thr EXCEPT ![v] = IF vcpuStatus[v] = "SUSPEND" THEN "CLOSE" ELSE @]
        /\ UNCHANGED <<curr, parked>>
  /\ UNCHANGED <<hypVars, vmVars, gic, conVars, ptimer, sh, del, host>>

(* The rest of vcpu_shutdown, if that thread ever runs again: it deletes   *)
(* itself and returns to the guest.                                        *)
shutdown_continues(v) ==
  /\ host = "ok" /\ curr = v /\ v \in parked
  /\ thr' = [thr EXCEPT ![v] = "CLOSE"]
  /\ vcpuStatus' = [vcpuStatus EXCEPT ![v] = "UNKNOWN"]
  /\ parked' = parked \ {v}
  /\ UNCHANGED <<hypVars, vmVars, gic, conVars, ptimer, curr, sh, del, host>>

-----------------------------------------------------------------------------
(* Interrupts, timers and the other threads.                               *)

(* vcpu_get_irq_owner for the UART: the scan of the slots ends at the first *)
(* VM that has no gicd yet (no owner) or whose vIRQ is enabled and bound.   *)
ScanStops == {i \in Live : vms[i] \notin gic \/ vms[i] \in enable \cap hw}
vcpu_get_irq_owner ==
  IF \E i \in ScanStops : vms[i] \in gic /\ \A j \in ScanStops : i <= j
  THEN vms[CHOOSE i \in ScanStops : \A j \in ScanStops : i <= j]
  ELSE NULL

(* rt_hw_trap_irq for a UART interrupt that belongs to a VM: inject into    *)
(* its vCPU 0, which ends in vcpu_go. The interrupt may hit any thread.     *)
irq_to_guest ==
  /\ host = "ok"
  /\ \E o \in Obj :
       /\ vcpu_get_irq_owner = o
       /\ vcpuStatus[<<o, 0>>] \in {"ONLINE", "SUSPEND"}
       /\ vcpu_go(<<o, 0>>)
  /\ UNCHANGED <<hypVars, vmVars, gic, conVars, ptimer, parked, sh, del>>

(* ... and for one that belongs to the host: the shell gets its line.       *)
shell_input ==
  /\ host = "ok" /\ sh = "wait" /\ vcpu_get_irq_owner = NULL
  /\ sh' = "ready" /\ curr' = Shell
  /\ UNCHANGED <<hypVars, vmVars, gic, conVars, vcpuVars, thr, del, host>>

shell_waits ==
  /\ AtPrompt
  /\ sh' = "wait" /\ curr' \in Scheduled(thr, "wait")
  /\ UNCHANGED <<hypVars, vmVars, gic, conVars, vcpuVars, thr, del, host>>

(* ptimer_timeout_function on the timer thread (priority 4), whatever the   *)
(* vCPU's status.                                                           *)
ptimer_fires(v) ==
  /\ host = "ok" /\ v \in ptimer
  /\ \/ vcpus[v[1]] = "freed" /\ Stop("uaf") /\ UNCHANGED vcpuStatus
     \/ vcpus[v[1]] # "freed" /\ vcpu_go(v)
  /\ UNCHANGED <<hypVars, vmVars, gic, conVars, ptimer, parked, sh, del>>

(* The tick: a vCPU thread has used up its time slice, or is closed.        *)
tick ==
  /\ host = "ok" /\ curr \in Vcpu
  /\ rt_schedule(thr)
  /\ UNCHANGED <<hypVars, vmVars, gic, conVars, vcpuVars, thr, sh, del, host>>

(* rt_defunct_execute frees every closed thread.                            *)
idle_reclaims ==
  /\ host = "ok" /\ curr = Idle
  /\ thr' = [v \in Vcpu |-> IF thr[v] = "CLOSE" THEN "freed" ELSE thr[v]]
  /\ UNCHANGED <<hypVars, vmVars, gic, conVars, vcpuVars, curr, sh, del, host>>

-----------------------------------------------------------------------------
Command(o) ==
  \/ run_vm_again(o) \/ vm_init_fails_early(o) \/ vm_init_fails_late(o)
  \/ run_vm_first(o) \/ run_vm_no_gic(o)
  \/ pause_vm(o) \/ halt_vm(o) \/ delete_vm_halt(o)

Trap(v) ==
  \/ guest_enables(v) \/ guest_disables(v) \/ guest_quits_console(v)
  \/ guest_sets_ptimer(v) \/ guest_wfx(v) \/ guest_faults(v)

Next ==
  \/ create_vm \/ create_vm_fails \/ pick_vm
  \/ \E o \in Obj : Command(o)
  \/ delete_vm_unlink \/ delete_vm_free \/ delete_vm_clear
  \/ \E i \in Slots : attach_vm(i)
  \/ \E v \in Vcpu : Trap(v) \/ shutdown_continues(v) \/ ptimer_fires(v)
  \/ irq_to_guest \/ shell_input \/ shell_waits \/ tick \/ idle_reclaims

Spec == Init /\ [][Next]_vars

-----------------------------------------------------------------------------
(* Every variable keeps its C type, and the two indices name a slot or none *)
(* until create_vm, after failed creations, writes behind rt_hyp.vms.       *)
TypeOK ==
  /\ total_vm \in 0 .. MAX_VM_NUM /\ vm_bitmap \subseteq Bits
  /\ vms \in [Slots -> Obj \cup {NULL}]
  /\ curr_vm_idx \in 0 .. 255 /\ curr_vc_idx \in 0 .. 255
  /\ host # "out_of_bounds" => {curr_vm_idx, curr_vc_idx} \subseteq 0 .. MAX_VM_NUM
  /\ vmStatus \in [Obj -> VmStatus \cup {"NONE"}]
  /\ nr_vcpus \in [Obj -> 0 .. MAX_VCPU]
  /\ vcpus \in [Obj -> {"null", "junk", "ok", "freed"}]
  /\ gic \subseteq Obj /\ enable \subseteq Obj /\ hw \subseteq Obj /\ open \subseteq Obj
  /\ vcpuStatus \in [Vcpu -> VmStatus \cup {"NONE"}]
  /\ ptimer \subseteq Vcpu /\ parked \subseteq Vcpu
  /\ thr \in [Vcpu -> ThreadStat]
  /\ curr \in Vcpu \cup {Shell, Idle}
  /\ sh \in {"wait", "ready", "unlink", "free", "clear"}
  /\ del \in (Slots \X Obj) \cup {NULL}
  /\ host \in Stopped \cup {"ok"}

-----------------------------------------------------------------------------
(* Properties of the code as it is.                                        *)

(* create_vm hands out a slot by its bit, so a slot in use must have its   *)
(* bit set at every moment, in the middle of delete_vm too: otherwise the  *)
(* next create_vm overwrites the pointer of a VM that still runs.          *)
SlotsMarked == \A i \in Live : i \in vm_bitmap

(* vcpu_get_irq_owner, called in interrupt context between any two steps   *)
(* of delete_vm, walks rt_hyp.vms: no VM it can reach has been freed.      *)
LinkedNotFreed == \A i \in Live : vcpus[vms[i]] # "freed"

(* vcpu->status and the kernel's state of vcpu->tid are kept apart and     *)
(* written by different paths (shell, trap, interrupt, timer); while the   *)
(* host runs they agree: a thread the scheduler may pick belongs to an     *)
(* online vCPU, and an online or suspended vCPU's thread is that, or dead. *)
StatusMatchesThread ==
  host = "ok" => \A v \in Vcpu :
    /\ thr[v] = "READY" => vcpuStatus[v] = "ONLINE"
    /\ vcpuStatus[v] = "ONLINE" => thr[v] \in {"READY", "CLOSE", "freed"}
    /\ vcpuStatus[v] = "SUSPEND" => thr[v] \in {"SUSPEND", "CLOSE", "freed"}

(* No interrupt, timer or command makes the thread of a deleted VM         *)
(* runnable again: a runnable vCPU's VM is still in its slot.              *)
RunnableIsLinked ==
  \A v \in Vcpu : thr[v] = "READY" => \E i \in Live : vms[i] = v[1]

(* Only the VM curr_vc_idx names has its vConsole open, across attach,     *)
(* quit, deletion and reuse of the slot: one guest at a time has the UART. *)
(* The write of create_vm behind rt_hyp.vms hits curr_vc_idx and ends it.  *)
OneConsole ==
  host # "out_of_bounds" => \A i \in Live : vms[i] \in open => curr_vc_idx = i

(* A thread deleted by halt_vm or delete_vm never runs again, whichever of *)
(* run_vm, an interrupt or a timer calls vcpu_go on it afterwards.         *)
DeadThreads == {v \in Vcpu : thr[v] \in {"CLOSE", "freed"}}
DeadStaysDead == [][DeadThreads \subseteq DeadThreads']_vars

(* The slot table with what keeps it right: distinct slots hold distinct   *)
(* VMs, all created; delete_vm has its slot to itself until it clears the  *)
(* bit, and what it frees is no longer linked. Inductive.                  *)
SlotInv ==
  /\ SlotsMarked
  /\ LinkedNotFreed
  /\ \A i \in Live : vms[i] < total_vm
  /\ \A i, j \in Live : vms[i] = vms[j] => i = j
  /\ \A o \in Obj : o >= total_vm => vcpus[o] # "freed"
  /\ sh = "unlink" => del \in Slots \X Obj /\ vms[del[1]] = del[2]
  /\ sh \in {"free", "clear"} =>
       /\ del \in Slots \X Obj /\ vms[del[1]] = NULL /\ del[2] < total_vm
       /\ \A i \in Live : vms[i] # del[2]

(* The console with what keeps it right: only a VM that was created and    *)
(* has a vConsole is open, and a VM that is online has one.  Inductive     *)
(* with SlotInv.                                                           *)
ConsoleInv ==
  /\ OneConsole
  /\ \A o \in open : o < total_vm /\ o \in gic
  /\ \A o \in Obj : vcpus[o] = "ok" => o \in gic
  /\ host = "ok" => \A o \in Obj : vmStatus[o] = "ONLINE" => o \in gic

-----------------------------------------------------------------------------
(* What the repository says of the program and the program does not do.    *)

(* run_vm of a stopped VM "open[s] this vm and schedule[s] vcpus"          *)
(* (hypervisor.c): an online VM whose vCPU 0 is online is scheduled.       *)
OnlineIsScheduled ==
  \A i \in Live : LET v == <<vms[i], 0>> IN
    vmStatus[vms[i]] = "ONLINE" /\ vcpuStatus[v] = "ONLINE" => thr[v] = "READY"
=============================================================================
