------------------------- MODULE VmLifecycleProofs -------------------------
(***************************************************************************)
(* Theorems about VmLifecycle, for every number of slots, bits, vCPUs and   *)
(* every build (RT_DEBUG, HCR_TWI).                                         *)
(***************************************************************************)
EXTENDS VmLifecycle, TLAPS

(* The scheduler picks a vCPU thread, the shell or the idle thread.         *)
LEMMA ScheduledType ==
  ASSUME NEW t, NEW s
  PROVE  Scheduled(t, s) \subseteq Vcpu \cup {Shell, Idle}
BY DEF Scheduled

(* vcpu_go keeps the types of what it writes.                               *)
LEMMA VcpuGoType ==
  ASSUME TypeOK, NEW v \in Vcpu, vcpu_go(v)
  PROVE  /\ vcpuStatus' \in [Vcpu -> VmStatus \cup {"NONE"}]
         /\ thr' \in [Vcpu -> ThreadStat]
         /\ curr' \in Vcpu \cup {Shell, Idle}
         /\ host' \in Stopped \cup {"ok"}
<1>1. CASE vcpuStatus[v] = "ONLINE" /\ rt_schedule(thr) /\ UNCHANGED <<vcpuStatus, thr, host>>
  BY <1>1, ScheduledType DEF TypeOK, rt_schedule
<1>2. CASE /\ vcpuStatus' = [vcpuStatus EXCEPT ![v] = "ONLINE"]
           /\ rt_thread_startup(v) \/ rt_thread_resume(v)
  <2>1. vcpuStatus' \in [Vcpu -> VmStatus \cup {"NONE"}]
    BY <1>2 DEF TypeOK, VmStatus
  <2>2. CASE Stop(FreedThread) \/ Stop("assert_init")
    BY <2>1, <2>2 DEF TypeOK, Stop, FreedThread, Stopped, kernVars
  <2>3. CASE /\ \/ thr' = [thr EXCEPT ![v] = "READY"]
                \/ thr' = [thr EXCEPT ![v] = IF @ = "SUSPEND" THEN "READY" ELSE @]
             /\ rt_schedule(thr')
             /\ UNCHANGED host
    <3>1. thr' \in [Vcpu -> ThreadStat]
      BY <2>3 DEF TypeOK, ThreadStat
    <3>2. QED
      BY <3>1, <2>1, <2>3, ScheduledType DEF TypeOK, rt_schedule
  <2>4. QED
    BY <1>2, <2>2, <2>3 DEF rt_thread_startup, rt_thread_resume
<1>3. CASE UNCHANGED <<vcpuStatus, kernVars, host>>
  BY <1>3 DEF TypeOK, kernVars
<1>4. QED
  BY <1>1, <1>2, <1>3 DEF vcpu_go

(* Slots and bits fit the indices' type.                                    *)
LEMMA IndexRange ==
  /\ Slots \subseteq 0 .. 255 /\ Bits \subseteq 0 .. 255 /\ MAX_VM_NUM \in 0 .. 255
  /\ Slots \subseteq 0 .. MAX_VM_NUM /\ MAX_VM_NUM \in 0 .. MAX_VM_NUM
  BY VmConstants DEF Slots, Bits

(* Nothing happens once the host has stopped.                               *)
LEMMA HostOk ==
  ASSUME Next
  PROVE  host = "ok"
<1>1. CASE create_vm \/ create_vm_fails \/ pick_vm
  BY <1>1 DEF create_vm, create_vm_fails, pick_vm, AtPrompt
<1>2. ASSUME NEW o \in Obj, Command(o) PROVE host = "ok"
  BY <1>2 DEF Command, run_vm_again, vm_init_fails_early, vm_init_fails_late, run_vm_first,
              run_vm_no_gic, pause_vm, halt_vm, delete_vm_halt, Picked, AtPrompt
<1>3. CASE delete_vm_unlink \/ delete_vm_free \/ delete_vm_clear
  BY <1>3 DEF delete_vm_unlink, delete_vm_free, delete_vm_clear
<1>4. ASSUME NEW i \in Slots, attach_vm(i) PROVE host = "ok"
  BY <1>4 DEF attach_vm, AtPrompt
<1>5. ASSUME NEW v \in Vcpu, Trap(v) \/ shutdown_continues(v) \/ ptimer_fires(v)
      PROVE  host = "ok"
  BY <1>5 DEF Trap, guest_enables, guest_disables, guest_quits_console, guest_sets_ptimer,
              guest_wfx, guest_faults, Guest, shutdown_continues, ptimer_fires
<1>6. CASE irq_to_guest \/ shell_input \/ shell_waits \/ tick \/ idle_reclaims
  BY <1>6 DEF irq_to_guest, shell_input, shell_waits, AtPrompt, tick, idle_reclaims
<1>7. QED
  BY <1>1, <1>2, <1>3, <1>4, <1>5, <1>6 DEF Next

(* Every action keeps every variable's type.                                *)
LEMMA TypeStep == TypeOK /\ [Next]_vars => TypeOK'
<1>16. ASSUME TypeOK, UNCHANGED vars PROVE TypeOK'
  BY <1>16 DEF vars, hypVars, vmVars, conVars, vcpuVars, kernVars, TypeOK
<1> SUFFICES ASSUME TypeOK, Next, host = "ok" PROVE TypeOK'
  BY <1>16, HostOk
<1> USE DEF hypVars, vmVars, conVars, vcpuVars, kernVars
<1>1. CASE create_vm
  <2>1. PICK i \in Bits, n \in OsVcpus :
          /\ TakeBit(i)
          /\ vmStatus' = [vmStatus EXCEPT ![total_vm] = "NEVER_RUN"]
          /\ nr_vcpus' = [nr_vcpus EXCEPT ![total_vm] = n]
          /\ curr_vm_idx' = i
          /\ vms' = IF i \in Slots THEN [vms EXCEPT ![i] = total_vm] ELSE vms
          /\ host' = IF i \in Slots THEN "ok" ELSE "out_of_bounds"
          /\ i \in Slots => curr_vc_idx' = curr_vc_idx
          /\ curr_vc_idx' \in {curr_vc_idx} \cup PtrBytes
    BY <1>1 DEF create_vm
  <2>2. total_vm \in Obj /\ total_vm' \in 0 .. MAX_VM_NUM /\ vm_bitmap' \subseteq Bits
    BY <1>1, <2>1, VmConstants DEF create_vm, TakeBit, TypeOK, Obj
  <2>3. nr_vcpus' \in [Obj -> 0 .. MAX_VCPU] /\ vmStatus' \in [Obj -> VmStatus \cup {"NONE"}]
    BY <2>1, <2>2, VmConstants DEF TypeOK, VmStatus
  <2>4. vms' \in [Slots -> Obj \cup {NULL}]
    BY <2>1, <2>2, VmConstants DEF TypeOK, Slots
  <2>5. curr_vm_idx' \in 0 .. 255 /\ curr_vc_idx' \in 0 .. 255
    <3>1. i \in 0 .. 255
      BY IndexRange
    <3>2. curr_vc_idx \in 0 .. 255
      BY DEF TypeOK
    <3>3. PtrBytes \subseteq 0 .. 255
      BY VmConstants
    <3> QED BY <2>1, <3>1, <3>2, <3>3
  <2>6. host' # "out_of_bounds" => {curr_vm_idx', curr_vc_idx'} \subseteq 0 .. MAX_VM_NUM
    BY <1>1, <2>1, VmConstants DEF create_vm, AtPrompt, TypeOK, Slots
  <2>7. QED
    BY <1>1, <2>1, <2>2, <2>3, <2>4, <2>5, <2>6 DEF create_vm, TypeOK, Stopped
<1>2. CASE create_vm_fails
  BY <1>2 DEF create_vm_fails, TakeBit, TypeOK, Stopped
<1>3. CASE pick_vm
  <2>1. /\ curr_vm_idx' \in 0 .. 255 /\ curr_vm_idx' \in 0 .. MAX_VM_NUM
        /\ curr_vc_idx' = curr_vc_idx
    BY <1>3, IndexRange DEF pick_vm
  <2>2. QED
    BY <1>3, <2>1 DEF pick_vm, TypeOK
<1>4. CASE delete_vm_unlink
  BY <1>4 DEF delete_vm_unlink, TypeOK
<1>5. CASE delete_vm_free
  BY <1>5 DEF delete_vm_free, TypeOK
<1>6. CASE delete_vm_clear
  BY <1>6 DEF delete_vm_clear, TypeOK
<1>7. CASE irq_to_guest
  <2>1. PICK o \in Obj : vcpu_go(<<o, 0>>)
    BY <1>7 DEF irq_to_guest
  <2>2. <<o, 0>> \in Vcpu
    BY VmConstants DEF Vcpu
  <2>3. QED
    BY <1>7, <2>1, <2>2, VcpuGoType DEF irq_to_guest, TypeOK
<1>8. CASE shell_input \/ shell_waits
  BY <1>8, ScheduledType DEF shell_input, shell_waits, TypeOK
<1>9. CASE tick
  BY <1>9, ScheduledType DEF tick, rt_schedule, TypeOK
<1>10. CASE idle_reclaims
  BY <1>10 DEF idle_reclaims, TypeOK, ThreadStat
<1>11. ASSUME NEW o \in Obj, Command(o) PROVE TypeOK'
  <2>0. <<o, 0>> \in Vcpu
    BY VmConstants DEF Vcpu
  <2>1. CASE run_vm_again(o)
    <3>1. CASE vcpus[o] = "ok" /\ vcpu_go(<<o, 0>>)
      BY <2>0, <2>1, <3>1, VcpuGoType DEF run_vm_again, TypeOK, VmStatus
    <3>2. CASE Stop(ArrayFault(o)) /\ UNCHANGED vcpuStatus
      BY <2>1, <3>2 DEF run_vm_again, TypeOK, VmStatus, Stop, ArrayFault, Stopped
    <3>3. QED
      BY <2>1, <3>1, <3>2 DEF run_vm_again, vm_go
  <2>2. CASE vm_init_fails_early(o)
    BY <2>2 DEF vm_init_fails_early, TypeOK, Stopped
  <2>3. CASE vm_init_fails_late(o)
    BY <2>3 DEF vm_init_fails_late, TypeOK, VmStatus, ThreadStat
  <2>4. CASE run_vm_first(o)
    BY <2>4, ScheduledType DEF run_vm_first, rt_schedule, TypeOK, VmStatus, ThreadStat
  <2>5. CASE run_vm_no_gic(o)
    BY <2>5 DEF run_vm_no_gic, Stop, TypeOK, Stopped
  <2>6. CASE pause_vm(o)
    BY <2>6 DEF pause_vm, Stop, ArrayFault, TypeOK, Stopped, VmStatus, ThreadStat
  <2>7. CASE vm_shutdown(o) /\ (halt_vm(o) \/ delete_vm_halt(o))
    BY <2>7 DEF vm_shutdown, halt_vm, delete_vm_halt, Picked, Stop, ArrayFault, FreedThread, TypeOK,
                Stopped, VmStatus, ThreadStat
  <2>8. QED
    BY <1>11, <2>1, <2>2, <2>3, <2>4, <2>5, <2>6, <2>7 DEF Command, halt_vm, delete_vm_halt
<1>12. ASSUME NEW i \in Slots, attach_vm(i) PROVE TypeOK'
  <2>0. vms[i] \in Obj /\ i \in 0 .. 255 /\ i \in 0 .. MAX_VM_NUM
    BY <1>12, IndexRange DEF attach_vm, TypeOK
  <2>1. CASE Stop("null") /\ UNCHANGED conVars
    BY <1>12, <2>1 DEF attach_vm, Stop, TypeOK, Stopped
  <2>2. CASE ~ (Stop("null") /\ UNCHANGED conVars)
    <3>1. /\ open' = (open \ {CurrVc}) \cup {vms[i]} /\ curr_vc_idx' = i
          /\ hw' \subseteq hw \cup {vms[i]}
          /\ UNCHANGED <<enable, kernVars, host>>
      BY <1>12, <2>2 DEF attach_vm, HwWithout
    <3>2. open' \subseteq Obj /\ hw' \subseteq Obj
      BY <2>0, <3>1 DEF TypeOK
    <3>3. /\ curr_vm_idx' = curr_vm_idx /\ curr_vc_idx' \in 0 .. 255 /\ host' = "ok"
          /\ {curr_vm_idx', curr_vc_idx'} \subseteq 0 .. MAX_VM_NUM
      BY <1>12, <2>0, <3>1 DEF attach_vm, TypeOK
    <3> QED BY <1>12, <3>1, <3>2, <3>3 DEF attach_vm, TypeOK
  <2> QED BY <2>1, <2>2
<1>13. ASSUME NEW v \in Vcpu, Trap(v) PROVE TypeOK'
  <2>0. v[1] \in Obj
    BY DEF Vcpu
  <2>1. CASE guest_enables(v) \/ guest_disables(v)
    BY <2>0, <2>1 DEF guest_enables, guest_disables, TypeOK
  <2>2. CASE guest_quits_console(v)
    BY <2>2, VmConstants DEF guest_quits_console, HwWithout, TypeOK, Stopped
  <2>3. CASE guest_sets_ptimer(v)
    BY <2>3 DEF guest_sets_ptimer, TypeOK
  <2>4. CASE guest_wfx(v)
    BY <2>4, ScheduledType DEF guest_wfx, rt_schedule, TypeOK, VmStatus, ThreadStat
  <2>5. CASE guest_faults(v)
    BY <2>5, ScheduledType DEF guest_faults, rt_schedule, TypeOK, VmStatus, ThreadStat
  <2>6. QED
    BY <1>13, <2>1, <2>2, <2>3, <2>4, <2>5 DEF Trap
<1>14. ASSUME NEW v \in Vcpu, shutdown_continues(v) PROVE TypeOK'
  BY <1>14 DEF shutdown_continues, TypeOK, VmStatus, ThreadStat
<1>15. ASSUME NEW v \in Vcpu, ptimer_fires(v) PROVE TypeOK'
  <2>1. CASE vcpu_go(v)
    BY <1>15, <2>1, VcpuGoType DEF ptimer_fires, TypeOK
  <2>2. CASE Stop("uaf") /\ UNCHANGED vcpuStatus
    BY <1>15, <2>2 DEF ptimer_fires, Stop, TypeOK, Stopped
  <2>3. QED
    BY <1>15, <2>1, <2>2 DEF ptimer_fires
<1>17. QED
  BY <1>1, <1>2, <1>3, <1>4, <1>5, <1>6, <1>7, <1>8, <1>9, <1>10, <1>11, <1>12,
     <1>13, <1>14, <1>15 DEF Next

(* Type correctness: no command, trap, interrupt or timer takes a status    *)
(* out of its enumeration, and none but the create_vm that writes behind    *)
(* rt_hyp.vms leaves an index that names neither a slot nor none.           *)
THEOREM TypeCorrect == Spec => []TypeOK
<1>1. Init => TypeOK
  BY VmConstants DEF Init, TypeOK, ThreadStat
<1>2. QED
  BY <1>1, TypeStep, PTL DEF Spec

-----------------------------------------------------------------------------
(* A step that leaves the slot table, the bitmap and delete_vm alone, and   *)
(* frees nothing, keeps the slot invariant.                                 *)
LEMMA SlotFrame ==
  ASSUME TypeOK, SlotInv,
         UNCHANGED <<total_vm, vms, vm_bitmap, del>>,
         \A o \in Obj : vcpus'[o] = "freed" => vcpus[o] = "freed",
         sh' = sh \/ sh' \in {"wait", "ready"}
  PROVE  SlotInv'
BY DEF TypeOK, SlotInv, SlotsMarked, LinkedNotFreed, Live

LEMMA SlotStep == TypeOK /\ SlotInv /\ [Next]_vars => SlotInv'
<1> SUFFICES ASSUME TypeOK, SlotInv, [Next]_vars PROVE SlotInv'
  OBVIOUS
<1> USE DEF hypVars, vmVars, conVars, vcpuVars, kernVars
<1>1. CASE create_vm
  <2>1. PICK i \in Bits :
          /\ TakeBit(i)
          /\ vms' = IF i \in Slots THEN [vms EXCEPT ![i] = total_vm] ELSE vms
    BY <1>1 DEF create_vm
  <2>2. /\ total_vm' = total_vm + 1 /\ total_vm \in Nat /\ total_vm \in Obj
        /\ UNCHANGED <<vcpus, sh, del>> /\ sh = "ready"
    BY <1>1, <2>1, VmConstants DEF create_vm, TakeBit, AtPrompt, TypeOK, Obj
  <2>3. i \notin vm_bitmap /\ vm_bitmap' = vm_bitmap \cup {i}
    BY <2>1 DEF TakeBit
  <2>4. \A j \in Slots : vms'[j] = IF j = i THEN total_vm ELSE vms[j]
    BY <2>1 DEF TypeOK
  <2>5. Live' \subseteq Live \cup {i}
    BY <2>4 DEF Live
  <2>6. \A j \in Live : vms[j] \in Nat /\ vms[j] < total_vm
    BY DEF SlotInv, Live, TypeOK, Obj
  <2>7. SlotsMarked'
    BY <2>3, <2>5 DEF SlotInv, SlotsMarked
  <2>8. LinkedNotFreed'
    <3>1. SUFFICES ASSUME NEW j \in Live' PROVE vcpus[vms'[j]] # "freed"
      BY <2>2 DEF LinkedNotFreed
    <3>2. j \in Slots
      BY DEF Live
    <3>3. CASE j = i
      BY <3>2, <3>3, <2>4, <2>2 DEF SlotInv
    <3>4. CASE j # i
      BY <3>2, <3>4, <2>4, <2>5 DEF SlotInv, LinkedNotFreed
    <3>5. QED
      BY <3>3, <3>4
  <2>9. \A j \in Live' : vms'[j] < total_vm'
    BY <2>2, <2>4, <2>5, <2>6 DEF Live
  <2>10. \A j, k \in Live' : vms'[j] = vms'[k] => j = k
    <3>1. SUFFICES ASSUME NEW j \in Live', NEW k \in Live', vms'[j] = vms'[k] PROVE j = k
      OBVIOUS
    <3>2. j \in Slots /\ k \in Slots
      BY DEF Live
    <3>3. CASE j # i /\ k # i
      BY <3>1, <3>2, <3>3, <2>4, <2>5 DEF SlotInv
    <3>4. CASE j = i /\ k # i
      BY <3>1, <3>2, <3>4, <2>4, <2>5, <2>6, <2>2
    <3>5. CASE j # i /\ k = i
      BY <3>1, <3>2, <3>5, <2>4, <2>5, <2>6, <2>2
    <3>6. QED
      BY <3>3, <3>4, <3>5
  <2>11. \A o \in Obj : o >= total_vm' => vcpus'[o] # "freed"
    BY <2>2 DEF SlotInv, Obj
  <2>12. QED
    BY <2>2, <2>7, <2>8, <2>9, <2>10, <2>11 DEF SlotInv
<1>2. CASE create_vm_fails
  BY <1>2 DEF create_vm_fails, AtPrompt, TakeBit, SlotInv, SlotsMarked, LinkedNotFreed, Live
<1>3. CASE delete_vm_unlink
  <2>1. del \in Slots \X Obj /\ vms[del[1]] = del[2] /\ del[1] \in Slots /\ del[2] \in Obj
    BY <1>3 DEF delete_vm_unlink, SlotInv
  <2>2. del[1] \in Live
    BY <2>1, VmNames DEF Live
  <2>3. \A j \in Slots : vms'[j] = IF j = del[1] THEN NULL ELSE vms[j]
    BY <1>3 DEF delete_vm_unlink, TypeOK
  <2>4. Live' = Live \ {del[1]}
    BY <2>3 DEF Live
  <2>5. \A j \in Live' : vms'[j] = vms[j] /\ vms[j] # del[2]
    BY <2>1, <2>2, <2>3, <2>4 DEF SlotInv, Live
  <2>6. UNCHANGED <<total_vm, vm_bitmap, vcpus, del>> /\ sh' = "free"
    BY <1>3 DEF delete_vm_unlink
  <2>7. SlotsMarked' /\ LinkedNotFreed'
    BY <2>4, <2>5, <2>6 DEF SlotInv, SlotsMarked, LinkedNotFreed
  <2>8. QED
    BY <2>1, <2>2, <2>3, <2>4, <2>5, <2>6, <2>7 DEF SlotInv
<1>4. CASE delete_vm_free
  <2>1. /\ UNCHANGED <<total_vm, vms, vm_bitmap, del>> /\ sh' = "clear"
        /\ vms[del[1]] = NULL /\ del \in Slots \X Obj /\ del[2] < total_vm
        /\ \A i \in Live : vms[i] # del[2]
    BY <1>4 DEF delete_vm_free, SlotInv
  <2>2. \A o \in Obj : o # del[2] => vcpus'[o] = vcpus[o]
    BY <1>4 DEF delete_vm_free, TypeOK
  <2>3. SlotsMarked' /\ LinkedNotFreed'
    BY <2>1, <2>2 DEF SlotInv, SlotsMarked, LinkedNotFreed, Live, TypeOK
  <2>4. \A o \in Obj : o >= total_vm' => vcpus'[o] # "freed"
    BY <2>1, <2>2 DEF SlotInv, TypeOK, Obj
  <2>5. QED
    BY <2>1, <2>3, <2>4 DEF SlotInv, Live
<1>5. CASE delete_vm_clear
  BY <1>5 DEF delete_vm_clear, SlotInv, SlotsMarked, LinkedNotFreed, Live
<1>6. ASSUME NEW o \in Obj, delete_vm_halt(o) PROVE SlotInv'
  <2>1. /\ UNCHANGED <<total_vm, vms, vm_bitmap, vcpus>>
        /\ sh = "ready" /\ curr_vm_idx \in Slots /\ vms[curr_vm_idx] = o
        /\ \/ UNCHANGED <<sh, del>>
           \/ sh' = "unlink" /\ del' = <<curr_vm_idx, o>>
    BY <1>6 DEF delete_vm_halt, Picked, AtPrompt
  <2>2. CASE UNCHANGED <<sh, del>>
    BY <2>1, <2>2, SlotFrame
  <2>3. CASE sh' = "unlink" /\ del' = <<curr_vm_idx, o>>
    BY <2>1, <2>3 DEF SlotInv, SlotsMarked, LinkedNotFreed, Live
  <2>4. QED
    BY <2>1, <2>2, <2>3
<1>7. ASSUME NEW o \in Obj, Command(o), ~delete_vm_halt(o) PROVE SlotInv'
  <2>1. UNCHANGED <<total_vm, vms, vm_bitmap, sh, del>>
    BY <1>7 DEF Command, run_vm_again, vm_init_fails_early, vm_init_fails_late, run_vm_first,
                run_vm_no_gic, pause_vm, halt_vm
  <2>2. vcpus' = vcpus \/ \E a \in {"null", "junk", "ok"} : vcpus' = [vcpus EXCEPT ![o] = a]
    BY <1>7 DEF Command, run_vm_again, vm_init_fails_early, vm_init_fails_late, run_vm_first,
                run_vm_no_gic, pause_vm, halt_vm
  <2>3. \A p \in Obj : vcpus'[p] = "freed" => vcpus[p] = "freed"
    BY <2>2 DEF TypeOK
  <2>4. QED
    BY <2>1, <2>3, SlotFrame
<1>8. CASE pick_vm \/ \E i \in Slots : attach_vm(i)
  BY <1>8, SlotFrame DEF pick_vm, attach_vm
<1>9. CASE \E v \in Vcpu : Trap(v) \/ shutdown_continues(v) \/ ptimer_fires(v)
  BY <1>9, SlotFrame DEF Trap, guest_enables, guest_disables, guest_quits_console,
       guest_sets_ptimer, guest_wfx, guest_faults, shutdown_continues, ptimer_fires
<1>10. CASE irq_to_guest \/ shell_input \/ shell_waits \/ tick \/ idle_reclaims
  BY <1>10, SlotFrame DEF irq_to_guest, shell_input, shell_waits, tick, idle_reclaims
<1>11. CASE UNCHANGED vars
  BY <1>11, SlotFrame DEF vars
<1>12. QED
  BY <1>1, <1>2, <1>3, <1>4, <1>5, <1>6, <1>7, <1>8, <1>9, <1>10, <1>11 DEF Next

(* The slot table: a slot in use is marked in the bitmap, and interrupt     *)
(* routing cannot reach a freed VM, at every step of create_vm and          *)
(* delete_vm.                                                               *)
THEOREM SlotTableCorrect == Spec => [](SlotsMarked /\ LinkedNotFreed)
<1>1. Init => SlotInv
  BY DEF Init, SlotInv, SlotsMarked, LinkedNotFreed, Live
<1>2. SlotInv => SlotsMarked /\ LinkedNotFreed
  BY DEF SlotInv
<1>3. QED
  BY <1>1, <1>2, SlotStep, TypeCorrect, PTL DEF Spec

-----------------------------------------------------------------------------
(* A step that leaves the console, the slot table and the vgics alone, and  *)
(* brings no VM online, keeps the console invariant.                        *)
LEMMA ConsoleFrame ==
  ASSUME TypeOK, ConsoleInv,
         UNCHANGED <<total_vm, vms, open, curr_vc_idx, gic, vcpus, vmStatus>>,
         host' = "ok" => host = "ok", host' # "out_of_bounds" => host # "out_of_bounds"
  PROVE  ConsoleInv'
BY DEF TypeOK, ConsoleInv, OneConsole, Live

LEMMA ConsoleStep == TypeOK /\ SlotInv /\ ConsoleInv /\ [Next]_vars => ConsoleInv'
<1>10. ASSUME TypeOK, ConsoleInv, UNCHANGED vars PROVE ConsoleInv'
  BY <1>10, ConsoleFrame DEF vars, hypVars, vmVars, conVars
<1> SUFFICES ASSUME TypeOK, SlotInv, ConsoleInv, Next, host = "ok" PROVE ConsoleInv'
  BY <1>10, HostOk
<1> USE DEF hypVars, vmVars, conVars, vcpuVars, kernVars
<1>1. CASE create_vm
  <2>1. PICK i \in Bits :
          /\ vmStatus' = [vmStatus EXCEPT ![total_vm] = "NEVER_RUN"]
          /\ vms' = IF i \in Slots THEN [vms EXCEPT ![i] = total_vm] ELSE vms
    BY <1>1 DEF create_vm
  <2>2. /\ UNCHANGED <<open, gic, vcpus>> /\ total_vm' = total_vm + 1 /\ host = "ok"
        /\ host' # "out_of_bounds" => curr_vc_idx' = curr_vc_idx
    BY <1>1 DEF create_vm, AtPrompt
  <2>3. total_vm \notin open
    BY DEF ConsoleInv, TypeOK
  <2>4. OneConsole'
    BY <2>1, <2>2, <2>3 DEF ConsoleInv, OneConsole, Live, TypeOK
  <2>5. \A o \in open : o < total_vm'
    BY <2>2 DEF ConsoleInv, TypeOK, Obj
  <2>6. \A o \in Obj : vmStatus'[o] = "ONLINE" => vmStatus[o] = "ONLINE"
    BY <2>1 DEF TypeOK
  <2>7. QED
    BY <2>2, <2>4, <2>5, <2>6 DEF ConsoleInv
<1>2. CASE delete_vm_unlink
  BY <1>2 DEF delete_vm_unlink, ConsoleInv, OneConsole, Live, TypeOK
<1>3. CASE delete_vm_free
  BY <1>3 DEF delete_vm_free, ConsoleInv, OneConsole, Live, TypeOK
<1>4. ASSUME NEW i \in Slots, attach_vm(i) PROVE ConsoleInv'
  <2>1. CASE Stop("null") /\ UNCHANGED conVars
    BY <1>4, <2>1, ConsoleFrame DEF attach_vm, Stop
  <2>2. CASE ~(Stop("null") /\ UNCHANGED conVars)
    <3>1. /\ curr_vc_idx # MAX_VM_NUM => vms[curr_vc_idx] # NULL
          /\ open' = (open \ {CurrVc}) \cup {vms[i]} /\ curr_vc_idx' = i
          /\ UNCHANGED <<total_vm, vms, gic, vcpus, vmStatus, host>>
          /\ host = "ok" /\ vms[i] # NULL /\ vmStatus[vms[i]] = "ONLINE"
      BY <1>4, <2>2 DEF attach_vm, AtPrompt
    <3>2. vms[i] \in Obj /\ vms[i] \in gic /\ vms[i] < total_vm /\ i \in Live
      BY <3>1 DEF ConsoleInv, SlotInv, TypeOK, Live
    <3>3. \A j \in Live : vms[j] \in open' => j = i
      <4>1. SUFFICES ASSUME NEW j \in Live, vms[j] \in open' PROVE j = i
        OBVIOUS
      <4>2. CASE vms[j] = vms[i]
        BY <3>2, <4>2 DEF SlotInv
      <4>3. CASE vms[j] # vms[i]
        <5>1. vms[j] \in open /\ vms[j] # CurrVc
          BY <3>1, <4>1, <4>3
        <5>2. curr_vc_idx = j /\ vms[j] \in gic /\ j \in Slots
          BY <5>1 DEF ConsoleInv, OneConsole, Live
        <5>3. j # MAX_VM_NUM
          BY <5>2, VmConstants DEF Slots
        <5>4. QED
          BY <5>1, <5>2, <5>3 DEF CurrVc
      <4>4. QED
        BY <4>2, <4>3
    <3>4. OneConsole'
      BY <3>1, <3>3 DEF OneConsole, Live
    <3>5. QED
      BY <3>1, <3>2, <3>4 DEF ConsoleInv
  <2>3. QED
    BY <2>1, <2>2
<1>5. ASSUME NEW v \in Vcpu, guest_quits_console(v) PROVE ConsoleInv'
  <2>1. CASE UNCHANGED conVars
    BY <1>5, <2>1, ConsoleFrame DEF guest_quits_console, Guest
  <2>2. CASE ~UNCHANGED conVars
    <3>1. /\ open' = open \ {CurrVc} /\ CurrVc # NULL
          /\ UNCHANGED <<total_vm, vms, gic, vcpus, vmStatus, host>>
      BY <1>5, <2>2 DEF guest_quits_console
    <3>2. \A j \in Live : vms[j] \notin open'
      BY <3>1, VmConstants DEF ConsoleInv, OneConsole, CurrVc, Live
    <3>3. QED
      BY <3>1, <3>2 DEF ConsoleInv, OneConsole, Live
  <2>3. QED
    BY <2>1, <2>2
<1>6. ASSUME NEW o \in Obj, Command(o) PROVE ConsoleInv'
  <2>1. CASE run_vm_again(o)
    <3>1. UNCHANGED <<total_vm, vms, open, curr_vc_idx, gic, vcpus>> /\ host = "ok"
      BY <2>1 DEF run_vm_again, Picked, AtPrompt
    <3>2. host' = "ok" => vcpus[o] = "ok"
      BY <2>1 DEF run_vm_again, vm_go, Stop, ArrayFault
    <3>3. \A p \in Obj : p # o => vmStatus'[p] = vmStatus[p]
      BY <2>1 DEF run_vm_again, TypeOK
    <3>4. host' = "ok" => \A p \in Obj : vmStatus'[p] = "ONLINE" => p \in gic
      BY <3>1, <3>2, <3>3 DEF ConsoleInv
    <3>5. QED
      BY <3>1, <3>4 DEF ConsoleInv, OneConsole, Live
  <2>2. CASE vm_init_fails_early(o)
    BY <2>2 DEF vm_init_fails_early, Picked, AtPrompt, ConsoleInv, OneConsole, Live, TypeOK
  <2>3. CASE vm_init_fails_late(o) \/ run_vm_first(o)
    BY <2>3 DEF vm_init_fails_late, run_vm_first, Picked, AtPrompt, ConsoleInv, OneConsole, Live,
                TypeOK
  <2>4. CASE run_vm_no_gic(o)
    BY <2>4, ConsoleFrame DEF run_vm_no_gic, Stop
  <2>5. CASE pause_vm(o) \/ halt_vm(o) \/ delete_vm_halt(o)
    <3>1. UNCHANGED <<total_vm, vms, open, curr_vc_idx, gic, vcpus>> /\ host = "ok"
      BY <2>5 DEF pause_vm, halt_vm, delete_vm_halt, Picked, AtPrompt
    <3>2. vmStatus' = vmStatus
          \/ \E a \in {"OFFLINE", "SUSPEND", "UNKNOWN", vmStatus[o]} :
               vmStatus' = [vmStatus EXCEPT ![o] = a]
      BY <2>5 DEF pause_vm, halt_vm, delete_vm_halt, vm_shutdown
    <3>3. \A p \in Obj : vmStatus'[p] = "ONLINE" => vmStatus[p] = "ONLINE"
      BY <3>2 DEF TypeOK
    <3>4. QED
      BY <3>1, <3>3 DEF ConsoleInv, OneConsole, Live
  <2>6. QED
    BY <1>6, <2>1, <2>2, <2>3, <2>4, <2>5 DEF Command
<1>7. CASE create_vm_fails \/ pick_vm \/ delete_vm_clear
  BY <1>7, ConsoleFrame DEF create_vm_fails, AtPrompt, pick_vm, delete_vm_clear
<1>8. ASSUME NEW v \in Vcpu,
             Trap(v) \/ shutdown_continues(v) \/ ptimer_fires(v), ~guest_quits_console(v)
      PROVE  ConsoleInv'
  BY <1>8, ConsoleFrame DEF Trap, Guest, guest_enables, guest_disables,
       guest_sets_ptimer, guest_wfx, guest_faults, shutdown_continues, ptimer_fires
<1>9. CASE irq_to_guest \/ shell_input \/ shell_waits \/ tick \/ idle_reclaims
  BY <1>9, ConsoleFrame DEF irq_to_guest, shell_input, shell_waits, AtPrompt, tick, idle_reclaims
<1>11. QED
  BY <1>1, <1>2, <1>3, <1>4, <1>5, <1>6, <1>7, <1>8, <1>9, <1>10 DEF Next

(* One console: whatever is attached, quit, deleted and created again, only *)
(* the VM curr_vc_idx names has its vConsole open.                          *)
THEOREM ConsoleExclusive == Spec => []OneConsole
<1>1. Init => SlotInv /\ ConsoleInv
  BY DEF Init, SlotInv, SlotsMarked, LinkedNotFreed, ConsoleInv, OneConsole, Live
<1>2. ConsoleInv => OneConsole
  BY DEF ConsoleInv
<1>3. QED
  BY <1>1, <1>2, SlotStep, ConsoleStep, TypeCorrect, PTL DEF Spec

-----------------------------------------------------------------------------
(* vCPUs and their threads, in a build with assertions.                     *)

Alive(v) == thr[v] \notin {"none", "CLOSE", "freed"}

(* Which states of the thread go with which status of the vCPU. UNKNOWN is  *)
(* never reached: the only way there is a thread that runs and is not       *)
(* online.                                                                  *)
Statuses == \A v \in Vcpu :
  /\ vcpuStatus[v] = "NONE" <=> thr[v] = "none"
  /\ vcpuStatus[v] = "NEVER_RUN" => thr[v] \in {"INIT", "CLOSE", "freed"}
  /\ vcpuStatus[v] = "ONLINE" => thr[v] \in {"READY", "CLOSE", "freed"}
  /\ vcpuStatus[v] \in {"SUSPEND", "OFFLINE"} => thr[v] \in {"SUSPEND", "CLOSE", "freed"}
  /\ vcpuStatus[v] # "UNKNOWN"

(* Only the nr_vcpus first vCPUs of a created VM have a thread.             *)
Numbered ==
  /\ \A v \in Vcpu : thr[v] # "none" => v[2] < nr_vcpus[v[1]]
  /\ \A o \in Obj : o >= total_vm => nr_vcpus[o] = 0

(* The threads of a VM that never ran have not started, and a vCPU whose    *)
(* timer is armed has.                                                      *)
NotYetRun == \A v \in Vcpu :
  /\ vmStatus[v[1]] \in {"NONE", "NEVER_RUN"} => thr[v] \in {"none", "INIT"}
  /\ v \in ptimer => thr[v] \notin {"none", "INIT"}

(* A thread that is not closed belongs to a VM in a slot.                   *)
AliveLinked == \A v \in Vcpu : Alive(v) => \E i \in Live : vms[i] = v[1]

(* A VM whose array of vCPUs is complete has all of their threads.          *)
Made == \A o \in Obj : vcpus[o] = "ok" =>
  o < total_vm /\ \A v \in Vcpu : v \in vcpusOf(o) => thr[v] # "none"

(* The thread on the core is ready; a vCPU inside vcpu_shutdown stays       *)
(* offline; delete_vm unlinks a VM whose threads are closed.                *)
CurrReady == curr \in Vcpu => thr[curr] = "READY"
ParkedOffline == \A v \in parked : vcpuStatus[v] = "OFFLINE"
UnlinksClosed == sh = "unlink" => \A v \in Vcpu : v[1] = del[2] => ~Alive(v)

(* A host that has stopped says nothing of its threads but where they are.  *)
LifeInv ==
  /\ AliveLinked
  /\ host = "ok" =>
       /\ Statuses /\ Numbered /\ NotYetRun /\ Made
       /\ CurrReady /\ ParkedOffline /\ UnlinksClosed

(* A vCPU thread that the scheduler picks is ready.                         *)
LEMMA ScheduledReady ==
  ASSUME NEW t, NEW s, NEW c \in Scheduled(t, s), c \in Vcpu
  PROVE  t[c] = "READY"
BY VmNames DEF Scheduled

(* A step that starts, ends and renames no thread keeps the invariant.      *)
LEMMA LifeFrame ==
  ASSUME TypeOK, LifeInv, host = "ok",
         UNCHANGED <<vms, total_vm, nr_vcpus, vmStatus, vcpuStatus, thr, parked>>,
         \A o \in Obj : vcpus'[o] = "ok" => vcpus[o] = "ok",
         \A v \in ptimer' : v \in ptimer \/ v = curr,
         host' = "ok" => \/ curr' = curr
                         \/ curr' \in {Shell, Idle} \/ curr' \in Scheduled(thr, sh'),
         sh' = "unlink" => sh = "unlink" /\ del' = del
  PROVE  LifeInv'
<1>1. AliveLinked'
  BY DEF LifeInv, AliveLinked, Alive, Live
<1>2. ASSUME host' = "ok" PROVE Statuses' /\ Numbered' /\ ParkedOffline' /\ UnlinksClosed'
  BY DEF LifeInv, Statuses, Numbered, ParkedOffline, UnlinksClosed, Alive
<1>3. ASSUME host' = "ok" PROVE CurrReady'
  BY <1>3, ScheduledReady, VmNames DEF LifeInv, CurrReady
<1>4. NotYetRun'
  BY DEF LifeInv, NotYetRun, CurrReady
<1>5. Made'
  BY DEF LifeInv, Made, vcpusOf
<1>6. QED
  BY <1>1, <1>2, <1>3, <1>4, <1>5 DEF LifeInv

(* vcpu_go either stops the host, or starts or resumes its thread at most,  *)
(* as the vCPU's status says; in a build with assertions it starts only a   *)
(* thread that never ran.                                                   *)
LEMMA VcpuGoLife ==
  ASSUME RT_DEBUG, TypeOK, LifeInv, host = "ok", NEW v \in Vcpu, vcpu_go(v),
         UNCHANGED parked
  PROVE  \/ host' # "ok" /\ UNCHANGED kernVars
         \/ /\ host' = "ok" /\ Statuses' /\ CurrReady' /\ ParkedOffline'
            /\ \A u \in Vcpu : u # v => thr'[u] = thr[u]
            /\ thr'[v] = thr[v] \/ (thr[v] \in {"INIT", "SUSPEND"} /\ thr'[v] = "READY")
<1>0. /\ thr \in [Vcpu -> ThreadStat] /\ vcpuStatus \in [Vcpu -> VmStatus \cup {"NONE"}]
      /\ Statuses /\ ParkedOffline /\ parked \subseteq Vcpu
  BY DEF LifeInv, TypeOK
<1>1. ASSUME rt_schedule(thr') PROVE CurrReady'
  BY <1>1, ScheduledReady DEF rt_schedule, CurrReady
<1>2. CASE vcpuStatus[v] = "ONLINE" /\ rt_schedule(thr) /\ UNCHANGED <<vcpuStatus, thr, host>>
  BY <1>0, <1>1, <1>2 DEF Statuses, ParkedOffline
<1>3. CASE /\ vcpuStatus[v] \in {"OFFLINE", "NEVER_RUN"}
           /\ vcpuStatus' = [vcpuStatus EXCEPT ![v] = "ONLINE"] /\ rt_thread_startup(v)
  <2>1. CASE Stop(FreedThread) \/ Stop("assert_init")
    BY <2>1 DEF Stop, FreedThread
  <2>2. CASE /\ thr[v] = "INIT" /\ thr' = [thr EXCEPT ![v] = "READY"]
             /\ rt_schedule(thr') /\ UNCHANGED host
    <3>1. v \notin parked
      BY <1>0, <2>2 DEF Statuses, ParkedOffline
    <3>2. Statuses' /\ ParkedOffline'
      BY <1>0, <1>3, <2>2, <3>1 DEF Statuses, ParkedOffline
    <3>3. QED
      BY <1>0, <1>1, <2>2, <3>2
  <2>3. QED
    BY <1>3, <2>1, <2>2 DEF rt_thread_startup
<1>4. CASE /\ vcpuStatus[v] = "SUSPEND"
           /\ vcpuStatus' = [vcpuStatus EXCEPT ![v] = "ONLINE"] /\ rt_thread_resume(v)
  <2>1. CASE Stop(FreedThread)
    BY <2>1 DEF Stop, FreedThread
  <2>2. CASE /\ thr' = [thr EXCEPT ![v] = IF @ = "SUSPEND" THEN "READY" ELSE @]
             /\ rt_schedule(thr') /\ UNCHANGED host
    <3>1. v \notin parked /\ thr[v] \in {"SUSPEND", "CLOSE", "freed"}
      BY <1>0, <1>4 DEF Statuses, ParkedOffline
    <3>2. /\ \A u \in Vcpu : u # v => thr'[u] = thr[u] /\ vcpuStatus'[u] = vcpuStatus[u]
          /\ thr'[v] = (IF thr[v] = "SUSPEND" THEN "READY" ELSE thr[v])
          /\ vcpuStatus'[v] = "ONLINE"
      BY <1>0, <1>4, <2>2
    <3>3. Statuses' /\ ParkedOffline'
      BY <1>0, <3>1, <3>2 DEF Statuses, ParkedOffline
    <3>4. QED
      BY <1>1, <2>2, <3>1, <3>2, <3>3
  <2>3. QED
    BY <1>4, <2>1, <2>2 DEF rt_thread_resume
<1>5. vcpuStatus[v] # "UNKNOWN"
  BY <1>0 DEF Statuses
<1>6. QED
  BY <1>2, <1>3, <1>4, <1>5 DEF vcpu_go

(* The three callers of vcpu_go: the shell, the interrupt and the timer.    *)
LEMMA GoKeepsLife ==
  ASSUME RT_DEBUG, TypeOK, LifeInv, host = "ok", NEW v \in Vcpu, vcpu_go(v),
         UNCHANGED <<vms, total_vm, nr_vcpus, vcpus, ptimer, parked, sh, del>>,
         \A o \in Obj : vmStatus'[o] \in {"NONE", "NEVER_RUN"} => vmStatus[o] = vmStatus'[o],
         thr[v] = "INIT" => vmStatus'[v[1]] \notin {"NONE", "NEVER_RUN"}
  PROVE  LifeInv' /\ \A u \in Vcpu : thr[u] \in {"CLOSE", "freed"} => thr'[u] = thr[u]
<1>1. CASE host' # "ok" /\ UNCHANGED kernVars
  BY <1>1 DEF kernVars, LifeInv, AliveLinked, Alive, Live
<1>2. CASE /\ host' = "ok" /\ Statuses' /\ CurrReady' /\ ParkedOffline'
           /\ \A u \in Vcpu : u # v => thr'[u] = thr[u]
           /\ thr'[v] = thr[v] \/ (thr[v] \in {"INIT", "SUSPEND"} /\ thr'[v] = "READY")
  <2>1. \A u \in Vcpu : \/ thr'[u] = thr[u]
                        \/ u = v /\ thr[v] \in {"INIT", "SUSPEND"} /\ thr'[u] = "READY"
    BY <1>2
  <2>2. \A u \in Vcpu : u[1] \in Obj
    BY DEF Vcpu
  <2>3. AliveLinked' /\ UnlinksClosed'
    BY <2>1 DEF LifeInv, AliveLinked, UnlinksClosed, Alive, Live
  <2>4. Numbered'
    BY <2>1 DEF LifeInv, Numbered
  <2>5. NotYetRun'
    BY <2>1, <2>2 DEF LifeInv, NotYetRun
  <2>6. Made'
    BY <2>1 DEF LifeInv, Made, vcpusOf
  <2>7. QED
    BY <1>2, <2>1, <2>3, <2>4, <2>5, <2>6 DEF LifeInv
<1>3. QED
  BY <1>1, <1>2, VcpuGoLife

(* vm_init makes the threads of a VM that never ran anew.                   *)
LEMMA InitKeepsLife ==
  ASSUME TypeOK, SlotInv, LifeInv, NEW o \in Obj, Picked(o), vmStatus[o] = "NEVER_RUN",
         vm_init_fails_late(o) \/ run_vm_first(o)
  PROVE  LifeInv' /\ \A u \in Vcpu : thr[u] \in {"CLOSE", "freed"} => thr'[u] = thr[u]
<1> USE DEF hypVars, conVars, Picked, AtPrompt
<1>1. /\ host = "ok" /\ host' = "ok" /\ sh = "ready" /\ curr_vm_idx \in Live
      /\ vms[curr_vm_idx] = o /\ curr = Shell
      /\ UNCHANGED <<vms, total_vm, nr_vcpus, ptimer, parked, sh, del>>
      /\ \A p \in Obj : vmStatus'[p] \in {"NONE", "NEVER_RUN"} => vmStatus'[p] = vmStatus[p]
  BY DEF vm_init_fails_late, run_vm_first, Live, TypeOK
<1>2. /\ \A v \in Vcpu : v \notin vcpusOf(o) => thr'[v] = thr[v] /\ vcpuStatus'[v] = vcpuStatus[v]
      /\ \A v \in vcpusOf(o) \cap Vcpu :
           \/ thr'[v] = "INIT" /\ vcpuStatus'[v] = "NEVER_RUN"
           \/ thr'[v] = "READY" /\ vcpuStatus'[v] = "ONLINE" /\ vmStatus'[o] = "ONLINE"
  BY DEF vm_init_fails_late, run_vm_first, TypeOK
<1>3. curr' = curr \/ rt_schedule(thr')
  BY DEF vm_init_fails_late, run_vm_first
<1>4. \A v \in Vcpu : v \in vcpusOf(o) <=> v[1] = o /\ v[2] < nr_vcpus[o]
  BY DEF vcpusOf, Vcpu, TypeOK
<1>5. \A v \in vcpusOf(o) \cap Vcpu : thr[v] \in {"none", "INIT"} /\ v \notin ptimer /\ v \notin parked
  BY <1>1, <1>4 DEF LifeInv, NotYetRun, ParkedOffline, Statuses
<1>6. Statuses' /\ ParkedOffline'
  BY <1>1, <1>2, <1>5 DEF LifeInv, Statuses, ParkedOffline, TypeOK
<1>7. AliveLinked'
  BY <1>1, <1>2, <1>4 DEF LifeInv, AliveLinked, Alive, Live
<1>8. Numbered'
  BY <1>1, <1>2, <1>4 DEF LifeInv, Numbered
<1>9. NotYetRun'
  <2>1. \A v \in Vcpu : v[1] \in Obj
    BY DEF Vcpu
  <2>2. QED
    BY <1>1, <1>2, <1>4, <1>5, <2>1 DEF LifeInv, NotYetRun
<1>10. CurrReady'
  BY <1>1, <1>3, ScheduledReady, VmNames DEF rt_schedule, CurrReady
<1>11. Made'
  <2>1. o < total_vm
    BY <1>1 DEF SlotInv
  <2>2. \A p \in Obj : p # o => vcpus'[p] = vcpus[p]
    BY DEF vm_init_fails_late, run_vm_first, TypeOK
  <2>3. \A p \in Obj : vcpusOf(p)' = vcpusOf(p)
    BY <1>1 DEF vcpusOf
  <2>4. ASSUME NEW p \in Obj, NEW v \in Vcpu, v \in vcpusOf(p), vcpus'[p] = "ok"
        PROVE  p < total_vm /\ thr'[v] # "none"
    BY <1>1, <1>2, <2>1, <2>2, <2>4 DEF LifeInv, Made
  <2>5. \A p \in Obj : vcpus'[p] = "ok" => p < total_vm
    BY <1>1, <2>1, <2>2 DEF LifeInv, Made
  <2>6. QED
    BY <1>1, <2>3, <2>4, <2>5 DEF Made
<1>12. QED
  BY <1>1, <1>2, <1>5, <1>6, <1>7, <1>8, <1>9, <1>10, <1>11 DEF LifeInv, UnlinksClosed

(* halt_vm and delete_vm close every thread of their VM.                    *)
LEMMA ShutdownKeepsLife ==
  ASSUME TypeOK, LifeInv, NEW o \in Obj, halt_vm(o) \/ delete_vm_halt(o)
  PROVE  LifeInv' /\ \A u \in Vcpu : thr[u] \in {"CLOSE", "freed"} => thr'[u] \in {"CLOSE", "freed"}
<1> USE DEF hypVars, conVars, vcpuVars, Picked, AtPrompt
<1>1. /\ host = "ok" /\ sh = "ready" /\ curr = Shell /\ vm_shutdown(o)
      /\ UNCHANGED <<vms, total_vm, nr_vcpus, vcpus, vcpuStatus, ptimer, parked>>
      /\ sh' = "unlink" => del' = <<curr_vm_idx, o>>
  BY DEF halt_vm, delete_vm_halt
<1>2. CASE host' # "ok" /\ UNCHANGED kernVars
  BY <1>1, <1>2 DEF kernVars, LifeInv, AliveLinked, Alive, Live
<1>3. CASE /\ nr_vcpus[o] > 0 => vcpus[o] = "ok"
           /\ vmStatus' = [vmStatus EXCEPT ![o] = "OFFLINE"]
           /\ thr' = [v \in Vcpu |-> IF v \in vcpusOf(o) THEN "CLOSE" ELSE thr[v]]
           /\ UNCHANGED <<curr, host>>
  <2>1. \A v \in Vcpu : v[1] \in Obj /\ (v \in vcpusOf(o) <=> v[1] = o /\ v[2] < nr_vcpus[o])
    BY DEF vcpusOf, Vcpu, TypeOK
  <2>2. \A v \in Vcpu : v[1] = o => thr'[v] \in {"none", "CLOSE"}
    BY <1>1, <1>3, <2>1 DEF LifeInv, Numbered
  <2>3. ASSUME NEW v \in Vcpu, v \in vcpusOf(o) PROVE thr[v] # "none"
    <3>1. nr_vcpus[o] > 0
      BY <2>1, <2>3 DEF Vcpu, TypeOK
    <3>2. QED
      BY <1>1, <1>3, <2>3, <3>1 DEF LifeInv, Made
  <2>4. \A v \in Vcpu : \/ thr'[v] = thr[v]
                        \/ v[1] = o /\ v[2] < nr_vcpus[o] /\ thr[v] # "none" /\ thr'[v] = "CLOSE"
    BY <1>3, <2>1, <2>3
  <2>5. AliveLinked'
    BY <1>1, <2>4 DEF LifeInv, AliveLinked, Alive, Live
  <2>6. Statuses' /\ ParkedOffline'
    BY <1>1, <2>4 DEF LifeInv, Statuses, ParkedOffline
  <2>7. Numbered' /\ Made'
    BY <1>1, <2>4 DEF LifeInv, Numbered, Made, vcpusOf
  <2>8. NotYetRun'
    <3>1. \A p \in Obj : vmStatus'[p] \in {"NONE", "NEVER_RUN"} => p # o /\ vmStatus'[p] = vmStatus[p]
      BY <1>3 DEF TypeOK
    <3>2. QED
      BY <1>1, <2>1, <2>4, <3>1 DEF LifeInv, NotYetRun
  <2>9. CurrReady' /\ UnlinksClosed'
    BY <1>1, <1>3, <2>2, VmNames DEF CurrReady, UnlinksClosed, Alive
  <2>10. QED
    BY <2>4, <2>5, <2>6, <2>7, <2>8, <2>9 DEF LifeInv
<1>4. QED
  BY <1>1, <1>2, <1>3 DEF vm_shutdown, Stop, ArrayFault, FreedThread

(* pause_vm stops the host, or marks a VM without vCPUs.                    *)
LEMMA PauseKeepsLife ==
  ASSUME RT_DEBUG, TypeOK, LifeInv, NEW o \in Obj, pause_vm(o)
  PROVE  LifeInv' /\ \A u \in Vcpu : thr'[u] = thr[u]
<1> USE DEF hypVars, conVars, vcpuVars, kernVars, Picked, AtPrompt
<1>1. /\ host = "ok" /\ sh = "ready" /\ curr = Shell
      /\ UNCHANGED <<vms, total_vm, nr_vcpus, vcpus, vcpuStatus, ptimer, parked, sh, del>>
  BY DEF pause_vm
<1>2. CASE host' # "ok" /\ UNCHANGED kernVars
  BY <1>1, <1>2 DEF LifeInv, AliveLinked, Alive, Live
<1>3. CASE /\ nr_vcpus[o] = 0 /\ UNCHANGED <<thr, curr, host>>
           /\ \/ vmStatus' = [vmStatus EXCEPT ![o] = "SUSPEND"]
              \/ vmStatus' = [vmStatus EXCEPT ![o] = "UNKNOWN"]
  <2>1. \A p \in Obj : vmStatus'[p] \in {"NONE", "NEVER_RUN"} => vmStatus'[p] = vmStatus[p]
    BY <1>3 DEF TypeOK
  <2>2. \A v \in Vcpu : v[1] \in Obj
    BY DEF Vcpu
  <2>3. NotYetRun'
    BY <1>1, <1>3, <2>1, <2>2 DEF LifeInv, NotYetRun
  <2>4. AliveLinked' /\ Statuses' /\ Numbered' /\ CurrReady' /\ ParkedOffline' /\ UnlinksClosed'
    BY <1>1, <1>3 DEF LifeInv, AliveLinked, Statuses, Numbered, CurrReady, ParkedOffline,
                      UnlinksClosed, Alive, Live
  <2>5. Made'
    BY <1>1, <1>3 DEF LifeInv, Made, vcpusOf
  <2>6. QED
    BY <1>3, <2>3, <2>4, <2>5 DEF LifeInv
<1>4. ASSUME ~(nr_vcpus[o] > 0), thr' = [v \in Vcpu |->
               IF v[1] = o /\ v[2] \in {c \in 0 .. nr_vcpus[o] - 1 :
                    \A b \in {d \in 0 .. nr_vcpus[o] - 1 : thr[<<o, d>>] # "READY"} : c < b}
               THEN "SUSPEND" ELSE thr[v]]
      PROVE  nr_vcpus[o] = 0 /\ thr' = thr
  <2>1. nr_vcpus[o] = 0 /\ thr = [v \in Vcpu |-> thr[v]]
    BY <1>4 DEF TypeOK
  <2>2. 0 .. nr_vcpus[o] - 1 = {}
    BY <2>1
  <2>3. QED
    BY <1>4, <2>1, <2>2
<1>5. QED
  BY <1>1, <1>2, <1>3, <1>4 DEF pause_vm, Stop, ArrayFault

(* create_vm fills an empty slot with a VM that has no threads.             *)
LEMMA CreateKeepsLife ==
  ASSUME TypeOK, SlotInv, LifeInv, create_vm
  PROVE  LifeInv' /\ \A u \in Vcpu : thr'[u] = thr[u]
<1> USE DEF conVars, vcpuVars, kernVars, AtPrompt
<1>1. PICK i \in Bits, n \in OsVcpus :
        /\ TakeBit(i)
        /\ vmStatus' = [vmStatus EXCEPT ![total_vm] = "NEVER_RUN"]
        /\ nr_vcpus' = [nr_vcpus EXCEPT ![total_vm] = n]
        /\ vms' = IF i \in Slots THEN [vms EXCEPT ![i] = total_vm] ELSE vms
        /\ host' = IF i \in Slots THEN "ok" ELSE "out_of_bounds"
  BY DEF create_vm
<1>2. /\ host = "ok" /\ sh = "ready" /\ sh' = sh /\ total_vm' = total_vm + 1
      /\ UNCHANGED <<vcpus, vcpuStatus, ptimer, parked, thr, curr, del>>
  BY DEF create_vm
<1>3. total_vm \in Obj /\ n \in Nat
  BY <1>1, VmConstants DEF TakeBit, TypeOK, Obj
<1>4. \A v \in Vcpu : v[1] \in Obj /\ v[2] \in Nat
  BY DEF Vcpu
<1>5. \A v \in Vcpu : v[1] = total_vm => thr[v] = "none"
  BY <1>2, <1>3, <1>4 DEF LifeInv, Numbered, TypeOK
<1>6. AliveLinked'
  <2> SUFFICES ASSUME NEW v \in Vcpu, Alive(v)' PROVE (\E j \in Live : vms[j] = v[1])'
    BY DEF AliveLinked
  <2>1. PICK j \in Live : vms[j] = v[1]
    BY <1>2 DEF LifeInv, AliveLinked, Alive
  <2>2. j \in Slots /\ vms[j] # NULL /\ j \in vm_bitmap /\ j # i
    BY <1>1 DEF Live, SlotInv, SlotsMarked, TakeBit
  <2>3. vms'[j] = vms[j]
    BY <1>1, <2>2 DEF TypeOK
  <2>4. QED
    BY <2>1, <2>2, <2>3 DEF Live
<1>7. Statuses' /\ CurrReady' /\ ParkedOffline' /\ UnlinksClosed'
  BY <1>2 DEF LifeInv, Statuses, CurrReady, ParkedOffline, UnlinksClosed, Alive
<1>8. Numbered'
  BY <1>1, <1>2, <1>3, <1>4, <1>5 DEF LifeInv, Numbered, TypeOK, Obj
<1>9. NotYetRun'
  <2>1. \A p \in Obj : p # total_vm => vmStatus'[p] = vmStatus[p]
    BY <1>1 DEF TypeOK
  <2>2. QED
    BY <1>2, <1>4, <1>5, <2>1 DEF LifeInv, NotYetRun
<1>10. Made'
  <2> SUFFICES ASSUME NEW p \in Obj, vcpus[p] = "ok"
               PROVE  p < total_vm' /\ \A v \in Vcpu : v \in vcpusOf(p)' => thr[v] # "none"
    BY <1>2 DEF Made
  <2>1. p < total_vm /\ p \in Int /\ total_vm \in Int
    BY <1>2, <1>3 DEF LifeInv, Made, Obj
  <2>2. nr_vcpus'[p] = nr_vcpus[p]
    BY <1>1, <2>1 DEF TypeOK
  <2>3. vcpusOf(p)' = vcpusOf(p)
    BY <2>2 DEF vcpusOf
  <2>4. QED
    BY <1>2, <2>1, <2>3 DEF LifeInv, Made
<1>11. QED
  BY <1>2, <1>6, <1>7, <1>8, <1>9, <1>10 DEF LifeInv

(* delete_vm_unlink empties the slot of a VM whose threads are closed.      *)
LEMMA UnlinkKeepsLife ==
  ASSUME TypeOK, SlotInv, LifeInv, delete_vm_unlink
  PROVE  LifeInv' /\ \A u \in Vcpu : thr'[u] = thr[u]
<1> USE DEF vmVars, conVars, vcpuVars, kernVars
<1>1. /\ host = "ok" /\ sh = "unlink" /\ sh' = "free" /\ vms' = [vms EXCEPT ![del[1]] = NULL]
      /\ UNCHANGED <<total_vm, vmStatus, nr_vcpus, vcpus, vcpuStatus, ptimer, parked, thr, curr>>
  BY DEF delete_vm_unlink
<1>2. AliveLinked'
  <2> SUFFICES ASSUME NEW v \in Vcpu, Alive(v)' PROVE (\E j \in Live : vms[j] = v[1])'
    BY DEF AliveLinked
  <2>1. Alive(v)
    BY <1>1 DEF Alive
  <2>2. PICK j \in Live : vms[j] = v[1]
    BY <2>1 DEF LifeInv, AliveLinked
  <2>3. v[1] # del[2]
    BY <1>1, <2>1 DEF LifeInv, UnlinksClosed
  <2>4. j # del[1] /\ j \in Slots /\ vms[j] # NULL
    BY <1>1, <2>2, <2>3 DEF SlotInv, Live
  <2>5. vms'[j] = vms[j]
    BY <1>1, <2>4 DEF TypeOK
  <2>6. QED
    BY <2>2, <2>4, <2>5 DEF Live
<1>3. Statuses' /\ Numbered' /\ NotYetRun' /\ CurrReady' /\ ParkedOffline' /\ UnlinksClosed'
  BY <1>1 DEF LifeInv, Statuses, Numbered, NotYetRun, CurrReady, ParkedOffline, UnlinksClosed
<1>4. Made'
  BY <1>1 DEF LifeInv, Made, vcpusOf
<1>5. QED
  BY <1>1, <1>2, <1>3, <1>4 DEF LifeInv

(* WFI and a fault: the vCPU that runs suspends its own thread.             *)
LEMMA SuspendKeepsLife ==
  ASSUME TypeOK, LifeInv, NEW v \in Vcpu, guest_wfx(v) \/ guest_faults(v)
  PROVE  LifeInv' /\ \A u \in Vcpu : thr[u] \in {"CLOSE", "freed"} => thr'[u] = thr[u]
<1> USE DEF hypVars, vmVars, conVars, vcpuVars, kernVars
<1>1. /\ host = "ok" /\ curr = v /\ v \notin parked
      /\ UNCHANGED <<vms, total_vm, vmStatus, nr_vcpus, vcpus, ptimer, sh, del, host>>
  BY DEF guest_wfx, guest_faults, Guest
<1>2. thr[v] = "READY" /\ vcpuStatus[v] = "ONLINE"
  <2>1. thr[v] = "READY" /\ vcpuStatus[v] \in VmStatus \cup {"NONE"}
    BY <1>1 DEF LifeInv, CurrReady, TypeOK
  <2>2. QED
    BY <1>1, <2>1 DEF LifeInv, Statuses, VmStatus
<1>3. PICK st \in {"SUSPEND", "OFFLINE"} :
        /\ vcpuStatus' = [vcpuStatus EXCEPT ![v] = st]
        /\ parked' = IF st = "OFFLINE" THEN parked \cup {v} ELSE parked
        /\ thr' = [thr EXCEPT ![v] = "SUSPEND"]
        /\ rt_schedule(thr')
  BY <1>2 DEF guest_wfx, guest_faults
<1>4. /\ \A u \in Vcpu : u # v => thr'[u] = thr[u] /\ vcpuStatus'[u] = vcpuStatus[u]
      /\ thr'[v] = "SUSPEND" /\ vcpuStatus'[v] = st
  BY <1>3 DEF TypeOK
<1>5. AliveLinked'
  BY <1>1, <1>2, <1>4 DEF LifeInv, AliveLinked, Alive, Live
<1>6. Statuses' /\ ParkedOffline'
  BY <1>1, <1>3, <1>4 DEF LifeInv, Statuses, ParkedOffline, TypeOK
<1>7. Numbered' /\ Made'
  BY <1>1, <1>2, <1>4 DEF LifeInv, Numbered, Made, vcpusOf
<1>8. NotYetRun'
  BY <1>1, <1>2, <1>4 DEF LifeInv, NotYetRun
<1>9. CurrReady'
  BY <1>3, ScheduledReady DEF rt_schedule, CurrReady
<1>10. UnlinksClosed'
  BY <1>1, <1>2, <1>4 DEF LifeInv, UnlinksClosed, Alive
<1>11. QED
  BY <1>2, <1>4, <1>5, <1>6, <1>7, <1>8, <1>9, <1>10 DEF LifeInv

(* The idle thread frees closed threads.                                    *)
LEMMA ReclaimKeepsLife ==
  ASSUME TypeOK, LifeInv, idle_reclaims
  PROVE  LifeInv' /\ \A u \in Vcpu : thr[u] \in {"CLOSE", "freed"} => thr'[u] = "freed"
<1> USE DEF hypVars, vmVars, conVars, vcpuVars
<1>1. /\ host = "ok" /\ curr = Idle
      /\ UNCHANGED <<vms, total_vm, vmStatus, nr_vcpus, vcpus, vcpuStatus, ptimer, parked, curr,
                     sh, del, host>>
  BY DEF idle_reclaims
<1>2. \A u \in Vcpu : thr'[u] = IF thr[u] = "CLOSE" THEN "freed" ELSE thr[u]
  BY DEF idle_reclaims
<1>3. AliveLinked' /\ UnlinksClosed'
  BY <1>1, <1>2 DEF LifeInv, AliveLinked, UnlinksClosed, Alive, Live
<1>4. Statuses' /\ ParkedOffline'
  BY <1>1, <1>2 DEF LifeInv, Statuses, ParkedOffline
<1>5. Numbered' /\ Made'
  BY <1>1, <1>2 DEF LifeInv, Numbered, Made, vcpusOf
<1>6. NotYetRun' /\ CurrReady'
  BY <1>1, <1>2, VmNames DEF LifeInv, NotYetRun, CurrReady
<1>7. QED
  BY <1>2, <1>3, <1>4, <1>5, <1>6 DEF LifeInv

(* Steps that leave the VMs, the vCPUs and the threads alone.               *)
LEMMA QuietKeepsLife ==
  ASSUME TypeOK, LifeInv, host = "ok",
         \/ create_vm_fails \/ pick_vm \/ delete_vm_free \/ delete_vm_clear
         \/ shell_input \/ shell_waits \/ tick
         \/ \E o \in Obj : vm_init_fails_early(o) \/ run_vm_no_gic(o)
         \/ \E i \in Slots : attach_vm(i)
         \/ \E v \in Vcpu : \/ guest_enables(v) \/ guest_disables(v)
                            \/ guest_quits_console(v) \/ guest_sets_ptimer(v)
  PROVE  LifeInv' /\ thr' = thr
<1> USE DEF hypVars, vmVars, conVars, vcpuVars, kernVars, AtPrompt
<1>1. CASE create_vm_fails \/ pick_vm
  BY <1>1, LifeFrame DEF create_vm_fails, pick_vm
<1>2. CASE delete_vm_free \/ delete_vm_clear
  <2>1. \A o \in Obj : vcpus'[o] = "ok" => vcpus[o] = "ok"
    BY <1>2 DEF delete_vm_free, delete_vm_clear, TypeOK
  <2>2. QED
    BY <1>2, <2>1, LifeFrame DEF delete_vm_free, delete_vm_clear
<1>3. CASE shell_input \/ shell_waits \/ tick
  BY <1>3, LifeFrame DEF shell_input, shell_waits, tick, rt_schedule
<1>4. ASSUME NEW o \in Obj, vm_init_fails_early(o) \/ run_vm_no_gic(o) PROVE LifeInv' /\ thr' = thr
  <2>1. \A p \in Obj : vcpus'[p] = "ok" => vcpus[p] = "ok"
    BY <1>4 DEF vm_init_fails_early, run_vm_no_gic, TypeOK
  <2>2. QED
    BY <1>4, <2>1, LifeFrame DEF vm_init_fails_early, run_vm_no_gic, Stop, Picked
<1>5. ASSUME NEW i \in Slots, attach_vm(i) PROVE LifeInv' /\ thr' = thr
  BY <1>5, LifeFrame DEF attach_vm, Stop
<1>6. ASSUME NEW v \in Vcpu, guest_enables(v) \/ guest_disables(v) \/ guest_quits_console(v)
      PROVE  LifeInv' /\ thr' = thr
  BY <1>6, LifeFrame DEF guest_enables, guest_disables, guest_quits_console
<1>7. ASSUME NEW v \in Vcpu, guest_sets_ptimer(v) PROVE LifeInv' /\ thr' = thr
  BY <1>7, LifeFrame DEF guest_sets_ptimer, Guest
<1>8. QED
  BY <1>1, <1>2, <1>3, <1>4, <1>5, <1>6, <1>7

(* run_vm of a VM that ran before, an interrupt and a timer reach vcpu_go.  *)
LEMMA CallersKeepLife ==
  ASSUME RT_DEBUG, TypeOK, LifeInv, host = "ok",
         \/ irq_to_guest \/ \E o \in Obj : run_vm_again(o)
         \/ \E v \in Vcpu : ptimer_fires(v)
  PROVE  LifeInv' /\ DeadThreads \subseteq DeadThreads'
<1> USE DEF hypVars, vmVars, conVars, vcpuVars, kernVars
<1>1. \A o \in Obj : <<o, 0>> \in Vcpu
  BY VmConstants DEF Vcpu
<1>2. \A v \in Vcpu : v[1] \in Obj
  BY DEF Vcpu
<1>3. ASSUME host' # "ok", UNCHANGED <<vms, thr>> PROVE LifeInv' /\ DeadThreads \subseteq DeadThreads'
  BY <1>3 DEF LifeInv, AliveLinked, Alive, Live, DeadThreads
<1>4. CASE irq_to_guest
  <2>1. PICK o \in Obj : vcpu_go(<<o, 0>>) /\ vcpuStatus[<<o, 0>>] \in {"ONLINE", "SUSPEND"}
    BY <1>4 DEF irq_to_guest
  <2>2. thr[<<o, 0>>] # "INIT"
    BY <1>1, <2>1 DEF LifeInv, Statuses
  <2>3. UNCHANGED <<vms, total_vm, nr_vcpus, vcpus, vmStatus, ptimer, parked, sh, del>>
    BY <1>4 DEF irq_to_guest
  <2>4. QED
    BY <1>1, <2>1, <2>2, <2>3, GoKeepsLife DEF DeadThreads
<1>5. ASSUME NEW o \in Obj, run_vm_again(o) PROVE LifeInv' /\ DeadThreads \subseteq DeadThreads'
  <2>1. /\ UNCHANGED <<vms, total_vm, nr_vcpus, vcpus, ptimer, parked, sh, del>>
        /\ \A p \in Obj : p # o => vmStatus'[p] = vmStatus[p]
        /\ vmStatus'[o] = "ONLINE"
    BY <1>5 DEF run_vm_again, TypeOK
  <2>2. CASE vcpu_go(<<o, 0>>)
    <3>1. \A p \in Obj : vmStatus'[p] \in {"NONE", "NEVER_RUN"} => vmStatus[p] = vmStatus'[p]
      BY <2>1
    <3>2. <<o, 0>>[1] = o
      OBVIOUS
    <3>3. QED
      BY <1>1, <2>1, <2>2, <3>1, <3>2, GoKeepsLife DEF DeadThreads
  <2>3. CASE Stop(ArrayFault(o))
    BY <1>3, <2>1, <2>3 DEF Stop, ArrayFault
  <2>4. QED
    BY <1>5, <2>2, <2>3 DEF run_vm_again, vm_go
<1>6. ASSUME NEW v \in Vcpu, ptimer_fires(v) PROVE LifeInv' /\ DeadThreads \subseteq DeadThreads'
  <2>1. UNCHANGED <<vms, total_vm, nr_vcpus, vcpus, vmStatus, ptimer, parked, sh, del>>
    BY <1>6 DEF ptimer_fires
  <2>2. CASE vcpu_go(v)
    <3>1. thr[v] # "INIT"
      BY <1>6 DEF ptimer_fires, LifeInv, NotYetRun
    <3>2. QED
      BY <2>1, <2>2, <3>1, GoKeepsLife DEF DeadThreads
  <2>3. CASE Stop("uaf")
    BY <1>3, <2>1, <2>3 DEF Stop
  <2>4. QED
    BY <1>6, <2>2, <2>3 DEF ptimer_fires
<1>7. QED
  BY <1>4, <1>5, <1>6

(* Every step keeps the invariant, and no step revives a thread.            *)
LEMMA LifeStep ==
  ASSUME RT_DEBUG, TypeOK, SlotInv, LifeInv, [Next]_vars
  PROVE  LifeInv' /\ DeadThreads \subseteq DeadThreads'
<1>1. CASE UNCHANGED vars
  <2> USE <1>1 DEF vars, hypVars, vmVars, kernVars, vcpuVars
  <2>1. AliveLinked'
    BY DEF LifeInv, AliveLinked, Alive, Live
  <2>2. ASSUME host = "ok" PROVE Made' /\ UnlinksClosed'
    BY <2>2 DEF LifeInv, Made, vcpusOf, UnlinksClosed, Alive
  <2>3. ASSUME host = "ok" PROVE Statuses' /\ Numbered' /\ NotYetRun' /\ CurrReady' /\ ParkedOffline'
    BY <2>3 DEF LifeInv, Statuses, Numbered, NotYetRun, CurrReady, ParkedOffline
  <2>4. QED
    BY <2>1, <2>2, <2>3 DEF LifeInv, DeadThreads
<1> SUFFICES ASSUME Next PROVE LifeInv' /\ DeadThreads \subseteq DeadThreads'
  BY <1>1
<1>2. host = "ok"
  BY HostOk
<1>3. CASE \/ create_vm_fails \/ pick_vm \/ delete_vm_free \/ delete_vm_clear
           \/ shell_input \/ shell_waits \/ tick
           \/ \E o \in Obj : vm_init_fails_early(o) \/ run_vm_no_gic(o)
           \/ \E i \in Slots : attach_vm(i)
           \/ \E v \in Vcpu : \/ guest_enables(v) \/ guest_disables(v)
                              \/ guest_quits_console(v) \/ guest_sets_ptimer(v)
  BY <1>2, <1>3, QuietKeepsLife DEF DeadThreads
<1>4. CASE create_vm \/ delete_vm_unlink
  BY <1>4, CreateKeepsLife, UnlinkKeepsLife DEF DeadThreads
<1>5. CASE idle_reclaims
  BY <1>5, ReclaimKeepsLife DEF DeadThreads
<1>6. CASE \/ irq_to_guest \/ \E o \in Obj : run_vm_again(o)
           \/ \E v \in Vcpu : ptimer_fires(v)
  BY <1>2, <1>6, CallersKeepLife
<1>7. ASSUME NEW o \in Obj, vm_init_fails_late(o) \/ run_vm_first(o)
      PROVE  LifeInv' /\ DeadThreads \subseteq DeadThreads'
  <2>1. Picked(o) /\ vmStatus[o] = "NEVER_RUN"
    BY <1>7 DEF vm_init_fails_late, run_vm_first
  <2>2. QED
    BY <1>7, <2>1, InitKeepsLife DEF DeadThreads
<1>8. ASSUME NEW o \in Obj, pause_vm(o) \/ halt_vm(o) \/ delete_vm_halt(o)
      PROVE  LifeInv' /\ DeadThreads \subseteq DeadThreads'
  BY <1>8, PauseKeepsLife, ShutdownKeepsLife DEF DeadThreads
<1>9. ASSUME NEW v \in Vcpu, guest_wfx(v) \/ guest_faults(v)
      PROVE  LifeInv' /\ DeadThreads \subseteq DeadThreads'
  BY <1>9, SuspendKeepsLife DEF DeadThreads
<1>10. ASSUME NEW v \in Vcpu PROVE ~shutdown_continues(v)
  BY <1>2 DEF shutdown_continues, LifeInv, CurrReady, ParkedOffline, Statuses
<1>11. QED
  BY <1>3, <1>4, <1>5, <1>6, <1>7, <1>8, <1>9, <1>10 DEF Next, Command, Trap

LEMMA LifeInit == Init => SlotInv /\ LifeInv
<1> SUFFICES ASSUME Init PROVE SlotInv /\ LifeInv
  OBVIOUS
<1>1. SlotInv
  BY DEF Init, SlotInv, SlotsMarked, LinkedNotFreed, Live
<1>2. AliveLinked /\ Statuses /\ Numbered /\ UnlinksClosed /\ ParkedOffline /\ Made
  BY DEF Init, AliveLinked, Alive, Statuses, Numbered, UnlinksClosed, ParkedOffline, Made
<1>3. NotYetRun /\ CurrReady
  BY VmNames DEF Init, NotYetRun, CurrReady
<1>4. QED
  BY <1>1, <1>2, <1>3 DEF LifeInv

(* In a build with assertions the status of a vCPU and the state of its     *)
(* thread agree while the host runs, a runnable thread belongs to a VM that *)
(* is in a slot, and a thread that halt_vm or delete_vm closed never runs   *)
(* again, whichever of the shell, a trap, an interrupt and a timer acts.    *)
THEOREM ThreadsFollowVcpus ==
  ASSUME RT_DEBUG
  PROVE  Spec => [](StatusMatchesThread /\ RunnableIsLinked) /\ DeadStaysDead
<1>1. TypeOK /\ LifeInv => StatusMatchesThread /\ RunnableIsLinked
  <2>1. LifeInv => RunnableIsLinked
    BY DEF LifeInv, AliveLinked, RunnableIsLinked, Alive
  <2>2. TypeOK /\ LifeInv => StatusMatchesThread
    BY DEF LifeInv, Statuses, StatusMatchesThread, TypeOK, VmStatus
  <2>3. QED
    BY <2>1, <2>2
<1>2. QED
  BY <1>1, LifeInit, LifeStep, SlotStep, TypeCorrect, PTL DEF Spec, DeadStaysDead
============================================================================
