-------------------------- MODULE WorldSwitchProofs --------------------------
(* The switch invariants of WorldSwitch, for every set of VMs and vCPUs.   *)
EXTENDS WorldSwitch, TLAPS

(* TrapsMatch follows once the trap settings are those of the current      *)
(* thread at every step, also between the hook and the exchange of stacks. *)
TrapsOfCurr == tge <=> curr \notin Vcpus
WsInv == TypeOK /\ StacksMatch /\ TrapsOfCurr /\ RegsKept /\ RootKept

(* The sets of threads rt_schedule is called with.                         *)
Runnable(r) ==
  r \subseteq Threads /\ Idle \in r /\ \A v \in Vcpus \cap r : VmOf[v] \in made

LEMMA InitWs == Init => WsInv
  <1> SUFFICES ASSUME Init PROVE WsInv
    OBVIOUS
  <1>1. TypeOK
    BY WsNames DEF Init, TypeOK, NoRegs, NoSwitch, Sysregs, Kept, Values, Threads
  <1>2. StacksMatch /\ TrapsOfCurr
    BY WsNames DEF Init, StacksMatch, TrapsOfCurr, NoSwitch
  <1>3. RegsKept /\ RootKept
    BY WsConstants DEF Init, RegsKept, RootKept
  <1> QED
    BY <1>1, <1>2, <1>3 DEF WsInv

(* ToThreads offers only threads that may run.                             *)
LEMMA ChosenRuns ==
  ASSUME NEW r, Runnable(r), NEW yield, NEW t \in ToThreads(r, yield)
  PROVE  t \in r
  BY DEF Runnable, ToThreads, Top

(* The hook for one switch keeps the registers in range and in their place.*)
LEMMA HookKeeps ==
  ASSUME WsInv, NEW t \in Threads, t # curr, switch_hook(curr, t), curr' = t,
         t \in Vcpus => VmOf[t] \in made,
         UNCHANGED <<file, made>>
  PROVE  /\ hw' \in [Sysregs -> Values] /\ hwRoot' \in Vms \cup {None}
         /\ tge' \in BOOLEAN /\ ctx' \in [Vcpus -> [Sysregs -> Values]]
         /\ root' \in [Vms -> Vms \cup {None}]
         /\ mixed' \subseteq Vcpus /\ mixedVm' \subseteq Vms
         /\ TrapsOfCurr' /\ RegsKept' /\ RootKept'
  <1> USE WsConstants, WsNames DEF WsInv
  <1>0. /\ hw \in [Sysregs -> Values] /\ ctx \in [Vcpus -> [Sysregs -> Values]]
        /\ hwRoot \in Vms \cup {None} /\ root \in [Vms -> Vms \cup {None}]
        /\ mixed \subseteq Vcpus /\ mixedVm \subseteq Vms /\ tge \in BOOLEAN
        /\ made \subseteq Vms
        /\ "el1" \in Sysregs /\ "cpacr" \in Sysregs /\ "vbar" \in Sysregs
        /\ "trap" \in Values /\ "vectors" \in Values /\ "default" \in Values
    BY DEF TypeOK, Sysregs, Values
  <1>1. CASE curr \notin Vcpus /\ t \in Vcpus /\ host_to_guest_arch_handler(t)
    <2> USE <1>1 DEF host_to_guest_arch_handler, load_stage2_setting
    <2>1. hw' \in [Sysregs -> Values] /\ \A r \in Kept : hw'[r] = ctx[t][r]
      BY <1>0 DEF activate_trap, Sysregs, Kept
    <2>2. RegsKept'
      BY <1>0, <2>1 DEF RegsKept, RegsOf
    <2>3. RootKept'
      BY <1>0 DEF RootKept
    <2> QED
      BY <1>0, <2>1, <2>2, <2>3 DEF TrapsOfCurr
  <1>2. CASE curr \in Vcpus /\ t \notin Vcpus /\ guest_to_host_arch_handler(curr)
    <2> USE <1>2 DEF guest_to_host_arch_handler, save_stage2_setting, hook_vcpu_regs_save
    <2>1. hw' \in [Sysregs -> Values] /\ \A r \in Kept : hw'[r] = hw[r]
      BY <1>0 DEF Sysregs, Kept
    <2>2. /\ ctx' \in [Vcpus -> [Sysregs -> Values]] /\ ctx'[curr] = hw'
          /\ \A v \in Vcpus \ {curr} : ctx'[v] = ctx[v]
      BY <1>0, <2>1
    <2>3. RegsKept'
      BY <1>0, <2>1, <2>2 DEF RegsKept, RegsOf
    <2>4. root' \in [Vms -> Vms \cup {None}] /\ RootKept'
      BY <1>0 DEF RootKept
    <2> QED
      BY <1>0, <2>1, <2>2, <2>3, <2>4 DEF TrapsOfCurr
  <1>3. CASE curr \in Vcpus /\ t \in Vcpus /\ guest_to_guest_arch_handler(curr, t)
    <2> USE <1>3 DEF guest_to_guest_arch_handler, regs
    <2>1. RegsKept'
      BY <1>0 DEF RegsKept, RegsOf
    <2>2. RootKept'
      BY <1>0 DEF RootKept
    <2> QED
      BY <1>0, <2>1, <2>2 DEF TrapsOfCurr
  <1>4. CASE curr \notin Vcpus /\ t \notin Vcpus /\ UNCHANGED <<regs, mixed, mixedVm>>
    BY <1>0, <1>4 DEF regs, TrapsOfCurr, RegsKept, RegsOf, RootKept
  <1> QED
    BY <1>1, <1>2, <1>3, <1>4 DEF switch_hook

(* One call of rt_schedule.                                                *)
LEMMA ScheduleKeeps ==
  ASSUME WsInv, NEW r, Runnable(r), NEW yield, rt_schedule(r, yield)
  PROVE  WsInv'
  <1> USE DEF WsInv
  <1>0. /\ ready' = r /\ UNCHANGED <<file, made, irq>>
        /\ r \subseteq Threads /\ Idle \in r /\ \A v \in Vcpus \cap r : VmOf[v] \in made
    BY DEF rt_schedule, Runnable
  <1>1. PICK t \in ToThreads(r, yield) :
          \/ t = curr /\ UNCHANGED <<regs, sched, mixed, mixedVm>>
          \/ /\ t # curr /\ switch_hook(curr, t) /\ curr' = t
             /\ \/ /\ irq /\ sw' = rt_hw_context_switch_interrupt(curr, t)
                   /\ UNCHANGED cpu
                \/ ~ irq /\ cpu' = t /\ UNCHANGED sw
    BY DEF rt_schedule
  <1>2. t \in r /\ t \in Threads
    BY <1>0, <1>1, ChosenRuns
  <1>3. CASE t = curr /\ UNCHANGED <<regs, sched, mixed, mixedVm>>
    <2> USE <1>3 DEF regs, sched
    <2>1. TypeOK'
      BY <1>0, <1>2 DEF TypeOK
    <2>2. StacksMatch' /\ TrapsOfCurr'
      BY <1>0 DEF StacksMatch, TrapsOfCurr
    <2>3. RegsKept' /\ RootKept'
      BY <1>0 DEF RegsKept, RegsOf, RootKept
    <2> QED
      BY <2>1, <2>2, <2>3
  <1>4. CASE /\ t # curr /\ switch_hook(curr, t) /\ curr' = t
             /\ \/ /\ irq /\ sw' = rt_hw_context_switch_interrupt(curr, t)
                   /\ UNCHANGED cpu
                \/ ~ irq /\ cpu' = t /\ UNCHANGED sw
    <2>1. /\ hw' \in [Sysregs -> Values] /\ hwRoot' \in Vms \cup {None}
          /\ tge' \in BOOLEAN /\ ctx' \in [Vcpus -> [Sysregs -> Values]]
          /\ root' \in [Vms -> Vms \cup {None}]
          /\ mixed' \subseteq Vcpus /\ mixedVm' \subseteq Vms
          /\ TrapsOfCurr' /\ RegsKept' /\ RootKept'
      BY <1>0, <1>2, <1>4, HookKeeps
    <2>2. sw' \in [flag : BOOLEAN, from : Threads, to : Threads] /\ cpu' \in Threads
      <3>1. /\ curr \in Threads /\ cpu \in Threads /\ t \in Threads
            /\ sw \in [flag : BOOLEAN, from : Threads, to : Threads]
        BY <1>2 DEF TypeOK
      <3>2. sw.from \in Threads
        BY <3>1
      <3>3. rt_hw_context_switch_interrupt(curr, t)
              \in [flag : BOOLEAN, from : Threads, to : Threads]
        BY <3>1, <3>2 DEF rt_hw_context_switch_interrupt
      <3> QED
        BY <1>4, <3>1, <3>3
    <2>3. TypeOK'
      BY <1>0, <1>2, <1>4, <2>1, <2>2 DEF TypeOK
    <2>4. StacksMatch'
      BY <1>0, <1>4 DEF StacksMatch, rt_hw_context_switch_interrupt, TypeOK
    <2> QED
      BY <2>1, <2>3, <2>4
  <1> QED
    BY <1>1, <1>3, <1>4

LEMMA NextWs == WsInv /\ [Next]_vars => WsInv'
  <1> SUFFICES ASSUME WsInv, [Next]_vars PROVE WsInv'
    OBVIOUS
  <1> USE WsConstants, WsNames DEF WsInv
  <1>0. /\ ready \subseteq Threads /\ Idle \in ready /\ made \subseteq Vms
        /\ \A v \in Vcpus \cap ready : VmOf[v] \in made
    BY DEF TypeOK
  <1>1. ASSUME NEW m \in Vms, vm_init(m) PROVE WsInv'
    <2> USE <1>1 DEF vm_init, sched
    <2>1. \A v \in Vcpus : /\ vcpu_state_init(v) \in [Sysregs -> Values]
                           /\ v \in VcpusOf(m) <=> VmOf[v] = m
      BY DEF vcpu_state_init, NoRegs, Sysregs, Values, VcpusOf
    <2>2. ctx' \in [Vcpus -> [Sysregs -> Values]] /\ file' \in [Vcpus -> [Kept -> Values]]
      BY <2>1 DEF TypeOK, Kept, Sysregs
    <2>3. TypeOK'
      BY <2>2 DEF TypeOK
    <2>4. StacksMatch' /\ TrapsOfCurr'
      BY DEF StacksMatch, TrapsOfCurr
    <2>5. RegsKept'
      BY <2>1 DEF RegsKept, RegsOf, TypeOK
    <2>6. RootKept'
      BY DEF RootKept, TypeOK
    <2> QED
      BY <2>3, <2>4, <2>5, <2>6
  <1>2. ASSUME NEW m \in Vms, vm_free(m) PROVE WsInv'
    <2> USE <1>2 DEF vm_free, sched
    <2>1. NoRegs \in [Sysregs -> Values] /\ \A v \in Vcpus : v \in VcpusOf(m) <=> VmOf[v] = m
      BY DEF NoRegs, Sysregs, Values, VcpusOf
    <2>2. ctx' \in [Vcpus -> [Sysregs -> Values]] /\ file' \in [Vcpus -> [Kept -> Values]]
      BY <2>1 DEF TypeOK, Kept, Sysregs
    <2>3. TypeOK'
      <3>1. /\ made' \subseteq Vms /\ ready' \subseteq Threads /\ Idle \in ready'
            /\ \A v \in Vcpus \cap ready' : VmOf[v] \in made'
            /\ curr \in ready'
        BY <1>0, <2>1 DEF TypeOK, VcpusOf
      <3>2. /\ root' \in [Vms -> Vms \cup {None}]
            /\ mixed' \subseteq Vcpus /\ mixedVm' \subseteq Vms
        BY DEF TypeOK
      <3> QED
        BY <2>2, <3>1, <3>2 DEF TypeOK
    <2>4. StacksMatch' /\ TrapsOfCurr'
      BY DEF StacksMatch, TrapsOfCurr
    <2>5. RegsKept'
      BY <2>1 DEF RegsKept, RegsOf, TypeOK
    <2>6. RootKept'
      BY DEF RootKept, TypeOK
    <2> QED
      BY <2>3, <2>4, <2>5, <2>6
  <1>3. ASSUME NEW t \in Vcpus \cup Hosts, wakes(t) PROVE WsInv'
    <2>1. Runnable(ready \cup {t})
      BY <1>0, <1>3 DEF wakes, Runnable, Threads
    <2> QED
      BY <1>3, <2>1, ScheduleKeeps DEF wakes
  <1>4. CASE waits
    <2>1. Runnable(ready \ {curr})
      BY <1>0, <1>4 DEF waits, Runnable
    <2> QED
      BY <1>4, <2>1, ScheduleKeeps DEF waits
  <1>5. CASE tick
    <2>1. Runnable(ready)
      BY <1>0 DEF Runnable
    <2> QED
      BY <1>5, <2>1, ScheduleKeeps DEF tick
  <1>6. CASE irq_enter
    BY <1>6 DEF irq_enter, regs, sched, ghost, TypeOK, StacksMatch, TrapsOfCurr,
                RegsKept, RegsOf, RootKept
  <1>7. CASE irq_exit
    <2> USE <1>7 DEF irq_exit, regs, ghost
    <2>1. NoSwitch \in [flag : BOOLEAN, from : Threads, to : Threads] /\ ~ NoSwitch.flag
      BY DEF NoSwitch, Threads
    <2>2. TypeOK'
      BY <2>1 DEF TypeOK
    <2>3. StacksMatch' /\ TrapsOfCurr'
      BY <2>1 DEF StacksMatch, TrapsOfCurr, TypeOK
    <2>4. RegsKept' /\ RootKept'
      BY DEF RegsKept, RegsOf, RootKept
    <2> QED
      BY <2>2, <2>3, <2>4
  <1>8. ASSUME NEW v \in Vcpus, NEW r \in GuestRegs, NEW x \in GuestVals,
               guest_writes(v, r, x)
        PROVE  WsInv'
    <2> USE <1>8 DEF guest_writes, sched
    <2>1. r \in Sysregs /\ x \in Values /\ curr = v
      BY DEF Values, StacksMatch
    <2>2. hw' \in [Sysregs -> Values] /\ file' \in [Vcpus -> [Kept -> Values]]
      BY <2>1 DEF TypeOK
    <2>3. TypeOK'
      BY <2>2 DEF TypeOK
    <2>4. StacksMatch' /\ TrapsOfCurr' /\ RootKept'
      BY DEF StacksMatch, TrapsOfCurr, RootKept
    <2>5. /\ \A q \in Sysregs : hw'[q] = IF q = r THEN x ELSE hw[q]
          /\ \A w \in Vcpus, q \in Kept :
               file'[w][q] = IF w = v /\ q = r THEN x ELSE file[w][q]
      BY <2>1 DEF TypeOK
    <2>6. RegsKept'
      BY <2>1, <2>5 DEF RegsKept, RegsOf, Kept, Sysregs
    <2> QED
      BY <2>3, <2>4, <2>6
  <1>9. CASE UNCHANGED vars
    BY <1>9 DEF vars, regs, sched, ghost, TypeOK, StacksMatch, TrapsOfCurr,
                RegsKept, RegsOf, RootKept
  <1> QED
    BY <1>1, <1>2, <1>3, <1>4, <1>5, <1>6, <1>7, <1>8, <1>9 DEF Next

(* A thread's code runs with its own trap settings and its own stack, in   *)
(* the host and in the guests, for every interleaving of interrupts.       *)
THEOREM ThreadsCorrect == Spec => [](TypeOK /\ StacksMatch /\ TrapsMatch)
  <1>1. WsInv => TypeOK /\ StacksMatch /\ TrapsMatch
    BY DEF WsInv, TypeOK, StacksMatch, TrapsOfCurr, TrapsMatch
  <1> QED
    BY InitWs, NextWs, <1>1, PTL DEF Spec

(* vCPUs that are switched only by way of the host keep their registers,   *)
(* and VMs not entered from another VM their stage-2 tables.               *)
THEOREM RegistersKept == Spec => [](RegsKept /\ RootKept)
  <1>1. WsInv => RegsKept /\ RootKept
    BY DEF WsInv
  <1> QED
    BY InitWs, NextWs, <1>1, PTL DEF Spec
=============================================================================
