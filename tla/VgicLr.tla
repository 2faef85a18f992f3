------------------------------- MODULE VgicLr -------------------------------
(***************************************************************************)
(* Delivery of virtual interrupts: the list registers of the core (ICH_LR) *)
(* and the software list behind them (lr_list and tail of struct vgicr).   *)
(* vgic_inject puts a vIRQ into the list, saves the list registers into    *)
(* it, sorts it and refills the registers; the switch hook saves them when *)
(* a vCPU leaves for the host and refills them when one comes back.        *)
(*                                                                         *)
(* The loops run one iteration per step, because ptimer_timeout_function   *)
(* calls vgic_inject from the timer thread with interrupts enabled: a      *)
(* physical interrupt can call it again in the middle. "irq" is the call   *)
(* made with interrupts off (an interrupt handler, or the hook called by   *)
(* rt_schedule), "thread" the one made by the timer thread. Nothing locks  *)
(* the list against that, and nothing initialises its tail: the histories  *)
(* spoilt and mixed tell where either, or a second vCPU on the core, has   *)
(* disturbed what the properties below promise.                            *)
(***************************************************************************)
EXTENDS Integers, FiniteSets

CONSTANTS
  Vcpus,            (* the vCPUs that share the core: vCPU 0 of each VM    *)
  Host, Idle,       (* a host thread above the vCPUs' priority, and idle   *)
  None,
  NR_LR,            (* list registers of the core                          *)
  GIC_LR_LIST_NUM,  (* length of lr_list                                   *)
  HwVirqs,          (* vIRQs bound to a physical interrupt                 *)
  PtimerVirq,       (* the physical timer's vIRQ                           *)
  Prios,            (* priorities a guest may set; a lower value wins      *)
  GIC_LOWEST_PRIO,
  TailInits,        (* what rt_malloc may leave in gicr->tail              *)
  MAX_CUTS          (* bound: interrupts that cut into the timer thread's  *)
                    (* calls                                               *)

ASSUME LrConstants ==
  /\ NR_LR \in Nat \ {0} /\ GIC_LR_LIST_NUM \in Nat /\ NR_LR <= GIC_LR_LIST_NUM
  /\ HwVirqs \subseteq Nat \ {0} /\ PtimerVirq \in Nat \ {0}
  /\ Prios \subseteq Nat /\ 0 \in Prios /\ GIC_LOWEST_PRIO \in Prios
  /\ TailInits \subseteq Nat /\ MAX_CUTS \in Nat

ASSUME LrNames ==
  /\ Host \notin Vcpus /\ Idle \notin Vcpus /\ None \notin Vcpus
  /\ Cardinality({Host, Idle, None}) = 3

Virqs   == HwVirqs \cup {PtimerVirq}
Lrs     == 0 .. NR_LR - 1
Cells   == 0 .. GIC_LR_LIST_NUM - 1
Ctxts   == {"irq", "thread"}
Threads == Vcpus \cup {Host, Idle}

(* A list register's value: vINTID, priority and state, and the RES0 bit    *)
(* by which lr_list marks a used cell. own is not in the register: it       *)
(* remembers the vCPU whose list the vIRQ was last in.                     *)
Entry == [vint : Virqs \cup {0}, prio : Prios, res0 : BOOLEAN,
          stat : {"inactive", "pending", "active"}, own : Vcpus \cup {None}]
ZERO  == [vint |-> 0, prio |-> 0, res0 |-> FALSE, stat |-> "inactive", own |-> None]

VARIABLES
  list, tail,   \* gicr->lr_list and gicr->tail of each vCPU
  lr,           \* ICH_LR<n>_EL2
  enable, prio, \* enable and prio of each vCPU's vIRQs
  curr,         \* rt_current_thread
  ready,        \* vCPUs whose thread is ready
  frame,        \* the call in progress in each context
  spoilt,       \* history: vCPUs whose tail was not 0 when vgicr_init was
                \* done, or whose list two calls have worked on at once
  mixed,        \* history: two vCPUs, or two calls, have used the list
                \* registers at the same time
  cuts          \* how many interrupts have cut into a call

ghosts == <<spoilt, mixed, cuts>>
vars == <<list, tail, lr, enable, prio, curr, ready, frame, ghosts>>

(* pc: the loop or statement the call is at; v: its vCPU; to: the thread   *)
(* the hook was called for, None in vgic_inject; i, rm: the loop's counter *)
(* and rm_idx; elrsr: the idle registers it read; last, pass, dad: end, i  *)
(* and dad of the sort. A call that reads or writes past the end of        *)
(* lr_list, or fails the assertion of vgic_lr_list_remove, is "stopped":   *)
(* what follows is not the list code's any more, and the model ends.       *)
Frame == [pc : {"idle", "insert", "save", "save_insert", "sort", "restore", "resort", "stopped"},
          v : Vcpus \cup {None}, to : Threads \cup {None},
          i : 0 .. NR_LR, rm : 0 .. NR_LR, elrsr : SUBSET Lrs,
          last : Cells, pass : Nat, dad : Cells]
NoFrame == [pc |-> "idle", v |-> None, to |-> None, i |-> 0, rm |-> 0,
            elrsr |-> {}, last |-> 0, pass |-> 0, dad |-> 0]

(* vgicr_init clears lr_list and leaves tail as rt_malloc returned it.      *)
Init ==
  /\ list = [v \in Vcpus |-> [j \in Cells |-> ZERO]]
  /\ tail \in [Vcpus -> TailInits]
  /\ lr = [i \in Lrs |-> ZERO]
  /\ enable = [v \in Vcpus |-> {}]
  /\ prio = [v \in Vcpus |-> [q \in Virqs |-> GIC_LOWEST_PRIO]]
  /\ curr = Host /\ ready = {}
  /\ frame = [c \in Ctxts |-> NoFrame]
  /\ spoilt = {v \in Vcpus : tail[v] # 0} /\ mixed = FALSE /\ cuts = 0

-----------------------------------------------------------------------------
(* The list.                                                               *)

(* Mutant: a pending register counts as idle.                              *)
read_idle_lr_reg_pending == {i \in Lrs : lr[i].stat # "active"}

(* ICH_ELRSR_EL2: the list registers that hold no pending or active vIRQ.  *)
read_idle_lr_reg == {i \in Lrs : lr[i].stat = "inactive"}

vgic_is_lr_list_full(v) == tail[v] = GIC_LR_LIST_NUM
(* Cells past the end of lr_list are not looked at here: see Placed.       *)
vgic_is_lr_in_list(v, e) == \E j \in Cells : j < tail[v] /\ list[v][j].vint = e.vint

(* Mutant: entries are not compared.                                       *)
Inserts_again(v, e) == ~ vgic_is_lr_list_full(v)
(* Mutant: the full list is not recognised.                                *)
Inserts_full(v, e) == ~ vgic_is_lr_in_list(v, e)

(* vgic_lr_list_insert: whether e enters the list, and the cell written    *)
(* before tail is advanced.                                                *)
Inserts(v, e) == ~ vgic_is_lr_list_full(v) /\ ~ vgic_is_lr_in_list(v, e)
Written(v, e) == [list EXCEPT ![v][tail[v]] = [e EXCEPT !.res0 = TRUE, !.own = v]]

Swapped(a, j, k) == [a EXCEPT ![j] = a[k], ![k] = a[j]]

(* Mutant: the freed cell keeps its old content.                           *)
Removed_stale(a, j, n) == Swapped(a, j, n - 1)
(* vgic_lr_list_remove: the last of the n entries fills the gap.           *)
Removed(a, j, n) == [Swapped(a, j, n - 1) EXCEPT ![n - 1] = ZERO]

(* vgic_get_lr_from_virq: 0 for a vIRQ that is not enabled.                *)
vgic_get_lr_from_virq(v, q) ==
  IF q \in enable[v]
  THEN [vint |-> q, prio |-> prio[v][q], res0 |-> FALSE, stat |-> "pending", own |-> v]
  ELSE ZERO

-----------------------------------------------------------------------------
(* One call: context c takes its next step.                                *)

Runs(c) == c = "thread" => frame["irq"].pc = "idle"
At(c, pc) == frame[c].pc = pc /\ Runs(c)
Goto(c, f) == frame' = [frame EXCEPT ![c] = f]
Busy(c) == frame[c].pc # "idle"

(* A call starts its next loop for the same vCPU and the same switch.      *)
Fresh(f) == [NoFrame EXCEPT !.v = f.v, !.to = f.to]
Stop(c, f) == Goto(c, [Fresh(f) EXCEPT !.pc = "stopped"])
StartSave(c, f) ==
  Goto(c, [Fresh(f) EXCEPT !.pc = "save", !.elrsr = read_idle_lr_reg])
StartRestore(c, f) ==
  Goto(c, [Fresh(f) EXCEPT !.pc = "restore", !.elrsr = read_idle_lr_reg])
(* vgic_lr_list_sort of a list of n entries, at least one: n/2 + 1 passes.  *)
SortFrom(f, pc, n) ==
  [Fresh(f) EXCEPT !.pc = pc, !.last = n - 1, !.pass = (n - 1) \div 2]
StartSort(c, f, pc, n) ==
  \/ n <= GIC_LR_LIST_NUM /\ Goto(c, SortFrom(f, pc, n))
  \/ n > GIC_LR_LIST_NUM /\ Stop(c, f)

(* The writing half of vgic_lr_list_insert, before the call goes to f. A   *)
(* tail past the list has vgic_is_lr_in_list read, and the entry written,  *)
(* outside it.                                                             *)
Placed(c, v, e, f) ==
  \/ tail[v] \in Cells /\ list' = Written(v, e) /\ Goto(c, f)
  \/ tail[v] \notin Cells /\ UNCHANGED list /\ Stop(c, f)

(* The end of a hook is the switch. The end of vgic_inject is vcpu_go: the *)
(* vCPU is ready, and is switched to at once if the core was idle.         *)
Finish(c) ==
  LET f == frame[c]
  IN  \/ /\ f.to # None
         /\ curr' = f.to /\ Goto(c, NoFrame) /\ UNCHANGED ready
      \/ /\ f.to = None /\ curr = Idle
         /\ ready' = ready \cup {f.v}
         /\ StartRestore(c, [f EXCEPT !.to = f.v])
         /\ UNCHANGED curr
      \/ /\ f.to = None /\ curr # Idle
         /\ ready' = ready \cup {f.v}
         /\ Goto(c, NoFrame) /\ UNCHANGED curr

(* A register holds a vIRQ of another vCPU than v.                         *)
Others(v) == \E i \in Lrs : lr[i].stat # "inactive" /\ lr[i].own # v

(* What the histories make of an injection for v: it cuts into a call in   *)
(* progress, or finds the core or the registers another vCPU's.            *)
Noted(v) ==
  /\ spoilt' = spoilt \cup {w \in {v} : \E c \in Ctxts : Busy(c) /\ frame[c].v = w}
  /\ mixed' = (mixed \/ (\E c \in Ctxts : Busy(c)) \/ curr \in Vcpus \ {v} \/ Others(v))
  /\ cuts' = IF \E c \in Ctxts : Busy(c) THEN cuts + 1 ELSE cuts

(* vgic_inject begins: a vIRQ already in the list returns, a full list     *)
(* drops it, otherwise it is written into the first free cell.             *)
vgic_inject(c, v, q) ==
  LET e == vgic_get_lr_from_virq(v, q)
      f == [NoFrame EXCEPT !.v = v]
  IN  /\ \/ /\ Inserts(v, e) /\ Noted(v)
            /\ Placed(c, v, e, [f EXCEPT !.pc = "insert"])
         \/ /\ ~ Inserts(v, e) /\ ~ vgic_is_lr_in_list(v, e) /\ Noted(v)
            /\ StartSave(c, f) /\ UNCHANGED list
         \/ /\ ~ Inserts(v, e) /\ vgic_is_lr_in_list(v, e)
            /\ UNCHANGED <<list, frame, ghosts>>
      /\ UNCHANGED <<tail, lr, enable, prio, curr, ready>>

(* The list is advanced over the cell just written.                        *)
insert(c) ==
  LET f == frame[c]
  IN  /\ At(c, "insert")
      /\ tail' = [tail EXCEPT ![f.v] = @ + 1]
      /\ StartSave(c, f)
      /\ UNCHANGED <<list, lr, enable, prio, curr, ready>>

(* vgic_context_save_lr: register i goes to the list and is cleared,       *)
(* whether or not there was room for it.                                   *)
vgic_context_save_lr(c) ==
  LET f == frame[c]
      i == f.i
  IN  /\ At(c, "save") /\ i < NR_LR
      /\ \/ /\ i \in f.elrsr
            /\ Goto(c, [f EXCEPT !.i = i + 1]) /\ UNCHANGED <<list, lr>>
         \/ /\ i \notin f.elrsr /\ Inserts(f.v, lr[i])
            /\ lr' = [lr EXCEPT ![i] = ZERO]
            /\ Placed(c, f.v, lr[i], [f EXCEPT !.pc = "save_insert", !.i = i + 1])
         \/ /\ i \notin f.elrsr /\ ~ Inserts(f.v, lr[i])
            /\ lr' = [lr EXCEPT ![i] = ZERO]
            /\ Goto(c, [f EXCEPT !.i = i + 1]) /\ UNCHANGED list
      /\ UNCHANGED <<tail, enable, prio, curr, ready>>

save_insert(c) ==
  LET f == frame[c]
  IN  /\ At(c, "save_insert")
      /\ tail' = [tail EXCEPT ![f.v] = @ + 1]
      /\ Goto(c, [f EXCEPT !.pc = "save"])
      /\ UNCHANGED <<list, lr, enable, prio, curr, ready>>

(* After the loop vgic_inject sorts and refills; the hook has finished.    *)
saved(c) ==
  LET f == frame[c]
      n == tail[f.v]
  IN  /\ At(c, "save") /\ f.i = NR_LR
      /\ \/ /\ f.to # None
            /\ curr' = f.to /\ Goto(c, NoFrame)
         \/ /\ f.to = None /\ n > 0
            /\ StartSort(c, f, "sort", n) /\ UNCHANGED curr
         \/ /\ f.to = None /\ n = 0
            /\ StartRestore(c, f) /\ UNCHANGED curr
      /\ UNCHANGED <<list, tail, lr, enable, prio, ready>>

(* lr_list_heap_sort, one level: the larger son, unless it is smaller than *)
(* dad, moves up. lr_list_heap_create restarts at the root for every pass. *)
LargerSon(a, dad, last) ==
  LET son == 2 * dad + 1
  IN  IF son < last /\ a[son].prio < a[son + 1].prio THEN son + 1 ELSE son

SinksInto(a, dad, last) ==
  /\ 2 * dad + 1 <= last
  /\ ~ (a[LargerSon(a, dad, last)].prio < a[dad].prio)

sift(c, pc) ==
  LET f == frame[c]
      a == list[f.v]
      s == LargerSon(a, f.dad, f.last)
  IN  /\ At(c, pc)
      /\ \/ /\ SinksInto(a, f.dad, f.last)
            /\ list' = [list EXCEPT ![f.v] = Swapped(a, f.dad, s)]
            /\ Goto(c, [f EXCEPT !.dad = s])
         \/ /\ ~ SinksInto(a, f.dad, f.last) /\ f.pass > 0
            /\ Goto(c, [f EXCEPT !.pass = @ - 1, !.dad = 0]) /\ UNCHANGED list
      /\ UNCHANGED <<tail, lr, enable, prio, curr, ready>>

SortEnds(c, pc) ==
  LET f == frame[c]
  IN  At(c, pc) /\ f.pass = 0 /\ ~ SinksInto(list[f.v], f.dad, f.last)

sorted(c) ==
  /\ SortEnds(c, "sort")
  /\ StartRestore(c, frame[c])
  /\ UNCHANGED <<list, tail, lr, enable, prio, curr, ready>>

(* vgic_context_restore_lr: an idle register takes the entry at rm_idx,    *)
(* until that cell is not marked. vgic_lr_list_remove asserts that the     *)
(* cell is before tail.                                                    *)
vgic_context_restore_lr(c) ==
  LET f == frame[c]
      v == f.v
      i == f.i
      a == list[v]
  IN  /\ At(c, "restore") /\ i < NR_LR
      /\ \/ /\ i \notin f.elrsr
            /\ Goto(c, [f EXCEPT !.i = i + 1]) /\ UNCHANGED <<list, tail, lr>>
         \/ /\ i \in f.elrsr /\ a[f.rm].res0
            /\ f.rm < tail[v] /\ tail[v] <= GIC_LR_LIST_NUM
            /\ lr' = [lr EXCEPT ![i] = a[f.rm]]
            /\ list' = [list EXCEPT ![v] = Removed(a, f.rm, tail[v])]
            /\ tail' = [tail EXCEPT ![v] = @ - 1]
            /\ Goto(c, [f EXCEPT !.i = i + 1, !.rm = @ + 1])
         \/ /\ i \in f.elrsr /\ a[f.rm].res0
            /\ ~ (f.rm < tail[v] /\ tail[v] <= GIC_LR_LIST_NUM)
            /\ Stop(c, f) /\ UNCHANGED <<list, tail, lr>>
         \/ /\ i \in f.elrsr /\ ~ a[f.rm].res0
            /\ Goto(c, [f EXCEPT !.i = NR_LR]) /\ UNCHANGED <<list, tail, lr>>
      /\ UNCHANGED <<enable, prio, curr, ready>>

restored(c) ==
  LET f == frame[c]
      n == tail[f.v]
  IN  /\ At(c, "restore") /\ f.i = NR_LR
      /\ \/ /\ n > 0 /\ StartSort(c, f, "resort", n) /\ UNCHANGED <<curr, ready>>
         \/ n = 0 /\ Finish(c)
      /\ UNCHANGED <<list, tail, lr, enable, prio>>

resorted(c) ==
  /\ SortEnds(c, "resort")
  /\ Finish(c)
  /\ UNCHANGED <<list, tail, lr, enable, prio>>

Call(c) ==
  /\ \/ insert(c) \/ vgic_context_save_lr(c) \/ save_insert(c) \/ saved(c)
     \/ sift(c, "sort") \/ sift(c, "resort") \/ sorted(c)
     \/ vgic_context_restore_lr(c) \/ restored(c) \/ resorted(c)
  /\ UNCHANGED ghosts

-----------------------------------------------------------------------------
(* Who calls. Quiet: no call in progress.                                  *)

Quiet == \A c \in Ctxts : ~ Busy(c)

(* rt_hw_trap_irq: a physical interrupt owned by an enabled, mounted vIRQ. *)
rt_hw_trap_irq(v, q) ==
  /\ ~ Busy("irq") /\ frame["thread"].pc # "stopped"
  /\ Busy("thread") => cuts < MAX_CUTS
  /\ q \in HwVirqs \cap enable[v]
  /\ vgic_inject("irq", v, q)

(* ptimer_timeout_function, on the timer thread, whether or not the guest  *)
(* has enabled the timer's vIRQ.                                           *)
ptimer_timeout_function(v) ==
  /\ Quiet /\ curr = Host
  /\ vgic_inject("thread", v, PtimerVirq)

(* switch_hook for a switch from curr to t: a vCPU that leaves for the     *)
(* host is saved, one that is entered from the host is restored, and the   *)
(* handlers for a switch between two vCPUs do nothing.                     *)
switch_hook(t) ==
  /\ \/ /\ curr \in Vcpus /\ t \notin Vcpus
        /\ StartSave("irq", [NoFrame EXCEPT !.v = curr, !.to = t]) /\ UNCHANGED curr
     \/ /\ curr \notin Vcpus /\ t \in Vcpus
        /\ StartRestore("irq", [NoFrame EXCEPT !.v = t, !.to = t]) /\ UNCHANGED curr
     \/ /\ (curr \in Vcpus) = (t \in Vcpus)
        /\ curr' = t /\ UNCHANGED frame
  /\ mixed' = (mixed \/ (t \in Vcpus /\ Others(t))) /\ UNCHANGED <<spoilt, cuts>>

NextOf(r) == IF r = {} THEN {Idle} ELSE r

host_wakes ==
  /\ Quiet /\ curr # Host
  /\ switch_hook(Host)
  /\ UNCHANGED <<list, tail, lr, enable, prio, ready>>

host_waits ==
  /\ Quiet /\ curr = Host
  /\ \E t \in NextOf(ready) : switch_hook(t)
  /\ UNCHANGED <<list, tail, lr, enable, prio, ready>>

(* rt_tick_increase: the time slice of the running vCPU is over.           *)
tick ==
  /\ Quiet /\ curr \in Vcpus
  /\ \E t \in ready \ {curr} : switch_hook(t)
  /\ UNCHANGED <<list, tail, lr, enable, prio, ready>>

(* vcpu_suspend, or the end of the vCPU's thread.                          *)
vcpu_suspend ==
  /\ Quiet /\ curr \in Vcpus
  /\ ready' = ready \ {curr}
  /\ \E t \in NextOf(ready') : switch_hook(t)
  /\ UNCHANGED <<list, tail, lr, enable, prio>>

(* vcpu_go by a shell command.                                             *)
vcpu_go(v) ==
  /\ Quiet /\ curr = Host
  /\ ready' = ready \cup {v}
  /\ UNCHANGED <<list, tail, lr, enable, prio, curr, frame, ghosts>>

-----------------------------------------------------------------------------
(* The guest on the core: writes to its interrupt controller, and what the *)
(* hardware does with the list registers when it acknowledges the highest  *)
(* priority pending vIRQ, and when it deactivates one.                     *)

Guest == Quiet /\ curr \in Vcpus

guest_enables(q) ==
  /\ Guest /\ enable' = [enable EXCEPT ![curr] = @ \cup {q}]
  /\ UNCHANGED <<list, tail, lr, prio, curr, ready, frame, ghosts>>

guest_disables(q) ==
  /\ Guest /\ enable' = [enable EXCEPT ![curr] = @ \ {q}]
  /\ UNCHANGED <<list, tail, lr, prio, curr, ready, frame, ghosts>>

guest_sets_prio(q, p) ==
  /\ Guest /\ prio' = [prio EXCEPT ![curr][q] = p]
  /\ UNCHANGED <<list, tail, lr, enable, curr, ready, frame, ghosts>>

guest_acks(i) ==
  /\ Guest /\ lr[i].stat = "pending"
  /\ \A k \in Lrs :
       /\ lr[k].stat = "pending" => lr[i].prio <= lr[k].prio
       /\ lr[k].stat = "active" => lr[i].prio < lr[k].prio
  /\ lr' = [lr EXCEPT ![i].stat = "active"]
  /\ UNCHANGED <<list, tail, enable, prio, curr, ready, frame, ghosts>>

guest_eois(i) ==
  /\ Guest /\ lr[i].stat = "active"
  /\ lr' = [lr EXCEPT ![i] = ZERO]
  /\ UNCHANGED <<list, tail, enable, prio, curr, ready, frame, ghosts>>

Next ==
  \/ \E c \in Ctxts : Call(c)
  \/ \E v \in Vcpus, q \in Virqs : rt_hw_trap_irq(v, q)
  \/ \E v \in Vcpus : ptimer_timeout_function(v) \/ vcpu_go(v)
  \/ host_wakes \/ host_waits \/ tick \/ vcpu_suspend
  \/ \E q \in Virqs : guest_enables(q) \/ guest_disables(q)
  \/ \E q \in Virqs, p \in Prios : guest_sets_prio(q, p)
  \/ \E i \in Lrs : guest_acks(i) \/ guest_eois(i)

Spec == Init /\ [][Next]_vars

-----------------------------------------------------------------------------
(* Every variable, and every counter of a call in progress, is in range.   *)
(* While a vCPU is not spoilt tail stays within its lr_list, and no call   *)
(* leaves the list or fails the assertion of vgic_lr_list_remove.          *)
TypeOK ==
  /\ list \in [Vcpus -> [Cells -> Entry]]
  /\ tail \in [Vcpus -> Nat]
  /\ lr \in [Lrs -> Entry]
  /\ enable \in [Vcpus -> SUBSET Virqs]
  /\ prio \in [Vcpus -> [Virqs -> Prios]]
  /\ curr \in Threads /\ ready \subseteq Vcpus
  /\ frame \in [Ctxts -> Frame]
  /\ spoilt \subseteq Vcpus /\ mixed \in BOOLEAN /\ cuts \in 0 .. MAX_CUTS
  /\ \A v \in Vcpus \ spoilt : tail[v] <= GIC_LR_LIST_NUM
  /\ \A c \in Ctxts : frame[c].pc = "stopped" => frame[c].v \in spoilt

(* An insertion has written its cell and not yet advanced tail.            *)
Inserting(v) ==
  \E c \in Ctxts : frame[c].pc \in {"insert", "save_insert"} /\ frame[c].v = v

(* tail is the first idle cell, as vgic.h says of it: the marked cells are *)
(* the first tail ones, through every save, swap and removal.              *)
(* vgic_context_restore_lr relies on it when it stops at the first         *)
(* unmarked cell, vgic_lr_list_remove when it asserts rm_idx < tail,       *)
(* vgic_is_lr_in_list when it looks no further. It holds of each vCPU that *)
(* is not spoilt, beside others that are.                                  *)
TailIsFirstIdle ==
  \A v \in Vcpus \ spoilt : ~ Inserting(v) =>
    \A j \in Cells : list[v][j].res0 <=> j < tail[v]

(* No vIRQ is in a vCPU's list twice, whatever saves, injections and       *)
(* switches between vCPUs put there, unless the vCPU is spoilt.            *)
ListedOnce ==
  \A v \in Vcpus \ spoilt : \A j, k \in Cells :
    list[v][j].res0 /\ list[v][k].res0 /\ j # k => list[v][j].vint # list[v][k].vint

(* No list is spoilt, and the registers have served one vCPU and one call  *)
(* at a time.                                                              *)
Orderly == spoilt = {} /\ ~ mixed

(* No two list registers hold the same vIRQ, which the GIC architecture    *)
(* forbids: vgic_inject must take a vIRQ out of its register before the    *)
(* copy it queued can be loaded into another one.                          *)
LrsDistinct ==
  Orderly => \A i, k \in Lrs :
    lr[i].stat # "inactive" /\ lr[k].stat # "inactive" /\ i # k => lr[i].vint # lr[k].vint

(* Between calls a vIRQ is in a register or in the list, not in both: an   *)
(* injection of a vIRQ the guest is handling replaces it.                  *)
NotInBoth == Orderly /\ Quiet => \A v \in Vcpus : \A i \in Lrs :
  lr[i].stat # "inactive" /\ lr[i].own = v => ~ vgic_is_lr_in_list(v, lr[i])

PendingOf(v, l, r) ==
  {l[v][j].vint : j \in {k \in Cells : l[v][k].res0 /\ l[v][k].stat = "pending"}}
  \cup {r[i].vint : i \in {k \in Lrs : r[k].stat = "pending" /\ r[k].own = v}}

(* The guest of v acknowledges register i, or a save finds v's list full.  *)
Acked(v, i) == curr = v /\ lr'[i].stat = "active"
Dropped(v, i) == vgic_is_lr_list_full(v) /\ lr'[i] = ZERO

(* A pending vIRQ is never lost: between the list, the registers and the   *)
(* saves and refills that move it, it stays pending until its own guest    *)
(* acknowledges it, or until a save of the registers meets a full list.    *)
PendingKept ==
  [][Orderly' => \A v \in Vcpus : \A q \in PendingOf(v, list, lr) \ PendingOf(v, list', lr') :
       \E i \in Lrs : lr[i].vint = q /\ lr[i].own = v /\ (Acked(v, i) \/ Dropped(v, i))]_vars
=============================================================================
