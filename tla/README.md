# RT-Hypervisor in TLA+

A type-1 hypervisor built into the RT-Thread kernel on AArch64. The host is an
RTOS at EL2; each vCPU of a guest is an RT-Thread thread; guests share one
physical core. This project models the hypervisor's own code
(`src/components/hypervisor`, `src/libcpu/aarch64/cortex-a/hypervisor`, and
what it uses of the kernel in `src/src`), checks the models with TLC on small
instances and proves the central invariants with TLAPS for every instance. Of
RT-Thread itself it covers what guests and hypervisor lean on most: the
scheduler, the soft timers and the mutex.

## The system

| part | state | operations | talks to |
|---|---|---|---|
| shell commands, `hypervisor.c` | `rt_hyp`: slots, bitmap, counters, picked VM | `create_vm` `pick_vm` `run_vm` `pause_vm` `halt_vm` `delete_vm` | calls `vm.c`; read by interrupt handlers |
| VMs and vCPUs, `vm.c` | `struct vm`, `struct vcpu`, statuses | `vm_init` `vm_go` `vm_suspend` `vm_shutdown` `vm_free`, `vcpu_go` `vcpu_suspend` `vcpu_shutdown` `vcpu_get_irq_owner` | kernel threads; called by shell, traps, interrupts, timers |
| virtual console, `vconsole.c` | `curr_vc_idx`, `vdev.is_open` | `attach_vm`, `vc_detach`, `console_mmio_handler` | binds the UART's vIRQ in the vgic |
| virtual GIC, `vgic.c` | vIRQ tables; list registers; `lr_list`, `tail` | register emulation; `vgic_inject`; context save and restore | called by interrupts, timer thread, switch hook |
| world switch, `switch.c`, `virt_arch.c` | EL1, trap, stage-2 and GIC registers | `switch_hook`: four kinds of switch | called by `rt_schedule` |
| virtual timer, `vtimer.c` | `ctl`, `tval`, a kernel soft timer per vCPU | CNTP traps, `ptimer_timeout_function` | injects through the vgic |
| traps, `trap.c` | none | dispatch of exceptions and interrupts | all of the above |
| kernel timers, `timer.c` | `_soft_timer_list`, the timer thread | `rt_timer_start` `rt_timer_stop` `rt_timer_detach` `rt_timer_control`, `rt_soft_timer_check` | calls the virtual timer's function with interrupts on |
| kernel scheduler and mutex, `scheduler.c`, `thread.c`, `ipc.c` | ready lists, thread states, `struct rt_mutex` | `rt_schedule`, `rt_thread_sleep`, `_thread_timeout`, `rt_mutex_take` `rt_mutex_release` | the tick interrupt cuts in everywhere |
| guest memory, `mm.c`, `stage2.c` | block lists, stage-2 tables, page bitmaps | allocate, map, translate, unmap | called by `vm_init` |

What makes it hard: everything runs on one core but nothing is atomic. The
shell (priority 20) preempts vCPU threads (21); the timer thread (4) and
interrupts preempt the shell, in the middle of `delete_vm` too; a scheduler hook
moves registers between them; a vCPU's status is kept twice (`vcpu->status` and
its thread's state) and written from four contexts; a deleted VM leaves behind
armed timers, dead threads, a console index and page tables.

For each part, what correctness means: a slot is handed out once and no reachable
VM is freed (slot table); the two statuses agree and dead threads stay dead
(vCPUs); one guest has the UART (console); a pending vIRQ is neither lost nor
doubled, and the list is what its `tail` says (vgic); a guest runs with its own
registers (world switch); a guest maps only its own memory (stage 2); a store to
the GIC touches only what it names and what the VM was given (GIC emulation); a
timer fires neither early nor late nor after it was detached (timers); one holder,
no inversion, no stale timeout (mutex).

## Modules

| module | models |
|---|---|
| `VmLifecycle` | shell commands, VM and vCPU life, console ownership, and the kernel calls they make |
| `MCVmLifecycle` | TLC instance |
| `VmLifecycleProofs` | `TypeCorrect`, `SlotTableCorrect`, `ConsoleExclusive`, `ThreadsFollowVcpus` |
| `VgicLr` | injection, `lr_list`, list registers, the switch hook's part in it |
| `MCVgicLr` | TLC instance, symmetry of vCPUs |
| `VgicLrProofs` | `ListsCorrect`, `DeliveryCorrect` |
| `WorldSwitch` | `switch_hook` and its handlers, the deferred exchange of stacks in an interrupt |
| `MCWorldSwitch` | TLC instance |
| `WorldSwitchProofs` | `ThreadsCorrect`, `RegistersKept` |
| `Stage2` | guest memory: blocks, stage-2 tables, page bitmap, loading of the image |
| `MCStage2` | TLC instance, symmetry of blocks |
| `Stage2Proofs` | `GuestsApart`, `TablesCorrect`, `TablesImplementMemory` |
| `GuestMemory` | abstract specification: a map from guest addresses to blocks, which `Stage2` implements |
| `VgicDist` | stores to GICD and GICR, their effect on vIRQs and the physical GIC, mounting of the UART |
| `MCVgicDist` | TLC instance, symmetry of one VM's vCPUs |
| `VgicDistProofs` | `BindingCorrect`, `StoresConfined` |
| `SoftTimer` | the kernel's soft timers and their thread |
| `VTimer` | the guests' physical timers on top of `SoftTimer` |
| `MCVTimer` | TLC instance |
| `VTimerProofs` | `TimersCorrect` |
| `Scheduler` | ready queue, `rt_schedule`, time slices, sleeping |
| `Mutex` | `rt_mutex_take`, `rt_mutex_release`, timeouts, on top of `Scheduler` |
| `MCMutex` | TLC instance |
| `MutexProofs` | `MutexCorrect`, `PrioritiesCorrect` |

The modules are separate views of one system and meet in the code they share:
`VmLifecycle` lets `vm_init` fail where `Stage2` says how; `VgicLr` and
`WorldSwitch` follow the same `switch_hook` for the list registers and for the
others; `VTimer` opens up the timer callback that is one step in `VmLifecycle`;
`VgicDist` has the registers behind the enables of `VmLifecycle` and `VgicLr`.

Definitions keep the names of the C functions; `PROJECT.json` maps each to its
lines. A definition named `X_...` above a definition `X` and marked "Mutant" is
a deliberately wrong variant, used to show that a property can fail.

### VmLifecycle

State: the fields of `rt_hyp`; per VM object its status, number of vCPUs, state
of the `vcpus` array, whether it has a gicd and vConsole, and for the UART's
vIRQ `enable` and `hw`; per vCPU its status, its thread's state, whether its
ptimer is armed; the running thread; where the shell is; and `host`, which is
"ok" until an assertion fails or undefined behaviour is reached.

- Failed creations leave bits set, so a later `create_vm` may get an index past
  the array: it performs the write of `hypervisor.c:289`, which falls on
  `curr_vc_idx` and what follows it, sets `curr_vm_idx`, and ends the model with
  `host` "out_of_bounds". `PtrBytes` are the low bytes the pointer may have.
  `TypeOK` and `OneConsole` speak of the states before it.
- VM objects are named by creation order. `total_vm` never decreases, so at
  most `MAX_VM_NUM` objects exist, and a stale pointer is a name no slot holds.
- A command is one step, since only interrupts and the timer thread can cut into
  the shell and only `delete_vm` leaves shared state half-changed: it takes
  four steps (halt, unlink, free, clear the bit).
- `vcpu_shutdown` takes two: the thread suspends itself in the middle.
- Reading NULL, an unset array entry, a freed object or past an array stops the
  host with the reason, and so does a failed `RT_ASSERT` when `RT_DEBUG`.
  A stopped host takes no step, so these runs do not check deadlock.
- `HCR_TWI` says whether WFI traps; both headers of the repository leave it
  off, and the handler is written for it on. The runs cover both.
- `Failures` turns on every failing allocation and every mistyped command.
- `OsVcpus` are the `cpu.num` of the images: `os.c` has 1 and a zero-filled
  entry; the structures allow more, and a two-core image is checked too.
- Left out: memory leaks, failures of `vc_create` and `vtimer_ctxt_create`
  (unchecked by their callers), EL2 bring-up, everything that only prints.

### VgicLr

State: each vCPU's `lr_list` and `tail`, the core's list registers, `enable` and
`prio` of the vIRQs, the running thread, the ready vCPUs, and per context
("irq", "thread") the call in progress with its loop counters.

- The loops of save, sort and restore run one iteration per step; the write of
  `lr_list[tail]` and `tail++` are two steps. An interrupt can start an injection
  inside the timer thread's, for the same vCPU or another, since
  `rt_soft_timer_check` enables interrupts around the timeout function.
  `MAX_CUTS` bounds how often.
- `TailInits` is what `rt_malloc` may leave in `tail`, which `vgicr_init` does
  not set: any number, also past the list.
- Both break what the list code promises. Two histories, not in the code, say
  where: `spoilt` has the vCPUs whose tail did not begin at 0 or whose list two
  calls worked on at once; `mixed` is set once two vCPUs, or two calls, used the
  list registers at the same time. `TypeOK`, `TailIsFirstIdle` and `ListedOnce`
  are claimed of every vCPU that is not spoilt, beside those that are;
  `LrsDistinct`, `NotInBoth` and `PendingKept` of the registers as long as
  nothing is spoilt or mixed (`Orderly`).
- A call that reads or writes past `lr_list`, or fails the assertion of
  `vgic_lr_list_remove`, is "stopped" and the model ends there, so deadlock is not
  checked; `TypeOK` says that only a spoilt vCPU's call ever is.
- "irq" also stands for the switch hook, which `rt_schedule` calls with
  interrupts off.
- A list entry keeps vINTID, priority, state and the RES0 bit the code uses as
  its mark; `own`, the vCPU it was injected for, exists only in the model.
  Injecting a disabled vIRQ queues the value 0, as in the code.
- The guest's acknowledge and deactivate are the GIC hardware's.
- Left out: AP1R, VMCR, HCR and SRE copies; the maintenance interrupt (an
  enable bit without a handler); physical INTIDs; `virq->state`.

### WorldSwitch

State: `curr`, the kernel's running thread; `cpu`, whose stack the core is on;
the core's registers, TGE and VTTBR_EL2; each vCPU's saved registers and each
VM's saved root; the ready threads; the interrupt in progress and the switch it
has deferred.

- EL1 registers are kept by how the code treats them: `el1` (written by the guest
  and the hook), `id` (VMPIDR and VPIDR, written by the hook alone), `cpacr` and
  `vbar` (overwritten by `activate_trap` and `deactivate_trap`, since in the nVHE
  build that is modelled they are the guest's own). The VHE build uses names the repository does not define.
- In thread context `rt_schedule` changes stacks at once. In an interrupt
  `rt_hw_context_switch_interrupt` notes the first `from` and the last `to`, the
  hook moves the registers immediately, and `vector_irq` exchanges the stacks on
  the way out. `rt_schedule` may run several times in one interrupt.
- `file`, `mixed` and `mixedVm` are not in the code: the registers each vCPU
  believes it has, and the vCPUs and VMs that took part in a switch without the
  host in between. `RegsKept` and `RootKept` speak of those that did not.
- `GuestRegs` and `GuestVals` bound what a guest writes: one register of the kept
  kind and one value besides the reset one tell a vCPU that wrote from one that
  did not. `IdOf` is `vcpu->id`, the index within the VM, which VMPIDR shows: it
  tells the vCPUs of one VM apart, and is 0 for the first of every VM.
- `vm_free` resets the saved state, so that a slot's next VM starts afresh.

### Stage2

State: the VM in each slot, its image, who is online; per slot the level 1
table, the table pages and their bitmap; the owner of every allocated block; and
`job`, how far the `vm_init` in progress has come.

- Addresses count 2 MB blocks, the only size `map_vma_bk` maps. `S2_PUD_IDX` and
  `S2_PMD_IDX` split them as in the code.
- `vm_init` takes a step per block allocated and per block mapped. It may fail at
  each, as in the code without undoing anything, and be called again.
- `delete_vm` changes nothing of the tables and frees no block. It needs the VM's
  vCPUs (`made`): `vm_shutdown` of a VM that was never run, or whose `vm_init`
  failed before `vcpus_create` was done, reads entries that are not there, and
  `delete_vm_faults` ends the model.
- An entry that is already set is taken for a table: the model keeps the entry
  and uses up the block. What `s2_map_pte` writes into the guest's block, and that
  its loop may run past the page, is left out.
- `s2_translate` of an unmapped address tests the address of the entry instead of
  the entry: it fails cleanly only for the first entry of a missing table
  (`os_img_load_fails`) and otherwise reads through a null pointer; `host`
  stops there, and deadlock is not checked.
- `tenants` is not in the code: the VMs a slot has had.
- `bitmap_find_next` is not in the repository; it is taken to return the first
  clear bit, or the last bit when all are set, as its caller expects.
- Left out: `s2_unmap` (no caller), 1 GB blocks, 4 KB pages, offsets in a block.

`GuestMemory` is what the rest of the system may rely on, without tables: per slot
a map that only grows, one address at a time, to a block of the VM that is in the
slot, mapped nowhere else. `ImplementsMemory` in `Stage2` is the refinement:
`mem` is `Walk`, the translation `s2_translate` computes, and every step of
`create_vm`, `delete_vm` and `vm_init`, failures included, is a step of
`GuestMemory` or changes nothing of it. It does not promise that a VM in a reused
slot sees only its own blocks; that is `slot_reuse`.

### VgicDist

State: every vIRQ (enable, state, priority, configuration, `hw`, physical
number), the physical GIC's lines, the running vCPU, the trapped store being
emulated, the console's VM; and `given`, which is not in the code: the interrupts
the host ever mounted to a VM.

- A store is a function from the fields of the register to values. GICD
  handlers start at the interrupt the offset names; GICR handlers compute it and
  use 0 (`gicr_first`).
- A store is taken (`Trap`) and emulated in two steps, since the trap handler
  runs with the state the guest left; nothing else runs in between.
- `vgic_virq_mount` and `vgic_virq_umount` act only on a vIRQ its guest has
  enabled. Whether closing and opening the UART masks the line depends on
  reference counts of the device and is left open (`ReopenDevice`).
- `VIRQ_NUM` is any number that covers the UART. `os.c` has 127, so that vIRQ 127
  is announced by GICD_TYPER and left as `rt_malloc` returned it (`Junk`); the
  run has a `VIRQ_NUM` one short of a word too. `HwWasMounted` and
  `PhysOnlyMounted` are of the vIRQs that were set up (`SetUp`).
- `Words` are all the words `vgic_gicd_write_emulate` accepts: those of the
  private interrupts, for which most handlers index before `virqs`, and those
  above the announced lines, which index past it. Such a store
  (`vgic_emulate_outside`) takes what it finds for a vIRQ, may send it on to any
  physical line, and ends the model (`wild`), so deadlock is not checked.
- Left out: loads, GICD_CTLR and the GICR_RD frame.

### SoftTimer and VTimer

State: `rt_tick`, the list, per timer its timeout, time and flags, the timer
thread's place and locals; in `VTimer` each guest's ENABLE and IMASK. `left` and
`lag` are not in the code: the true number of ticks until a timer is due, and
the ticks since the timer thread woke.

- The tick wraps at `TICKS`, which stands for 2^32; differences are unsigned as
  in the code. Seven values make every order of timeouts meet the wrap.
- The timer thread has a step wherever interrupts are enabled: after it looked
  at the list, after it read the tick, before and during a timeout function.
- The timer thread has priority 4, above every caller, so callers run only while
  it waits or inside a timeout function. `LAG` bounds the ticks that may pass
  while it is awake: its work between two sleeps takes less than that many.
- A value of CNTP_TVAL that is not below `RT_TICK_MAX / 2` fails an assertion (the
  debug build, which is the one modelled), and a
  trapped read writes through a null pointer; `host` stops, so deadlock is not
  checked. 0 and multiples of 2^32 are accepted: such a timer is due again as soon
  as it is started and the loop of `rt_soft_timer_check` does not end. While it
  spins (`Spinning`) ticks go on although the thread does not sleep, and `GivesWay` is
  claimed until a guest has armed such a timer (`ZeroTime`). TVAL counts system-counter units and is used as kernel ticks.
- `timeout_tick` is 0 in the model while a timer is off the list, where nothing
  reads it. `ptimer.tval` is only written. ISTATUS is never set.
- Left out: the upper rows of the skip list, which only shorten the search; the
  vtimer's save and restore hooks, which have no caller.

### Scheduler and Mutex

State: the running thread, the ready queue, and per thread its state, yield
mark, priority, error, timer, and where it is in a blocking call; per mutex its
fields and waiters. `has`, the takes that returned RT_EOK less the releases, is
what callers believe they hold and is not in the code; nor is `nested`, the threads
that ever asked for a mutex while they owned another.

- A blocking call has three steps: the thread marks itself suspended; it calls
  `rt_schedule`; it returns and reads `thread->error`. The tick and timeouts come
  between any two.
- A timed wait may expire at any moment. A take that does not wait and a release
  by another thread change nothing that is read.
- A thread may own any number of mutexes and take them in any order, as in the code.
  `Takes` bounds how often a thread's code takes each. Priority inheritance does not
  survive two mutexes (see "Met on the way"), so `NoInversion` and
  `PriorityRestored` are claimed of the threads outside `nested`, beside those in it,
  and `TopGetsMutex` until a thread enters it.
- Left out: SMP, `rt_mutex_detach` and `rt_mutex_delete`, signals, and the other
  kinds of IPC object.

## Runs

Passing:

- `lifecycle_debug`: 2 slots, 3 bitmap bits, images with 0 and 2 vCPUs,
  assertions on, all failures (1.8 M states). Two slots are the least in which one VM
  can be deleted while another has the console or the interrupt; the third bit
  lets the bitmap run past the array; two vCPUs let a loop over them stop half-way.
- `lifecycle_release`: assertions off, one vCPU (3.2 M states). It reaches what
  the debug build stops before: paused VMs, threads started again,
  the rest of `vcpu_shutdown`.
- `lr_one`: one vCPU, 2 registers, 2 cells, 3 vIRQs, 2 priorities, a tail that
  begins at 0, inside or past the list, and up to two interrupts that cut into an
  injection (4.2 M states): more vIRQs than registers and than cells, so the list
  fills and saves meet it full, and the registers are refilled by priority.
- `lr_two`: two vCPUs, 1 register, 2 cells, a tail at 0 or past the list, one
  interrupt that cuts in (4.2 M states): the list fills, each vCPU meets the other's
  vIRQs in the register, and one vCPU's list is spoilt while the other's is not.
- `world_switch`: VMs with one and two vCPUs, a host thread and idle (1.5 M
  states): the least in which all four kinds of switch happen, and in which one
  VM's vCPUs follow each other. The first vCPUs of the two VMs have the same id.
- `stage2`: 2 slots, 6 blocks, 2 pages, 3 x 2 entries, four images (27 k
  states): memory that spans two level 1 entries, entries shared by two images,
  images outside their memory, more entries than pages, and blocks enough for a
  failed attempt and its repetition. It also checks the refinement of `GuestMemory`.
- `vtimer`: two guests' timers and one of other code, 7 ticks, lag 1 (1.0 M
  states): three timers are the least in which one is inserted between two
  others, and the tick wraps within every period. TVAL is 0, on both sides of the
  assertion and of the 32-bit cut.
- `vgic_dist`: 3 vCPUs in 2 VMs, words of 2 bits, 2 private (one SGI) and 2 shared
  vIRQs of which the last is not set up, registers with room for 6, at most 3
  stores (2.2 M states): a private word, an announced one and one above in the bit
  registers, more in the others, tell a wrong offset from a right one and reach
  both ends of `virqs`; three stores let a guest enable, be mounted, disable and
  store again while the console moves.
- `mutex`: three threads of three priorities and idle, two mutexes of which the
  lowest thread takes both in either order, one held up to twice (245 k states): a
  middle thread can come between owner and waiter, and the owner can release the
  two in either order while the others wait.

Liveness. `vtimer` checks `GuestInterrupted` and `GivesWay` under weak fairness
of the tick interrupt and of the timer thread, which has the highest priority
of all threads and is preempted by interrupts only; guests and other code may
stop. `GivesWay` ends where a guest arms a timer of time 0.
`mutex` checks `TopGetsMutex` under weak fairness of the tick and of each timeout,
and strong fairness of returns and releases: when threads inside the kernel have the
core again and again one of them leaves it, and when owners of a mutex have it again
and again one ends its critical section. That a thread gets the core is
not assumed but is what priority inheritance must provide. In the other modules no
fairness is assumed: a guest's progress depends on priorities its vCPUs never
get (any host thread starves them).

Disagreements between the code and what the repository says of it, each a run in
which TLC finds the violation (quotations in `PROJECT.json`, "findings"):

- `resume_lost`: pause and run again, and the VM is never scheduled.
- `guest_regs`: a switch between two VMs moves no registers, the stage-2 root
  included.
- `slot_reuse`: a VM runs, is deleted, and a new VM in its slot runs on its memory.

Met on the way and not given a run of their own. The first seven are in the passing
runs, and bound what the properties there claim:

- After failed creations `create_vm` writes behind `rt_hyp.vms`
  (`hypervisor.c:289`) and makes that index the picked VM's (`host` "out_of_bounds").
- An interrupt inside the timer thread's `vgic_inject` for the same vCPU writes the
  same cell, and both advance `tail` (`vgic.c:992`, by `timer.c:753`; the lock is a
  comment): a pending vIRQ is lost, `tail`, which `vgic.h:244` calls "tag first idle
  in lr_list", marks an idle cell as used, and since the test for a full list is
  `==`, it can pass the end of the list.
- `tail` is not initialised (`vgic.c:93`): with any other value than 0 the list code
  never sees its entries, or runs past the array.
- A save of the registers that meets a full list clears the register without keeping
  its vIRQ (`vgic.c:722`).
- `vgicd_init` leaves vIRQ 127 of an image with `virq_num` 127 as `rt_malloc`
  returned it (`vgic.c:60`), so that `hw` may be set and a store reach a physical
  line; stores to words outside the announced lines index outside `virqs`
  (`vgic.c:186`, `:277`, `:292`, accepted by `:319`).
- A guest that writes 0 to CNTP_TVAL and enables its timer keeps the timer thread in
  the loop of `timer.c:727` for ever; shell and guests starve.
- With two mutexes both `NoInversion` and `PriorityRestored` fail. Releasing the
  second restores the priority from before the first one's waiter; and a thread that
  is raised by a waiter for the first, takes the second, which notes the raised
  priority (`ipc.c:967`), and releases the first, then the second, is set to the
  inherited priority again (`ipc.c:1134`) and keeps it owning nothing.
- `lr_list_heap_sort` puts the largest value first, in the GIC the lowest priority,
  where `vgic.c:1034` says "pick nr_lr highest priority interrupt".
- A guest detached with its UART vIRQ disabled keeps `hw` and takes the interrupt
  back by enabling it (`vgic.c:903`). `PhysOnlyMounted` therefore speaks of
  interrupts ever mounted, not of those mounted now.
- A store to GICR_ICFGR1 changes the SGIs, of which `vgic.c:109` says "For SGIs,
  this field always indicates edge-triggered."
- Giving back an inherited priority does not call `rt_schedule` when nobody waits
  (`ipc.c:1134`), so a higher ready thread waits for the next tick.
- A timer whose time is within a few ticks of half the range is put before one that
  is late by as much (`timer.c:468`), the reason for `Slack` below.
- `_ipc_list_resume_all` tests its list with interrupts enabled (`ipc.c:227`).
- An interrupt handler that starts a soft timer just before the timer thread
  suspends itself is not noticed until the next start (`timer.c:801`).
- `pause_vm` fails the assertion of `rt_thread_suspend` in a debug build
  (`thread.c:844`), and the ptimer of a faulted vCPU that of `rt_thread_startup`
  (`thread.c:355`): `host` values "assert_self" and "assert_init".
- `total_vm` is not decremented, so `create_vm` reports "full" after `MAX_VM_NUM`
  creations (`hypervisor.c:218`).
- `vcpu_get_irq_owner` gives up at a VM without a gicd and hides the VMs behind it
  (`vm.c:244`).
- Deleting the console's VM leaves `curr_vc_idx` at an empty slot (`hypervisor.c:481`).
- The refill skips the entry swapped into the cell it freed (`vgic.c:775`).
- The guest's CPACR_EL1 and VBAR_EL1 are overwritten at every switch
  (`virt_arch.c:186`, `:258`).
- `L2_BLOCK_OA_MASK` is [47:20], not [47:21] (`stage2.h:144`): `s2_translate` drops
  bit 20. The second image of `os.c` is loaded outside its memory.

## Proofs

`VmLifecycleProofs` (any number of slots, bits, vCPUs, both builds; assumptions
`VmConstants`, `VmNames`):

- `TypeCorrect`: `Spec => []TypeOK`. `TypeOK` is inductive; the write behind the array
  is one of the steps it is proved of.
- `SlotTableCorrect`: `SlotsMarked` and `LinkedNotFreed`. Alone they are not
  inductive: clearing a bit is safe only because the slot was unlinked, freeing
  only because no other slot holds the VM. `SlotInv` adds that slots hold distinct,
  created VMs and what `delete_vm` holds at each of its steps.
- `ConsoleExclusive`: `OneConsole`. `ConsoleInv` adds that only VMs with a
  vConsole are open, and that an online VM has one; it uses `SlotInv` so that
  a reused slot cannot hold an open VM.
- `ThreadsFollowVcpus`, for `RT_DEBUG` (a build with assertions):
  `StatusMatchesThread`, `RunnableIsLinked` and the action property
  `DeadStaysDead`. Without assertions `rt_thread_startup` queues closed threads
  again, so the hypothesis is needed. `LifeInv` adds which thread states
  go with which status, that threads of a VM that never ran have not started, that a vCPU inside `vcpu_shutdown` is
  offline, that the thread on the core is ready, and that `delete_vm` unlinks a VM
  only when all its threads are closed. A host that an assertion stopped keeps
  only `AliveLinked`: the function it stopped in is half done.

`VgicLrProofs` (any number of vCPUs, registers, cells, vIRQs, priorities, initial
tails and nested injections; assumptions `LrConstants`, `LrNames`, no others):

- `ListsCorrect`: `TypeOK`, `TailIsFirstIdle`, `ListedOnce`. `IInv` bounds the
  loop counters of every call in progress (`Calls`), and says of every list that is not
  spoilt that one call at a time works on it, that its
  marks are those of `tail`, counting the cell of a half-done insertion as used, that
  vIRQs differ, and that a sort stays within the used cells, since a swap with an
  unused cell would break the marks (`ListInv`). A spoilt vCPU's call
  writes no list but its own, which is why the others keep theirs.
- `DeliveryCorrect`: `LrsDistinct`, `NotInBoth` and the action property `PendingKept`.
  `LrInv` is `Orderly => LrOK`. `NotInBoth` holds between calls only; `LrOK` says what
  holds inside them: while a switch saves, a vIRQ in both places is pending in the list
  (`RegsOK`); the set of idle registers a loop read before its first write is
  still right for the registers it has not visited (`LoopOK`); the call works for the
  vCPU whose vIRQs the registers hold (`UserOK`). After two vCPUs have mixed, the two
  invariants do not hold of the code: `switch_hook` leaves one vCPU's vIRQs in
  the other's registers.

`WorldSwitchProofs` (any VMs, vCPUs, host threads and register values;
assumptions `WsConstants`, `WsNames`):

- `ThreadsCorrect`: `TypeOK`, `StacksMatch`, `TrapsMatch`. What holds at any moment
  is that TGE fits `curr`, not the stack the core is on; `TrapsOfCurr` says so, and
  `StacksMatch` carries it to the code that runs.
- `RegistersKept`: `RegsKept` and `RootKept`, from the same `WsInv`.

`Stage2Proofs` (any number of slots, blocks, pages, table entries and images;
assumptions `S2Constants`, `S2Names`):

- `GuestsApart`: `SlotsApart` and `OwnBlocks`. The tables of two slots stay apart
  because a block keeps its owner and a VM its slot: `Owned` says that a mapped
  block's owner is or was the slot's VM, `Created` that a VM has one slot,
  `JobInv` that a block about to be mapped is its VM's and not mapped yet.
- `TablesCorrect`: `TypeOK`, `PagesOnce`, `OnlineMapped`. `JobInv` adds that every
  address `vm_init` has passed is mapped; that no later step unmaps one follows
  from `Grown`: a step changes at most one entry, and only an empty one.
- `TablesImplementMemory`: `Spec => ImplementsMemory`. Every step of the tables is a
  step of `GuestMemory` under the mapping of `Stage2`, or changes nothing that it
  sees (a page taken for an empty level 2 table, a failure). It rests on the
  invariant of the two theorems above.

`VgicDistProofs` (any VMs, vCPUs, word size, fields, priorities, `VIRQ_NUM`, length of
`virqs` and junk in it; assumption `VgicDistConstants`, no others):

- `BindingCorrect`: `TypeOK` and `HwWasMounted`, together inductive.
- `StoresConfined`: the action properties `OnlyNamed` and `PhysOnlyMounted`.
  `StoreStep` says what one handler does; that a bound vIRQ has its own number,
  from `HwWasMounted`, is why it reaches one line at most.

`MutexProofs` (any threads, priorities, mutexes, recursion limit and nesting;
assumptions `ThreadConstants`, `MutexConstants`):

- `MutexCorrect`: `TypeOK`, `MutualExclusion`, `TimeoutFindsSuspended`. Mutual
  exclusion alone does not say who may be handed the mutex. `Blocked` adds that a
  suspended thread sleeps or is once in the queue of the mutex it called for, is
  not its owner and has no error; `Told` that a thread resumed and not yet back
  owns the mutex, or has a timeout's error and does not. The list lemmas say what
  inserting into and removing from a queue keep, whatever the priorities, so the
  argument does not use inheritance. For any nesting, hence also where
  `NoInversion` fails.
- `PrioritiesCorrect`: `NoInversion` and `PriorityRestored`, beside threads that nest.
  `PrioInv` adds, for threads outside `nested`, that one owns at most one mutex and
  none while it waits, that the priority remembered for its mutex is its base one, and
  that in each queue nobody of lower priority stands before such a thread: a waiter that
  owns nothing inherits nothing while queued, and any other can only be raised.

`VTimerProofs` (any timers, vCPUs, width of the tick and lag; assumptions
`TimerConstants`, `VTimerConstants`):

- `TimersCorrect`: `TypeOK`, `EarliestFirst`, `Timely`, `DetachedIsOff`,
  `CtlMatchesTimer` and the action property `NotEarly`, under `Slack`: a
  timer's time plus 2 * `LAG` is at most `TICKS - HALF`. The code compares
  timeouts by unsigned differences, right only as long as two listed
  timers are less than half the range apart; a timer may be 2 * `LAG` late when
  another is inserted behind it. With `LAG` at most 1 every time that passes the
  kernel's own assertion leaves that much room. With 11 ticks, lag 2 and a time of 4
  TLC finds `EarliestFirst` violated. `IInv` relates each listed timer's `timeout`,
  the wrapped tick and the true time left (`Dues`); says at every point of
  the timer thread how late the first timer can be, also between its reading of the
  tick and its sleep (`Waits`); and ties the guest's control register to the two
  lists (`Owners`). The lemmas on the list say where `Inserted` puts a timer and
  what `Without` keeps.

`TypeOK` of `WorldSwitch`, `Stage2` and `VgicDist` is proved and not listed in a run.
`LifeInv`, `LrInv`, `PrioInv` and the timers' `IInv` were checked by TLC before they
were proved, on the instances of `lifecycle_debug`, `lr_one` and `lr_two`, `mutex` and `vtimer`.

Only model-checked: the liveness properties `GuestInterrupted`, `GivesWay` and
`TopGetsMutex`, since TLAPS does not reason about fairness. Every invariant and
every action property of a passing run is proved, under the assumptions named above.

## Plan

Every part of the hypervisor with state of its own has a module. Left, in this order:

1. Proofs: what two vCPUs that share the list registers still guarantee; the
   order of the scheduler's ready queue.
2. `Stage2`: offsets inside a block and the copy of `os_img_load`.
3. `Mutex`: detach and delete; then semaphores on the same `Scheduler`.

## Not modelled

- The EL2 bring-up, the assembly of the context switch, the decoding of ESR_EL2:
  no state of their own that outlives the step.
- `vdev.c`, `hyp_fdt.c`: empty files or a structure.
- The UART's data path, and everything that only prints.
- The rest of the repository, well over nine tenths of its lines, is RT-Thread's
  component library (file systems, network stacks, libc layers), drivers, board
  support and ports to other processors. The hypervisor neither calls nor changes
  it, so nothing in this project depends on it.
