------------------------------- MODULE Mutex -------------------------------
(***************************************************************************)
(* The kernel's mutex (ipc.c): recursive, handed over to the first waiter, *)
(* with priority inheritance and timeouts, on the scheduler of Scheduler.  *)
(***************************************************************************)
EXTENDS Scheduler

CONSTANTS
  Mutexes,
  HOLD_MAX,  (* RT_MUTEX_HOLD_MAX                                          *)
  Takes,     (* how often a thread's code takes each mutex before a release*)
  None

ASSUME MutexConstants ==
  /\ HOLD_MAX \in Nat \ {0} /\ None \notin Threads /\ Asleep \notin Mutexes
  /\ Takes \in [Threads -> [Mutexes -> Nat]]
  /\ \A m \in Mutexes : Takes[Idle][m] = 0   \* the idle thread must not block

VARIABLES
  value,   \* mutex->value
  owner,   \* mutex->owner
  hold,    \* mutex->hold
  orig,    \* mutex->original_priority
  queue,   \* mutex->parent.suspend_thread
  has,     \* history: takes that returned RT_EOK to a thread, less its releases
  nested   \* history: threads that asked for a mutex while they owned another

mutexVars == <<value, owner, hold, orig, queue>>
ghosts == <<has, nested>>
vars == <<schedVars, threadVars, mutexVars, ghosts>>

UNSET == 255   \* 0xFF

Init ==
  /\ SchedInit
  /\ value = [m \in Mutexes |-> 1] /\ owner = [m \in Mutexes |-> None]
  /\ hold = [m \in Mutexes |-> 0] /\ orig = [m \in Mutexes |-> UNSET]
  /\ queue = [m \in Mutexes |-> <<>>]
  /\ has = [t \in Threads |-> [m \in Mutexes |-> 0]] /\ nested = {}

-----------------------------------------------------------------------------
(* rt_mutex_take. Without waiting (timeout 0) a mutex that is not free     *)
(* changes nothing but error, as does a release by a thread that is not    *)
(* the owner, and nobody reads error before it is set again.               *)

(* Mutant: the limit is not checked.                                       *)
take_again_unlimited(t, m) ==
  /\ owner[m] = t /\ hold' = [hold EXCEPT ![m] = @ + 1]
  /\ has' = [has EXCEPT ![t][m] = @ + 1]
  /\ UNCHANGED <<schedVars, threadVars, value, owner, orig, queue>>
take_again(t, m) ==
  /\ owner[m] = t
  /\ IF hold[m] < HOLD_MAX
     THEN /\ hold' = [hold EXCEPT ![m] = @ + 1]
          /\ has' = [has EXCEPT ![t][m] = @ + 1]
     ELSE UNCHANGED <<hold, has>>
  /\ UNCHANGED <<schedVars, threadVars, value, owner, orig, queue>>

take_free(t, m) ==
  /\ owner[m] # t /\ value[m] > 0
  /\ value' = [value EXCEPT ![m] = @ - 1]
  /\ owner' = [owner EXCEPT ![m] = t] /\ orig' = [orig EXCEPT ![m] = prio[t]]
  /\ hold' = [hold EXCEPT ![m] = @ + 1] /\ has' = [has EXCEPT ![t][m] = @ + 1]
  /\ UNCHANGED <<schedVars, threadVars, queue>>

(* Mutant: waiters queue in the order of arrival.                          *)
_ipc_list_suspend_fifo(s, t) == Append(s, t)
_ipc_list_suspend(s, t) == Queued(s, t, prio)

(* rt_thread_control: a ready thread moves to the list of its new          *)
(* priority, any other only gets the number.                               *)
Moved(o, pr) == IF stat[o] = "READY" THEN Queued(Without(ready, o), o, pr) ELSE ready
(* Mutant: the owner keeps its priority.                                   *)
inherit_not(t, o) == UNCHANGED <<prio, ready>>
inherit(t, o) ==
  IF prio[t] < prio[o]
  THEN prio' = [prio EXCEPT ![o] = prio[t]] /\ ready' = Moved(o, prio')
  ELSE UNCHANGED <<prio, ready>>

take_blocks(t, m, timed) ==
  /\ owner[m] # t /\ value[m] = 0
  /\ inherit(t, owner[m])
  /\ stat' = [stat EXCEPT ![t] = "SUSPEND"]
  /\ queue' = [queue EXCEPT ![m] = _ipc_list_suspend(@, t)]
  /\ timer' = IF timed THEN timer \union {t} ELSE timer \ {t}
  /\ pc' = [pc EXCEPT ![t] = "block"] /\ call' = [call EXCEPT ![t] = m]
  /\ UNCHANGED <<cur, yield, error, value, owner, hold, orig, has>>

(* A thread may own any number of mutexes: ipc.c sets no limit, no order.  *)
rt_mutex_take(t, m) ==
  /\ Running(t) /\ has[t][m] < Takes[t][m]
  /\ nested' = IF \E k \in Mutexes \ {m} : owner[k] = t THEN nested \union {t} ELSE nested
  /\ \/ take_again(t, m) \/ take_free(t, m)
     \/ \E timed \in BOOLEAN : take_blocks(t, m, timed)

(* After rt_schedule: error is what the timeout left, or RT_EOK.           *)
take_returns(t, m) ==
  /\ cur = t /\ stat[t] = "RUNNING" /\ pc[t] = "back" /\ call[t] = m
  /\ pc' = [pc EXCEPT ![t] = "run"]
  /\ has' = IF error[t] = "EOK" THEN [has EXCEPT ![t][m] = @ + 1] ELSE has
  /\ error' = [error EXCEPT ![t] = "EOK"] /\ call' = [call EXCEPT ![t] = Asleep]
  /\ UNCHANGED <<schedVars, prio, timer, mutexVars, nested>>

-----------------------------------------------------------------------------
(* rt_mutex_release                                                        *)

Gives(t, m) == has' = [has EXCEPT ![t][m] = @ - 1]

release_one(t, m) ==
  /\ owner[m] = t /\ hold[m] > 1
  /\ hold' = [hold EXCEPT ![m] = @ - 1] /\ Gives(t, m)
  /\ UNCHANGED <<schedVars, threadVars, value, owner, orig, queue>>

(* The owner is running, so only its number changes.                       *)
(* Mutant: the inherited priority is kept.                                 *)
restore_not(t, m) == prio
restore(t, m) == [prio EXCEPT ![t] = orig[m]]

release_free(t, m) ==
  /\ owner[m] = t /\ hold[m] = 1 /\ queue[m] = <<>>
  /\ hold' = [hold EXCEPT ![m] = 0] /\ Gives(t, m)
  /\ prio' = restore(t, m)
  /\ value' = [value EXCEPT ![m] = @ + 1]
  /\ owner' = [owner EXCEPT ![m] = None] /\ orig' = [orig EXCEPT ![m] = UNSET]
  /\ UNCHANGED <<schedVars, error, timer, pc, call, queue>>

(* rt_thread_resume takes the thread off the list and stops its timer.     *)
(* Mutant: the timer goes on.                                              *)
stop_timer_not(t) == timer
stop_timer(t) == timer \ {t}

release_hands_over(t, m) ==
  LET next == Head(queue[m])
  IN  /\ owner[m] = t /\ hold[m] = 1 /\ queue[m] # <<>>
      /\ Gives(t, m) /\ prio' = restore(t, m)
      /\ owner' = [owner EXCEPT ![m] = next]
      /\ orig' = [orig EXCEPT ![m] = prio[next]]
      /\ queue' = [queue EXCEPT ![m] = Tail(@)]
      /\ timer' = stop_timer(next)
      /\ ready' = InsertedReady(next) /\ stat' = InsertedStat(next)
      /\ pc' = [pc EXCEPT ![t] = "yield"]
      /\ UNCHANGED <<cur, yield, error, call, value, hold>>

rt_mutex_release(t, m) ==
  /\ Running(t) /\ UNCHANGED nested
  /\ \/ release_one(t, m) \/ release_free(t, m) \/ release_hands_over(t, m)

-----------------------------------------------------------------------------
(* _thread_timeout, in the tick interrupt.                                 *)
_thread_timeout(t) ==
  /\ t \in timer /\ timer' = timer \ {t}
  /\ error' = [error EXCEPT ![t] = "ETIMEOUT"]
  /\ queue' = [m \in Mutexes |-> Without(queue[m], t)]
  /\ rt_schedule(InsertedReady(t), InsertedStat(t), yield, prio)
  /\ UNCHANGED <<prio, pc, call, value, owner, hold, orig, ghosts>>

SchedulerStep(t) ==
  /\ calls_schedule(t) \/ sleep_returns(t)
  /\ UNCHANGED <<mutexVars, ghosts>>

Returns(t) == SchedulerStep(t) \/ \E m \in Mutexes : take_returns(t, m)

Tick == slice_ends /\ UNCHANGED <<mutexVars, ghosts>>

Next ==
  \/ \E t \in Threads :
       \/ Returns(t)
       \/ rt_thread_sleep(t) /\ UNCHANGED <<mutexVars, ghosts>>
       \/ \E m \in Mutexes : rt_mutex_take(t, m) \/ rt_mutex_release(t, m)
       \/ _thread_timeout(t)
  \/ Tick

(* Ticks come and timers expire. When threads that are in the kernel have  *)
(* the core again and again, one of them leaves it, and the owner of a     *)
(* mutex that has the core again and again ends its critical section; that *)
(* any thread gets the core is not assumed.                                *)
Final(m) == \E t \in Threads : /\ Running(t) /\ UNCHANGED nested
                               /\ release_free(t, m) \/ release_hands_over(t, m)
Inner(m) == \E t \in Threads : Running(t) /\ UNCHANGED nested /\ release_one(t, m)
Fairness ==
  /\ WF_vars(Tick) /\ \A t \in Threads \ {Idle} : WF_vars(_thread_timeout(t))
  /\ SF_vars(\E t \in Threads \ {Idle} : Returns(t))
  /\ \A m \in Mutexes : SF_vars(Inner(m)) /\ SF_vars(Final(m))

Spec == Init /\ [][Next]_vars /\ Fairness

-----------------------------------------------------------------------------
Waiting(t, m) == In(queue[m], t)
Handed(t, m) == owner[m] = t /\ pc[t] \in {"block", "back"} /\ call[t] = m /\ has[t][m] = 0

(* Every variable is in range.                                             *)
TypeOK ==
  /\ cur \in Threads /\ ready \in Seq(Threads) /\ yield \subseteq Threads
  /\ stat \in [Threads -> {"READY", "RUNNING", "SUSPEND"}]
  /\ prio \in [Threads -> Nat] /\ error \in [Threads -> {"EOK", "ETIMEOUT"}]
  /\ timer \subseteq Threads
  /\ pc \in [Threads -> {"run", "block", "back", "yield"}]
  /\ call \in [Threads -> Mutexes \union {Asleep}]
  /\ value \in [Mutexes -> 0 .. 1] /\ owner \in [Mutexes -> Threads \union {None}]
  /\ hold \in [Mutexes -> 0 .. HOLD_MAX] /\ orig \in [Mutexes -> Nat]
  /\ queue \in [Mutexes -> Seq(Threads)]
  /\ has \in [Threads -> [Mutexes -> 0 .. HOLD_MAX]] /\ nested \subseteq Threads

(* As its callers see it, a mutex is held by one thread at a time, as      *)
(* often as the mutex says; nobody waits for a free one; and a thread the  *)
(* mutex was handed to is not told of a timeout.                           *)
MutualExclusion ==
  \A m \in Mutexes :
    /\ owner[m] = None => value[m] = 1 /\ hold[m] = 0 /\ queue[m] = <<>>
    /\ owner[m] # None => value[m] = 0
    /\ \A t \in Threads :
         IF owner[m] # t THEN has[t][m] = 0
         ELSE \/ has[t][m] = hold[m] /\ hold[m] > 0
              \/ Handed(t, m) /\ hold[m] = 1 /\ error[t] = "EOK"

(* While a thread waits for a mutex, its owner runs at least at the same   *)
(* priority, also after timeouts and hand-overs, whatever other threads do.*)
(* Neither is claimed to have held two mutexes: original_priority is noted *)
(* per mutex, so a thread that releases one loses what a waiter for the    *)
(* other lent it, and a waiter raised while it waits raises nobody.        *)
NoInversion ==
  \A m \in Mutexes : \A i \in 1 .. Len(queue[m]) :
    owner[m] \notin nested /\ queue[m][i] \notin nested =>
      prio[owner[m]] <= prio[queue[m][i]]

(* "change the owner thread to original priority" (ipc.c): a thread that   *)
(* owns no mutex has its own priority. One that held two may keep what it  *)
(* inherited: the second mutex noted the raised priority as the original.  *)
PriorityRestored ==
  \A t \in Threads \ nested : (\A m \in Mutexes : owner[m] # t) => prio[t] = Base[t]

(* "RT_ASSERT((thread->stat & RT_THREAD_STAT_MASK) == RT_THREAD_SUSPEND)"  *)
(* (thread.c): a thread's timer only ever runs while it is suspended, so   *)
(* an old timeout never hits a thread that goes on or waits anew.          *)
TimeoutFindsSuspended == \A t \in timer : stat[t] = "SUSPEND"

(* A thread of the highest priority that waits for a mutex gets its answer *)
(* even if threads between it and the owner never give up the core, unless *)
(* some thread takes a second mutex: they could wait for each other.       *)
TopGetsMutex ==
  \A t \in Threads :
    (\A u \in Threads \ {t} : Base[t] < Base[u]) =>
      (\E m \in Mutexes : Waiting(t, m)) ~> (pc[t] = "run" \/ nested # {})
=============================================================================
