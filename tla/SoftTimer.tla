----------------------------- MODULE SoftTimer -----------------------------
(***************************************************************************)
(* The kernel's soft timers (timer.c): a list ordered by timeout, and a    *)
(* thread of high priority that sleeps until the first is due, calls its   *)
(* timeout function with interrupts enabled and starts it again if it is   *)
(* periodic. Time is the 32-bit rt_tick, which wraps; TICKS stands for     *)
(* 2^32.                                                                   *)
(***************************************************************************)
EXTENDS Integers, Sequences

CONSTANTS
  Timers,    (* soft timers                                                *)
  Periodic,  (* those created RT_TIMER_FLAG_PERIODIC                       *)
  TICKS,     (* number of values of rt_tick_t                              *)
  Times,     (* timeouts that other code asks for                          *)
  LAG,       (* ticks that may pass while the timer thread is awake        *)
  None

LATE == 2 * LAG + 1                   \* bound of left: later is not told apart
HALF == (TICKS - 1) \div 2            \* RT_TICK_MAX / 2
Tick == 0 .. TICKS - 1

ASSUME TimerConstants ==
  /\ TICKS \in Nat \ {0} /\ LAG \in Nat \ {0} /\ Periodic \subseteq Timers
  /\ Times \subseteq Nat \ {0} /\ \A n \in Times : n < HALF
  /\ None \notin Timers

VARIABLES
  tick,      \* rt_tick
  soft,      \* bottom row of _soft_timer_list
  timeout,   \* timeout_tick; 0 while it is not read, off the list
  init,      \* init_tick
  active,    \* timers with RT_TIMER_FLAG_ACTIVATED
  periodic,  \* timers with RT_TIMER_FLAG_PERIODIC
  gone,      \* timers that were detached
  pc,        \* where the timer thread is
  at,        \* t of rt_soft_timer_check
  temp,      \* list of rt_soft_timer_check
  next,      \* next_timeout of _timer_thread_entry
  wake,      \* timeout_tick of the timer thread's own (hard) timer
  lag,       \* ticks since the timer thread woke (not in the code)
  left       \* ticks until a listed timer is due, at least -LATE (not in the code)

timerVars == <<timeout, init, active, periodic, gone>>
locals    == <<at, next, wake, lag>>
stVars    == <<tick, soft, timerVars, pc, temp, locals, left>>

(* Differences of ticks are unsigned: below HALF, the first is the later.  *)
(* Mutant: the values are compared as they are.                            *)
Passed_unwrapped(now, t) == now >= t
Passed(now, t) == (now - t) % TICKS < HALF

Suspended == pc \in {"suspended", "delayed"}
Listed(t) == \E i \in 1 .. Len(soft) : soft[i] = t

Init ==
  /\ tick = 0 /\ soft = <<>> /\ timeout = [t \in Timers |-> 0]
  /\ init \in [Timers -> Times] /\ active = {} /\ periodic = Periodic /\ gone = {}
  /\ pc = "look" /\ at = None /\ temp = {} /\ next = 0 /\ wake = 0
  /\ lag = 0 /\ left = [t \in Timers |-> 0]

-----------------------------------------------------------------------------
(* rt_timer_start, rt_timer_stop and the others, with interrupts disabled. *)

(* _timer_remove: rt_list_remove of the timer's node, if it is linked.     *)
Without(s, t) ==
  IF \A i \in 1 .. Len(s) : s[i] # t THEN s
  ELSE LET i == CHOOSE i \in 1 .. Len(s) : s[i] = t
       IN  [j \in 1 .. Len(s) - 1 |-> IF j < i THEN s[j] ELSE s[j + 1]]

(* The place of a timer: before the first one that is due later, behind    *)
(* those due at the same tick. The upper rows of the skip list only make   *)
(* the search shorter.                                                     *)
(* Mutant: the timeouts are compared as they are.                          *)
Before_unwrapped(s, due) ==
  {i \in 1 .. Len(s) : timeout[s[i]] > due /\ \A j \in 1 .. i - 1 : timeout[s[j]] <= due}
Before(s, due) ==
  {i \in 1 .. Len(s) : /\ timeout[s[i]] # due /\ Passed(timeout[s[i]], due)
                       /\ \A j \in 1 .. i - 1 :
                            ~(timeout[s[j]] # due /\ Passed(timeout[s[j]], due))}
Inserted(s, t, due) ==
  IF Before(s, due) = {} THEN Append(s, t)
  ELSE LET i == CHOOSE i \in Before(s, due) : TRUE
       IN  [j \in 1 .. Len(s) + 1 |-> IF j < i THEN s[j] ELSE IF j = i THEN t ELSE s[j - 1]]

(* _timer_remove, the new timeout, the insertion. Only a thread that is     *)
(* suspended is resumed; while a timeout function runs _soft_timer_status   *)
(* is BUSY and nothing is resumed.                                         *)
resume_timer_thread ==
  IF Suspended THEN pc' = "check" /\ lag' = 0 /\ wake' = 0
  ELSE UNCHANGED <<pc, lag, wake>>

Starts(t) ==
  LET due == (tick + init[t]) % TICKS
  IN  /\ soft' = Inserted(Without(soft, t), t, due)
      /\ timeout' = [timeout EXCEPT ![t] = due]
      /\ left' = [left EXCEPT ![t] = init[t]]
      /\ active' = active \cup {t}

rt_timer_start(t) ==
  /\ t \notin gone /\ Starts(t)
  /\ temp' = temp \ {t}
  /\ resume_timer_thread
  /\ UNCHANGED <<tick, init, periodic, gone, at, next>>

Unlists(t) ==
  /\ soft' = Without(soft, t) /\ temp' = temp \ {t}
  /\ timeout' = [timeout EXCEPT ![t] = 0] /\ left' = [left EXCEPT ![t] = 0]

(* A timer that is not activated is left alone.                            *)
rt_timer_stop(t) ==
  /\ t \notin gone
  /\ IF t \in active THEN Unlists(t) /\ active' = active \ {t}
     ELSE UNCHANGED <<soft, temp, timeout, left, active>>
  /\ UNCHANGED <<tick, init, periodic, gone, pc, locals>>

rt_timer_detach(t) ==
  /\ t \notin gone /\ Unlists(t) /\ active' = active \ {t} /\ gone' = gone \cup {t}
  /\ UNCHANGED <<tick, init, periodic, pc, locals>>

rt_timer_init(t, n) ==
  /\ t \in gone /\ gone' = gone \ {t}
  /\ init' = [init EXCEPT ![t] = n]
  /\ periodic' = IF t \in Periodic THEN periodic \cup {t} ELSE periodic \ {t}
  /\ UNCHANGED <<tick, soft, timeout, active, pc, temp, locals, left>>

(* rt_timer_control. A new time takes effect at the next start.            *)
set_time(t, n) ==
  /\ t \notin gone /\ init' = [init EXCEPT ![t] = n]
  /\ UNCHANGED <<tick, soft, timeout, active, periodic, gone, pc, temp, locals, left>>
set_periodic(t, p) ==
  /\ t \notin gone
  /\ periodic' = IF p THEN periodic \cup {t} ELSE periodic \ {t}
  /\ UNCHANGED <<tick, soft, timeout, init, active, gone, pc, temp, locals, left>>

(* Who calls these: the timeout function in progress, and threads of lower *)
(* priority while the timer thread waits.                                  *)
Callers == Suspended \/ pc = "call"

-----------------------------------------------------------------------------
(* The timer thread. Interrupts are enabled between its steps.             *)

(* _timer_list_next_timeout                                                *)
look ==
  /\ pc = "look"
  /\ IF soft = <<>> THEN pc' = "empty" /\ UNCHANGED next
     ELSE pc' = "got" /\ next' = timeout[Head(soft)]
  /\ UNCHANGED <<tick, soft, timerVars, temp, at, wake, lag, left>>

suspend_self ==
  /\ pc = "empty" /\ pc' = "suspended" /\ lag' = 0
  /\ UNCHANGED <<tick, soft, timerVars, temp, at, next, wake, left>>

(* The delay is relative to a tick read before rt_thread_delay disables    *)
(* interrupts.                                                             *)
(* Mutant: the delay is the tick to wake at.                               *)
delay_or_check_absolute ==
  /\ pc = "got"
  /\ IF Passed(next, tick) THEN pc' = "delay" /\ UNCHANGED next
     ELSE pc' = "check" /\ next' = 0
  /\ UNCHANGED <<tick, soft, timerVars, temp, at, wake, lag, left>>
(* Mutant: the operands of the comparison are exchanged.                   *)
delay_or_check_swapped ==
  /\ pc = "got"
  /\ IF Passed(tick, next) THEN pc' = "delay" /\ next' = (next - tick) % TICKS
     ELSE pc' = "check" /\ next' = 0
  /\ UNCHANGED <<tick, soft, timerVars, temp, at, wake, lag, left>>
delay_or_check ==
  /\ pc = "got"
  /\ IF Passed(next, tick) THEN pc' = "delay" /\ next' = (next - tick) % TICKS
     ELSE pc' = "check" /\ next' = 0
  /\ UNCHANGED <<tick, soft, timerVars, temp, at, wake, lag, left>>

(* Mutant: the thread's own timer is not started.                          *)
rt_thread_delay_forever ==
  /\ pc = "delay" /\ pc' = "suspended" /\ lag' = 0 /\ next' = 0
  /\ UNCHANGED <<tick, soft, timerVars, temp, at, wake, left>>
rt_thread_delay ==
  /\ pc = "delay" /\ pc' = "delayed" /\ lag' = 0
  /\ wake' = (tick + next) % TICKS /\ next' = 0
  /\ UNCHANGED <<tick, soft, timerVars, temp, at, left>>

(* rt_soft_timer_check: the loop's test, then the removal of a timer that   *)
(* is due.                                                                 *)
Due == soft # <<>> /\ Passed(tick, timeout[Head(soft)])
check_done ==
  /\ pc = "check" /\ ~Due /\ pc' = "look"
  /\ UNCHANGED <<tick, soft, timerVars, temp, locals, left>>
take_due ==
  /\ pc = "check" /\ Due /\ pc' = "call"
  /\ at' = Head(soft) /\ soft' = Tail(soft) /\ temp' = {Head(soft)}
  /\ active' = IF Head(soft) \in periodic THEN active ELSE active \ {Head(soft)}
  /\ timeout' = [timeout EXCEPT ![Head(soft)] = 0]
  /\ left' = [left EXCEPT ![Head(soft)] = 0]
  /\ UNCHANGED <<tick, init, periodic, gone, next, wake, lag>>

(* After the timeout function: a timer that was started, stopped or        *)
(* detached meanwhile is no longer on the temporary list.                  *)
(* Mutant: the temporary list is not looked at.                            *)
Restarts_always == at \in periodic
Restarts == temp # {} /\ at \in periodic /\ at \in active
timeout_func_returns ==
  /\ pc = "call" /\ pc' = "check" /\ temp' = {} /\ at' = None
  /\ IF Restarts THEN Starts(at) ELSE UNCHANGED <<soft, timeout, left, active>>
  /\ UNCHANGED <<tick, init, periodic, gone, next, wake, lag>>

TimerThread ==
  \/ look \/ suspend_self \/ delay_or_check \/ rt_thread_delay
  \/ check_done \/ take_due \/ timeout_func_returns

(* A timer started with time 0 is due again at once and the loop of        *)
(* rt_soft_timer_check does not end. It serves in the order of the list,   *)
(* so ticks go on while it has kept up with what is due.                   *)
Spinning ==
  /\ pc \in {"check", "call"}
  /\ \E t \in Timers : init[t] = 0 /\ (Listed(t) \/ t = at)
  /\ \A i \in 1 .. Len(soft) : left[soft[i]] >= 0

(* The tick interrupt; rt_timer_check wakes the timer thread. An awake     *)
(* timer thread, of priority 4, sleeps again before LAG ticks have passed, *)
(* unless it spins.                                                        *)
MayTick == Suspended \/ lag < LAG \/ Spinning
Lagging == IF Suspended THEN 0 ELSE IF lag < LAG THEN lag + 1 ELSE LAG

(* Mutant: the tick does not wrap.                                         *)
rt_tick_increase_wide ==
  /\ MayTick
  /\ tick' = tick + 1
  /\ left' = [t \in Timers |-> IF left[t] > -LATE /\ Listed(t) THEN left[t] - 1 ELSE left[t]]
  /\ IF pc = "delayed" /\ Passed(tick', wake) THEN pc' = "check" /\ lag' = 0 /\ wake' = 0
     ELSE pc' = pc /\ wake' = wake /\ lag' = Lagging
  /\ UNCHANGED <<soft, timerVars, temp, at, next>>
rt_tick_increase ==
  /\ MayTick
  /\ tick' = (tick + 1) % TICKS
  /\ left' = [t \in Timers |-> IF left[t] > -LATE /\ Listed(t) THEN left[t] - 1 ELSE left[t]]
  /\ IF pc = "delayed" /\ Passed(tick', wake) THEN pc' = "check" /\ lag' = 0 /\ wake' = 0
     ELSE pc' = pc /\ wake' = wake /\ lag' = Lagging
  /\ UNCHANGED <<soft, timerVars, temp, at, next>>
=============================================================================
