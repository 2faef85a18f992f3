----------------------------- MODULE Scheduler -----------------------------
(***************************************************************************)
(* RT-Thread's preemptive scheduler on one core (scheduler.c, thread.c,    *)
(* clock.c): the ready queue, the running thread, time slices, sleeping    *)
(* and the timeout of a thread's own timer. A blocked thread first marks   *)
(* itself suspended and then calls rt_schedule; interrupts come between.   *)
(* 0 is the highest priority.                                              *)
(***************************************************************************)
EXTENDS Integers, Sequences

CONSTANTS
  Threads,
  Base,    (* priority each thread is created with                         *)
  Idle,    (* the idle thread, which never blocks                          *)
  Asleep   (* what a sleeping thread waits for                             *)

ASSUME ThreadConstants ==
  /\ Base \in [Threads -> Nat] /\ Idle \in Threads

VARIABLES
  cur,     \* rt_current_thread
  ready,   \* the lists of rt_thread_priority_table, from the highest down
  stat,    \* thread->stat
  yield,   \* threads with RT_THREAD_STAT_YIELD
  prio,    \* thread->current_priority
  error,   \* thread->error; EOK while nothing reads it
  timer,   \* threads whose thread_timer is started
  pc,      \* where a thread is: about to call rt_schedule, back from it, or neither
  call     \* what a blocked thread waits for

schedVars == <<cur, ready, stat, yield>>
threadVars == <<prio, error, timer, pc, call>>

SchedInit ==
  /\ cur = Idle /\ ready = <<>> /\ yield = {}
  /\ stat = [t \in Threads |-> IF t = Idle THEN "RUNNING" ELSE "SUSPEND"]
  /\ prio = Base /\ error = [t \in Threads |-> "EOK"]
  /\ timer = Threads \ {Idle}
  /\ pc = [t \in Threads |-> IF t = Idle THEN "run" ELSE "back"]
  /\ call = [t \in Threads |-> Asleep]

(* Lists.                                                                  *)
In(s, t) == \E i \in 1 .. Len(s) : s[i] = t
Without(s, t) ==
  IF ~In(s, t) THEN s
  ELSE LET i == CHOOSE i \in 1 .. Len(s) : s[i] = t
       IN  [j \in 1 .. Len(s) - 1 |-> IF j < i THEN s[j] ELSE s[j + 1]]

(* t in the order of priority, behind its equals.                          *)
Queued(s, t, pr) ==
  IF \A j \in 1 .. Len(s) : pr[s[j]] <= pr[t] THEN Append(s, t)
  ELSE LET i == CHOOSE i \in 1 .. Len(s) : /\ pr[t] < pr[s[i]]
                                           /\ \A j \in 1 .. i - 1 : pr[s[j]] <= pr[t]
       IN  [j \in 1 .. Len(s) + 1 |->
             IF j < i THEN s[j] ELSE IF j = i THEN t ELSE s[j - 1]]

(* rt_schedule, from ready queue rdy, states st, yield marks yl and        *)
(* priorities pr. The running thread goes on unless a ready one is higher, *)
(* or equal and its time slice is over.                                    *)
Stays(rdy, st, yl, pr) ==
  \/ rdy = <<>>
  \/ /\ st[cur] = "RUNNING"
     /\ \/ pr[cur] < pr[Head(rdy)]
        \/ pr[cur] = pr[Head(rdy)] /\ cur \notin yl
rt_schedule(rdy, st, yl, pr) ==
  /\ yield' = IF rdy # <<>> /\ st[cur] = "RUNNING" THEN yl \ {cur} ELSE yl
  /\ IF Stays(rdy, st, yl, pr)
     THEN cur' = cur /\ ready' = rdy /\ stat' = st
     ELSE /\ cur' = Head(rdy)
          /\ ready' = IF st[cur] = "RUNNING" THEN Queued(Tail(rdy), cur, pr) ELSE Tail(rdy)
          /\ stat' = [t \in Threads |->
                           IF t = Head(rdy) THEN "RUNNING"
                           ELSE IF t = cur /\ st[cur] = "RUNNING" THEN "READY"
                           ELSE st[t]]

(* rt_schedule_insert_thread: the current thread just runs on.             *)
InsertedReady(t) == IF t = cur THEN ready ELSE Queued(ready, t, prio)
InsertedStat(t) == [stat EXCEPT ![t] = IF t = cur THEN "RUNNING" ELSE "READY"]

Running(t) == cur = t /\ stat[t] = "RUNNING" /\ pc[t] = "run"

(* A thread that marked itself suspended, or woke another, now calls       *)
(* rt_schedule.                                                            *)
calls_schedule(t) ==
  /\ cur = t /\ pc[t] \in {"block", "yield"}
  /\ rt_schedule(ready, stat, yield, prio)
  /\ pc' = [pc EXCEPT ![t] = IF @ = "block" THEN "back" ELSE "run"]
  /\ UNCHANGED <<prio, error, timer, call>>

(* rt_thread_sleep, up to rt_schedule, and after it.                       *)
rt_thread_sleep(t) ==
  /\ Running(t) /\ t # Idle
  /\ stat' = [stat EXCEPT ![t] = "SUSPEND"]
  /\ timer' = timer \union {t}
  /\ pc' = [pc EXCEPT ![t] = "block"]
  /\ UNCHANGED <<cur, ready, yield, prio, error, call>>

sleep_returns(t) ==
  /\ cur = t /\ stat[t] = "RUNNING" /\ pc[t] = "back" /\ call[t] = Asleep
  /\ pc' = [pc EXCEPT ![t] = "run"]
  /\ error' = [error EXCEPT ![t] = "EOK"]
  /\ UNCHANGED <<schedVars, prio, timer, call>>

(* The tick: the running thread's time slice is over.                      *)
slice_ends ==
  /\ rt_schedule(ready, stat, yield \union {cur}, prio)
  /\ UNCHANGED threadVars
=============================================================================
