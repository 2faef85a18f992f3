------------------------------- MODULE VTimer -------------------------------
(***************************************************************************)
(* The physical timer of a guest (vtimer.c). Each vCPU has a periodic soft *)
(* timer of the kernel; trapped writes of CNTP_CTL_EL0 start and stop it,  *)
(* CNTP_TVAL_EL0 sets its time, and its timeout function injects the       *)
(* timer's vIRQ. The other soft timers are those of other kernel code.     *)
(***************************************************************************)
EXTENDS SoftTimer

CONSTANTS
  Vcpus,   (* vCPUs, and the ptimer of each                                *)
  Ctls,    (* ENABLE and IMASK as guests write them to CNTP_CTL_EL0        *)
  TVals,   (* values guests write to CNTP_TVAL_EL0                         *)
  FREQ     (* PTIMER_FREQ, the time a ptimer is created with               *)

ASSUME VTimerConstants ==
  /\ Ctls \subseteq [enable : BOOLEAN, imask : BOOLEAN]
  /\ Vcpus \subseteq Periodic /\ TVals \subseteq Nat /\ FREQ \in Nat /\ FREQ < HALF

VARIABLES
  ctl,   \* ENABLE and IMASK of ptimer.ctl; ISTATUS is never set
  host   \* "ok", or "stopped" by an assertion or a fault

vtVars == <<ctl, host>>
vars == <<stVars, vtVars>>

Others == Timers \ Vcpus

VTInit ==
  /\ Init /\ \A v \in Vcpus : init[v] = FREQ
  /\ ctl = [v \in Vcpus |-> [enable |-> FALSE, imask |-> FALSE]]
  /\ host = "ok"

(* A guest runs, and traps, only while the timer thread waits: for a tick, *)
(* for a timer, or inside the timeout function of other code.              *)
Traps == Suspended \/ (pc = "call" /\ at \in Others)

Armed(c) == c.enable /\ ~c.imask

(* Mutant: the timer runs whatever IMASK says.                             *)
vtimer_handler_cntp_ctl_unmasked(v, c) ==
  /\ Traps /\ ctl' = [ctl EXCEPT ![v] = c]
  /\ IF c.enable THEN rt_timer_start(v) ELSE rt_timer_stop(v)
  /\ UNCHANGED host
vtimer_handler_cntp_ctl(v, c) ==
  /\ Traps /\ ctl' = [ctl EXCEPT ![v] = c]
  /\ IF Armed(c) THEN rt_timer_start(v) ELSE rt_timer_stop(v)
  /\ UNCHANGED host

(* The kernel takes the low 32 bits and asserts that they are below HALF   *)
(* (in the debug build, which is the one modelled). 0 is accepted.         *)
(* ptimer.tval, the second copy, is read only by a trapped read.           *)
vtimer_handler_cntp_tval(v, n) ==
  /\ Traps
  /\ IF n % TICKS < HALF THEN set_time(v, n % TICKS) /\ UNCHANGED <<ctl, host>>
     ELSE host' = "stopped" /\ UNCHANGED <<stVars, ctl>>

(* sysreg_vtimer_handler passes a null pointer for the register of a read. *)
sysreg_vtimer_read ==
  /\ Traps /\ host' = "stopped" /\ UNCHANGED <<stVars, ctl>>

(* Other code, with timers of its own.                                     *)
OtherCode ==
  /\ Callers
  /\ \E t \in Others :
       \/ rt_timer_start(t) \/ rt_timer_stop(t) \/ rt_timer_detach(t)
       \/ \E n \in Times : set_time(t, n) \/ rt_timer_init(t, n)
       \/ \E p \in BOOLEAN : set_periodic(t, p)
  /\ UNCHANGED vtVars

KernelTimer == host = "ok" /\ TimerThread /\ UNCHANGED vtVars
KernelTick  == host = "ok" /\ rt_tick_increase /\ UNCHANGED vtVars

GuestTraps ==
  /\ host = "ok"
  /\ \/ \E v \in Vcpus :
          \/ \E c \in Ctls : vtimer_handler_cntp_ctl(v, c)
          \/ \E n \in TVals : vtimer_handler_cntp_tval(v, n)
     \/ sysreg_vtimer_read

Next == KernelTimer \/ KernelTick \/ GuestTraps \/ (host = "ok" /\ OtherCode)

(* The timer thread has the highest priority of all threads and the tick   *)
(* interrupt is never masked for long: both go on. Guests and other code   *)
(* need not.                                                               *)
Fairness == WF_vars(KernelTimer) /\ WF_vars(KernelTick)

Spec == VTInit /\ [][Next]_vars /\ Fairness

-----------------------------------------------------------------------------
(* Every variable is in range.                                             *)
TypeOK ==
  /\ tick \in Tick /\ timeout \in [Timers -> Tick] /\ init \in [Timers -> Tick]
  /\ active \subseteq Timers /\ periodic \subseteq Timers /\ gone \subseteq Timers
  /\ soft \in Seq(Timers)
  /\ pc \in {"look", "empty", "got", "delay", "check", "call", "suspended", "delayed"}
  /\ at \in Timers \cup {None} /\ temp \subseteq Timers
  /\ next \in Tick /\ wake \in Tick /\ lag \in 0 .. LAG
  /\ left \in [Timers -> Int]
  /\ ctl \in [Vcpus -> [enable : BOOLEAN, imask : BOOLEAN]]
  /\ host \in {"ok", "stopped"}

(* The list is in the order of the true times left, also across the wrap   *)
(* of rt_tick, and holds no timer twice: the head is always the next due.  *)
EarliestFirst ==
  \A i, j \in 1 .. Len(soft) : i < j =>
    soft[i] # soft[j] /\ left[soft[i]] <= left[soft[j]]

(* A timer that is called has really waited the time it was started with.  *)
NotEarly == [][pc' = "call" /\ pc # "call" => left[at'] <= 0]_vars

(* No timer is served more than 2 * LAG ticks late: the thread never goes  *)
(* to sleep past the first timeout, also when it reads the tick before it  *)
(* sleeps, and a timer started while it sleeps wakes it.                   *)
Timely == \A i \in 1 .. Len(soft) : left[soft[i]] >= -2 * LAG

(* A detached timer, whose memory its owner may reuse, is not on a list,   *)
(* also when it was detached during its own timeout function.              *)
DetachedIsOff == \A t \in gone : ~Listed(t) /\ t \notin temp /\ t \notin active

(* A guest's timer runs exactly when the guest last enabled and unmasked   *)
(* it, whatever timeouts came in between; during its timeout function it   *)
(* is on the temporary list.                                               *)
CtlMatchesTimer ==
  \A v \in Vcpus : Armed(ctl[v]) <=> (Listed(v) \/ temp = {v})

(* A guest that leaves its timer armed gets its interrupt again and again. *)
GuestInterrupted ==
  \A v \in Vcpus :
    <>[](host = "ok" /\ Armed(ctl[v])) =>
      \/ []<>(pc = "call" /\ at = v)
      \/ []<><<\E c \in Ctls : vtimer_handler_cntp_ctl(v, c)>>_vars

(* A guest has its timer armed with a time of 0.                           *)
ZeroTime == \E v \in Vcpus : init[v] = 0 /\ Armed(ctl[v])

(* The timer thread gives the core back to the shell and the guests, again *)
(* and again, until a guest has its timer armed with a CNTP_TVAL of 0 (or  *)
(* of a multiple of 2^32): for it the loop of rt_soft_timer_check has no   *)
(* end.                                                                    *)
GivesWay == []<>(Suspended \/ host # "ok" \/ ZeroTime)
=============================================================================
