---------------------------- MODULE MutexProofs ----------------------------
(***************************************************************************)
(* Proofs about Mutex, for any threads, priorities, mutexes, recursion and *)
(* nesting: mutual exclusion, that timeouts find suspended threads, and    *)
(* the priorities of the threads that hold one mutex at a time.            *)
(***************************************************************************)
EXTENDS Mutex, WellFoundedInduction, TLAPS

-----------------------------------------------------------------------------
(* Lists.                                                                  *)

Distinct(s) == \A i, j \in 1 .. Len(s) : s[i] = s[j] => i = j

LEMMA LeastExists ==
  ASSUME NEW T, T \subseteq Nat, T # {}
  PROVE  \E x \in T : \A y \in T : x <= y
  <1>1. \E x \in T : \A y \in T : ~(<<y, x>> \in OpToRel(<, Nat))
    BY WFMin, NatLessThanWellFounded
  <1>2. \A x, y \in Nat : <<y, x>> \in OpToRel(<, Nat) <=> y < x
    BY DEF OpToRel
  <1>3. PICK x \in T : \A y \in T : ~(<<y, x>> \in OpToRel(<, Nat)) BY <1>1
  <1>4. \A y \in T : x \in Nat /\ y \in Nat /\ ~(y < x) BY <1>2, <1>3
  <1>. QED BY <1>4

(* Where t goes in a list: i.                                              *)
LEMMA QueuedFacts ==
  ASSUME NEW s \in Seq(Threads), NEW t \in Threads, NEW pr \in [Threads -> Nat]
  PROVE  /\ Queued(s, t, pr) \in Seq(Threads)
         /\ \A u : In(Queued(s, t, pr), u) <=> In(s, u) \/ u = t
         /\ Distinct(s) /\ ~In(s, t) => Distinct(Queued(s, t, pr))
  <1>1. CASE \A j \in 1 .. Len(s) : pr[s[j]] <= pr[t]
    <2>1. Queued(s, t, pr) = Append(s, t) BY <1>1 DEF Queued
    <2>2. /\ Append(s, t) \in Seq(Threads) /\ Len(Append(s, t)) = Len(s) + 1
          /\ Append(s, t)[Len(s) + 1] = t
          /\ \A j \in 1 .. Len(s) : Append(s, t)[j] = s[j]
          /\ Len(s) \in Nat
      OBVIOUS
    <2>3. 1 .. Len(s) + 1 = (1 .. Len(s)) \cup {Len(s) + 1} BY <2>2
    <2>. QED BY <2>1, <2>2, <2>3 DEF In, Distinct
  <1>2. CASE ~(\A j \in 1 .. Len(s) : pr[s[j]] <= pr[t])
    <2> DEFINE Later == {j \in 1 .. Len(s) : pr[t] < pr[s[j]]}
               P(i) == /\ pr[t] < pr[s[i]]
                       /\ \A j \in 1 .. i - 1 : pr[s[j]] <= pr[t]
               i == CHOOSE i \in 1 .. Len(s) : P(i)
               q == [j \in 1 .. Len(s) + 1 |->
                       IF j < i THEN s[j] ELSE IF j = i THEN t ELSE s[j - 1]]
    <2>0. \A j \in 1 .. Len(s) : s[j] \in Threads /\ pr[s[j]] \in Nat OBVIOUS
    <2>1. Later # {} /\ Later \subseteq Nat BY <1>2, <2>0
    <2>2. PICK l \in Later : \A j \in Later : l <= j BY <2>1, LeastExists
    <2>3. P(l) BY <2>0, <2>2
    <2>4. i \in 1 .. Len(s) BY <2>2, <2>3
    <2>5. Queued(s, t, pr) = q BY <1>2 DEF Queued
    <2>6. Len(s) \in Nat OBVIOUS
    <2> HIDE DEF i
    <2>7. \A j \in 1 .. Len(s) + 1 : q[j] \in Threads BY <2>0, <2>4, <2>6
    <2>8. q \in Seq(Threads) /\ Len(q) = Len(s) + 1 BY <2>6, <2>7
    <2>9. /\ q[i] = t
          /\ \A j \in 1 .. Len(s) : (j < i => q[j] = s[j]) /\ (j >= i => q[j + 1] = s[j])
      BY <2>4, <2>6
    <2>10. \A j \in 1 .. Len(s) + 1 : \/ j = i
                                      \/ j < i /\ j \in 1 .. Len(s) /\ q[j] = s[j]
                                      \/ j > i /\ j - 1 \in 1 .. Len(s) /\ q[j] = s[j - 1]
      BY <2>4, <2>6
    <2> HIDE DEF q
    <2>11. \A u : In(q, u) <=> In(s, u) \/ u = t
      <3>1. \A u : In(q, u) => In(s, u) \/ u = t BY <2>8, <2>9, <2>10 DEF In
      <3>2. \A u : In(s, u) => In(q, u)
        <4> SUFFICES ASSUME NEW u, NEW j \in 1 .. Len(s), s[j] = u PROVE In(q, u)
          BY DEF In
        <4>1. CASE j < i BY <4>1, <2>6, <2>8, <2>9 DEF In
        <4>2. CASE j >= i
          <5>1. j + 1 \in 1 .. Len(q) /\ q[j + 1] = u BY <4>2, <2>6, <2>8, <2>9
          <5>. QED BY <5>1 DEF In
        <4>. QED BY <4>1, <4>2, <2>4
      <3>3. In(q, t) BY <2>4, <2>6, <2>8, <2>9 DEF In
      <3>. QED BY <3>1, <3>2, <3>3
    <2>12. ASSUME Distinct(s), ~In(s, t) PROVE Distinct(q)
      <3> SUFFICES ASSUME NEW a \in 1 .. Len(s) + 1, NEW b \in 1 .. Len(s) + 1, q[a] = q[b]
                   PROVE  a = b
        BY <2>8 DEF Distinct
      <3>1. \A j \in 1 .. Len(s) : s[j] # t BY <2>12 DEF In
      <3>2. \A j, k \in 1 .. Len(s) : s[j] = s[k] => j = k BY <2>12 DEF Distinct
      <3>3. CASE a = i BY <3>1, <3>3, <2>9, <2>10
      <3>4. CASE b = i BY <3>1, <3>4, <2>9, <2>10
      <3>5. CASE a # i /\ b # i
        <4>1. \/ a < i /\ a \in 1 .. Len(s) /\ q[a] = s[a]
              \/ a > i /\ a - 1 \in 1 .. Len(s) /\ q[a] = s[a - 1]
          BY <3>5, <2>10
        <4>2. \/ b < i /\ b \in 1 .. Len(s) /\ q[b] = s[b]
              \/ b > i /\ b - 1 \in 1 .. Len(s) /\ q[b] = s[b - 1]
          BY <3>5, <2>10
        <4>3. CASE a < i /\ b < i BY <4>1, <4>2, <4>3, <3>2, <2>4
        <4>4. CASE a > i /\ b > i
          <5>0. a - 1 \in 1 .. Len(s) /\ b - 1 \in 1 .. Len(s) /\ s[a - 1] = s[b - 1]
            <6>1. a - 1 \in 1 .. Len(s) /\ q[a] = s[a - 1] BY <4>1, <4>4, <2>4
            <6>2. b - 1 \in 1 .. Len(s) /\ q[b] = s[b - 1] BY <4>2, <4>4, <2>4
            <6>. QED BY <6>1, <6>2
          <5>1. a - 1 = b - 1 BY <5>0, <3>2
          <5>. QED BY <5>1
        <4>5. CASE a < i /\ b > i
          <5>1. a = b - 1 BY <4>1, <4>2, <4>5, <3>2, <2>4
          <5>. QED BY <5>1, <4>5, <2>4
        <4>6. CASE a > i /\ b < i
          <5>1. a - 1 = b BY <4>1, <4>2, <4>6, <3>2, <2>4
          <5>. QED BY <5>1, <4>6, <2>4
        <4>. QED BY <4>1, <4>2, <4>3, <4>4, <4>5, <4>6
      <3>. QED BY <3>3, <3>4, <3>5
    <2>. QED BY <2>5, <2>8, <2>11, <2>12
  <1>. QED BY <1>1, <1>2

LEMMA WithoutFacts ==
  ASSUME NEW s \in Seq(Threads), NEW t, Distinct(s)
  PROVE  /\ Without(s, t) \in Seq(Threads) /\ Distinct(Without(s, t))
         /\ \A u : In(Without(s, t), u) <=> In(s, u) /\ u # t
         /\ s = <<>> => Without(s, t) = <<>>
  <1>1. CASE ~In(s, t) BY <1>1 DEF Without, In
  <1>2. CASE In(s, t)
    <2> DEFINE i == CHOOSE i \in 1 .. Len(s) : s[i] = t
               q == [j \in 1 .. Len(s) - 1 |-> IF j < i THEN s[j] ELSE s[j + 1]]
    <2>1. i \in 1 .. Len(s) /\ s[i] = t BY <1>2 DEF In
    <2>2. Without(s, t) = q BY <1>2 DEF Without
    <2>3. Len(s) \in Nat /\ \A j \in 1 .. Len(s) : s[j] \in Threads OBVIOUS
    <2> HIDE DEF i
    <2>4. \A j \in 1 .. Len(s) - 1 : q[j] \in Threads BY <2>1, <2>3
    <2>5. q \in Seq(Threads) /\ Len(q) = Len(s) - 1
      <3>1. Len(s) - 1 \in Nat BY <2>1, <2>3
      <3>. QED BY <3>1, <2>4
    <2>6. \A j \in 1 .. Len(s) - 1 : \/ j < i /\ j \in 1 .. Len(s) /\ q[j] = s[j]
                                     \/ j >= i /\ j + 1 \in 1 .. Len(s) /\ q[j] = s[j + 1]
      BY <2>1, <2>3
    <2>7. \A j \in 1 .. Len(s) : (j < i => j \in 1 .. Len(s) - 1 /\ q[j] = s[j])
                            /\ (j > i => j - 1 \in 1 .. Len(s) - 1 /\ q[j - 1] = s[j])
      BY <2>1, <2>3
    <2>8. \A j, k \in 1 .. Len(s) : s[j] = s[k] => j = k BY DEF Distinct
    <2> HIDE DEF q
    <2>9. Distinct(q)
      <3> SUFFICES ASSUME NEW a \in 1 .. Len(s) - 1, NEW b \in 1 .. Len(s) - 1, q[a] = q[b]
                   PROVE  a = b
        BY <2>5 DEF Distinct
      <3>. QED BY <2>1, <2>3, <2>6, <2>8
    <2>10. \A u : In(q, u) => In(s, u) /\ u # t
      <3> SUFFICES ASSUME NEW j \in 1 .. Len(s) - 1 PROVE In(s, q[j]) /\ q[j] # t
        BY <2>5 DEF In
      <3>. QED BY <2>1, <2>3, <2>6, <2>8 DEF In
    <2>11. \A u : In(s, u) /\ u # t => In(q, u)
      <3> SUFFICES ASSUME NEW j \in 1 .. Len(s), s[j] # t PROVE In(q, s[j])
        BY DEF In
      <3>1. j # i BY <2>1
      <3>2. CASE j < i BY <3>2, <2>5, <2>7 DEF In
      <3>3. CASE j > i BY <3>3, <2>5, <2>7 DEF In
      <3>. QED BY <3>1, <3>2, <3>3, <2>1
    <2>12. s # <<>> BY <2>1
    <2>. QED BY <2>2, <2>5, <2>9, <2>10, <2>11, <2>12
  <1>. QED BY <1>1, <1>2

LEMMA TailFacts ==
  ASSUME NEW s \in Seq(Threads), Distinct(s), s # <<>>
  PROVE  /\ Tail(s) \in Seq(Threads) /\ Distinct(Tail(s))
         /\ Head(s) \in Threads /\ In(s, Head(s))
         /\ \A u : In(Tail(s), u) <=> In(s, u) /\ u # Head(s)
  <1>1. Len(s) \in Nat \ {0} /\ Head(s) = s[1] /\ s[1] \in Threads OBVIOUS
  <1>2. Tail(s) \in Seq(Threads) /\ Len(Tail(s)) = Len(s) - 1 OBVIOUS
  <1>3. \A j \in 1 .. Len(s) - 1 : Tail(s)[j] = s[j + 1] /\ j + 1 \in 1 .. Len(s) BY <1>1
  <1>4. \A j, k \in 1 .. Len(s) : s[j] = s[k] => j = k BY DEF Distinct
  <1>5. Distinct(Tail(s)) BY <1>1, <1>2, <1>3, <1>4 DEF Distinct
  <1>6. In(s, Head(s)) BY <1>1 DEF In
  <1>7. \A u : In(Tail(s), u) => In(s, u) /\ u # Head(s)
    <2> SUFFICES ASSUME NEW j \in 1 .. Len(s) - 1
                 PROVE  In(s, Tail(s)[j]) /\ Tail(s)[j] # Head(s)
      BY <1>2 DEF In
    <2>. QED BY <1>1, <1>3, <1>4 DEF In
  <1>8. \A u : In(s, u) /\ u # Head(s) => In(Tail(s), u)
    <2> SUFFICES ASSUME NEW j \in 1 .. Len(s), s[j] # s[1] PROVE In(Tail(s), s[j])
      BY <1>1 DEF In
    <2>1. j - 1 \in 1 .. Len(s) - 1 /\ Tail(s)[j - 1] = s[j] BY <1>1, <1>3
    <2>. QED BY <2>1, <1>2 DEF In
  <1>. QED BY <1>1, <1>2, <1>5, <1>6, <1>7, <1>8

-----------------------------------------------------------------------------
(* The scheduler.                                                          *)

Stats == {"READY", "RUNNING", "SUSPEND"}

(* A list of ready threads that fits the states.                           *)
Fits(rdy, st) ==
  /\ rdy \in Seq(Threads) /\ st \in [Threads -> Stats] /\ Distinct(rdy)
  /\ \A t \in Threads : In(rdy, t) => st[t] = "READY"

(* rt_schedule exchanges running and ready and suspends or resumes nobody. *)
LEMMA ScheduleStep ==
  ASSUME NEW rdy, NEW st, NEW yl \in SUBSET Threads, NEW pr \in [Threads -> Nat],
         Fits(rdy, st), cur \in Threads, rt_schedule(rdy, st, yl, pr)
  PROVE  /\ cur' \in Threads /\ yield' \subseteq Threads /\ Fits(ready', stat')
         /\ \A t \in Threads : stat'[t] = "SUSPEND" <=> st[t] = "SUSPEND"
  <1>1. yield' \subseteq Threads BY DEF rt_schedule
  <1>2. CASE Stays(rdy, st, yl, pr) BY <1>1, <1>2 DEF rt_schedule
  <1>3. CASE ~Stays(rdy, st, yl, pr)
    <2> DEFINE h == Head(rdy)
    <2>1. rdy # <<>> BY <1>3 DEF Stays
    <2>2. /\ Tail(rdy) \in Seq(Threads) /\ Distinct(Tail(rdy))
          /\ h \in Threads /\ In(rdy, h)
          /\ \A u : In(Tail(rdy), u) <=> In(rdy, u) /\ u # h
      BY <2>1, TailFacts DEF Fits
    <2>3. st[h] = "READY" BY <2>2 DEF Fits
    <2>4. /\ cur' = h
          /\ ready' = IF st[cur] = "RUNNING" THEN Queued(Tail(rdy), cur, pr) ELSE Tail(rdy)
          /\ stat' = [t \in Threads |-> IF t = h THEN "RUNNING"
                                        ELSE IF t = cur /\ st[cur] = "RUNNING" THEN "READY"
                                        ELSE st[t]]
      BY <1>3 DEF rt_schedule
    <2> HIDE DEF h
    <2>5. stat' \in [Threads -> Stats] BY <2>4 DEF Fits, Stats
    <2>6. \A t \in Threads : stat'[t] = "SUSPEND" <=> st[t] = "SUSPEND" BY <2>3, <2>4
    <2>7. CASE st[cur] = "RUNNING"
      <3>1. ~In(Tail(rdy), cur) BY <2>2, <2>7 DEF Fits
      <3>2. /\ ready' \in Seq(Threads) /\ Distinct(ready')
            /\ \A u : In(ready', u) <=> In(Tail(rdy), u) \/ u = cur
        BY <2>2, <2>4, <2>7, <3>1, QueuedFacts
      <3>3. \A t \in Threads : In(ready', t) => stat'[t] = "READY"
        BY <2>2, <2>3, <2>4, <2>7, <3>2 DEF Fits
      <3>. QED BY <1>1, <2>2, <2>4, <2>5, <2>6, <3>2, <3>3 DEF Fits
    <2>8. CASE st[cur] # "RUNNING"
      <3>1. \A t \in Threads : In(ready', t) => stat'[t] = "READY"
        BY <2>2, <2>4, <2>8 DEF Fits
      <3>. QED BY <1>1, <2>2, <2>4, <2>5, <2>6, <2>8, <3>1 DEF Fits
    <2>. QED BY <2>7, <2>8
  <1>. QED BY <1>2, <1>3

(* rt_schedule_insert_thread of a suspended thread.                        *)
LEMMA InsertStep ==
  ASSUME Fits(ready, stat), NEW t \in Threads, stat[t] = "SUSPEND",
         prio \in [Threads -> Nat]
  PROVE  /\ Fits(InsertedReady(t), InsertedStat(t))
         /\ InsertedStat(t)[t] # "SUSPEND"
         /\ \A u \in Threads \ {t} : InsertedStat(t)[u] = stat[u]
  <1>1. ~In(ready, t) BY DEF Fits
  <1>2. /\ Queued(ready, t, prio) \in Seq(Threads) /\ Distinct(Queued(ready, t, prio))
        /\ \A u : In(Queued(ready, t, prio), u) <=> In(ready, u) \/ u = t
    BY <1>1, QueuedFacts DEF Fits
  <1>3. /\ InsertedStat(t) \in [Threads -> Stats]
        /\ InsertedStat(t)[t] = IF t = cur THEN "RUNNING" ELSE "READY"
        /\ \A u \in Threads \ {t} : InsertedStat(t)[u] = stat[u]
    BY DEF InsertedStat, Fits, Stats
  <1>4. CASE t = cur BY <1>1, <1>3, <1>4 DEF InsertedReady, Fits
  <1>5. CASE t # cur BY <1>2, <1>3, <1>5 DEF InsertedReady, Fits
  <1>. QED BY <1>4, <1>5

-----------------------------------------------------------------------------
(* The inductive invariant. Blocked: a suspended thread sleeps or is in    *)
(* the queue of the one mutex it called for, not its owner, and has no     *)
(* error. Told: a thread that was resumed and has not returned either owns *)
(* the mutex it waited for, or has the error of a timeout and does not.    *)

Blocked ==
  /\ \A m \in Mutexes : Distinct(queue[m])
  /\ \A m \in Mutexes, t \in Threads : In(queue[m], t) =>
       /\ stat[t] = "SUSPEND" /\ call[t] = m /\ error[t] = "EOK"
       /\ owner[m] # t /\ owner[m] # None
  /\ \A t \in Threads : stat[t] = "SUSPEND" =>
       /\ pc[t] \in {"block", "back"}
       /\ call[t] \in Mutexes => In(queue[call[t]], t)

Told ==
  \A t \in Threads :
    /\ pc[t] \in {"run", "yield"} => call[t] = Asleep /\ error[t] = "EOK"
    /\ call[t] \in Mutexes /\ stat[t] # "SUSPEND" =>
         IF error[t] = "EOK" THEN owner[call[t]] = t /\ has[t][call[t]] = 0
         ELSE owner[call[t]] # t

Types ==
  /\ TypeOK /\ Fits(ready, stat)

IInv == Types /\ Blocked /\ Told /\ TimeoutFindsSuspended /\ MutualExclusion

LEMMA InitIInv == Init => IInv
  <1> SUFFICES ASSUME Init PROVE IInv OBVIOUS
  <1> USE DEF Init, SchedInit
  <1>1. TypeOK
    BY ThreadConstants, MutexConstants DEF TypeOK, UNSET
  <1>2. Fits(ready, stat) BY ThreadConstants DEF Fits, Stats, In, Distinct
  <1>3. Blocked BY MutexConstants DEF Blocked, In, Distinct
  <1>4. Told BY MutexConstants DEF Told
  <1>5. TimeoutFindsSuspended BY DEF TimeoutFindsSuspended
  <1>6. MutualExclusion BY MutexConstants DEF MutualExclusion
  <1>. QED BY <1>1, <1>2, <1>3, <1>4, <1>5, <1>6 DEF IInv, Types

-----------------------------------------------------------------------------
(* Steps of the scheduler.                                                 *)

LEMMA CallsStep ==
  ASSUME IInv, nested' \subseteq Threads, NEW t \in Threads, calls_schedule(t), UNCHANGED <<mutexVars, ghosts>>
  PROVE  IInv'
  <1> USE DEF IInv, Types, ghosts, mutexVars
  <1>1. /\ cur' \in Threads /\ yield' \subseteq Threads /\ Fits(ready', stat')
        /\ \A u \in Threads : stat'[u] = "SUSPEND" <=> stat[u] = "SUSPEND"
    <2>1. rt_schedule(ready, stat, yield, prio) BY DEF calls_schedule
    <2>. QED BY <2>1, ScheduleStep DEF TypeOK
  <1>2. /\ pc' = [pc EXCEPT ![t] = IF pc[t] = "block" THEN "back" ELSE "run"]
        /\ pc[t] \in {"block", "yield"}
        /\ UNCHANGED <<prio, error, timer, call, value, owner, hold, orig, queue, has>>
    BY DEF calls_schedule
  <1>3. /\ pc \in [Threads -> {"run", "block", "back", "yield"}]
        /\ \A u \in Threads : /\ pc'[u] \in {"block", "back"} <=> pc[u] \in {"block", "back"}
                              /\ pc'[u] \in {"run", "yield"} <=> pc[u] \in {"run", "yield"}
    BY <1>2 DEF TypeOK
  <1>4. TypeOK' BY <1>1, <1>2 DEF TypeOK, Fits, Stats
  <1>5. Blocked' BY <1>1, <1>2, <1>3 DEF Blocked
  <1>6. Told' BY <1>1, <1>2, <1>3 DEF Told
  <1>7. TimeoutFindsSuspended' BY <1>1, <1>2 DEF TimeoutFindsSuspended, TypeOK
  <1>8. MutualExclusion' BY <1>2, <1>3 DEF MutualExclusion, Handed
  <1>. QED BY <1>1, <1>4, <1>5, <1>6, <1>7, <1>8

LEMMA SleepReturnsStep ==
  ASSUME IInv, nested' \subseteq Threads, NEW t \in Threads, sleep_returns(t), UNCHANGED <<mutexVars, ghosts>>
  PROVE  IInv'
  <1> USE DEF IInv, Types, ghosts, mutexVars, sleep_returns, schedVars
  <1>1. /\ pc' = [pc EXCEPT ![t] = "run"] /\ error' = [error EXCEPT ![t] = "EOK"]
        /\ stat[t] = "RUNNING" /\ call[t] = Asleep /\ call[t] \notin Mutexes
        /\ UNCHANGED <<cur, ready, stat, yield, prio, timer, call, value, owner, hold, orig,
                       queue, has>>
    BY MutexConstants
  <1>2. TypeOK' BY <1>1 DEF TypeOK
  <1>3. Blocked' BY <1>1 DEF Blocked, TypeOK
  <1>4. Told' BY <1>1 DEF Told, TypeOK
  <1>5. TimeoutFindsSuspended' BY <1>1 DEF TimeoutFindsSuspended
  <1>6. MutualExclusion' BY <1>1 DEF MutualExclusion, Handed, TypeOK
  <1>. QED BY <1>1, <1>2, <1>3, <1>4, <1>5, <1>6

LEMMA SleepStep ==
  ASSUME IInv, nested' \subseteq Threads, NEW t \in Threads, rt_thread_sleep(t), UNCHANGED <<mutexVars, ghosts>>
  PROVE  IInv'
  <1> USE DEF IInv, Types, ghosts, mutexVars
  <1>1. /\ stat' = [stat EXCEPT ![t] = "SUSPEND"] /\ timer' = timer \union {t}
        /\ pc' = [pc EXCEPT ![t] = "block"]
        /\ stat[t] = "RUNNING" /\ pc[t] = "run"
        /\ UNCHANGED <<cur, ready, yield, prio, error, call, value, owner, hold, orig, queue, has>>
    BY DEF rt_thread_sleep, Running
  <1>2. call[t] = Asleep /\ call[t] \notin Mutexes /\ error[t] = "EOK"
    BY <1>1, MutexConstants DEF Told
  <1>3. TypeOK' BY <1>1 DEF TypeOK
  <1>4. Fits(ready, stat)' BY <1>1 DEF Fits, Stats
  <1>5. Blocked' BY <1>1, <1>2 DEF Blocked, TypeOK
  <1>6. Told' BY <1>1, <1>2 DEF Told, TypeOK
  <1>7. TimeoutFindsSuspended' BY <1>1 DEF TimeoutFindsSuspended, TypeOK
  <1>8. MutualExclusion' BY <1>1, <1>2 DEF MutualExclusion, Handed, TypeOK
  <1>. QED BY <1>3, <1>4, <1>5, <1>6, <1>7, <1>8

LEMMA TickStep ==
  ASSUME IInv, nested' \subseteq Threads, Tick
  PROVE  IInv'
  <1> USE DEF IInv, Types, ghosts, mutexVars, threadVars
  <1>1. /\ cur' \in Threads /\ yield' \subseteq Threads /\ Fits(ready', stat')
        /\ \A u \in Threads : stat'[u] = "SUSPEND" <=> stat[u] = "SUSPEND"
    <2>1. rt_schedule(ready, stat, yield \union {cur}, prio) BY DEF Tick, slice_ends
    <2>. QED BY <2>1, ScheduleStep DEF TypeOK
  <1>2. UNCHANGED <<prio, error, timer, pc, call, value, owner, hold, orig, queue, has>>
    BY DEF Tick, slice_ends
  <1>3. TypeOK' BY <1>1, <1>2 DEF TypeOK, Fits, Stats
  <1>4. Blocked' BY <1>1, <1>2 DEF Blocked
  <1>5. Told' BY <1>1, <1>2 DEF Told
  <1>6. TimeoutFindsSuspended' BY <1>1, <1>2 DEF TimeoutFindsSuspended, TypeOK
  <1>7. MutualExclusion' BY <1>2 DEF MutualExclusion, Handed
  <1>. QED BY <1>1, <1>3, <1>4, <1>5, <1>6, <1>7

LEMMA TimeoutStep ==
  ASSUME IInv, nested' \subseteq Threads, NEW t \in Threads, _thread_timeout(t)
  PROVE  IInv'
  <1> USE DEF IInv, Types
  <1>1. /\ t \in timer /\ timer' = timer \ {t}
        /\ error' = [error EXCEPT ![t] = "ETIMEOUT"]
        /\ queue' = [m \in Mutexes |-> Without(queue[m], t)]
        /\ rt_schedule(InsertedReady(t), InsertedStat(t), yield, prio)
        /\ UNCHANGED <<prio, pc, call, value, owner, hold, orig, has>>
    BY DEF _thread_timeout, ghosts
  <1>2. stat[t] = "SUSPEND" BY <1>1 DEF TimeoutFindsSuspended
  <1>3. /\ Fits(InsertedReady(t), InsertedStat(t)) /\ InsertedStat(t)[t] # "SUSPEND"
        /\ \A u \in Threads \ {t} : InsertedStat(t)[u] = stat[u]
    BY <1>2, InsertStep DEF TypeOK
  <1>4. /\ cur' \in Threads /\ yield' \subseteq Threads /\ Fits(ready', stat')
        /\ stat'[t] # "SUSPEND"
        /\ \A u \in Threads \ {t} : stat'[u] = "SUSPEND" <=> stat[u] = "SUSPEND"
    <2>1. /\ cur' \in Threads /\ yield' \subseteq Threads /\ Fits(ready', stat')
          /\ \A u \in Threads : stat'[u] = "SUSPEND" <=> InsertedStat(t)[u] = "SUSPEND"
      BY <1>1, <1>3, ScheduleStep DEF TypeOK
    <2>. QED BY <2>1, <1>3
  <1>5. \A m \in Mutexes : /\ queue'[m] \in Seq(Threads) /\ Distinct(queue'[m])
                           /\ \A u : In(queue'[m], u) <=> In(queue[m], u) /\ u # t
                           /\ queue[m] = <<>> => queue'[m] = <<>>
    BY <1>1, WithoutFacts DEF TypeOK, Blocked
  <1>6. TypeOK' BY <1>1, <1>4, <1>5 DEF TypeOK, Fits, Stats
  <1>7. Blocked' BY <1>1, <1>4, <1>5 DEF Blocked, TypeOK
  <1>8. Told'
    <2>1. pc[t] \in {"block", "back"} /\ (call[t] \in Mutexes => owner[call[t]] # t)
      BY <1>2 DEF Blocked
    <2>. QED BY <2>1, <1>1, <1>4 DEF Told, TypeOK
  <1>9. TimeoutFindsSuspended' BY <1>1, <1>4 DEF TimeoutFindsSuspended, TypeOK
  <1>10. MutualExclusion'
    <2>1. \A m \in Mutexes : ~Handed(t, m) BY <1>2 DEF Handed, Blocked
    <2>2. \A m \in Mutexes, u \in Threads : Handed(u, m)' <=> Handed(u, m)
      BY <1>1 DEF Handed
    <2>3. \A u \in Threads \ {t} : error'[u] = error[u] BY <1>1 DEF TypeOK
    <2>. QED BY <2>1, <2>2, <2>3, <1>1, <1>5 DEF MutualExclusion
  <1>. QED BY <1>4, <1>6, <1>7, <1>8, <1>9, <1>10

-----------------------------------------------------------------------------
(* Steps of the mutex.                                                     *)

(* A running thread waits for nothing, and what it owns it knows of.       *)
LEMMA RunningFacts ==
  ASSUME IInv, NEW t \in Threads, Running(t)
  PROVE  /\ stat[t] = "RUNNING" /\ pc[t] = "run" /\ t \notin timer
         /\ call[t] = Asleep /\ call[t] \notin Mutexes /\ error[t] = "EOK"
         /\ \A m \in Mutexes : ~In(queue[m], t)
         /\ \A m \in Mutexes : owner[m] = t => has[t][m] = hold[m] /\ hold[m] > 0
  <1>1. stat[t] = "RUNNING" /\ pc[t] = "run" BY DEF Running
  <1>2. call[t] = Asleep /\ call[t] \notin Mutexes /\ error[t] = "EOK"
    BY <1>1, MutexConstants DEF IInv, Told
  <1>3. t \notin timer /\ \A m \in Mutexes : ~In(queue[m], t)
    BY <1>1 DEF IInv, Blocked, TimeoutFindsSuspended
  <1>4. \A m \in Mutexes : owner[m] = t => has[t][m] = hold[m] /\ hold[m] > 0
    BY <1>1 DEF IInv, MutualExclusion, Handed
  <1>. QED BY <1>1, <1>2, <1>3, <1>4

(* Steps that change only a count of the owner.                            *)
LEMMA CountStep ==
  ASSUME IInv, nested' \subseteq Threads, NEW t \in Threads, NEW m \in Mutexes, Running(t), owner[m] = t,
         NEW n \in 1 .. HOLD_MAX,
         hold' = [hold EXCEPT ![m] = n], has' = [has EXCEPT ![t][m] = n],
         UNCHANGED <<schedVars, threadVars, value, owner, orig, queue>>
  PROVE  IInv'
  <1> USE DEF IInv, Types, schedVars, threadVars
  <1>1. UNCHANGED <<cur, ready, stat, yield, prio, error, timer, pc, call, value, owner, orig,
                    queue>>
    OBVIOUS
  <1>2. pc[t] = "run" /\ call[t] = Asleep /\ call[t] \notin Mutexes BY RunningFacts
  <1>3. /\ n \in 0 .. HOLD_MAX /\ n > 0
        /\ hold'[m] = n /\ has'[t][m] = n
        /\ \A k \in Mutexes \ {m} : hold'[k] = hold[k]
        /\ \A u \in Threads, k \in Mutexes : <<u, k>> # <<t, m>> => has'[u][k] = has[u][k]
    BY MutexConstants DEF TypeOK
  <1>4. TypeOK' BY <1>1, <1>3 DEF TypeOK
  <1>5. Blocked' BY <1>1 DEF Blocked
  <1>6. Told' BY <1>1, <1>2, <1>3 DEF Told, TypeOK
  <1>7. TimeoutFindsSuspended' BY <1>1 DEF TimeoutFindsSuspended
  <1>8. MutualExclusion'
    <2>1. \A u \in Threads, k \in Mutexes : Handed(u, k) => <<u, k>> # <<t, m>> /\ Handed(u, k)'
      BY <1>1, <1>2, <1>3 DEF Handed
    <2>. QED BY <2>1, <1>1, <1>3, MutexConstants DEF MutualExclusion
  <1>. QED BY <1>1, <1>4, <1>5, <1>6, <1>7, <1>8

LEMMA TakeAgainStep ==
  ASSUME IInv, nested' \subseteq Threads, NEW t \in Threads, NEW m \in Mutexes, Running(t), take_again(t, m)
  PROVE  IInv'
  <1> USE DEF take_again
  <1>0. owner[m] = t /\ UNCHANGED <<schedVars, threadVars, value, owner, orig, queue>>
    OBVIOUS
  <1>1. has[t][m] = hold[m] /\ hold[m] > 0 BY <1>0, RunningFacts
  <1>2. hold \in [Mutexes -> 0 .. HOLD_MAX] /\ has \in [Threads -> [Mutexes -> 0 .. HOLD_MAX]]
    BY DEF IInv, Types, TypeOK
  <1>3. CASE hold[m] < HOLD_MAX
    <2>1. hold[m] + 1 \in 1 .. HOLD_MAX BY <1>1, <1>2, <1>3, MutexConstants
    <2>2. /\ hold' = [hold EXCEPT ![m] = hold[m] + 1]
          /\ has' = [has EXCEPT ![t][m] = hold[m] + 1]
      BY <1>1, <1>3
    <2>. QED BY <1>0, <2>1, <2>2, CountStep
  <1>4. CASE ~(hold[m] < HOLD_MAX)
    <2>1. hold[m] \in 1 .. HOLD_MAX BY <1>1, <1>2, MutexConstants
    <2>2. hold' = [hold EXCEPT ![m] = hold[m]] /\ has' = [has EXCEPT ![t][m] = hold[m]]
      BY <1>1, <1>2, <1>4
    <2>. QED BY <1>0, <2>1, <2>2, CountStep
  <1>. QED BY <1>3, <1>4

LEMMA ReleaseOneStep ==
  ASSUME IInv, nested' \subseteq Threads, NEW t \in Threads, NEW m \in Mutexes, Running(t), release_one(t, m)
  PROVE  IInv'
  <1>0. /\ owner[m] = t /\ hold[m] > 1
        /\ UNCHANGED <<schedVars, threadVars, value, owner, orig, queue>>
    BY DEF release_one
  <1>1. has[t][m] = hold[m] BY <1>0, RunningFacts
  <1>2. hold[m] \in 0 .. HOLD_MAX BY DEF IInv, Types, TypeOK
  <1>3. hold[m] - 1 \in 1 .. HOLD_MAX BY <1>0, <1>2, MutexConstants
  <1>4. PICK n \in 1 .. HOLD_MAX : n = hold[m] - 1 BY <1>3
  <1>5. hold' = [hold EXCEPT ![m] = n] /\ has' = [has EXCEPT ![t][m] = n]
    BY <1>1, <1>4 DEF release_one, Gives
  <1>. QED BY <1>0, <1>5, CountStep

LEMMA TakeFreeStep ==
  ASSUME IInv, nested' \subseteq Threads, NEW t \in Threads, NEW m \in Mutexes, Running(t), take_free(t, m)
  PROVE  IInv'
  <1> USE DEF IInv, Types, schedVars, threadVars
  <1>1. /\ owner[m] # t /\ value[m] > 0
        /\ value' = [value EXCEPT ![m] = value[m] - 1]
        /\ owner' = [owner EXCEPT ![m] = t] /\ orig' = [orig EXCEPT ![m] = prio[t]]
        /\ hold' = [hold EXCEPT ![m] = hold[m] + 1]
        /\ has' = [has EXCEPT ![t][m] = has[t][m] + 1]
        /\ UNCHANGED <<cur, ready, stat, yield, prio, error, timer, pc, call, queue>>
    BY DEF take_free
  <1>2. /\ owner[m] = None /\ value[m] = 1 /\ hold[m] = 0 /\ queue[m] = <<>>
        /\ \A u \in Threads : has[u][m] = 0
    BY <1>1, MutexConstants DEF MutualExclusion, TypeOK
  <1>3. pc[t] = "run" /\ call[t] = Asleep /\ call[t] \notin Mutexes BY RunningFacts
  <1>4. /\ value'[m] = 0 /\ owner'[m] = t /\ hold'[m] = 1 /\ has'[t][m] = 1
        /\ \A k \in Mutexes \ {m} : /\ value'[k] = value[k] /\ owner'[k] = owner[k]
                                    /\ hold'[k] = hold[k]
        /\ \A u \in Threads, k \in Mutexes : <<u, k>> # <<t, m>> => has'[u][k] = has[u][k]
    BY <1>1, <1>2 DEF TypeOK
  <1>5. TypeOK'
    <2>1. hold[m] + 1 \in 0 .. HOLD_MAX /\ has[t][m] + 1 \in 0 .. HOLD_MAX /\ value[m] - 1 \in 0 .. 1
      BY <1>2, MutexConstants
    <2>. QED BY <1>1, <2>1 DEF TypeOK
  <1>6. ~\E u \in Threads : In(queue[m], u) BY <1>2 DEF In
  <1>7. Blocked' BY <1>1, <1>4, <1>6 DEF Blocked
  <1>8. Told' BY <1>1, <1>2, <1>3, <1>4, MutexConstants DEF Told, TypeOK
  <1>9. TimeoutFindsSuspended' BY <1>1 DEF TimeoutFindsSuspended
  <1>10. MutualExclusion'
    <2>1. \A u \in Threads, k \in Mutexes : Handed(u, k) => k # m /\ Handed(u, k)'
      BY <1>1, <1>2, <1>4, MutexConstants DEF Handed
    <2>. QED BY <2>1, <1>1, <1>2, <1>4, MutexConstants DEF MutualExclusion
  <1>. QED BY <1>1, <1>5, <1>7, <1>8, <1>9, <1>10

LEMMA TakeBlocksStep ==
  ASSUME IInv, nested' \subseteq Threads, NEW t \in Threads, NEW m \in Mutexes, NEW timed \in BOOLEAN,
         Running(t), take_blocks(t, m, timed)
  PROVE  IInv'
  <1> USE DEF IInv, Types
  <1> DEFINE o == owner[m]
  <1>1. /\ o # t /\ value[m] = 0 /\ inherit(t, o)
        /\ stat' = [stat EXCEPT ![t] = "SUSPEND"]
        /\ queue' = [queue EXCEPT ![m] = Queued(queue[m], t, prio)]
        /\ timer' = IF timed THEN timer \union {t} ELSE timer \ {t}
        /\ pc' = [pc EXCEPT ![t] = "block"] /\ call' = [call EXCEPT ![t] = m]
        /\ UNCHANGED <<cur, yield, error, value, owner, hold, orig, has>>
    BY DEF take_blocks, _ipc_list_suspend
  <1>2. /\ stat[t] = "RUNNING" /\ pc[t] = "run" /\ call[t] = Asleep /\ call[t] \notin Mutexes
        /\ error[t] = "EOK"
        /\ \A k \in Mutexes : ~In(queue[k], t)
    BY RunningFacts
  <1>3. o \in Threads /\ o # None BY <1>1 DEF MutualExclusion, TypeOK
  <1>4. /\ prio' \in [Threads -> Nat] /\ ready' \in Seq(Threads) /\ Distinct(ready')
        /\ \A u : In(ready', u) => In(ready, u) \/ (u = o /\ stat[o] = "READY")
    <2>1. CASE prio[t] < prio[o]
      <3>1. prio' = [prio EXCEPT ![o] = prio[t]] /\ ready' = Moved(o, prio')
        BY <1>1, <2>1 DEF inherit
      <3>2. prio' \in [Threads -> Nat] BY <3>1, <1>3 DEF TypeOK
      <3>3. CASE stat[o] = "READY"
        <4>1. /\ Without(ready, o) \in Seq(Threads) /\ Distinct(Without(ready, o))
              /\ \A u : In(Without(ready, o), u) <=> In(ready, u) /\ u # o
          BY WithoutFacts DEF Fits
        <4>2. ready' = Queued(Without(ready, o), o, prio') BY <3>1, <3>3 DEF Moved
        <4>3. ~In(Without(ready, o), o) BY <4>1
        <4>. HIDE DEF o
        <4>4. /\ ready' \in Seq(Threads) /\ Distinct(ready')
              /\ \A u : In(ready', u) <=> In(Without(ready, o), u) \/ u = o
          BY <4>1, <4>2, <4>3, <3>2, <1>3, QueuedFacts
        <4>. QED BY <3>2, <3>3, <4>1, <4>4
      <3>4. CASE stat[o] # "READY" BY <3>1, <3>2, <3>4 DEF Moved, Fits
      <3>. QED BY <3>3, <3>4
    <2>2. CASE ~(prio[t] < prio[o]) BY <1>1, <2>2 DEF inherit, Fits, TypeOK
    <2>. QED BY <2>1, <2>2
  <1>5. /\ queue'[m] \in Seq(Threads) /\ Distinct(queue'[m])
        /\ \A u : In(queue'[m], u) <=> In(queue[m], u) \/ u = t
        /\ \A k \in Mutexes \ {m} : queue'[k] = queue[k]
    <2>1. /\ queue[m] \in Seq(Threads) /\ Distinct(queue[m]) /\ prio \in [Threads -> Nat]
          /\ queue'[m] = Queued(queue[m], t, prio)
          /\ \A k \in Mutexes \ {m} : queue'[k] = queue[k]
      BY <1>1 DEF TypeOK, Blocked
    <2>. QED BY <2>1, <1>2, QueuedFacts
  <1> HIDE DEF o
  <1>6. Fits(ready, stat)'
    <2>1. ~In(ready, t) BY <1>2 DEF Fits
    <2>2. stat' \in [Threads -> Stats] BY <1>1 DEF Fits, Stats
    <2>3. \A u \in Threads : In(ready', u) => stat'[u] = "READY"
      BY <1>1, <1>2, <1>4, <2>1 DEF Fits, TypeOK
    <2>. QED BY <1>4, <2>2, <2>3 DEF Fits
  <1>7. TypeOK'
    <2>1. queue' \in [Mutexes -> Seq(Threads)] BY <1>1, <1>5 DEF TypeOK
    <2>2. call' \in [Threads -> Mutexes \union {Asleep}] BY <1>1 DEF TypeOK
    <2>. QED BY <2>1, <2>2, <1>1, <1>4 DEF TypeOK
  <1>8. Blocked'
    <2>1. \A k \in Mutexes : Distinct(queue'[k]) BY <1>5 DEF Blocked
    <2>2. \A k \in Mutexes, u \in Threads : In(queue'[k], u) =>
            IF u = t THEN k = m ELSE In(queue[k], u)
      BY <1>2, <1>5
    <2>3. \A k \in Mutexes, u \in Threads : In(queue[k], u) => In(queue'[k], u) BY <1>5
    <2>4. owner[m] # t /\ owner[m] # None BY <1>1, <1>3 DEF o
    <2>5. \A u \in Threads \ {t} : /\ stat'[u] = stat[u] /\ call'[u] = call[u]
                                   /\ pc'[u] = pc[u]
      BY <1>1 DEF TypeOK
    <2>6. stat'[t] = "SUSPEND" /\ call'[t] = m /\ pc'[t] = "block" BY <1>1 DEF TypeOK
    <2>7. \A k \in Mutexes, u \in Threads : In(queue'[k], u) =>
            /\ stat'[u] = "SUSPEND" /\ call'[u] = k /\ error'[u] = "EOK"
            /\ owner'[k] # u /\ owner'[k] # None
      BY <2>2, <2>4, <2>5, <2>6, <1>1, <1>2 DEF Blocked
    <2>8. \A u \in Threads : stat'[u] = "SUSPEND" =>
            /\ pc'[u] \in {"block", "back"}
            /\ call'[u] \in Mutexes => In(queue'[call'[u]], u)
      BY <2>3, <2>5, <2>6, <1>5 DEF Blocked
    <2>. QED BY <2>1, <2>7, <2>8 DEF Blocked
  <1>9. Told' BY <1>1, <1>2 DEF Told, TypeOK
  <1>10. TimeoutFindsSuspended' BY <1>1 DEF TimeoutFindsSuspended, TypeOK
  <1>11. MutualExclusion'
    <2>1. \A u \in Threads, k \in Mutexes : Handed(u, k) => Handed(u, k)'
      BY <1>1, <1>2 DEF Handed, TypeOK
    <2>2. owner[m] # None BY <1>3 DEF o
    <2>. QED BY <2>1, <2>2, <1>1, <1>5 DEF MutualExclusion
  <1>. QED BY <1>6, <1>7, <1>8, <1>9, <1>10, <1>11

LEMMA TakeReturnsStep ==
  ASSUME IInv, nested' \subseteq Threads, NEW t \in Threads, NEW m \in Mutexes, take_returns(t, m)
  PROVE  IInv'
  <1> USE DEF IInv, Types, schedVars, mutexVars
  <1>1. /\ stat[t] = "RUNNING" /\ pc[t] = "back" /\ call[t] = m
        /\ pc' = [pc EXCEPT ![t] = "run"]
        /\ has' = IF error[t] = "EOK" THEN [has EXCEPT ![t][m] = has[t][m] + 1] ELSE has
        /\ error' = [error EXCEPT ![t] = "EOK"] /\ call' = [call EXCEPT ![t] = Asleep]
        /\ UNCHANGED <<cur, ready, stat, yield, prio, timer, value, owner, hold, orig, queue>>
    BY DEF take_returns
  <1>2. /\ Asleep \notin Mutexes
        /\ error[t] = "EOK" => owner[m] = t /\ has[t][m] = 0 /\ hold[m] = 1
        /\ error[t] # "EOK" => owner[m] # t
    <2>1. /\ error[t] = "EOK" => owner[m] = t /\ has[t][m] = 0
          /\ error[t] # "EOK" => owner[m] # t
      BY <1>1 DEF Told
    <2>. QED BY <2>1, MutexConstants DEF MutualExclusion
  <1>3. \A k \in Mutexes \ {m} : ~Handed(t, k) BY <1>1 DEF Handed
  <1>4. \A u \in Threads, k \in Mutexes :
          has'[u][k] = IF u = t /\ k = m /\ error[t] = "EOK" THEN 1 ELSE has[u][k]
    BY <1>1, <1>2 DEF TypeOK
  <1>5. TypeOK'
    <2>1. has' \in [Threads -> [Mutexes -> 0 .. HOLD_MAX]]
      <3>1. 1 \in 0 .. HOLD_MAX BY MutexConstants
      <3>2. CASE error[t] = "EOK"
        <4>1. has[t][m] + 1 \in 0 .. HOLD_MAX BY <1>2, <3>1, <3>2
        <4>. QED BY <4>1, <3>2, <1>1 DEF TypeOK
      <3>. QED BY <3>2, <1>1 DEF TypeOK
    <2>. QED BY <2>1, <1>1 DEF TypeOK
  <1>6. Blocked' BY <1>1 DEF Blocked, TypeOK
  <1>7. Told' BY <1>1, <1>2, <1>4 DEF Told, TypeOK
  <1>8. TimeoutFindsSuspended' BY <1>1 DEF TimeoutFindsSuspended
  <1>9. MutualExclusion'
    <2>1. \A u \in Threads \ {t}, k \in Mutexes :
            /\ Handed(u, k) => Handed(u, k)'
            /\ error'[u] = error[u]
      BY <1>1, <1>4 DEF Handed, TypeOK
    <2>. QED BY <2>1, <1>1, <1>2, <1>3, <1>4 DEF MutualExclusion
  <1>. QED BY <1>1, <1>5, <1>6, <1>7, <1>8, <1>9

LEMMA ReleaseFreeStep ==
  ASSUME IInv, nested' \subseteq Threads, NEW t \in Threads, NEW m \in Mutexes, Running(t), release_free(t, m)
  PROVE  IInv'
  <1> USE DEF IInv, Types, schedVars
  <1>1. /\ owner[m] = t /\ hold[m] = 1 /\ queue[m] = <<>>
        /\ hold' = [hold EXCEPT ![m] = 0]
        /\ has' = [has EXCEPT ![t][m] = has[t][m] - 1]
        /\ prio' = [prio EXCEPT ![t] = orig[m]]
        /\ value' = [value EXCEPT ![m] = value[m] + 1]
        /\ owner' = [owner EXCEPT ![m] = None] /\ orig' = [orig EXCEPT ![m] = UNSET]
        /\ UNCHANGED <<cur, ready, stat, yield, error, timer, pc, call, queue>>
    BY DEF release_free, Gives, restore
  <1>2. /\ pc[t] = "run" /\ call[t] = Asleep /\ call[t] \notin Mutexes /\ has[t][m] = 1
    BY <1>1, RunningFacts
  <1>3. value[m] = 0 /\ None \notin Threads BY <1>1, MutexConstants DEF MutualExclusion
  <1>4. /\ value'[m] = 1 /\ owner'[m] = None /\ hold'[m] = 0 /\ has'[t][m] = 0
        /\ \A k \in Mutexes \ {m} : /\ value'[k] = value[k] /\ owner'[k] = owner[k]
                                    /\ hold'[k] = hold[k]
        /\ \A u \in Threads, k \in Mutexes : <<u, k>> # <<t, m>> => has'[u][k] = has[u][k]
    BY <1>1, <1>2, <1>3 DEF TypeOK
  <1>5. TypeOK'
    <2>1. /\ 0 \in 0 .. HOLD_MAX /\ has[t][m] - 1 \in 0 .. HOLD_MAX /\ value[m] + 1 \in 0 .. 1
          /\ UNSET \in Nat
      BY <1>2, <1>3, MutexConstants DEF UNSET
    <2>. QED BY <1>1, <2>1 DEF TypeOK
  <1>6. ~\E u \in Threads : In(queue[m], u) BY <1>1 DEF In
  <1>7. Blocked' BY <1>1, <1>4, <1>6 DEF Blocked
  <1>8. Told' BY <1>1, <1>2, <1>3, <1>4 DEF Told, TypeOK
  <1>9. TimeoutFindsSuspended' BY <1>1 DEF TimeoutFindsSuspended
  <1>10. MutualExclusion'
    <2>1. \A u \in Threads, k \in Mutexes : Handed(u, k) => k # m /\ Handed(u, k)'
      BY <1>1, <1>2, <1>4 DEF Handed
    <2>. QED BY <2>1, <1>1, <1>2, <1>3, <1>4 DEF MutualExclusion
  <1>. QED BY <1>1, <1>5, <1>7, <1>8, <1>9, <1>10

LEMMA HandsOverStep ==
  ASSUME IInv, nested' \subseteq Threads, NEW t \in Threads, NEW m \in Mutexes, Running(t), release_hands_over(t, m)
  PROVE  IInv'
  <1> USE DEF IInv, Types
  <1>0. PICK next : next = Head(queue[m]) OBVIOUS
  <1>1. /\ owner[m] = t /\ hold[m] = 1 /\ queue[m] # <<>>
        /\ has' = [has EXCEPT ![t][m] = has[t][m] - 1]
        /\ prio' = [prio EXCEPT ![t] = orig[m]]
        /\ owner' = [owner EXCEPT ![m] = next]
        /\ orig' = [orig EXCEPT ![m] = prio[next]]
        /\ queue' = [queue EXCEPT ![m] = Tail(queue[m])]
        /\ timer' = timer \ {next}
        /\ ready' = InsertedReady(next) /\ stat' = InsertedStat(next)
        /\ pc' = [pc EXCEPT ![t] = "yield"]
        /\ UNCHANGED <<cur, yield, error, call, value, hold>>
    BY <1>0 DEF release_hands_over, Gives, restore, stop_timer
  <1>2. /\ stat[t] = "RUNNING" /\ call[t] = Asleep /\ call[t] \notin Mutexes /\ error[t] = "EOK"
        /\ has[t][m] = 1 /\ \A k \in Mutexes : ~In(queue[k], t)
    BY <1>1, RunningFacts
  <1>3. /\ Tail(queue[m]) \in Seq(Threads) /\ Distinct(Tail(queue[m]))
        /\ next \in Threads /\ In(queue[m], next)
        /\ \A u : In(Tail(queue[m]), u) <=> In(queue[m], u) /\ u # next
    BY <1>0, <1>1, TailFacts DEF TypeOK, Blocked
  <1>4. /\ stat[next] = "SUSPEND" /\ call[next] = m /\ error[next] = "EOK"
        /\ pc[next] \in {"block", "back"} /\ next # t /\ has[next][m] = 0 /\ next # None
    BY <1>1, <1>2, <1>3, MutexConstants DEF Blocked, MutualExclusion
  <1>5. /\ Fits(ready', stat') /\ stat'[next] # "SUSPEND"
        /\ \A u \in Threads \ {next} : stat'[u] = stat[u]
    BY <1>1, <1>3, <1>4, InsertStep DEF TypeOK
  <1>6. /\ owner'[m] = next /\ has'[t][m] = 0
        /\ \A k \in Mutexes \ {m} : owner'[k] = owner[k] /\ queue'[k] = queue[k]
        /\ queue'[m] = Tail(queue[m])
        /\ \A u \in Threads, k \in Mutexes : <<u, k>> # <<t, m>> => has'[u][k] = has[u][k]
        /\ pc'[t] = "yield" /\ \A u \in Threads \ {t} : pc'[u] = pc[u]
    BY <1>1, <1>2 DEF TypeOK
  <1>7. TypeOK'
    <2>1. has[t][m] - 1 \in 0 .. HOLD_MAX BY <1>2, MutexConstants
    <2>2. queue' \in [Mutexes -> Seq(Threads)] BY <1>1, <1>3 DEF TypeOK
    <2>3. ready' \in Seq(Threads) /\ stat' \in [Threads -> Stats] BY <1>5 DEF Fits
    <2>. QED BY <1>1, <1>3, <2>1, <2>2, <2>3 DEF TypeOK, Stats
  <1>8. Blocked'
    <2>1. \A k \in Mutexes : Distinct(queue'[k]) BY <1>3, <1>6 DEF Blocked
    <2>2. \A k \in Mutexes, u \in Threads : In(queue'[k], u) =>
            In(queue[k], u) /\ u # next /\ u # t
      BY <1>2, <1>3, <1>4, <1>6 DEF Blocked
    <2>3. \A k \in Mutexes, u \in Threads : In(queue[k], u) /\ u # next => In(queue'[k], u)
      BY <1>3, <1>6
    <2>4. \A k \in Mutexes, u \in Threads : In(queue'[k], u) =>
            /\ stat'[u] = "SUSPEND" /\ call'[u] = k /\ error'[u] = "EOK"
            /\ owner'[k] # u /\ owner'[k] # None
      BY <2>2, <1>1, <1>4, <1>5, <1>6 DEF Blocked
    <2>5. \A u \in Threads : stat'[u] = "SUSPEND" =>
            /\ pc'[u] \in {"block", "back"}
            /\ call'[u] \in Mutexes => In(queue'[call'[u]], u)
      <3> SUFFICES ASSUME NEW u \in Threads, stat'[u] = "SUSPEND"
                   PROVE  /\ pc'[u] \in {"block", "back"}
                          /\ call'[u] \in Mutexes => In(queue'[call'[u]], u)
        OBVIOUS
      <3>1. u # next /\ stat[u] = "SUSPEND" /\ u # t BY <1>2, <1>5
      <3>. QED BY <3>1, <2>3, <1>1, <1>6 DEF Blocked
    <2>. QED BY <2>1, <2>4, <2>5 DEF Blocked
  <1>9. Told'
    <2> SUFFICES ASSUME NEW u \in Threads
                 PROVE  /\ pc'[u] \in {"run", "yield"} => call[u] = Asleep /\ error[u] = "EOK"
                        /\ call[u] \in Mutexes /\ stat'[u] # "SUSPEND" =>
                             IF error[u] = "EOK" THEN owner'[call[u]] = u /\ has'[u][call[u]] = 0
                             ELSE owner'[call[u]] # u
      BY <1>1 DEF Told
    <2>1. CASE u = t BY <2>1, <1>2
    <2>2. CASE u = next BY <2>2, <1>4, <1>6
    <2>3. CASE u # t /\ u # next
      <3>1. pc'[u] = pc[u] /\ stat'[u] = stat[u] BY <2>3, <1>5, <1>6
      <3>2. CASE call[u] = m BY <2>3, <3>1, <3>2, <1>1, <1>6 DEF Told
      <3>3. CASE call[u] # m BY <2>3, <3>1, <3>3, <1>6 DEF Told
      <3>. QED BY <3>2, <3>3
    <2>. QED BY <2>1, <2>2, <2>3
  <1>10. TimeoutFindsSuspended' BY <1>1, <1>5 DEF TimeoutFindsSuspended, TypeOK
  <1>11. MutualExclusion'
    <2>1. \A u \in Threads, k \in Mutexes : Handed(u, k) => k # m /\ Handed(u, k)'
      BY <1>1, <1>2, <1>6 DEF Handed
    <2>2. Handed(next, m)' BY <1>1, <1>4, <1>6 DEF Handed
    <2>3. \A k \in Mutexes : (queue[k] = <<>> => k # m)
      BY <1>1
    <2>4. \A u \in Threads : has'[u][m] = 0
      BY <1>1, <1>6 DEF MutualExclusion
    <2>5. value[m] = 0 BY <1>1, MutexConstants DEF MutualExclusion
    <2>. QED BY <2>1, <2>2, <2>3, <2>4, <2>5, <1>1, <1>4, <1>6 DEF MutualExclusion
  <1>. QED BY <1>5, <1>7, <1>8, <1>9, <1>10, <1>11

-----------------------------------------------------------------------------
(* Threads only join nested, and only by taking a mutex.                   *)
LEMMA NestedGrows ==
  ASSUME IInv, [Next]_vars
  PROVE  nested \subseteq nested' /\ nested' \subseteq Threads
  <1>1. nested \subseteq Threads BY DEF IInv, Types, TypeOK
  <1>2. CASE UNCHANGED vars BY <1>1, <1>2 DEF vars, ghosts
  <1>3. CASE Tick BY <1>1, <1>3 DEF Tick, ghosts
  <1>4. CASE \E t \in Threads : Returns(t)
    BY <1>1, <1>4 DEF Returns, SchedulerStep, take_returns, ghosts
  <1>5. CASE \E t \in Threads : rt_thread_sleep(t) /\ UNCHANGED <<mutexVars, ghosts>>
    BY <1>1, <1>5 DEF ghosts
  <1>6. CASE \E t \in Threads, m \in Mutexes : rt_mutex_take(t, m)
    BY <1>1, <1>6 DEF rt_mutex_take
  <1>7. CASE \E t \in Threads, m \in Mutexes : rt_mutex_release(t, m)
    BY <1>1, <1>7 DEF rt_mutex_release
  <1>8. CASE \E t \in Threads : _thread_timeout(t)
    BY <1>1, <1>8 DEF _thread_timeout, ghosts
  <1>. QED BY <1>2, <1>3, <1>4, <1>5, <1>6, <1>7, <1>8 DEF Next

LEMMA NextIInv == IInv /\ [Next]_vars => IInv'
  <1> SUFFICES ASSUME IInv, [Next]_vars PROVE IInv' OBVIOUS
  <1>0. nested' \subseteq Threads BY NestedGrows
  <1>1. CASE UNCHANGED vars
    BY <1>1 DEF vars, ghosts, schedVars, threadVars, mutexVars, IInv, Types, TypeOK, Blocked, Told,
                TimeoutFindsSuspended, MutualExclusion, Handed
  <1>2. CASE Tick BY <1>0, <1>2, TickStep
  <1>3. CASE \E t \in Threads : Returns(t)
    <2> PICK t \in Threads : Returns(t) BY <1>3
    <2>1. CASE SchedulerStep(t) BY <1>0, <2>1, CallsStep, SleepReturnsStep DEF SchedulerStep
    <2>2. CASE \E m \in Mutexes : take_returns(t, m) BY <1>0, <2>2, TakeReturnsStep
    <2>. QED BY <2>1, <2>2 DEF Returns
  <1>4. CASE \E t \in Threads : rt_thread_sleep(t) /\ UNCHANGED <<mutexVars, ghosts>>
    BY <1>0, <1>4, SleepStep
  <1>5. CASE \E t \in Threads, m \in Mutexes : rt_mutex_take(t, m)
    BY <1>0, <1>5, TakeAgainStep, TakeFreeStep, TakeBlocksStep DEF rt_mutex_take
  <1>6. CASE \E t \in Threads, m \in Mutexes : rt_mutex_release(t, m)
    BY <1>0, <1>6, ReleaseOneStep, ReleaseFreeStep, HandsOverStep DEF rt_mutex_release
  <1>7. CASE \E t \in Threads : _thread_timeout(t) BY <1>0, <1>7, TimeoutStep
  <1>. QED BY <1>1, <1>2, <1>3, <1>4, <1>5, <1>6, <1>7 DEF Next

(* rt_mutex_take and rt_mutex_release give a mutex to one thread at a      *)
(* time, whatever timeouts, hand-overs and preemption come between, and    *)
(* _thread_timeout's assertion that its thread is suspended never fails.   *)
THEOREM MutexCorrect ==
  Spec => [](TypeOK /\ MutualExclusion /\ TimeoutFindsSuspended)
  <1>1. IInv => TypeOK /\ MutualExclusion /\ TimeoutFindsSuspended BY DEF IInv, Types
  <1>. QED BY InitIInv, NextIInv, <1>1, PTL DEF Spec

-----------------------------------------------------------------------------
(* Priorities of the threads that never asked for a mutex while they owned *)
(* another. Such a thread owns nothing while it waits and has its own      *)
(* priority, and nobody before it in a queue has a lower one: a thread     *)
(* that waits can only be raised.                                          *)

InOrder(s, pr, N) ==
  \A i, j \in 1 .. Len(s) : i <= j /\ s[j] \notin N => pr[s[i]] <= pr[s[j]]

OneOwned ==
  \A m, k \in Mutexes : owner[m] \in Threads \ nested /\ owner[m] = owner[k] => m = k
WaitersOwnNone ==
  \A m, k \in Mutexes, t \in Threads \ nested : In(queue[k], t) => owner[m] # t
OrigIsBase ==
  \A m \in Mutexes : owner[m] \in Threads \ nested => orig[m] = Base[owner[m]]
QueuesOrdered == \A m \in Mutexes : InOrder(queue[m], prio, nested)
PrioInv == /\ OneOwned /\ WaitersOwnNone /\ OrigIsBase /\ QueuesOrdered
           /\ PriorityRestored /\ NoInversion

(* Where Queued puts a thread.                                             *)
LEMMA QueuedPlace ==
  ASSUME NEW s \in Seq(Threads), NEW t \in Threads, NEW pr \in [Threads -> Nat]
  PROVE  \E i \in 1 .. Len(s) + 1 :
           /\ Queued(s, t, pr) = [j \in 1 .. Len(s) + 1 |->
                IF j < i THEN s[j] ELSE IF j = i THEN t ELSE s[j - 1]]
           /\ \A j \in 1 .. Len(s) : j < i => pr[s[j]] <= pr[t]
           /\ i <= Len(s) => pr[t] < pr[s[i]]
  <1>0. Len(s) \in Nat /\ \A j \in 1 .. Len(s) : s[j] \in Threads /\ pr[s[j]] \in Nat OBVIOUS
  <1>1. CASE \A j \in 1 .. Len(s) : pr[s[j]] <= pr[t]
    <2>1. Queued(s, t, pr) = Append(s, t) BY <1>1 DEF Queued
    <2>2. Append(s, t) = [j \in 1 .. Len(s) + 1 |->
            IF j < Len(s) + 1 THEN s[j] ELSE IF j = Len(s) + 1 THEN t ELSE s[j - 1]]
      <3> DEFINE a == Append(s, t)
                 b == [j \in 1 .. Len(s) + 1 |->
                         IF j < Len(s) + 1 THEN s[j] ELSE IF j = Len(s) + 1 THEN t ELSE s[j - 1]]
      <3>1. a \in Seq(Threads) /\ Len(a) = Len(s) + 1 /\ DOMAIN a = 1 .. Len(s) + 1 OBVIOUS
      <3>2. \A j \in 1 .. Len(s) + 1 : a[j] = b[j] BY <1>0
      <3> HIDE DEF a
      <3>3. a = [j \in 1 .. Len(a) |-> a[j]] BY <3>1
      <3>. QED BY <3>1, <3>2, <3>3 DEF a
    <2>3. Len(s) + 1 \in 1 .. Len(s) + 1 /\ ~(Len(s) + 1 <= Len(s)) BY <1>0
    <2>. QED BY <1>1, <2>1, <2>2, <2>3
  <1>2. CASE ~(\A j \in 1 .. Len(s) : pr[s[j]] <= pr[t])
    <2> DEFINE Later == {j \in 1 .. Len(s) : pr[t] < pr[s[j]]}
               P(i) == /\ pr[t] < pr[s[i]]
                       /\ \A j \in 1 .. i - 1 : pr[s[j]] <= pr[t]
               i == CHOOSE i \in 1 .. Len(s) : P(i)
    <2>1. Later # {} /\ Later \subseteq Nat BY <1>0, <1>2
    <2>2. PICK l \in Later : \A j \in Later : l <= j BY <2>1, LeastExists
    <2>3. P(l) BY <1>0, <2>2
    <2>4. i \in 1 .. Len(s) /\ P(i) BY <2>2, <2>3
    <2>5. Queued(s, t, pr) = [j \in 1 .. Len(s) + 1 |->
            IF j < i THEN s[j] ELSE IF j = i THEN t ELSE s[j - 1]]
      BY <1>2 DEF Queued
    <2> HIDE DEF i
    <2>6. i \in 1 .. Len(s) + 1 /\ \A j \in 1 .. Len(s) : j < i => j \in 1 .. i - 1
      BY <1>0, <2>4
    <2>. QED BY <2>4, <2>5, <2>6
  <1>. QED BY <1>1, <1>2

LEMMA QueuedOrder ==
  ASSUME NEW s \in Seq(Threads), NEW t \in Threads, NEW pr \in [Threads -> Nat],
         NEW N, InOrder(s, pr, N)
  PROVE  InOrder(Queued(s, t, pr), pr, N)
  <1> PICK i \in 1 .. Len(s) + 1 :
        /\ Queued(s, t, pr) = [j \in 1 .. Len(s) + 1 |->
             IF j < i THEN s[j] ELSE IF j = i THEN t ELSE s[j - 1]]
        /\ \A j \in 1 .. Len(s) : j < i => pr[s[j]] <= pr[t]
        /\ i <= Len(s) => pr[t] < pr[s[i]]
    BY QueuedPlace
  <1> DEFINE q == Queued(s, t, pr)
  <1>0. /\ Len(s) \in Nat /\ pr[t] \in Nat
        /\ \A j \in 1 .. Len(s) : s[j] \in Threads /\ pr[s[j]] \in Nat
    OBVIOUS
  <1>1. Len(q) = Len(s) + 1 BY <1>0
  <1>2. \A j \in 1 .. Len(s) + 1 : /\ j = i => q[j] = t
                                   /\ j < i => j \in 1 .. Len(s) /\ q[j] = s[j]
                                   /\ j > i => j - 1 \in 1 .. Len(s) /\ q[j] = s[j - 1]
    BY <1>0
  <1>3. \A j \in 1 .. Len(s) : (j < i => pr[s[j]] <= pr[t]) /\ (j >= i /\ s[j] \notin N => pr[t] <= pr[s[j]])
    <2>1. \A j \in 1 .. Len(s) : j < i => pr[s[j]] <= pr[t] OBVIOUS
    <2>2. ASSUME NEW j \in 1 .. Len(s), j >= i, s[j] \notin N PROVE pr[t] <= pr[s[j]]
      <3>1. i \in 1 .. Len(s) /\ pr[t] < pr[s[i]] BY <1>0, <2>2
      <3>2. pr[s[i]] <= pr[s[j]] BY <2>2, <3>1 DEF InOrder
      <3>. QED BY <1>0, <3>1, <3>2
    <2>. QED BY <2>1, <2>2
  <1> HIDE DEF q
  <1>4. ASSUME NEW a \in 1 .. Len(s) + 1, NEW b \in 1 .. Len(s) + 1, a <= b, q[b] \notin N
        PROVE  pr[q[a]] <= pr[q[b]]
    <2>1. CASE a = i
      <3>1. q[a] = t BY <1>2, <2>1
      <3>2. CASE b = i BY <1>0, <1>2, <3>1, <3>2
      <3>3. CASE b > i
        <4>1. b - 1 \in 1 .. Len(s) /\ b - 1 >= i /\ q[b] = s[b - 1] BY <1>0, <1>2, <3>3
        <4>. QED BY <1>3, <1>4, <3>1, <4>1
      <3>. QED BY <1>4, <2>1, <3>2, <3>3, <1>0
    <2>2. CASE a < i
      <3>1. a \in 1 .. Len(s) /\ q[a] = s[a] BY <1>2, <2>2, <1>0
      <3>2. CASE b < i BY <1>2, <1>4, <3>1, <3>2, <1>0 DEF InOrder
      <3>3. CASE b = i BY <1>2, <1>3, <2>2, <3>1, <3>3
      <3>4. CASE b > i
        <4>1. b - 1 \in 1 .. Len(s) /\ q[b] = s[b - 1] BY <1>2, <3>4
        <4>2. a <= b - 1 BY <1>0, <2>2, <3>4
        <4>. QED BY <1>4, <3>1, <4>1, <4>2 DEF InOrder
      <3>. QED BY <3>2, <3>3, <3>4, <1>0
    <2>3. CASE a > i
      <3>1. b > i /\ a - 1 <= b - 1 BY <1>0, <1>4, <2>3
      <3>2. a - 1 \in 1 .. Len(s) /\ q[a] = s[a - 1] BY <1>2, <2>3
      <3>3. b - 1 \in 1 .. Len(s) /\ q[b] = s[b - 1] BY <1>2, <3>1
      <3>. QED BY <1>4, <3>1, <3>2, <3>3 DEF InOrder
    <2>. QED BY <2>1, <2>2, <2>3, <1>0
  <1>5. InOrder(q, pr, N) BY <1>1, <1>4 DEF InOrder
  <1>. QED BY <1>5 DEF q

LEMMA WithoutOrder ==
  ASSUME NEW s \in Seq(Threads), NEW t, NEW pr, NEW N, InOrder(s, pr, N)
  PROVE  InOrder(Without(s, t), pr, N)
  <1>1. CASE ~In(s, t) BY <1>1 DEF Without
  <1>2. CASE In(s, t)
    <2> DEFINE i == CHOOSE i \in 1 .. Len(s) : s[i] = t
               q == [j \in 1 .. Len(s) - 1 |-> IF j < i THEN s[j] ELSE s[j + 1]]
    <2>1. i \in 1 .. Len(s) /\ s[i] = t BY <1>2 DEF In
    <2>2. Without(s, t) = q BY <1>2 DEF Without
    <2>3. Len(s) \in Nat OBVIOUS
    <2> HIDE DEF i
    <2>4. Len(q) = Len(s) - 1 BY <2>1, <2>3
    <2>5. \A j \in 1 .. Len(s) - 1 : \/ j < i /\ j \in 1 .. Len(s) /\ q[j] = s[j]
                                     \/ j >= i /\ j + 1 \in 1 .. Len(s) /\ q[j] = s[j + 1]
      BY <2>1, <2>3
    <2> HIDE DEF q
    <2>6. ASSUME NEW a \in 1 .. Len(s) - 1, NEW b \in 1 .. Len(s) - 1, a <= b, q[b] \notin N
          PROVE  pr[q[a]] <= pr[q[b]]
      <3>1. \E c, d \in 1 .. Len(s) : c <= d /\ q[a] = s[c] /\ q[b] = s[d]
        <4>1. CASE b < i BY <2>1, <2>3, <2>5, <2>6, <4>1
        <4>2. CASE a < i /\ b >= i
          <5>1. a <= b + 1 BY <2>3, <2>6
          <5>. QED BY <2>1, <2>3, <2>5, <4>2, <5>1
        <4>3. CASE a >= i
          <5>1. a + 1 <= b + 1 /\ b >= i BY <2>1, <2>3, <2>6, <4>3
          <5>. QED BY <2>1, <2>3, <2>5, <4>3, <5>1
        <4>. QED BY <4>1, <4>2, <4>3, <2>1
      <3>. QED BY <2>6, <3>1 DEF InOrder
    <2>. QED BY <2>2, <2>4, <2>6 DEF InOrder
  <1>. QED BY <1>1, <1>2

LEMMA TailOrder ==
  ASSUME NEW s \in Seq(Threads), s # <<>>, NEW pr, NEW N, InOrder(s, pr, N)
  PROVE  /\ InOrder(Tail(s), pr, N)
         /\ \A u : In(Tail(s), u) /\ u \notin N => pr[Head(s)] <= pr[u]
  <1>1. Len(s) \in Nat \ {0} /\ Head(s) = s[1] OBVIOUS
  <1>2. Len(Tail(s)) = Len(s) - 1 OBVIOUS
  <1>3. \A j \in 1 .. Len(s) - 1 : Tail(s)[j] = s[j + 1] /\ j + 1 \in 1 .. Len(s) BY <1>1
  <1>4. InOrder(Tail(s), pr, N)
    <2> SUFFICES ASSUME NEW a \in 1 .. Len(s) - 1, NEW b \in 1 .. Len(s) - 1, a <= b,
                        s[b + 1] \notin N
                 PROVE  pr[s[a + 1]] <= pr[s[b + 1]]
      BY <1>2, <1>3 DEF InOrder
    <2>1. a + 1 <= b + 1 BY <1>1
    <2>. QED BY <1>3, <2>1 DEF InOrder
  <1>5. ASSUME NEW j \in 1 .. Len(s) - 1, Tail(s)[j] \notin N PROVE pr[s[1]] <= pr[Tail(s)[j]]
    <2>1. 1 \in 1 .. Len(s) /\ 1 <= j + 1 BY <1>1
    <2>. QED BY <1>3, <1>5, <2>1 DEF InOrder
  <1>. QED BY <1>1, <1>2, <1>4, <1>5 DEF In

(* The order of s survives when some of its threads are raised, the others *)
(* but not those outside N, and N grows.                                   *)
LEMMA RaisedOrder ==
  ASSUME NEW s \in Seq(Threads), NEW pr \in [Threads -> Nat], NEW qr \in [Threads -> Nat],
         NEW N, NEW M, N \subseteq M, InOrder(s, pr, N),
         \A u \in Threads : In(s, u) => qr[u] <= pr[u] /\ (u \notin M => qr[u] = pr[u])
  PROVE  InOrder(s, qr, M)
  <1> SUFFICES ASSUME NEW i \in 1 .. Len(s), NEW j \in 1 .. Len(s), i <= j, s[j] \notin M
               PROVE  qr[s[i]] <= qr[s[j]]
    BY DEF InOrder
  <1>1. s[i] \in Threads /\ s[j] \in Threads OBVIOUS
  <1>2. In(s, s[i]) /\ In(s, s[j]) BY DEF In
  <1>3. pr[s[i]] <= pr[s[j]] BY DEF InOrder
  <1>4. qr[s[i]] <= pr[s[i]] /\ qr[s[j]] = pr[s[j]] BY <1>1, <1>2
  <1>5. pr[s[i]] \in Nat /\ qr[s[i]] \in Nat /\ pr[s[j]] \in Nat BY <1>1
  <1>. QED BY <1>3, <1>4, <1>5

(* NoInversion by members instead of places.                               *)
Above ==
  \A m \in Mutexes, u \in Threads \ nested :
    In(queue[m], u) /\ owner[m] \notin nested => prio[owner[m]] <= prio[u]

LEMMA NoInversionIn ==
  ASSUME TypeOK
  PROVE  NoInversion <=> Above
  <1>1. \A m \in Mutexes : \A i \in 1 .. Len(queue[m]) : queue[m][i] \in Threads
    BY DEF TypeOK
  <1>2. NoInversion => Above BY DEF NoInversion, Above, In
  <1>3. ASSUME Above PROVE NoInversion
    <2> SUFFICES ASSUME NEW m \in Mutexes, NEW i \in 1 .. Len(queue[m]),
                        owner[m] \notin nested, queue[m][i] \notin nested
                 PROVE  prio[owner[m]] <= prio[queue[m][i]]
      BY DEF NoInversion
    <2>1. In(queue[m], queue[m][i]) BY DEF In
    <2>. QED BY <1>1, <1>3, <2>1 DEF Above
  <1>. QED BY <1>2, <1>3

(* A step that leaves priorities, owners and queues alone.                 *)
LEMMA PrioFrame ==
  ASSUME PrioInv, UNCHANGED <<prio, owner, orig, queue>>, nested \subseteq nested'
  PROVE  PrioInv'
  <1>1. OneOwned' /\ WaitersOwnNone' /\ OrigIsBase'
    BY DEF PrioInv, OneOwned, WaitersOwnNone, OrigIsBase, In
  <1>2. QueuesOrdered' BY DEF PrioInv, QueuesOrdered, InOrder
  <1>3. PriorityRestored' BY DEF PrioInv, PriorityRestored
  <1>4. NoInversion' BY DEF PrioInv, NoInversion
  <1>. QED BY <1>1, <1>2, <1>3, <1>4 DEF PrioInv

(* A waiter has its own priority.                                          *)
LEMMA WaiterPrio ==
  ASSUME PrioInv, NEW m \in Mutexes, NEW u \in Threads \ nested, In(queue[m], u)
  PROVE  prio[u] = Base[u]
  BY DEF PrioInv, WaitersOwnNone, PriorityRestored

LEMMA TimeoutPrio ==
  ASSUME IInv, IInv', PrioInv, NEW t \in Threads, _thread_timeout(t)
  PROVE  PrioInv'
  <1> USE DEF IInv, Types
  <1>1. /\ queue' = [m \in Mutexes |-> Without(queue[m], t)]
        /\ UNCHANGED <<prio, owner, orig, nested>>
    BY DEF _thread_timeout, ghosts
  <1>2. \A m \in Mutexes : /\ \A u : In(queue'[m], u) => In(queue[m], u)
                           /\ InOrder(queue'[m], prio, nested)
    BY <1>1, WithoutFacts, WithoutOrder DEF TypeOK, Blocked, PrioInv, QueuesOrdered
  <1>3. Above' BY <1>1, <1>2, NoInversionIn DEF PrioInv, Above
  <1>4. NoInversion'
    <2>1. TypeOK' => (NoInversion' <=> Above') BY NoInversionIn, PTL
    <2>. QED BY <1>3, <2>1
  <1>. QED BY <1>1, <1>2, <1>4 DEF PrioInv, OneOwned, WaitersOwnNone, OrigIsBase, QueuesOrdered,
                                  PriorityRestored

(* Asking for a mutex: a thread that is not nested after it owns no other. *)
LEMMA Asks ==
  ASSUME NEW t \in Threads, NEW m \in Mutexes, rt_mutex_take(t, m), owner[m] # t
  PROVE  /\ nested \subseteq nested' /\ nested' \subseteq nested \union {t}
         /\ t \notin nested' => t \notin nested /\ \A k \in Mutexes : owner[k] # t
  BY DEF rt_mutex_take

LEMMA TakeFreePrio ==
  ASSUME IInv, IInv', PrioInv, NEW t \in Threads, NEW m \in Mutexes, rt_mutex_take(t, m),
         take_free(t, m)
  PROVE  PrioInv'
  <1> USE DEF IInv, Types, schedVars, threadVars
  <1>1. /\ owner[m] # t /\ value[m] > 0
        /\ owner' = [owner EXCEPT ![m] = t] /\ orig' = [orig EXCEPT ![m] = prio[t]]
        /\ UNCHANGED <<prio, queue>>
    BY DEF take_free
  <1>2. owner[m] = None /\ queue[m] = <<>> BY <1>1 DEF MutualExclusion
  <1>3. \A k \in Mutexes : ~In(queue[k], t) BY RunningFacts DEF rt_mutex_take
  <1>4. /\ nested \subseteq nested'
        /\ t \notin nested' => t \notin nested /\ \A k \in Mutexes : owner[k] # t
    BY <1>1, Asks
  <1>5. t \notin nested' => prio[t] = Base[t] BY <1>4 DEF PrioInv, PriorityRestored
  <1>6. /\ owner'[m] = t /\ orig'[m] = prio[t]
        /\ \A k \in Mutexes \ {m} : owner'[k] = owner[k] /\ orig'[k] = orig[k]
    BY <1>1 DEF TypeOK
  <1>7. OneOwned' BY <1>4, <1>6 DEF PrioInv, OneOwned
  <1>8. WaitersOwnNone' BY <1>1, <1>3, <1>4, <1>6 DEF PrioInv, WaitersOwnNone
  <1>9. OrigIsBase' BY <1>4, <1>5, <1>6 DEF PrioInv, OrigIsBase
  <1>10. QueuesOrdered' BY <1>1, <1>4 DEF PrioInv, QueuesOrdered, InOrder
  <1>11. PriorityRestored'
    BY <1>1, <1>2, <1>4, <1>6, MutexConstants DEF PrioInv, PriorityRestored
  <1>12. NoInversion' BY <1>1, <1>2, <1>4, <1>6 DEF PrioInv, NoInversion
  <1>. QED BY <1>7, <1>8, <1>9, <1>10, <1>11, <1>12 DEF PrioInv

(* A thread that waits lends its priority to the owner. An owner that is   *)
(* not nested waits for nothing and owns nothing else.                     *)
LEMMA TakeBlocksPrio ==
  ASSUME IInv, IInv', PrioInv, NEW t \in Threads, NEW m \in Mutexes, rt_mutex_take(t, m),
         NEW timed \in BOOLEAN, take_blocks(t, m, timed)
  PROVE  PrioInv'
  <1> USE DEF IInv, Types
  <1>0. PICK o : o = owner[m] OBVIOUS
  <1>1. /\ o # t /\ value[m] = 0 /\ inherit(t, o)
        /\ queue' = [queue EXCEPT ![m] = Queued(queue[m], t, prio)]
        /\ UNCHANGED <<owner, orig>>
    BY <1>0 DEF take_blocks, _ipc_list_suspend
  <1>2. o # None /\ o \in Threads BY <1>0, <1>1 DEF MutualExclusion, TypeOK
  <1>3. \A k \in Mutexes : ~In(queue[k], t) BY RunningFacts DEF rt_mutex_take
  <1>4. /\ nested \subseteq nested' /\ nested' \subseteq nested \union {t}
        /\ t \notin nested' => t \notin nested /\ \A k \in Mutexes : owner[k] # t
    BY <1>0, <1>1, Asks
  <1>5. /\ prio'[o] <= prio[o] /\ prio'[o] <= prio[t]
        /\ \A u \in Threads \ {o} : prio'[u] = prio[u]
        /\ \A u \in Threads : prio[u] \in Nat /\ prio'[u] \in Nat /\ prio'[u] <= prio[u]
    <2>1. prio \in [Threads -> Nat] /\ prio' \in [Threads -> Nat] BY DEF TypeOK
    <2>2. CASE prio[t] < prio[o]
      <3>1. prio' = [prio EXCEPT ![o] = prio[t]] BY <1>1, <2>2 DEF inherit
      <3>. QED BY <1>2, <2>1, <2>2, <3>1
    <2>3. CASE ~(prio[t] < prio[o])
      <3>1. prio' = prio BY <1>1, <2>3 DEF inherit
      <3>. QED BY <1>2, <2>1, <2>3, <3>1
    <2>. QED BY <2>2, <2>3
  <1>6. o \notin nested => \A k \in Mutexes : ~In(queue[k], o) /\ (owner[k] = o => k = m)
    BY <1>0, <1>2 DEF PrioInv, WaitersOwnNone, OneOwned
  <1>7. /\ \A u : In(queue'[m], u) <=> In(queue[m], u) \/ u = t
        /\ \A k \in Mutexes \ {m} : queue'[k] = queue[k]
    <2>1. queue[m] \in Seq(Threads) /\ queue'[m] = Queued(queue[m], t, prio)
          /\ prio \in [Threads -> Nat]
      BY <1>1 DEF TypeOK
    <2>. QED BY <1>1, <2>1, QueuedFacts DEF TypeOK
  <1>8. OneOwned' /\ OrigIsBase' BY <1>1, <1>4 DEF PrioInv, OneOwned, OrigIsBase
  <1>9. WaitersOwnNone' BY <1>1, <1>4, <1>7 DEF PrioInv, WaitersOwnNone
  <1>10. QueuesOrdered'
    <2> SUFFICES ASSUME NEW k \in Mutexes PROVE InOrder(queue'[k], prio', nested')
      BY DEF QueuesOrdered
    <2>1. /\ queue[k] \in Seq(Threads) /\ queue'[k] \in Seq(Threads)
          /\ prio \in [Threads -> Nat] /\ prio' \in [Threads -> Nat]
          /\ InOrder(queue[k], prio, nested)
      BY DEF TypeOK, PrioInv, QueuesOrdered
    <2>2. InOrder(queue'[k], prio, nested)
      <3>1. CASE k = m
        <4>1. queue'[k] = Queued(queue[k], t, prio) BY <1>1, <3>1 DEF TypeOK
        <4>. QED BY <2>1, <4>1, QueuedOrder
      <3>2. CASE k # m BY <1>7, <2>1, <3>2
      <3>. QED BY <3>1, <3>2
    <2>3. \A u \in Threads : In(queue'[k], u) =>
             prio'[u] <= prio[u] /\ (u \notin nested' => prio'[u] = prio[u])
      BY <1>1, <1>4, <1>5, <1>6, <1>7
    <2>. QED BY <1>4, <2>1, <2>2, <2>3, RaisedOrder
  <1>11. PriorityRestored'
    BY <1>0, <1>1, <1>4, <1>5 DEF PrioInv, PriorityRestored
  <1>12. Above'
    <2>1. Above BY NoInversionIn DEF PrioInv
    <2> SUFFICES ASSUME NEW k \in Mutexes, NEW u \in Threads \ nested', In(queue'[k], u),
                        owner[k] \notin nested'
                 PROVE  prio'[owner[k]] <= prio'[u]
      BY <1>1 DEF Above
    <2>0. u \notin nested /\ owner[k] \notin nested BY <1>4
    <2>2. CASE k = m
      <3>1. CASE u = t BY <1>0, <1>1, <1>5, <2>2, <3>1
      <3>2. CASE u # t
        <4>1. In(queue[m], u) /\ u # o BY <1>0, <1>6, <1>7, <2>0, <2>2, <3>2
        <4>2. prio[o] <= prio[u] /\ prio'[u] = prio[u]
          BY <1>0, <1>5, <2>0, <2>1, <2>2, <4>1 DEF Above
        <4>. QED BY <1>0, <1>2, <1>5, <2>2, <4>2
      <3>. QED BY <3>1, <3>2
    <2>3. CASE k # m
      <3>1. In(queue[k], u) /\ u # o /\ owner[k] # o BY <1>6, <1>7, <2>0, <2>3
      <3>2. owner[k] \in Threads BY <3>1 DEF Blocked, TypeOK
      <3>. QED BY <1>5, <2>0, <2>1, <3>1, <3>2 DEF Above
    <2>. QED BY <2>2, <2>3
  <1>13. NoInversion'
    <2>1. TypeOK' => (NoInversion' <=> Above') BY NoInversionIn, PTL
    <2>. QED BY <1>12, <2>1
  <1>. QED BY <1>8, <1>9, <1>10, <1>11, <1>13 DEF PrioInv

(* The thread that releases is in no queue, so the queues stay in order    *)
(* whatever its priority becomes.                                          *)
LEMMA ReleasedOrder ==
  ASSUME IInv, IInv', PrioInv, NEW t \in Threads, Running(t), NEW s \in Seq(Threads),
         InOrder(s, prio, nested), ~In(s, t), nested' = nested,
         \A u \in Threads \ {t} : prio'[u] = prio[u]
  PROVE  InOrder(s, prio', nested')
  <1>1. prio \in [Threads -> Nat] /\ prio' \in [Threads -> Nat] BY DEF IInv, Types, TypeOK
  <1>2. \A u \in Threads : In(s, u) => prio'[u] <= prio[u] /\ (u \notin nested => prio'[u] = prio[u])
    BY <1>1
  <1>. QED BY <1>1, <1>2, RaisedOrder

LEMMA ReleaseFreePrio ==
  ASSUME IInv, IInv', PrioInv, NEW t \in Threads, NEW m \in Mutexes, Running(t),
         release_free(t, m), nested' = nested
  PROVE  PrioInv'
  <1> USE DEF IInv, Types
  <1>1. /\ owner[m] = t /\ queue[m] = <<>> /\ t # None
        /\ prio' = [prio EXCEPT ![t] = orig[m]]
        /\ owner' = [owner EXCEPT ![m] = None] /\ orig' = [orig EXCEPT ![m] = UNSET]
        /\ UNCHANGED queue
    BY MutexConstants DEF release_free, restore
  <1>2. /\ t \notin nested => prio'[t] = Base[t]
        /\ \A u \in Threads \ {t} : prio'[u] = prio[u]
        /\ owner'[m] = None
        /\ \A k \in Mutexes \ {m} : owner'[k] = owner[k] /\ orig'[k] = orig[k]
    BY <1>1 DEF TypeOK, PrioInv, OrigIsBase
  <1>3. t \notin nested => \A k \in Mutexes \ {m} : owner[k] # t BY <1>1 DEF PrioInv, OneOwned
  <1>4. \A k \in Mutexes : ~In(queue[k], t) BY RunningFacts
  <1>5. OneOwned' /\ OrigIsBase' BY <1>2, MutexConstants DEF PrioInv, OneOwned, OrigIsBase
  <1>6. WaitersOwnNone' BY <1>1, <1>2, MutexConstants DEF PrioInv, WaitersOwnNone
  <1>7. QueuesOrdered'
    <2>1. \A k \in Mutexes : queue[k] \in Seq(Threads) /\ InOrder(queue[k], prio, nested)
      BY DEF TypeOK, PrioInv, QueuesOrdered
    <2>2. \A k \in Mutexes : InOrder(queue[k], prio', nested') BY <1>2, <1>4, <2>1, ReleasedOrder
    <2>. QED BY <1>1, <2>2 DEF QueuesOrdered
  <1>8. PriorityRestored' BY <1>1, <1>2 DEF PrioInv, PriorityRestored
  <1>9. Above'
    <2>1. Above BY NoInversionIn DEF PrioInv
    <2> SUFFICES ASSUME NEW k \in Mutexes, NEW u \in Threads \ nested, In(queue[k], u),
                        owner'[k] \notin nested
                 PROVE  prio'[owner'[k]] <= prio'[u]
      BY <1>1 DEF Above
    <2>2. k # m BY <1>1 DEF In
    <2>3. owner'[k] = owner[k] BY <1>2, <2>2
    <2>4. owner[k] # t BY <1>3, <2>2, <2>3
    <2>5. owner[k] \in Threads BY DEF Blocked, TypeOK
    <2>6. u # t BY <1>4
    <2>. QED BY <1>2, <2>1, <2>3, <2>4, <2>5, <2>6 DEF Above
  <1>10. NoInversion'
    <2>1. TypeOK' => (NoInversion' <=> Above') BY NoInversionIn, PTL
    <2>. QED BY <1>9, <2>1
  <1>. QED BY <1>5, <1>6, <1>7, <1>8, <1>10 DEF PrioInv

(* The mutex goes to the first of the queue, which none of the others      *)
(* outranks.                                                               *)
LEMMA HandsOverPrio ==
  ASSUME IInv, IInv', PrioInv, NEW t \in Threads, NEW m \in Mutexes, Running(t),
         release_hands_over(t, m), nested' = nested
  PROVE  PrioInv'
  <1> USE DEF IInv, Types
  <1>0. PICK next : next = Head(queue[m]) OBVIOUS
  <1>1. /\ owner[m] = t /\ queue[m] # <<>> /\ t # None
        /\ prio' = [prio EXCEPT ![t] = orig[m]]
        /\ owner' = [owner EXCEPT ![m] = next]
        /\ orig' = [orig EXCEPT ![m] = prio[next]]
        /\ queue' = [queue EXCEPT ![m] = Tail(queue[m])]
    BY <1>0, MutexConstants DEF release_hands_over, restore
  <1>2. /\ next \in Threads /\ In(queue[m], next)
        /\ Tail(queue[m]) \in Seq(Threads)
        /\ \A u : In(Tail(queue[m]), u) <=> In(queue[m], u) /\ u # next
        /\ InOrder(Tail(queue[m]), prio, nested)
        /\ \A u : In(Tail(queue[m]), u) /\ u \notin nested => prio[next] <= prio[u]
    <2>1. queue[m] \in Seq(Threads) /\ Distinct(queue[m]) /\ InOrder(queue[m], prio, nested)
      BY DEF TypeOK, Blocked, PrioInv, QueuesOrdered
    <2>2. /\ InOrder(Tail(queue[m]), prio, nested)
          /\ \A u : In(Tail(queue[m]), u) /\ u \notin nested => prio[next] <= prio[u]
      BY <1>0, <1>1, <2>1, TailOrder
    <2>. QED BY <1>0, <1>1, <2>1, <2>2, TailFacts
  <1>3. next \notin nested => /\ \A k \in Mutexes : owner[k] # next
                              /\ prio[next] = Base[next]
    BY <1>2, WaiterPrio DEF PrioInv, WaitersOwnNone
  <1>4. /\ next # t /\ next # None
        /\ t \notin nested => \A k \in Mutexes \ {m} : owner[k] # t
        /\ \A k \in Mutexes : ~In(queue[k], t)
    BY <1>1, <1>2, RunningFacts, MutexConstants DEF PrioInv, OneOwned
  <1>5. /\ t \notin nested => prio'[t] = Base[t]
        /\ \A u \in Threads \ {t} : prio'[u] = prio[u]
        /\ owner'[m] = next /\ orig'[m] = prio[next] /\ queue'[m] = Tail(queue[m])
        /\ \A k \in Mutexes \ {m} : /\ owner'[k] = owner[k] /\ orig'[k] = orig[k]
                                    /\ queue'[k] = queue[k]
    BY <1>1 DEF TypeOK, PrioInv, OrigIsBase
  <1>6. \A k \in Mutexes, u \in Threads : In(queue'[k], u) => In(queue[k], u) /\ u # next /\ u # t
    <2>1. \A k \in Mutexes \ {m} : ~In(queue[k], next)
      BY <1>2 DEF Blocked
    <2>. QED BY <1>2, <1>4, <1>5, <2>1
  <1>7. OneOwned' BY <1>3, <1>5 DEF PrioInv, OneOwned
  <1>8. OrigIsBase' BY <1>3, <1>5 DEF PrioInv, OrigIsBase
  <1>9. WaitersOwnNone' BY <1>5, <1>6 DEF PrioInv, WaitersOwnNone
  <1>10. QueuesOrdered'
    <2>1. \A k \in Mutexes : /\ queue'[k] \in Seq(Threads)
                             /\ InOrder(queue'[k], prio, nested) /\ ~In(queue'[k], t)
      BY <1>2, <1>5, <1>6 DEF TypeOK, PrioInv, QueuesOrdered
    <2>2. \A k \in Mutexes : InOrder(queue'[k], prio', nested') BY <1>5, <2>1, ReleasedOrder
    <2>. QED BY <2>2 DEF QueuesOrdered
  <1>11. PriorityRestored'
    <2> SUFFICES ASSUME NEW u \in Threads \ nested, \A k \in Mutexes : owner'[k] # u
                 PROVE  prio'[u] = Base[u]
      BY DEF PriorityRestored
    <2>1. CASE u = t BY <1>5, <2>1
    <2>2. CASE u # t
      <3>1. \A k \in Mutexes : owner[k] # u BY <1>1, <1>5, <2>2
      <3>. QED BY <1>5, <2>2, <3>1 DEF PrioInv, PriorityRestored
    <2>. QED BY <2>1, <2>2
  <1>12. Above'
    <2>1. Above BY NoInversionIn DEF PrioInv
    <2> SUFFICES ASSUME NEW k \in Mutexes, NEW u \in Threads \ nested, In(queue'[k], u),
                        owner'[k] \notin nested
                 PROVE  prio'[owner'[k]] <= prio'[u]
      BY DEF Above
    <2>2. In(queue[k], u) /\ u # next /\ u # t /\ prio'[u] = prio[u]
      BY <1>5, <1>6
    <2>3. CASE k = m
      <3>1. prio[next] <= prio[u] BY <1>2, <1>5, <2>3
      <3>. QED BY <1>2, <1>4, <1>5, <2>2, <2>3, <3>1
    <2>4. CASE k # m
      <3>1. owner[k] # t /\ owner'[k] = owner[k] /\ owner[k] \in Threads
        BY <1>4, <1>5, <2>2, <2>4 DEF Blocked, TypeOK
      <3>. QED BY <1>5, <2>1, <2>2, <3>1 DEF Above
    <2>. QED BY <2>3, <2>4
  <1>13. NoInversion'
    <2>1. TypeOK' => (NoInversion' <=> Above') BY NoInversionIn, PTL
    <2>. QED BY <1>12, <2>1
  <1>. QED BY <1>7, <1>8, <1>9, <1>10, <1>11, <1>13 DEF PrioInv

LEMMA PrioStep ==
  ASSUME IInv, PrioInv, [Next]_vars
  PROVE  PrioInv'
  <1> USE DEF schedVars, threadVars, mutexVars
  <1>0. IInv' BY NextIInv
  <1>n. nested \subseteq nested' BY NestedGrows
  <1>1. CASE UNCHANGED vars BY <1>1, <1>n, PrioFrame DEF vars
  <1>2. CASE Tick BY <1>2, <1>n, PrioFrame DEF Tick, slice_ends
  <1>3. CASE \E t \in Threads : Returns(t)
    BY <1>3, <1>n, PrioFrame DEF Returns, SchedulerStep, calls_schedule, sleep_returns, take_returns
  <1>4. CASE \E t \in Threads : rt_thread_sleep(t) /\ UNCHANGED <<mutexVars, ghosts>>
    BY <1>4, <1>n, PrioFrame DEF rt_thread_sleep
  <1>5. CASE \E t \in Threads, m \in Mutexes : rt_mutex_take(t, m)
    <2> PICK t \in Threads, m \in Mutexes : rt_mutex_take(t, m) BY <1>5
    <2>1. CASE take_again(t, m) BY <1>n, <2>1, PrioFrame DEF take_again
    <2>2. CASE take_free(t, m) BY <1>0, <2>2, TakeFreePrio
    <2>3. ASSUME NEW timed \in BOOLEAN, take_blocks(t, m, timed) PROVE PrioInv'
      BY <1>0, <2>3, TakeBlocksPrio
    <2>. QED BY <2>1, <2>2, <2>3 DEF rt_mutex_take
  <1>6. CASE \E t \in Threads, m \in Mutexes : rt_mutex_release(t, m)
    <2> PICK t \in Threads, m \in Mutexes : rt_mutex_release(t, m) BY <1>6
    <2>0. Running(t) /\ nested' = nested BY DEF rt_mutex_release
    <2>1. CASE release_one(t, m) BY <1>n, <2>1, PrioFrame DEF release_one
    <2>2. CASE release_free(t, m) BY <1>0, <2>0, <2>2, ReleaseFreePrio
    <2>3. CASE release_hands_over(t, m) BY <1>0, <2>0, <2>3, HandsOverPrio
    <2>. QED BY <2>1, <2>2, <2>3 DEF rt_mutex_release
  <1>7. CASE \E t \in Threads : _thread_timeout(t) BY <1>0, <1>7, TimeoutPrio
  <1>. QED BY <1>1, <1>2, <1>3, <1>4, <1>5, <1>6, <1>7 DEF Next

LEMMA InitPrio == Init => PrioInv
  <1> SUFFICES ASSUME Init PROVE PrioInv OBVIOUS
  <1> USE DEF Init, SchedInit
  <1>1. OneOwned /\ OrigIsBase BY MutexConstants DEF OneOwned, OrigIsBase
  <1>2. WaitersOwnNone BY DEF WaitersOwnNone, In
  <1>3. QueuesOrdered /\ NoInversion BY DEF QueuesOrdered, InOrder, NoInversion
  <1>4. PriorityRestored BY DEF PriorityRestored
  <1>. QED BY <1>1, <1>2, <1>3, <1>4 DEF PrioInv

(* Of the threads that never asked for a mutex while they owned another,   *)
(* beside any number of threads that did, rt_mutex_take's inheritance and  *)
(* rt_mutex_release's restoration are right: the owner never runs below a  *)
(* thread it keeps waiting, also after hand-overs and timeouts, and a      *)
(* thread that owns nothing has its own priority again.                    *)
THEOREM PrioritiesCorrect == Spec => [](NoInversion /\ PriorityRestored)
  <1>1. PrioInv => NoInversion /\ PriorityRestored BY DEF PrioInv
  <1>. QED BY InitIInv, NextIInv, InitPrio, PrioStep, <1>1, PTL DEF Spec
=============================================================================
