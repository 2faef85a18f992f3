---------------------------- MODULE VTimerProofs ----------------------------
(***************************************************************************)
(* Proofs about VTimer, for any number of timers and vCPUs and any width   *)
(* of rt_tick: the arithmetic of ticks that wrap, what insertions and      *)
(* removals do to the ordered list, then the inductive invariant, step by  *)
(* step.                                                                   *)
(***************************************************************************)
EXTENDS VTimer, WellFoundedInduction, TLAPS

(* What the times must leave room for. A timer may be 2 * LAG ticks late   *)
(* when another is inserted; if that one's time were within 2 * LAG of     *)
(* half the range, the unsigned difference would take the late one for the *)
(* later one.                                                              *)
Fits(n) == n \in Nat /\ n < HALF /\ n + 2 * LAG <= TICKS - HALF
Slack ==
  /\ HALF > 1 /\ 2 * LAG < HALF
  /\ \A n \in Times : Fits(n)
  /\ \A n \in TVals : (n % TICKS) < HALF => Fits(n % TICKS)

-----------------------------------------------------------------------------
(* Ticks.                                                                  *)

LEMMA Mods ==
  ASSUME NEW x \in Int
  PROVE  /\ (x % TICKS) \in Tick
         /\ 0 <= x /\ x < TICKS => (x % TICKS) = x
         /\ -TICKS <= x /\ x < 0 => (x % TICKS) = x + TICKS
         /\ TICKS <= x /\ x < 2 * TICKS => (x % TICKS) = x - TICKS
<1>1. TICKS \in Nat \ {0}
  BY TimerConstants
<1>2. (x % TICKS) \in Tick
  BY <1>1 DEF Tick
<1>3. 0 <= x /\ x < TICKS => (x % TICKS) = x
  BY <1>1
<1>4. -TICKS <= x /\ x < 0 => (x % TICKS) = x + TICKS
  BY <1>1
<1>5. TICKS <= x /\ x < 2 * TICKS => (x % TICKS) = x - TICKS
  BY <1>1
<1> QED BY <1>2, <1>3, <1>4, <1>5

LEMMA HalfFacts ==
  /\ TICKS \in Nat \ {0} /\ LAG \in Nat \ {0}
  /\ HALF \in Int /\ 2 * HALF <= TICKS - 1 /\ TICKS <= 2 * HALF + 2
BY TimerConstants DEF HALF

(* Tick a is d ticks after tick b.                                         *)
After(a, b, d) == a = b + d \/ a = b + d + TICKS \/ a = b + d - TICKS

LEMMA AfterMod ==
  ASSUME NEW a \in Tick, NEW b \in Tick, NEW d \in Int, -TICKS < d, d < TICKS, After(a, b, d)
  PROVE  ((a - b) % TICKS) = IF d >= 0 THEN d ELSE d + TICKS
<1>1. a \in Int /\ b \in Int /\ a - b \in Int /\ -TICKS < a - b /\ a - b < TICKS
  BY HalfFacts DEF Tick
<1>2. /\ (0 <= a - b /\ a - b < TICKS => ((a - b) % TICKS) = a - b)
      /\ (-TICKS <= a - b /\ a - b < 0 => ((a - b) % TICKS) = a - b + TICKS)
  BY <1>1, Mods
<1>3. a - b = d \/ a - b = d + TICKS \/ a - b = d - TICKS
  BY <1>1, HalfFacts DEF After
<1>4. ((a - b) % TICKS) = IF a - b >= 0 THEN a - b ELSE a - b + TICKS
  BY <1>1, <1>2, HalfFacts
<1> QED BY <1>1, <1>3, <1>4, HalfFacts

LEMMA AfterSwap ==
  ASSUME NEW a \in Tick, NEW b \in Tick, NEW d \in Int, After(a, b, d)
  PROVE  After(b, a, -d)
BY HalfFacts DEF After, Tick

(* Passed tells, of two ticks less than half the range apart, whether the  *)
(* first is not the earlier.                                               *)
LEMMA PassedWhen ==
  ASSUME NEW a \in Tick, NEW b \in Tick, NEW d \in Int, After(a, b, d),
         HALF - TICKS <= d, d < HALF
  PROVE  /\ Passed(a, b) <=> d >= 0
         /\ Passed(a, b) => ((a - b) % TICKS) = d
<1>1. ((a - b) % TICKS) = IF d >= 0 THEN d ELSE d + TICKS
  <2>1. -TICKS < d \/ d = -TICKS
    BY HalfFacts
  <2>2. CASE -TICKS < d
    <3>1. d < TICKS
      BY HalfFacts
    <3> QED BY <2>2, <3>1, AfterMod
  <2>3. CASE d = -TICKS
    <3>1. FALSE \/ HALF = 0
      BY <2>3, HalfFacts
    <3>2. a = b /\ d < 0 /\ d + TICKS = 0
      BY <2>3, HalfFacts DEF After, Tick
    <3>3. a - b = 0
      BY <3>2 DEF Tick
    <3> QED BY <3>2, <3>3, Mods, HalfFacts
  <2> QED BY <2>1, <2>2, <2>3
<1> HIDE DEF HALF
<1> QED BY <1>1, HalfFacts DEF Passed

LEMMA AfterDiff ==
  ASSUME NEW a \in Tick, NEW b \in Tick, NEW c \in Tick, NEW d \in Int, NEW e \in Int,
         After(a, c, d), After(b, c, e), -TICKS < d - e, d - e < TICKS
  PROVE  After(a, b, d - e)
BY HalfFacts DEF After, Tick

LEMMA AfterAdd ==
  ASSUME NEW b \in Tick, NEW n \in Nat, n < TICKS
  PROVE  ((b + n) % TICKS) \in Tick /\ After((b + n) % TICKS, b, n)
<1> DEFINE x == b + n
<1>1. x \in Int /\ 0 <= x /\ x < 2 * TICKS /\ b \in Int /\ TICKS \in Nat \ {0}
  BY HalfFacts DEF Tick
<1> HIDE DEF x
<1>2. (x % TICKS) \in Tick /\ (x < TICKS => (x % TICKS) = x)
  BY <1>1, Mods
<1>3. TICKS <= x => (x % TICKS) = x - TICKS
  BY <1>1, Mods
<1>4. (x % TICKS) = x \/ (x % TICKS) = x - TICKS
  BY <1>1, <1>2, <1>3
<1>5. After(x % TICKS, b, n)
  BY <1>1, <1>4 DEF After, x
<1> QED BY <1>2, <1>5 DEF x

(* One tick later everything is one tick nearer.                           *)
LEMMA AfterTick ==
  ASSUME NEW a \in Tick, NEW b \in Tick, NEW d \in Int, After(a, b, d), -TICKS < d - 1, d < TICKS
  PROVE  ((b + 1) % TICKS) \in Tick /\ After(a, (b + 1) % TICKS, d - 1)
<1>1. b + 1 \in Int /\ 0 <= b + 1 /\ b + 1 <= TICKS /\ TICKS \in Int /\ TICKS > 0 /\ a \in Int
      /\ a >= 0 /\ a < TICKS /\ b >= 0 /\ b < TICKS /\ b \in Int
  BY HalfFacts DEF Tick
<1>2. /\ ((b + 1) % TICKS) \in Tick
      /\ (b + 1 < TICKS => ((b + 1) % TICKS) = b + 1)
      /\ (b + 1 = TICKS => ((b + 1) % TICKS) = 0)
  BY <1>1, Mods
<1>3. CASE b + 1 < TICKS
  BY <1>1, <1>2, <1>3 DEF After
<1>4. CASE b + 1 = TICKS
  BY <1>1, <1>2, <1>4 DEF After
<1> QED BY <1>1, <1>2, <1>3, <1>4

-----------------------------------------------------------------------------
(* The list of timers, ordered by a key.                                   *)

In(s, u) == \E i \in 1 .. Len(s) : s[i] = u
Sorted(s, k) == \A i, j \in 1 .. Len(s) : i < j => s[i] # s[j] /\ k[s[i]] <= k[s[j]]

LEMMA LeastExists ==
  ASSUME NEW T, T \subseteq Nat, T # {}
  PROVE  \E x \in T : \A y \in T : x <= y
<1>1. \E x \in T : \A y \in T : ~ (<<y, x>> \in OpToRel(<, Nat))
  BY WFMin, NatLessThanWellFounded
<1>2. \A x, y \in Nat : <<y, x>> \in OpToRel(<, Nat) <=> y < x
  BY DEF OpToRel
<1>3. PICK x \in T : \A y \in T : ~ (<<y, x>> \in OpToRel(<, Nat))
  BY <1>1
<1>4. \A y \in T : x \in Nat /\ y \in Nat /\ ~ (y < x)
  BY <1>2, <1>3
<1> QED BY <1>4

(* The keys change, and keep the order of the members.                     *)
LEMMA SortedAgain ==
  ASSUME NEW s \in Seq(Timers), NEW k, NEW m, Sorted(s, k),
         \A u, w \in Timers : In(s, u) /\ In(s, w) /\ k[u] <= k[w] => m[u] <= m[w]
  PROVE  Sorted(s, m)
<1>1. \A i \in 1 .. Len(s) : s[i] \in Timers /\ In(s, s[i])
  BY DEF In
<1> QED BY <1>1 DEF Sorted

LEMMA WithoutFacts ==
  ASSUME NEW s \in Seq(Timers), NEW t \in Timers, NEW k, Sorted(s, k)
  PROVE  /\ Without(s, t) \in Seq(Timers) /\ Sorted(Without(s, t), k)
         /\ \A u : In(Without(s, t), u) <=> In(s, u) /\ u # t
<1>1. CASE ~ In(s, t)
  BY <1>1 DEF Without, In
<1>2. CASE In(s, t)
  <2> DEFINE i == CHOOSE i \in 1 .. Len(s) : s[i] = t
             q == [j \in 1 .. Len(s) - 1 |-> IF j < i THEN s[j] ELSE s[j + 1]]
  <2>1. i \in 1 .. Len(s) /\ s[i] = t
    BY <1>2 DEF In
  <2>2. Without(s, t) = q
    BY <1>2 DEF Without, In
  <2>3. Len(s) \in Nat /\ \A j \in 1 .. Len(s) : s[j] \in Timers
    OBVIOUS
  <2> HIDE DEF i
  <2>4. \A j \in 1 .. Len(s) - 1 : q[j] \in Timers
    BY <2>1, <2>3
  <2>5. q \in Seq(Timers) /\ Len(q) = Len(s) - 1
    <3>1. Len(s) - 1 \in Nat
      BY <2>1, <2>3
    <3> QED BY <2>4, <3>1
  <2>6. \A j \in 1 .. Len(s) - 1 : \/ j < i /\ j \in 1 .. Len(s) /\ q[j] = s[j]
                                   \/ j >= i /\ j + 1 \in 1 .. Len(s) /\ q[j] = s[j + 1]
    BY <2>1, <2>3
  <2>7. \A j \in 1 .. Len(s) : (j < i => j \in 1 .. Len(s) - 1 /\ q[j] = s[j])
                          /\ (j > i => j - 1 \in 1 .. Len(s) - 1 /\ q[j - 1] = s[j])
    BY <2>1, <2>3
  <2>8. \A j \in 1 .. Len(s) : j # i => s[j] # t
    BY <2>1, <2>3 DEF Sorted
  <2> HIDE DEF q
  <2>9. Sorted(q, k)
    <3> SUFFICES ASSUME NEW a \in 1 .. Len(s) - 1, NEW b \in 1 .. Len(s) - 1, a < b
                 PROVE  q[a] # q[b] /\ k[q[a]] <= k[q[b]]
      BY <2>5 DEF Sorted
    <3>1. \E c, d \in 1 .. Len(s) : c < d /\ q[a] = s[c] /\ q[b] = s[d]
      <4>1. CASE b < i
        BY <2>1, <2>3, <2>6, <4>1
      <4>2. CASE a < i /\ b >= i
        <5>1. a < b + 1
          BY <2>3
        <5> QED BY <2>1, <2>3, <2>6, <4>2, <5>1
      <4>3. CASE a >= i
        <5>1. a + 1 < b + 1 /\ b >= i
          BY <2>1, <2>3, <4>3
        <5> QED BY <2>1, <2>3, <2>6, <4>3, <5>1
      <4> QED BY <2>1, <4>1, <4>2, <4>3
    <3> QED BY <3>1 DEF Sorted
  <2>10. \A u : In(q, u) => In(s, u) /\ u # t
    <3> SUFFICES ASSUME NEW j \in 1 .. Len(s) - 1 PROVE In(s, q[j]) /\ q[j] # t
      BY <2>5 DEF In
    <3>1. CASE j < i
      BY <2>1, <2>3, <2>6, <2>8, <3>1 DEF In
    <3>2. CASE j >= i
      <4>1. j + 1 \in 1 .. Len(s) /\ q[j] = s[j + 1] /\ j + 1 # i
        BY <2>1, <2>3, <2>6, <3>2
      <4> QED BY <2>8, <4>1 DEF In
    <3> QED BY <2>1, <3>1, <3>2
  <2>11. \A u : In(s, u) /\ u # t => In(q, u)
    <3> SUFFICES ASSUME NEW j \in 1 .. Len(s), s[j] # t PROVE In(q, s[j])
      BY DEF In
    <3>1. j # i
      BY <2>1
    <3>2. CASE j < i
      BY <2>5, <2>7, <3>2 DEF In
    <3>3. CASE j > i
      BY <2>5, <2>7, <3>3 DEF In
    <3> QED BY <2>1, <3>1, <3>2, <3>3
  <2> QED BY <2>2, <2>5, <2>9, <2>10, <2>11
<1> QED BY <1>1, <1>2

(* The comparison of ticks with due decides as the keys do with n.         *)
Agrees(s, due, k, n) ==
  \A i \in 1 .. Len(s) : (timeout[s[i]] # due /\ Passed(timeout[s[i]], due)) <=> k[s[i]] > n

(* Where a timer due at due goes.                                          *)
LEMMA InsertPlace ==
  ASSUME NEW s \in Seq(Timers), NEW t \in Timers, NEW due, NEW k \in [Timers -> Int], NEW n \in Int,
         Agrees(s, due, k, n)
  PROVE  \E i \in 1 .. Len(s) + 1 :
           /\ Inserted(s, t, due) = [j \in 1 .. Len(s) + 1 |->
                IF j < i THEN s[j] ELSE IF j = i THEN t ELSE s[j - 1]]
           /\ \A j \in 1 .. Len(s) : j < i => k[s[j]] <= n
           /\ i <= Len(s) => n < k[s[i]]
<1>0. Len(s) \in Nat /\ \A j \in 1 .. Len(s) : s[j] \in Timers /\ k[s[j]] \in Int
  OBVIOUS
<1>1. Before(s, due) = {i \in 1 .. Len(s) : k[s[i]] > n /\ \A j \in 1 .. i - 1 : k[s[j]] <= n}
  <2>1. ASSUME NEW i \in 1 .. Len(s)
        PROVE  \A j \in 1 .. i - 1 : j \in 1 .. Len(s)
    BY <1>0
  <2>2. ASSUME NEW i \in 1 .. Len(s)
        PROVE  i \in Before(s, due) <=> (k[s[i]] > n /\ \A j \in 1 .. i - 1 : k[s[j]] <= n)
    <3>1. \A j \in 1 .. i - 1 :
            ~ (timeout[s[j]] # due /\ Passed(timeout[s[j]], due)) <=> k[s[j]] <= n
      BY <1>0, <2>1 DEF Agrees
    <3> QED BY <3>1 DEF Before, Agrees
  <2>3. Before(s, due) \subseteq 1 .. Len(s)
    BY DEF Before
  <2> QED BY <2>2, <2>3
<1>2. CASE Before(s, due) = {}
  <2>1. \A j \in 1 .. Len(s) : k[s[j]] <= n
    <3> SUFFICES ASSUME NEW m \in 1 .. Len(s), k[s[m]] > n PROVE FALSE
      BY <1>0
    <3> DEFINE Later == {j \in 1 .. Len(s) : k[s[j]] > n}
    <3>1. Later # {} /\ Later \subseteq Nat
      OBVIOUS
    <3>2. PICK l \in Later : \A j \in Later : l <= j
      BY <3>1, LeastExists
    <3>3. l \in Before(s, due)
      BY <1>0, <1>1, <3>2
    <3> QED BY <1>2, <3>3
  <2>2. Inserted(s, t, due) = Append(s, t)
    BY <1>2 DEF Inserted
  <2> DEFINE a == Append(s, t)
             b == [j \in 1 .. Len(s) + 1 |->
                     IF j < Len(s) + 1 THEN s[j] ELSE IF j = Len(s) + 1 THEN t ELSE s[j - 1]]
  <2>3. a \in Seq(Timers) /\ Len(a) = Len(s) + 1 /\ DOMAIN a = 1 .. Len(s) + 1
    OBVIOUS
  <2>4. \A j \in 1 .. Len(s) + 1 : a[j] = b[j]
    BY <1>0
  <2>5. a = b
    <3> HIDE DEF a
    <3>1. a = [j \in 1 .. Len(a) |-> a[j]]
      BY <2>3
    <3> QED BY <2>3, <2>4, <3>1
  <2>6. Len(s) + 1 \in 1 .. Len(s) + 1 /\ ~ (Len(s) + 1 <= Len(s))
    BY <1>0
  <2> QED BY <2>1, <2>2, <2>5, <2>6
<1>3. CASE Before(s, due) # {}
  <2> DEFINE i == CHOOSE i \in Before(s, due) : TRUE
  <2>1. i \in Before(s, due)
    BY <1>3
  <2>2. Inserted(s, t, due) = [j \in 1 .. Len(s) + 1 |->
          IF j < i THEN s[j] ELSE IF j = i THEN t ELSE s[j - 1]]
    BY <1>3 DEF Inserted
  <2> HIDE DEF i
  <2>3. i \in 1 .. Len(s) /\ k[s[i]] > n /\ \A j \in 1 .. i - 1 : k[s[j]] <= n
    BY <1>1, <2>1
  <2>4. i \in 1 .. Len(s) + 1 /\ \A j \in 1 .. Len(s) : j < i => j \in 1 .. i - 1
    BY <1>0, <2>3
  <2>5. n < k[s[i]]
    BY <1>0, <2>3
  <2> QED BY <2>2, <2>3, <2>4, <2>5
<1> QED BY <1>2, <1>3

LEMMA InsertFacts ==
  ASSUME NEW s \in Seq(Timers), NEW t \in Timers, NEW due, NEW k \in [Timers -> Int], NEW n \in Int,
         ~ In(s, t), Sorted(s, k),
         Agrees(s, due, k, n)
  PROVE  /\ Inserted(s, t, due) \in Seq(Timers)
         /\ Sorted(Inserted(s, t, due), [k EXCEPT ![t] = n])
         /\ \A u : In(Inserted(s, t, due), u) <=> In(s, u) \/ u = t
<1> PICK i \in 1 .. Len(s) + 1 :
      /\ Inserted(s, t, due) = [j \in 1 .. Len(s) + 1 |->
           IF j < i THEN s[j] ELSE IF j = i THEN t ELSE s[j - 1]]
      /\ \A j \in 1 .. Len(s) : j < i => k[s[j]] <= n
      /\ i <= Len(s) => n < k[s[i]]
  BY InsertPlace
<1> DEFINE q == Inserted(s, t, due)
           m == [k EXCEPT ![t] = n]
<1>0. /\ Len(s) \in Nat /\ m[t] = n
      /\ \A j \in 1 .. Len(s) : s[j] \in Timers /\ s[j] # t /\ m[s[j]] = k[s[j]] /\ k[s[j]] \in Int
  BY DEF In
<1>1. \A j \in 1 .. Len(s) + 1 : q[j] \in Timers
  BY <1>0
<1>2. q \in Seq(Timers) /\ Len(q) = Len(s) + 1
  BY <1>0, <1>1
<1>3. \A j \in 1 .. Len(s) + 1 : /\ j = i => q[j] = t
                                 /\ j < i => j \in 1 .. Len(s) /\ q[j] = s[j]
                                 /\ j > i => j - 1 \in 1 .. Len(s) /\ q[j] = s[j - 1]
  BY <1>0
<1>4. \A j \in 1 .. Len(s) : (j < i => k[s[j]] <= n) /\ (j >= i => n <= k[s[j]])
  <2>1. ASSUME NEW j \in 1 .. Len(s), j >= i PROVE n <= k[s[j]]
    <3>1. i \in 1 .. Len(s) /\ n < k[s[i]]
      BY <1>0, <2>1
    <3>2. k[s[i]] <= k[s[j]]
      BY <1>0, <2>1, <3>1 DEF Sorted
    <3> QED BY <1>0, <3>1, <3>2
  <2> QED BY <2>1
<1> HIDE DEF q, m
<1>5. ASSUME NEW a \in 1 .. Len(s) + 1, NEW b \in 1 .. Len(s) + 1, a < b
      PROVE  q[a] # q[b] /\ m[q[a]] <= m[q[b]]
  <2>1. CASE a = i
    <3>1. b - 1 \in 1 .. Len(s) /\ b - 1 >= i /\ q[b] = s[b - 1] /\ q[a] = t
      BY <1>0, <1>3, <1>5, <2>1
    <3> QED BY <1>0, <1>4, <3>1
  <2>2. CASE a < i
    <3>1. a \in 1 .. Len(s) /\ q[a] = s[a]
      BY <1>0, <1>3, <2>2
    <3>2. CASE b < i
      <4>1. b \in 1 .. Len(s) /\ q[b] = s[b]
        BY <1>0, <1>3, <3>2
      <4> QED BY <1>0, <1>5, <3>1, <4>1 DEF Sorted
    <3>3. CASE b = i
      BY <1>0, <1>3, <1>4, <2>2, <3>1, <3>3
    <3>4. CASE b > i
      <4>1. b - 1 \in 1 .. Len(s) /\ q[b] = s[b - 1] /\ a < b - 1
        BY <1>0, <1>3, <2>2, <3>4
      <4> QED BY <1>0, <3>1, <4>1 DEF Sorted
    <3> QED BY <1>0, <3>2, <3>3, <3>4
  <2>3. CASE a > i
    <3>1. b > i /\ a - 1 < b - 1
      BY <1>0, <1>5, <2>3
    <3>2. a - 1 \in 1 .. Len(s) /\ q[a] = s[a - 1]
      BY <1>3, <2>3
    <3>3. b - 1 \in 1 .. Len(s) /\ q[b] = s[b - 1]
      BY <1>3, <3>1
    <3>4. s[a - 1] # s[b - 1] /\ k[s[a - 1]] <= k[s[b - 1]]
      BY <3>1, <3>2, <3>3 DEF Sorted
    <3> QED BY <1>0, <3>2, <3>3, <3>4
  <2> QED BY <1>0, <2>1, <2>2, <2>3
<1>6. Sorted(q, m)
  BY <1>2, <1>5 DEF Sorted
<1>7. \A u : In(q, u) => In(s, u) \/ u = t
  <2> SUFFICES ASSUME NEW j \in 1 .. Len(s) + 1 PROVE In(s, q[j]) \/ q[j] = t
    BY <1>2 DEF In
  <2> QED BY <1>0, <1>3 DEF In
<1>8. \A u : In(s, u) => In(q, u)
  <2> SUFFICES ASSUME NEW j \in 1 .. Len(s) PROVE In(q, s[j])
    BY DEF In
  <2>1. CASE j < i
    <3>1. j \in 1 .. Len(q) /\ q[j] = s[j]
      BY <1>0, <1>2, <1>3, <2>1
    <3> QED BY <3>1 DEF In
  <2>2. CASE j >= i
    <3>1. j + 1 \in 1 .. Len(s) + 1 /\ j + 1 > i /\ (j + 1) - 1 = j
      BY <1>0, <2>2
    <3>2. j + 1 \in 1 .. Len(q) /\ q[j + 1] = s[j]
      BY <1>2, <1>3, <3>1
    <3> QED BY <3>2 DEF In
  <2> QED BY <1>0, <2>1, <2>2
<1>9. In(q, t)
  BY <1>2, <1>3 DEF In
<1> QED BY <1>2, <1>6, <1>7, <1>8, <1>9 DEF q, m

LEMMA TailFacts ==
  ASSUME NEW s \in Seq(Timers), NEW k, Sorted(s, k), s # <<>>
  PROVE  /\ Tail(s) \in Seq(Timers) /\ Sorted(Tail(s), k)
         /\ Head(s) \in Timers /\ In(s, Head(s))
         /\ \A u : In(Tail(s), u) <=> In(s, u) /\ u # Head(s)
         /\ \A u : In(s, u) /\ u # Head(s) => k[Head(s)] <= k[u]
<1>1. Len(s) \in Nat \ {0} /\ Head(s) = s[1] /\ s[1] \in Timers
  OBVIOUS
<1>2. Tail(s) \in Seq(Timers) /\ Len(Tail(s)) = Len(s) - 1
  OBVIOUS
<1>3. \A j \in 1 .. Len(s) - 1 : Tail(s)[j] = s[j + 1] /\ j + 1 \in 1 .. Len(s)
  BY <1>1
<1>4. Sorted(Tail(s), k)
  <2> SUFFICES ASSUME NEW a \in 1 .. Len(s) - 1, NEW b \in 1 .. Len(s) - 1, a < b
               PROVE  s[a + 1] # s[b + 1] /\ k[s[a + 1]] <= k[s[b + 1]]
    BY <1>2, <1>3 DEF Sorted
  <2>1. a + 1 < b + 1
    BY <1>1
  <2> QED BY <1>3, <2>1 DEF Sorted
<1>5. In(s, Head(s))
  BY <1>1 DEF In
<1>6. \A j \in 1 .. Len(s) : j # 1 => s[j] # s[1] /\ k[s[1]] <= k[s[j]]
  BY <1>1 DEF Sorted
<1>7. \A u : In(Tail(s), u) => In(s, u) /\ u # Head(s)
  <2> SUFFICES ASSUME NEW j \in 1 .. Len(s) - 1
               PROVE  In(s, Tail(s)[j]) /\ Tail(s)[j] # Head(s)
    BY <1>2 DEF In
  <2>1. j + 1 # 1
    BY <1>1
  <2> QED BY <1>1, <1>3, <1>6, <2>1 DEF In
<1>8. \A u : In(s, u) /\ u # Head(s) => In(Tail(s), u) /\ k[Head(s)] <= k[u]
  <2> SUFFICES ASSUME NEW j \in 1 .. Len(s), s[j] # s[1]
               PROVE  In(Tail(s), s[j]) /\ k[s[1]] <= k[s[j]]
    BY <1>1 DEF In
  <2>1. j - 1 \in 1 .. Len(s) - 1 /\ Tail(s)[j - 1] = s[j]
    BY <1>1, <1>3
  <2> QED BY <1>2, <1>6, <2>1 DEF In
<1> QED BY <1>1, <1>2, <1>4, <1>5, <1>7, <1>8

-----------------------------------------------------------------------------
(* The inductive invariant. Every time fits. A listed timer is activated,  *)
(* and its timeout is its true time left after the tick. How late a listed *)
(* timer can be, by where the timer thread is: awake for lag ticks it has  *)
(* not yet served a timer that was LAG late when it woke; on its way to    *)
(* sleep the first timer is not due before its delay is over, but for the  *)
(* ticks since it was computed.                                            *)

InitsFit == \A t \in Timers : Fits(init[t])

Dues == \A t \in Timers : In(soft, t) =>
  t \in active /\ left[t] < HALF /\ After(timeout[t], tick, left[t])

Least(s, l, b) == \A t \in Timers : In(s, t) => l[t] >= b
AtLeastOne(d) == IF d = 0 THEN 1 ELSE d
Remains == (wake - tick) % TICKS

Waits ==
  /\ ~ Suspended => Least(soft, left, -LAG - lag)
  /\ pc \in {"empty", "suspended"} => soft = <<>>
  /\ pc \in {"look", "got"} => Least(soft, left, 1 - lag)
  /\ pc = "got" => soft # <<>> /\ next = timeout[Head(soft)]
  /\ pc = "delay" => next < HALF /\ Least(soft, left, AtLeastOne(next) - lag)
  /\ pc = "delayed" => Remains < HALF /\ Least(soft, left, AtLeastOne(Remains) - LAG)

(* Only during a timeout function is a timer on the temporary list, and    *)
(* then not on the other.                                                  *)
Serves ==
  /\ temp \subseteq {at} /\ (pc = "call" <=> at # None)
  /\ \A t \in temp : ~ In(soft, t)

Pcs == {"look", "empty", "got", "delay", "check", "call", "suspended", "delayed"}
TimerTypes ==
  /\ tick \in Tick /\ timeout \in [Timers -> Tick] /\ init \in [Timers -> Tick]
  /\ active \subseteq Timers /\ periodic \subseteq Timers /\ gone \subseteq Timers
  /\ soft \in Seq(Timers) /\ pc \in Pcs
  /\ at \in Timers \cup {None} /\ temp \subseteq Timers
  /\ next \in Tick /\ wake \in Tick /\ lag \in 0 .. LAG
  /\ left \in [Timers -> Int]

KernelInv == TimerTypes /\ Sorted(soft, left) /\ InitsFit /\ Dues /\ Waits /\ Serves

(* A guest's timer is activated, and armed, exactly when it is on one of   *)
(* the two lists; a detached timer is on neither.                          *)
Owners ==
  /\ \A v \in Vcpus : /\ v \notin gone /\ v \in periodic
                      /\ v \in active <=> In(soft, v) \/ v \in temp
                      /\ Armed(ctl[v]) <=> In(soft, v) \/ v \in temp
  /\ \A t \in gone : ~ In(soft, t) /\ t \notin temp /\ t \notin active

LEMMA EmptyIn == \A u : ~ In(<<>>, u)
BY DEF In

LEMMA NoneIn ==
  ASSUME NEW s \in Seq(Timers), \A u \in Timers : ~ In(s, u)
  PROVE  s = <<>>
<1>1. Len(s) \in Nat /\ \A i \in 1 .. Len(s) : s[i] \in Timers
  OBVIOUS
<1>2. \A i \in 1 .. Len(s) : FALSE
  BY <1>1 DEF In
<1>3. Len(s) = 0
  BY <1>1, <1>2
<1> QED BY <1>3

LEMMA LeastWeaker ==
  ASSUME NEW s, NEW l \in [Timers -> Int], NEW a \in Int, NEW b \in Int, b <= a, Least(s, l, a)
  PROVE  Least(s, l, b)
BY DEF Least

(* No listed timer is more than 2 * LAG late, or LAG while the thread      *)
(* waits.                                                                  *)
LEMMA LateBound ==
  ASSUME KernelInv
  PROVE  /\ Suspended => Least(soft, left, -LAG)
         /\ Least(soft, left, -2 * LAG)
<1>1. lag \in Int /\ lag >= 0 /\ lag <= LAG /\ LAG \in Nat /\ left \in [Timers -> Int]
  BY HalfFacts DEF KernelInv, TimerTypes
<1>2. ASSUME Suspended PROVE Least(soft, left, -LAG)
  <2>1. CASE pc = "suspended"
    BY <2>1, EmptyIn DEF KernelInv, Waits, Least
  <2>2. CASE pc = "delayed"
    <3>1. Remains \in Nat
      <4>1. wake - tick \in Int
        BY DEF KernelInv, TimerTypes, Tick
      <4> QED BY <4>1, Mods DEF Remains, Tick
    <3>2. AtLeastOne(Remains) - LAG \in Int /\ -LAG <= AtLeastOne(Remains) - LAG /\ -LAG \in Int
      BY <1>1, <3>1 DEF AtLeastOne
    <3>3. Least(soft, left, AtLeastOne(Remains) - LAG)
      BY <2>2 DEF KernelInv, Waits
    <3> QED BY <1>1, <3>2, <3>3, LeastWeaker
  <2> QED BY <1>2, <2>1, <2>2 DEF Suspended
<1>3. CASE Suspended
  <2>1. -LAG \in Int /\ -2 * LAG \in Int /\ -2 * LAG <= -LAG
    BY <1>1
  <2>2. Least(soft, left, -2 * LAG)
    BY <1>1, <1>2, <1>3, <2>1, LeastWeaker
  <2> QED BY <1>2, <2>2
<1>4. CASE ~ Suspended
  <2>1. -LAG - lag \in Int /\ -2 * LAG \in Int /\ -2 * LAG <= -LAG - lag
    BY <1>1
  <2>2. Least(soft, left, -LAG - lag)
    BY <1>4 DEF KernelInv, Waits
  <2>3. Least(soft, left, -2 * LAG)
    BY <1>1, <2>1, <2>2, LeastWeaker
  <2> QED BY <1>4, <2>3
<1> QED BY <1>3, <1>4

(* The range of a listed timer's time left.                                *)
LEMMA LeftRange ==
  ASSUME Slack, KernelInv, NEW u \in Timers, In(soft, u)
  PROVE  /\ timeout[u] \in Tick /\ left[u] \in Int /\ u \in active
         /\ left[u] >= -2 * LAG /\ left[u] < HALF /\ After(timeout[u], tick, left[u])
BY LateBound DEF KernelInv, TimerTypes, Dues, Least

(* A listed timer is due when its time left is not positive; until then    *)
(* the difference to its timeout is its time left.                         *)
LEMMA DueWhen ==
  ASSUME Slack, KernelInv, NEW u \in Timers, In(soft, u)
  PROVE  /\ Passed(tick, timeout[u]) <=> left[u] <= 0
         /\ Passed(timeout[u], tick) <=> left[u] >= 0
         /\ Passed(timeout[u], tick) => ((timeout[u] - tick) % TICKS) = left[u]
<1> DEFINE d == left[u]
           a == timeout[u]
<1>1. a \in Tick /\ tick \in Tick /\ d \in Int /\ d >= -2 * LAG /\ d < HALF /\ After(a, tick, d)
  BY LeftRange DEF KernelInv, TimerTypes
<1>2. 2 * LAG < HALF /\ HALF \in Int
  BY HalfFacts DEF Slack
<1> HIDE DEF d, a, HALF
<1>3. -d \in Int /\ HALF - TICKS <= d /\ HALF - TICKS <= -d /\ -d < HALF
  BY <1>1, <1>2, HalfFacts
<1>4. After(tick, a, -d)
  BY <1>1, AfterSwap
<1>5. (Passed(a, tick) <=> d >= 0) /\ (Passed(a, tick) => ((a - tick) % TICKS) = d)
  BY <1>1, <1>3, PassedWhen
<1>6. Passed(tick, a) <=> -d >= 0
  BY <1>1, <1>3, <1>4, PassedWhen
<1>7. Passed(tick, a) <=> d <= 0
  BY <1>1, <1>6
<1> QED BY <1>5, <1>7 DEF d, a

(* A timer is put into the list at its place.                              *)
LEMMA StartsFacts ==
  ASSUME Slack, KernelInv, NEW t \in Timers, Starts(t), tick' = tick
  PROVE  /\ soft' \in Seq(Timers) /\ Sorted(soft', left')
         /\ \A u : In(soft', u) <=> In(soft, u) \/ u = t
         /\ timeout' \in [Timers -> Tick] /\ left' \in [Timers -> Int]
         /\ active' = active \cup {t} /\ Dues'
         /\ \A b \in Int : b <= 0 /\ Least(soft, left, b) => Least(soft', left', b)
<1> DEFINE s == Without(soft, t)
           n == init[t]
           due == (tick + n) % TICKS
<1>1. /\ soft' = Inserted(s, t, due) /\ timeout' = [timeout EXCEPT ![t] = due]
      /\ left' = [left EXCEPT ![t] = n] /\ active' = active \cup {t}
  BY DEF Starts
<1>2. /\ soft \in Seq(Timers) /\ Sorted(soft, left) /\ tick \in Tick
      /\ timeout \in [Timers -> Tick] /\ left \in [Timers -> Int]
  BY DEF KernelInv, TimerTypes
<1>3. /\ s \in Seq(Timers) /\ Sorted(s, left)
      /\ \A u : In(s, u) <=> In(soft, u) /\ u # t
  BY <1>2, WithoutFacts
<1>4. n \in Nat /\ n < HALF /\ n + 2 * LAG <= TICKS - HALF /\ n < TICKS
  BY HalfFacts DEF KernelInv, InitsFit, Fits
<1> HIDE DEF n
<1>5. due \in Tick /\ After(due, tick, n)
  BY <1>2, <1>4, AfterAdd
<1> HIDE DEF s, due
<1>6. Agrees(s, due, left, n)
  <2> SUFFICES ASSUME NEW i \in 1 .. Len(s)
               PROVE  (timeout[s[i]] # due /\ Passed(timeout[s[i]], due)) <=> left[s[i]] > n
    BY DEF Agrees
  <2> DEFINE u == s[i]
             a == timeout[u]
             l == left[u]
  <2>1. u \in Timers /\ In(soft, u)
    BY <1>3 DEF In
  <2>2. a \in Tick /\ l \in Int /\ l >= -2 * LAG /\ l < HALF /\ After(a, tick, l)
    BY <2>1, LeftRange
  <2>3. 2 * LAG < HALF /\ HALF > 1 /\ HALF \in Int
    BY HalfFacts DEF Slack
  <2> HIDE DEF u, a, l, HALF
  <2>4. l - n \in Int /\ -TICKS < l - n /\ l - n < TICKS /\ HALF - TICKS <= l - n /\ l - n < HALF
    BY <1>4, <2>2, <2>3, HalfFacts
  <2>5. After(a, due, l - n)
    BY <1>2, <1>4, <1>5, <2>2, <2>4, AfterDiff
  <2>6. Passed(a, due) <=> l - n >= 0
    BY <1>5, <2>2, <2>4, <2>5, PassedWhen
  <2>7. a = due <=> l - n = 0
    BY <1>5, <2>2, <2>4, <2>5, HalfFacts DEF After, Tick
  <2>8. (a # due /\ Passed(a, due)) <=> l > n
    BY <1>4, <2>2, <2>6, <2>7
  <2> QED BY <2>8 DEF a, l, u
<1>7. ~ In(s, t) /\ n \in Int
  BY <1>3, <1>4
<1>8. /\ soft' \in Seq(Timers) /\ Sorted(soft', left')
      /\ \A u : In(soft', u) <=> In(soft, u) \/ u = t
  <2>1. /\ Inserted(s, t, due) \in Seq(Timers)
        /\ Sorted(Inserted(s, t, due), [left EXCEPT ![t] = n])
        /\ \A u : In(Inserted(s, t, due), u) <=> In(s, u) \/ u = t
    BY <1>2, <1>3, <1>6, <1>7, InsertFacts
  <2> QED BY <1>1, <1>3, <2>1
<1>9. /\ timeout' \in [Timers -> Tick] /\ left' \in [Timers -> Int]
      /\ timeout'[t] = due /\ left'[t] = n
      /\ \A u \in Timers : u # t => timeout'[u] = timeout[u] /\ left'[u] = left[u]
  BY <1>1, <1>2, <1>5, <1>7
<1>10. Dues'
  <2> SUFFICES ASSUME NEW u \in Timers, In(soft', u)
               PROVE  u \in active' /\ left'[u] < HALF /\ After(timeout'[u], tick, left'[u])
    BY DEF Dues
  <2>1. CASE u = t
    BY <1>1, <1>4, <1>5, <1>9, <2>1
  <2>2. CASE u # t
    <3>1. In(soft, u)
      BY <1>8, <2>2
    <3> QED BY <1>1, <1>9, <2>2, <3>1, LeftRange
  <2> QED BY <2>1, <2>2
<1>11. \A b \in Int : b <= 0 /\ Least(soft, left, b) => Least(soft', left', b)
  BY <1>4, <1>8, <1>9 DEF Least
<1> QED BY <1>1, <1>8, <1>9, <1>10, <1>11

(* A timer leaves the lists.                                               *)
LEMMA UnlistFacts ==
  ASSUME KernelInv, NEW t \in Timers, Unlists(t), tick' = tick, active' = active \ {t}
  PROVE  /\ soft' \in Seq(Timers) /\ Sorted(soft', left')
         /\ \A u : In(soft', u) <=> In(soft, u) /\ u # t
         /\ timeout' \in [Timers -> Tick] /\ left' \in [Timers -> Int] /\ Dues'
         /\ \A b : Least(soft, left, b) => Least(soft', left', b)
         /\ soft = <<>> => soft' = <<>>
<1>1. /\ soft' = Without(soft, t)
      /\ timeout' = [timeout EXCEPT ![t] = 0] /\ left' = [left EXCEPT ![t] = 0]
  BY DEF Unlists
<1>2. /\ soft \in Seq(Timers) /\ Sorted(soft, left) /\ 0 \in Tick
      /\ timeout \in [Timers -> Tick] /\ left \in [Timers -> Int]
  BY HalfFacts DEF KernelInv, TimerTypes, Tick
<1>3. /\ soft' \in Seq(Timers) /\ Sorted(soft', left)
      /\ \A u : In(soft', u) <=> In(soft, u) /\ u # t
  BY <1>1, <1>2, WithoutFacts
<1>4. /\ timeout' \in [Timers -> Tick] /\ left' \in [Timers -> Int]
      /\ \A u \in Timers : u # t => timeout'[u] = timeout[u] /\ left'[u] = left[u]
  BY <1>1, <1>2
<1>5. Sorted(soft', left')
  <2>1. \A u, w \in Timers : In(soft', u) /\ In(soft', w) /\ left[u] <= left[w] => left'[u] <= left'[w]
    BY <1>3, <1>4
  <2> QED BY <1>3, <2>1, SortedAgain
<1>6. Dues'
  BY <1>3, <1>4 DEF Dues, KernelInv
<1>7. \A b : Least(soft, left, b) => Least(soft', left', b)
  BY <1>3, <1>4 DEF Least
<1>8. soft = <<>> => soft' = <<>>
  BY <1>3, EmptyIn, NoneIn
<1> QED BY <1>3, <1>4, <1>5, <1>6, <1>7, <1>8

-----------------------------------------------------------------------------
(* The calls of other code and of guests.                                  *)

LEMMA StartStep ==
  ASSUME Slack, KernelInv, Callers, NEW t \in Timers, rt_timer_start(t)
  PROVE  /\ KernelInv' /\ \A u : In(soft', u) <=> In(soft, u) \/ u = t
         /\ active' = active \cup {t}
<1>1. /\ Starts(t) /\ temp' = temp \ {t} /\ resume_timer_thread
      /\ UNCHANGED <<tick, init, periodic, gone, at, next>>
  BY DEF rt_timer_start
<1>2. /\ soft' \in Seq(Timers) /\ Sorted(soft', left')
      /\ \A u : In(soft', u) <=> In(soft, u) \/ u = t
      /\ timeout' \in [Timers -> Tick] /\ left' \in [Timers -> Int]
      /\ active' = active \cup {t} /\ Dues'
      /\ \A b \in Int : b <= 0 /\ Least(soft, left, b) => Least(soft', left', b)
  BY <1>1, StartsFacts
<1>3. TimerTypes /\ Waits /\ Serves /\ LAG \in Nat /\ 0 \in Tick
  BY HalfFacts DEF KernelInv, Tick
<1>4. /\ pc' \in {"check", "call"} /\ (pc' = "call" <=> pc = "call")
      /\ lag' \in 0 .. LAG /\ wake' \in Tick /\ Least(soft', left', -LAG - lag')
  <2>1. CASE Suspended
    <3>1. pc' = "check" /\ lag' = 0 /\ wake' = 0
      BY <1>1, <2>1 DEF resume_timer_thread
    <3>2. -LAG \in Int /\ -LAG <= 0 /\ -LAG - 0 = -LAG /\ Least(soft, left, -LAG)
      BY <1>3, <2>1, LateBound
    <3> QED BY <1>2, <1>3, <2>1, <3>1, <3>2 DEF Suspended
  <2>2. CASE ~ Suspended
    <3>1. pc = "call" /\ pc' = pc /\ lag' = lag /\ wake' = wake
      BY <1>1, <2>2 DEF resume_timer_thread, Callers
    <3>2. Least(soft, left, -LAG - lag)
      BY <1>3, <2>2 DEF Waits
    <3>3. -LAG - lag \in Int /\ -LAG - lag <= 0
      BY <1>3 DEF TimerTypes
    <3> QED BY <1>2, <1>3, <3>1, <3>2, <3>3 DEF TimerTypes
  <2> QED BY <2>1, <2>2
<1>5. TimerTypes'
  BY <1>1, <1>2, <1>3, <1>4 DEF TimerTypes, Pcs
<1>6. Waits'
  BY <1>4 DEF Waits, Suspended
<1>7. Serves'
  BY <1>1, <1>2, <1>3, <1>4 DEF Serves
<1>8. InitsFit'
  BY <1>1 DEF KernelInv, InitsFit
<1> QED BY <1>2, <1>5, <1>6, <1>7, <1>8 DEF KernelInv

LEMMA UnlistStep ==
  ASSUME KernelInv, Callers, NEW t \in Timers, Unlists(t), active' = active \ {t},
         UNCHANGED <<tick, init, periodic, pc, locals>>, gone' \subseteq Timers
  PROVE  KernelInv' /\ \A u : In(soft', u) <=> In(soft, u) /\ u # t
<1>1. /\ soft' \in Seq(Timers) /\ Sorted(soft', left')
      /\ \A u : In(soft', u) <=> In(soft, u) /\ u # t
      /\ timeout' \in [Timers -> Tick] /\ left' \in [Timers -> Int] /\ Dues'
      /\ \A b : Least(soft, left, b) => Least(soft', left', b)
      /\ soft = <<>> => soft' = <<>>
  BY UnlistFacts
<1>2. TimerTypes /\ Waits /\ Serves /\ temp' = temp \ {t}
  BY DEF KernelInv, Unlists
<1>3. TimerTypes'
  BY <1>1, <1>2 DEF TimerTypes, locals
<1>4. Waits'
  BY <1>1, <1>2 DEF Waits, Suspended, Callers, locals, Remains
<1>5. Serves' /\ InitsFit'
  BY <1>1, <1>2 DEF Serves, locals, KernelInv, InitsFit
<1> QED BY <1>1, <1>3, <1>4, <1>5 DEF KernelInv

LEMMA StopStep ==
  ASSUME KernelInv, Callers, NEW t \in Timers, rt_timer_stop(t)
  PROVE  /\ KernelInv'
         /\ t \in active => \A u : In(soft', u) <=> In(soft, u) /\ u # t
<1>1. CASE t \in active
  BY <1>1, UnlistStep DEF rt_timer_stop, KernelInv, TimerTypes
<1>2. CASE t \notin active
  BY <1>2 DEF rt_timer_stop, KernelInv, TimerTypes, InitsFit, Dues, Waits, Suspended, Serves,
              locals, Remains
<1> QED BY <1>1, <1>2

LEMMA SetStep ==
  ASSUME KernelInv, UNCHANGED <<tick, soft, timeout, active, pc, temp, locals, left>>,
         init' \in [Timers -> Tick], InitsFit', periodic' \subseteq Timers, gone' \subseteq Timers
  PROVE  KernelInv'
BY DEF KernelInv, TimerTypes, Dues, Waits, Suspended, Serves, locals, Remains

LEMMA SetInit ==
  ASSUME KernelInv, NEW t \in Timers, NEW n \in Tick, Fits(n), init' = [init EXCEPT ![t] = n]
  PROVE  init' \in [Timers -> Tick] /\ InitsFit'
BY DEF KernelInv, TimerTypes, InitsFit

LEMMA TimesAreTicks ==
  ASSUME Slack
  PROVE  \A n \in Times : n \in Tick /\ Fits(n)
BY HalfFacts DEF Slack, Fits, Tick

(* Other code uses its own timers only.                                    *)
LEMMA OtherStep ==
  ASSUME Slack, KernelInv, Owners, OtherCode
  PROVE  KernelInv' /\ Owners'
<1>1. PICK t \in Others :
        \/ rt_timer_start(t) \/ rt_timer_stop(t) \/ rt_timer_detach(t)
        \/ \E n \in Times : set_time(t, n) \/ rt_timer_init(t, n)
        \/ \E p \in BOOLEAN : set_periodic(t, p)
  BY DEF OtherCode
<1>2. t \in Timers /\ t \notin Vcpus /\ Callers /\ UNCHANGED <<ctl, host>>
  BY DEF Others, OtherCode, vtVars
<1>3. CASE rt_timer_start(t)
  <2>1. /\ KernelInv' /\ \A u : In(soft', u) <=> In(soft, u) \/ u = t
        /\ active' = active \cup {t}
    BY <1>2, <1>3, StartStep
  <2>2. t \notin gone /\ temp' = temp \ {t} /\ UNCHANGED <<gone, periodic>>
    BY <1>3 DEF rt_timer_start
  <2>3. Owners'
    BY <1>2, <2>1, <2>2 DEF Owners
  <2> QED BY <2>1, <2>3
<1>4. CASE rt_timer_stop(t)
  <2>1. KernelInv' /\ (t \in active => \A u : In(soft', u) <=> In(soft, u) /\ u # t)
    BY <1>2, <1>4, StopStep
  <2>2. UNCHANGED <<gone, periodic>>
    BY <1>4 DEF rt_timer_stop
  <2>3. CASE t \in active
    <3>1. active' = active \ {t} /\ temp' = temp \ {t}
      BY <1>4, <2>3 DEF rt_timer_stop, Unlists
    <3> QED BY <1>2, <2>1, <2>2, <2>3, <3>1 DEF Owners
  <2>4. CASE t \notin active
    <3>1. UNCHANGED <<soft, temp, active>>
      BY <1>4, <2>4 DEF rt_timer_stop
    <3> QED BY <1>2, <2>1, <2>2, <3>1 DEF Owners
  <2> QED BY <2>3, <2>4
<1>5. CASE rt_timer_detach(t)
  <2>1. /\ Unlists(t) /\ active' = active \ {t} /\ gone' = gone \cup {t} /\ temp' = temp \ {t}
        /\ UNCHANGED <<tick, init, periodic, pc, locals>>
    BY <1>5 DEF rt_timer_detach, Unlists
  <2>2. KernelInv' /\ \A u : In(soft', u) <=> In(soft, u) /\ u # t
    BY <1>2, <2>1, UnlistStep DEF KernelInv, TimerTypes
  <2>3. Owners'
    BY <1>2, <2>1, <2>2 DEF Owners
  <2> QED BY <2>2, <2>3
<1>6. ASSUME NEW n \in Times, set_time(t, n)
      PROVE  KernelInv' /\ Owners'
  <2>1. init' \in [Timers -> Tick] /\ InitsFit'
    BY <1>2, <1>6, TimesAreTicks, SetInit DEF set_time
  <2>2. KernelInv'
    BY <1>6, <2>1, SetStep DEF set_time, KernelInv, TimerTypes
  <2>3. Owners'
    BY <1>2, <1>6 DEF set_time, Owners
  <2> QED BY <2>2, <2>3
<1>7. ASSUME NEW n \in Times, rt_timer_init(t, n)
      PROVE  KernelInv' /\ Owners'
  <2>1. init' \in [Timers -> Tick] /\ InitsFit'
    BY <1>2, <1>7, TimesAreTicks, SetInit DEF rt_timer_init
  <2>2. periodic' \subseteq Timers /\ gone' \subseteq Timers
    BY <1>2, <1>7 DEF rt_timer_init, KernelInv, TimerTypes
  <2>3. KernelInv'
    BY <1>7, <2>1, <2>2, SetStep DEF rt_timer_init
  <2>4. Owners'
    BY <1>2, <1>7 DEF rt_timer_init, Owners
  <2> QED BY <2>3, <2>4
<1>8. ASSUME NEW p \in BOOLEAN, set_periodic(t, p)
      PROVE  KernelInv' /\ Owners'
  <2>1. periodic' \subseteq Timers /\ InitsFit'
    BY <1>2, <1>8 DEF set_periodic, KernelInv, TimerTypes, InitsFit
  <2>2. KernelInv'
    BY <1>8, <2>1, SetStep DEF set_periodic, KernelInv, TimerTypes
  <2>3. Owners'
    BY <1>2, <1>8 DEF set_periodic, Owners
  <2> QED BY <2>2, <2>3
<1> QED BY <1>1, <1>3, <1>4, <1>5, <1>6, <1>7, <1>8

(* A guest traps only while its own timer's function does not run.         *)
LEMMA GuestStep ==
  ASSUME Slack, KernelInv, Owners, ctl \in [Vcpus -> [enable : BOOLEAN, imask : BOOLEAN]], GuestTraps
  PROVE  /\ KernelInv' /\ Owners' /\ host' \in {"ok", "stopped"}
         /\ ctl' \in [Vcpus -> [enable : BOOLEAN, imask : BOOLEAN]]
<1>1. ASSUME NEW v \in Vcpus, NEW c \in Ctls, vtimer_handler_cntp_ctl(v, c), host = "ok"
      PROVE  /\ KernelInv' /\ Owners' /\ host' \in {"ok", "stopped"}
             /\ ctl' \in [Vcpus -> [enable : BOOLEAN, imask : BOOLEAN]]
  <2>1. /\ v \in Timers /\ Callers /\ host' = host
        /\ c \in [enable : BOOLEAN, imask : BOOLEAN] /\ ctl' = [ctl EXCEPT ![v] = c]
    BY <1>1, TimerConstants, VTimerConstants DEF vtimer_handler_cntp_ctl, Traps, Callers
  <2>2. /\ ctl' \in [Vcpus -> [enable : BOOLEAN, imask : BOOLEAN]] /\ ctl'[v] = c
        /\ \A w \in Vcpus : w # v => ctl'[w] = ctl[w]
    BY <2>1
  <2>3. CASE Armed(c)
    <3>1. rt_timer_start(v)
      BY <1>1, <2>3 DEF vtimer_handler_cntp_ctl
    <3>2. /\ KernelInv' /\ \A u : In(soft', u) <=> In(soft, u) \/ u = v
          /\ active' = active \cup {v}
      BY <2>1, <3>1, StartStep
    <3>3. v \notin gone /\ temp' = temp \ {v} /\ UNCHANGED <<gone, periodic>>
      BY <3>1 DEF rt_timer_start
    <3>4. Owners'
      BY <2>2, <2>3, <3>2, <3>3 DEF Owners
    <3> QED BY <1>1, <2>1, <2>2, <3>2, <3>4
  <2>4. CASE ~ Armed(c)
    <3>1. rt_timer_stop(v)
      BY <1>1, <2>4 DEF vtimer_handler_cntp_ctl
    <3>2. KernelInv' /\ (v \in active => \A u : In(soft', u) <=> In(soft, u) /\ u # v)
      BY <2>1, <3>1, StopStep
    <3>3. UNCHANGED <<gone, periodic>>
      BY <3>1 DEF rt_timer_stop
    <3>4. CASE v \in active
      <4>1. active' = active \ {v} /\ temp' = temp \ {v}
        BY <3>1, <3>4 DEF rt_timer_stop, Unlists
      <4>2. Owners'
        BY <2>2, <2>4, <3>2, <3>3, <3>4, <4>1 DEF Owners
      <4> QED BY <1>1, <2>1, <2>2, <3>2, <4>2
    <3>5. CASE v \notin active
      <4>1. UNCHANGED <<soft, temp, active>>
        BY <3>1, <3>5 DEF rt_timer_stop
      <4>2. Owners'
        BY <2>2, <2>4, <3>3, <3>5, <4>1 DEF Owners
      <4> QED BY <1>1, <2>1, <2>2, <3>2, <4>2
    <3> QED BY <3>4, <3>5
  <2> QED BY <2>3, <2>4
<1>2. ASSUME UNCHANGED <<stVars, ctl>>
      PROVE  KernelInv' /\ Owners'
  <2>1. UNCHANGED <<tick, soft, timeout, init, active, periodic, gone, pc, temp, locals, left, ctl>>
    BY <1>2 DEF stVars, timerVars
  <2>2. init' \in [Timers -> Tick] /\ InitsFit' /\ periodic' \subseteq Timers /\ gone' \subseteq Timers
    BY <2>1 DEF KernelInv, TimerTypes, InitsFit
  <2>3. KernelInv'
    BY <2>1, <2>2, SetStep
  <2> QED BY <2>1, <2>3 DEF Owners
<1>3. ASSUME NEW v \in Vcpus, NEW n \in TVals, vtimer_handler_cntp_tval(v, n), host = "ok"
      PROVE  /\ KernelInv' /\ Owners' /\ host' \in {"ok", "stopped"} /\ ctl' = ctl
  <2>1. CASE (n % TICKS) < HALF
    <3>1. set_time(v, n % TICKS) /\ UNCHANGED <<ctl, host>>
      BY <1>3, <2>1 DEF vtimer_handler_cntp_tval
    <3>2. (n % TICKS) \in Tick /\ Fits(n % TICKS) /\ v \in Timers
      BY <2>1, Mods, TimerConstants, VTimerConstants DEF Slack
    <3>3. init' \in [Timers -> Tick] /\ InitsFit'
      BY <3>1, <3>2, SetInit DEF set_time
    <3>4. KernelInv'
      BY <3>1, <3>3, SetStep DEF set_time, KernelInv, TimerTypes
    <3>5. Owners'
      BY <3>1 DEF set_time, Owners
    <3> QED BY <1>3, <3>1, <3>4, <3>5
  <2>2. CASE ~ ((n % TICKS) < HALF)
    BY <1>2, <1>3, <2>2 DEF vtimer_handler_cntp_tval
  <2> QED BY <2>1, <2>2
<1>4. ASSUME sysreg_vtimer_read
      PROVE  /\ KernelInv' /\ Owners' /\ host' \in {"ok", "stopped"} /\ ctl' = ctl
  BY <1>2, <1>4 DEF sysreg_vtimer_read
<1> QED BY <1>1, <1>3, <1>4 DEF GuestTraps

-----------------------------------------------------------------------------
(* The timer thread and the tick.                                          *)

LEMMA LookStep ==
  ASSUME KernelInv, look \/ suspend_self
  PROVE  KernelInv'
<1>1. /\ TimerTypes /\ Waits /\ Serves /\ 0 \in 0 .. LAG
      /\ UNCHANGED <<tick, soft, timerVars, temp, at, wake, left>>
  BY HalfFacts DEF KernelInv, look, suspend_self
<1>2. CASE look
  <2>1. pc = "look" /\ lag' = lag
    BY <1>2 DEF look
  <2>2. CASE soft = <<>>
    <3>1. pc' = "empty" /\ next' = next
      BY <1>2, <2>2 DEF look
    <3>2. TimerTypes' /\ Dues' /\ InitsFit' /\ Serves'
      BY <1>1, <2>1, <3>1
         DEF TimerTypes, Pcs, timerVars, KernelInv, Dues, InitsFit, Serves
    <3>3. Waits'
      BY <1>1, <2>1, <2>2, <3>1 DEF Waits, Suspended
    <3> QED BY <1>1, <3>2, <3>3 DEF KernelInv
  <2>3. CASE soft # <<>>
    <3>1. pc' = "got" /\ next' = timeout[Head(soft)]
      BY <1>2, <2>3 DEF look
    <3>2. next' \in Tick
      BY <1>1, <2>3, <3>1, TailFacts DEF KernelInv, TimerTypes
    <3>3. TimerTypes' /\ Dues' /\ InitsFit' /\ Serves'
      BY <1>1, <2>1, <3>1, <3>2
         DEF TimerTypes, Pcs, timerVars, KernelInv, Dues, InitsFit, Serves
    <3>4. Waits'
      BY <1>1, <2>1, <2>3, <3>1 DEF Waits, Suspended, timerVars
    <3> QED BY <1>1, <3>3, <3>4 DEF KernelInv
  <2> QED BY <2>2, <2>3
<1>3. CASE suspend_self
  <2>1. pc = "empty" /\ pc' = "suspended" /\ lag' = 0 /\ next' = next
    BY <1>3 DEF suspend_self
  <2>2. TimerTypes' /\ Dues' /\ InitsFit' /\ Serves'
    BY <1>1, <2>1 DEF TimerTypes, Pcs, timerVars, KernelInv, Dues, InitsFit, Serves
  <2>3. Waits'
    BY <1>1, <2>1 DEF Waits, Suspended
  <2> QED BY <1>1, <2>2, <2>3 DEF KernelInv
<1> QED BY <1>2, <1>3

(* The first timer of a list.                                              *)
LEMMA HeadFacts ==
  ASSUME KernelInv, soft # <<>>
  PROVE  /\ Head(soft) \in Timers /\ In(soft, Head(soft))
         /\ \A u : In(soft, u) /\ u # Head(soft) => left[Head(soft)] <= left[u]
BY TailFacts DEF KernelInv, TimerTypes

LEMMA DelayStep ==
  ASSUME Slack, KernelInv, delay_or_check
  PROVE  KernelInv'
<1> DEFINE h == Head(soft)
<1>1. /\ TimerTypes /\ Waits /\ Serves /\ pc = "got"
      /\ UNCHANGED <<tick, soft, timerVars, temp, at, wake, lag, left>>
  BY DEF KernelInv, delay_or_check
<1>2. soft # <<>> /\ next = timeout[h] /\ Least(soft, left, 1 - lag) /\ Least(soft, left, -LAG - lag)
  BY <1>1 DEF Waits, Suspended
<1>3. h \in Timers /\ In(soft, h) /\ \A u : In(soft, u) /\ u # h => left[h] <= left[u]
  BY <1>2, HeadFacts
<1> HIDE DEF h
<1>4. /\ left[h] \in Int /\ left[h] < HALF /\ HALF \in Int /\ HALF < TICKS /\ TICKS \in Int
      /\ lag \in Int /\ lag >= 0
      /\ Passed(next, tick) => left[h] >= 0 /\ ((next - tick) % TICKS) = left[h]
  <2>1. left[h] \in Int /\ left[h] < HALF
    BY <1>3, LeftRange
  <2>2. Passed(next, tick) => left[h] >= 0 /\ ((next - tick) % TICKS) = left[h]
    BY <1>2, <1>3, DueWhen
  <2>3. HALF \in Int /\ HALF < TICKS /\ TICKS \in Int
    BY HalfFacts DEF Slack
  <2>4. lag \in Int /\ lag >= 0
    BY <1>1 DEF TimerTypes
  <2> QED BY <2>1, <2>2, <2>3, <2>4
<1>5. CASE Passed(next, tick)
  <2>1. pc' = "delay" /\ next' = left[h] /\ left[h] >= 0
    BY <1>4, <1>5 DEF delay_or_check
  <2>2. next' \in Tick /\ next' < HALF
    BY <1>4, <2>1 DEF Tick
  <2>3. Least(soft, left, AtLeastOne(next') - lag)
    <3> SUFFICES ASSUME NEW u \in Timers, In(soft, u)
                 PROVE  left[u] >= AtLeastOne(next') - lag
      BY DEF Least
    <3>1. left[u] \in Int /\ left[u] >= 1 - lag
      BY <1>1, <1>2 DEF Least, TimerTypes
    <3>2. left[h] <= left[u]
      BY <1>3, <1>4, <3>1
    <3>3. CASE left[h] = 0
      BY <2>1, <3>1, <3>3 DEF AtLeastOne
    <3>4. CASE left[h] # 0
      BY <1>4, <2>1, <3>1, <3>2, <3>4 DEF AtLeastOne
    <3> QED BY <3>3, <3>4
  <2>4. TimerTypes' /\ Dues' /\ InitsFit' /\ Serves'
    BY <1>1, <2>1, <2>2 DEF TimerTypes, Pcs, timerVars, KernelInv, Dues, InitsFit, Serves
  <2>5. Waits'
    BY <1>1, <1>2, <2>1, <2>2, <2>3 DEF Waits, Suspended
  <2> QED BY <1>1, <2>4, <2>5 DEF KernelInv
<1>6. CASE ~ Passed(next, tick)
  <2>1. pc' = "check" /\ next' = 0 /\ 0 \in Tick
    BY <1>6, HalfFacts DEF delay_or_check, Tick
  <2>2. TimerTypes' /\ Dues' /\ InitsFit' /\ Serves'
    BY <1>1, <2>1 DEF TimerTypes, Pcs, timerVars, KernelInv, Dues, InitsFit, Serves
  <2>3. Waits'
    BY <1>1, <1>2, <2>1 DEF Waits, Suspended
  <2> QED BY <1>1, <2>2, <2>3 DEF KernelInv
<1> QED BY <1>5, <1>6

LEMMA SleepStep ==
  ASSUME KernelInv, rt_thread_delay
  PROVE  KernelInv'
<1>1. /\ TimerTypes /\ Waits /\ Serves /\ pc = "delay" /\ pc' = "delayed" /\ lag' = 0
      /\ wake' = (tick + next) % TICKS /\ next' = 0
      /\ UNCHANGED <<tick, soft, timerVars, temp, at, left>>
  BY DEF KernelInv, rt_thread_delay
<1>2. /\ next \in Nat /\ next < TICKS /\ next < HALF /\ tick \in Tick /\ 0 \in Tick
      /\ lag \in Int /\ lag <= LAG /\ LAG \in Nat /\ 0 \in 0 .. LAG
      /\ Least(soft, left, AtLeastOne(next) - lag) /\ left \in [Timers -> Int]
  BY <1>1, HalfFacts DEF TimerTypes, Waits, Tick
<1>3. wake' \in Tick /\ After(wake', tick, next)
  BY <1>1, <1>2, AfterAdd
<1>4. Remains' = next
  <2>1. next \in Int /\ -TICKS < next
    BY <1>2, HalfFacts
  <2>2. ((wake' - tick) % TICKS) = next
    BY <1>2, <1>3, <2>1, AfterMod
  <2> QED BY <1>1, <2>2 DEF Remains
<1>5. Least(soft, left, AtLeastOne(next) - LAG)
  <2>1. /\ AtLeastOne(next) - LAG \in Int /\ AtLeastOne(next) - lag \in Int
        /\ AtLeastOne(next) - LAG <= AtLeastOne(next) - lag
    BY <1>2 DEF AtLeastOne
  <2> QED BY <1>2, <2>1, LeastWeaker
<1>6. TimerTypes' /\ Dues' /\ InitsFit' /\ Serves'
  BY <1>1, <1>2, <1>3 DEF TimerTypes, Pcs, timerVars, KernelInv, Dues, InitsFit, Serves
<1>7. Waits'
  BY <1>1, <1>2, <1>4, <1>5 DEF Waits, Suspended
<1> QED BY <1>1, <1>6, <1>7 DEF KernelInv

LEMMA CheckDoneStep ==
  ASSUME Slack, KernelInv, check_done
  PROVE  KernelInv'
<1>1. /\ TimerTypes /\ Waits /\ Serves /\ pc = "check" /\ ~ Due /\ pc' = "look"
      /\ UNCHANGED <<tick, soft, timerVars, temp, locals, left>>
  BY DEF KernelInv, check_done
<1>2. Least(soft, left, 1 - lag)
  <2>1. CASE soft = <<>>
    BY <2>1, EmptyIn DEF Least
  <2>2. CASE soft # <<>>
    <3> SUFFICES ASSUME NEW u \in Timers, In(soft, u)
                 PROVE  left[u] >= 1 - lag
      BY DEF Least
    <3> DEFINE h == Head(soft)
    <3>1. h \in Timers /\ In(soft, h) /\ (u # h => left[h] <= left[u])
      BY <2>2, HeadFacts
    <3>2. ~ Passed(tick, timeout[h])
      BY <1>1, <2>2 DEF Due
    <3> HIDE DEF h
    <3>3. left[h] \in Int /\ left[u] \in Int /\ ~ (left[h] <= 0)
      BY <1>1, <3>1, <3>2, DueWhen DEF TimerTypes
    <3>4. lag \in Int /\ lag >= 0
      BY <1>1 DEF TimerTypes
    <3> QED BY <3>1, <3>3, <3>4
  <2> QED BY <2>1, <2>2
<1>3. TimerTypes' /\ Dues' /\ InitsFit' /\ Serves'
  BY <1>1 DEF TimerTypes, Pcs, timerVars, locals, KernelInv, Dues, InitsFit, Serves
<1>4. Waits'
  BY <1>1, <1>2 DEF Waits, Suspended, locals
<1> QED BY <1>1, <1>3, <1>4 DEF KernelInv

(* A timer that is taken for its timeout function is due.                  *)
LEMMA TakeDueStep ==
  ASSUME Slack, KernelInv, Owners, take_due, UNCHANGED vtVars
  PROVE  KernelInv' /\ Owners' /\ left[at'] <= 0
<1> DEFINE h == Head(soft)
<1>1. /\ TimerTypes /\ Waits /\ Serves /\ pc = "check" /\ pc' = "call" /\ Due
      /\ at' = h /\ soft' = Tail(soft) /\ temp' = {h}
      /\ active' = IF h \in periodic THEN active ELSE active \ {h}
      /\ timeout' = [timeout EXCEPT ![h] = 0] /\ left' = [left EXCEPT ![h] = 0]
      /\ UNCHANGED <<tick, init, periodic, gone, next, wake, lag, ctl>>
  BY DEF KernelInv, take_due, vtVars
<1>2. soft # <<>> /\ Passed(tick, timeout[h]) /\ Sorted(soft, left)
  BY <1>1 DEF Due, KernelInv
<1>3. /\ soft' \in Seq(Timers) /\ Sorted(soft', left)
      /\ h \in Timers /\ In(soft, h)
      /\ \A u : In(soft', u) <=> In(soft, u) /\ u # h
  BY <1>1, <1>2, TailFacts DEF TimerTypes
<1> HIDE DEF h
<1>4. left[at'] <= 0
  BY <1>1, <1>2, <1>3, DueWhen
<1>5. /\ timeout' \in [Timers -> Tick] /\ left' \in [Timers -> Int] /\ active' \subseteq Timers
      /\ \A u \in Timers : u # h => timeout'[u] = timeout[u] /\ left'[u] = left[u]
  <2>1. 0 \in Tick
    BY HalfFacts DEF Tick
  <2> QED BY <1>1, <1>3, <2>1 DEF TimerTypes
<1>6. Sorted(soft', left')
  <2>1. \A u, w \in Timers : In(soft', u) /\ In(soft', w) /\ left[u] <= left[w] => left'[u] <= left'[w]
    BY <1>3, <1>5
  <2> QED BY <1>3, <2>1, SortedAgain
<1>7. TimerTypes' /\ InitsFit'
  BY <1>1, <1>3, <1>5 DEF TimerTypes, Pcs, KernelInv, InitsFit
<1>8. Dues'
  BY <1>1, <1>3, <1>5 DEF KernelInv, Dues
<1>9. Waits'
  <2>1. Least(soft', left', -LAG - lag)
    BY <1>1, <1>3, <1>5 DEF Waits, Suspended, Least
  <2> QED BY <1>1, <2>1 DEF Waits, Suspended
<1>10. Serves'
  BY <1>1, <1>3, TimerConstants DEF Serves
<1>11. Owners'
  <2>1. temp = {}
    BY <1>1, TimerConstants DEF Serves, TimerTypes
  <2>2. h \in active
    BY <1>3, LeftRange
  <2> QED BY <1>1, <1>3, <2>1, <2>2 DEF Owners
<1> QED BY <1>4, <1>6, <1>7, <1>8, <1>9, <1>10, <1>11 DEF KernelInv

LEMMA ReturnStep ==
  ASSUME Slack, KernelInv, Owners, timeout_func_returns, UNCHANGED vtVars
  PROVE  KernelInv' /\ Owners'
<1>1. /\ TimerTypes /\ Waits /\ Serves /\ pc = "call" /\ pc' = "check" /\ temp' = {} /\ at' = None
      /\ UNCHANGED <<tick, init, periodic, gone, next, wake, lag, ctl>>
  BY DEF KernelInv, timeout_func_returns, vtVars
<1>2. at \in Timers /\ Least(soft, left, -LAG - lag)
  BY <1>1 DEF Serves, TimerTypes, Waits, Suspended
<1>3. InitsFit' /\ Serves'
  BY <1>1 DEF KernelInv, InitsFit, Serves
<1>4. CASE Restarts
  <2>1. Starts(at) /\ temp = {at} /\ at \in active
    BY <1>1, <1>4 DEF timeout_func_returns, Restarts, Serves
  <2>2. /\ soft' \in Seq(Timers) /\ Sorted(soft', left')
        /\ \A u : In(soft', u) <=> In(soft, u) \/ u = at
        /\ timeout' \in [Timers -> Tick] /\ left' \in [Timers -> Int]
        /\ active' = active \cup {at} /\ Dues'
        /\ \A b \in Int : b <= 0 /\ Least(soft, left, b) => Least(soft', left', b)
    BY <1>1, <1>2, <2>1, StartsFacts
  <2>3. -LAG - lag \in Int /\ -LAG - lag <= 0
    BY <1>1, HalfFacts DEF TimerTypes
  <2>4. Waits'
    BY <1>1, <1>2, <2>2, <2>3 DEF Waits, Suspended
  <2>5. TimerTypes'
    BY <1>1, <1>2, <2>2 DEF TimerTypes, Pcs
  <2>6. Owners'
    BY <1>1, <2>1, <2>2 DEF Owners
  <2> QED BY <1>3, <2>2, <2>4, <2>5, <2>6 DEF KernelInv
<1>5. CASE ~ Restarts
  <2>1. UNCHANGED <<soft, timeout, left, active>>
    BY <1>1, <1>5 DEF timeout_func_returns
  <2>2. \A v \in Vcpus : v \notin temp
    BY <1>1, <1>5 DEF Restarts, Serves, Owners
  <2>3. Owners'
    BY <1>1, <2>1, <2>2 DEF Owners
  <2>4. TimerTypes' /\ Dues'
    BY <1>1, <2>1 DEF KernelInv, Dues, TimerTypes, Pcs
  <2>5. Waits'
    BY <1>1, <1>2, <2>1 DEF Waits, Suspended
  <2> QED BY <1>3, <2>1, <2>3, <2>4, <2>5 DEF KernelInv
<1> QED BY <1>4, <1>5

(* The delay left, as ticks until wake.                                    *)
LEMMA RemainsAfter ==
  ASSUME KernelInv
  PROVE  Remains \in Tick /\ After(wake, tick, Remains)
<1> DEFINE x == wake - tick
<1>1. /\ wake \in Tick /\ tick \in Tick /\ TICKS \in Nat \ {0}
      /\ x \in Int /\ -TICKS <= x /\ x < TICKS /\ wake = tick + x
  BY HalfFacts DEF KernelInv, TimerTypes, Tick
<1>2. Remains = (x % TICKS)
  BY DEF Remains
<1> HIDE DEF x
<1>3. (x % TICKS) \in Tick /\ ((x % TICKS) = x \/ (x % TICKS) = x + TICKS)
  BY <1>1, Mods
<1>4. After(wake, tick, x % TICKS)
  BY <1>1, <1>3 DEF After, Tick
<1> QED BY <1>2, <1>3, <1>4

LEMMA TickStep ==
  ASSUME Slack, KernelInv, rt_tick_increase
  PROVE  KernelInv' /\ UNCHANGED <<soft, timerVars, temp, at, next>>
<1>1. /\ TimerTypes /\ Waits /\ Serves /\ MayTick
      /\ tick' = (tick + 1) % TICKS
      /\ left' = [t \in Timers |-> IF left[t] > -LATE /\ Listed(t) THEN left[t] - 1 ELSE left[t]]
      /\ UNCHANGED <<soft, timerVars, temp, at, next>>
  BY DEF KernelInv, rt_tick_increase
<1>2. LAG \in Nat \ {0} /\ TICKS \in Nat \ {0} /\ HALF \in Int /\ 2 * LAG < HALF /\ HALF > 1
      /\ 2 * HALF <= TICKS - 1 /\ lag \in Int /\ lag >= 0 /\ lag <= LAG /\ tick \in Tick
  BY <1>1, HalfFacts DEF Slack, TimerTypes
<1>3. left' \in [Timers -> Int] /\ \A u \in Timers : In(soft, u) => left'[u] = left[u] - 1
  <2>1. left' \in [Timers -> Int]
    BY <1>1 DEF TimerTypes
  <2>2. ASSUME NEW u \in Timers, In(soft, u) PROVE left'[u] = left[u] - 1
    <3>1. left[u] \in Int /\ left[u] >= -2 * LAG
      BY <2>2, LeftRange
    <3>2. left[u] > -LATE
      BY <1>2, <3>1 DEF LATE
    <3> QED BY <1>1, <2>2, <3>2 DEF Listed, In
  <2> QED BY <2>1, <2>2
<1>4. Dues' /\ tick' \in Tick
  <2>1. tick' \in Tick
    <3>1. tick + 1 \in Int
      BY <1>2 DEF Tick
    <3> QED BY <1>1, <3>1, Mods
  <2>2. ASSUME NEW u \in Timers, In(soft, u)
        PROVE  u \in active /\ left'[u] < HALF /\ After(timeout[u], tick', left'[u])
    <3>1. /\ timeout[u] \in Tick /\ left[u] \in Int /\ u \in active
          /\ left[u] >= -2 * LAG /\ left[u] < HALF /\ After(timeout[u], tick, left[u])
      BY <2>2, LeftRange
    <3> HIDE DEF HALF
    <3>2. -TICKS < left[u] - 1 /\ left[u] < TICKS /\ left[u] - 1 < HALF
      BY <1>2, <3>1
    <3>3. After(timeout[u], tick', left[u] - 1)
      BY <1>1, <1>2, <3>1, <3>2, AfterTick
    <3> QED BY <1>3, <2>2, <3>1, <3>2, <3>3
  <2> QED BY <1>1, <2>1, <2>2 DEF Dues, timerVars
<1>5. Sorted(soft', left')
  <2>1. \A u, w \in Timers : In(soft, u) /\ In(soft, w) /\ left[u] <= left[w] => left'[u] <= left'[w]
    BY <1>1, <1>3 DEF TimerTypes
  <2> QED BY <1>1, <2>1, SortedAgain DEF KernelInv, TimerTypes
<1>6. ASSUME NEW b \in Int, Least(soft, left, b) PROVE Least(soft', left', b - 1)
  BY <1>1, <1>3, <1>6 DEF Least, TimerTypes
<1>7. InitsFit'
  BY <1>1 DEF KernelInv, InitsFit, timerVars
<1>8. CASE pc = "delayed"
  <2> DEFINE w == Remains
  <2>1. w \in Tick /\ After(wake, tick, w) /\ w < HALF /\ Least(soft, left, AtLeastOne(w) - LAG)
        /\ wake \in Tick
    BY <1>1, <1>8, RemainsAfter DEF Waits, TimerTypes
  <2> HIDE DEF w, HALF
  <2>2. w \in Int /\ w >= 0 /\ -TICKS < w - 1 /\ w < TICKS /\ w - 1 < TICKS /\ w - 1 \in Int
    BY <1>2, <2>1 DEF Tick
  <2>3. After(wake, tick', w - 1)
    BY <1>1, <1>2, <2>1, <2>2, AfterTick
  <2>4. After(tick', wake, -(w - 1))
    BY <1>4, <2>1, <2>2, <2>3, AfterSwap
  <2>5. -(w - 1) \in Int /\ HALF - TICKS <= -(w - 1) /\ -(w - 1) < HALF
    BY <1>2, <2>1, <2>2
  <2>6. Passed(tick', wake) <=> w <= 1
    <3>1. Passed(tick', wake) <=> -(w - 1) >= 0
      BY <1>4, <2>1, <2>4, <2>5, PassedWhen
    <3> QED BY <2>2, <3>1
  <2>7. CASE Passed(tick', wake)
    <3>1. pc' = "check" /\ lag' = 0 /\ wake' = 0 /\ 0 \in Tick
      BY <1>2, <1>8, <2>7 DEF rt_tick_increase, Tick
    <3>2. Least(soft', left', -LAG)
      <4>1. 1 - LAG \in Int /\ AtLeastOne(w) - LAG \in Int /\ 1 - LAG <= AtLeastOne(w) - LAG
            /\ (1 - LAG) - 1 = -LAG
        BY <1>2, <2>2 DEF AtLeastOne
      <4>2. Least(soft, left, 1 - LAG)
        BY <1>1, <2>1, <4>1, LeastWeaker DEF TimerTypes
      <4>3. Least(soft', left', (1 - LAG) - 1)
        BY <1>6, <4>1, <4>2
      <4> QED BY <4>1, <4>3
    <3>3. -LAG - lag' = -LAG
      BY <1>2, <3>1
    <3>4. Waits'
      BY <3>1, <3>2, <3>3 DEF Waits, Suspended
    <3>5. TimerTypes'
      BY <1>1, <1>2, <1>3, <1>4, <3>1 DEF TimerTypes, Pcs, timerVars
    <3>6. Serves'
      BY <1>1, <1>8, <3>1 DEF Serves
    <3> QED BY <1>1, <1>4, <1>5, <1>7, <3>4, <3>5, <3>6 DEF KernelInv
  <2>8. CASE ~ Passed(tick', wake)
    <3>1. pc' = pc /\ wake' = wake /\ lag' = 0
      BY <1>8, <2>8 DEF rt_tick_increase, Suspended, Lagging
    <3>2. w > 1
      BY <2>2, <2>6, <2>8
    <3>3. Remains' = w - 1
      <4>1. ((wake - tick') % TICKS) = w - 1
        BY <1>4, <2>1, <2>2, <2>3, <3>2, AfterMod
      <4> QED BY <3>1, <4>1 DEF Remains
    <3>4. AtLeastOne(w) = w /\ AtLeastOne(w - 1) = w - 1 /\ w - LAG \in Int /\ (w - LAG) - 1 = (w - 1) - LAG
      BY <1>2, <2>2, <3>2 DEF AtLeastOne
    <3>5. Least(soft', left', AtLeastOne(Remains') - LAG)
      <4>1. Least(soft', left', (w - LAG) - 1)
        BY <1>6, <2>1, <3>4
      <4> QED BY <3>3, <3>4, <4>1
    <3>6. Remains' < HALF
      BY <1>2, <2>1, <2>2, <3>3
    <3>7. Waits'
      BY <1>8, <3>1, <3>5, <3>6 DEF Waits, Suspended
    <3>8. TimerTypes' /\ Serves'
      BY <1>1, <1>2, <1>3, <1>4, <3>1 DEF TimerTypes, Pcs, timerVars, Serves
    <3> QED BY <1>1, <1>4, <1>5, <1>7, <3>7, <3>8 DEF KernelInv
  <2> QED BY <2>7, <2>8
<1>9. CASE pc # "delayed"
  <2>1. pc' = pc /\ wake' = wake /\ lag' = Lagging
    BY <1>9 DEF rt_tick_increase
  <2>2. lag' \in 0 .. LAG /\ (~ Suspended /\ lag < LAG => lag' = lag + 1)
    BY <1>2, <2>1 DEF Lagging
  <2>0. ~ Suspended /\ ~ (lag < LAG) => /\ lag' = LAG /\ pc \in {"check", "call"}
                                       /\ Least(soft, left, 0)
    <3>1. ASSUME Spinning PROVE Least(soft, left, 0)
      BY <3>1 DEF Spinning, Least, In
    <3> QED BY <1>1, <2>1, <3>1 DEF MayTick, Lagging, Spinning
  <2>3. TimerTypes' /\ Serves'
    BY <1>1, <1>3, <1>4, <2>1, <2>2 DEF TimerTypes, Pcs, timerVars, Serves
  <2>4. ~ Suspended => Least(soft', left', -LAG - lag')
    <3>0. ASSUME ~ Suspended, ~ (lag < LAG) PROVE Least(soft', left', -LAG - lag')
      <4>1. Least(soft', left', 0 - 1)
        BY <1>6, <2>0, <3>0
      <4>2. -LAG - lag' \in Int /\ -LAG - lag' <= 0 - 1 /\ 0 - 1 \in Int
        BY <1>2, <2>0, <3>0
      <4> QED BY <1>3, <4>1, <4>2, LeastWeaker
    <3> SUFFICES ASSUME ~ Suspended, lag < LAG PROVE Least(soft', left', -LAG - lag')
      BY <3>0
    <3>1. -LAG - lag \in Int /\ (-LAG - lag) - 1 = -LAG - (lag + 1)
      BY <1>2
    <3>2. Least(soft', left', (-LAG - lag) - 1)
      BY <1>1, <1>6, <3>1 DEF Waits
    <3> QED BY <2>2, <3>1, <3>2
  <2>5. pc \in {"look", "got"} => Least(soft', left', 1 - lag')
    <3> SUFFICES ASSUME pc \in {"look", "got"} PROVE Least(soft', left', 1 - lag')
      OBVIOUS
    <3>0. ~ Suspended /\ lag < LAG
      BY <2>0 DEF Suspended
    <3>1. 1 - lag \in Int /\ (1 - lag) - 1 = 1 - (lag + 1)
      BY <1>2
    <3>2. Least(soft', left', (1 - lag) - 1)
      BY <1>1, <1>6, <3>1 DEF Waits
    <3> QED BY <2>2, <3>0, <3>1, <3>2
  <2>6. pc = "delay" => Least(soft', left', AtLeastOne(next) - lag')
    <3> SUFFICES ASSUME pc = "delay" PROVE Least(soft', left', AtLeastOne(next) - lag')
      OBVIOUS
    <3> DEFINE d == AtLeastOne(next)
    <3>0. d \in Int
      BY <1>1 DEF AtLeastOne, TimerTypes, Tick
    <3>1. Least(soft, left, d - lag) /\ ~ Suspended /\ lag < LAG
      BY <1>1, <2>0 DEF Waits, Suspended
    <3> HIDE DEF d
    <3>2. d - lag \in Int /\ (d - lag) - 1 = d - (lag + 1)
      BY <1>2, <3>0
    <3>3. Least(soft', left', (d - lag) - 1)
      BY <1>6, <3>1, <3>2
    <3> QED BY <2>2, <3>1, <3>2, <3>3 DEF d
  <2>7. Waits'
    BY <1>1, <1>9, <2>1, <2>4, <2>5, <2>6 DEF Waits, Suspended, timerVars
  <2> QED BY <1>1, <1>4, <1>5, <1>7, <2>3, <2>7 DEF KernelInv
<1> QED BY <1>1, <1>8, <1>9

-----------------------------------------------------------------------------
IInv ==
  /\ KernelInv /\ Owners
  /\ ctl \in [Vcpus -> [enable : BOOLEAN, imask : BOOLEAN]] /\ host \in {"ok", "stopped"}

LEMMA InitIInv ==
  ASSUME Slack, VTInit
  PROVE  IInv
<1>1. /\ tick = 0 /\ soft = <<>> /\ timeout = [t \in Timers |-> 0]
      /\ init \in [Timers -> Times] /\ active = {} /\ periodic = Periodic /\ gone = {}
      /\ pc = "look" /\ at = None /\ temp = {} /\ next = 0 /\ wake = 0
      /\ lag = 0 /\ left = [t \in Timers |-> 0]
      /\ ctl = [v \in Vcpus |-> [enable |-> FALSE, imask |-> FALSE]] /\ host = "ok"
  BY DEF VTInit, Init
<1>2. 0 \in Tick /\ 0 \in 0 .. LAG /\ Periodic \subseteq Timers /\ Vcpus \subseteq Periodic
      /\ \A u : ~ In(soft, u)
  BY <1>1, HalfFacts, TimerConstants, VTimerConstants, EmptyIn DEF Tick
<1>3. init \in [Timers -> Tick] /\ InitsFit
  BY <1>1, TimesAreTicks DEF InitsFit
<1>4. TimerTypes
  <2>1. soft \in Seq(Timers)
    BY <1>1
  <2> QED BY <1>1, <1>2, <1>3, <2>1 DEF TimerTypes, Pcs
<1>5. Sorted(soft, left) /\ Dues /\ Waits /\ Serves
  BY <1>1, <1>2 DEF Sorted, Dues, Waits, Suspended, Least, Serves
<1>6. Owners /\ ctl \in [Vcpus -> [enable : BOOLEAN, imask : BOOLEAN]]
  <2>1. \A v \in Vcpus : ~ Armed(ctl[v])
    BY <1>1 DEF Armed
  <2> QED BY <1>1, <1>2, <2>1 DEF Owners
<1> QED BY <1>1, <1>3, <1>4, <1>5, <1>6 DEF IInv, KernelInv

LEMMA ThreadStep ==
  ASSUME Slack, KernelInv, Owners, TimerThread, UNCHANGED vtVars
  PROVE  KernelInv' /\ Owners' /\ (pc' = "call" /\ pc # "call" => left[at'] <= 0)
<1>1. CASE look \/ suspend_self
  BY <1>1, LookStep DEF look, suspend_self, Owners, timerVars, vtVars
<1>2. CASE delay_or_check
  BY <1>2, DelayStep DEF delay_or_check, Owners, timerVars, vtVars
<1>3. CASE rt_thread_delay
  BY <1>3, SleepStep DEF rt_thread_delay, Owners, timerVars, vtVars
<1>4. CASE check_done
  BY <1>4, CheckDoneStep DEF check_done, Owners, timerVars, vtVars
<1>5. CASE take_due
  BY <1>5, TakeDueStep
<1>6. CASE timeout_func_returns
  BY <1>6, ReturnStep DEF timeout_func_returns
<1> QED BY <1>1, <1>2, <1>3, <1>4, <1>5, <1>6 DEF TimerThread

LEMMA NextStep ==
  ASSUME Slack, IInv, Next
  PROVE  IInv' /\ (pc' = "call" /\ pc # "call" => left[at'] <= 0)
<1>1. CASE KernelTimer
  <2>1. KernelInv' /\ Owners' /\ (pc' = "call" /\ pc # "call" => left[at'] <= 0)
    BY <1>1, ThreadStep DEF KernelTimer, IInv
  <2> QED BY <1>1, <2>1 DEF KernelTimer, IInv, vtVars
<1>2. CASE KernelTick
  <2>1. KernelInv' /\ UNCHANGED <<soft, timerVars, temp, at, next>>
    BY <1>2, TickStep DEF KernelTick, IInv
  <2>2. UNCHANGED <<ctl, host>>
    BY <1>2 DEF KernelTick, vtVars
  <2>3. Owners'
    BY <2>1, <2>2 DEF Owners, IInv, timerVars
  <2>4. ~ (pc' = "call" /\ pc # "call")
    BY <1>2 DEF KernelTick, rt_tick_increase
  <2> QED BY <2>1, <2>2, <2>3, <2>4 DEF IInv
<1>3. CASE GuestTraps
  <2>1. /\ KernelInv' /\ Owners' /\ host' \in {"ok", "stopped"}
        /\ ctl' \in [Vcpus -> [enable : BOOLEAN, imask : BOOLEAN]]
    BY <1>3, GuestStep DEF IInv
  <2>2. ~ (pc' = "call" /\ pc # "call")
    BY <1>3 DEF GuestTraps, vtimer_handler_cntp_ctl, vtimer_handler_cntp_tval, sysreg_vtimer_read,
                rt_timer_start, resume_timer_thread, rt_timer_stop, set_time, stVars
  <2> QED BY <2>1, <2>2 DEF IInv
<1>4. CASE OtherCode
  <2>1. KernelInv' /\ Owners'
    BY <1>4, OtherStep DEF IInv
  <2>2. ~ (pc' = "call" /\ pc # "call")
    BY <1>4 DEF OtherCode, rt_timer_start, resume_timer_thread, rt_timer_stop, rt_timer_detach,
                set_time, rt_timer_init, set_periodic
  <2> QED BY <1>4, <2>1, <2>2 DEF IInv, OtherCode, vtVars
<1> QED BY <1>1, <1>2, <1>3, <1>4 DEF Next

LEMMA IInvSafe ==
  ASSUME IInv
  PROVE  TypeOK /\ EarliestFirst /\ Timely /\ DetachedIsOff /\ CtlMatchesTimer
<1>1. TypeOK
  BY DEF IInv, KernelInv, TimerTypes, Pcs, TypeOK
<1>2. EarliestFirst
  BY DEF IInv, KernelInv, Sorted, EarliestFirst
<1>3. Timely
  <2>1. Least(soft, left, -2 * LAG) /\ soft \in Seq(Timers)
    BY LateBound DEF IInv, KernelInv, TimerTypes
  <2>2. \A i \in 1 .. Len(soft) : soft[i] \in Timers /\ In(soft, soft[i])
    BY <2>1 DEF In
  <2> QED BY <2>1, <2>2 DEF Least, Timely
<1>4. DetachedIsOff
  BY DEF IInv, Owners, DetachedIsOff, Listed, In
<1>5. CtlMatchesTimer
  <2>1. \A v \in Vcpus : v \in temp <=> temp = {v}
    BY DEF IInv, KernelInv, Serves
  <2> QED BY <2>1 DEF IInv, Owners, CtlMatchesTimer, Listed, In
<1> QED BY <1>1, <1>2, <1>3, <1>4, <1>5

(* For any timers, vCPUs, width of rt_tick and lag of the timer thread     *)
(* that leave Slack: the list of soft timers is always in the order of the *)
(* true times left, also across the wrap; no timer's function is called    *)
(* before its time, nor more than 2 * LAG ticks after it; a detached timer *)
(* is on no list; a guest's timer runs exactly when the guest last enabled *)
(* and unmasked it.                                                        *)
THEOREM TimersCorrect ==
  ASSUME Slack
  PROVE  Spec => /\ [](TypeOK /\ EarliestFirst /\ Timely /\ DetachedIsOff /\ CtlMatchesTimer)
                 /\ NotEarly
<1>1. VTInit => IInv
  BY InitIInv
<1>2. IInv /\ [Next]_vars => IInv'
  <2>1. ASSUME IInv, UNCHANGED vars PROVE IInv'
    BY <2>1 DEF vars, stVars, timerVars, locals, vtVars, IInv, KernelInv, TimerTypes, InitsFit, Dues,
                Waits, Suspended, Remains, Serves, Owners
  <2> QED BY <2>1, NextStep
<1>3. IInv => TypeOK /\ EarliestFirst /\ Timely /\ DetachedIsOff /\ CtlMatchesTimer
  BY IInvSafe
<1>4. IInv /\ [Next]_vars => [pc' = "call" /\ pc # "call" => left[at'] <= 0]_vars
  BY NextStep
<1> QED BY <1>1, <1>2, <1>3, <1>4, PTL DEF Spec, NotEarly
=============================================================================
