---------------------------- MODULE VgicLrProofs ----------------------------
(***************************************************************************)
(* Proofs about VgicLr, for any number of vCPUs, list registers, cells and *)
(* vIRQs, whatever rt_malloc left in tail and however often interrupts cut *)
(* into the timer thread's calls. First what one insertion, swap and       *)
(* removal do to one list, then the inductive invariant of the lists that  *)
(* are not spoilt, step by step; after that the list registers beside the  *)
(* lists while the core's use of them is orderly, and what is never lost   *)
(* on the way between them.                                                *)
(***************************************************************************)
EXTENDS VgicLr, TLAPS

Packed(a, n) == \A j \in Cells : a[j].res0 <=> j < n
OneEach(a) == \A j, k \in Cells : a[j].res0 /\ a[k].res0 /\ j # k => a[j].vint # a[k].vint
Marked(v, e) == [e EXCEPT !.res0 = TRUE, !.own = v]

(* vgic_lr_list_insert on a list of n < GIC_LR_LIST_NUM entries none of    *)
(* which is e's vIRQ.                                                      *)
LEMMA InsertKeeps ==
  ASSUME NEW a \in [Cells -> Entry], NEW n \in Cells, NEW e \in Entry, e.res0,
         Packed(a, n), OneEach(a), \A j \in Cells : j < n => a[j].vint # e.vint
  PROVE  /\ Packed([a EXCEPT ![n] = e], n + 1)
         /\ OneEach([a EXCEPT ![n] = e])
<1> DEFINE b == [a EXCEPT ![n] = e]
<1>1. \A j \in Cells : b[j] = IF j = n THEN e ELSE a[j]
  OBVIOUS
<1> HIDE DEF b
<1>2. Packed(b, n + 1)
  BY <1>1, LrConstants DEF Packed, Cells
<1>3. OneEach(b)
  BY <1>1 DEF OneEach, Packed
<1> QED BY <1>2, <1>3 DEF b

(* rt_swap_lr_reg within the first n cells.                                *)
LEMMA SwapKeeps ==
  ASSUME NEW a \in [Cells -> Entry], NEW n \in Nat,
         NEW j \in Cells, NEW k \in Cells, j < n, k < n,
         Packed(a, n), OneEach(a)
  PROVE  Packed(Swapped(a, j, k), n) /\ OneEach(Swapped(a, j, k))
<1> DEFINE b == Swapped(a, j, k)
<1>1. \A i \in Cells : b[i] = IF i = k THEN a[j] ELSE IF i = j THEN a[k] ELSE a[i]
  BY DEF Swapped
<1> HIDE DEF b
<1>2. Packed(b, n)
  BY <1>1 DEF Packed
<1>3. OneEach(b)
  BY <1>1 DEF OneEach
<1> QED BY <1>2, <1>3 DEF b

LEMMA ListTypes ==
  ASSUME NEW a \in [Cells -> Entry], NEW j \in Cells, NEW k \in Cells
  PROVE  /\ Swapped(a, j, k) \in [Cells -> Entry]
         /\ \A n \in 1 .. GIC_LR_LIST_NUM : Removed(a, j, n) \in [Cells -> Entry]
         /\ ZERO \in Entry /\ ~ ZERO.res0
<1>1. ZERO \in Entry /\ ~ ZERO.res0
  BY LrConstants DEF ZERO, Entry
<1>2. \A m \in Cells : Swapped(a, j, m) \in [Cells -> Entry]
  BY DEF Swapped
<1>3. ASSUME NEW n \in 1 .. GIC_LR_LIST_NUM
      PROVE  Removed(a, j, n) \in [Cells -> Entry]
  <2>1. n - 1 \in Cells
    BY LrConstants DEF Cells
  <2>2. Swapped(a, j, n - 1) \in [Cells -> Entry]
    BY <1>2, <2>1
  <2> QED BY <1>1, <2>1, <2>2 DEF Removed
<1> QED BY <1>1, <1>2, <1>3

(* vgic_lr_list_remove of one of the first n entries.                      *)
LEMMA RemoveKeeps ==
  ASSUME NEW a \in [Cells -> Entry], NEW n \in 1 .. GIC_LR_LIST_NUM,
         NEW j \in Cells, j < n, Packed(a, n), OneEach(a)
  PROVE  Packed(Removed(a, j, n), n - 1) /\ OneEach(Removed(a, j, n))
<1> DEFINE b == Swapped(a, j, n - 1)
           d == Removed(a, j, n)
<1>1. n - 1 \in Cells
  BY LrConstants DEF Cells
<1>2. b \in [Cells -> Entry] /\ Packed(b, n) /\ OneEach(b)
  BY <1>1, SwapKeeps, ListTypes, n - 1 < n
<1>3. ZERO \in Entry /\ ~ ZERO.res0
  BY ListTypes
<1>4. d = [b EXCEPT ![n - 1] = ZERO]
  BY DEF Removed
<1> HIDE DEF b, d
<1>5. d \in [Cells -> Entry] /\ \A i \in Cells : d[i] = IF i = n - 1 THEN ZERO ELSE b[i]
  BY <1>1, <1>2, <1>3, <1>4
<1>6. Packed(d, n - 1)
  BY <1>1, <1>2, <1>3, <1>5 DEF Packed, Cells
<1>7. OneEach(d)
  BY <1>2, <1>3, <1>5 DEF OneEach
<1> QED BY <1>6, <1>7 DEF d

-----------------------------------------------------------------------------
(* The inductive invariant of the lists. A call belongs to a vCPU and has  *)
(* removed no more entries than it has visited registers. A vCPU that is   *)
(* not spoilt has one call at a time; its list is packed, counting the     *)
(* cell of a half-done insertion; a sort is confined to the used cells;    *)
(* and its call is not stopped.                                            *)

Typed ==
  /\ list \in [Vcpus -> [Cells -> Entry]]
  /\ tail \in [Vcpus -> Nat]
  /\ lr \in [Lrs -> Entry]
  /\ enable \in [Vcpus -> SUBSET Virqs]
  /\ prio \in [Vcpus -> [Virqs -> Prios]]
  /\ curr \in Threads /\ ready \subseteq Vcpus
  /\ frame \in [Ctxts -> Frame]
  /\ spoilt \subseteq Vcpus /\ mixed \in BOOLEAN /\ cuts \in 0 .. MAX_CUTS

InsertPcs == {"insert", "save_insert"}
SortPcs == {"sort", "resort"}
On(c, v) == Busy(c) /\ frame[c].v = v

Calls ==
  \A c \in Ctxts : frame[c].rm <= frame[c].i /\ (Busy(c) => frame[c].v \in Vcpus)

(* A list a of n entries, beside a call with frame g.                      *)
Half(g) == IF g.pc \in InsertPcs THEN 1 ELSE 0
ListOK(a, n, g) ==
  /\ n + Half(g) <= GIC_LR_LIST_NUM
  /\ Packed(a, n + Half(g)) /\ OneEach(a)
  /\ g.pc # "stopped"
  /\ g.pc \in SortPcs => g.dad <= g.last /\ g.last < n

Alone(v) == \A c, d \in Ctxts : On(c, v) /\ On(d, v) => c = d
Kept1(v) ==
  /\ \A c \in Ctxts : On(c, v) => ListOK(list[v], tail[v], frame[c])
  /\ (\A c \in Ctxts : ~ On(c, v)) => ListOK(list[v], tail[v], NoFrame)
ListInv == \A v \in Vcpus \ spoilt : Alone(v) /\ Kept1(v)

IInv == Typed /\ Calls /\ ListInv

(* Frames.                                                                 *)
SaveFrame(f) == [Fresh(f) EXCEPT !.pc = "save", !.elrsr = read_idle_lr_reg]
RestoreFrame(f) == [Fresh(f) EXCEPT !.pc = "restore", !.elrsr = read_idle_lr_reg]
StopFrame(f) == [Fresh(f) EXCEPT !.pc = "stopped"]

LEMMA FreshFrames ==
  /\ NoFrame \in Frame /\ NoFrame.pc = "idle" /\ NoFrame.rm = 0 /\ NoFrame.i = 0
  /\ \A v \in Vcpus : /\ [NoFrame EXCEPT !.v = v] \in Frame
                      /\ [NoFrame EXCEPT !.v = v].v = v
                      /\ [NoFrame EXCEPT !.v = v].to = None
  /\ \A v \in Vcpus, t \in Threads : /\ [NoFrame EXCEPT !.v = v, !.to = t] \in Frame
                                     /\ [NoFrame EXCEPT !.v = v, !.to = t].v = v
                                     /\ [NoFrame EXCEPT !.v = v, !.to = t].to = t
<1>1. 0 \in 0 .. NR_LR /\ 0 \in Cells /\ {} \in SUBSET Lrs
  BY LrConstants DEF Cells
<1>2. NoFrame \in Frame
  BY <1>1 DEF NoFrame, Frame
<1> QED BY <1>1, <1>2 DEF Frame, NoFrame

LEMMA FrameFacts ==
  ASSUME NEW f \in Frame
  PROVE  /\ Fresh(f) \in Frame
         /\ SaveFrame(f) \in Frame /\ SaveFrame(f).pc = "save" /\ SaveFrame(f).v = f.v
         /\ SaveFrame(f).to = f.to /\ SaveFrame(f).i = 0 /\ SaveFrame(f).rm = 0
         /\ SaveFrame(f).elrsr = read_idle_lr_reg
         /\ RestoreFrame(f) \in Frame /\ RestoreFrame(f).pc = "restore"
         /\ RestoreFrame(f).v = f.v /\ RestoreFrame(f).to = f.to
         /\ RestoreFrame(f).i = 0 /\ RestoreFrame(f).rm = 0
         /\ RestoreFrame(f).elrsr = read_idle_lr_reg
         /\ StopFrame(f) \in Frame /\ StopFrame(f).pc = "stopped" /\ StopFrame(f).v = f.v
         /\ StopFrame(f).i = 0 /\ StopFrame(f).rm = 0
<1>1. /\ Fresh(f) \in Frame /\ Fresh(f).v = f.v /\ Fresh(f).to = f.to
      /\ Fresh(f).i = 0 /\ Fresh(f).rm = 0
  BY FreshFrames DEF Fresh, NoFrame, Frame
<1>2. read_idle_lr_reg \in SUBSET Lrs
  BY DEF read_idle_lr_reg
<1>3. ASSUME NEW h \in Frame
      PROVE  /\ [h EXCEPT !.pc = "save", !.elrsr = read_idle_lr_reg] \in Frame
             /\ [h EXCEPT !.pc = "restore", !.elrsr = read_idle_lr_reg] \in Frame
             /\ [h EXCEPT !.pc = "stopped"] \in Frame
  BY <1>2 DEF Frame
<1> HIDE DEF Fresh
<1>4. /\ SaveFrame(f) \in Frame /\ RestoreFrame(f) \in Frame /\ StopFrame(f) \in Frame
  BY <1>1, <1>3 DEF SaveFrame, RestoreFrame, StopFrame
<1> QED BY <1>1, <1>4 DEF SaveFrame, RestoreFrame, StopFrame, Frame

(* The call's vCPU has n > 0 entries, and a sort of them starts.           *)
LEMMA SortFrame ==
  ASSUME NEW f \in Frame, NEW pc \in SortPcs, NEW n \in 1 .. GIC_LR_LIST_NUM
  PROVE  /\ SortFrom(f, pc, n) \in Frame
         /\ SortFrom(f, pc, n).v = f.v /\ SortFrom(f, pc, n).pc = pc
         /\ SortFrom(f, pc, n).to = f.to
         /\ SortFrom(f, pc, n).i = 0 /\ SortFrom(f, pc, n).rm = 0
         /\ SortFrom(f, pc, n).dad <= SortFrom(f, pc, n).last
         /\ SortFrom(f, pc, n).last < n
<1>1. /\ Fresh(f) \in Frame /\ Fresh(f).v = f.v /\ Fresh(f).to = f.to
      /\ Fresh(f).i = 0 /\ Fresh(f).rm = 0 /\ Fresh(f).dad = 0
  BY FreshFrames DEF Fresh, NoFrame, Frame
<1>2. n - 1 \in Cells /\ (n - 1) \div 2 \in Nat /\ 0 <= n - 1 /\ n - 1 < n
  BY LrConstants DEF Cells
<1> HIDE DEF Fresh
<1> DEFINE g == SortFrom(f, pc, n)
<1>3. g \in Frame
  BY <1>1, <1>2 DEF SortFrom, Frame, SortPcs
<1>4. /\ g.v = Fresh(f).v /\ g.pc = pc /\ g.to = Fresh(f).to /\ g.i = Fresh(f).i
      /\ g.rm = Fresh(f).rm /\ g.dad = Fresh(f).dad /\ g.last = n - 1
  BY <1>1 DEF SortFrom, Frame
<1> QED BY <1>1, <1>2, <1>3, <1>4

(* The step of context c, on the list of vCPU v alone.                     *)
LEMMA StepKeeps ==
  ASSUME IInv, NEW c \in Ctxts, NEW v \in Vcpus, Busy(c) => frame[c].v = v,
         NEW g \in Frame, Goto(c, g), g.pc # "idle" => g.v = v, g.rm <= g.i,
         list' \in [Vcpus -> [Cells -> Entry]], tail' \in [Vcpus -> Nat],
         \A w \in Vcpus : w # v => list'[w] = list[w] /\ tail'[w] = tail[w],
         lr' \in [Lrs -> Entry], curr' \in Threads, ready' \subseteq Vcpus,
         UNCHANGED <<enable, prio>>,
         spoilt \subseteq spoilt', spoilt' \subseteq Vcpus, mixed' \in BOOLEAN,
         cuts' \in 0 .. MAX_CUTS,
         v \notin spoilt' => /\ ListOK(list'[v], tail'[v], g)
                             /\ \A d \in Ctxts : d # c => ~ On(d, v)
  PROVE  IInv'
<1>1. /\ frame' \in [Ctxts -> Frame]
      /\ \A d \in Ctxts : frame'[d] = IF d = c THEN g ELSE frame[d]
  BY DEF Goto, IInv, Typed
<1>3. Typed'
  BY <1>1 DEF IInv, Typed
<1>4. Calls'
  BY <1>1 DEF IInv, Calls, Busy
<1>5. \A d \in Ctxts, w \in Vcpus : On(d, w)' <=> IF d = c THEN g.pc # "idle" /\ w = v ELSE On(d, w)
  BY <1>1 DEF On, Busy
<1>6. ASSUME NEW w \in Vcpus, w \notin spoilt'
      PROVE  Alone(w)' /\ Kept1(w)'
  <2>1. CASE w = v
    <3>1. \A d \in Ctxts : On(d, v)' => d = c
      BY <1>5, <1>6, <2>1
    <3>2. ListOK(list'[v], tail'[v], g) /\ frame'[c] = g
      BY <1>1, <1>6, <2>1
    <3>3. ASSUME \A d \in Ctxts : ~ On(d, v)'
          PROVE  ListOK(list'[v], tail'[v], NoFrame)
      <4>1. g.pc = "idle" /\ NoFrame.pc = "idle"
        BY <1>5, <3>3, FreshFrames
      <4> QED BY <3>2, <4>1 DEF ListOK, Half, InsertPcs, SortPcs
    <3> QED BY <2>1, <3>1, <3>2, <3>3 DEF Alone, Kept1
  <2>2. CASE w # v
    <3>1. \A d \in Ctxts : (On(d, w)' <=> On(d, w)) /\ (On(d, w) => d # c)
      BY <1>5, <2>2 DEF On
    <3>2. Alone(w) /\ Kept1(w)
      BY <1>6 DEF IInv, ListInv
    <3>3. Alone(w)'
      BY <3>1, <3>2 DEF Alone
    <3>4. list'[w] = list[w] /\ tail'[w] = tail[w] /\ \A d \in Ctxts : On(d, w) => frame'[d] = frame[d]
      BY <1>1, <2>2, <3>1
    <3> QED BY <3>1, <3>2, <3>3, <3>4 DEF Kept1
  <2> QED BY <2>1, <2>2
<1> QED BY <1>3, <1>4, <1>6 DEF IInv, ListInv

(* The call in progress in context c.                                      *)
LEMMA CallFacts ==
  ASSUME IInv, NEW c \in Ctxts, Busy(c)
  PROVE  /\ frame[c] \in Frame /\ frame[c].v \in Vcpus /\ frame[c].rm <= frame[c].i
         /\ list[frame[c].v] \in [Cells -> Entry] /\ tail[frame[c].v] \in Nat
         /\ frame[c].v \notin spoilt =>
              /\ ListOK(list[frame[c].v], tail[frame[c].v], frame[c])
              /\ \A d \in Ctxts : d # c => ~ On(d, frame[c].v)
BY DEF IInv, Typed, Calls, ListInv, Alone, Kept1, On

LEMMA CallKeeps ==
  ASSUME IInv, NEW c \in Ctxts, Busy(c), NEW v \in Vcpus, v = frame[c].v,
         NEW g \in Frame, Goto(c, g), g.pc # "idle" => g.v = v, g.rm <= g.i,
         list' \in [Vcpus -> [Cells -> Entry]], tail' \in [Vcpus -> Nat],
         \A w \in Vcpus : w # v => list'[w] = list[w] /\ tail'[w] = tail[w],
         lr' \in [Lrs -> Entry], curr' \in Threads, ready' \subseteq Vcpus,
         UNCHANGED <<enable, prio, ghosts>>,
         v \notin spoilt => ListOK(list'[v], tail'[v], g)
  PROVE  IInv'
<1>1. v \in Vcpus /\ (v \notin spoilt => \A d \in Ctxts : d # c => ~ On(d, v))
  BY CallFacts
<1>2. spoilt' = spoilt /\ mixed' \in BOOLEAN /\ cuts' \in 0 .. MAX_CUTS /\ spoilt' \subseteq Vcpus
  BY DEF ghosts, IInv, Typed
<1> QED BY <1>1, <1>2, StepKeeps

(* A step of a call that leaves the lists alone.                           *)
LEMMA QuietKeeps ==
  ASSUME IInv, NEW c \in Ctxts, Busy(c),
         NEW g \in Frame, Goto(c, g), g.pc # "idle" => g.v = frame[c].v, g.rm <= g.i,
         UNCHANGED <<list, tail>>,
         lr' \in [Lrs -> Entry], curr' \in Threads, ready' \subseteq Vcpus,
         UNCHANGED <<enable, prio, ghosts>>,
         frame[c].v \notin spoilt => ListOK(list[frame[c].v], tail[frame[c].v], g)
  PROVE  IInv'
<1>1. PICK v \in Vcpus : v = frame[c].v
  BY CallFacts
<1>2. /\ list' \in [Vcpus -> [Cells -> Entry]] /\ tail' \in [Vcpus -> Nat]
      /\ \A w \in Vcpus : w # v => list'[w] = list[w] /\ tail'[w] = tail[w]
  BY DEF IInv, Typed
<1>3. (g.pc # "idle" => g.v = v) /\ (v \notin spoilt => ListOK(list'[v], tail'[v], g))
  BY <1>1
<1> QED BY <1>1, <1>2, <1>3, CallKeeps

LEMMA Updated ==
  ASSUME Typed, NEW v \in Vcpus
  PROVE  /\ \A a \in [Cells -> Entry] : list' = [list EXCEPT ![v] = a] =>
              /\ list' \in [Vcpus -> [Cells -> Entry]] /\ list'[v] = a
              /\ \A w \in Vcpus : w # v => list'[w] = list[w]
         /\ \A n \in Nat : tail' = [tail EXCEPT ![v] = n] =>
              /\ tail' \in [Vcpus -> Nat] /\ tail'[v] = n
              /\ \A w \in Vcpus : w # v => tail'[w] = tail[w]
BY DEF Typed

LEMMA EntryTypes ==
  /\ ZERO \in Entry
  /\ Typed => \A v \in Vcpus, q \in Virqs : vgic_get_lr_from_virq(v, q) \in Entry
<1>1. ZERO \in Entry
  BY LrConstants DEF ZERO, Entry
<1>2. ASSUME Typed, NEW v \in Vcpus, NEW q \in Virqs
      PROVE  vgic_get_lr_from_virq(v, q) \in Entry
  <2>1. prio[v][q] \in Prios
    BY <1>2 DEF Typed
  <2> QED BY <1>1, <2>1 DEF vgic_get_lr_from_virq, Entry
<1> QED BY <1>1, <1>2

(* Writing the first free cell of v's list, with no insertion in progress. *)
LEMMA PlacedKeeps ==
  ASSUME Typed, NEW c \in Ctxts, NEW v \in Vcpus, NEW e \in Entry, Inserts(v, e),
         NEW f \in Frame, Placed(c, v, e, f)
  PROVE  /\ tail[v] \in Cells => /\ Goto(c, f)
                                 /\ list' = [list EXCEPT ![v] = [list[v] EXCEPT ![tail[v]] = Marked(v, e)]]
                                 /\ [list[v] EXCEPT ![tail[v]] = Marked(v, e)] \in [Cells -> Entry]
         /\ tail[v] \notin Cells => Goto(c, StopFrame(f)) /\ list' = list
         /\ tail[v] <= GIC_LR_LIST_NUM => tail[v] \in Cells
         /\ tail[v] \in Cells /\ Packed(list[v], tail[v]) /\ OneEach(list[v]) =>
              /\ Packed([list[v] EXCEPT ![tail[v]] = Marked(v, e)], tail[v] + 1)
              /\ OneEach([list[v] EXCEPT ![tail[v]] = Marked(v, e)])
              /\ tail[v] + 1 <= GIC_LR_LIST_NUM
<1>1. tail[v] \in Nat /\ (tail[v] <= GIC_LR_LIST_NUM => tail[v] \in Cells)
  BY LrConstants DEF Typed, Inserts, vgic_is_lr_list_full, Cells
<1>2. Marked(v, e) \in Entry /\ Marked(v, e).res0 /\ Marked(v, e).vint = e.vint
  BY DEF Marked, Entry
<1>3. list[v] \in [Cells -> Entry]
  BY DEF Typed
<1>4. \A j \in Cells : j < tail[v] => list[v][j].vint # e.vint
  BY DEF Inserts, vgic_is_lr_in_list
<1>5. CASE tail[v] \in Cells
  <2>1. Goto(c, f) /\ list' = [list EXCEPT ![v] = [list[v] EXCEPT ![tail[v]] = Marked(v, e)]]
    BY <1>5 DEF Placed, Written, Marked, Typed
  <2>2. [list[v] EXCEPT ![tail[v]] = Marked(v, e)] \in [Cells -> Entry]
    BY <1>2, <1>3, <1>5
  <2>3. tail[v] + 1 <= GIC_LR_LIST_NUM
    BY <1>5, LrConstants DEF Cells
  <2> QED BY <1>1, <1>2, <1>3, <1>4, <1>5, <2>1, <2>2, <2>3, InsertKeeps
<1>6. CASE tail[v] \notin Cells
  BY <1>1, <1>6 DEF Placed, Stop, StopFrame
<1> QED BY <1>5, <1>6

(* An injection for v begins: while v is not spoilt, no call works on its  *)
(* list.                                                                   *)
LEMMA InjectStep ==
  ASSUME IInv, NEW c \in Ctxts, ~ Busy(c), NEW v \in Vcpus, NEW q \in Virqs,
         vgic_inject(c, v, q), Quiet \/ cuts < MAX_CUTS
  PROVE  IInv'
<1> DEFINE e == vgic_get_lr_from_virq(v, q)
           f == [NoFrame EXCEPT !.v = v]
<1>0. Typed BY DEF IInv
<1>1. e \in Entry /\ f \in Frame /\ f.v = v
  BY <1>0, EntryTypes, FreshFrames
<1>2. /\ list[v] \in [Cells -> Entry] /\ tail[v] \in Nat /\ tail' \in [Vcpus -> Nat]
      /\ lr' \in [Lrs -> Entry] /\ curr' \in Threads /\ ready' \subseteq Vcpus
      /\ UNCHANGED <<enable, prio>> /\ tail' = tail
  BY DEF IInv, Typed, vgic_inject
<1>3. ASSUME Noted(v)
      PROVE  /\ spoilt \subseteq spoilt' /\ spoilt' \subseteq Vcpus /\ mixed' \in BOOLEAN
             /\ cuts' \in 0 .. MAX_CUTS
             /\ v \notin spoilt' =>
                  /\ \A d \in Ctxts : d # c => ~ On(d, v)
                  /\ Packed(list[v], tail[v]) /\ OneEach(list[v]) /\ tail[v] <= GIC_LR_LIST_NUM
  <2>1. /\ spoilt \subseteq spoilt' /\ spoilt' \subseteq Vcpus /\ mixed' \in BOOLEAN
    BY <1>3 DEF Noted, IInv, Typed
  <2>2. cuts' \in 0 .. MAX_CUTS
    BY <1>3, LrConstants DEF Noted, IInv, Typed, Quiet
  <2>3. ASSUME v \notin spoilt'
        PROVE  /\ \A d \in Ctxts : ~ On(d, v)
               /\ ListOK(list[v], tail[v], NoFrame)
    BY <1>3, <2>1, <2>3 DEF Noted, On, IInv, ListInv, Kept1
  <2>4. NoFrame.pc = "idle"
    BY FreshFrames
  <2> QED BY <1>2, <2>1, <2>2, <2>3, <2>4 DEF ListOK, Half, InsertPcs
<1>4. CASE Inserts(v, e) /\ Noted(v) /\ Placed(c, v, e, [f EXCEPT !.pc = "insert"])
  <2> DEFINE g == [f EXCEPT !.pc = "insert"]
             b == [list[v] EXCEPT ![tail[v]] = Marked(v, e)]
  <2>1. g \in Frame /\ g.pc = "insert" /\ g.v = v /\ g.rm = 0 /\ g.i = 0
    BY <1>1 DEF Frame, NoFrame
  <2> HIDE DEF e, f, g
  <2>2. Placed(c, v, e, g)
    BY <1>4 DEF g
  <2>3. CASE tail[v] \in Cells
    <3>0. Goto(c, g) /\ list' = [list EXCEPT ![v] = b]
      BY <1>0, <2>2, <2>3 DEF Placed, Written, Marked, Typed
    <3>1. b \in [Cells -> Entry]
      BY <1>0, <1>1, <1>4, <2>1, <2>2, <2>3, PlacedKeeps
    <3>2. v \notin spoilt' => ListOK(b, tail[v], g)
      <4>1. v \notin spoilt' => /\ Packed(b, tail[v] + 1) /\ OneEach(b)
                                /\ tail[v] + 1 <= GIC_LR_LIST_NUM
        BY <1>0, <1>1, <1>3, <1>4, <2>1, <2>2, <2>3, PlacedKeeps
      <4> QED BY <2>1, <4>1 DEF ListOK, Half, InsertPcs, SortPcs
    <3> HIDE DEF b
    <3>3. g.pc # "idle" => g.v = v
      BY <2>1
    <3>4. g.rm <= g.i
      BY <2>1
    <3>5. /\ list' \in [Vcpus -> [Cells -> Entry]] /\ list'[v] = b
          /\ \A w \in Vcpus : w # v => list'[w] = list[w]
      BY <1>0, <3>0, <3>1, Updated
    <3> QED BY <1>2, <1>3, <1>4, <2>1, <3>0, <3>2, <3>3, <3>4, <3>5, StepKeeps
  <2>4. CASE tail[v] \notin Cells
    <3>1. /\ Goto(c, StopFrame(g)) /\ list' = list
          /\ v \in spoilt'
      BY <1>0, <1>1, <1>3, <1>4, <2>1, <2>2, <2>4, PlacedKeeps
    <3>2. StopFrame(g) \in Frame /\ StopFrame(g).v = v /\ StopFrame(g).rm = 0 /\ StopFrame(g).i = 0
      BY <2>1, FrameFacts
    <3>3. StopFrame(g).rm <= StopFrame(g).i
      BY <3>2
    <3>4. list' \in [Vcpus -> [Cells -> Entry]]
      BY <1>0, <3>1 DEF Typed
    <3> QED BY <1>2, <1>3, <1>4, <3>1, <3>2, <3>3, <3>4, StepKeeps
  <2> QED BY <2>3, <2>4
<1>5. CASE Noted(v) /\ StartSave(c, f) /\ UNCHANGED list
  <2> HIDE DEF f
  <2> DEFINE g == SaveFrame(f)
  <2>1. g \in Frame /\ g.pc = "save" /\ g.v = v /\ g.rm = 0 /\ g.i = 0
    BY <1>1, FrameFacts
  <2>2. Goto(c, g)
    BY <1>5 DEF StartSave, SaveFrame
  <2> HIDE DEF g
  <2>3. v \notin spoilt' => ListOK(list[v], tail[v], g)
    BY <1>2, <1>3, <1>5, <2>1 DEF ListOK, Half, InsertPcs, SortPcs
  <2>4. g.rm <= g.i /\ (g.pc # "idle" => g.v = v)
    BY <2>1
  <2>5. list' \in [Vcpus -> [Cells -> Entry]]
    BY <1>0, <1>5 DEF Typed
  <2>7. /\ spoilt \subseteq spoilt' /\ spoilt' \subseteq Vcpus /\ mixed' \in BOOLEAN
        /\ cuts' \in 0 .. MAX_CUTS
        /\ v \notin spoilt' => ListOK(list'[v], tail'[v], g) /\ \A d \in Ctxts : d # c => ~ On(d, v)
    BY <1>2, <1>3, <1>5, <2>3
  <2>8. Busy(c) => frame[c].v = v
    OBVIOUS
  <2> QED BY <1>2, <1>5, <2>1, <2>2, <2>4, <2>5, <2>7, <2>8, StepKeeps
<1>6. CASE UNCHANGED <<list, frame, ghosts>>
  BY <1>2, <1>6 DEF IInv, Typed, Calls, ListInv, Alone, Kept1, On, Busy, ghosts, vgic_inject
<1> QED BY <1>4, <1>5, <1>6 DEF vgic_inject

LEMMA InsertStep ==
  ASSUME IInv, NEW c \in Ctxts, insert(c) \/ save_insert(c), UNCHANGED ghosts
  PROVE  IInv'
<1>0. PICK f : f = frame[c] OBVIOUS
<1>1. /\ f.pc \in InsertPcs /\ Busy(c) /\ tail' = [tail EXCEPT ![f.v] = @ + 1]
      /\ UNCHANGED <<list, lr, enable, prio, curr, ready>>
  BY <1>0 DEF insert, save_insert, At, InsertPcs, Busy
<1>2. /\ f \in Frame /\ f.v \in Vcpus /\ f.rm <= f.i
      /\ list[f.v] \in [Cells -> Entry] /\ tail[f.v] \in Nat
      /\ f.v \notin spoilt => ListOK(list[f.v], tail[f.v], f)
  BY <1>0, <1>1, CallFacts
<1>3. PICK g \in Frame : Goto(c, g) /\ g.v = f.v /\ g.pc = "save" /\ g.rm <= g.i
  <2>1. CASE insert(c)
    <3>1. /\ SaveFrame(f) \in Frame /\ SaveFrame(f).pc = "save" /\ SaveFrame(f).v = f.v
          /\ SaveFrame(f).i = 0 /\ SaveFrame(f).rm = 0
      BY <1>2, FrameFacts
    <3>2. Goto(c, SaveFrame(f))
      BY <1>0, <2>1 DEF insert, StartSave, SaveFrame
    <3>3. SaveFrame(f).rm <= SaveFrame(f).i
      BY <3>1
    <3> QED BY <3>1, <3>2, <3>3
  <2>2. CASE save_insert(c)
    <3> DEFINE g == [f EXCEPT !.pc = "save"]
    <3>1. g \in Frame /\ g.v = f.v /\ g.pc = "save" /\ g.rm = f.rm /\ g.i = f.i
      BY <1>2 DEF Frame
    <3>2. Goto(c, g)
      BY <1>0, <2>2 DEF save_insert
    <3> HIDE DEF g
    <3> QED BY <1>2, <3>1, <3>2
  <2> QED BY <2>1, <2>2
<1>4. PICK v \in Vcpus : v = f.v /\ v = frame[c].v
  BY <1>0, <1>2
<1>5. /\ list' \in [Vcpus -> [Cells -> Entry]] /\ tail' \in [Vcpus -> Nat]
      /\ \A w \in Vcpus : w # v => list'[w] = list[w] /\ tail'[w] = tail[w]
      /\ g.pc # "idle" => g.v = v
      /\ v \notin spoilt => ListOK(list'[v], tail'[v], g)
  <2>1. /\ list' \in [Vcpus -> [Cells -> Entry]] /\ tail' \in [Vcpus -> Nat]
        /\ \A w \in Vcpus : w # v => list'[w] = list[w] /\ tail'[w] = tail[w]
        /\ list'[v] = list[v] /\ tail'[v] = tail[v] + 1
    BY <1>1, <1>2, <1>4 DEF IInv, Typed
  <2>2. v \notin spoilt => ListOK(list[v], tail[v] + 1, g)
    BY <1>1, <1>2, <1>3, <1>4 DEF ListOK, Half, InsertPcs, SortPcs
  <2> QED BY <1>3, <1>4, <2>1, <2>2
<1>7. UNCHANGED <<enable, prio, ghosts>>
  BY <1>1
<1>6. lr' \in [Lrs -> Entry] /\ curr' \in Threads /\ ready' \subseteq Vcpus
  BY <1>1 DEF IInv, Typed
<1> QED BY <1>1, <1>3, <1>4, <1>5, <1>6, <1>7, CallKeeps

LEMMA SaveStep ==
  ASSUME IInv, NEW c \in Ctxts, vgic_context_save_lr(c), UNCHANGED ghosts
  PROVE  IInv'
<1>0. PICK f, i, v : f = frame[c] /\ i = f.i /\ v = f.v OBVIOUS
<1>1. /\ f.pc = "save" /\ Busy(c) /\ i < NR_LR /\ UNCHANGED <<tail, enable, prio, curr, ready>>
  BY <1>0 DEF vgic_context_save_lr, At, Busy
<1>2. /\ f \in Frame /\ v \in Vcpus /\ f.rm <= i /\ f.rm \in Nat
      /\ list[v] \in [Cells -> Entry] /\ tail[v] \in Nat
      /\ v \notin spoilt => ListOK(list[v], tail[v], f)
  BY <1>0, <1>1, CallFacts DEF Frame
<1>3. i \in Lrs /\ i \in Nat /\ i + 1 \in 0 .. NR_LR /\ lr[i] \in Entry
  BY <1>0, <1>1, <1>2, LrConstants DEF Frame, Lrs, IInv, Typed
<1>4. [lr EXCEPT ![i] = ZERO] \in [Lrs -> Entry]
  BY <1>3, EntryTypes DEF IInv, Typed
<1>5. /\ tail' \in [Vcpus -> Nat] /\ tail' = tail /\ curr' \in Threads /\ ready' \subseteq Vcpus
      /\ Typed
  BY <1>1 DEF IInv, Typed
<1>6. CASE Goto(c, [f EXCEPT !.i = i + 1]) /\ UNCHANGED list /\ lr' \in [Lrs -> Entry]
  <2> DEFINE g == [f EXCEPT !.i = i + 1]
  <2>1. g \in Frame /\ g.pc = "save" /\ g.v = v /\ g.rm = f.rm /\ g.i = i + 1
    BY <1>0, <1>1, <1>2, <1>3 DEF Frame
  <2>2. Goto(c, g)
    BY <1>6
  <2> HIDE DEF g
  <2>3. v \notin spoilt => ListOK(list[v], tail[v], g)
    BY <1>1, <1>2, <2>1 DEF ListOK, Half, InsertPcs, SortPcs
  <2>4. g.rm <= g.i
    BY <1>2, <1>3, <2>1
  <2> QED BY <1>0, <1>1, <1>5, <1>6, <2>1, <2>2, <2>3, <2>4, QuietKeeps
<1>7. CASE /\ Inserts(v, lr[i]) /\ lr' \in [Lrs -> Entry]
           /\ Placed(c, v, lr[i], [f EXCEPT !.pc = "save_insert", !.i = i + 1])
  <2> DEFINE g == [f EXCEPT !.pc = "save_insert", !.i = i + 1]
             b == [list[v] EXCEPT ![tail[v]] = Marked(v, lr[i])]
  <2>1. g \in Frame /\ g.pc = "save_insert" /\ g.v = v /\ g.rm = f.rm /\ g.i = i + 1
    BY <1>0, <1>1, <1>2, <1>3 DEF Frame
  <2>2. Placed(c, v, lr[i], g)
    BY <1>7
  <2> HIDE DEF g
  <2>3. v \notin spoilt => Packed(list[v], tail[v]) /\ OneEach(list[v]) /\ tail[v] <= GIC_LR_LIST_NUM
    BY <1>1, <1>2 DEF ListOK, Half, InsertPcs
  <2>4. CASE tail[v] \in Cells
    <3>0. Goto(c, g) /\ list' = [list EXCEPT ![v] = b]
      BY <1>5, <2>2, <2>4 DEF Placed, Written, Marked, Typed
    <3>1. b \in [Cells -> Entry]
      BY <1>2, <1>3, <1>5, <1>7, <2>1, <2>2, <2>4, PlacedKeeps
    <3>2. v \notin spoilt => ListOK(b, tail[v], g)
      <4>1. v \notin spoilt => /\ Packed(b, tail[v] + 1) /\ OneEach(b)
                               /\ tail[v] + 1 <= GIC_LR_LIST_NUM
        BY <1>2, <1>3, <1>5, <1>7, <2>1, <2>2, <2>3, <2>4, PlacedKeeps
      <4> QED BY <2>1, <4>1 DEF ListOK, Half, InsertPcs, SortPcs
    <3> HIDE DEF b
    <3>3. g.rm <= g.i
      BY <1>2, <1>3, <2>1
    <3>4. g.pc # "idle" => g.v = v
      BY <2>1
    <3>5. v = frame[c].v /\ UNCHANGED <<enable, prio, ghosts>>
      BY <1>0, <1>1
    <3>6. /\ list' \in [Vcpus -> [Cells -> Entry]] /\ list'[v] = b
          /\ \A w \in Vcpus : w # v => list'[w] = list[w]
      BY <1>2, <1>5, <3>0, <3>1, Updated
    <3> QED BY <1>1, <1>2, <1>5, <1>7, <2>1, <3>0, <3>2, <3>3, <3>4, <3>5, <3>6, CallKeeps
  <2>5. CASE tail[v] \notin Cells
    <3>1. Goto(c, StopFrame(g)) /\ UNCHANGED list /\ v \in spoilt
      BY <1>2, <1>3, <1>5, <1>7, <2>1, <2>2, <2>3, <2>5, PlacedKeeps
    <3>2. StopFrame(g) \in Frame /\ StopFrame(g).v = v /\ StopFrame(g).rm = 0 /\ StopFrame(g).i = 0
      BY <2>1, FrameFacts
    <3>3. StopFrame(g).rm <= StopFrame(g).i
      BY <3>2
    <3> QED BY <1>0, <1>1, <1>5, <1>7, <3>1, <3>2, <3>3, QuietKeeps
  <2> QED BY <2>4, <2>5
<1>8. lr \in [Lrs -> Entry]
  BY <1>5 DEF Typed
<1> QED BY <1>0, <1>4, <1>6, <1>7, <1>8 DEF vgic_context_save_lr

LEMMA SavedStep ==
  ASSUME IInv, NEW c \in Ctxts, saved(c), UNCHANGED ghosts
  PROVE  IInv'
<1>0. PICK f, n : f = frame[c] /\ n = tail[f.v] OBVIOUS
<1>1. /\ f.pc = "save" /\ Busy(c) /\ UNCHANGED <<list, tail, lr, enable, prio, ready>>
  BY <1>0 DEF saved, At, Busy
<1>2. /\ f \in Frame /\ f.v \in Vcpus /\ n \in Nat
      /\ f.v \notin spoilt => ListOK(list[f.v], n, f)
  BY <1>0, <1>1, CallFacts
<1>3. f.v \notin spoilt => n <= GIC_LR_LIST_NUM /\ Packed(list[f.v], n) /\ OneEach(list[f.v])
  BY <1>1, <1>2 DEF ListOK, Half, InsertPcs
<1>4. PICK g \in Frame : /\ Goto(c, g) /\ (g.pc # "idle" => g.v = f.v)
                         /\ g.pc \notin InsertPcs /\ (g.pc = "stopped" => f.v \in spoilt)
                         /\ g.rm <= g.i /\ curr' \in Threads
                         /\ (g.pc \in SortPcs => g.dad <= g.last /\ g.last < n)
  <2>1. CASE f.to # None /\ curr' = f.to /\ Goto(c, NoFrame)
    <3>1. f.to \in Threads
      BY <1>2, <2>1 DEF Frame
    <3>2. /\ NoFrame.rm <= NoFrame.i /\ NoFrame.pc = "idle"
          /\ NoFrame.pc \notin InsertPcs \cup SortPcs
      BY DEF NoFrame, InsertPcs, SortPcs
    <3> QED BY <2>1, <3>1, <3>2, FreshFrames
  <2>2. CASE n > 0 /\ StartSort(c, f, "sort", n) /\ UNCHANGED curr
    <3>1. CASE n <= GIC_LR_LIST_NUM /\ Goto(c, SortFrom(f, "sort", n))
      <4>1. n \in 1 .. GIC_LR_LIST_NUM /\ "sort" \in SortPcs
        BY <1>2, <2>2, <3>1, LrConstants DEF SortPcs
      <4> DEFINE g == SortFrom(f, "sort", n)
      <4>2. /\ g \in Frame /\ g.v = f.v /\ g.pc = "sort" /\ g.i = 0 /\ g.rm = 0
            /\ g.dad <= g.last /\ g.last < n
        BY <1>2, <4>1, SortFrame
      <4> HIDE DEF g
      <4>3. g.rm <= g.i /\ g.pc \notin InsertPcs /\ curr' \in Threads
        BY <2>2, <4>2 DEF InsertPcs, IInv, Typed
      <4> QED BY <3>1, <4>2, <4>3 DEF g
    <3>2. CASE n > GIC_LR_LIST_NUM /\ Stop(c, f)
      <4> DEFINE g == StopFrame(f)
      <4>1. g \in Frame /\ g.v = f.v /\ g.pc = "stopped" /\ g.i = 0 /\ g.rm = 0 /\ Goto(c, g)
        BY <1>2, <3>2, FrameFacts DEF Stop, StopFrame
      <4> HIDE DEF g
      <4>2. g.rm <= g.i /\ g.pc \notin InsertPcs \cup SortPcs /\ curr' \in Threads
        BY <2>2, <4>1 DEF InsertPcs, SortPcs, IInv, Typed
      <4>3. f.v \in spoilt
        BY <1>2, <1>3, <3>2, LrConstants
      <4> QED BY <4>1, <4>2, <4>3
    <3> QED BY <2>2, <3>1, <3>2 DEF StartSort
  <2>3. CASE StartRestore(c, f) /\ UNCHANGED curr
    <3> DEFINE g == RestoreFrame(f)
    <3>1. g \in Frame /\ g.v = f.v /\ g.pc = "restore" /\ g.i = 0 /\ g.rm = 0 /\ Goto(c, g)
      BY <1>2, <2>3, FrameFacts DEF StartRestore, RestoreFrame
    <3> HIDE DEF g
    <3>2. g.rm <= g.i /\ g.pc \notin InsertPcs \cup SortPcs /\ curr' \in Threads
      BY <2>3, <3>1 DEF InsertPcs, SortPcs, IInv, Typed
    <3> QED BY <3>1, <3>2
  <2> QED BY <1>0, <2>1, <2>2, <2>3 DEF saved
<1>5. f.v \notin spoilt => ListOK(list[f.v], n, g)
  BY <1>2, <1>3, <1>4 DEF ListOK, Half
<1>6. lr' \in [Lrs -> Entry] /\ ready' \subseteq Vcpus
  BY <1>1 DEF IInv, Typed
<1> QED BY <1>0, <1>1, <1>4, <1>5, <1>6, QuietKeeps

(* A son that moves up is within the part being sorted.                    *)
LEMMA SonInRange ==
  ASSUME NEW a, NEW dad \in Cells, NEW last \in Cells, SinksInto(a, dad, last)
  PROVE  LargerSon(a, dad, last) \in Cells /\ LargerSon(a, dad, last) <= last
<1>1. 2 * dad + 1 <= last /\ 2 * dad + 1 \in Cells
  BY LrConstants DEF SinksInto, Cells
<1>2. CASE 2 * dad + 1 < last /\ a[2 * dad + 1].prio < a[2 * dad + 1 + 1].prio
  <2>1. LargerSon(a, dad, last) = 2 * dad + 1 + 1
    BY <1>2 DEF LargerSon
  <2> QED BY <1>1, <1>2, <2>1, LrConstants DEF Cells
<1>3. CASE ~ (2 * dad + 1 < last /\ a[2 * dad + 1].prio < a[2 * dad + 1 + 1].prio)
  <2>1. LargerSon(a, dad, last) = 2 * dad + 1
    BY <1>3 DEF LargerSon
  <2> QED BY <1>1, <2>1
<1> QED BY <1>2, <1>3

LEMMA SiftStep ==
  ASSUME IInv, NEW c \in Ctxts, NEW pc \in SortPcs, sift(c, pc), UNCHANGED ghosts
  PROVE  IInv'
<1>0. PICK f, v, a : f = frame[c] /\ v = f.v /\ a = list[v] OBVIOUS
<1>1. f.pc = pc /\ Busy(c) /\ UNCHANGED <<tail, lr, enable, prio, curr, ready>>
  BY <1>0 DEF sift, At, Busy, SortPcs
<1>2. /\ f \in Frame /\ v \in Vcpus /\ f.rm <= f.i
      /\ a \in [Cells -> Entry] /\ tail[v] \in Nat
      /\ v \notin spoilt => ListOK(a, tail[v], f)
  BY <1>0, <1>1, CallFacts
<1>3. f.dad \in Cells /\ f.last \in Cells /\ f.pass \in Nat
  BY <1>2 DEF Frame
<1>4. v \notin spoilt => /\ tail[v] <= GIC_LR_LIST_NUM /\ Packed(a, tail[v]) /\ OneEach(a)
                         /\ f.dad <= f.last /\ f.last < tail[v]
  BY <1>1, <1>2 DEF ListOK, Half, InsertPcs, SortPcs
<1>5. /\ lr' \in [Lrs -> Entry] /\ curr' \in Threads /\ ready' \subseteq Vcpus
      /\ tail' = tail /\ tail' \in [Vcpus -> Nat] /\ UNCHANGED <<enable, prio, ghosts>> /\ Typed
  BY <1>1 DEF IInv, Typed
<1>6. ASSUME NEW s \in Cells, s <= f.last, list' = [list EXCEPT ![v] = Swapped(a, f.dad, s)],
             Goto(c, [f EXCEPT !.dad = s])
      PROVE  IInv'
  <2> DEFINE g == [f EXCEPT !.dad = s]
             b == Swapped(a, f.dad, s)
  <2>1. b \in [Cells -> Entry]
    BY <1>2, <1>3, <1>6, ListTypes
  <2>2. v \notin spoilt => Packed(b, tail[v]) /\ OneEach(b)
    <3>1. v \notin spoilt => f.dad < tail[v] /\ s < tail[v]
      BY <1>2, <1>3, <1>4, <1>6 DEF Cells
    <3> QED BY <1>2, <1>3, <1>4, <1>6, <3>1, SwapKeeps
  <2>3. g \in Frame /\ g.v = v /\ g.pc = pc /\ g.dad = s /\ g.last = f.last /\ g.rm = f.rm /\ g.i = f.i
    BY <1>0, <1>1, <1>2, <1>6 DEF Frame
  <2>4. Goto(c, g) /\ list' = [list EXCEPT ![v] = b]
    BY <1>6
  <2> HIDE DEF g, b
  <2>5. /\ list' \in [Vcpus -> [Cells -> Entry]] /\ list'[v] = b
        /\ \A w \in Vcpus : w # v => list'[w] = list[w]
    BY <1>2, <1>5, <2>1, <2>4, Updated
  <2>6. v \notin spoilt => ListOK(list'[v], tail'[v], g)
    BY <1>2, <1>4, <1>5, <1>6, <2>2, <2>3, <2>5 DEF ListOK, Half, InsertPcs, SortPcs
  <2>7. g.rm <= g.i /\ (g.pc # "idle" => g.v = v) /\ v = frame[c].v
    BY <1>0, <1>2, <2>3
  <2> QED BY <1>1, <1>2, <1>5, <2>3, <2>4, <2>5, <2>6, <2>7, CallKeeps
<1>7. CASE /\ f.pass > 0
           /\ Goto(c, [f EXCEPT !.pass = @ - 1, !.dad = 0]) /\ UNCHANGED list
  <2> DEFINE g == [f EXCEPT !.pass = @ - 1, !.dad = 0]
  <2>1. f.pass - 1 \in Nat /\ 0 \in Cells /\ 0 <= f.last
    BY <1>3, <1>7, LrConstants DEF Cells
  <2>2. g \in Frame /\ g.v = v /\ g.pc = pc /\ g.dad = 0 /\ g.last = f.last /\ g.rm = f.rm /\ g.i = f.i
    BY <1>0, <1>1, <1>2, <2>1 DEF Frame
  <2>3. Goto(c, g)
    BY <1>7
  <2> HIDE DEF g
  <2>4. v \notin spoilt => ListOK(a, tail[v], g)
    BY <1>2, <1>4, <2>1, <2>2 DEF ListOK, Half, InsertPcs, SortPcs
  <2>5. g.rm <= g.i /\ (g.pc # "idle" => g.v = frame[c].v)
    BY <1>0, <1>2, <2>2
  <2> QED BY <1>0, <1>1, <1>5, <1>7, <2>2, <2>3, <2>4, <2>5, QuietKeeps
<1>8. CASE /\ SinksInto(a, f.dad, f.last)
           /\ list' = [list EXCEPT ![v] = Swapped(a, f.dad, LargerSon(a, f.dad, f.last))]
           /\ Goto(c, [f EXCEPT !.dad = LargerSon(a, f.dad, f.last)])
  BY <1>3, <1>6, <1>8, SonInRange
<1> QED BY <1>0, <1>7, <1>8 DEF sift

LEMMA SortedStep ==
  ASSUME IInv, NEW c \in Ctxts, sorted(c), UNCHANGED ghosts
  PROVE  IInv'
<1>0. PICK f, g : f = frame[c] /\ g = RestoreFrame(f) OBVIOUS
<1>1. /\ f.pc = "sort" /\ Busy(c) /\ Goto(c, g)
      /\ UNCHANGED <<list, tail, lr, enable, prio, curr, ready>>
  BY <1>0 DEF sorted, SortEnds, At, StartRestore, RestoreFrame, Busy
<1>2. /\ f \in Frame /\ f.v \in Vcpus
      /\ f.v \notin spoilt => ListOK(list[f.v], tail[f.v], f)
  BY <1>0, <1>1, CallFacts
<1>3. g \in Frame /\ g.pc = "restore" /\ g.v = f.v /\ g.i = 0 /\ g.rm = 0
  BY <1>0, <1>2, FrameFacts
<1>4. f.v \notin spoilt => ListOK(list[f.v], tail[f.v], g)
  BY <1>1, <1>2, <1>3 DEF ListOK, Half, InsertPcs, SortPcs
<1>5. lr' \in [Lrs -> Entry] /\ curr' \in Threads /\ ready' \subseteq Vcpus
  BY <1>1 DEF IInv, Typed
<1>6. g.rm <= g.i
  BY <1>3
<1> QED BY <1>0, <1>1, <1>3, <1>4, <1>5, <1>6, QuietKeeps

LEMMA RestoreStep ==
  ASSUME IInv, NEW c \in Ctxts, vgic_context_restore_lr(c), UNCHANGED ghosts
  PROVE  IInv'
<1>0. PICK f, v, i, a, n : f = frame[c] /\ v = f.v /\ i = f.i /\ a = list[v] /\ n = tail[v]
  OBVIOUS
<1>1. f.pc = "restore" /\ Busy(c) /\ i < NR_LR /\ UNCHANGED <<enable, prio, curr, ready>>
  BY <1>0 DEF vgic_context_restore_lr, At, Busy
<1>2. /\ f \in Frame /\ v \in Vcpus /\ f.rm <= i
      /\ a \in [Cells -> Entry] /\ n \in Nat
      /\ v \notin spoilt => ListOK(a, n, f)
  BY <1>0, <1>1, CallFacts
<1>3. /\ i \in Lrs /\ i \in Nat /\ i + 1 \in 0 .. NR_LR /\ NR_LR \in 0 .. NR_LR
      /\ f.rm \in Cells /\ f.rm \in Nat /\ f.rm + 1 \in 0 .. NR_LR
  BY <1>0, <1>1, <1>2, LrConstants DEF Frame, Lrs, Cells
<1>4. v \notin spoilt => n <= GIC_LR_LIST_NUM /\ Packed(a, n) /\ OneEach(a)
  BY <1>1, <1>2 DEF ListOK, Half, InsertPcs
<1>5. curr' \in Threads /\ ready' \subseteq Vcpus /\ lr \in [Lrs -> Entry] /\ Typed
  BY <1>1 DEF IInv, Typed
<1>6. ASSUME NEW k \in 0 .. NR_LR, k > i, Goto(c, [f EXCEPT !.i = k]), UNCHANGED <<list, tail, lr>>
      PROVE  IInv'
  <2> DEFINE g == [f EXCEPT !.i = k]
  <2>1. g \in Frame /\ g.pc = "restore" /\ g.v = v /\ g.rm = f.rm /\ g.i = k
    BY <1>0, <1>1, <1>2 DEF Frame
  <2>2. Goto(c, g)
    BY <1>6
  <2> HIDE DEF g
  <2>3. v \notin spoilt => ListOK(a, n, g)
    BY <1>2, <1>4, <2>1 DEF ListOK, Half, SortPcs, InsertPcs
  <2>4. g.rm <= g.i
    BY <1>2, <1>3, <1>6, <2>1
  <2> QED BY <1>0, <1>1, <1>5, <1>6, <2>1, <2>2, <2>3, <2>4, QuietKeeps
<1>7. CASE /\ f.rm < n /\ n <= GIC_LR_LIST_NUM
           /\ lr' = [lr EXCEPT ![i] = a[f.rm]]
           /\ list' = [list EXCEPT ![v] = Removed(a, f.rm, n)]
           /\ tail' = [tail EXCEPT ![v] = @ - 1]
           /\ Goto(c, [f EXCEPT !.i = i + 1, !.rm = @ + 1])
  <2> DEFINE g == [f EXCEPT !.i = i + 1, !.rm = @ + 1]
             b == Removed(a, f.rm, n)
  <2>1. g \in Frame /\ g.pc = "restore" /\ g.v = v /\ g.rm = f.rm + 1 /\ g.i = i + 1
    BY <1>0, <1>1, <1>2, <1>3 DEF Frame
  <2>2. n \in 1 .. GIC_LR_LIST_NUM /\ n - 1 \in Nat /\ n - 1 <= GIC_LR_LIST_NUM
    BY <1>2, <1>3, <1>7, LrConstants
  <2>3. b \in [Cells -> Entry]
    BY <1>2, <1>3, <2>2, ListTypes
  <2>4. v \notin spoilt => Packed(b, n - 1) /\ OneEach(b)
    BY <1>2, <1>3, <1>4, <1>7, <2>2, RemoveKeeps
  <2>5. /\ Goto(c, g) /\ list' = [list EXCEPT ![v] = b]
        /\ tail' = [tail EXCEPT ![v] = n - 1]
    BY <1>0, <1>7 DEF IInv, Typed
  <2>6. lr' \in [Lrs -> Entry]
    BY <1>2, <1>3, <1>5, <1>7
  <2> HIDE DEF g, b
  <2>7. /\ list' \in [Vcpus -> [Cells -> Entry]] /\ list'[v] = b
        /\ tail' \in [Vcpus -> Nat] /\ tail'[v] = n - 1
        /\ \A w \in Vcpus : w # v => list'[w] = list[w] /\ tail'[w] = tail[w]
    BY <1>2, <1>5, <2>2, <2>3, <2>5, Updated
  <2>8. v \notin spoilt => ListOK(list'[v], tail'[v], g)
    BY <2>1, <2>2, <2>4, <2>7 DEF ListOK, Half, SortPcs, InsertPcs
  <2>9. g.rm <= g.i /\ (g.pc # "idle" => g.v = v) /\ v = frame[c].v /\ UNCHANGED <<enable, prio, ghosts>>
    BY <1>0, <1>1, <1>2, <1>3, <2>1
  <2> QED BY <1>1, <1>2, <1>5, <2>1, <2>5, <2>6, <2>7, <2>8, <2>9, CallKeeps
<1>8. CASE /\ a[f.rm].res0 /\ ~ (f.rm < n /\ n <= GIC_LR_LIST_NUM)
           /\ Stop(c, f) /\ UNCHANGED <<list, tail, lr>>
  <2>1. v \in spoilt
    BY <1>2, <1>3, <1>4, <1>8 DEF Packed
  <2> DEFINE g == StopFrame(f)
  <2>2. g \in Frame /\ g.v = v /\ g.i = 0 /\ g.rm = 0 /\ Goto(c, g)
    BY <1>0, <1>2, <1>8, FrameFacts DEF Stop, StopFrame
  <2> HIDE DEF g
  <2>3. g.rm <= g.i
    BY <2>2
  <2> QED BY <1>0, <1>1, <1>5, <1>8, <2>1, <2>2, <2>3, QuietKeeps
<1>9. CASE Goto(c, [f EXCEPT !.i = i + 1]) /\ UNCHANGED <<list, tail, lr>>
  BY <1>3, <1>6, <1>9
<1>10. CASE Goto(c, [f EXCEPT !.i = NR_LR]) /\ UNCHANGED <<list, tail, lr>>
  BY <1>1, <1>3, <1>6, <1>10
<1> QED BY <1>0, <1>7, <1>8, <1>9, <1>10 DEF vgic_context_restore_lr

(* The end of a refill or of the sort after it: the call returns, goes on  *)
(* to switch to its vCPU, or a sort of what is left starts.                *)
LEMMA RestoredStep ==
  ASSUME IInv, NEW c \in Ctxts, restored(c) \/ resorted(c), UNCHANGED ghosts
  PROVE  IInv'
<1>0. PICK f, n : f = frame[c] /\ n = tail[f.v] OBVIOUS
<1>1. f.pc \in {"restore", "resort"} /\ Busy(c) /\ UNCHANGED <<list, tail, lr, enable, prio>>
  BY <1>0 DEF restored, resorted, SortEnds, At, Busy
<1>2. /\ f \in Frame /\ f.v \in Vcpus /\ n \in Nat
      /\ f.v \notin spoilt => ListOK(list[f.v], n, f)
  BY <1>0, <1>1, CallFacts
<1>3. f.v \notin spoilt => n <= GIC_LR_LIST_NUM /\ Packed(list[f.v], n) /\ OneEach(list[f.v])
  BY <1>1, <1>2 DEF ListOK, Half, InsertPcs
<1>4. PICK g \in Frame : /\ Goto(c, g) /\ (g.pc # "idle" => g.v = f.v)
                         /\ g.pc \notin InsertPcs /\ (g.pc = "stopped" => f.v \in spoilt)
                         /\ g.rm <= g.i /\ curr' \in Threads /\ ready' \subseteq Vcpus
                         /\ (g.pc \in SortPcs => g.dad <= g.last /\ g.last < n)
  <2>1. CASE Goto(c, NoFrame) /\ curr' \in Threads /\ ready' \subseteq Vcpus
    <3>1. /\ NoFrame.rm <= NoFrame.i /\ NoFrame.pc = "idle"
          /\ NoFrame.pc \notin InsertPcs \cup SortPcs
      BY DEF NoFrame, InsertPcs, SortPcs
    <3> QED BY <2>1, <3>1, FreshFrames
  <2>2. CASE n > 0 /\ StartSort(c, f, "resort", n) /\ UNCHANGED <<curr, ready>>
    <3>0. curr' \in Threads /\ ready' \subseteq Vcpus
      BY <2>2 DEF IInv, Typed
    <3>1. CASE n <= GIC_LR_LIST_NUM /\ Goto(c, SortFrom(f, "resort", n))
      <4>1. n \in 1 .. GIC_LR_LIST_NUM /\ "resort" \in SortPcs
        BY <1>2, <2>2, <3>1, LrConstants DEF SortPcs
      <4> DEFINE g == SortFrom(f, "resort", n)
      <4>2. /\ g \in Frame /\ g.v = f.v /\ g.pc = "resort" /\ g.i = 0 /\ g.rm = 0
            /\ g.dad <= g.last /\ g.last < n
        BY <1>2, <4>1, SortFrame
      <4> HIDE DEF g
      <4>3. g.rm <= g.i /\ g.pc \notin InsertPcs
        BY <4>2 DEF InsertPcs
      <4> QED BY <3>0, <3>1, <4>2, <4>3 DEF g
    <3>2. CASE n > GIC_LR_LIST_NUM /\ Stop(c, f)
      <4> DEFINE g == StopFrame(f)
      <4>1. g \in Frame /\ g.v = f.v /\ g.pc = "stopped" /\ g.i = 0 /\ g.rm = 0 /\ Goto(c, g)
        BY <1>2, <3>2, FrameFacts DEF Stop, StopFrame
      <4> HIDE DEF g
      <4>2. g.rm <= g.i /\ g.pc \notin InsertPcs \cup SortPcs
        BY <4>1 DEF InsertPcs, SortPcs
      <4>3. f.v \in spoilt
        BY <1>2, <1>3, <3>2, LrConstants
      <4> QED BY <3>0, <4>1, <4>2, <4>3
    <3> QED BY <2>2, <3>1, <3>2 DEF StartSort
  <2>3. CASE /\ ready' = ready \cup {f.v} /\ UNCHANGED curr
             /\ StartRestore(c, [f EXCEPT !.to = f.v])
    <3> DEFINE h == [f EXCEPT !.to = f.v]
               g == RestoreFrame(h)
    <3>1. h \in Frame /\ h.v = f.v
      BY <1>2 DEF Frame, Threads
    <3> HIDE DEF h
    <3>2. g \in Frame /\ g.v = f.v /\ g.pc = "restore" /\ g.i = 0 /\ g.rm = 0
      BY <3>1, FrameFacts
    <3>3. Goto(c, g)
      BY <2>3 DEF StartRestore, RestoreFrame, h
    <3> HIDE DEF g
    <3>4. /\ g.rm <= g.i /\ g.pc \notin InsertPcs \cup SortPcs /\ g.pc # "stopped"
          /\ curr' \in Threads /\ ready' \subseteq Vcpus
      BY <1>2, <2>3, <3>2 DEF InsertPcs, SortPcs, IInv, Typed
    <3> QED BY <3>2, <3>3, <3>4
  <2>4. f.to \in Threads \cup {None} /\ curr \in Threads /\ ready \subseteq Vcpus
    BY <1>2 DEF Frame, IInv, Typed
  <2>5. CASE Finish(c)
    BY <1>0, <1>2, <2>1, <2>3, <2>4, <2>5 DEF Finish
  <2> QED BY <1>0, <2>2, <2>5 DEF restored, resorted
<1>5. f.v \notin spoilt => ListOK(list[f.v], n, g)
  BY <1>2, <1>3, <1>4 DEF ListOK, Half
<1>6. lr' \in [Lrs -> Entry]
  BY <1>1 DEF IInv, Typed
<1> QED BY <1>0, <1>1, <1>4, <1>5, <1>6, QuietKeeps

LEMMA CallStep ==
  ASSUME IInv, NEW c \in Ctxts, Call(c)
  PROVE  IInv'
BY InsertStep, SaveStep, SavedStep, SiftStep, SortedStep, RestoreStep, RestoredStep
   DEF Call, SortPcs

(* The histories, variables of the guest and of the scheduler change; the  *)
(* lists and the calls do not.                                             *)
LEMMA GuestStep ==
  ASSUME IInv, UNCHANGED <<list, tail, frame, spoilt, cuts>>, mixed' \in BOOLEAN,
         lr' \in [Lrs -> Entry], enable' \in [Vcpus -> SUBSET Virqs],
         prio' \in [Vcpus -> [Virqs -> Prios]], curr' \in Threads, ready' \subseteq Vcpus
  PROVE  IInv'
<1>1. Typed' /\ Calls'
  BY DEF IInv, Typed, Calls, Busy
<1>2. ASSUME NEW v \in Vcpus \ spoilt
      PROVE  Alone(v)' /\ Kept1(v)'
  BY <1>2 DEF IInv, ListInv, Alone, Kept1, On, Busy
<1> QED BY <1>1, <1>2 DEF IInv, ListInv

(* A switch begins with no call in progress.                               *)
LEMMA SwitchStep ==
  ASSUME IInv, Quiet, NEW t \in Threads, switch_hook(t),
         UNCHANGED <<list, tail, lr, enable, prio>>, ready' \subseteq Vcpus
  PROVE  IInv'
<1>1. /\ "irq" \in Ctxts /\ \A d \in Ctxts, w \in Vcpus : ~ On(d, w) /\ ~ Busy(d)
      /\ lr' \in [Lrs -> Entry] /\ list' \in [Vcpus -> [Cells -> Entry]] /\ tail' \in [Vcpus -> Nat]
      /\ spoilt' = spoilt /\ cuts' = cuts /\ mixed' \in BOOLEAN /\ spoilt' \subseteq Vcpus
      /\ cuts' \in 0 .. MAX_CUTS /\ Typed
  BY DEF Quiet, Ctxts, On, IInv, Typed, switch_hook
<1>2. ASSUME NEW v \in Vcpus, NEW g \in Frame, Goto("irq", g), g.v = v, g.rm = 0, g.i = 0,
             g.pc \in {"save", "restore"}, UNCHANGED curr
      PROVE  IInv'
  <2>1. v \notin spoilt => ListOK(list[v], tail[v], NoFrame)
    BY <1>1 DEF IInv, ListInv, Kept1
  <2>2. v \notin spoilt => ListOK(list[v], tail[v], g)
    BY <1>2, <2>1 DEF ListOK, Half, InsertPcs, SortPcs, NoFrame
  <2>3. /\ g.rm <= g.i /\ curr' \in Threads
        /\ v \notin spoilt' => ListOK(list'[v], tail'[v], g) /\ \A d \in Ctxts : d # "irq" => ~ On(d, v)
    BY <1>1, <1>2, <2>2 DEF Typed
  <2>4. \A w \in Vcpus : w # v => list'[w] = list[w] /\ tail'[w] = tail[w]
    OBVIOUS
  <2> QED BY <1>1, <1>2, <2>3, <2>4, StepKeeps
<1>3. CASE /\ curr \in Vcpus
           /\ StartSave("irq", [NoFrame EXCEPT !.v = curr, !.to = t]) /\ UNCHANGED curr
  <2> DEFINE h == [NoFrame EXCEPT !.v = curr, !.to = t]
             g == SaveFrame(h)
  <2>1. h \in Frame /\ h.v = curr
    BY <1>3, FreshFrames
  <2>2. Goto("irq", g)
    BY <1>3 DEF StartSave, SaveFrame
  <2> HIDE DEF h
  <2>3. g \in Frame /\ g.v = curr /\ g.pc = "save" /\ g.i = 0 /\ g.rm = 0
    BY <2>1, FrameFacts
  <2> HIDE DEF g
  <2> QED BY <1>2, <1>3, <2>2, <2>3
<1>4. CASE /\ t \in Vcpus
           /\ StartRestore("irq", [NoFrame EXCEPT !.v = t, !.to = t]) /\ UNCHANGED curr
  <2> DEFINE h == [NoFrame EXCEPT !.v = t, !.to = t]
             g == RestoreFrame(h)
  <2>1. h \in Frame /\ h.v = t
    BY <1>4, FreshFrames
  <2>2. Goto("irq", g)
    BY <1>4 DEF StartRestore, RestoreFrame
  <2> HIDE DEF h
  <2>3. g \in Frame /\ g.v = t /\ g.pc = "restore" /\ g.i = 0 /\ g.rm = 0
    BY <2>1, FrameFacts
  <2> HIDE DEF g
  <2> QED BY <1>2, <1>4, <2>2, <2>3
<1>5. CASE curr' = t /\ UNCHANGED frame
  <2>1. UNCHANGED <<list, tail, frame, spoilt, cuts>>
    BY <1>1, <1>5
  <2>2. enable' \in [Vcpus -> SUBSET Virqs] /\ prio' \in [Vcpus -> [Virqs -> Prios]]
    BY <1>1 DEF Typed
  <2> QED BY <1>1, <1>5, <2>1, <2>2, GuestStep
<1> QED BY <1>3, <1>4, <1>5 DEF switch_hook

LEMMA NextStep ==
  ASSUME IInv, Next
  PROVE  IInv'
<1>0. Typed BY DEF IInv
<1>1. CASE \E c \in Ctxts : Call(c)
  BY <1>1, CallStep
<1>2. ASSUME NEW v \in Vcpus, NEW q \in Virqs, rt_hw_trap_irq(v, q)
      PROVE  IInv'
  <2>1. "irq" \in Ctxts /\ ~ Busy("irq") /\ (Quiet \/ cuts < MAX_CUTS)
    BY <1>2 DEF rt_hw_trap_irq, Ctxts, Quiet
  <2> QED BY <1>2, <2>1, InjectStep DEF rt_hw_trap_irq
<1>3. ASSUME NEW v \in Vcpus, ptimer_timeout_function(v)
      PROVE  IInv'
  <2>1. "thread" \in Ctxts /\ PtimerVirq \in Virqs /\ Quiet /\ ~ Busy("thread")
    BY <1>3 DEF ptimer_timeout_function, Quiet, Ctxts, Virqs
  <2> QED BY <1>3, <2>1, InjectStep DEF ptimer_timeout_function
<1>4. ASSUME NEW v \in Vcpus, vcpu_go(v)
      PROVE  IInv'
  BY <1>0, <1>4, GuestStep DEF vcpu_go, Typed, ghosts
<1>5. CASE host_wakes
  BY <1>0, <1>5, SwitchStep DEF host_wakes, Threads, Typed
<1>6. CASE host_waits
  BY <1>0, <1>6, SwitchStep DEF host_waits, NextOf, Threads, Typed
<1>7. CASE tick
  BY <1>0, <1>7, SwitchStep DEF tick, Threads, Typed
<1>8. CASE vcpu_suspend
  BY <1>0, <1>8, SwitchStep DEF vcpu_suspend, NextOf, Threads, Typed
<1>9. ASSUME NEW q \in Virqs, guest_enables(q) \/ guest_disables(q)
      PROVE  IInv'
  <2>1. enable' \in [Vcpus -> SUBSET Virqs]
    <3>1. enable[curr] \cup {q} \in SUBSET Virqs /\ enable[curr] \ {q} \in SUBSET Virqs
      BY <1>0, <1>9 DEF guest_enables, guest_disables, Guest, Typed
    <3> QED BY <1>0, <1>9, <3>1 DEF guest_enables, guest_disables, Typed
  <2> QED BY <1>0, <1>9, <2>1, GuestStep DEF guest_enables, guest_disables, Typed, ghosts
<1>10. ASSUME NEW q \in Virqs, NEW p \in Prios, guest_sets_prio(q, p)
       PROVE  IInv'
  <2>1. prio' \in [Vcpus -> [Virqs -> Prios]]
    BY <1>0, <1>10 DEF guest_sets_prio, Guest, Typed
  <2> QED BY <1>0, <1>10, <2>1, GuestStep DEF guest_sets_prio, Typed, ghosts
<1>11. ASSUME NEW i \in Lrs, guest_acks(i) \/ guest_eois(i)
       PROVE  IInv'
  <2>1. CASE guest_acks(i)
    <3>1. lr' = [lr EXCEPT ![i] = [lr[i] EXCEPT !.stat = "active"]] /\ lr[i] \in Entry
      BY <1>0, <2>1 DEF guest_acks, Typed
    <3>2. [lr[i] EXCEPT !.stat = "active"] \in Entry
      BY <3>1 DEF Entry
    <3>3. lr' \in [Lrs -> Entry]
      BY <1>0, <3>1, <3>2 DEF Typed
    <3> QED BY <1>0, <2>1, <3>3, GuestStep DEF guest_acks, Typed, ghosts
  <2>2. CASE guest_eois(i)
    <3>1. lr' \in [Lrs -> Entry]
      BY <1>0, <2>2, EntryTypes DEF guest_eois, Typed
    <3> QED BY <1>0, <2>2, <3>1, GuestStep DEF guest_eois, Typed, ghosts
  <2> QED BY <1>11, <2>1, <2>2
<1> QED BY <1>1, <1>2, <1>3, <1>4, <1>5, <1>6, <1>7, <1>8, <1>9, <1>10, <1>11 DEF Next

LEMMA InitList ==
  ASSUME Init
  PROVE  IInv
<1>1. ZERO \in Entry /\ ~ ZERO.res0
  BY EntryTypes DEF ZERO
<1>2. tail \in [Vcpus -> Nat] /\ \A v \in Vcpus \ spoilt : tail[v] = 0
  BY LrConstants DEF Init
<1>3. \A c \in Ctxts : frame[c] = NoFrame /\ ~ Busy(c)
  BY DEF Init, NoFrame, Busy
<1>4. Typed
  <2>1. /\ list \in [Vcpus -> [Cells -> Entry]] /\ lr \in [Lrs -> Entry]
        /\ frame \in [Ctxts -> Frame]
    BY <1>1, FreshFrames DEF Init
  <2>2. /\ enable \in [Vcpus -> SUBSET Virqs] /\ prio \in [Vcpus -> [Virqs -> Prios]]
        /\ curr \in Threads /\ ready \subseteq Vcpus
    BY LrConstants DEF Init, Threads
  <2>3. spoilt \subseteq Vcpus /\ mixed \in BOOLEAN
    BY DEF Init
  <2>4. cuts \in 0 .. MAX_CUTS
    BY LrConstants DEF Init
  <2> QED BY <1>2, <2>1, <2>2, <2>3, <2>4 DEF Typed
<1>5. Calls
  <2>1. NoFrame.rm <= NoFrame.i
    BY DEF NoFrame
  <2> QED BY <1>3, <2>1 DEF Calls
<1>6. ASSUME NEW v \in Vcpus \ spoilt
      PROVE  Alone(v) /\ Kept1(v)
  <2>1. \A c \in Ctxts : ~ On(c, v)
    BY <1>3 DEF On
  <2>2. \A j \in Cells : list[v][j] = ZERO /\ ~ (j < tail[v] + 0)
    BY <1>2, <1>6 DEF Init, Cells
  <2>3. Half(NoFrame) = 0 /\ NoFrame.pc = "idle"
    BY DEF NoFrame, Half, InsertPcs
  <2>4. ListOK(list[v], tail[v], NoFrame)
    BY <1>1, <1>2, <1>6, <2>2, <2>3, LrConstants DEF ListOK, Packed, OneEach, SortPcs
  <2> QED BY <2>1, <2>4 DEF Alone, Kept1
<1> QED BY <1>4, <1>5, <1>6 DEF IInv, ListInv

(* What the invariant says of a vCPU that is not spoilt.                   *)
LEMMA ListSafe ==
  ASSUME IInv
  PROVE  TypeOK /\ TailIsFirstIdle /\ ListedOnce
<1>1. ASSUME NEW v \in Vcpus \ spoilt
      PROVE  /\ tail[v] \in Nat /\ tail[v] <= GIC_LR_LIST_NUM /\ OneEach(list[v])
             /\ ~ Inserting(v) => Packed(list[v], tail[v])
  <2>1. PICK g : /\ ListOK(list[v], tail[v], g)
                 /\ g = NoFrame \/ \E c \in Ctxts : On(c, v) /\ g = frame[c]
    BY DEF IInv, ListInv, Kept1
  <2>2. ~ Inserting(v) => g.pc \notin InsertPcs
    BY <2>1 DEF Inserting, InsertPcs, On, NoFrame
  <2>3. tail[v] \in Nat
    BY DEF IInv, Typed
  <2> QED BY <2>1, <2>2, <2>3, LrConstants DEF ListOK, Half
<1>2. ASSUME NEW c \in Ctxts, frame[c].pc = "stopped"
      PROVE  frame[c].v \in spoilt
  <2>1. Busy(c)
    BY <1>2 DEF Busy
  <2> QED BY <1>2, <2>1, CallFacts DEF ListOK
<1>3. TypeOK
  BY <1>1, <1>2 DEF IInv, Typed, TypeOK
<1>4. TailIsFirstIdle
  BY <1>1 DEF TailIsFirstIdle, Packed
<1>5. ListedOnce
  BY <1>1 DEF ListedOnce, OneEach
<1> QED BY <1>3, <1>4, <1>5

(* The vGIC's list code keeps the list of every vCPU whose tail was zero   *)
(* at the start and whose calls were not cut into by one for the same      *)
(* vCPU: its tail is the first idle cell and within the list, no vIRQ is   *)
(* listed twice, and no call leaves the list or fails its assertion, while *)
(* the lists of other vCPUs may be spoilt. For any number of vCPUs, list   *)
(* registers, cells, priorities and nested calls, and any initial tail.    *)
THEOREM ListsCorrect == Spec => [](TypeOK /\ TailIsFirstIdle /\ ListedOnce)
<1>1. Init => IInv
  BY InitList
<1>2. IInv /\ [Next]_vars => IInv'
  <2>1. ASSUME IInv, UNCHANGED vars
        PROVE  IInv'
    BY <2>1, GuestStep DEF vars, ghosts, IInv, Typed
  <2> QED BY <2>1, NextStep
<1>3. IInv => TypeOK /\ TailIsFirstIdle /\ ListedOnce
  BY ListSafe
<1> QED BY <1>1, <1>2, <1>3, PTL DEF Spec

-----------------------------------------------------------------------------
(* The list registers beside the lists, while the core's use of them is    *)
(* orderly: a switch between two vCPUs would leave the registers of the    *)
(* one in place while the other's are saved, and a call that cuts into     *)
(* another would find it half way.                                         *)

FreeIn(r, i) == r[i].stat = "inactive"
Distinct(r) ==
  \A i, k \in Lrs : ~ FreeIn(r, i) /\ ~ FreeIn(r, k) /\ i # k => r[i].vint # r[k].vint
Named(e) == e.stat # "inactive" => e.vint # 0
OwnerOK(r, v) == \A i \in Lrs : ~ FreeIn(r, i) => r[i].own = v
(* Cell j of v's list and register i hold the same vIRQ of v.              *)
Both(l, r, v, j, i) ==
  l[v][j].res0 /\ ~ FreeIn(r, i) /\ r[i].own = v /\ l[v][j].vint = r[i].vint
NoBoth(l, r) == \A v \in Vcpus, j \in Cells, i \in Lrs : ~ Both(l, r, v, j, i)

(* Registers hold distinct vIRQs; what is in a list belongs to its vCPU; a *)
(* vIRQ that is in a register and in the list is pending in the list, so   *)
(* that dropping the register's copy loses nothing.                        *)
RegsOK(l, r) ==
  /\ Distinct(r)
  /\ \A i \in Lrs : Named(r[i])
  /\ \A v \in Vcpus, j \in Cells : Named(l[v][j]) /\ (l[v][j].res0 => l[v][j].own = v)
  /\ \A v \in Vcpus, j \in Cells, i \in Lrs : Both(l, r, v, j, i) => l[v][j].stat = "pending"

SavePcs == {"insert", "save", "save_insert"}

(* The idle registers a loop read at its start are still the idle ones     *)
(* among those it has not visited; a save leaves idle ones behind.         *)
LoopOK(r, g) ==
  /\ g.pc \in {"save", "save_insert"} =>
       \A k \in Lrs : /\ k < g.i => FreeIn(r, k)
                      /\ k >= g.i => (k \in g.elrsr <=> FreeIn(r, k))
  /\ g.pc = "sort" => \A k \in Lrs : FreeIn(r, k)
  /\ g.pc = "restore" => \A k \in Lrs : k >= g.i => (k \in g.elrsr <=> FreeIn(r, k))

(* The registers are those of the vCPU u that runs, and of the call with   *)
(* frame g, which can only be a call for u or a switch to its own vCPU.    *)
UserOK(r, u, g) ==
  /\ g.pc # "idle" => /\ OwnerOK(r, g.v)
                      /\ u \in Vcpus => u = g.v
                      /\ g.to \in Vcpus => g.to = g.v
  /\ u \in Vcpus => OwnerOK(r, u)

(* The inductive invariant of an orderly core: one call at a time, and     *)
(* outside its saving part no vIRQ is in a register and in the list.       *)
LrOK ==
  /\ \A c, d \in Ctxts : Busy(c) /\ Busy(d) => c = d
  /\ RegsOK(list, lr)
  /\ \A c \in Ctxts : LoopOK(lr, frame[c]) /\ UserOK(lr, curr, frame[c])
  /\ (\A c \in Ctxts : frame[c].pc \notin SavePcs) => NoBoth(list, lr)

LrInv == Orderly => LrOK

(* PendingKept of one step.                                                *)
Kept ==
  \A v \in Vcpus : \A q \in PendingOf(v, list, lr) \ PendingOf(v, list', lr') :
    \E i \in Lrs : lr[i].vint = q /\ lr[i].own = v /\ (Acked(v, i) \/ Dropped(v, i))

(* The call in progress in context c is the only one.                      *)
LEMMA LrFacts ==
  ASSUME IInv, LrOK, NEW c \in Ctxts, Busy(c)
  PROVE  /\ frame[c] \in Frame /\ frame[c].v \in Vcpus
         /\ \A d \in Ctxts : d # c => ~ Busy(d)
         /\ RegsOK(list, lr) /\ LoopOK(lr, frame[c]) /\ UserOK(lr, curr, frame[c])
         /\ frame[c].pc \notin SavePcs => NoBoth(list, lr)
<1>1. frame[c] \in Frame /\ frame[c].v \in Vcpus
  BY CallFacts
<1>2. \A d \in Ctxts : d # c => ~ Busy(d)
  BY DEF LrOK
<1>3. frame[c].pc \notin SavePcs => NoBoth(list, lr)
  BY <1>2 DEF LrOK, SavePcs, Busy
<1> QED BY <1>1, <1>2, <1>3 DEF LrOK

LEMMA QuietFacts ==
  ASSUME LrOK, Quiet
  PROVE  /\ RegsOK(list, lr) /\ NoBoth(list, lr)
         /\ curr \in Vcpus => OwnerOK(lr, curr)
<1>1. "irq" \in Ctxts
  BY DEF Ctxts
<1>2. NoBoth(list, lr)
  BY DEF LrOK, Quiet, Busy, SavePcs
<1> QED BY <1>1, <1>2 DEF LrOK, UserOK

(* The lists of an orderly core.                                           *)
LEMMA OrderlyLists ==
  ASSUME IInv, spoilt = {}, NEW v \in Vcpus
  PROVE  /\ list[v] \in [Cells -> Entry] /\ tail[v] \in Nat /\ tail[v] <= GIC_LR_LIST_NUM
         /\ OneEach(list[v])
         /\ (\A c \in Ctxts : frame[c].pc \notin InsertPcs) => Packed(list[v], tail[v])
<1>1. TypeOK /\ TailIsFirstIdle /\ ListedOnce
  BY ListSafe
<1>2. v \in Vcpus \ spoilt
  OBVIOUS
<1>3. list[v] \in [Cells -> Entry] /\ tail[v] \in Nat /\ tail[v] <= GIC_LR_LIST_NUM
  BY <1>1, <1>2 DEF TypeOK
<1>4. OneEach(list[v])
  BY <1>1, <1>2 DEF ListedOnce, OneEach
<1>5. (\A c \in Ctxts : frame[c].pc \notin InsertPcs) => Packed(list[v], tail[v])
  BY <1>1, <1>2 DEF TailIsFirstIdle, Inserting, InsertPcs, Packed
<1> QED BY <1>3, <1>4, <1>5

(* On an orderly core no call stops.                                       *)
LEMMA NoStop ==
  ASSUME IInv, IInv', spoilt' = {}, NEW c \in Ctxts, NEW f \in Frame, Stop(c, f)
  PROVE  FALSE
<1>1. frame'[c] = StopFrame(f)
  BY DEF Stop, StopFrame, Goto, IInv, Typed
<1>2. StopFrame(f).pc = "stopped"
  BY FrameFacts
<1>3. \A d \in Ctxts : frame'[d].pc = "stopped" => frame'[d].v \in spoilt'
  <2>1. ASSUME NEW d \in Ctxts, frame'[d].pc = "stopped", frame'[d].v \notin spoilt'
        PROVE  FALSE
    <3>1. PICK v \in Vcpus : v = frame'[d].v
      BY <2>1 DEF IInv, Calls, Busy
    <3>2. On(d, v)' /\ v \in Vcpus \ spoilt'
      BY <2>1, <3>1 DEF On, Busy
    <3>3. ListOK(list'[v], tail'[v], frame'[d])
      BY <3>2 DEF IInv, ListInv, Kept1
    <3> QED BY <2>1, <3>3 DEF ListOK
  <2> QED BY <2>1
<1> QED BY <1>1, <1>2, <1>3

(* What a step of the only call in progress must show of its next frame.   *)
LEMMA StepKeepsLr ==
  ASSUME IInv, NEW c \in Ctxts, \A d \in Ctxts : d # c => ~ Busy(d),
         NEW g, Goto(c, g), RegsOK(list', lr'), LoopOK(lr', g), UserOK(lr', curr', g),
         g.pc \notin SavePcs => NoBoth(list', lr')
  PROVE  LrOK'
<1>1. \A d \in Ctxts : frame'[d] = IF d = c THEN g ELSE frame[d]
  BY DEF Goto, IInv, Typed
<1>2. \A d \in Ctxts : LoopOK(lr', frame'[d]) /\ UserOK(lr', curr', frame'[d])
  <2>1. ASSUME NEW d \in Ctxts, d # c
        PROVE  frame'[d].pc = "idle"
    BY <1>1, <2>1 DEF Busy
  <2> QED BY <1>1, <2>1 DEF LoopOK, UserOK
<1>3. \A d, e \in Ctxts : Busy(d)' /\ Busy(e)' => d = e
  BY <1>1 DEF Busy
<1>4. (\A d \in Ctxts : frame'[d].pc \notin SavePcs) => NoBoth(list', lr')
  BY <1>1
<1> QED BY <1>2, <1>3, <1>4 DEF LrOK

LEMMA InPending ==
  ASSUME NEW l, NEW r, NEW v
  PROVE  /\ \A j \in Cells : l[v][j].res0 /\ l[v][j].stat = "pending" =>
              l[v][j].vint \in PendingOf(v, l, r)
         /\ \A i \in Lrs : r[i].stat = "pending" /\ r[i].own = v =>
              r[i].vint \in PendingOf(v, l, r)
         /\ \A q \in PendingOf(v, l, r) :
              \/ \E j \in Cells : l[v][j].res0 /\ l[v][j].stat = "pending" /\ l[v][j].vint = q
              \/ \E i \in Lrs : r[i].stat = "pending" /\ r[i].own = v /\ r[i].vint = q
BY DEF PendingOf

(* A step after which every pending vIRQ is still pending somewhere, or    *)
(* has left its register in one of the two ways.                           *)
LEMMA KeptWhen ==
  ASSUME \A v \in Vcpus, j \in Cells : list[v][j].res0 /\ list[v][j].stat = "pending" =>
           list[v][j].vint \in PendingOf(v, list', lr'),
         \A v \in Vcpus, i \in Lrs : lr[i].stat = "pending" /\ lr[i].own = v =>
           lr[i].vint \in PendingOf(v, list', lr') \/ Acked(v, i) \/ Dropped(v, i)
  PROVE  Kept
<1> SUFFICES ASSUME NEW v \in Vcpus, NEW q \in PendingOf(v, list, lr),
                    q \notin PendingOf(v, list', lr')
             PROVE  \E i \in Lrs : /\ lr[i].vint = q /\ lr[i].own = v
                                   /\ Acked(v, i) \/ Dropped(v, i)
  BY DEF Kept
<1>1. PICK i \in Lrs : lr[i].stat = "pending" /\ lr[i].own = v /\ lr[i].vint = q
  BY InPending
<1> QED BY <1>1

LEMMA KeptSame ==
  ASSUME UNCHANGED <<list, lr>>
  PROVE  Kept
BY DEF Kept

(* The frames that begin a save, a refill or nothing, with the registers   *)
(* as they are.                                                            *)
LEMMA LoopStarts ==
  ASSUME NEW f \in Frame
  PROVE  LoopOK(lr, SaveFrame(f)) /\ LoopOK(lr, RestoreFrame(f)) /\ LoopOK(lr, NoFrame)
<1> DEFINE g == SaveFrame(f)
           h == RestoreFrame(f)
<1>1. /\ g.pc = "save" /\ g.i = 0 /\ g.elrsr = read_idle_lr_reg
      /\ h.pc = "restore" /\ h.i = 0 /\ h.elrsr = read_idle_lr_reg
      /\ NoFrame.pc = "idle"
  BY FrameFacts, FreshFrames
<1>2. \A k \in Lrs : ~ (k < 0) /\ (k \in read_idle_lr_reg <=> FreeIn(lr, k))
  BY DEF Lrs, read_idle_lr_reg, FreeIn
<1> HIDE DEF g, h
<1>3. LoopOK(lr, g) /\ LoopOK(lr, h) /\ LoopOK(lr, NoFrame)
  BY <1>1, <1>2 DEF LoopOK
<1> QED BY <1>3 DEF g, h

(* An entry that is written into the first free cell of v's list.          *)
LEMMA WrittenCells ==
  ASSUME IInv, spoilt = {}, NEW c \in Ctxts, NEW v \in Vcpus, NEW e \in Entry, NEW f,
         Inserts(v, e), Placed(c, v, e, f)
  PROVE  /\ tail[v] \in Cells /\ Goto(c, f)
         /\ \A w \in Vcpus, j \in Cells :
              list'[w][j] = IF w = v /\ j = tail[v] THEN Marked(v, e) ELSE list[w][j]
         /\ Marked(v, e).res0 /\ Marked(v, e).vint = e.vint
         /\ Marked(v, e).stat = e.stat /\ Marked(v, e).own = v
<1>1. tail[v] \in Cells
  BY OrderlyLists, LrConstants DEF Inserts, vgic_is_lr_list_full, Cells
<1>2. /\ Marked(v, e).res0 /\ Marked(v, e).vint = e.vint
      /\ Marked(v, e).stat = e.stat /\ Marked(v, e).own = v
  BY DEF Marked, Entry
<1>3. /\ Goto(c, f)
      /\ list' = [list EXCEPT ![v] = [list[v] EXCEPT ![tail[v]] = Marked(v, e)]]
  BY <1>1 DEF Placed, Written, Marked, IInv, Typed
<1> QED BY <1>1, <1>2, <1>3 DEF IInv, Typed

(* The registers are of one vCPU when an injection or a switch for it      *)
(* leaves the core orderly.                                                *)
LEMMA NotOthers ==
  ASSUME NEW v, ~ Others(v)
  PROVE  OwnerOK(lr, v)
BY DEF Others, OwnerOK, FreeIn

LEMMA InjectLr ==
  ASSUME IInv, IInv', LrOK, Orderly, Orderly', NEW c \in Ctxts, NEW v \in Vcpus, NEW q \in Virqs,
         vgic_inject(c, v, q)
  PROVE  LrOK' /\ Kept
<1> DEFINE e == vgic_get_lr_from_virq(v, q)
           f == [NoFrame EXCEPT !.v = v]
<1>1. /\ e \in Entry /\ f \in Frame /\ f.v = v /\ f.to = None
      /\ UNCHANGED <<lr, curr>> /\ spoilt = {} /\ spoilt' = {}
  BY EntryTypes, FreshFrames DEF vgic_inject, IInv, Orderly
<1>2. ASSUME Noted(v)
      PROVE  /\ \A d \in Ctxts : ~ Busy(d)
             /\ RegsOK(list, lr) /\ NoBoth(list, lr)
             /\ OwnerOK(lr, v) /\ (curr \in Vcpus => curr = v)
  <2>1. (\A d \in Ctxts : ~ Busy(d)) /\ ~ Others(v) /\ curr \notin Vcpus \ {v}
    BY <1>2 DEF Noted, Orderly
  <2> QED BY <2>1, QuietFacts, NotOthers DEF Quiet
<1>3. CASE Inserts(v, e) /\ Noted(v) /\ Placed(c, v, e, [f EXCEPT !.pc = "insert"])
  <2> DEFINE g == [f EXCEPT !.pc = "insert"]
  <2>1. g.pc = "insert" /\ g.v = v /\ g.to = None
    BY <1>1 DEF Frame
  <2>2. \/ e.stat = "pending" /\ e.vint # 0
        \/ e.stat = "inactive" /\ e.vint = 0
    <3>1. q # 0
      BY LrConstants DEF Virqs
    <3>2. CASE q \in enable[v]
      <4>1. e = [vint |-> q, prio |-> prio[v][q], res0 |-> FALSE, stat |-> "pending", own |-> v]
        BY <3>2 DEF vgic_get_lr_from_virq
      <4>2. e.stat = "pending" /\ e.vint = q
        BY <4>1
      <4> QED BY <3>1, <4>2
    <3>3. CASE q \notin enable[v]
      BY <3>3 DEF vgic_get_lr_from_virq, ZERO
    <3> QED BY <3>2, <3>3
  <2> HIDE DEF e, g
  <2>3. /\ tail[v] \in Cells /\ Goto(c, g)
        /\ \A w \in Vcpus, j \in Cells :
             list'[w][j] = IF w = v /\ j = tail[v] THEN Marked(v, e) ELSE list[w][j]
        /\ Marked(v, e).res0 /\ Marked(v, e).vint = e.vint
        /\ Marked(v, e).stat = e.stat /\ Marked(v, e).own = v
    BY <1>1, <1>3, WrittenCells DEF g
  <2>4. RegsOK(list', lr')
    <3>1. \A w \in Vcpus, j \in Cells : Named(list'[w][j]) /\ (list'[w][j].res0 => list'[w][j].own = w)
      BY <1>2, <1>3, <2>2, <2>3 DEF RegsOK, Named
    <3>2. \A w \in Vcpus, j \in Cells, i \in Lrs :
            Both(list', lr, w, j, i) => list'[w][j].stat = "pending"
      BY <1>2, <1>3, <2>2, <2>3 DEF RegsOK, Named, Both, FreeIn
    <3> QED BY <1>1, <1>2, <1>3, <3>1, <3>2 DEF RegsOK
  <2>5. LoopOK(lr', g) /\ g.pc \in SavePcs /\ UserOK(lr', curr', g)
    BY <1>1, <1>2, <1>3, <2>1, LrNames DEF LoopOK, SavePcs, UserOK
  <2>6. LrOK'
    BY <1>2, <1>3, <2>3, <2>4, <2>5, StepKeepsLr
  <2>7. ~ list[v][tail[v]].res0
    <3>1. Packed(list[v], tail[v]) /\ tail[v] \in Nat
      BY <1>1, <1>2, <1>3, OrderlyLists DEF InsertPcs, Busy
    <3> QED BY <2>3, <3>1 DEF Packed
  <2>8. \A w \in Vcpus, j \in Cells : list[w][j].res0 => list'[w][j] = list[w][j]
    BY <2>3, <2>7
  <2>9. Kept
    BY <1>1, <2>8, InPending, KeptWhen
  <2> QED BY <2>6, <2>9
<1>4. CASE Noted(v) /\ StartSave(c, f) /\ UNCHANGED list
  <2> HIDE DEF f
  <2> DEFINE g == SaveFrame(f)
  <2>1. g.pc = "save" /\ g.v = v /\ g.to = None /\ LoopOK(lr, g)
    BY <1>1, LoopStarts, FrameFacts
  <2>2. Goto(c, g)
    BY <1>4 DEF StartSave, SaveFrame
  <2> HIDE DEF g
  <2>3. UserOK(lr, curr, g)
    BY <1>2, <1>4, <2>1, LrNames DEF UserOK
  <2>4. LrOK'
    BY <1>1, <1>2, <1>4, <2>1, <2>2, <2>3, StepKeepsLr DEF SavePcs
  <2> QED BY <1>1, <1>4, <2>4, KeptSame
<1>5. CASE UNCHANGED <<list, frame>>
  BY <1>1, <1>5, KeptSame DEF LrOK, Busy
<1> QED BY <1>3, <1>4, <1>5 DEF vgic_inject

LEMMA InsertLr ==
  ASSUME IInv, LrOK, NEW c \in Ctxts, insert(c) \/ save_insert(c)
  PROVE  LrOK' /\ Kept
<1>0. PICK f : f = frame[c] OBVIOUS
<1>1. f.pc \in InsertPcs /\ Busy(c) /\ UNCHANGED <<list, lr, curr>>
  BY <1>0 DEF insert, save_insert, At, InsertPcs, Busy
<1>2. /\ f \in Frame /\ \A d \in Ctxts : d # c => ~ Busy(d)
      /\ RegsOK(list, lr) /\ LoopOK(lr, f) /\ UserOK(lr, curr, f) /\ f.pc # "idle"
  BY <1>0, <1>1, LrFacts DEF Busy
<1>3. PICK g : Goto(c, g) /\ g.pc = "save" /\ LoopOK(lr, g) /\ g.v = f.v /\ g.to = f.to
  <2>1. CASE insert(c)
    <3>1. /\ SaveFrame(f).pc = "save" /\ LoopOK(lr, SaveFrame(f)) /\ Goto(c, SaveFrame(f))
          /\ SaveFrame(f).v = f.v /\ SaveFrame(f).to = f.to
      BY <1>0, <1>2, <2>1, LoopStarts, FrameFacts DEF insert, StartSave, SaveFrame
    <3> QED BY <3>1
  <2>2. CASE save_insert(c)
    <3> DEFINE g == [f EXCEPT !.pc = "save"]
    <3>1. /\ g.pc = "save" /\ g.i = f.i /\ g.elrsr = f.elrsr /\ f.pc = "save_insert"
          /\ g.v = f.v /\ g.to = f.to
      BY <1>0, <1>2, <2>2 DEF Frame, save_insert, At
    <3>2. Goto(c, g)
      BY <1>0, <2>2 DEF save_insert
    <3> HIDE DEF g
    <3>3. LoopOK(lr, g)
      BY <1>2, <3>1 DEF LoopOK
    <3> QED BY <3>1, <3>2, <3>3
  <2> QED BY <2>1, <2>2
<1>4. UserOK(lr, curr, g)
  BY <1>2, <1>3 DEF UserOK
<1>5. LrOK'
  BY <1>1, <1>2, <1>3, <1>4, StepKeepsLr DEF SavePcs
<1> QED BY <1>1, <1>5, KeptSame

LEMMA SaveLr ==
  ASSUME IInv, LrOK, spoilt = {}, NEW c \in Ctxts, vgic_context_save_lr(c)
  PROVE  LrOK' /\ Kept
<1>0. PICK f, i, v : f = frame[c] /\ i = f.i /\ v = f.v OBVIOUS
<1>1. f.pc = "save" /\ Busy(c) /\ i < NR_LR /\ UNCHANGED <<tail, curr>>
  BY <1>0 DEF vgic_context_save_lr, At, Busy
<1>2. /\ f \in Frame /\ v \in Vcpus /\ \A d \in Ctxts : d # c => ~ Busy(d)
      /\ RegsOK(list, lr) /\ LoopOK(lr, f) /\ UserOK(lr, curr, f) /\ OwnerOK(lr, v)
  BY <1>0, <1>1, LrFacts DEF UserOK
<1>3. i \in Lrs /\ i \in Int /\ lr[i] \in Entry /\ lr \in [Lrs -> Entry]
  BY <1>0, <1>1, <1>2, LrConstants DEF Frame, Lrs, IInv, Typed
<1>4. Packed(list[v], tail[v]) /\ OneEach(list[v]) /\ tail[v] \in Nat
  <2>1. \A d \in Ctxts : frame[d].pc \notin InsertPcs
    BY <1>0, <1>1, <1>2 DEF InsertPcs, Busy
  <2> QED BY <1>2, <2>1, OrderlyLists
<1>5. ZERO.stat = "inactive" /\ ~ ZERO.res0
  BY DEF ZERO
(* The loop's registers after register i is found idle, or cleared.        *)
<1>6. ASSUME NEW r, NEW g, g.pc \in {"save", "save_insert"}, g.i = i + 1, g.elrsr = f.elrsr,
             g.v = v, g.to = f.to, FreeIn(r, i), \A k \in Lrs : k # i => r[k] = lr[k]
      PROVE  LoopOK(r, g) /\ UserOK(r, curr, g)
  <2>1. ASSUME NEW k \in Lrs, k < i + 1
        PROVE  FreeIn(r, k)
    <3>1. CASE k = i
      BY <1>6, <3>1
    <3>2. CASE k # i
      <4>1. k < i
        BY <1>3, <2>1, <3>2 DEF Lrs
      <4> QED BY <1>0, <1>1, <1>2, <1>6, <3>2, <4>1 DEF LoopOK, FreeIn
    <3> QED BY <3>1, <3>2
  <2>2. ASSUME NEW k \in Lrs, k >= i + 1
        PROVE  k \in g.elrsr <=> FreeIn(r, k)
    <3>1. k # i /\ k >= i
      BY <1>3, <2>2 DEF Lrs
    <3> QED BY <1>0, <1>1, <1>2, <1>6, <3>1 DEF LoopOK, FreeIn
  <2>3. \A u : OwnerOK(lr, u) => OwnerOK(r, u)
    BY <1>6 DEF OwnerOK, FreeIn
  <2>4. UserOK(r, curr, g)
    BY <1>0, <1>1, <1>2, <1>6, <2>3 DEF UserOK
  <2> QED BY <1>6, <2>1, <2>2, <2>4 DEF LoopOK
<1>7. CASE /\ i \in f.elrsr
           /\ Goto(c, [f EXCEPT !.i = i + 1]) /\ UNCHANGED <<list, lr>>
  <2> DEFINE g == [f EXCEPT !.i = i + 1]
  <2>1. g.pc = "save" /\ g.i = i + 1 /\ g.elrsr = f.elrsr /\ g.v = v /\ g.to = f.to
    BY <1>0, <1>1, <1>2 DEF Frame
  <2>2. FreeIn(lr, i)
    BY <1>0, <1>1, <1>2, <1>3, <1>7 DEF LoopOK
  <2>3. Goto(c, g)
    BY <1>7
  <2> HIDE DEF g
  <2>4. LoopOK(lr, g) /\ UserOK(lr, curr, g)
    BY <1>6, <2>1, <2>2
  <2>5. LrOK'
    BY <1>1, <1>2, <1>7, <2>1, <2>3, <2>4, StepKeepsLr DEF SavePcs
  <2> QED BY <1>7, <2>5, KeptSame
<1>8. ASSUME lr' = [lr EXCEPT ![i] = ZERO]
      PROVE  /\ \A k \in Lrs : lr'[k] = IF k = i THEN ZERO ELSE lr[k]
             /\ FreeIn(lr', i)
  BY <1>3, <1>5, <1>8 DEF FreeIn
<1>9. CASE /\ i \notin f.elrsr /\ Inserts(v, lr[i]) /\ lr' = [lr EXCEPT ![i] = ZERO]
           /\ Placed(c, v, lr[i], [f EXCEPT !.pc = "save_insert", !.i = i + 1])
  <2> DEFINE g == [f EXCEPT !.pc = "save_insert", !.i = i + 1]
             e == lr[i]
  <2>1. g.pc = "save_insert" /\ g.i = i + 1 /\ g.elrsr = f.elrsr /\ g.v = v /\ g.to = f.to
    BY <1>0, <1>2 DEF Frame
  <2> HIDE DEF g
  <2>2. /\ tail[v] \in Cells /\ Goto(c, g)
        /\ \A w \in Vcpus, j \in Cells :
             list'[w][j] = IF w = v /\ j = tail[v] THEN Marked(v, e) ELSE list[w][j]
        /\ Marked(v, e).res0 /\ Marked(v, e).vint = e.vint
        /\ Marked(v, e).stat = e.stat /\ Marked(v, e).own = v
    BY <1>2, <1>3, <1>9, WrittenCells DEF g
  <2>3. LoopOK(lr', g) /\ UserOK(lr', curr', g)
    <3>1. FreeIn(lr', i) /\ \A k \in Lrs : k # i => lr'[k] = lr[k]
      BY <1>8, <1>9
    <3>2. g.pc \in {"save", "save_insert"}
      BY <2>1
    <3> QED BY <1>1, <1>6, <2>1, <3>1, <3>2
  <2>4. ~ FreeIn(lr, i)
    BY <1>0, <1>1, <1>2, <1>3, <1>9 DEF LoopOK
  <2>5. RegsOK(list', lr')
    <3>1. Distinct(lr') /\ \A k \in Lrs : Named(lr'[k])
      BY <1>2, <1>5, <1>8, <1>9 DEF RegsOK, Distinct, Named, FreeIn
    <3>2. \A w \in Vcpus, j \in Cells : Named(list'[w][j]) /\ (list'[w][j].res0 => list'[w][j].own = w)
      BY <1>2, <1>3, <2>2 DEF RegsOK, Named
    <3>3. ASSUME NEW w \in Vcpus, NEW j \in Cells, NEW k \in Lrs, Both(list', lr', w, j, k)
          PROVE  list'[w][j].stat = "pending"
      <4>1. /\ k # i /\ lr'[k] = lr[k] /\ ~ FreeIn(lr, k) /\ list'[w][j].vint = lr[k].vint
            /\ lr[k].own = w
        BY <1>5, <1>8, <1>9, <3>3 DEF Both, FreeIn
      <4>2. lr[k].vint # e.vint
        BY <1>2, <1>3, <2>4, <4>1 DEF RegsOK, Distinct
      <4>3. list'[w][j] = list[w][j]
        BY <2>2, <4>1, <4>2
      <4> QED BY <1>2, <3>3, <4>1, <4>3 DEF RegsOK, Both
    <3> QED BY <3>1, <3>2, <3>3 DEF RegsOK
  <2>6. LrOK'
    BY <1>2, <2>1, <2>2, <2>3, <2>5, StepKeepsLr DEF SavePcs
  <2>7. Kept
    <3>1. ~ list[v][tail[v]].res0
      BY <1>4, <2>2 DEF Packed
    <3>2. ASSUME NEW w \in Vcpus, NEW j \in Cells, list[w][j].res0, list[w][j].stat = "pending"
          PROVE  list[w][j].vint \in PendingOf(w, list', lr')
      <4>1. list'[w][j] = list[w][j]
        BY <2>2, <3>1, <3>2
      <4> QED BY <3>2, <4>1, InPending
    <3>3. ASSUME NEW w \in Vcpus, NEW k \in Lrs, lr[k].stat = "pending", lr[k].own = w
          PROVE  lr[k].vint \in PendingOf(w, list', lr')
      <4>1. CASE k = i
        <5>1. w = v
          BY <1>2, <2>4, <3>3, <4>1 DEF OwnerOK
        <5>2. list'[w][tail[v]] = Marked(v, e)
          BY <1>2, <2>2, <5>1
        <5> QED BY <2>2, <3>3, <4>1, <5>2, InPending
      <4>2. CASE k # i
        <5>1. lr'[k] = lr[k]
          BY <1>8, <1>9, <4>2
        <5> QED BY <3>3, <5>1, InPending
      <4> QED BY <4>1, <4>2
    <3> QED BY <3>2, <3>3, KeptWhen
  <2> QED BY <2>6, <2>7
<1>10. CASE /\ i \notin f.elrsr /\ ~ Inserts(v, lr[i])
            /\ lr' = [lr EXCEPT ![i] = ZERO]
            /\ Goto(c, [f EXCEPT !.i = i + 1]) /\ UNCHANGED list
  <2> DEFINE g == [f EXCEPT !.i = i + 1]
  <2>1. g.pc = "save" /\ g.i = i + 1 /\ g.elrsr = f.elrsr /\ g.v = v /\ g.to = f.to
    BY <1>0, <1>1, <1>2 DEF Frame
  <2>2. Goto(c, g)
    BY <1>10
  <2> HIDE DEF g
  <2>3. LoopOK(lr', g) /\ UserOK(lr', curr', g)
    <3>1. FreeIn(lr', i) /\ \A k \in Lrs : k # i => lr'[k] = lr[k]
      BY <1>8, <1>10
    <3>2. g.pc \in {"save", "save_insert"}
      BY <2>1
    <3> QED BY <1>1, <1>6, <2>1, <3>1, <3>2
  <2>4. RegsOK(list', lr')
    <3>1. Distinct(lr') /\ \A k \in Lrs : Named(lr'[k])
      BY <1>2, <1>5, <1>8, <1>10 DEF RegsOK, Distinct, Named, FreeIn
    <3>2. \A w \in Vcpus, j \in Cells, k \in Lrs : Both(list', lr', w, j, k) => Both(list, lr, w, j, k)
      BY <1>5, <1>8, <1>10 DEF Both, FreeIn
    <3> QED BY <1>2, <1>10, <3>1, <3>2 DEF RegsOK
  <2>5. LrOK'
    BY <1>2, <2>1, <2>2, <2>3, <2>4, StepKeepsLr DEF SavePcs
  <2>6. Kept
    <3>1. ASSUME NEW w \in Vcpus, NEW j \in Cells, list[w][j].res0, list[w][j].stat = "pending"
          PROVE  list[w][j].vint \in PendingOf(w, list', lr')
      BY <1>10, <3>1, InPending
    <3>2. ASSUME NEW w \in Vcpus, NEW k \in Lrs, lr[k].stat = "pending", lr[k].own = w
          PROVE  lr[k].vint \in PendingOf(w, list', lr') \/ Dropped(w, k)
      <4>1. CASE k = i
        <5>1. w = v /\ ~ FreeIn(lr, i) /\ lr[i].own = v
          BY <1>2, <3>2, <4>1 DEF OwnerOK, FreeIn
        <5>2. CASE vgic_is_lr_in_list(v, lr[i])
          <6>1. PICK j \in Cells : j < tail[v] /\ list[v][j].vint = lr[i].vint
            BY <5>2 DEF vgic_is_lr_in_list
          <6>2. list[v][j].res0
            BY <1>4, <6>1 DEF Packed
          <6>3. list[v][j].stat = "pending"
            BY <1>2, <1>3, <5>1, <6>1, <6>2 DEF RegsOK, Both
          <6> QED BY <3>1, <1>2, <4>1, <5>1, <6>1, <6>2, <6>3
        <5>3. CASE vgic_is_lr_list_full(v)
          BY <1>3, <1>8, <1>10, <4>1, <5>1, <5>3 DEF Dropped
        <5> QED BY <1>10, <5>2, <5>3 DEF Inserts
      <4>2. CASE k # i
        <5>1. lr'[k] = lr[k]
          BY <1>8, <1>10, <4>2
        <5> QED BY <3>2, <5>1, InPending
      <4> QED BY <4>1, <4>2
    <3> QED BY <3>1, <3>2, KeptWhen
  <2> QED BY <2>5, <2>6
<1> QED BY <1>0, <1>7, <1>9, <1>10 DEF vgic_context_save_lr

LEMMA SavedLr ==
  ASSUME IInv, IInv', LrOK, spoilt = {}, spoilt' = {}, NEW c \in Ctxts, saved(c)
  PROVE  LrOK' /\ Kept
<1>0. PICK f, n : f = frame[c] /\ n = tail[f.v] OBVIOUS
<1>1. f.pc = "save" /\ Busy(c) /\ f.i = NR_LR /\ UNCHANGED <<list, lr>>
  BY <1>0 DEF saved, At, Busy
<1>2. /\ f \in Frame /\ f.v \in Vcpus /\ \A d \in Ctxts : d # c => ~ Busy(d)
      /\ RegsOK(list, lr) /\ LoopOK(lr, f) /\ UserOK(lr, curr, f)
  BY <1>0, <1>1, LrFacts
<1>3. \A k \in Lrs : FreeIn(lr, k)
  <2>1. \A k \in Lrs : k < NR_LR
    BY LrConstants DEF Lrs
  <2> QED BY <1>1, <1>2, <2>1 DEF LoopOK
<1>4. NoBoth(list, lr) /\ \A v : OwnerOK(lr, v)
  BY <1>3 DEF NoBoth, Both, OwnerOK
<1>5. PICK g : Goto(c, g) /\ LoopOK(lr, g) /\ UserOK(lr, curr', g)
  <2>1. CASE Goto(c, NoFrame)
    BY <1>2, <1>4, <2>1, LoopStarts DEF UserOK, NoFrame
  <2>2. CASE n > 0 /\ StartSort(c, f, "sort", n) /\ UNCHANGED curr
    <3>1. n \in 1 .. GIC_LR_LIST_NUM /\ "sort" \in SortPcs /\ Goto(c, SortFrom(f, "sort", n))
      BY <1>0, <1>2, <2>2, OrderlyLists, NoStop, LrConstants DEF StartSort, SortPcs
    <3> DEFINE g == SortFrom(f, "sort", n)
    <3>2. g.pc = "sort" /\ g.v = f.v /\ g.to = f.to
      BY <1>2, <3>1, SortFrame
    <3> HIDE DEF g
    <3>3. LoopOK(lr, g) /\ UserOK(lr, curr', g)
      BY <1>1, <1>2, <1>3, <2>2, <3>2 DEF LoopOK, UserOK
    <3> QED BY <3>1, <3>3 DEF g
  <2>3. CASE StartRestore(c, f) /\ UNCHANGED curr
    <3> DEFINE g == RestoreFrame(f)
    <3>1. /\ Goto(c, g) /\ LoopOK(lr, g) /\ g.pc = "restore" /\ g.v = f.v /\ g.to = f.to
      BY <1>2, <2>3, LoopStarts, FrameFacts DEF StartRestore, RestoreFrame
    <3> HIDE DEF g
    <3>2. UserOK(lr, curr', g)
      BY <1>1, <1>2, <2>3, <3>1 DEF UserOK
    <3> QED BY <3>1, <3>2
  <2> QED BY <1>0, <2>1, <2>2, <2>3 DEF saved
<1>6. LrOK'
  BY <1>1, <1>2, <1>4, <1>5, StepKeepsLr
<1> QED BY <1>1, <1>6, KeptSame

(* A rearranged list holds the entries of the old one, except perhaps one. *)
LEMMA SwapCells ==
  ASSUME NEW a \in [Cells -> Entry], NEW j \in Cells, NEW k \in Cells
  PROVE  /\ \A i \in Cells : \E m \in Cells : Swapped(a, j, k)[i] = a[m]
         /\ \A m \in Cells : \E i \in Cells : Swapped(a, j, k)[i] = a[m]
<1>1. \A i \in Cells : Swapped(a, j, k)[i] = IF i = k THEN a[j] ELSE IF i = j THEN a[k] ELSE a[i]
  BY DEF Swapped
<1> HIDE DEF Swapped
<1>2. ASSUME NEW m \in Cells
      PROVE  \E i \in Cells : Swapped(a, j, k)[i] = a[m]
  <2>1. CASE m = j
    BY <1>1, <2>1
  <2>2. CASE m = k /\ m # j
    BY <1>1, <2>2
  <2>3. CASE m # k /\ m # j
    BY <1>1, <2>3
  <2> QED BY <2>1, <2>2, <2>3
<1> QED BY <1>1, <1>2

LEMMA RemoveCells ==
  ASSUME NEW a \in [Cells -> Entry], NEW n \in 1 .. GIC_LR_LIST_NUM,
         NEW j \in Cells, j < n, Packed(a, n)
  PROVE  /\ \A i \in Cells : \/ Removed(a, j, n)[i] = ZERO
                             \/ \E m \in Cells \ {j} : Removed(a, j, n)[i] = a[m]
         /\ \A m \in Cells \ {j} : a[m].res0 => \E i \in Cells : Removed(a, j, n)[i] = a[m]
<1> DEFINE d == Removed(a, j, n)
<1>1. n - 1 \in Cells /\ n \in Int
  BY LrConstants DEF Cells
<1>2. \A i \in Cells : d[i] = IF i = n - 1 THEN ZERO ELSE IF i = j THEN a[n - 1] ELSE a[i]
  BY <1>1 DEF Removed, Swapped
<1> HIDE DEF d
<1>3. ASSUME NEW i \in Cells, d[i] # ZERO
      PROVE  \E m \in Cells \ {j} : d[i] = a[m]
  <2>1. CASE i = j
    BY <1>1, <1>2, <1>3, <2>1
  <2>2. CASE i # j
    BY <1>1, <1>2, <1>3, <2>2
  <2> QED BY <2>1, <2>2
<1>4. ASSUME NEW m \in Cells \ {j}, a[m].res0
      PROVE  \E i \in Cells : d[i] = a[m]
  <2>1. CASE m = n - 1
    BY <1>1, <1>2, <1>4, <2>1
  <2>2. CASE m # n - 1
    BY <1>1, <1>2, <1>4, <2>2
  <2> QED BY <2>1, <2>2
<1> QED BY <1>3, <1>4 DEF d

(* A call that leaves the registers alone and the lists too, or reorders   *)
(* them.                                                                   *)
LEMMA ReorderLr ==
  ASSUME IInv, LrOK, NEW c \in Ctxts, Busy(c),
         frame[c].pc \notin SavePcs, NEW g, Goto(c, g), LoopOK(lr, g), UserOK(lr, curr', g), lr' = lr,
         \A v \in Vcpus, j \in Cells : \E m \in Cells : list'[v][j] = list[v][m],
         \A v \in Vcpus, m \in Cells : \E j \in Cells : list'[v][j] = list[v][m]
  PROVE  LrOK' /\ Kept
<1>1. RegsOK(list, lr) /\ NoBoth(list, lr) /\ \A d \in Ctxts : d # c => ~ Busy(d)
  BY LrFacts
<1>2. \A v \in Vcpus, j \in Cells, i \in Lrs : ~ Both(list', lr', v, j, i)
  BY <1>1 DEF NoBoth, Both
<1>3. RegsOK(list', lr')
  <2>1. \A v \in Vcpus, j \in Cells : Named(list'[v][j]) /\ (list'[v][j].res0 => list'[v][j].own = v)
    BY <1>1 DEF RegsOK
  <2> QED BY <1>1, <1>2, <2>1 DEF RegsOK
<1>4. LrOK'
  BY <1>1, <1>2, <1>3, StepKeepsLr DEF NoBoth
<1>5. ASSUME NEW v \in Vcpus, NEW m \in Cells, list[v][m].res0, list[v][m].stat = "pending"
      PROVE  list[v][m].vint \in PendingOf(v, list', lr')
  <2>1. PICK j \in Cells : list'[v][j] = list[v][m]
    OBVIOUS
  <2>2. list'[v][j].res0 /\ list'[v][j].stat = "pending" /\ list'[v][j].vint = list[v][m].vint
    BY <1>5, <2>1
  <2>3. list'[v][j].vint \in PendingOf(v, list', lr')
    BY <2>2, InPending
  <2> QED BY <2>2, <2>3
<1>6. Kept
  BY <1>5, InPending, KeptWhen
<1> QED BY <1>4, <1>6

LEMMA SiftLr ==
  ASSUME IInv, LrOK, NEW c \in Ctxts, NEW pc \in SortPcs, sift(c, pc)
  PROVE  LrOK' /\ Kept
<1>0. PICK f, v, a, s : f = frame[c] /\ v = f.v /\ a = list[v] /\ s = LargerSon(a, f.dad, f.last)
  OBVIOUS
<1>1. f.pc = pc /\ Busy(c) /\ UNCHANGED <<lr, curr>> /\ f.pc \notin SavePcs /\ f.pc # "idle"
  BY <1>0 DEF sift, At, Busy, SortPcs, SavePcs
<1>2. f \in Frame /\ v \in Vcpus /\ LoopOK(lr, f) /\ UserOK(lr, curr, f)
  BY <1>0, <1>1, LrFacts
<1>3. f.dad \in Cells /\ f.last \in Cells /\ a \in [Cells -> Entry]
  BY <1>0, <1>2 DEF Frame, IInv, Typed
<1>4. ASSUME NEW g, g.pc = f.pc, g.v = v, g.to = f.to
      PROVE  LoopOK(lr, g) /\ UserOK(lr, curr', g)
  BY <1>0, <1>1, <1>2, <1>4 DEF LoopOK, SortPcs, UserOK
<1>5. CASE /\ SinksInto(a, f.dad, f.last)
           /\ list' = [list EXCEPT ![v] = Swapped(a, f.dad, s)]
           /\ Goto(c, [f EXCEPT !.dad = s])
  <2>1. s \in Cells
    BY <1>0, <1>3, <1>5, SonInRange
  <2> DEFINE g == [f EXCEPT !.dad = s]
             b == Swapped(a, f.dad, s)
  <2>2. g.pc = f.pc /\ g.v = v /\ g.to = f.to /\ Goto(c, g)
    BY <1>0, <1>2, <1>5 DEF Frame
  <2>3. /\ \A i \in Cells : \E m \in Cells : b[i] = a[m]
        /\ \A m \in Cells : \E i \in Cells : b[i] = a[m]
    BY <1>3, <2>1, SwapCells
  <2>4. \A w \in Vcpus : list'[w] = IF w = v THEN b ELSE list[w]
    BY <1>5 DEF IInv, Typed
  <2> HIDE DEF g, b
  <2>5. /\ \A w \in Vcpus, j \in Cells : \E m \in Cells : list'[w][j] = list[w][m]
        /\ \A w \in Vcpus, m \in Cells : \E j \in Cells : list'[w][j] = list[w][m]
    <3>1. ASSUME NEW w \in Vcpus, w # v
          PROVE  list'[w] = list[w]
      BY <2>4, <3>1
    <3>2. list'[v] = b /\ list[v] = a
      BY <1>0, <1>2, <2>4
    <3> QED BY <2>3, <3>1, <3>2
  <2> QED BY <1>0, <1>1, <1>4, <2>2, <2>5, ReorderLr
<1>6. CASE Goto(c, [f EXCEPT !.pass = @ - 1, !.dad = 0]) /\ UNCHANGED list
  <2> DEFINE g == [f EXCEPT !.pass = @ - 1, !.dad = 0]
  <2>1. g.pc = f.pc /\ g.v = v /\ g.to = f.to /\ Goto(c, g)
    BY <1>0, <1>2, <1>6 DEF Frame
  <2> HIDE DEF g
  <2> QED BY <1>0, <1>1, <1>4, <1>6, <2>1, ReorderLr
<1> QED BY <1>0, <1>5, <1>6 DEF sift

LEMMA SortedLr ==
  ASSUME IInv, LrOK, NEW c \in Ctxts, sorted(c)
  PROVE  LrOK' /\ Kept
<1>0. PICK f, g : f = frame[c] /\ g = RestoreFrame(f) OBVIOUS
<1>1. f.pc = "sort" /\ Busy(c) /\ Goto(c, g) /\ UNCHANGED <<list, lr, curr>> /\ f.pc \notin SavePcs
  BY <1>0 DEF sorted, SortEnds, At, StartRestore, RestoreFrame, Busy, SavePcs
<1>2. f \in Frame /\ UserOK(lr, curr, f)
  BY <1>0, <1>1, LrFacts
<1>3. LoopOK(lr, g) /\ g.pc = "restore" /\ g.v = f.v /\ g.to = f.to
  BY <1>0, <1>2, LoopStarts, FrameFacts
<1>4. UserOK(lr, curr', g)
  BY <1>1, <1>2, <1>3 DEF UserOK
<1> QED BY <1>0, <1>1, <1>3, <1>4, ReorderLr

LEMMA RestoreLr ==
  ASSUME IInv, IInv', LrOK, spoilt = {}, spoilt' = {}, NEW c \in Ctxts, vgic_context_restore_lr(c)
  PROVE  LrOK' /\ Kept
<1>0. PICK f, v, i, a, n : f = frame[c] /\ v = f.v /\ i = f.i /\ a = list[v] /\ n = tail[v]
  OBVIOUS
<1>1. f.pc = "restore" /\ Busy(c) /\ i < NR_LR /\ UNCHANGED curr /\ f.pc \notin SavePcs
  BY <1>0 DEF vgic_context_restore_lr, At, Busy, SavePcs
<1>2. /\ f \in Frame /\ v \in Vcpus /\ f.rm <= i /\ \A d \in Ctxts : d # c => ~ Busy(d)
      /\ RegsOK(list, lr) /\ NoBoth(list, lr) /\ LoopOK(lr, f)
      /\ UserOK(lr, curr, f) /\ OwnerOK(lr, v)
  BY <1>0, <1>1, LrFacts, CallFacts DEF UserOK
<1>3. /\ i \in Lrs /\ i \in Int /\ i + 1 \in 0 .. NR_LR /\ NR_LR \in 0 .. NR_LR
      /\ f.rm \in Cells /\ f.rm \in Nat
  BY <1>0, <1>1, <1>2, LrConstants DEF Frame, Lrs, Cells
<1>4. /\ a \in [Cells -> Entry] /\ n \in Nat /\ n <= GIC_LR_LIST_NUM
      /\ Packed(a, n) /\ OneEach(a)
  <2>1. \A d \in Ctxts : frame[d].pc \notin InsertPcs
    BY <1>0, <1>1, <1>2 DEF InsertPcs, Busy
  <2> QED BY <1>0, <1>2, <2>1, OrderlyLists
<1>5. ASSUME NEW r, NEW g, g.pc = "restore", g.i \in Int, g.i > i, g.elrsr = f.elrsr,
             g.v = v, g.to = f.to, OwnerOK(r, v),
             \A k \in Lrs : k # i => r[k] = lr[k]
      PROVE  LoopOK(r, g) /\ UserOK(r, curr', g)
  <2>1. ASSUME NEW k \in Lrs, k >= g.i
        PROVE  k # i /\ k >= i
    BY <1>3, <1>5, <2>1 DEF Lrs
  <2>2. UserOK(r, curr', g)
    BY <1>0, <1>1, <1>2, <1>5 DEF UserOK
  <2> QED BY <1>0, <1>1, <1>2, <1>5, <2>1, <2>2 DEF LoopOK, FreeIn
<1>6. ASSUME NEW k \in {i + 1, NR_LR}, Goto(c, [f EXCEPT !.i = k]), UNCHANGED <<list, tail, lr>>
      PROVE  LrOK' /\ Kept
  <2> DEFINE g == [f EXCEPT !.i = k]
  <2>1. g.pc = "restore" /\ g.i = k /\ g.elrsr = f.elrsr /\ g.v = v /\ g.to = f.to /\ Goto(c, g)
    BY <1>0, <1>1, <1>2, <1>6 DEF Frame
  <2> HIDE DEF g
  <2>2. g.i \in Int /\ g.i > i
    BY <1>1, <1>3, <1>6, <2>1, LrConstants
  <2>3. LoopOK(lr, g) /\ UserOK(lr, curr', g)
    BY <1>2, <1>5, <2>1, <2>2
  <2> QED BY <1>0, <1>1, <1>6, <2>1, <2>3, ReorderLr
<1>7. CASE /\ i \in f.elrsr /\ a[f.rm].res0 /\ f.rm < n
           /\ lr' = [lr EXCEPT ![i] = a[f.rm]]
           /\ list' = [list EXCEPT ![v] = Removed(a, f.rm, n)]
           /\ Goto(c, [f EXCEPT !.i = i + 1, !.rm = @ + 1])
  <2> DEFINE g == [f EXCEPT !.i = i + 1, !.rm = @ + 1]
             b == Removed(a, f.rm, n)
             e == a[f.rm]
  <2>1. g.pc = "restore" /\ g.i = i + 1 /\ g.elrsr = f.elrsr /\ g.v = v /\ g.to = f.to /\ Goto(c, g)
    BY <1>0, <1>1, <1>2, <1>7 DEF Frame
  <2>2. /\ \A j \in Cells : b[j] = ZERO \/ \E m \in Cells \ {f.rm} : b[j] = a[m]
        /\ \A m \in Cells \ {f.rm} : a[m].res0 => \E j \in Cells : b[j] = a[m]
    <3>1. n \in 1 .. GIC_LR_LIST_NUM
      BY <1>3, <1>4, <1>7, LrConstants
    <3> QED BY <1>3, <1>4, <1>7, <3>1, RemoveCells
  <2>3. /\ \A k \in Lrs : lr'[k] = IF k = i THEN e ELSE lr[k]
        /\ \A w \in Vcpus : list'[w] = IF w = v THEN b ELSE list[w]
    BY <1>2, <1>3, <1>7 DEF IInv, Typed
  <2>4. FreeIn(lr, i)
    BY <1>0, <1>1, <1>2, <1>3, <1>7 DEF LoopOK
  <2>5. ~ ZERO.res0 /\ ZERO.stat = "inactive"
    BY DEF ZERO
  <2>6. e.own = v /\ Named(e)
    BY <1>0, <1>2, <1>3, <1>7 DEF RegsOK
  <2>7. \A k \in Lrs : ~ FreeIn(lr, k) => lr[k].vint # e.vint
    BY <1>0, <1>2, <1>3, <1>7 DEF NoBoth, Both, OwnerOK
  <2>8. \A m \in Cells \ {f.rm} : a[m].res0 => a[m].vint # e.vint
    BY <1>3, <1>4, <1>7 DEF OneEach
  <2>9. OwnerOK(lr', v)
    BY <1>2, <2>3, <2>6 DEF OwnerOK, FreeIn
  <2> HIDE DEF g, b, e
  <2>10. NoBoth(list', lr')
    <3>1. ASSUME NEW w \in Vcpus, NEW j \in Cells, NEW k \in Lrs, Both(list', lr', w, j, k)
          PROVE  FALSE
      <4>1. w = v /\ b[j].res0 /\ ~ FreeIn(lr', k) /\ b[j].vint = lr'[k].vint
        BY <2>3, <2>9, <3>1 DEF Both, OwnerOK
      <4>2. PICK m \in Cells \ {f.rm} : b[j] = a[m]
        BY <2>2, <2>5, <4>1
      <4>3. CASE k = i
        BY <2>3, <2>8, <4>1, <4>2, <4>3
      <4>4. CASE k # i
        <5>1. ~ FreeIn(lr, k) /\ lr[k].own = v /\ a[m].res0 /\ a[m].vint = lr[k].vint
          BY <1>2, <2>3, <4>1, <4>2, <4>4 DEF FreeIn, OwnerOK
        <5> QED BY <1>0, <1>2, <5>1 DEF NoBoth, Both
      <4> QED BY <4>3, <4>4
    <3> QED BY <3>1 DEF NoBoth
  <2>11. RegsOK(list', lr')
    <3>1. Distinct(lr')
      BY <1>2, <2>3, <2>7 DEF RegsOK, Distinct, FreeIn
    <3>2. \A k \in Lrs : Named(lr'[k])
      BY <1>2, <2>3, <2>6 DEF RegsOK
    <3>3. \A w \in Vcpus, j \in Cells : Named(list'[w][j]) /\ (list'[w][j].res0 => list'[w][j].own = w)
      <4>1. \A m \in Cells : Named(a[m]) /\ (a[m].res0 => a[m].own = v)
        BY <1>0, <1>2 DEF RegsOK
      <4>2. \A j \in Cells : Named(b[j]) /\ (b[j].res0 => b[j].own = v)
        BY <2>2, <2>5, <4>1 DEF Named
      <4> QED BY <1>2, <2>3, <4>2 DEF RegsOK
    <3> QED BY <2>10, <3>1, <3>2, <3>3 DEF RegsOK, NoBoth
  <2>12. LoopOK(lr', g) /\ UserOK(lr', curr', g)
    <3>1. g.i \in Int /\ g.i > i /\ \A k \in Lrs : k # i => lr'[k] = lr[k]
      BY <1>3, <2>1, <2>3
    <3> QED BY <1>5, <2>1, <2>9, <3>1
  <2>13. LrOK'
    BY <1>2, <2>1, <2>10, <2>11, <2>12, StepKeepsLr
  <2>14. Kept
    <3>1. ASSUME NEW w \in Vcpus, NEW m \in Cells, list[w][m].res0, list[w][m].stat = "pending"
          PROVE  list[w][m].vint \in PendingOf(w, list', lr')
      <4>1. CASE w = v /\ m = f.rm
        <5>1. lr'[i] = list[w][m] /\ lr'[i].own = w
          BY <1>0, <1>3, <2>3, <2>6, <4>1 DEF e
        <5> QED BY <1>3, <3>1, <5>1, InPending
      <4>2. CASE w = v /\ m # f.rm
        <5>1. PICK j \in Cells : list'[w][j] = list[w][m]
          BY <1>0, <2>2, <2>3, <3>1, <4>2
        <5> QED BY <3>1, <5>1, InPending
      <4>3. CASE w # v
        <5>1. list'[w] = list[w]
          BY <2>3, <4>3
        <5> QED BY <3>1, <5>1, InPending
      <4> QED BY <4>1, <4>2, <4>3
    <3>2. ASSUME NEW w \in Vcpus, NEW k \in Lrs, lr[k].stat = "pending", lr[k].own = w
          PROVE  lr[k].vint \in PendingOf(w, list', lr')
      <4>1. lr'[k] = lr[k]
        BY <2>3, <2>4, <3>2 DEF FreeIn
      <4> QED BY <3>2, <4>1, InPending
    <3> QED BY <3>1, <3>2, KeptWhen
  <2> QED BY <2>13, <2>14
<1>8. CASE Stop(c, f)
  BY <1>2, <1>8, NoStop
<1> QED BY <1>0, <1>6, <1>7, <1>8 DEF vgic_context_restore_lr

LEMMA RestoredLr ==
  ASSUME IInv, IInv', LrOK, spoilt = {}, spoilt' = {}, NEW c \in Ctxts, restored(c) \/ resorted(c)
  PROVE  LrOK' /\ Kept
<1>0. PICK f, n : f = frame[c] /\ n = tail[f.v] OBVIOUS
<1>1. f.pc \in {"restore", "resort"} /\ Busy(c) /\ UNCHANGED <<list, lr>> /\ f.pc \notin SavePcs
  BY <1>0 DEF restored, resorted, SortEnds, At, Busy, SavePcs
<1>2. f \in Frame /\ f.v \in Vcpus /\ UserOK(lr, curr, f) /\ OwnerOK(lr, f.v) /\ f.pc # "idle"
  BY <1>0, <1>1, LrFacts DEF UserOK
<1>3. PICK g : Goto(c, g) /\ LoopOK(lr, g) /\ UserOK(lr, curr', g)
  <2>1. CASE Goto(c, NoFrame) /\ (curr' = curr \/ curr' = f.to)
    <3>1. UserOK(lr, curr', NoFrame)
      BY <1>2, <2>1 DEF UserOK, NoFrame
    <3> QED BY <1>2, <2>1, <3>1, LoopStarts
  <2>2. CASE n > 0 /\ StartSort(c, f, "resort", n) /\ UNCHANGED curr
    <3>1. n \in 1 .. GIC_LR_LIST_NUM /\ "resort" \in SortPcs /\ Goto(c, SortFrom(f, "resort", n))
      BY <1>0, <1>2, <2>2, OrderlyLists, NoStop, LrConstants DEF StartSort, SortPcs
    <3> DEFINE g == SortFrom(f, "resort", n)
    <3>2. g.pc = "resort" /\ g.v = f.v /\ g.to = f.to
      BY <1>2, <3>1, SortFrame
    <3> HIDE DEF g
    <3>3. LoopOK(lr, g) /\ UserOK(lr, curr', g)
      BY <1>2, <2>2, <3>2 DEF LoopOK, UserOK
    <3> QED BY <3>1, <3>3 DEF g
  <2>3. CASE StartRestore(c, [f EXCEPT !.to = f.v]) /\ UNCHANGED curr
    <3> DEFINE h == [f EXCEPT !.to = f.v]
               g == RestoreFrame(h)
    <3>1. h \in Frame /\ h.v = f.v /\ h.to = f.v
      BY <1>2 DEF Frame, Threads
    <3> HIDE DEF h
    <3>2. Goto(c, g) /\ LoopOK(lr, g) /\ g.pc = "restore" /\ g.v = f.v /\ g.to = f.v
      BY <2>3, <3>1, LoopStarts, FrameFacts DEF StartRestore, RestoreFrame, h
    <3> HIDE DEF g
    <3>3. UserOK(lr, curr', g)
      BY <1>2, <2>3, <3>2 DEF UserOK
    <3> QED BY <3>2, <3>3
  <2>4. CASE Finish(c)
    BY <1>0, <2>1, <2>3, <2>4 DEF Finish
  <2> QED BY <1>0, <2>2, <2>4 DEF restored, resorted
<1> QED BY <1>0, <1>1, <1>3, ReorderLr

LEMMA CallLr ==
  ASSUME IInv, IInv', LrOK, spoilt = {}, spoilt' = {}, NEW c \in Ctxts, Call(c)
  PROVE  LrOK' /\ Kept
BY InsertLr, SaveLr, SavedLr, SiftLr, SortedLr, RestoreLr, RestoredLr DEF Call, SortPcs

LEMMA SwitchLr ==
  ASSUME IInv, LrOK, Quiet, NEW t \in Threads, switch_hook(t), ~ mixed', UNCHANGED <<list, lr>>
  PROVE  LrOK' /\ Kept
<1>1. /\ "irq" \in Ctxts /\ (\A d \in Ctxts : ~ Busy(d))
      /\ RegsOK(list, lr) /\ NoBoth(list, lr) /\ (curr \in Vcpus => OwnerOK(lr, curr))
  BY QuietFacts DEF Quiet, Ctxts
<1>2. t \in Vcpus => OwnerOK(lr, t)
  BY NotOthers DEF switch_hook
<1>3. ASSUME NEW g, Goto("irq", g), LoopOK(lr, g), UserOK(lr, curr', g)
      PROVE  LrOK' /\ Kept
  BY <1>1, <1>3, StepKeepsLr, KeptSame
<1>4. CASE /\ curr \in Vcpus /\ t \notin Vcpus /\ UNCHANGED curr
           /\ StartSave("irq", [NoFrame EXCEPT !.v = curr, !.to = t])
  <2> DEFINE h == [NoFrame EXCEPT !.v = curr, !.to = t]
             g == SaveFrame(h)
  <2>1. h \in Frame /\ h.v = curr /\ h.to = t
    BY <1>4, FreshFrames
  <2> HIDE DEF h
  <2>2. Goto("irq", g) /\ LoopOK(lr, g) /\ g.v = curr /\ g.to = t
    BY <1>4, <2>1, LoopStarts, FrameFacts DEF StartSave, SaveFrame, h
  <2> HIDE DEF g
  <2>3. UserOK(lr, curr', g)
    BY <1>1, <1>4, <2>2 DEF UserOK
  <2> QED BY <1>3, <2>2, <2>3
<1>5. CASE /\ curr \notin Vcpus /\ t \in Vcpus /\ UNCHANGED curr
           /\ StartRestore("irq", [NoFrame EXCEPT !.v = t, !.to = t])
  <2> DEFINE h == [NoFrame EXCEPT !.v = t, !.to = t]
             g == RestoreFrame(h)
  <2>1. h \in Frame /\ h.v = t /\ h.to = t
    BY <1>5, FreshFrames
  <2> HIDE DEF h
  <2>2. Goto("irq", g) /\ LoopOK(lr, g) /\ g.v = t /\ g.to = t
    BY <1>5, <2>1, LoopStarts, FrameFacts DEF StartRestore, RestoreFrame, h
  <2> HIDE DEF g
  <2>3. UserOK(lr, curr', g)
    BY <1>2, <1>5, <2>2 DEF UserOK
  <2> QED BY <1>3, <2>2, <2>3
<1>6. CASE curr' = t /\ UNCHANGED frame
  <2>1. \A c \in Ctxts : UserOK(lr', curr', frame'[c]) /\ LoopOK(lr', frame'[c])
    BY <1>1, <1>2, <1>6 DEF UserOK, LrOK, Busy
  <2>2. LrOK'
    BY <1>1, <1>6, <2>1 DEF LrOK, Busy
  <2> QED BY <2>2, KeptSame
<1> QED BY <1>4, <1>5, <1>6 DEF switch_hook

(* The guest acknowledges or deactivates a vIRQ.                           *)
LEMMA GuestLr ==
  ASSUME IInv, LrOK, NEW i \in Lrs, guest_acks(i) \/ guest_eois(i)
  PROVE  LrOK' /\ Kept
<1>1. /\ UNCHANGED <<list, frame, curr>> /\ Quiet /\ curr \in Vcpus
      /\ lr[i].stat \in {"pending", "active"}
  BY DEF guest_acks, guest_eois, Guest
<1>2. /\ \A k \in Lrs : k # i => lr'[k] = lr[k]
      /\ \/ lr'[i].stat = "inactive" /\ lr[i].stat = "active"
         \/ /\ lr'[i].stat = "active"
            /\ lr'[i].vint = lr[i].vint /\ lr'[i].own = lr[i].own
  <2>1. CASE guest_acks(i)
    <3>1. lr' = [lr EXCEPT ![i] = [lr[i] EXCEPT !.stat = "active"]] /\ lr[i] \in Entry
      BY <2>1 DEF guest_acks, IInv, Typed
    <3>2. lr'[i] = [lr[i] EXCEPT !.stat = "active"] /\ \A k \in Lrs : k # i => lr'[k] = lr[k]
      BY <3>1 DEF IInv, Typed
    <3> QED BY <3>1, <3>2 DEF Entry
  <2>2. CASE guest_eois(i)
    BY <2>2 DEF guest_eois, IInv, Typed, ZERO
  <2> QED BY <2>1, <2>2
<1>3. RegsOK(list, lr) /\ NoBoth(list, lr) /\ OwnerOK(lr, curr)
  BY <1>1, QuietFacts
<1>4. NoBoth(list', lr')
  BY <1>1, <1>2, <1>3 DEF NoBoth, Both, FreeIn
<1>5. RegsOK(list', lr')
  <2>1. Distinct(lr') /\ \A k \in Lrs : Named(lr'[k])
    BY <1>1, <1>2, <1>3 DEF RegsOK, Distinct, Named, FreeIn
  <2> QED BY <1>1, <1>3, <1>4, <2>1 DEF RegsOK, NoBoth
<1>6. OwnerOK(lr', curr)
  BY <1>1, <1>2, <1>3 DEF OwnerOK, FreeIn
<1>7. LrOK'
  <2>1. \A c \in Ctxts : frame[c].pc = "idle"
    BY <1>1 DEF Quiet, Busy
  <2>2. \A c \in Ctxts : LoopOK(lr', frame'[c]) /\ UserOK(lr', curr', frame'[c])
    BY <1>1, <1>6, <2>1 DEF LoopOK, UserOK
  <2>3. \A c, d \in Ctxts : Busy(c)' /\ Busy(d)' => c = d
    BY <1>1, <2>1 DEF Busy
  <2> QED BY <1>4, <1>5, <2>2, <2>3 DEF LrOK
<1>8. Kept
  <2>1. ASSUME NEW v \in Vcpus, NEW k \in Lrs, lr[k].stat = "pending", lr[k].own = v
        PROVE  lr[k].vint \in PendingOf(v, list', lr') \/ Acked(v, k)
    <3>1. CASE k = i
      BY <1>2, <1>3, <2>1, <3>1 DEF Acked, OwnerOK, FreeIn
    <3>2. CASE k # i
      <4>1. lr'[k] = lr[k]
        BY <1>2, <3>2
      <4> QED BY <2>1, <4>1, InPending
    <3> QED BY <3>1, <3>2
  <2>2. \A v \in Vcpus, j \in Cells : list[v][j].res0 /\ list[v][j].stat = "pending" =>
          list[v][j].vint \in PendingOf(v, list', lr')
    BY <1>1, InPending
  <2> QED BY <2>1, <2>2, KeptWhen
<1> QED BY <1>7, <1>8

LEMMA NextLr ==
  ASSUME IInv, LrInv, Next, Orderly'
  PROVE  LrOK' /\ Kept
<1>0. IInv' /\ spoilt' = {} /\ ~ mixed' /\ Typed
  BY NextStep DEF Orderly, IInv
<1>1. Orderly => LrOK
  BY DEF LrInv
<1>2. ASSUME UNCHANGED ghosts
      PROVE  Orderly /\ LrOK
  BY <1>1, <1>2 DEF ghosts, Orderly
<1>3. ASSUME NEW c \in Ctxts, Call(c)
      PROVE  LrOK' /\ Kept
  <2>1. Orderly /\ LrOK
    BY <1>2, <1>3 DEF Call
  <2> QED BY <1>0, <1>3, <2>1, CallLr DEF Orderly
<1>4. ASSUME NEW c \in Ctxts, NEW v \in Vcpus, NEW q \in Virqs, vgic_inject(c, v, q)
      PROVE  LrOK' /\ Kept
  <2>1. Noted(v) \/ UNCHANGED ghosts
    BY <1>4 DEF vgic_inject
  <2>2. CASE Noted(v)
    <3>1. spoilt \subseteq spoilt' /\ (mixed => mixed')
      BY <2>2 DEF Noted
    <3> QED BY <1>0, <1>1, <1>4, <3>1, InjectLr DEF Orderly
  <2>3. CASE UNCHANGED ghosts
    BY <1>0, <1>2, <1>4, <2>3, InjectLr
  <2> QED BY <2>1, <2>2, <2>3
<1>5. ASSUME NEW v \in Vcpus, NEW q \in Virqs, rt_hw_trap_irq(v, q)
      PROVE  LrOK' /\ Kept
  BY <1>4, <1>5 DEF rt_hw_trap_irq, Ctxts
<1>6. ASSUME NEW v \in Vcpus, ptimer_timeout_function(v)
      PROVE  LrOK' /\ Kept
  BY <1>4, <1>6 DEF ptimer_timeout_function, Ctxts, Virqs
<1>7. ASSUME UNCHANGED <<list, lr, frame, curr, ghosts>>
      PROVE  LrOK' /\ Kept
  <2>1. LrOK
    BY <1>2, <1>7
  <2> QED BY <1>7, <2>1, KeptSame DEF LrOK, Busy
<1>8. ASSUME NEW v \in Vcpus, vcpu_go(v)
      PROVE  LrOK' /\ Kept
  BY <1>7, <1>8 DEF vcpu_go
<1>9. ASSUME Quiet, NEW t \in Threads, switch_hook(t), UNCHANGED <<list, lr>>
      PROVE  LrOK' /\ Kept
  <2>1. Orderly
    BY <1>0, <1>9 DEF switch_hook, Orderly
  <2> QED BY <1>0, <1>1, <1>9, <2>1, SwitchLr
<1>10. CASE host_wakes
  BY <1>9, <1>10 DEF host_wakes, Threads
<1>11. CASE host_waits
  BY <1>0, <1>9, <1>11 DEF host_waits, NextOf, Threads, Typed
<1>12. CASE tick
  BY <1>0, <1>9, <1>12 DEF tick, Threads, Typed
<1>13. CASE vcpu_suspend
  BY <1>0, <1>9, <1>13 DEF vcpu_suspend, NextOf, Threads, Typed
<1>14. ASSUME NEW q \in Virqs, guest_enables(q) \/ guest_disables(q)
       PROVE  LrOK' /\ Kept
  BY <1>7, <1>14 DEF guest_enables, guest_disables
<1>15. ASSUME NEW q \in Virqs, NEW p \in Prios, guest_sets_prio(q, p)
       PROVE  LrOK' /\ Kept
  BY <1>7, <1>15 DEF guest_sets_prio
<1>16. ASSUME NEW i \in Lrs, guest_acks(i) \/ guest_eois(i)
       PROVE  LrOK' /\ Kept
  <2>1. LrOK
    BY <1>2, <1>16 DEF guest_acks, guest_eois
  <2> QED BY <1>16, <2>1, GuestLr
<1> QED BY <1>3, <1>5, <1>6, <1>8, <1>10, <1>11, <1>12, <1>13, <1>14, <1>15, <1>16 DEF Next

LEMMA InitLr ==
  ASSUME Init
  PROVE  LrInv
<1>1. ZERO.stat = "inactive" /\ ~ ZERO.res0 /\ NoFrame.pc = "idle"
  BY DEF ZERO, NoFrame
<1>2. /\ \A i \in Lrs : lr[i] = ZERO
      /\ \A v \in Vcpus, j \in Cells : list[v][j] = ZERO
      /\ \A c \in Ctxts : frame[c].pc = "idle"
      /\ curr \notin Vcpus
  BY <1>1, LrNames DEF Init
<1>3. RegsOK(list, lr) /\ NoBoth(list, lr)
  BY <1>1, <1>2 DEF RegsOK, Distinct, Named, Both, NoBoth, FreeIn
<1>4. \A c \in Ctxts : ~ Busy(c) /\ LoopOK(lr, frame[c]) /\ UserOK(lr, curr, frame[c])
  BY <1>2 DEF LoopOK, UserOK, Busy
<1> QED BY <1>3, <1>4 DEF LrInv, LrOK

LEMMA LrInvSafe ==
  ASSUME IInv, LrInv
  PROVE  LrsDistinct /\ NotInBoth
<1>1. LrsDistinct
  BY DEF LrInv, LrOK, RegsOK, Distinct, LrsDistinct, FreeIn
<1>2. ASSUME Orderly, Quiet, NEW v \in Vcpus, NEW i \in Lrs, lr[i].stat # "inactive", lr[i].own = v
      PROVE  ~ vgic_is_lr_in_list(v, lr[i])
  <2>1. NoBoth(list, lr)
    BY <1>2, QuietFacts DEF LrInv
  <2>2. Packed(list[v], tail[v])
    <3>1. \A c \in Ctxts : frame[c].pc \notin InsertPcs
      BY <1>2 DEF Quiet, Busy, InsertPcs
    <3> QED BY <1>2, <3>1, OrderlyLists DEF Orderly
  <2> QED BY <1>2, <2>1, <2>2 DEF NoBoth, Both, FreeIn, vgic_is_lr_in_list, Packed
<1> QED BY <1>1, <1>2 DEF NotInBoth

(* While no list is spoilt and the registers serve one vCPU and one call   *)
(* at a time, the list registers never hold a vIRQ twice, between calls no *)
(* vIRQ of a vCPU is in a register and in its list, and no save, sort,     *)
(* refill or second injection loses a vIRQ its guest has not acknowledged, *)
(* except a save that finds the list full. For any number of vCPUs,        *)
(* registers, cells, vIRQs, priorities and nested calls.                   *)
THEOREM DeliveryCorrect ==
  /\ Spec => [](LrsDistinct /\ NotInBoth)
  /\ Spec => PendingKept
<1> DEFINE Inv == IInv /\ LrInv
<1>1. Init => Inv
  BY InitList, InitLr
<1>2. Inv /\ [Next]_vars => Inv'
  <2>1. ASSUME Inv, UNCHANGED vars
        PROVE  Inv'
    <3>1. IInv'
      BY <2>1, GuestStep DEF vars, ghosts, IInv, Typed
    <3>2. LrInv'
      BY <2>1 DEF vars, ghosts, LrInv, LrOK, Orderly, Busy
    <3> QED BY <3>1, <3>2
  <2>2. ASSUME Inv, Next
        PROVE  Inv'
    BY <2>2, NextStep, NextLr DEF LrInv
  <2> QED BY <2>1, <2>2
<1>3. Inv => LrsDistinct /\ NotInBoth
  BY LrInvSafe
<1>4. Spec => []Inv
  BY <1>1, <1>2, PTL DEF Spec
<1>5. Spec => [](LrsDistinct /\ NotInBoth)
  BY <1>3, <1>4, PTL
<1>6. Inv /\ [Next]_vars =>
        [Orderly' => \A v \in Vcpus : \A q \in PendingOf(v, list, lr) \ PendingOf(v, list', lr') :
           \E i \in Lrs : lr[i].vint = q /\ lr[i].own = v /\ (Acked(v, i) \/ Dropped(v, i))]_vars
  BY NextLr DEF Kept
<1>7. Spec => PendingKept
  BY <1>4, <1>6, PTL DEF Spec, PendingKept
<1> QED BY <1>5, <1>7
=============================================================================
