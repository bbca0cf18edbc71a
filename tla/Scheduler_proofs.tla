---------------------------- MODULE Scheduler_proofs ----------------------------
(***************************************************************************)
(* A task is called early only when the sum of its last call and its       *)
(* period wraps, and late only when it fell due within a round of the end  *)
(* of the counter, for any tasks and periods and any width of the counter. *)
(***************************************************************************)
EXTENDS Scheduler, TLAPS

(* What the counter says has passed since the last call of a task; it is   *)
(* the time that has really passed until the counter has gone all round.   *)
Elapsed(t) == IF clock >= last[t] THEN clock - last[t] ELSE clock + Wrap - last[t]

IInv == TypeOK /\ \A t \in Tasks : Elapsed(t) <= waited[t]

(* Addition of uint32_t stays within its width.                            *)
LEMMA PlusType ==
  ASSUME NEW a \in Clock, NEW b \in Clock
  PROVE  Plus(a, b) \in Clock
BY SchedulerAssumption DEF Clock, Plus

(* A waiting time is counted up to the horizon.                            *)
LEMMA LongerType ==
  ASSUME NEW w \in 0 .. Horizon, NEW d \in Nat
  PROVE  Longer(w, d) \in 0 .. Horizon
BY SchedulerAssumption DEF Longer

(* The counter and the waiting time go on together: after d milliseconds   *)
(* less than one turn of the counter, what it shows is at most what has    *)
(* passed.                                                                 *)
LEMMA ElapsedGoesOn ==
  ASSUME NEW c \in Clock, NEW l \in Clock, NEW w \in 0 .. Horizon, NEW d \in 0 .. Wrap - 1,
         (IF c >= l THEN c - l ELSE c + Wrap - l) <= w
  PROVE  (IF Plus(c, d) >= l THEN Plus(c, d) - l ELSE Plus(c, d) + Wrap - l) <= Longer(w, d)
BY SchedulerAssumption DEF Clock, Plus, Longer

LEMMA InitIInv == Init => IInv
BY SchedulerAssumption DEF Init, IInv, TypeOK, Elapsed, Tasks, Clock

LEMMA VisitIInv ==
  ASSUME IInv, NEW t \in Tasks, NEW d \in 0 .. Blocking, Visit(t, d)
  PROVE  IInv'
<1> USE DEF IInv
<1>1. d \in Nat /\ d \in Clock /\ d \in 0 .. Wrap - 1
  BY SchedulerAssumption DEF Clock
<1>2. clock' = Plus(clock, d) /\ clock' \in Clock
  BY <1>1, PlusType DEF Visit, Later, TypeOK
<1>3. last' \in [Tasks -> Clock]
  BY DEF Visit, TypeOK
<1>4. turn' \in Tasks
  BY SchedulerAssumption DEF Visit, TypeOK, Tasks
<1>5. waited' \in [Tasks -> 0 .. Horizon]
  <2>1. ASSUME NEW u \in Tasks
        PROVE  Longer(IF u = t /\ Due(t) THEN 0 ELSE waited[u], d) \in 0 .. Horizon
    <3>1. (IF u = t /\ Due(t) THEN 0 ELSE waited[u]) \in 0 .. Horizon
      BY SchedulerAssumption DEF TypeOK
    <3> QED BY <1>1, <3>1, LongerType
  <2> QED BY <2>1 DEF Visit
<1>6. ASSUME NEW u \in Tasks PROVE Elapsed(u)' <= waited'[u]
  <2>1. CASE u = t /\ Due(t)
    <3>1. last'[u] = clock /\ waited'[u] = Longer(0, d)
      BY <2>1 DEF Visit, TypeOK
    <3>2. (IF clock >= clock THEN clock - clock ELSE clock + Wrap - clock) <= 0
      BY DEF TypeOK, Clock
    <3> QED BY <1>1, <1>2, <3>1, <3>2, ElapsedGoesOn, SchedulerAssumption DEF Elapsed, TypeOK
  <2>2. CASE ~(u = t /\ Due(t))
    <3>1. last'[u] = last[u] /\ waited'[u] = Longer(waited[u], d)
      BY <2>2 DEF Visit, TypeOK
    <3> QED BY <1>1, <1>2, <3>1, ElapsedGoesOn DEF Elapsed, TypeOK
  <2> QED BY <2>1, <2>2
<1> QED BY <1>2, <1>3, <1>4, <1>5, <1>6 DEF TypeOK

LEMMA NextIInv == IInv /\ [Next]_vars => IInv'
<1> SUFFICES ASSUME IInv, [Next]_vars PROVE IInv'
  OBVIOUS
<1>1. CASE Next
  BY <1>1, VisitIInv DEF Next
<1>2. CASE UNCHANGED vars
  BY <1>2 DEF vars, IInv, TypeOK, Elapsed
<1> QED BY <1>1, <1>2

LEMMA IInvInvariant == Spec => []IInv
BY InitIInv, NextIInv, PTL DEF Spec

(* Every variable keeps its type: the counter and the times of last calls  *)
(* their width (timer_config.c, scheduler.c).                              *)
THEOREM TypeCorrect == Spec => []TypeOK
BY IInvInvariant, PTL DEF IInv

(* A task whose sum does not wrap is never called before its period has    *)
(* passed (scheduler.c:39).                                                *)
THEOREM NeverTooOftenCorrect == Spec => []NeverTooOften
<1>1. IInv => NeverTooOften
  BY SchedulerAssumption
  DEF IInv, TypeOK, Elapsed, NeverTooOften, Called, SumWraps, Due, Plus, Clock
<1> QED BY <1>1, IInvInvariant, PTL

-----------------------------------------------------------------------------
(* Tasks that are late.                                                    *)

(* The visits paid since the last one to task t, this one included.        *)
Visits(t) == IF turn > t THEN turn - t ELSE turn - t + TaskNum

(* The task fell due within a round of the end of the counter.             *)
AtTheWrap(t) == last[t] + Rate[t] \in Wrap - TaskNum * Blocking .. Wrap - 1

(* The counter tells the time since the last call for as long as it has    *)
(* not gone all round, and a task that was not due at its last visit has   *)
(* waited for less than its period and the visits since.                   *)
LInv == /\ \A t \in Tasks : waited[t] < Wrap => Elapsed(t) = waited[t]
        /\ \A t \in Tasks : AtTheWrap(t) \/ waited[t] < Rate[t] + Visits(t) * Blocking

(* Some visits take no longer than a round.                                *)
LEMMA RoundLongest ==
  ASSUME NEW k \in 0 .. TaskNum
  PROVE  /\ k * Blocking \in Nat /\ TaskNum * Blocking \in Nat
         /\ k * Blocking <= TaskNum * Blocking
         /\ (k + 1) * Blocking = k * Blocking + Blocking
<1>1. TaskNum \in Nat /\ Blocking \in Nat /\ k \in Nat /\ TaskNum - k \in Nat
  BY SchedulerAssumption
<1>2. k * Blocking \in Nat /\ TaskNum * Blocking \in Nat /\ (TaskNum - k) * Blocking \in Nat
  BY <1>1
<1>3. TaskNum * Blocking = k * Blocking + (TaskNum - k) * Blocking
  BY <1>1
<1>4. (k + 1) * Blocking = k * Blocking + Blocking
  BY <1>1
<1> QED BY <1>2, <1>3, <1>4

LEMMA InitLInv == Init => LInv
<1> SUFFICES ASSUME Init PROVE LInv
  OBVIOUS
<1>1. ASSUME NEW t \in Tasks PROVE waited[t] < Rate[t] + Visits(t) * Blocking
  <2>1. Visits(t) \in 0 .. TaskNum
    BY SchedulerAssumption DEF Init, Visits, Tasks
  <2>2. Visits(t) * Blocking \in Nat
    BY <2>1, RoundLongest
  <2>3. Rate[t] \in Nat \ {0} /\ waited[t] = 0
    BY SchedulerAssumption DEF Init, Clock
  <2> QED BY <2>2, <2>3
<1>2. ASSUME NEW t \in Tasks PROVE Elapsed(t) = waited[t]
  BY DEF Init, Elapsed
<1> QED BY <1>1, <1>2 DEF LInv

(* A task that is visited later than its period and is not due: its sum    *)
(* has not wrapped and the counter has.                                    *)
LEMMA LateVisit ==
  ASSUME TypeOK, NEW t \in Tasks, ~Due(t), Elapsed(t) = waited[t], waited[t] >= Rate[t],
         waited[t] < Rate[t] + TaskNum * Blocking
  PROVE  AtTheWrap(t)
<1>1. /\ clock \in 0 .. Wrap - 1 /\ last[t] \in 0 .. Wrap - 1 /\ Rate[t] \in 1 .. Wrap - 1
      /\ waited[t] \in Nat /\ Wrap \in Nat
  BY SchedulerAssumption DEF TypeOK, Clock
<1>2. TaskNum * Blocking \in Nat
  BY RoundLongest, SchedulerAssumption
<1> DEFINE round == TaskNum * Blocking
<1>3. Rate[t] + round < Wrap /\ waited[t] < Rate[t] + round /\ round \in Nat
  BY <1>2, ShortPeriods
<1>4. clock < IF Rate[t] + last[t] >= Wrap THEN Rate[t] + last[t] - Wrap ELSE Rate[t] + last[t]
  BY <1>1 DEF Due, Plus
<1>5. (IF clock >= last[t] THEN clock - last[t] ELSE clock + Wrap - last[t]) = waited[t]
  BY DEF Elapsed
<1> HIDE DEF round
<1>6. last[t] + Rate[t] \in Wrap - round .. Wrap - 1
  BY <1>1, <1>3, <1>4, <1>5
<1> QED BY <1>6 DEF AtTheWrap, round

LEMMA VisitLInv ==
  ASSUME IInv, LInv, NEW t \in Tasks, NEW d \in 0 .. Blocking, Visit(t, d)
  PROVE  LInv'
<1> USE SchedulerAssumption
<1>0. TypeOK /\ IInv' /\ d \in Nat /\ d <= Blocking /\ d < Wrap /\ Blocking \in Nat
  BY VisitIInv DEF IInv
<1>1. /\ clock \in 0 .. Wrap - 1 /\ clock' = Plus(clock, d) /\ turn = t
      /\ turn' = IF t = TaskNum THEN 1 ELSE t + 1
  BY <1>0 DEF TypeOK, Visit, Later, Clock
<1>2. ASSUME NEW u \in Tasks
      PROVE  /\ waited'[u] < Wrap => Elapsed(u)' = waited'[u]
             /\ AtTheWrap(u)' \/ waited'[u] < Rate[u] + Visits(u)' * Blocking
  <2>0. /\ last[u] \in 0 .. Wrap - 1 /\ waited[u] \in 0 .. Horizon
        /\ Rate[u] \in Nat \ {0} /\ Visits(u) \in 1 .. TaskNum /\ Visits(u)' \in 1 .. TaskNum
    BY <1>0, <1>1 DEF TypeOK, Clock, Visits, Tasks
  <2>1. /\ Visits(u) * Blocking \in Nat /\ Visits(u)' * Blocking \in Nat
    BY <2>0, RoundLongest
  <2>2. waited[u] < Wrap => Elapsed(u) = waited[u]
    BY DEF LInv
  <2>3. CASE u = t /\ Due(t)
    <3>1. last'[u] = clock /\ waited'[u] = Longer(0, d)
      BY <1>0, <2>3 DEF Visit, TypeOK
    <3>2. waited'[u] = d
      BY <1>0, <3>1 DEF Longer
    <3>3. Visits(u)' = 1
      BY <1>1, <2>3 DEF Visits, Tasks
    <3>4. waited'[u] < Rate[u] + Visits(u)' * Blocking
      BY <1>0, <2>0, <3>2, <3>3
    <3>5. Elapsed(u)' = d
      BY <1>0, <1>1, <3>1 DEF Elapsed, Plus
    <3> QED BY <3>2, <3>4, <3>5
  <2>4. CASE ~(u = t /\ Due(t))
    <3>1. last'[u] = last[u] /\ waited'[u] = Longer(waited[u], d)
      BY <1>0, <2>4 DEF Visit, TypeOK
    <3>2. waited'[u] < Wrap => waited'[u] = waited[u] + d /\ waited[u] < Wrap
      BY <1>0, <2>0, <3>1 DEF Longer
    <3>3. waited'[u] < Wrap => Elapsed(u)' = waited'[u]
      BY <1>0, <1>1, <2>0, <2>2, <3>1, <3>2 DEF Elapsed, Plus
    <3>4. waited'[u] <= waited[u] + d
      BY <1>0, <2>0, <3>1 DEF Longer
    <3>5. waited'[u] \in Nat
      <4>1. Longer(waited[u], d) \in 0 .. Horizon
        BY <1>0, <2>0, LongerType
      <4> QED BY <3>1, <4>1
    <3>6. CASE AtTheWrap(u)
      BY <3>1, <3>3, <3>6 DEF AtTheWrap
    <3>7. CASE ~AtTheWrap(u) /\ u # t
      <4>1. Visits(u)' = Visits(u) + 1 /\ Visits(u) \in 0 .. TaskNum
        BY <1>1, <2>0, <3>7 DEF Visits, Tasks
      <4>2. Visits(u)' * Blocking = Visits(u) * Blocking + Blocking
        BY <4>1, RoundLongest
      <4>3. waited[u] < Rate[u] + Visits(u) * Blocking
        BY <3>7 DEF LInv
      <4> QED BY <1>0, <2>0, <2>1, <3>3, <3>4, <3>5, <4>2, <4>3
    <3>8. CASE ~AtTheWrap(u) /\ u = t /\ ~Due(t)
      <4>1. Visits(u) = TaskNum /\ Visits(u)' = 1
        BY <1>1, <3>8 DEF Visits, Tasks
      <4>2. waited[u] < Rate[u] + TaskNum * Blocking
        BY <3>8, <4>1 DEF LInv
      <4>3. waited[u] < Wrap
        <5>1. TaskNum * Blocking \in Nat
          BY <2>1, <4>1
        <5> HIDE DEF Visits
        <5> QED BY <2>0, <4>2, <5>1, ShortPeriods
      <4>4. waited[u] < Rate[u]
        BY <1>0, <2>0, <2>2, <3>8, <4>2, <4>3, LateVisit
      <4>5. Visits(u)' * Blocking = Blocking
        BY <1>0, <4>1
      <4> QED BY <1>0, <2>0, <3>3, <3>4, <3>5, <4>4, <4>5
    <3> QED BY <2>4, <3>6, <3>7, <3>8
  <2> QED BY <2>3, <2>4
<1> QED BY <1>2 DEF LInv

LEMMA NextLInv == IInv /\ LInv /\ [Next]_vars => LInv'
<1> SUFFICES ASSUME IInv, LInv, [Next]_vars PROVE LInv'
  OBVIOUS
<1>1. CASE Next
  BY <1>1, VisitLInv DEF Next
<1>2. CASE UNCHANGED vars
  BY <1>2 DEF vars, LInv, Elapsed, AtTheWrap, Visits
<1> QED BY <1>1, <1>2

LEMMA LInvInvariant == Spec => []LInv
BY InitLInv, NextLInv, IInvInvariant, PTL DEF Spec

(* A task waits longer than its period and a round only when it fell due   *)
(* within a round of the end of the counter (scheduler.c:39).              *)
THEOREM OverdueCorrect == Spec => []OverdueOnlyAtTheWrap
<1>1. IInv /\ LInv => OverdueOnlyAtTheWrap
  <2> SUFFICES ASSUME IInv, LInv, NEW t \in Tasks, waited[t] >= Rate[t] + TaskNum * Blocking
               PROVE  AtTheWrap(t)
    BY DEF OverdueOnlyAtTheWrap, AtTheWrap
  <2>1. Visits(t) \in 0 .. TaskNum
    BY SchedulerAssumption DEF IInv, TypeOK, Visits, Tasks
  <2>2. /\ Visits(t) * Blocking \in Nat /\ TaskNum * Blocking \in Nat
        /\ Visits(t) * Blocking <= TaskNum * Blocking
    BY <2>1, RoundLongest
  <2>3. waited[t] \in Nat /\ Rate[t] \in Nat
    BY SchedulerAssumption DEF IInv, TypeOK, Clock
  <2> HIDE DEF Visits
  <2>4. ~(waited[t] < Rate[t] + Visits(t) * Blocking)
    BY <2>2, <2>3
  <2> QED BY <2>4 DEF LInv
<1> QED BY <1>1, IInvInvariant, LInvInvariant, PTL
================================================================================
