------------------------------ MODULE Scheduler ------------------------------
(***************************************************************************)
(* scheduler.c over the millisecond counter of timer_config.c: the main    *)
(* loop visits the tasks in turn and calls those that are due.  The        *)
(* counter and the sum it is compared with are unsigned and wrap, together *)
(* after 49.7 days, one by one before and after that moment.  What a task  *)
(* does is left out; it takes its time, and the counter goes on.           *)
(***************************************************************************)
EXTENDS Integers

CONSTANTS
  TaskNum,    \* task_num
  Rate,       \* rate_ms of each task
  Wrap,       \* values of the counter, 2^32 in the code
  Blocking,   \* bound: the time from one visit to the next
  Horizon     \* bound: waiting times are counted up to here

Tasks == 1 .. TaskNum
Clock == 0 .. Wrap - 1

ASSUME SchedulerAssumption ==
  /\ TaskNum \in Nat \ {0}
  /\ Wrap \in Nat \ {0}
  /\ Blocking \in 0 .. Wrap - 1
  /\ Rate \in [Tasks -> Clock \ {0}]
  /\ Horizon \in Nat /\ Horizon >= Wrap

\* The longest period is half a second, a turn of the counter 49.7 days.
ASSUME ShortPeriods == \A t \in Tasks : Rate[t] + TaskNum * Blocking < Wrap

VARIABLES
  clock,    \* g_millis_counter
  last,     \* last_run of each task
  turn,     \* the task visited next
  waited    \* the time that has really passed since the task was last called

vars == <<clock, last, turn, waited>>

Init ==
  /\ clock = 0
  /\ last = [t \in Tasks |-> 0]
  /\ turn = 1
  /\ waited = [t \in Tasks |-> 0]

\* Addition of uint32_t.
Plus(a, b) == IF a + b >= Wrap THEN a + b - Wrap ELSE a + b

\* Mutant: the sum is compared without its end.
DueAfter(t) == clock > Plus(Rate[t], last[t])

\* Mutant: the elapsed half of the period is enough.
DueEarly(t) == clock >= Plus(Rate[t], last[t]) - 1

Due(t) == clock >= Plus(Rate[t], last[t])

\* The counter after d milliseconds; TIM2's interrupt adds them one by one.
Later(d) == Plus(clock, d)

Longer(w, d) == IF w + d >= Horizon THEN Horizon ELSE w + d

\* One round of the loop of scheduler_run; d milliseconds until the next.
Visit(t, d) ==
  /\ turn = t
  /\ turn' = IF t = TaskNum THEN 1 ELSE t + 1
  /\ clock' = Later(d)
  /\ last' = IF Due(t) THEN [last EXCEPT ![t] = clock] ELSE last
  /\ waited' = [u \in Tasks |-> Longer(IF u = t /\ Due(t) THEN 0 ELSE waited[u], d)]

Next == \E t \in Tasks, d \in 0 .. Blocking : Visit(t, d)

Spec == Init /\ [][Next]_vars

-----------------------------------------------------------------------------
TypeOK ==
  /\ clock \in Clock
  /\ last \in [Tasks -> Clock]
  /\ turn \in Tasks
  /\ waited \in [Tasks -> 0 .. Horizon]

Called(t) == turn = t /\ Due(t)

(* The addition of scheduler.c:39 is over the end of the counter.          *)
SumWraps(t) == last[t] + Rate[t] >= Wrap

(* A task is called before its period has passed only when the sum of its  *)
(* last call and its period has wrapped and the counter has not: then it   *)
(* is called in every round (scheduler.c:39).                              *)
NeverTooOften == \A t \in Tasks : Called(t) /\ ~SumWraps(t) => waited[t] >= Rate[t]

(* A task waits longer than its period and a round of the loop only when   *)
(* it fell due within a round of the end of the counter, so that the       *)
(* counter wrapped before the task was visited (scheduler.c:39).           *)
OverdueOnlyAtTheWrap ==
  \A t \in Tasks :
    waited[t] >= Rate[t] + TaskNum * Blocking =>
      last[t] + Rate[t] \in Wrap - TaskNum * Blocking .. Wrap - 1
=============================================================================
