----------------------------- MODULE PrioProps -----------------------------
(***************************************************************************)
(* What the tasks under a priority scheduler may rely on.                  *)
(***************************************************************************)
EXTENDS PrioSched

Statuses == {EMPTY, READY, RUNNING, EXITED, SLEEPING}
Places   == {"run", "yield", "exit", "exited", "sleep", "armed"}

TypeOK ==
  /\ status \in [Tasks -> Statuses]
  /\ prio \in [Tasks -> Prios \cup {255}] /\ ts \in [Tasks -> Slices \cup {0}]
  /\ current \in Tasks \cup {OS} /\ cur_ts \in Nat
  /\ ctx \in [Tasks -> Places]
  /\ exec \in Tasks \cup {OS} /\ at \in Places
  /\ phase \in {"none", "check", "schedule"} /\ msip \in BOOLEAN
  /\ \A i \in DOMAIN timers :
       /\ timers[i].wakes \in Tasks \cup {OS} /\ timers[i].left \in Int
       /\ timers[i].prio \in Prios \cup {0} /\ timers[i].ts \in Slices \cup {0}

(* No task waits for one of lower priority: outside traps, whoever has the *)
(* hart has the highest priority among those that can run, and the OS loop *)
(* has it only if none can.  It holds from the tick on that wakes or       *)
(* creates a task.                                                         *)
RunsHighest ==
  phase = "none" =>
    \A t \in Tasks : Schedulable(t) => exec # OS /\ prio[exec] <= prio[t]

(* Whatever executes outside a trap is what the kernel takes it for, as    *)
(* task_yield, task_exit and task_sleep rely on: it is _current; and past  *)
(* task_exit it is EXITED and not resumed, even if its slot and context go *)
(* to a new task while the exit is under way.                              *)
CurrentIsCaller ==
  /\ TypeOK
  /\ phase = "none" /\ exec # OS => current = exec
  /\ phase = "none" /\ at \in {"exit", "exited"} => status[exec] = EXITED

(* A wakeup meets the task that went to sleep, still asleep, and once: no  *)
(* other task has got its slot, and none is made READY twice.              *)
WakeupsMeetSleepers ==
  \A i, j \in DOMAIN timers :
    timers[i].wakes # OS =>
      /\ status[timers[i].wakes] = SLEEPING
      /\ timers[i].wakes = timers[j].wakes => i = j

(* A sleeping task that has got through timer_create will be woken, as the *)
(* loops of user_task0 and user_task1 (user.c:125, :135) rely on.          *)
SleepersHaveTimers ==
  \A t \in Tasks :
    status[t] = SLEEPING /\ ~ (phase = "none" /\ exec = t /\ at = "sleep") =>
      \E i \in DOMAIN timers : timers[i].wakes = t

(* One timer fires per tick, in order of their time: the timer that is     *)
(* i-th in the queue is never more ticks late than there can be timers     *)
(* that had to fire before it.                                             *)
MostTimers == MaxTimers + MaxTasks
OversleepBound == \A i \in DOMAIN timers : timers[i].left >= i - MostTimers

(* A time slice is kept: a tick takes the hart from a task that could go   *)
(* on, and has not used up its slice, only for one of a higher priority    *)
(* (the comments at ex_15_1/sched.c:95).                                   *)
SlicesAreKept ==
  [][phase = "schedule" /\ current # OS /\ status[current] = RUNNING
       /\ cur_ts < ts[current] /\ current' # current
     => prio[current'] < prio[current]]_vars

(* The scan starts behind the task that was picked last, also among        *)
(* equals: a schedule that passes over a task no task outranks has picked  *)
(* one nearer in turn, and so at most MaxTasks of them do.                 *)
Distance(c, t) == IF t > c THEN t - c ELSE t - c + MaxTasks

TurnsComeNearer ==
  [][IF phase = "schedule"
     THEN \A t \in Tasks :
            Highest(t) => current' = t \/ Distance(current', t) < Distance(current, t)
     ELSE UNCHANGED current]_vars

(* Hence, as long as the clock ticks, a task that can run and that no task *)
(* can outrank is picked again and again.                                  *)
ClockTicks == WF_vars(timer_interrupt)
HighestIsPicked ==
  /\ TurnsComeNearer
  /\ ClockTicks =>
       \A t \in Tasks :
         <>[]Highest(t) => []<>(phase = "none" /\ exec = t)

(* ... and each time gets to execute, as a cycle (sched.c:60) has it: it   *)
(* is not picked with a software interrupt pending that takes the hart     *)
(* away at once.                                                           *)
HighestGetsTurns ==
  ClockTicks =>
    \A t \in Tasks :
      <>[]Highest(t) => []<>(phase = "none" /\ exec = t /\ ~ msip)
=============================================================================
