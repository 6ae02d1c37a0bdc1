----------------------------- MODULE PrioSched -----------------------------
(***************************************************************************)
(* The priority schedulers of exercises 13-1 and 15-1                      *)
(* (code/exercises/ex_15_1/sched.c and its callers in trap.c, timer.c):    *)
(* priorities, time slices, task_exit, task_sleep, tasks created by timer  *)
(* handlers, and an OS loop that runs when no task can.                    *)
(*                                                                         *)
(* The calls a task makes are interruptible between their statements;      *)
(* timer_create is not, it holds the interrupt lock.  A trap runs with     *)
(* interrupts off, so its phases are steps nothing comes between.  The     *)
(* saved context of a task is where in its calls it stopped (module Kernel *)
(* has the registers).  The timers are the sorted queue of timer_structs,  *)
(* each with the ticks that are left of it.                                *)
(*                                                                         *)
(* An operator x_... right before x is x with a slip a programmer could    *)
(* make, a mutant the properties are tried against.                        *)
(***************************************************************************)
EXTENDS Integers, Sequences

CONSTANTS MaxTasks,   \* MAX_TASKS
          Starters,   \* how many tasks os_main may create
          Prios,      \* values of prio, 0 the highest
          Slices,     \* values of ts
          Sleeps,     \* values of ticks
          MaxTimers,  \* bound: no task arms a timer beyond so many
          KeepsSlices \* schedule as in ex_13_1, without the assignment of
                      \* ex_15_1/sched.c:109

ASSUME PrioAssumption ==
  /\ MaxTasks \in Nat \ {0}
  /\ Starters \subseteq 0 .. MaxTasks
  /\ Prios \subseteq 0 .. 255 /\ Slices \subseteq Nat /\ Sleeps \subseteq Nat
  /\ MaxTimers \in Nat
  /\ KeepsSlices \in BOOLEAN

VARIABLES status,     \* task_status
          prio,       \* task_prios
          ts,         \* task_ts
          current,    \* _current
          cur_ts,     \* _cur_ts
          ctx,        \* ctx_tasks: where a task that does not run stopped
          exec, at,   \* the context mscratch points to, and where it is
          phase,      \* of the trap the hart is in
          msip,       \* the software interrupt is pending
          timers      \* the timer queue

tables == <<status, prio, ts>>
sched  == <<current, cur_ts>>
vars   == <<tables, sched, ctx, exec, at, phase, msip, timers>>

Tasks == 0 .. MaxTasks - 1
OS    == -1           \* exec: ctx_os, current: no task yet

EMPTY == "EMPTY"  READY == "READY"  RUNNING == "RUNNING"
EXITED == "EXITED"  SLEEPING == "SLEEPING"

(* start_kernel, about to call schedule: os_main has created some tasks.   *)
Init ==
  /\ \E n \in Starters :
       /\ status = [t \in Tasks |-> IF t < n THEN READY ELSE EMPTY]
       /\ prio \in {f \in [Tasks -> Prios \cup {255}] :
                      \A t \in Tasks : IF t < n THEN f[t] \in Prios ELSE f[t] = 255}
       /\ ts \in {f \in [Tasks -> Slices \cup {0}] :
                      \A t \in Tasks : IF t < n THEN f[t] \in Slices ELSE f[t] = 0}
  /\ current = OS /\ cur_ts = 0
  /\ ctx = [t \in Tasks |-> "run"]
  /\ exec = OS /\ at = "run" /\ phase = "schedule"
  /\ msip = FALSE /\ timers = <<>>
-----------------------------------------------------------------------------
Schedulable(t) == status[t] \in {READY, RUNNING}

Highest_among_ready(t) ==
  /\ Schedulable(t)
  /\ \A u \in Tasks : status[u] = READY => prio[t] <= prio[u]
Highest(t) ==
  /\ Schedulable(t)
  /\ \A u \in Tasks : Schedulable(u) => prio[t] <= prio[u]

(* The two scans of schedule for next_task_id: the first task of the       *)
(* highest priority behind _current, or else the first of all.             *)
NextTask_from_current(t) ==
  /\ Highest(t)
  /\ \/ t >= current /\ \A u \in Tasks : Highest(u) /\ u >= current => t <= u
     \/ \A u \in Tasks : Highest(u) => u < current /\ t <= u
NextTask(t) ==
  /\ Highest(t)
  /\ \/ t > current /\ \A u \in Tasks : Highest(u) /\ u > current => t <= u
     \/ \A u \in Tasks : Highest(u) => u <= current /\ t <= u

(* Whether schedule counts a new slice for task t, the next in turn.       *)
NewSlice(t) ==
  \/ current = OS
  \/ status[current] = EXITED
  \/ prio[t] < prio[current]
  \/ prio[t] = prio[current] /\ ts[current] <= cur_ts

SliceCount(t) == IF NewSlice(t) THEN 1 ELSE cur_ts + 1

(* switch_to(&ctx_tasks[t])                                                *)
Resume(t) ==
  /\ status' = [status EXCEPT ![t] = RUNNING]
  /\ exec' = t /\ at' = ctx[t]
  /\ phase' = "none"

switch_to_os ==
  /\ ~ \E t \in Tasks : Schedulable(t)
  /\ exec' = OS /\ at' = "run"
  /\ phase' = "none"
  /\ UNCHANGED <<status, sched>>

switch_to_task_without_current(t) ==
  /\ NextTask(t)
  /\ cur_ts' = SliceCount(t)
  /\ current' = IF NewSlice(t) THEN t ELSE current
  /\ Resume(t)
switch_to_task(t) ==
  /\ NextTask(t)
  /\ cur_ts' = SliceCount(t)
  /\ current' = IF NewSlice(t) \/ ~ KeepsSlices THEN t ELSE current
  /\ Resume(current')

schedule ==
  /\ phase = "schedule"
  /\ switch_to_os \/ \E t \in Tasks : switch_to_task(t)
  /\ UNCHANGED <<prio, ts, ctx, msip, timers>>
-----------------------------------------------------------------------------
(* The statements of a task's calls.  at: the statement it has before it.  *)
(* A software interrupt that is pending is taken before the next of them.  *)
Runs(where) == phase = "none" /\ exec # OS /\ at = where /\ ~ msip

Goes(where) ==
  /\ at' = where
  /\ UNCHANGED <<sched, ctx, exec, phase>>

SetStatus(s) ==
  /\ status' = [status EXCEPT ![current] = s]
  /\ UNCHANGED <<prio, ts, msip, timers>>

task_yield == Runs("run") /\ SetStatus(READY)    /\ Goes("yield")
task_exit  == Runs("run") /\ SetStatus(EXITED)   /\ Goes("exit")
task_sleep == Runs("run") /\ SetStatus(SLEEPING) /\ Goes("sleep")

(* CLINT_MSIP(id) = 1, the last statement of the three.                    *)
raise_msip(where, then) ==
  /\ Runs(where)
  /\ msip' = TRUE
  /\ Goes(then)
  /\ UNCHANGED <<tables, timers>>

(* The queue with a timer in it, behind those due earlier.  Among those    *)
(* due at the same tick the list puts it last and the skip list first.     *)
Inserted(timer) ==
  {SubSeq(timers, 1, i) \o <<timer>> \o SubSeq(timers, i + 1, Len(timers)) :
     i \in {j \in 0 .. Len(timers) :
              /\ \A k \in 1 .. j : timers[k].left <= timer.left
              /\ \A k \in j + 1 .. Len(timers) : timer.left <= timers[k].left}}

(* timer_create(task_wakeup, _current, ticks) in task_sleep; it returns    *)
(* NULL for 0 ticks, and task_sleep then returns at once.                  *)
sleep_timer(ticks) ==
  /\ Runs("sleep")
  /\ IF ticks = 0
     THEN Goes("run") /\ UNCHANGED timers
     ELSE /\ timers' \in Inserted([wakes |-> current, prio |-> 0, ts |-> 0, left |-> ticks])
          /\ Goes("armed")
  /\ UNCHANGED <<tables, msip>>

(* timer_create(create_task_timer_func, ...) by a task, as in user.c.      *)
creation_timer(p, s, ticks) ==
  /\ Runs("run")
  /\ Len(timers) < MaxTimers /\ ticks # 0
  /\ timers' \in Inserted([wakes |-> OS, prio |-> p, ts |-> s, left |-> ticks])
  /\ Goes("run")
  /\ UNCHANGED <<tables, msip>>

(* os_schedule asks for a schedule again and again.                        *)
os_schedule ==
  /\ phase = "none" /\ exec = OS
  /\ msip' = TRUE
  /\ UNCHANGED <<tables, sched, ctx, exec, at, phase, timers>>
-----------------------------------------------------------------------------
(* trap_vector saves the context mscratch points to.                       *)
Save == ctx' = IF exec = OS THEN ctx ELSE [ctx EXCEPT ![exec] = at]

software_interrupt ==
  /\ phase = "none" /\ msip
  /\ Save
  /\ msip' = FALSE
  /\ phase' = "schedule"
  /\ UNCHANGED <<tables, sched, exec, at, timers>>

(* A software interrupt outranks it when both are pending.                 *)
timer_interrupt ==
  /\ phase = "none" /\ ~ msip
  /\ Save
  /\ timers' = [i \in DOMAIN timers |-> [timers[i] EXCEPT !.left = @ - 1]]
  /\ phase' = "check"
  /\ UNCHANGED <<tables, sched, exec, at, msip>>

(* task_wakeup, the handler of a sleep.                                    *)
task_wakeup(t) ==
  /\ status' = [status EXCEPT ![t] = READY]
  /\ msip' = TRUE
  /\ UNCHANGED <<prio, ts, ctx>>

(* task_create takes the first slot that is free; from a handler, nothing  *)
(* comes between its statements.                                           *)
SlotFree_if_not_schedulable(t) == ~ Schedulable(t)
SlotFree(t) == status[t] \in {EMPTY, EXITED}

new_context(t) == [ctx EXCEPT ![t] = "run"]

task_create(p, s) ==
  /\ \/ /\ \A t \in Tasks : ~ SlotFree(t)
        /\ UNCHANGED <<tables, ctx>>
     \/ \E t \in Tasks :
          /\ SlotFree(t) /\ \A u \in Tasks : u < t => ~ SlotFree(u)
          /\ status' = [status EXCEPT ![t] = READY]
          /\ prio' = [prio EXCEPT ![t] = p]
          /\ ts' = [ts EXCEPT ![t] = s]
          /\ ctx' = new_context(t)
  /\ UNCHANGED msip

(* timer_check: the first timer of the queue, if it is due, and no other.  *)
Due_exactly(timer) == timer.left = 0
Due(timer) == timer.left <= 0

timer_check ==
  /\ phase = "check"
  /\ phase' = "schedule"
  /\ IF timers # <<>> /\ Due(Head(timers))
     THEN /\ timers' = Tail(timers)
          /\ IF Head(timers).wakes = OS
             THEN task_create(Head(timers).prio, Head(timers).ts)
             ELSE task_wakeup(Head(timers).wakes)
     ELSE UNCHANGED <<timers, tables, ctx, msip>>
  /\ UNCHANGED <<sched, exec, at>>
-----------------------------------------------------------------------------
Next ==
  \/ task_yield \/ task_exit \/ task_sleep
  \/ raise_msip("yield", "run")
  \/ raise_msip("armed", "run")
  \/ raise_msip("exit", "exited")
  \/ \E ticks \in Sleeps : sleep_timer(ticks)
  \/ \E p \in Prios, s \in Slices, ticks \in Sleeps : creation_timer(p, s, ticks)
  \/ os_schedule
  \/ software_interrupt \/ timer_interrupt \/ timer_check \/ schedule

(* The hart takes a pending interrupt and gets through a trap.  Tasks may  *)
(* stop making calls.                                                      *)
Fairness ==
  /\ WF_vars(software_interrupt)
  /\ WF_vars(timer_check)
  /\ WF_vars(schedule)

Spec == Init /\ [][Next]_vars /\ Fairness
=============================================================================
