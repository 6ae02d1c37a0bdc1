-------------------------------- MODULE Coop --------------------------------
(***************************************************************************)
(* The cooperative kernels: stage 04 (round robin), stage 07 (the same     *)
(* with traps, which stages 05 and 06 have less of), exercise 9-1          *)
(* (priorities and task_exit) and exercise 9-2 (the same, but every switch *)
(* goes through the kernel).  One of them runs.                            *)
(*                                                                         *)
(* A register holds a number: a task or OS for the address of its context  *)
(* or, in sp, of its stack; Param for the argument a task is created with; *)
(* Junk for anything else.  s is what a task keeps in registers of its     *)
(* own, its argument and how far it is; ra is a label.  The other          *)
(* registers go the way of s.  switch_to takes a step for each label.      *)
(*                                                                         *)
(* An operator x_... right before x is x with a slip a programmer could    *)
(* make, a mutant the properties are tried against.                        *)
(***************************************************************************)
EXTENDS Integers, FiniteSetsExt

CONSTANTS Kernels,    \* the kernels that are tried
          MaxTasks,   \* MAX_TASKS
          Creations,  \* with which argument and priority tasks are created
          Counting    \* bound: kernels whose tasks change what they hold

ASSUME CoopAssumption ==
  /\ Kernels \subseteq {"04", "07", "9_1", "9_2"}
  /\ MaxTasks \in Nat \ {0}
  /\ Counting \subseteq Kernels

Tasks    == 0 .. MaxTasks - 1
OS       == MaxTasks
Junk     == MaxTasks + 1
Param    == MaxTasks + 2
NULL     == -1
Contexts == Tasks \cup {OS}
Params   == {NULL, Param}

ASSUME CreationsAssumption == Creations \subseteq Params \X (0 .. 255)

VARIABLES kernel,     \* which one this is
          _top,       \* tasks created (stages 04 and 07)
          _current,   \* the task scheduled last
          task_status, task_priorities,   \* (exercises)
          ctx,        \* ctx_tasks, and ctx_os
          mscratch,
          regs, pc,   \* of the hart
          given,      \* ghost: the argument of each task
          hit         \* ghost: a trap has come where there was no context
                      \* to save to

sched == <<_top, _current, task_status, task_priorities>>
vars  == <<kernel, sched, ctx, mscratch, regs, pc, given, hit>>

ByPriority == kernel \in {"9_1", "9_2"}

Init ==
  /\ kernel \in Kernels
  /\ _top = 0 /\ _current = -1
  /\ task_status = [t \in Tasks |-> "EMPTY"] /\ task_priorities = [t \in Tasks |-> 255]
  /\ ctx = [c \in Contexts |-> [ra |-> "none", sp |-> NULL, s |-> <<NULL, 0>>,
                                a0 |-> NULL, t6 |-> NULL]]
  /\ mscratch = IF kernel = "9_2" THEN OS ELSE NULL
  /\ regs = [ra |-> "none", sp |-> OS, s |-> <<Junk, 0>>, a0 |-> Junk, t6 |-> Junk]
  /\ pc = "os_main"
  /\ given = [t \in Tasks |-> NULL] /\ hit = FALSE
-----------------------------------------------------------------------------
(* schedule: the task that follows in turn, or the next of the highest     *)
(* priority, a small number.                                               *)
InTurn == (_current + 1) % _top

Schedulable(status, t) == status[t] \in {"READY", "RUNNING"}

Highest(status) ==
  LET schedulable == {t \in Tasks : Schedulable(status, t)}
      priority    == Min({255} \cup {task_priorities[t] : t \in schedulable})
  IN  {t \in schedulable : task_priorities[t] = priority}

NextTask_first(status) ==
  IF Highest(status) = {} THEN -1 ELSE Min(Highest(status))
NextTask_any_behind(status) ==
  LET behind == {t \in Tasks : Schedulable(status, t) /\ t > _current}
  IN  IF Highest(status) = {} THEN -1
      ELSE IF behind # {} THEN Min(behind) ELSE Min(Highest(status))
NextTask(status) ==
  LET behind == {t \in Highest(status) : t > _current}
  IN  IF Highest(status) = {} THEN -1
      ELSE IF behind # {} THEN Min(behind) ELSE Min(Highest(status))

(* switch_to(next) is called, and would return to the label back.          *)
Switch(next, back) ==
  /\ regs' = [regs EXCEPT !.ra = back, !.a0 = next]
  /\ pc' = "swap"

Goes(where) == pc' = where /\ UNCHANGED regs

schedule_in_turn(back) ==
  /\ IF _top <= 0 THEN Goes("panic") /\ UNCHANGED _current
     ELSE _current' = InTurn /\ Switch(InTurn, back)
  /\ UNCHANGED task_status

(* With task_status as the caller has left it.  If there is no one else to *)
(* switch to, the exercises differ.                                        *)
schedule_by_priority(status, back) ==
  LET next  == NextTask(status)
      stays == next = -1 \/ (kernel = "9_1" /\ next = _current)
  IN  IF stays
      THEN /\ Goes(IF kernel = "9_1" /\ next = -1 THEN "panic" ELSE back)
           /\ task_status' = status /\ UNCHANGED _current
      ELSE /\ _current' = next /\ task_status' = [status EXCEPT ![next] = "RUNNING"]
           /\ Switch(next, back)

schedule(status, back) ==
  IF ByPriority THEN schedule_by_priority(status, back) ELSE schedule_in_turn(back)

(* os_main creates tasks; start_kernel then schedules, exercise 9-2 in a   *)
(* loop.                                                                   *)
start_kernel ==
  /\ pc = "os_main" \/ (pc = "os" /\ kernel = "9_2")
  /\ schedule(task_status, IF kernel = "9_2" THEN "os" ELSE "end")
  /\ UNCHANGED <<kernel, _top, task_priorities, ctx, mscratch, given, hit>>

(* The slot a new task gets.                                               *)
Slots ==
  IF ByPriority THEN {t \in Tasks : task_status[t] \in {"EMPTY", "EXITED"}}
  ELSE {t \in Tasks : t >= _top}

Created(c, param) ==
  [c EXCEPT !.ra = "start", !.sp = Min(Slots), !.a0 = IF param # NULL THEN param ELSE @]

(* If there is none, task_create returns -1.  Stages 04 and 07 have        *)
(* neither arguments nor priorities.                                       *)
task_create(param, priority) ==
  /\ pc \in {"os_main", "run"}
  /\ ByPriority \/ param = NULL
  /\ Slots # {}
  /\ LET t == Min(Slots)
     IN  /\ ctx' = [ctx EXCEPT ![t] = Created(@, param)]
         /\ given' = [given EXCEPT ![t] = param]
         /\ IF ByPriority
            THEN /\ task_status' = [task_status EXCEPT ![t] = "READY"]
                 /\ task_priorities' = [task_priorities EXCEPT ![t] = priority]
                 /\ UNCHANGED _top
            ELSE _top' = _top + 1 /\ UNCHANGED <<task_status, task_priorities>>
  /\ UNCHANGED <<kernel, _current, mscratch, regs, pc, hit>>

(* A task's routine: it takes its argument from a0, then works.            *)
start ==
  /\ pc = "start"
  /\ regs' = [regs EXCEPT !.s = <<regs.a0, 0>>]
  /\ pc' = "run"
  /\ UNCHANGED <<kernel, sched, ctx, mscratch, given, hit>>

work ==
  /\ pc = "run" /\ kernel \in Counting
  /\ regs' = [regs EXCEPT !.s[2] = 1 - @]
  /\ UNCHANGED <<kernel, sched, ctx, mscratch, pc, given, hit>>

Marked(as) == [task_status EXCEPT ![_current] = as]

(* Exercise 9-2 goes back to the kernel, which schedules.                  *)
Yields(status, back) ==
  /\ IF kernel = "9_2"
     THEN task_status' = status /\ Switch(OS, back) /\ UNCHANGED _current
     ELSE schedule(status, back)
  /\ UNCHANGED <<kernel, _top, task_priorities, ctx, mscratch, given, hit>>

task_yield == pc = "run" /\ Yields(IF ByPriority THEN Marked("READY") ELSE task_status, "run")

task_exit == ByPriority /\ pc = "run" /\ Yields(Marked("EXITED"), "exited")
-----------------------------------------------------------------------------
(* switch_to: t6 and mscratch are swapped; the first time there was no     *)
(* context.                                                                *)
swap ==
  /\ pc = "swap"
  /\ regs' = [regs EXCEPT !.t6 = mscratch]
  /\ mscratch' = regs.t6
  /\ pc' = IF mscratch = NULL THEN "point" ELSE "save"
  /\ UNCHANGED <<kernel, sched, ctx, given, hit>>

save_without_s ==
  /\ pc = "save"
  /\ ctx' = [ctx EXCEPT ![regs.t6] = [regs EXCEPT !.t6 = mscratch, !.s = ctx[regs.t6].s]]
  /\ regs' = [regs EXCEPT !.t6 = mscratch]
  /\ pc' = "point"
  /\ UNCHANGED <<kernel, sched, mscratch, given, hit>>
save ==
  /\ pc = "save"
  /\ ctx' = [ctx EXCEPT ![regs.t6] = [regs EXCEPT !.t6 = mscratch]]
  /\ regs' = [regs EXCEPT !.t6 = mscratch]
  /\ pc' = "point"
  /\ UNCHANGED <<kernel, sched, mscratch, given, hit>>

(* mscratch is given the next context.                                     *)
point_forgotten ==
  /\ pc = "point"
  /\ mscratch' = regs.t6
  /\ pc' = "load"
  /\ regs' = [regs EXCEPT !.t6 = regs.a0]
  /\ UNCHANGED <<kernel, sched, ctx, given, hit>>
point ==
  /\ pc = "point"
  /\ mscratch' = regs.a0
  /\ regs' = [regs EXCEPT !.t6 = regs.a0]
  /\ pc' = "load"
  /\ UNCHANGED <<kernel, sched, ctx, given, hit>>

(* The registers are loaded one by one, t6 last: first ra and sp, then the *)
(* others.                                                                 *)
load ==
  /\ pc = "load"
  /\ regs' = [regs EXCEPT !.ra = ctx[regs.t6].ra, !.sp = ctx[regs.t6].sp]
  /\ pc' = "load_rest"
  /\ UNCHANGED <<kernel, sched, ctx, mscratch, given, hit>>

load_rest ==
  /\ pc = "load_rest"
  /\ regs' = [ctx[regs.t6] EXCEPT !.ra = regs.ra, !.sp = regs.sp]
  /\ pc' = "ret"
  /\ UNCHANGED <<kernel, sched, ctx, mscratch, given, hit>>

ret ==
  /\ pc = "ret"
  /\ pc' = regs.ra
  /\ UNCHANGED <<kernel, sched, ctx, mscratch, regs, given, hit>>

(* Stage 07: a trap, its handler, which changes none of this, and mret:    *)
(* all registers are saved to where mscratch points, and come back.  An    *)
(* address that is none of a context is a fault in trap_vector, which      *)
(* traps again, or memory that is someone else's.                          *)
HasContext ==
  mscratch \in Contexts /\ pc \notin {"save", "point", "load", "load_rest"}

trap_vector ==
  /\ kernel = "07" /\ pc # "derailed"
  /\ IF mscratch \in Contexts
     THEN ctx' = [ctx EXCEPT ![mscratch] = regs] /\ UNCHANGED pc
     ELSE pc' = "derailed" /\ UNCHANGED ctx
  /\ hit' = (hit \/ ~ HasContext)
  /\ UNCHANGED <<kernel, sched, mscratch, regs, given>>

(* panic loops, and so does whoever has derailed.                          *)
halt == pc \in {"panic", "derailed"} /\ UNCHANGED vars

switch_to == swap \/ save \/ point \/ load \/ load_rest \/ ret

Next ==
  \/ start_kernel \/ start \/ work \/ task_yield \/ task_exit
  \/ \E c \in Creations : task_create(c[1], c[2])
  \/ switch_to \/ trap_vector \/ halt

(* The hart executes the kernel's code; a task yields or exits in the end, *)
(* as the tasks of user.c do.                                              *)
Fairness ==
  /\ WF_vars(switch_to) /\ WF_vars(start)
  /\ WF_vars(start_kernel)
  /\ WF_vars(task_yield \/ task_exit)

Spec == Init /\ [][Next]_vars /\ Fairness
=============================================================================
