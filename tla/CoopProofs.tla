----------------------------- MODULE CoopProofs -----------------------------
(***************************************************************************)
(* The cooperative kernels for any number of tasks: that they keep the     *)
(* invariant CInv, what follows from it, and that they implement           *)
(* Coroutines.                                                             *)
(***************************************************************************)
EXTENDS CoopInv, WellFoundedInduction, TLAPS

USE CoopAssumption, CreationsAssumption

(* A set of natural numbers that is not empty has a least element.         *)
LEMMA MinIsLeast ==
  ASSUME NEW S \in SUBSET Nat, S # {}
  PROVE  Min(S) \in S /\ \A y \in S : Min(S) <= y
<1>1. PICK R : IsWellFoundedOn(R, Nat) /\ \A y, x \in Nat : y < x => <<y, x>> \in R
  <2>1. \A y, x \in Nat : y < x => <<y, x>> \in OpToRel(<, Nat)
    BY DEF OpToRel
  <2> QED
    BY <2>1, NatLessThanWellFounded
<1>2. PICK x \in S : \A y \in S : ~ (<<y, x>> \in R)
  <2>1. IsWellFoundedOn(R, Nat)
    BY <1>1
  <2>2. S \subseteq Nat /\ S # {}
    OBVIOUS
  <2> QED
    BY <2>1, <2>2, WFMin, Zenon
<1>3. ASSUME NEW y \in S PROVE x <= y
  <2>1. x \in Nat /\ y \in Nat /\ ~ (<<y, x>> \in R)
    BY <1>2
  <2>2. ~ (y < x)
    BY <1>1, <2>1
  <2> QED
    BY <2>1, <2>2
<1> QED
  BY <1>3 DEF Min
-----------------------------------------------------------------------------
Statuses == {"EMPTY", "READY", "RUNNING", "EXITED"}

LEMMA Sets ==
  /\ Tasks \subseteq Nat /\ Tasks \subseteq Contexts /\ OS \notin Tasks
  /\ OS \in Contexts /\ NULL \notin Contexts /\ -1 \notin Tasks
  /\ Contexts \subseteq Words /\ Params \subseteq Words
  /\ NULL \in Words /\ Junk \in Words
  BY DEF Tasks, OS, Contexts, Words, Params, NULL, Junk, Param

LEMMA Kinds ==
  ASSUME TypeOK
  PROVE  /\ kernel \in {"04", "07", "9_1", "9_2"}
         /\ ByPriority <=> kernel \in {"9_1", "9_2"}
         /\ \A t \in Tasks : Alive(t) <=> IF ByPriority THEN task_status[t] \in {"READY", "RUNNING"}
                                          ELSE t < _top
<1>1. kernel \in {"04", "07", "9_1", "9_2"}
  BY DEF TypeOK
<1> QED
  BY <1>1 DEF ByPriority, Alive, There

(* The task that follows is one of the highest priority there is.          *)
LEMMA NextIsHighest ==
  ASSUME NEW status, NextTask(status) # -1
  PROVE  NextTask(status) \in Highest(status) /\ NextTask(status) \in Tasks
<1>1. Highest(status) \in SUBSET Nat /\ Highest(status) \subseteq Tasks
  BY Sets DEF Highest
<1> DEFINE behind == {t \in Highest(status) : t > _current}
<1>2. Highest(status) # {}
  BY DEF NextTask
<1>3. CASE behind # {}
  <2>1. behind \in SUBSET Nat
    BY <1>1
  <2>2. Min(behind) \in behind
    BY <1>3, <2>1, MinIsLeast
  <2>3. NextTask(status) = Min(behind)
    BY <1>2, <1>3 DEF NextTask
  <2> QED
    BY <1>1, <2>2, <2>3
<1>4. CASE behind = {}
  <2>1. Min(Highest(status)) \in Highest(status)
    BY <1>1, <1>2, MinIsLeast
  <2>2. NextTask(status) = Min(Highest(status))
    BY <1>2, <1>4 DEF NextTask
  <2> QED
    BY <1>1, <2>1, <2>2
<1> QED
  BY <1>3, <1>4

(* Which tasks these are does not depend on which of them is RUNNING.      *)
LEMMA HighestKept ==
  ASSUME NEW status \in [Tasks -> Statuses], NEW n \in Highest(status)
  PROVE  Highest([status EXCEPT ![n] = "RUNNING"]) = Highest(status)
<1>1. n \in Tasks /\ Schedulable(status, n)
  BY DEF Highest
<1>2. \A t \in Tasks : Schedulable([status EXCEPT ![n] = "RUNNING"], t) <=> Schedulable(status, t)
  BY <1>1 DEF Schedulable
<1>3. {t \in Tasks : Schedulable([status EXCEPT ![n] = "RUNNING"], t)}
        = {t \in Tasks : Schedulable(status, t)}
  BY <1>2
<1> QED
  BY <1>3 DEF Highest

Kept == <<kernel, _top, task_priorities, ctx, mscratch, given, hit>>

(* What schedule does, called with the statuses in status: nothing, if     *)
(* there is no one else to switch to, or a switch to the new _current.     *)
LEMMA Scheduling ==
  ASSUME TypeOK, NEW status \in [Tasks -> Statuses], NEW back \in Labels,
         schedule(status, back), UNCHANGED Kept, ~ ByPriority => status = task_status
  PROVE  \/ /\ UNCHANGED <<regs, _current>> /\ task_status' = status
            /\ \/ pc' = back /\ kernel = "9_2"
               \/ pc' = back /\ kernel = "9_1" /\ _current \in Highest(status)
               \/ pc' = "panic" /\ kernel = "9_1"
               \/ pc' = "panic" /\ ~ ByPriority /\ _top = 0
         \/ /\ _current' \in Tasks /\ Switch(_current', back)
            /\ Target(_current)'
            /\ task_status' \in [Tasks -> Statuses]
            /\ \A t \in Tasks : ByPriority => (task_status'[t] \in {"READY", "RUNNING"}
                                                 <=> status[t] \in {"READY", "RUNNING"})
            /\ \A t \in Tasks : ByPriority /\ status[t] \notin {"READY", "RUNNING"}
                               => task_status'[t] = status[t]
<1>0. kernel \in {"04", "07", "9_1", "9_2"} /\ kernel' = kernel /\ (ByPriority' <=> ByPriority)
  BY Kinds DEF Kept, ByPriority
<1>1. CASE ~ ByPriority /\ _top <= 0
  <2>1. _top = 0 /\ schedule_in_turn(back)
    BY <1>1 DEF TypeOK, schedule
  <2> QED
    BY <1>1, <2>1 DEF schedule_in_turn, Goes
<1>2. CASE ~ ByPriority /\ ~ (_top <= 0)
  <2>1. _top \in 1 .. MaxTasks /\ _current \in -1 .. MaxTasks - 1 /\ schedule_in_turn(back)
    BY <1>2 DEF TypeOK, schedule
  <2>2. _current' = InTurn /\ Switch(_current', back) /\ task_status' = task_status
    BY <1>2, <2>1 DEF schedule_in_turn
  <2>3. _current' \in 0 .. _top - 1
    BY <2>1, <2>2 DEF InTurn
  <2>4. _current' \in Tasks /\ _top' = _top
    BY <2>1, <2>3 DEF Tasks, Kept
  <2>5. Target(_current)'
    BY <1>0, <1>2, <2>1, <2>3, <2>4, Sets DEF Target, Alive, There
  <2> QED
    BY <1>2, <2>2, <2>4, <2>5
<1>3. CASE ByPriority
  <2> DEFINE next  == NextTask(status)
             stays == next = -1 \/ (kernel = "9_1" /\ next = _current)
  <2>1. schedule_by_priority(status, back) /\ kernel \in {"9_1", "9_2"}
    BY <1>0, <1>3 DEF schedule, ByPriority
  <2>2. next # -1 => next \in Highest(status) /\ next \in Tasks
    BY NextIsHighest
  <2>3. CASE stays
    <3>1. /\ UNCHANGED <<regs, _current>> /\ task_status' = status
          /\ pc' = IF kernel = "9_1" /\ next = -1 THEN "panic" ELSE back
      BY <2>1, <2>3 DEF schedule_by_priority, Goes
    <3> QED
      BY <2>1, <2>2, <2>3, <3>1
  <2>4. CASE ~ stays
    <3>1. /\ _current' = next /\ task_status' = [status EXCEPT ![next] = "RUNNING"]
          /\ Switch(next, back)
      BY <2>1, <2>4 DEF schedule_by_priority
    <3>2. next \in Highest(status) /\ next \in Tasks
      BY <2>2, <2>4
    <3>3. task_status' \in [Tasks -> Statuses] /\ task_status'[next] = "RUNNING"
      BY <3>1, <3>2 DEF Statuses
    <3>4. task_status'[next] = "RUNNING" /\ _current' \in Tasks
      BY <3>1, <3>2, <3>3
    <3>5. Highest(task_status)' = Highest(task_status')
      BY DEF Highest, Schedulable, Kept
    <3>6. Highest(task_status') = Highest(status)
      BY <3>1, <3>2, HighestKept
    <3>7. Target(_current)'
      BY <1>0, <1>3, <3>1, <3>2, <3>4, <3>5, <3>6 DEF Target, Alive, There
    <3>8. \A t \in Tasks : /\ task_status'[t] \in {"READY", "RUNNING"}
                                <=> status[t] \in {"READY", "RUNNING"}
                           /\ t # next => task_status'[t] = status[t]
      BY <3>1, <3>2 DEF Highest, Schedulable
    <3>9. status[next] \in {"READY", "RUNNING"}
      BY <3>2 DEF Highest, Schedulable
    <3> QED
      BY <3>1, <3>2, <3>3, <3>7, <3>8, <3>9
  <2> QED
    BY <2>3, <2>4
<1> QED
  BY <1>1, <1>2, <1>3

(* Whatever schedule does, the variables keep their types, and a switch    *)
(* its target.                                                             *)
LEMMA ScheduleTypes ==
  ASSUME TypeOK, NEW status \in [Tasks -> Statuses], NEW back \in Labels,
         schedule(status, back), UNCHANGED Kept, ~ ByPriority => status = task_status
  PROVE  TypeOK' /\ HasTarget'
<1>1. CASE UNCHANGED <<regs, _current>> /\ task_status' = status /\ pc' \in {back, "panic"}
  BY <1>1 DEF TypeOK, HasTarget, Kept, Statuses, Codes, Labels
<1>2. CASE /\ _current' \in Tasks /\ Switch(_current', back)
           /\ task_status' \in [Tasks -> Statuses]
  <2>1. _current' \in Contexts /\ _current' \in Words /\ _current' \in -1 .. MaxTasks - 1
    BY <1>2, Sets DEF Tasks
  <2>2. regs' \in Register /\ pc' = "swap" /\ regs'.a0 = _current'
    BY <1>2, <2>1 DEF Switch, TypeOK, Register
  <2> QED
    BY <1>2, <2>1, <2>2 DEF TypeOK, HasTarget, Kept, Statuses, Codes
<1> QED
  BY <1>1, <1>2, Scheduling
-----------------------------------------------------------------------------
(* The invariant holds behind a call of switch_to if it held before, the   *)
(* target is one that control may be given to, and the caller means to go  *)
(* on if it is alive, or waits in the kernel of exercise 9-2.              *)
LEMMA CallSwitch ==
  ASSUME CInv, ~ hit, pc \in {"os_main", "os", "run"}, NEW next, NEW back,
         Switch(next, back), UNCHANGED Kept, Target(next)',
         \A t \in Tasks : Alive(t)' => Alive(t),
         \A t \in Tasks : pc = "run" /\ t = _current
                           => back = IF Alive(t)' THEN "run" ELSE "exited",
         pc # "run" /\ kernel = "9_2" => back = "os"
  PROVE  Undisturbed'
<1>1. /\ pc' = "swap" /\ regs' = [regs EXCEPT !.ra = back, !.a0 = next]
      /\ UNCHANGED <<kernel, _top, ctx, mscratch, given, hit>>
  BY DEF Switch, Kept
<1>2. TypeOK /\ Undisturbed /\ regs \in Register
  BY DEF CInv, TypeOK
<1>3. regs'.sp = regs.sp /\ regs'.ra = back /\ regs'.a0 = next /\ regs'.s = regs.s
  BY <1>1, <1>2 DEF Register
<1>4. /\ pc = "run" => /\ _current \in Tasks /\ Alive(_current)
                       /\ regs.sp = _current /\ mscratch = _current
                       /\ HasArg(_current, "run", regs.a0, regs.s)
      /\ pc # "run" => /\ regs.sp = OS /\ mscratch = Own
  BY <1>2 DEF Undisturbed, TaskExecutes, InTask, KernelExecutes, Own
<1>5. regs.sp \in Contexts /\ mscratch = Own
  BY <1>4, Sets DEF Own
<1>6. TasksWait'
  <2>1. \A t \in Tasks : InContext(t)' => InContext(t)
    BY <1>1, <1>3 DEF InContext
  <2>2. \A t \in Tasks : Waits(t) => Waits(t)'
    BY <1>1 DEF Waits, HasArg
  <2> QED
    BY <1>2, <2>1, <2>2 DEF Undisturbed, TasksWait
<1>7. KernelWaits' /\ KernelExecutes'
  <2>1. KernelRuns => KernelRuns'
    BY <1>1, <1>3, <1>4, Sets DEF KernelRuns
  <2> QED
    BY <1>1, <1>2, <2>1 DEF Undisturbed, KernelWaits, KernelExecutes
<1>8. CallerSwitches'
  <2>1. ASSUME regs.sp \in Tasks
        PROVE  /\ Alive(regs.sp)' => back = "run" /\ HasArg(regs.sp, "run", regs.a0, regs.s)'
               /\ ~ Alive(regs.sp)' => back = "exited"
    <3>1. pc = "run" /\ regs.sp = _current
      BY <1>4, <2>1, Sets
    <3>2. PICK t \in Tasks : t = regs.sp
      BY <2>1
    <3>3. regs'.sp = t /\ back = IF Alive(t)' THEN "run" ELSE "exited"
      BY <1>3, <3>1, <3>2
    <3>4. HasArg(t, "run", regs.a0, regs.s)
      BY <1>4, <3>1, <3>2
    <3>5. HasArg(t, "run", regs.a0, regs.s)'
      BY <1>1, <1>3, <3>4 DEF HasArg
    <3>6. /\ Alive(regs.sp)' <=> Alive(t)'
          /\ HasArg(regs.sp, "run", regs.a0, regs.s)' <=> HasArg(t, "run", regs.a0, regs.s)'
      BY <3>3 DEF Alive, There, HasArg
    <3> QED
      BY <3>3, <3>5, <3>6
  <2>2. regs.sp = OS /\ kernel = "9_2" => back = "os"
    BY <1>4, Sets
  <2> QED
    BY <1>1, <1>3, <1>5, <2>1, <2>2 DEF CallerSwitches
<1>9. SwitchGoesOn'
  <2>1. Target(regs.a0)'
    BY <1>3 DEF Target, Alive, There
  <2>2. mscratch' = Own'
    BY <1>1, <1>3, <1>5 DEF Own
  <2> QED
    BY <1>1, <1>8, <2>1, <2>2 DEF SwitchGoesOn
<1> QED
  BY <1>1, <1>6, <1>7, <1>9 DEF Undisturbed, InTask

(* The same of a call of schedule that does find someone to switch to: no  *)
(* one is alive then that the caller has not left alive.                   *)
LEMMA ScheduleSwitches ==
  ASSUME CInv, ~ hit, pc \in {"os_main", "os", "run"},
         NEW status \in [Tasks -> Statuses], NEW back,
         _current' \in Tasks, Switch(_current', back), UNCHANGED Kept, Target(_current)',
         ~ ByPriority => status = task_status,
         \A t \in Tasks : ByPriority => (task_status'[t] \in {"READY", "RUNNING"}
                                              <=> status[t] \in {"READY", "RUNNING"}),
         \A t \in Tasks : status[t] \in {"READY", "RUNNING"}
                            => task_status[t] \in {"READY", "RUNNING"},
         ByPriority /\ pc = "run" =>
           back = IF status[_current] \in {"READY", "RUNNING"} THEN "run" ELSE "exited",
         ~ ByPriority /\ pc = "run" => back = "run",
         pc # "run" /\ kernel = "9_2" => back = "os"
  PROVE  Undisturbed'
<1>1. PICK next \in Tasks : next = _current'
  OBVIOUS
<1>2. Target(next)' /\ Switch(next, back)
  BY <1>1 DEF Target, Alive, There
<1>3. TypeOK /\ Undisturbed
  BY DEF CInv
<1>4. \A t \in Tasks : Alive(t) <=> IF ByPriority THEN task_status[t] \in {"READY", "RUNNING"}
                                    ELSE t < _top
  BY <1>3, Kinds
<1>5. \A t \in Tasks : Alive(t)' <=> IF ByPriority THEN status[t] \in {"READY", "RUNNING"}
                                     ELSE t < _top
  BY DEF Alive, There, Kept, ByPriority
<1>6. \A t \in Tasks : Alive(t)' => Alive(t)
  BY <1>4, <1>5
<1>7. \A t \in Tasks : pc = "run" /\ t = _current
                         => back = IF Alive(t)' THEN "run" ELSE "exited"
  <2>1. pc = "run" => Alive(_current)
    BY <1>3 DEF Undisturbed, InTask, TaskExecutes
  <2> QED
    BY <1>4, <1>5, <2>1
<1> QED
  BY <1>2, <1>6, <1>7, CallSwitch

LEMMA StartKernel ==
  ASSUME CInv, start_kernel
  PROVE  CInv'
<1> DEFINE back == IF kernel = "9_2" THEN "os" ELSE "end"
<1>1. /\ TypeOK /\ schedule(task_status, back) /\ UNCHANGED Kept
      /\ task_status \in [Tasks -> Statuses] /\ back \in Labels
      /\ pc = "os_main" \/ (pc = "os" /\ kernel = "9_2")
  BY DEF CInv, start_kernel, Kept, TypeOK, Statuses, Labels
<1>2. TypeOK' /\ HasTarget'
  BY <1>1, ScheduleTypes
<1>3. hit' = hit /\ kernel' = kernel
  BY <1>1 DEF Kept
<1>4. ASSUME ~ hit PROVE Undisturbed'
  <2>1. Undisturbed /\ regs.sp = OS
    BY <1>1, <1>4 DEF CInv, Undisturbed, KernelExecutes
  <2>2. CASE /\ UNCHANGED <<regs, _current>> /\ task_status' = task_status
             /\ \/ pc' = back /\ kernel = "9_2"
                \/ pc' = back /\ kernel = "9_1" /\ _current \in Highest(task_status)
                \/ pc' = "panic" /\ kernel = "9_1"
                \/ pc' = "panic" /\ ~ ByPriority /\ _top = 0
    <3>1. \/ pc' = "panic" /\ kernel # "9_2"
          \/ pc' = "os" /\ kernel = "9_2"
      <4>1. kernel = "9_1" => _current \notin Highest(task_status)
        BY <1>1, <2>1, Sets DEF Undisturbed, KernelExecutes, Highest
      <4> QED
        BY <2>2, <4>1 DEF ByPriority
    <3>2. TasksWait'
      <4>1. \A t \in Tasks : InContext(t) /\ (Alive(t)' <=> Alive(t))
        BY <1>1, <2>1, <2>2, Sets DEF InContext, Alive, There, Kept, ByPriority
      <4>2. \A t \in Tasks : Waits(t) => Waits(t)'
        BY <1>1 DEF Waits, HasArg, Kept
      <4> QED
        BY <2>1, <4>1, <4>2 DEF Undisturbed, TasksWait
    <3>3. mscratch' = IF kernel = "9_2" THEN OS ELSE NULL
      BY <1>1, <2>1 DEF Undisturbed, KernelExecutes, Kept
    <3> QED
      BY <1>3, <2>1, <2>2, <3>1, <3>2, <3>3
      DEF Undisturbed, KernelWaits, KernelRuns, KernelExecutes, SwitchGoesOn, InTask
  <2>3. CASE /\ _current' \in Tasks /\ Switch(_current', back)
             /\ Target(_current)'
             /\ task_status' \in [Tasks -> Statuses]
             /\ \A t \in Tasks : ByPriority => (task_status'[t] \in {"READY", "RUNNING"}
                                                  <=> task_status[t] \in {"READY", "RUNNING"})
    BY <1>1, <1>4, <2>3, ScheduleSwitches
  <2> QED
    BY <1>1, <2>2, <2>3, Scheduling
<1> QED
  BY <1>2, <1>3, <1>4 DEF CInv

(* A task that yields or exits, in stage 04, 07 or exercise 9-1 ...        *)
LEMMA YieldSchedules ==
  ASSUME CInv, pc = "run", kernel # "9_2", NEW as \in {"READY", "EXITED"}, NEW status, NEW back,
         ByPriority => status = Marked(as), ~ ByPriority => as = "READY" /\ status = task_status,
         as = "READY" => back = "run", as = "EXITED" => back = "exited",
         schedule(status, back), UNCHANGED Kept
  PROVE  CInv'
<1>1. /\ TypeOK /\ status \in [Tasks -> Statuses] /\ back \in Labels
  BY DEF CInv, TypeOK, Marked, Statuses, Labels
<1>2. TypeOK' /\ HasTarget'
  BY <1>1, ScheduleTypes
<1>3. hit' = hit /\ kernel' = kernel
  BY DEF Kept
<1>4. ASSUME ~ hit PROVE Undisturbed'
  <2>1. Undisturbed /\ TaskExecutes
    BY <1>4 DEF CInv, Undisturbed, InTask
  <2>2. _current \in Tasks /\ Alive(_current) /\ regs.sp = _current /\ mscratch = _current
    BY <2>1 DEF TaskExecutes
  <2>3. /\ ByPriority => status[_current] = as /\ task_status[_current] \in {"READY", "RUNNING"}
        /\ \A t \in Tasks : t # _current => status[t] = task_status[t]
    BY <1>1, <2>2, Kinds DEF Marked, TypeOK
  <2>4. CASE /\ UNCHANGED <<regs, _current>> /\ task_status' = status
             /\ \/ pc' = back /\ kernel = "9_2"
                \/ pc' = back /\ kernel = "9_1" /\ _current \in Highest(status)
                \/ pc' = "panic" /\ kernel = "9_1"
                \/ pc' = "panic" /\ ~ ByPriority /\ _top = 0
    <3>1. \/ pc' = "run" /\ as = "READY" /\ ByPriority
          \/ pc' = "panic" /\ kernel = "9_1"
      <4>1. kernel = "9_1" /\ as = "EXITED" => _current \notin Highest(status)
        BY <2>3 DEF Highest, Schedulable, ByPriority
      <4>2. ~ ByPriority => _top # 0
        BY <1>1, <2>2, Kinds, Sets
      <4> QED
        BY <2>4, <4>1, <4>2 DEF ByPriority
    <3>2. \A t \in Tasks : Alive(t)' => Alive(t)
      BY <1>1, <2>2, <2>3, <2>4, Kinds DEF Alive, There, Kept, ByPriority
    <3>3. TasksWait'
      <4>1. \A t \in Tasks : InContext(t)' => InContext(t)
        BY <2>4, <3>1 DEF InContext
      <4>2. \A t \in Tasks : Waits(t) => Waits(t)'
        BY DEF Waits, HasArg, Kept
      <4> QED
        BY <2>1, <3>2, <4>1, <4>2 DEF Undisturbed, TasksWait
    <3>4. pc' = "run" => TaskExecutes'
      <4>1. pc' = "run" => Alive(_current)'
        BY <1>1, <2>2, <2>3, <2>4, <3>1 DEF Alive, There, Kept, ByPriority
      <4> QED
        BY <2>1, <2>2, <2>4, <4>1 DEF TaskExecutes, HasArg, Kept
    <3> QED
      BY <1>3, <3>1, <3>3, <3>4
      DEF Undisturbed, KernelWaits, KernelExecutes, SwitchGoesOn, InTask
  <2>5. CASE /\ _current' \in Tasks /\ Switch(_current', back)
             /\ Target(_current)'
             /\ task_status' \in [Tasks -> Statuses]
             /\ \A t \in Tasks : ByPriority => (task_status'[t] \in {"READY", "RUNNING"}
                                                  <=> status[t] \in {"READY", "RUNNING"})
    <3>1. \A t \in Tasks : status[t] \in {"READY", "RUNNING"}
                            => task_status[t] \in {"READY", "RUNNING"}
      BY <2>2, <2>3
    <3>2. ByPriority => back = IF status[_current] \in {"READY", "RUNNING"} THEN "run" ELSE "exited"
      BY <2>3
    <3>3. /\ ~ ByPriority => back = "run" /\ status = task_status
          /\ status \in [Tasks -> Statuses]
      BY <1>1
    <3> QED
      BY <1>4, <2>5, <3>1, <3>2, <3>3, ScheduleSwitches
  <2>6. status \in [Tasks -> Statuses] /\ back \in Labels /\ (~ ByPriority => status = task_status)
    BY <1>1
  <2>7. TypeOK /\ schedule(status, back) /\ UNCHANGED Kept
    BY <1>1
  <2> QED
    BY ONLY <2>4, <2>5, <2>6, <2>7, Scheduling
<1> QED
  BY <1>2, <1>3, <1>4 DEF CInv

(* ... and in exercise 9-2.                                                *)
LEMMA YieldToKernel ==
  ASSUME CInv, pc = "run", kernel = "9_2", NEW as \in {"READY", "EXITED"}, NEW back,
         back = IF as = "READY" THEN "run" ELSE "exited",
         task_status' = Marked(as), Switch(OS, back), UNCHANGED _current, UNCHANGED Kept
  PROVE  CInv'
<1>1. TypeOK' /\ HasTarget'
  <2>1. task_status' \in [Tasks -> Statuses] /\ regs' \in Register
    <3>1. TypeOK /\ regs \in Register /\ OS \in Words /\ back \in Labels
      BY Sets DEF CInv, TypeOK, Labels
    <3>2. task_status' \in [Tasks -> Statuses]
      BY <3>1 DEF TypeOK, Marked, Statuses
    <3>3. regs' \in Register
      BY <3>1 DEF Switch, Register
    <3> QED
      BY <3>2, <3>3
  <2>2. pc' = "swap" /\ regs'.a0 = OS
    BY DEF Switch, CInv, TypeOK, Register
  <2> QED
    BY <2>1, <2>2, Sets DEF CInv, TypeOK, HasTarget, Kept, Statuses, Codes
<1>2. hit' = hit /\ kernel' = kernel
  BY DEF Kept
<1>3. ASSUME ~ hit PROVE Undisturbed'
  <2>1. TypeOK /\ _current \in Tasks
    BY <1>3 DEF CInv, Undisturbed, InTask, TaskExecutes
  <2>2. Target(OS)'
    BY <1>2 DEF Target
  <2>3. /\ task_status' \in [Tasks -> Statuses] /\ task_status'[_current] = as
        /\ \A t \in Tasks : t # _current => task_status'[t] = task_status[t]
    BY <2>1 DEF Marked, TypeOK, Statuses
  <2>4. /\ \A t \in Tasks : Alive(t) <=> task_status[t] \in {"READY", "RUNNING"}
        /\ \A t \in Tasks : Alive(t)' <=> task_status'[t] \in {"READY", "RUNNING"}
    BY <1>2 DEF Alive, There, ByPriority
  <2>5. Alive(_current)
    BY <1>3 DEF CInv, Undisturbed, InTask, TaskExecutes
  <2>6. \A t \in Tasks : Alive(t)' => Alive(t)
    BY <2>3, <2>4, <2>5
  <2>7. \A t \in Tasks : t = _current => back = IF Alive(t)' THEN "run" ELSE "exited"
    BY <2>3, <2>4
  <2> QED
    BY <1>3, <2>2, <2>6, <2>7, CallSwitch
<1> QED
  BY <1>1, <1>2, <1>3 DEF CInv

LEMMA TaskYield ==
  ASSUME CInv, task_yield
  PROVE  CInv'
<1>1. /\ pc = "run" /\ UNCHANGED Kept
      /\ Yields(IF ByPriority THEN Marked("READY") ELSE task_status, "run")
  BY DEF task_yield, Yields, Kept
<1>2. CASE kernel = "9_2"
  BY <1>1, <1>2, YieldToKernel DEF Yields, ByPriority
<1>3. CASE kernel # "9_2"
  BY <1>1, <1>3, YieldSchedules DEF Yields
<1> QED
  BY <1>2, <1>3

LEMMA TaskExit ==
  ASSUME CInv, task_exit
  PROVE  CInv'
<1>1. ByPriority /\ pc = "run" /\ UNCHANGED Kept /\ Yields(Marked("EXITED"), "exited")
  BY DEF task_exit, Yields, Kept
<1>2. CASE kernel = "9_2"
  BY <1>1, <1>2, YieldToKernel DEF Yields
<1>3. CASE kernel # "9_2"
  BY <1>1, <1>3, YieldSchedules DEF Yields
<1> QED
  BY <1>2, <1>3

(* Where a task is created there was none, or none any more.               *)
LEMMA Creating ==
  ASSUME CInv, NEW c \in Creations, task_create(c[1], c[2])
  PROVE  \E t \in Tasks :
           /\ t = Min(Slots)
           /\ There(t) \in {"EMPTY", "EXITED"} /\ There(t)' = "READY"
           /\ \A u \in Tasks : u # t => There(u)' = There(u)
           /\ ctx' = [ctx EXCEPT ![t] = Created(@, c[1])]
           /\ ctx'[t] \in Register /\ ctx'[t].sp = t /\ ctx'[t].ra = "start"
           /\ c[1] # NULL => ctx'[t].a0 = c[1]
           /\ \A u \in Contexts : u # t => ctx'[u] = ctx[u]
           /\ given' = [given EXCEPT ![t] = c[1]]
           /\ _top' \in 0 .. MaxTasks
<1> DEFINE param == c[1]
<1>1. TypeOK /\ Slots # {} /\ Slots \in SUBSET Nat /\ Slots \subseteq Tasks
  BY Sets DEF CInv, task_create, Slots
<1>2. PICK t \in Tasks : t = Min(Slots) /\ t \in Slots /\ \A u \in Slots : t <= u
  BY <1>1, MinIsLeast
<1>3. /\ param \in Words /\ UNCHANGED kernel
      /\ ctx' = [ctx EXCEPT ![t] = Created(@, param)]
      /\ given' = [given EXCEPT ![t] = param]
  BY <1>2, Sets DEF task_create
<1>4. \/ /\ ByPriority /\ UNCHANGED _top
         /\ task_status' = [task_status EXCEPT ![t] = "READY"]
      \/ /\ ~ ByPriority /\ _top' = _top + 1 /\ UNCHANGED task_status
  BY <1>2 DEF task_create
<1>5. /\ Created(ctx[t], param) \in Register /\ Created(ctx[t], param).sp = t
      /\ Created(ctx[t], param).ra = "start"
      /\ param # NULL => Created(ctx[t], param).a0 = param
  <2>1. ctx[t] \in Register /\ t \in Contexts
    BY <1>1, Sets DEF TypeOK
  <2> QED
    BY <1>2, <1>3, <2>1, ZenonT(60) DEF Created, Register, Labels
<1>6. ctx'[t] = Created(ctx[t], param) /\ \A u \in Contexts : u # t => ctx'[u] = ctx[u]
  BY <1>1, <1>3, Sets DEF TypeOK
<1>7. /\ There(t) \in {"EMPTY", "EXITED"} /\ There(t)' = "READY" /\ _top' \in 0 .. MaxTasks
      /\ \A u \in Tasks : u # t => There(u)' = There(u)
  <2>1. CASE ByPriority
    <3>1. t \in {u \in Tasks : task_status[u] \in {"EMPTY", "EXITED"}}
      BY <1>2, <2>1 DEF Slots
    <3> QED
      BY <1>1, <1>3, <1>4, <2>1, <3>1 DEF There, ByPriority, TypeOK
  <2>2. CASE ~ ByPriority
    <3>1. _top \in Nat /\ t \in Nat /\ Slots = {u \in Tasks : u >= _top} /\ _top' = _top + 1
      BY <1>1, <1>4, <2>2, Sets DEF Slots, TypeOK
    <3>2. _top <= t /\ (_top \in Tasks => t <= _top)
      BY <1>2, <3>1
    <3>3. t = _top /\ _top' \in 0 .. MaxTasks
      BY <3>1, <3>2 DEF Tasks
    <3>4. \A u \in Tasks : There(u)' = IF u < _top + 1 THEN "READY" ELSE "EMPTY"
      BY <1>3, <2>2, <3>1 DEF There, ByPriority
    <3>5. \A u \in Tasks : There(u) = IF u < _top THEN "READY" ELSE "EMPTY"
      BY <2>2 DEF There
    <3>6. \A u \in Tasks : u # t => (u < _top + 1 <=> u < _top)
      BY <3>1, <3>3 DEF Tasks
    <3>7. There(t) = "EMPTY" /\ There(t)' = "READY"
      BY <3>1, <3>3, <3>4, <3>5
    <3> QED
      BY <3>3, <3>4, <3>5, <3>6, <3>7
  <2> QED
    BY <2>1, <2>2
<1> QED
  BY <1>2, <1>3, <1>5, <1>6, <1>7, ZenonT(60)

(* A new task waits to be started, and no one is disturbed.                *)
LEMMA TaskCreate ==
  ASSUME CInv, NEW c \in Creations, task_create(c[1], c[2])
  PROVE  CInv'
<1> DEFINE param == c[1]
<1>1. /\ TypeOK /\ pc \in {"os_main", "run"} /\ param \in Params /\ c[2] \in 0 .. 255
      /\ UNCHANGED <<kernel, _current, mscratch, regs, pc, hit>>
  BY DEF CInv, task_create
<1>2. PICK t \in Tasks :
        /\ t = Min(Slots)
        /\ There(t) \in {"EMPTY", "EXITED"} /\ There(t)' = "READY"
        /\ \A u \in Tasks : u # t => There(u)' = There(u)
        /\ ctx' = [ctx EXCEPT ![t] = Created(@, param)]
        /\ ctx'[t] \in Register /\ ctx'[t].sp = t /\ ctx'[t].ra = "start"
        /\ param # NULL => ctx'[t].a0 = param
        /\ \A u \in Contexts : u # t => ctx'[u] = ctx[u]
        /\ given' = [given EXCEPT ![t] = param]
        /\ _top' \in 0 .. MaxTasks
  BY Creating, Zenon
<1>3. TypeOK'
  <2>1. ctx' \in [Contexts -> Register] /\ given' \in [Tasks -> Params]
    BY <1>1, <1>2, Sets DEF TypeOK
  <2>2. /\ task_status' \in [Tasks -> {"EMPTY", "READY", "RUNNING", "EXITED"}]
        /\ task_priorities' \in [Tasks -> 0 .. 255]
    BY <1>1, <1>2 DEF TypeOK, task_create
  <2> QED
    BY <1>1, <1>2, <2>1, <2>2 DEF TypeOK
<1>4. HasTarget'
  BY <1>1 DEF CInv, HasTarget
<1>5. ASSUME ~ hit PROVE Undisturbed'
  <2>1. Undisturbed
    BY <1>5 DEF CInv
  <2>2. ~ Alive(t) /\ \A u \in Tasks : u # t => (Alive(u)' <=> Alive(u))
    BY <1>2 DEF Alive
  <2>3. given'[t] = param /\ \A u \in Tasks : u # t => given'[u] = given[u]
    BY <1>1, <1>2 DEF TypeOK
  <2>4. TasksWait'
    <3>1. \A u \in Tasks : u # t /\ Waits(u) => Waits(u)'
      BY <1>2, <2>3, Sets DEF Waits, HasArg
    <3>2. Waits(t)'
      BY <1>2, <2>3 DEF Waits, HasArg
    <3>3. \A u \in Tasks : InContext(u)' <=> InContext(u)
      BY <1>1 DEF InContext
    <3> QED
      BY <2>1, <2>2, <3>1, <3>2, <3>3 DEF Undisturbed, TasksWait
  <2>5. KernelWaits'
    BY <1>1, <1>2, <2>1, Sets DEF Undisturbed, KernelWaits, KernelRuns
  <2>6. pc = "run" => TaskExecutes'
    <3>1. pc = "run" => TaskExecutes /\ _current # t
      BY <2>1, <2>2 DEF Undisturbed, InTask, TaskExecutes
    <3> QED
      BY <1>1, <2>2, <2>3, <3>1 DEF TaskExecutes, HasArg
  <2> QED
    BY <1>1, <2>1, <2>4, <2>5, <2>6 DEF Undisturbed, KernelExecutes, SwitchGoesOn, InTask
<1> QED
  BY <1>1, <1>3, <1>4, <1>5 DEF CInv
-----------------------------------------------------------------------------
(* Steps that leave the scheduler and the contexts alone.                  *)
LEMMA NothingMoves ==
  ASSUME UNCHANGED <<kernel, sched, ctx, given>>
  PROVE  /\ \A t \in Tasks : Alive(t)' <=> Alive(t)
         /\ \A t \in Tasks : Waits(t)' <=> Waits(t)
         /\ \A c \in Contexts : Target(c) => Target(c)'
         /\ TasksWait /\ (\A t \in Tasks : InContext(t)' => InContext(t)) => TasksWait'
<1>1. \A t \in Tasks : Alive(t)' <=> Alive(t)
  BY DEF Alive, There, ByPriority, sched
<1>2. \A t \in Tasks : Waits(t)' <=> Waits(t)
  BY DEF Waits, HasArg
<1>3. ByPriority' <=> ByPriority
  BY DEF ByPriority
<1>4. Highest(task_status)' = Highest(task_status)
  BY DEF Highest, Schedulable, sched
<1>5. \A c \in Contexts : Target(c) => Target(c)'
  BY <1>1, <1>3, <1>4 DEF Target, sched
<1> QED
  BY <1>1, <1>2, <1>5 DEF TasksWait

LEMMA Start ==
  ASSUME CInv, start
  PROVE  CInv'
<1>1. /\ TypeOK /\ pc = "start" /\ pc' = "run" /\ regs' = [regs EXCEPT !.s = <<regs.a0, 0>>]
      /\ UNCHANGED <<kernel, sched, ctx, mscratch, given, hit>>
  BY DEF CInv, start
<1>2. regs' \in Register /\ regs'.sp = regs.sp /\ regs'.s[1] = regs.a0
  BY <1>1 DEF TypeOK, Register
<1>3. TypeOK' /\ HasTarget'
  BY <1>1, <1>2 DEF TypeOK, HasTarget, Codes, Labels, sched
<1>4. ASSUME ~ hit PROVE Undisturbed'
  <2>1. Undisturbed /\ TaskExecutes
    BY <1>1, <1>4 DEF CInv, Undisturbed, InTask
  <2>2. TaskExecutes'
    BY <1>1, <1>2, <2>1, NothingMoves DEF TaskExecutes, HasArg, sched
  <2>3. TasksWait'
    <3>1. \A t \in Tasks : InContext(t)' => InContext(t)
      BY <1>1, <1>2 DEF InContext
    <3> QED
      BY <1>1, <2>1, <3>1, NothingMoves DEF Undisturbed
  <2> QED
    BY <1>1, <1>2, <2>1, <2>2, <2>3
    DEF Undisturbed, KernelWaits, KernelRuns, KernelExecutes, SwitchGoesOn, InTask
<1> QED
  BY <1>1, <1>3, <1>4 DEF CInv

LEMMA Work ==
  ASSUME CInv, work
  PROVE  CInv'
<1>1. /\ TypeOK /\ pc = "run" /\ pc' = pc /\ regs' = [regs EXCEPT !.s[2] = 1 - @]
      /\ UNCHANGED <<kernel, sched, ctx, mscratch, given, hit>>
  BY DEF CInv, work
<1>2. regs' \in Register /\ regs'.sp = regs.sp /\ regs'.a0 = regs.a0 /\ regs'.s[1] = regs.s[1]
  <2>1. regs \in Register /\ regs.s \in Words \X {0, 1}
    BY <1>1 DEF TypeOK, Register
  <2>2. [regs.s EXCEPT ![2] = 1 - @] \in Words \X {0, 1}
        /\ [regs.s EXCEPT ![2] = 1 - @][1] = regs.s[1]
    BY <2>1
  <2> QED
    BY <1>1, <2>1, <2>2 DEF Register
<1>3. TypeOK' /\ HasTarget'
  BY <1>1, <1>2 DEF TypeOK, HasTarget, sched
<1>4. ASSUME ~ hit PROVE Undisturbed'
  <2>1. Undisturbed /\ TaskExecutes
    BY <1>1, <1>4 DEF CInv, Undisturbed, InTask
  <2>2. TaskExecutes'
    BY <1>1, <1>2, <2>1, NothingMoves DEF TaskExecutes, HasArg, sched
  <2>3. TasksWait'
    <3>1. \A t \in Tasks : InContext(t)' => InContext(t)
      BY <1>1, <1>2 DEF InContext
    <3> QED
      BY <1>1, <2>1, <3>1, NothingMoves DEF Undisturbed
  <2> QED
    BY <1>1, <1>2, <2>1, <2>2, <2>3
    DEF Undisturbed, KernelWaits, KernelRuns, KernelExecutes, SwitchGoesOn, InTask
<1> QED
  BY <1>1, <1>3, <1>4 DEF CInv

(* The labels of switch_to.                                                *)
LEMMA Swap ==
  ASSUME CInv, swap
  PROVE  CInv'
<1>1. /\ TypeOK /\ pc = "swap" /\ regs' = [regs EXCEPT !.t6 = mscratch]
      /\ mscratch' = regs.t6 /\ pc' = IF mscratch = NULL THEN "point" ELSE "save"
      /\ UNCHANGED <<kernel, sched, ctx, given, hit>>
  BY DEF CInv, swap
<1>2. /\ regs' \in Register /\ mscratch' \in Words
      /\ regs'.t6 = mscratch /\ regs'.sp = regs.sp /\ regs'.ra = regs.ra
      /\ regs'.a0 = regs.a0 /\ regs'.s = regs.s
  BY <1>1 DEF TypeOK, Register
<1>3. TypeOK' /\ HasTarget'
  BY <1>1, <1>2 DEF CInv, TypeOK, HasTarget, Codes, sched
<1>4. ASSUME ~ hit PROVE Undisturbed'
  <2>1. Undisturbed /\ CallerSwitches /\ Target(regs.a0) /\ mscratch = Own
    BY <1>1, <1>4 DEF CInv, Undisturbed, SwitchGoesOn
  <2>2. /\ pc' = "point" => regs.sp = OS /\ kernel # "9_2"
        /\ pc' = "save" => regs'.t6 = regs'.sp
    BY <1>1, <1>2, <2>1, Sets DEF Own, CallerSwitches
  <2>3. TasksWait'
    <3>1. \A t \in Tasks : InContext(t)' => InContext(t)
      BY <1>1, <1>2, <2>2, Sets DEF InContext
    <3> QED
      BY <1>1, <2>1, <3>1, NothingMoves DEF Undisturbed
  <2>4. KernelWaits'
    BY <1>1, <1>2, <2>1, <2>2 DEF Undisturbed, KernelWaits, KernelRuns
  <2>5. CallerSwitches' /\ Target(regs.a0)'
    <3>1. CallerSwitches'
      BY <1>1, <1>2, <2>1 DEF CallerSwitches, Alive, There, ByPriority, HasArg, sched
    <3>2. Target(regs.a0)'
      <4>1. PICK c \in Contexts : c = regs.a0
        BY <1>1 DEF CInv, HasTarget
      <4>2. Target(c)'
        BY <1>1, <2>1, <4>1, NothingMoves
      <4> QED
        BY <1>2, <4>1, <4>2 DEF Target, Alive, There
    <3> QED
      BY <3>1, <3>2
  <2> QED
    BY <1>1, <1>2, <2>1, <2>2, <2>3, <2>4, <2>5, Sets
    DEF Undisturbed, KernelExecutes, SwitchGoesOn, InTask
<1> QED
  BY <1>1, <1>3, <1>4 DEF CInv

(* The caller's registers are in its context.                              *)
LEMMA Save ==
  ASSUME CInv, save
  PROVE  CInv'
<1>1. /\ TypeOK /\ pc = "save" /\ pc' = "point" /\ regs' = [regs EXCEPT !.t6 = mscratch]
      /\ ctx' = [ctx EXCEPT ![regs.t6] = [regs EXCEPT !.t6 = mscratch]]
      /\ UNCHANGED <<kernel, sched, mscratch, given, hit>>
  BY DEF CInv, save
<1>2. /\ regs' \in Register /\ ctx' \in [Contexts -> Register]
      /\ regs'.sp = regs.sp /\ regs'.ra = regs.ra /\ regs'.a0 = regs.a0 /\ regs'.s = regs.s
  BY <1>1 DEF TypeOK, Register
<1>3. TypeOK' /\ HasTarget'
  BY <1>1, <1>2 DEF CInv, TypeOK, HasTarget, Codes, sched
<1>4. ASSUME ~ hit PROVE Undisturbed'
  <2>1. Undisturbed /\ CallerSwitches /\ Target(regs.a0) /\ regs.t6 = regs.sp
    BY <1>1, <1>4 DEF CInv, Undisturbed, SwitchGoesOn
  <2>2. PICK c \in Contexts : c = regs.sp
    BY <2>1 DEF CallerSwitches
  <2>3. /\ \A u \in Contexts : u # c => ctx'[u] = ctx[u]
        /\ ctx'[c].sp = c /\ ctx'[c].ra = regs.ra /\ ctx'[c].s = regs.s
    BY <1>1, <2>1, <2>2 DEF TypeOK, Register
  <2>4. \A t \in Tasks : Alive(t)' <=> Alive(t)
    BY <1>1 DEF Alive, There, ByPriority, sched
  <2>5. TasksWait'
    <3>1. \A t \in Tasks : t # c /\ Waits(t) => Waits(t)'
      BY <1>1, <2>3, Sets DEF Waits, HasArg
    <3>2. c \in Tasks /\ Alive(c) => Waits(c)'
      <4>1. c \in Tasks /\ Alive(c) => regs.ra = "run" /\ HasArg(c, "run", regs.a0, regs.s)
        BY <2>1, <2>2 DEF CallerSwitches
      <4> QED
        BY <1>1, <2>3, <4>1 DEF Waits, HasArg
    <3>3. \A t \in Tasks : t # c => InContext(t)
      BY <2>2 DEF InContext
    <3> QED
      BY <2>1, <2>4, <3>1, <3>2, <3>3 DEF Undisturbed, TasksWait
  <2>6. KernelWaits'
    <3>1. CASE c = OS
      BY <1>1, <2>1, <2>2, <2>3, <3>1 DEF KernelWaits, CallerSwitches
    <3>2. CASE c # OS
      BY <1>1, <2>1, <2>2, <2>3, <3>2, Sets DEF Undisturbed, KernelWaits, KernelRuns
    <3> QED
      BY <3>1, <3>2
  <2>7. CallerSwitches' /\ Target(regs.a0)'
        /\ ctx'[regs'.sp].ra = regs'.ra /\ ctx'[regs'.sp].s = regs'.s
    <3>1. CallerSwitches'
      BY <1>1, <1>2, <2>1 DEF CallerSwitches, Alive, There, ByPriority, HasArg, sched
    <3>2. Target(regs.a0)'
      BY <1>1, <1>2, <2>1
      DEF Target, Alive, There, ByPriority, Highest, Schedulable, sched
    <3>3. ctx'[regs'.sp].ra = regs'.ra /\ ctx'[regs'.sp].s = regs'.s
      BY <1>2, <2>2, <2>3
    <3> QED
      BY <3>1, <3>2, <3>3
  <2> QED
    BY <1>1, <2>1, <2>5, <2>6, <2>7
    DEF Undisturbed, KernelExecutes, SwitchGoesOn, InTask
<1> QED
  BY <1>1, <1>3, <1>4 DEF CInv

LEMMA Point ==
  ASSUME CInv, point
  PROVE  CInv'
<1>1. /\ TypeOK /\ pc = "point" /\ pc' = "load" /\ regs' = [regs EXCEPT !.t6 = regs.a0]
      /\ mscratch' = regs.a0 /\ UNCHANGED <<kernel, sched, ctx, given, hit>>
  BY DEF CInv, point
<1>2. PICK c \in Contexts : c = regs.a0
  BY <1>1 DEF CInv, HasTarget
<1>3. /\ regs' \in Register /\ mscratch' \in Words /\ regs'.t6 = c
      /\ regs'.sp = regs.sp /\ regs'.ra = regs.ra /\ regs'.a0 = regs.a0 /\ regs'.s = regs.s
  BY <1>1, <1>2 DEF TypeOK, Register
<1>4. TypeOK' /\ HasTarget'
  BY <1>1, <1>2, <1>3 DEF CInv, TypeOK, HasTarget, Codes, sched
<1>5. ASSUME ~ hit PROVE Undisturbed'
  <2>1. Undisturbed /\ CallerSwitches /\ Target(c)
    BY <1>1, <1>2, <1>5 DEF CInv, Undisturbed, SwitchGoesOn
  <2>2. Target(regs.t6)'
    <3>1. Target(c)'
      BY <1>1, <2>1, NothingMoves
    <3> QED
      BY <1>3, <3>1 DEF Target, Alive, There
  <2>3. TasksWait'
    <3>1. \A t \in Tasks : InContext(t)' => InContext(t)
      BY <1>1, <1>3 DEF InContext
    <3> QED
      BY <1>1, <2>1, <3>1, NothingMoves DEF Undisturbed
  <2>4. CallerSwitches'
    BY <1>1, <1>3, <2>1 DEF CallerSwitches, Alive, There, ByPriority, HasArg, sched
  <2> QED
    BY <1>1, <1>2, <1>3, <2>1, <2>2, <2>3, <2>4
    DEF Undisturbed, KernelWaits, KernelRuns, KernelExecutes, SwitchGoesOn, InTask
<1> QED
  BY <1>1, <1>4, <1>5 DEF CInv

(* What is loaded is where the target waits.                               *)
LEMMA TargetWaits ==
  ASSUME CInv, ~ hit, pc \in {"load", "load_rest"}
  PROVE  /\ regs.t6 \in Contexts /\ ctx[regs.t6].sp = regs.t6
         /\ regs.t6 = OS => ctx[OS].ra = "os" /\ kernel = "9_2"
         /\ regs.t6 \in Tasks => Waits(regs.t6)
<1>1. Undisturbed /\ Target(regs.t6) /\ regs.t6 \in Contexts
  BY DEF CInv, Undisturbed, SwitchGoesOn, HasTarget
<1>2. regs.t6 \in Tasks => Waits(regs.t6)
  BY <1>1, Sets DEF Undisturbed, TasksWait, InContext, Target
<1>3. regs.t6 = OS => ctx[OS].sp = OS /\ ctx[OS].ra = "os" /\ kernel = "9_2"
  BY <1>1, Sets DEF Undisturbed, KernelWaits, KernelRuns, Target
<1> QED
  BY <1>1, <1>2, <1>3 DEF Contexts, Waits

LEMMA Load ==
  ASSUME CInv, load
  PROVE  CInv'
<1>1. /\ TypeOK /\ pc = "load" /\ pc' = "load_rest"
      /\ regs' = [regs EXCEPT !.ra = ctx[regs.t6].ra, !.sp = ctx[regs.t6].sp]
      /\ UNCHANGED <<kernel, sched, ctx, mscratch, given, hit>>
  BY DEF CInv, load
<1>2. PICK c \in Contexts : c = regs.t6
  BY <1>1 DEF CInv, HasTarget
<1>3. /\ regs' \in Register /\ regs'.sp = ctx[c].sp /\ regs'.ra = ctx[c].ra /\ regs'.t6 = c
  BY <1>1, <1>2 DEF TypeOK, Register
<1>4. TypeOK' /\ HasTarget'
  BY <1>1, <1>2, <1>3 DEF CInv, TypeOK, HasTarget, Codes, sched
<1>5. ASSUME ~ hit PROVE Undisturbed'
  <2>1. Undisturbed /\ Target(c) /\ mscratch = c
    BY <1>1, <1>2, <1>5 DEF CInv, Undisturbed, SwitchGoesOn
  <2>2. Target(regs.t6)'
    <3>1. Target(c)'
      BY <1>1, <2>1, NothingMoves
    <3> QED
      BY <1>3, <3>1 DEF Target, Alive, There
  <2>3. TasksWait'
    <3>1. \A t \in Tasks : InContext(t)
      BY <1>1 DEF InContext
    <3> QED
      BY <1>1, <2>1, <3>1, NothingMoves DEF Undisturbed
  <2> QED
    BY <1>1, <1>3, <2>1, <2>2, <2>3
    DEF Undisturbed, KernelWaits, KernelRuns, KernelExecutes, SwitchGoesOn, InTask
<1> QED
  BY <1>1, <1>4, <1>5 DEF CInv

LEMMA LoadRest ==
  ASSUME CInv, load_rest
  PROVE  CInv'
<1>1. /\ TypeOK /\ pc = "load_rest" /\ pc' = "ret"
      /\ regs' = [ctx[regs.t6] EXCEPT !.ra = regs.ra, !.sp = regs.sp]
      /\ UNCHANGED <<kernel, sched, ctx, mscratch, given, hit>>
  BY DEF CInv, load_rest
<1>2. PICK c \in Contexts : c = regs.t6
  BY <1>1 DEF CInv, HasTarget
<1>3. /\ regs' \in Register /\ regs'.sp = regs.sp /\ regs'.ra = regs.ra
      /\ regs'.a0 = ctx[c].a0 /\ regs'.s = ctx[c].s
  BY <1>1, <1>2, ZenonT(60) DEF TypeOK, Register
<1>4. TypeOK' /\ HasTarget'
  BY <1>1, <1>3 DEF CInv, TypeOK, HasTarget, Codes, sched
<1>5. ASSUME ~ hit PROVE Undisturbed'
  <2>1. Undisturbed /\ Target(c) /\ mscratch = c /\ regs.sp = ctx[c].sp /\ regs.ra = ctx[c].ra
    BY <1>1, <1>2, <1>5 DEF CInv, Undisturbed, SwitchGoesOn
  <2>2. /\ ctx[c].sp = c /\ (c \in Tasks => Waits(c))
        /\ c = OS => ctx[OS].ra = "os" /\ kernel = "9_2"
    BY <1>1, <1>2, <1>5, TargetWaits
  <2>3. Target(c)' /\ (Waits(c)' <=> Waits(c))
    BY <1>1, <2>1, NothingMoves DEF Waits, HasArg
  <2>4. Target(regs.sp)'
    BY <1>3, <2>1, <2>2, <2>3 DEF Target, Alive, There
  <2>5. TasksWait'
    <3>1. \A t \in Tasks : InContext(t)
      BY <1>1 DEF InContext
    <3> QED
      BY <1>1, <2>1, <3>1, NothingMoves DEF Undisturbed
  <2>6. c \in Tasks => regs'.ra \in {"start", "run"} /\ HasArg(regs.sp, regs.ra, regs.a0, regs.s)'
    BY <1>1, <1>3, <2>1, <2>2 DEF Waits, HasArg
  <2> QED
    BY <1>1, <1>3, <2>1, <2>2, <2>4, <2>5, <2>6
    DEF Undisturbed, KernelWaits, KernelRuns, KernelExecutes, SwitchGoesOn, InTask
<1> QED
  BY <1>1, <1>4, <1>5 DEF CInv

LEMMA Ret ==
  ASSUME CInv, ret
  PROVE  CInv'
<1>1. /\ TypeOK /\ pc = "ret" /\ pc' = regs.ra /\ regs.ra \in Labels
      /\ UNCHANGED <<kernel, sched, ctx, mscratch, regs, given, hit>>
  BY DEF CInv, ret, TypeOK, Register
<1>2. TypeOK' /\ HasTarget'
  BY <1>1 DEF CInv, TypeOK, HasTarget, Codes, Labels, sched
<1>3. ASSUME ~ hit PROVE Undisturbed'
  <2>1. /\ Undisturbed /\ Target(regs.sp) /\ mscratch = regs.sp
        /\ regs.sp = OS => regs.ra = "os"
        /\ regs.sp \in Tasks =>
             regs.ra \in {"start", "run"} /\ HasArg(regs.sp, regs.ra, regs.a0, regs.s)
    BY <1>1, <1>3 DEF CInv, Undisturbed, SwitchGoesOn
  <2>2. TasksWait'
    <3>1. \A t \in Tasks : InContext(t)' => InContext(t)
      BY <1>1, Sets, <2>1 DEF InContext, Labels
    <3> QED
      BY <1>1, <2>1, <3>1, NothingMoves DEF Undisturbed
  <2>3. CASE regs.sp = OS
    <3>1. kernel = "9_2" /\ pc' = "os"
      BY <1>1, <2>1, <2>3, Sets DEF Target
    <3> QED
      BY <1>1, <2>1, <2>2, <2>3, <3>1
      DEF Undisturbed, KernelWaits, KernelRuns, KernelExecutes, SwitchGoesOn, InTask
  <2>4. CASE regs.sp # OS
    <3>1. regs.sp \in Tasks /\ regs.sp = _current /\ Alive(_current) /\ pc' \in {"start", "run"}
      BY <1>1, <2>1, <2>4 DEF Target
    <3>2. TaskExecutes'
      BY <1>1, <2>1, <3>1, NothingMoves DEF TaskExecutes, HasArg, sched
    <3> QED
      BY <1>1, <2>1, <2>2, <3>1, <3>2
      DEF Undisturbed, KernelWaits, KernelRuns, KernelExecutes, SwitchGoesOn, InTask
  <2> QED
    BY <2>3, <2>4
<1> QED
  BY <1>1, <1>2, <1>3 DEF CInv

(* A trap where there is a context saves to that of the task that executes *)
(* or has called switch_to, which nobody reads before it is saved again.   *)
LEMMA TrapSaves ==
  ASSUME CInv, trap_vector, ~ hit'
  PROVE  /\ ~ hit /\ mscratch = regs.sp /\ mscratch \in Contexts
         /\ pc \notin {"save", "point", "load", "load_rest"} /\ UNCHANGED pc
         /\ ctx' = [ctx EXCEPT ![mscratch] = regs]
<1>1. /\ ~ hit /\ mscratch \in Contexts /\ pc \notin {"save", "point", "load", "load_rest"}
      /\ ctx' = [ctx EXCEPT ![mscratch] = regs] /\ UNCHANGED pc
  BY DEF trap_vector, HasContext
<1>2. TypeOK /\ Undisturbed /\ kernel = "07"
  BY <1>1 DEF CInv, trap_vector
<1>3. mscratch = regs.sp
  <2>1. pc = "swap" => mscratch = Own
    BY <1>2 DEF Undisturbed, SwitchGoesOn
  <2>2. pc = "ret" => mscratch = regs.sp
    BY <1>2 DEF Undisturbed, SwitchGoesOn
  <2>3. InTask => mscratch = regs.sp
    BY <1>2 DEF Undisturbed, TaskExecutes
  <2>4. pc \notin {"os_main", "os", "panic", "none", "exited", "end", "derailed"}
    BY <1>1, <1>2, Sets DEF Undisturbed, KernelExecutes
  <2> QED
    BY <1>1, <1>2, <2>1, <2>2, <2>3, <2>4, Sets DEF TypeOK, Codes, Labels, Own, InTask
<1> QED
  BY <1>1, <1>3

LEMMA TrapVector ==
  ASSUME CInv, trap_vector
  PROVE  CInv'
<1>1. /\ TypeOK /\ kernel = "07" /\ hit' = (hit \/ ~ HasContext)
      /\ UNCHANGED <<kernel, sched, mscratch, regs, given>>
      /\ IF mscratch \in Contexts
         THEN ctx' = [ctx EXCEPT ![mscratch] = regs] /\ UNCHANGED pc
         ELSE pc' = "derailed" /\ UNCHANGED ctx
  BY DEF CInv, trap_vector
<1>2. TypeOK' /\ HasTarget'
  <2>1. ctx' \in [Contexts -> Register] /\ pc' \in Codes /\ hit' \in BOOLEAN
    BY <1>1 DEF TypeOK, Codes
  <2>2. HasTarget'
    BY <1>1 DEF CInv, HasTarget
  <2> QED
    BY <1>1, <2>1, <2>2 DEF TypeOK, sched
<1>3. ASSUME ~ hit' PROVE Undisturbed'
  <2>1. /\ ~ hit /\ mscratch \in Contexts /\ pc \notin {"save", "point", "load", "load_rest"}
        /\ ctx' = [ctx EXCEPT ![mscratch] = regs] /\ UNCHANGED pc
    BY <1>3, TrapSaves
  <2>2. Undisturbed
    BY <2>1 DEF CInv
  <2>3. mscratch = regs.sp
    BY <1>3, TrapSaves
  <2>4. PICK c \in Contexts : c = regs.sp
    BY <2>1, <2>3
  <2>5. \A u \in Contexts : u # c => ctx'[u] = ctx[u]
    BY <1>1, <2>1, <2>3, <2>4 DEF TypeOK
  <2>6. TasksWait'
    <3>1. \A t \in Tasks : t # c /\ Waits(t) => Waits(t)'
      BY <1>1, <2>5, Sets DEF Waits, HasArg
    <3>2. \A t \in Tasks : InContext(t)' => InContext(t) /\ t # c
      BY <1>1, <2>1, <2>4 DEF InContext
    <3>3. \A t \in Tasks : Alive(t)' <=> Alive(t)
      BY <1>1 DEF Alive, There, ByPriority, sched
    <3> QED
      BY <2>2, <3>1, <3>2, <3>3 DEF Undisturbed, TasksWait
  <2>7. TaskExecutes => TaskExecutes'
    BY <1>1, <2>1 DEF TaskExecutes, HasArg, Alive, There, ByPriority, sched
  <2>8. CallerSwitches => CallerSwitches'
    BY <1>1 DEF CallerSwitches, Alive, There, ByPriority, HasArg, sched
  <2>9. /\ Target(regs.a0) => Target(regs.a0)'
        /\ Target(regs.sp) => Target(regs.sp)'
    BY <1>1 DEF Target, Alive, There, ByPriority, sched
  <2>10. SwitchGoesOn'
    <3>1. /\ HasArg(regs.sp, regs.ra, regs.a0, regs.s)'
               <=> HasArg(regs.sp, regs.ra, regs.a0, regs.s)
          /\ Own' = Own
      BY <1>1 DEF HasArg, Own
    <3> QED
      BY <1>1, <2>1, <2>2, <2>8, <2>9, <3>1 DEF Undisturbed, SwitchGoesOn
  <2> QED
    BY <1>1, <2>1, <2>2, <2>6, <2>7, <2>10
    DEF Undisturbed, KernelWaits, KernelExecutes, InTask, sched
<1> QED
  BY <1>1, <1>2, <1>3 DEF CInv
-----------------------------------------------------------------------------
LEMMA InitCInv ==
  ASSUME Init
  PROVE  CInv
<1>1. TypeOK
  <2>1. /\ kernel \in Kernels /\ _top = 0 /\ _current = -1
        /\ mscratch \in Words /\ pc \in Codes /\ hit \in BOOLEAN
    BY Sets DEF Init, Codes, Labels
  <2>2. [ra |-> "none", sp |-> NULL, s |-> <<NULL, 0>>, a0 |-> NULL, t6 |-> NULL] \in Register
    BY Sets DEF Register, Labels
  <2>3. [ra |-> "none", sp |-> OS, s |-> <<Junk, 0>>, a0 |-> Junk, t6 |-> Junk] \in Register
    BY Sets DEF Register, Labels
  <2>4. _top \in 0 .. MaxTasks /\ _current \in -1 .. MaxTasks - 1
    BY <2>1
  <2>5. given \in [Tasks -> Params]
    BY DEF Init, Params
  <2> QED
    BY <2>1, <2>2, <2>3, <2>4, <2>5 DEF Init, TypeOK
<1>2. HasTarget /\ ~ hit
  BY DEF Init, HasTarget
<1>3. \A t \in Tasks : ~ Alive(t)
  BY Sets DEF Init, Alive, There
<1>4. TasksWait
  BY <1>3 DEF TasksWait
<1>5. Undisturbed
  BY <1>4 DEF Init, Undisturbed, KernelWaits, KernelRuns, KernelExecutes, SwitchGoesOn, InTask
<1> QED
  BY <1>1, <1>2, <1>5 DEF CInv

LEMMA NextCInv ==
  ASSUME CInv, [Next]_vars
  PROVE  CInv'
<1>1. ASSUME UNCHANGED vars PROVE CInv'
  BY <1>1
  DEF vars, sched, CInv, TypeOK, HasTarget, Undisturbed, TasksWait, KernelWaits, KernelRuns,
      KernelExecutes, SwitchGoesOn, CallerSwitches, Target, Own, InTask, TaskExecutes, Alive,
      There, ByPriority, InContext, Waits, HasArg, Highest, Schedulable
<1>2. CASE start_kernel
  BY <1>2, StartKernel
<1>3. CASE start
  BY <1>3, Start
<1>4. CASE work
  BY <1>4, Work
<1>5. CASE task_yield
  BY <1>5, TaskYield
<1>6. CASE task_exit
  BY <1>6, TaskExit
<1>7. CASE \E c \in Creations : task_create(c[1], c[2])
  BY <1>7, TaskCreate
<1>8. CASE switch_to
  BY <1>8, Swap, Save, Point, Load, LoadRest, Ret DEF switch_to
<1>9. CASE trap_vector
  BY <1>9, TrapVector
<1>10. CASE halt
  BY <1>1, <1>10 DEF halt
<1> QED
  BY <1>1, <1>2, <1>3, <1>4, <1>5, <1>6, <1>7, <1>8, <1>9, <1>10 DEF Next

(* The invariant holds in every state of every execution.                  *)
THEOREM CoopInvariant == Spec => []CInv
  BY InitCInv, NextCInv, PTL DEF Spec

(* The variables have their types: in particular, there are at most        *)
(* MAX_TASKS tasks, _current is one of them, and ret finds a label in ra.  *)
THEOREM CoopTypeCorrect == Spec => []TypeOK
<1>1. CInv => TypeOK
  BY DEF CInv
<1> QED
  BY <1>1, CoopInvariant, PTL

(* A task executes only as the current one, with mscratch at its context:  *)
(* in stage 04 and the exercises always, in stage 07 unless a trap has     *)
(* come where there is no context.                                         *)
THEOREM OnlyCurrentExecutes == Spec => []CurrentExecutes
<1>1. CInv => CurrentExecutes
  BY DEF CInv, CurrentExecutes, Undisturbed, TaskExecutes
<1> QED
  BY <1>1, CoopInvariant, PTL

(* The calls that the code takes for the end of the story do not return:   *)
(* schedule in start_kernel, task_yield in task_exit.                      *)
THEOREM CallsNeverReturn == Spec => []NeverReturns
<1>1. CInv => NeverReturns
  BY DEF CInv, NeverReturns, Undisturbed
<1> QED
  BY <1>1, CoopInvariant, PTL

(* Exercises 9-1 and 9-2 resume a task of the highest priority there is.   *)
THEOREM SwitchesToHighest == Spec => []HighestIsResumed
<1>1. ASSUME CInv PROVE HighestIsResumed
  <2>1. ByPriority => ~ hit
    BY <1>1 DEF CInv, ByPriority
  <2> QED
    BY <1>1, <2>1, Sets DEF CInv, HighestIsResumed, Undisturbed, SwitchGoesOn, Target, ByPriority
<1> QED
  BY <1>1, CoopInvariant, PTL
-----------------------------------------------------------------------------
(* The cooperative kernels implement Coroutines: a step that starts a task,*)
(* is its own work or ends it is a step of that task's thread, task_create *)
(* creates one, the step of switch_to that loads sp transfers control, and *)
(* every other step leaves all threads as they are.                        *)

threads == IF hit THEN [t \in Tasks |-> [at |-> "none"]] ELSE [t \in Tasks |-> Thread(t)]

(* A step that leaves what each task holds, and whose registers the hart   *)
(* has, where they are.                                                    *)
Stutters == UNCHANGED <<regs.sp, given, hit>> /\ \A t \in Tasks : Thread(t)' = Thread(t)

LEMMA StutteringStep ==
  ASSUME ~ hit, Stutters
  PROVE  [Abstract!Next]_<<regs.sp, threads, given, hit>>
<1>1. threads' = threads
  BY DEF threads, Stutters
<1> QED
  BY <1>1 DEF Stutters

(* Once the kernel has broken down it stays so, and any step is allowed.   *)
LEMMA BrokenStep ==
  ASSUME hit'
  PROVE  Abstract!Next
  BY DEF Abstract!Next

(* The thread of a task whose registers the hart has, and of one that      *)
(* waits.                                                                  *)
LEMMA ThreadInRegs ==
  ASSUME NEW t \in Tasks, Alive(t), regs.sp = t, pc # "load_rest"
  PROVE  Thread(t) = ThreadOf(IF pc = "ret" THEN regs.ra ELSE pc, regs.a0, regs.s)
  BY DEF Thread, Alive

LEMMA ThreadInContext ==
  ASSUME NEW t \in Tasks, Alive(t), regs.sp # t \/ pc = "load_rest"
  PROVE  Thread(t) = ThreadOf(ctx[t].ra, ctx[t].a0, ctx[t].s)
  BY DEF Thread, Alive

LEMMA SwapStutters ==
  ASSUME CInv, ~ hit, swap
  PROVE  Stutters
<1>1. /\ TypeOK /\ pc = "swap" /\ regs' = [regs EXCEPT !.t6 = mscratch] /\ pc' \in {"save", "point"}
      /\ UNCHANGED <<kernel, sched, ctx, given, hit>>
  BY DEF CInv, swap
<1>2. regs'.sp = regs.sp /\ regs'.s = regs.s
  BY <1>1 DEF TypeOK, Register
<1> QED
  BY <1>1, <1>2 DEF Stutters, Thread, ThreadOf, There, ByPriority, sched

LEMMA SaveStutters ==
  ASSUME CInv, ~ hit, save
  PROVE  Stutters
<1>1. /\ TypeOK /\ pc = "save" /\ pc' = "point" /\ regs' = [regs EXCEPT !.t6 = mscratch]
      /\ ctx' = [ctx EXCEPT ![regs.t6] = [regs EXCEPT !.t6 = mscratch]]
      /\ UNCHANGED <<kernel, sched, mscratch, given, hit>>
      /\ regs.t6 = regs.sp
  BY DEF CInv, save, Undisturbed, SwitchGoesOn
<1>2. regs'.sp = regs.sp /\ regs'.s = regs.s
  BY <1>1 DEF TypeOK, Register
<1>3. \A t \in Tasks : t # regs.sp => ctx'[t] = ctx[t]
  BY <1>1, Sets DEF TypeOK
<1> QED
  BY <1>1, <1>2, <1>3 DEF Stutters, Thread, ThreadOf, There, ByPriority, sched

LEMMA PointStutters ==
  ASSUME CInv, ~ hit, point
  PROVE  Stutters
<1>1. /\ TypeOK /\ pc = "point" /\ pc' = "load" /\ regs' = [regs EXCEPT !.t6 = regs.a0]
      /\ UNCHANGED <<kernel, sched, ctx, given, hit>>
  BY DEF CInv, point
<1>2. regs'.sp = regs.sp /\ regs'.s = regs.s
  BY <1>1 DEF TypeOK, Register
<1> QED
  BY <1>1, <1>2 DEF Stutters, Thread, ThreadOf, There, ByPriority, sched

LEMMA LoadRestStutters ==
  ASSUME CInv, ~ hit, load_rest
  PROVE  Stutters
<1>1. /\ TypeOK /\ pc = "load_rest" /\ pc' = "ret"
      /\ regs' = [ctx[regs.t6] EXCEPT !.ra = regs.ra, !.sp = regs.sp]
      /\ UNCHANGED <<kernel, sched, ctx, mscratch, given, hit>>
      /\ regs.ra = ctx[regs.t6].ra /\ regs.sp = ctx[regs.t6].sp
  BY DEF CInv, load_rest, Undisturbed, SwitchGoesOn
<1>2. regs.t6 \in Contexts /\ ctx[regs.t6].sp = regs.t6
  BY <1>1, TargetWaits
<1>3. /\ regs'.sp = regs.sp /\ regs'.ra = ctx[regs.sp].ra
      /\ regs'.a0 = ctx[regs.sp].a0 /\ regs'.s = ctx[regs.sp].s
  BY <1>1, <1>2 DEF TypeOK, Register
<1> QED
  BY <1>1, <1>3 DEF Stutters, Thread, ThreadOf, There, ByPriority, sched

LEMMA RetStutters ==
  ASSUME CInv, ~ hit, ret
  PROVE  Stutters
<1>1. /\ pc = "ret" /\ pc' = regs.ra
      /\ UNCHANGED <<kernel, sched, ctx, mscratch, regs, given, hit>>
      /\ regs.sp \in Tasks => regs.ra \in {"start", "run"}
  BY DEF CInv, ret, Undisturbed, SwitchGoesOn
<1> QED
  BY <1>1 DEF Stutters, Thread, ThreadOf, There, ByPriority, sched

LEMMA TrapStutters ==
  ASSUME CInv, trap_vector, ~ hit'
  PROVE  Stutters
<1>1. /\ TypeOK /\ UNCHANGED <<kernel, sched, mscratch, regs, given>>
      /\ hit' = (hit \/ ~ HasContext)
  BY DEF CInv, trap_vector
<1>2. /\ ~ hit /\ mscratch = regs.sp /\ pc # "load_rest" /\ UNCHANGED pc
      /\ ctx' = [ctx EXCEPT ![mscratch] = regs]
  BY TrapSaves
<1>3. \A t \in Tasks : t # regs.sp => ctx'[t] = ctx[t]
  BY <1>1, <1>2, Sets DEF TypeOK
<1>4. hit' = hit
  BY <1>1, <1>2 DEF TypeOK
<1> QED
  BY <1>1, <1>2, <1>3, <1>4 DEF Stutters, Thread, ThreadOf, There, ByPriority, sched

(* A call of schedule or switch_to by a task that yields, or by the        *)
(* kernel, leaves everyone what he holds.                                  *)
LEMMA CallStutters ==
  ASSUME CInv, ~ hit, pc \in {"os_main", "os", "run"}, UNCHANGED Kept, regs'.sp = regs.sp,
         regs'.s = regs.s, pc' \in {"swap", "os", "run", "panic"},
         \A t \in Tasks : Alive(t)' <=> Alive(t),
         \A t \in Tasks : ~ Alive(t) => There(t)' = There(t)
  PROVE  Stutters
<1>1. pc = "run" \/ regs.sp = OS
  BY DEF CInv, Undisturbed, KernelExecutes
<1>2. \A t \in Tasks : There(t) \in {"EMPTY", "EXITED"} <=> ~ Alive(t)
  BY DEF CInv, TypeOK, Alive, There
<1>3. \A t \in Tasks : There(t)' \in {"EMPTY", "EXITED"} => ~ Alive(t)
  BY DEF Alive
<1>4. ASSUME NEW t \in Tasks PROVE Thread(t)' = Thread(t)
  <2>1. CASE ~ Alive(t)
    BY <1>2, <2>1 DEF Thread
  <2>2. CASE Alive(t)
    BY <1>1, <1>2, <1>3, <2>2, Sets DEF Thread, ThreadOf, Kept
  <2> QED
    BY <2>1, <2>2
<1> QED
  BY <1>4 DEF Stutters, Kept

LEMMA StartKernelStutters ==
  ASSUME CInv, ~ hit, start_kernel
  PROVE  Stutters
<1> DEFINE back == IF kernel = "9_2" THEN "os" ELSE "end"
<1>1. /\ TypeOK /\ schedule(task_status, back) /\ UNCHANGED Kept
      /\ task_status \in [Tasks -> Statuses] /\ back \in Labels
      /\ pc = "os_main" \/ (pc = "os" /\ kernel = "9_2")
  BY DEF CInv, start_kernel, Kept, TypeOK, Statuses, Labels
<1>2. pc' # "end" /\ ~ hit'
  BY <1>1, StartKernel DEF CInv, Undisturbed, Kept
<1>3. /\ \A t \in Tasks : Alive(t) <=> IF ByPriority THEN task_status[t] \in {"READY", "RUNNING"}
                                      ELSE t < _top
      /\ \A t \in Tasks : Alive(t)' <=> IF ByPriority THEN task_status'[t] \in {"READY", "RUNNING"}
                                       ELSE t < _top
  BY <1>1, Kinds DEF Alive, There, ByPriority, Kept
<1>4. \A t \in Tasks : There(t)' = IF ByPriority THEN task_status'[t] ELSE There(t)
  BY <1>1 DEF There, ByPriority, Kept
<1>5. CASE UNCHANGED <<regs, _current>> /\ task_status' = task_status /\ pc' \in {back, "panic"}
  <2>1. \A t \in Tasks : (Alive(t)' <=> Alive(t)) /\ There(t)' = There(t)
    BY <1>3, <1>4, <1>5 DEF There
  <2> QED
    BY <1>1, <1>2, <1>5, <2>1, CallStutters
<1>6. CASE /\ _current' \in Tasks /\ Switch(_current', back)
           /\ \A t \in Tasks : ByPriority => (task_status'[t] \in {"READY", "RUNNING"}
                                                <=> task_status[t] \in {"READY", "RUNNING"})
           /\ \A t \in Tasks : ByPriority /\ task_status[t] \notin {"READY", "RUNNING"}
                               => task_status'[t] = task_status[t]
  <2>1. regs'.sp = regs.sp /\ regs'.s = regs.s /\ pc' = "swap"
    BY <1>1, <1>6 DEF Switch, TypeOK, Register
  <2>2. \A t \in Tasks : Alive(t)' <=> Alive(t)
    BY <1>3, <1>6
  <2>3. \A t \in Tasks : ~ Alive(t) => There(t)' = There(t)
    BY <1>3, <1>4, <1>6 DEF There
  <2> QED
    BY <1>1, <2>1, <2>2, <2>3, CallStutters
<1> QED
  BY <1>1, <1>5, <1>6, Scheduling

LEMMA TaskYieldStutters ==
  ASSUME CInv, ~ hit, task_yield
  PROVE  Stutters
<1> DEFINE status == IF ByPriority THEN Marked("READY") ELSE task_status
<1>1. TypeOK /\ pc = "run" /\ UNCHANGED Kept /\ Yields(status, "run")
  BY DEF CInv, task_yield, Yields, Kept
<1>2. _current \in Tasks /\ Alive(_current)
  BY <1>1 DEF CInv, Undisturbed, InTask, TaskExecutes
<1>3. /\ \A t \in Tasks : Alive(t) <=> IF ByPriority THEN task_status[t] \in {"READY", "RUNNING"}
                                      ELSE t < _top
      /\ \A t \in Tasks : Alive(t)' <=> IF ByPriority THEN task_status'[t] \in {"READY", "RUNNING"}
                                       ELSE t < _top
  BY <1>1, Kinds DEF Alive, There, ByPriority, Kept
<1>4. \A t \in Tasks : There(t)' = IF ByPriority THEN task_status'[t] ELSE There(t)
  BY <1>1 DEF There, ByPriority, Kept
<1>5. /\ status \in [Tasks -> Statuses] /\ (~ ByPriority => status = task_status)
      /\ \A t \in Tasks : ByPriority =>
           /\ status[t] \in {"READY", "RUNNING"} <=> task_status[t] \in {"READY", "RUNNING"}
           /\ t # _current => status[t] = task_status[t]
  BY <1>1, <1>2, <1>3 DEF Marked, TypeOK, Statuses
<1> HIDE DEF status
<1>6. CASE /\ regs'.sp = regs.sp /\ regs'.s = regs.s /\ pc' \in {"swap", "run", "panic"}
           /\ \A t \in Tasks : ByPriority => (task_status'[t] \in {"READY", "RUNNING"}
                                                <=> status[t] \in {"READY", "RUNNING"})
           /\ \A t \in Tasks : ByPriority /\ status[t] \notin {"READY", "RUNNING"}
                               => task_status'[t] = status[t]
  <2>1. \A t \in Tasks : Alive(t)' <=> Alive(t)
    BY <1>3, <1>5, <1>6
  <2>2. \A t \in Tasks : ~ Alive(t) => There(t)' = There(t)
    BY <1>2, <1>3, <1>4, <1>5, <1>6 DEF There
  <2> QED
    BY <1>1, <1>6, <2>1, <2>2, CallStutters
<1>7. CASE kernel = "9_2"
  BY <1>1, <1>6, <1>7 DEF Yields, Switch, TypeOK, Register
<1>8. CASE kernel # "9_2"
  <2>1. schedule(status, "run") /\ "run" \in Labels
    BY <1>1, <1>8 DEF Yields, Labels
  <2>2. CASE UNCHANGED <<regs, _current>> /\ task_status' = status /\ pc' \in {"run", "panic"}
    BY <1>6, <2>2
  <2>3. CASE /\ Switch(_current', "run")
             /\ \A t \in Tasks : ByPriority => (task_status'[t] \in {"READY", "RUNNING"}
                                                  <=> status[t] \in {"READY", "RUNNING"})
             /\ \A t \in Tasks : ByPriority /\ status[t] \notin {"READY", "RUNNING"}
                                 => task_status'[t] = status[t]
    BY <1>1, <1>6, <2>3 DEF Switch, TypeOK, Register
  <2> QED
    BY <1>1, <1>5, <2>1, <2>2, <2>3, Scheduling
<1> QED
  BY <1>7, <1>8

(* A step of one task changes its thread only.                             *)
LEMMA OneThread ==
  ASSUME ~ hit, ~ hit', NEW t \in Tasks, \A u \in Tasks : u # t => Thread(u)' = Thread(u)
  PROVE  threads[t] = Thread(t) /\ threads' = [threads EXCEPT ![t] = Thread(t)']
  BY DEF threads

LEMMA StartRuns ==
  ASSUME CInv, ~ hit, start
  PROVE  Abstract!Next
<1>1. /\ TypeOK /\ pc = "start" /\ pc' = "run" /\ regs' = [regs EXCEPT !.s = <<regs.a0, 0>>]
      /\ UNCHANGED <<kernel, sched, ctx, mscratch, given, hit>>
      /\ regs.sp = _current /\ _current \in Tasks /\ Alive(_current)
  BY DEF CInv, start, Undisturbed, InTask, TaskExecutes
<1>2. PICK t \in Tasks : t = regs.sp /\ Alive(t)
  BY <1>1
<1>3. regs'.sp = t /\ regs'.s = <<regs.a0, 0>> /\ regs.a0 \in Words
  BY <1>1, <1>2 DEF TypeOK, Register
<1>4. Thread(t) = [at |-> "new", arg |-> regs.a0]
  BY <1>1, <1>2, ThreadInRegs DEF ThreadOf
<1>5. Thread(t)' = [at |-> "live", arg |-> regs.a0, n |-> 0]
  <2>1. There(t)' = There(t)
    BY <1>1 DEF There, ByPriority, sched
  <2> QED
    BY <1>1, <1>2, <1>3, <2>1 DEF Thread, ThreadOf, Alive
<1>6. \A u \in Tasks : u # t => Thread(u)' = Thread(u)
  BY <1>1, <1>2, <1>3 DEF Thread, There, ByPriority, sched
<1>7. /\ threads[t] = Abstract!New(regs.a0)
      /\ threads' = [threads EXCEPT ![t] = Abstract!Live(regs.a0, 0)]
  BY <1>1, <1>4, <1>5, <1>6, OneThread DEF Abstract!New, Abstract!Live
<1>8. PICK a \in Words : a = regs.a0
  BY <1>3
<1> QED
  BY <1>1, <1>2, <1>3, <1>7, <1>8 DEF Abstract!Next, Abstract!Run, Abstract!Goes, threads

LEMMA WorkRuns ==
  ASSUME CInv, ~ hit, work
  PROVE  Abstract!Next
<1>1. /\ TypeOK /\ pc = "run" /\ pc' = pc /\ regs' = [regs EXCEPT !.s[2] = 1 - @]
      /\ UNCHANGED <<kernel, sched, ctx, mscratch, given, hit>>
      /\ regs.sp = _current /\ _current \in Tasks /\ Alive(_current)
  BY DEF CInv, work, Undisturbed, InTask, TaskExecutes
<1>2. PICK t \in Tasks : t = regs.sp /\ Alive(t)
  BY <1>1
<1>3. PICK a \in Words, n \in {0, 1} : regs.s = <<a, n>>
  BY <1>1 DEF TypeOK, Register
<1>4. regs'.sp = t /\ regs'.s = <<a, 1 - n>>
  BY <1>1, <1>2, <1>3 DEF TypeOK, Register
<1>5. Thread(t) = [at |-> "live", arg |-> a, n |-> n]
  BY <1>1, <1>2, <1>3, ThreadInRegs DEF ThreadOf
<1>6. Thread(t)' = [at |-> "live", arg |-> a, n |-> 1 - n]
  <2>1. There(t)' = There(t)
    BY <1>1 DEF There, ByPriority, sched
  <2> QED
    BY <1>1, <1>2, <1>4, <2>1 DEF Thread, ThreadOf, Alive
<1>7. \A u \in Tasks : u # t => Thread(u)' = Thread(u)
  BY <1>1, <1>2, <1>4 DEF Thread, There, ByPriority, sched
<1>8. /\ threads[t] = Abstract!Live(a, n)
      /\ threads' = [threads EXCEPT ![t] = Abstract!Live(a, 1 - n)]
  BY <1>1, <1>5, <1>6, <1>7, OneThread DEF Abstract!Live
<1> QED
  BY <1>1, <1>2, <1>4, <1>8 DEF Abstract!Next, Abstract!Run, Abstract!Goes, threads

LEMMA TaskExitRuns ==
  ASSUME CInv, ~ hit, task_exit
  PROVE  Abstract!Next
<1> DEFINE status == Marked("EXITED")
<1>1. TypeOK /\ pc = "run" /\ ByPriority /\ UNCHANGED Kept /\ Yields(status, "exited")
  BY DEF CInv, task_exit, Yields, Kept
<1>2. PICK t \in Tasks : t = regs.sp /\ t = _current /\ Alive(t)
  BY <1>1 DEF CInv, Undisturbed, InTask, TaskExecutes
<1>3. /\ status \in [Tasks -> Statuses] /\ status[t] = "EXITED"
      /\ \A u \in Tasks : u # t => status[u] = task_status[u]
  BY <1>1, <1>2 DEF Marked, TypeOK, Statuses
<1> HIDE DEF status
<1>4. /\ \A u \in Tasks : There(u) = task_status[u]
      /\ \A u \in Tasks : There(u)' = task_status'[u]
      /\ \A u \in Tasks : Alive(u) <=> task_status[u] \in {"READY", "RUNNING"}
  BY <1>1 DEF There, Alive, ByPriority, Kept
<1>5. CASE /\ regs'.sp = regs.sp /\ pc' # "load_rest"
           /\ \A u \in Tasks : task_status'[u] \in {"READY", "RUNNING"}
                                <=> status[u] \in {"READY", "RUNNING"}
           /\ \A u \in Tasks : status[u] \notin {"READY", "RUNNING"}
                               => task_status'[u] = status[u]
  <2>1. Thread(t)' = [at |-> "gone"]
    BY <1>3, <1>4, <1>5 DEF Thread
  <2>2. ASSUME NEW u \in Tasks, u # t PROVE Thread(u)' = Thread(u)
    <3>1. UNCHANGED <<ctx, given>> /\ regs.sp # u /\ regs'.sp # u
      BY <1>1, <1>2, <1>5, <2>2 DEF Kept
    <3>2. CASE Alive(u)
      <4>1. There(u) \in {"READY", "RUNNING"} /\ There(u)' \in {"READY", "RUNNING"}
        BY <1>3, <1>4, <1>5, <2>2, <3>2
      <4> QED
        BY <3>1, <4>1 DEF Thread
    <3>3. CASE ~ Alive(u)
      <4>1. There(u) \in {"EMPTY", "EXITED"} /\ There(u)' = There(u)
        BY <1>1, <1>3, <1>4, <1>5, <2>2, <3>3 DEF TypeOK
      <4> QED
        BY <4>1 DEF Thread
    <3> QED
      BY <3>2, <3>3
  <2>3. Thread(t).at = "live"
    BY <1>1, <1>2, ThreadInRegs DEF ThreadOf
  <2>4. /\ threads[t].at = "live" /\ UNCHANGED <<given, hit>>
        /\ threads' = [threads EXCEPT ![t] = Abstract!Gone]
    BY <1>1, <2>1, <2>2, <2>3, OneThread DEF Abstract!Gone, Kept
  <2> QED
    BY <1>2, <1>5, <2>4 DEF Abstract!Next, Abstract!Run, Abstract!Goes, threads
<1>6. CASE kernel = "9_2"
  BY <1>1, <1>5, <1>6 DEF Yields, Switch, TypeOK, Register
<1>7. CASE kernel # "9_2"
  <2>1. schedule(status, "exited") /\ "exited" \in Labels
    BY <1>1, <1>7 DEF Yields, Labels
  <2>2. CASE UNCHANGED <<regs, _current>> /\ task_status' = status /\ pc' \in {"exited", "panic"}
    BY <1>5, <2>2
  <2>3. CASE /\ Switch(_current', "exited")
             /\ \A u \in Tasks : ByPriority => (task_status'[u] \in {"READY", "RUNNING"}
                                                  <=> status[u] \in {"READY", "RUNNING"})
             /\ \A u \in Tasks : ByPriority /\ status[u] \notin {"READY", "RUNNING"}
                                 => task_status'[u] = status[u]
    BY <1>1, <1>5, <2>3 DEF Switch, TypeOK, Register
  <2> QED
    BY <1>1, <1>3, <2>1, <2>2, <2>3, Scheduling
<1> QED
  BY <1>6, <1>7

LEMMA TaskCreateCreates ==
  ASSUME CInv, ~ hit, NEW c \in Creations, task_create(c[1], c[2])
  PROVE  Abstract!Next
<1> DEFINE param == c[1]
<1>1. /\ TypeOK /\ pc \in {"os_main", "run"} /\ param \in Words
      /\ UNCHANGED <<kernel, _current, mscratch, regs, pc, hit>>
  BY Sets DEF CInv, task_create
<1>2. PICK t \in Tasks :
        /\ There(t) \in {"EMPTY", "EXITED"} /\ There(t)' = "READY"
        /\ \A u \in Tasks : u # t => There(u)' = There(u)
        /\ ctx'[t] \in Register /\ ctx'[t].sp = t /\ ctx'[t].ra = "start"
        /\ param # NULL => ctx'[t].a0 = param
        /\ \A u \in Contexts : u # t => ctx'[u] = ctx[u]
        /\ given' = [given EXCEPT ![t] = param]
  BY Creating, Zenon
<1>3. regs.sp # t
  BY <1>1, <1>2, Sets DEF CInv, Undisturbed, InTask, TaskExecutes, KernelExecutes, Alive
<1>4. PICK a \in Words : a = ctx'[t].a0 /\ (param # NULL => a = param)
  BY <1>2 DEF Register
<1>5. Thread(t) \in {[at |-> "none"], [at |-> "gone"]}
  BY <1>2 DEF Thread
<1>6. Thread(t)' = [at |-> "new", arg |-> a]
  BY <1>1, <1>2, <1>3, <1>4 DEF Thread, ThreadOf
<1>7. ASSUME NEW u \in Tasks, u # t PROVE Thread(u)' = Thread(u)
  BY <1>1, <1>2, <1>7, Sets DEF Thread
<1>8. /\ threads[t] \in {Abstract!None, Abstract!Gone}
      /\ threads' = [threads EXCEPT ![t] = Abstract!New(a)]
  BY <1>1, <1>5, <1>6, <1>7, OneThread DEF Abstract!None, Abstract!Gone, Abstract!New
<1>9. PICK g \in Words : g = param
  BY <1>1
<1>10. Abstract!Create
  <2>1. /\ threads[t] \in {Abstract!None, Abstract!Gone}
        /\ g # NULL => a = g
        /\ given' = [given EXCEPT ![t] = g]
        /\ threads' = [threads EXCEPT ![t] = Abstract!New(a)]
    BY <1>2, <1>4, <1>8, <1>9
  <2>2. UNCHANGED regs.sp
    BY <1>1
  <2> QED
    BY <2>1, <2>2 DEF Abstract!Create, Abstract!Goes, threads
<1> QED
  BY <1>1, <1>10 DEF Abstract!Next

(* Control goes to the target where sp does.                               *)
LEMMA LoadTransfers ==
  ASSUME CInv, ~ hit, load
  PROVE  Abstract!Next
<1>1. /\ TypeOK /\ pc = "load" /\ pc' = "load_rest"
      /\ regs' = [regs EXCEPT !.ra = ctx[regs.t6].ra, !.sp = ctx[regs.t6].sp]
      /\ UNCHANGED <<kernel, sched, ctx, mscratch, given, hit>>
      /\ Undisturbed
  BY DEF CInv, load
<1>2. PICK c \in Contexts : c = regs.t6
  BY <1>1 DEF CInv, HasTarget
<1>3. ctx[c].sp = c /\ Target(c) /\ (c \in Tasks => Waits(c))
  BY <1>1, <1>2, TargetWaits DEF Undisturbed, SwitchGoesOn
<1>4. regs'.sp = c
  BY <1>1, <1>2, <1>3 DEF TypeOK, Register
<1>5. ASSUME NEW t \in Tasks PROVE Thread(t)' = Thread(t)
  <2>1. There(t)' = There(t)
    BY <1>1 DEF There, ByPriority, sched
  <2>2. CASE Alive(t)
    <3>1. Thread(t)' = ThreadOf(ctx[t].ra, ctx[t].a0, ctx[t].s)
      BY <1>1, <2>1, <2>2 DEF Thread, Alive
    <3>2. CASE regs.sp = t
      <4>1. ctx[t].ra = "run" /\ ctx[t].s = regs.s
        BY <1>1, <2>2, <3>2 DEF Undisturbed, SwitchGoesOn, CallerSwitches
      <4> QED
        BY <1>1, <2>2, <3>1, <3>2, <4>1, ThreadInRegs DEF ThreadOf
    <3>3. CASE regs.sp # t
      BY <2>2, <3>1, <3>3, ThreadInContext
    <3> QED
      BY <3>2, <3>3
  <2>3. CASE ~ Alive(t)
    <3>1. There(t) \in {"EMPTY", "EXITED"}
      BY <1>1, <2>3 DEF TypeOK, Alive, There
    <3> QED
      BY <2>1, <3>1 DEF Thread
  <2> QED
    BY <2>2, <2>3
<1>6. threads' = threads /\ UNCHANGED <<given, hit>>
  BY <1>1, <1>5 DEF threads
<1>7. c = OS \/ (c \in Tasks /\ threads[c].at \in {"new", "live"})
  <2>1. ASSUME c # OS PROVE c \in Tasks /\ threads[c].at \in {"new", "live"}
    <3>1. c \in Tasks /\ Alive(c)
      BY <1>3, <2>1 DEF Target
    <3>2. threads[c] = Thread(c)
      BY <3>1 DEF threads
    <3>3. Thread(c).at \in {"new", "live"}
      <4>1. CASE regs.sp = c
        BY <1>1, <3>1, <4>1, ThreadInRegs DEF ThreadOf
      <4>2. CASE regs.sp # c
        BY <3>1, <4>2, ThreadInContext DEF ThreadOf
      <4> QED
        BY <4>1, <4>2
    <3> QED
      BY <3>1, <3>2, <3>3
  <2> QED
    BY <2>1
<1> QED
  BY <1>1, <1>4, <1>6, <1>7 DEF Abstract!Next, Abstract!Transfer, threads
-----------------------------------------------------------------------------
LEMMA InitImplements ==
  ASSUME Init
  PROVE  Abstract!Init
<1>1. \A t \in Tasks : Thread(t) = [at |-> "none"]
  BY Sets DEF Init, Thread, There, ByPriority
<1> QED
  BY <1>1 DEF Init, Abstract!Init, Abstract!None

LEMMA NextImplements ==
  ASSUME CInv, [Next]_vars
  PROVE  [Abstract!Next]_<<regs.sp, threads, given, hit>>
<1>1. CASE hit'
  BY <1>1, BrokenStep
<1>2. CASE ~ hit'
  <2>1. ~ hit
    BY <1>2
    DEF Next, vars, start_kernel, start, work, task_yield, task_exit, Yields, task_create,
        switch_to, swap, save, point, load, load_rest, ret, trap_vector, halt
  <2>2. CASE UNCHANGED vars \/ halt
    BY <2>2 DEF vars, halt, sched, threads, Thread, ThreadOf, There, ByPriority
  <2>3. CASE start_kernel
    BY <2>1, <2>3, StartKernelStutters, StutteringStep
  <2>4. CASE start
    BY <2>1, <2>4, StartRuns
  <2>5. CASE work
    BY <2>1, <2>5, WorkRuns
  <2>6. CASE task_yield
    BY <2>1, <2>6, TaskYieldStutters, StutteringStep
  <2>7. CASE task_exit
    BY <2>1, <2>7, TaskExitRuns
  <2>8. CASE \E c \in Creations : task_create(c[1], c[2])
    BY <2>1, <2>8, TaskCreateCreates
  <2>9. CASE swap \/ save \/ point \/ load_rest \/ ret
    BY <2>1, <2>9, SwapStutters, SaveStutters, PointStutters, LoadRestStutters, RetStutters,
       StutteringStep
  <2>10. CASE load
    BY <2>1, <2>10, LoadTransfers
  <2>11. CASE trap_vector
    BY <1>2, <2>1, <2>11, TrapStutters, StutteringStep
  <2> QED
    BY <2>2, <2>3, <2>4, <2>5, <2>6, <2>7, <2>8, <2>9, <2>10, <2>11 DEF Next, switch_to
<1> QED
  BY <1>1, <1>2

(* Each kernel gives its tasks threads of control of their own: a switch,  *)
(* and in stage 07 a trap where there is a context, changes nothing of     *)
(* what any of them holds.                                                 *)
THEOREM CoopImplementsCoroutines == Spec => ImplementsCoroutines
<1>1. Init => Abstract!Init
  BY InitImplements
<1>2. CInv /\ [Next]_vars => [Abstract!Next]_<<regs.sp, threads, given, hit>>
  BY NextImplements
<1>3. [][Abstract!Next]_<<regs.sp, threads, given, hit>> /\ Abstract!Init => ImplementsCoroutines
  BY DEF ImplementsCoroutines, Abstract!Spec, threads
<1> QED
  BY <1>1, <1>2, <1>3, CoopInvariant, PTL DEF Spec

---------------------------------------------------------------------------
(* Bounded waiting                                                        *)

(* The task picked is no farther in turn than any that is entitled.        *)
LEMMA NextIsNearest ==
  ASSUME TypeOK, NEW status, NEW t \in Highest(status)
  PROVE  /\ NextTask(status) \in Tasks
         /\ NextTask(status) = t \/ Distance(NextTask(status), t) < Distance(_current, t)
<1> DEFINE n == NextTask(status)
           behind == {u \in Highest(status) : u > _current}
<1>1. Highest(status) \in SUBSET Nat /\ Highest(status) \subseteq Tasks /\ Highest(status) # {}
  BY Sets DEF Highest
<1>2. behind \in SUBSET Nat
  BY <1>1
<1>3. n = IF behind # {} THEN Min(behind) ELSE Min(Highest(status))
  BY <1>1 DEF NextTask
<1>4. \/ n \in behind /\ \A u \in behind : n <= u
      \/ behind = {} /\ n \in Highest(status) /\ \A u \in Highest(status) : n <= u
  <2>1. CASE behind # {}
    <3>1. Min(behind) \in behind /\ \A u \in behind : Min(behind) <= u
      BY <1>2, <2>1, MinIsLeast
    <3> QED
      BY <1>3, <2>1, <3>1
  <2>2. CASE behind = {}
    <3>1. /\ Min(Highest(status)) \in Highest(status)
          /\ \A u \in Highest(status) : Min(Highest(status)) <= u
      BY <1>1, MinIsLeast
    <3> QED
      BY <1>3, <2>2, <3>1
  <2> QED
    BY <2>1, <2>2
<1>5. n \in Tasks /\ t \in Tasks
  BY <1>1, <1>4
<1>6. \/ n > _current /\ (t > _current => n <= t)
      \/ t <= _current /\ n <= t
  <2>1. t > _current => t \in behind
    OBVIOUS
  <2>2. t \in Nat /\ _current \in Int
    BY <1>1 DEF TypeOK
  <2> QED
    BY <1>4, <2>1, <2>2
<1> HIDE DEF n, behind
<1>7. /\ MaxTasks \in Nat /\ n \in 0 .. MaxTasks - 1 /\ t \in 0 .. MaxTasks - 1
      /\ _current \in -1 .. MaxTasks - 1
  BY <1>5 DEF TypeOK, Tasks
<1>8. n = t \/ Distance(n, t) < Distance(_current, t)
  BY <1>6, <1>7 DEF Distance
<1> QED
  BY <1>5, <1>8 DEF n

LEMMA InTurnIsNearest ==
  ASSUME NEW top \in Nat, top <= MaxTasks, NEW c \in -1 .. top - 1, NEW t \in 0 .. top - 1
  PROVE  /\ (c + 1) % top \in 0 .. top - 1
         /\ (c + 1) % top = t \/ Distance((c + 1) % top, t) < Distance(c, t)
<1>1. CASE c + 1 = top
  <2>1. top % top = 0
    BY SMT
  <2> QED
    BY <1>1, <2>1 DEF Distance
<1>2. CASE c + 1 < top
  <2>1. (c + 1) % top = c + 1
    BY <1>2
  <2> QED
    BY <1>2, <2>1 DEF Distance
<1> QED
  BY <1>1, <1>2

InTurnBelowTop == ~ ByPriority => _current < _top

LEMMA ScheduleIsNearer ==
  ASSUME TypeOK, InTurnBelowTop, NEW status \in [Tasks -> Statuses], NEW back,
         schedule(status, back), UNCHANGED Kept, NEW t \in Tasks, Entitled(t)'
  PROVE  _current' = t \/ Distance(_current', t) < Distance(_current, t)
<1>1. (ByPriority' <=> ByPriority) /\ _top' = _top
  BY DEF Kept, ByPriority
<1>2. CASE ~ ByPriority
  <2>1. t < _top /\ _current < _top /\ schedule_in_turn(back)
    BY <1>1, <1>2 DEF Entitled, InTurnBelowTop, schedule
  <2>2. _top \in Nat /\ _top <= MaxTasks /\ _current \in -1 .. _top - 1 /\ t \in 0 .. _top - 1
    BY <2>1 DEF TypeOK, Tasks
  <2>3. _current' = (_current + 1) % _top
    BY <2>1, <2>2 DEF schedule_in_turn, InTurn
  <2> QED
    BY <2>2, <2>3, InTurnIsNearest
<1>3. CASE ByPriority
  <2> DEFINE next == NextTask(status)
  <2>1. schedule_by_priority(status, back)
    BY <1>3 DEF schedule
  <2>2. t \in Highest(task_status')
    <3>1. t \in Highest(task_status)'
      BY <1>1, <1>3 DEF Entitled
    <3>2. Highest(task_status)' = Highest(task_status')
      BY DEF Highest, Schedulable, Kept
    <3> QED
      BY <3>1, <3>2
  <2>3. CASE next = -1 \/ (kernel = "9_1" /\ next = _current)
    <3>1. task_status' = status /\ _current' = _current
      BY <2>1, <2>3 DEF schedule_by_priority
    <3>2. t \in Highest(status)
      BY <2>2, <3>1
    <3>3. next \in Tasks /\ (next = t \/ Distance(next, t) < Distance(_current, t))
      BY <3>2, NextIsNearest
    <3>4. next = _current
      BY <2>3, <3>3, Sets
    <3>5. Distance(_current, t) \in Int
      BY DEF Distance, TypeOK, Tasks
    <3> QED
      BY <3>1, <3>3, <3>4, <3>5
  <2>4. CASE ~ (next = -1 \/ (kernel = "9_1" /\ next = _current))
    <3>1. _current' = next /\ task_status' = [status EXCEPT ![next] = "RUNNING"]
      BY <2>1, <2>4 DEF schedule_by_priority
    <3>2. next \in Highest(status)
      BY <2>4, NextIsHighest
    <3>3. t \in Highest(status)
      BY <2>2, <3>1, <3>2, HighestKept
    <3> QED
      BY <3>1, <3>3, NextIsNearest
  <2> QED
    BY <2>3, <2>4
<1> QED
  BY <1>2, <1>3

LEMMA ScheduleCalls ==
  ASSUME TypeOK, Schedules
  PROVE  /\ UNCHANGED Kept
         /\ \E status \in [Tasks -> Statuses], back \in Labels : schedule(status, back)
<1>1. task_status \in [Tasks -> Statuses] /\ \A s \in Statuses : Marked(s) \in [Tasks -> Statuses]
  BY DEF TypeOK, Statuses, Marked
<1>2. "READY" \in Statuses /\ "EXITED" \in Statuses
  BY DEF Statuses
<1>3. {"os", "end", "run", "exited"} \subseteq Labels
  BY DEF Labels
<1>4. CASE start_kernel
  BY <1>1, <1>3, <1>4 DEF start_kernel, Kept
<1>5. CASE kernel # "9_2" /\ task_yield
  BY <1>1, <1>2, <1>3, <1>5 DEF task_yield, Yields, Kept
<1>6. CASE kernel # "9_2" /\ task_exit
  BY <1>1, <1>2, <1>3, <1>6 DEF task_exit, Yields, Kept
<1> QED
  BY <1>4, <1>5, <1>6 DEF Schedules

(* Nothing else moves the turn on, and tasks are never fewer.              *)
LEMMA OthersKeepTurn ==
  ASSUME TypeOK, [Next]_vars, ~ Schedules
  PROVE  UNCHANGED <<kernel, _current>> /\ _top' >= _top
<1>0. _top \in Nat
  BY DEF TypeOK
<1>1. CASE start \/ work \/ switch_to \/ trap_vector \/ halt \/ UNCHANGED vars
  BY <1>0, <1>1 DEF start, work, switch_to, swap, save, point, load, load_rest, ret, trap_vector,
     halt, sched, vars
<1>2. CASE \E c \in Creations : task_create(c[1], c[2])
  BY <1>0, <1>2 DEF task_create
<1>3. CASE task_yield \/ task_exit
  BY <1>0, <1>3 DEF Schedules, task_yield, task_exit, Yields
<1> QED
  BY <1>1, <1>2, <1>3 DEF Next, Schedules

LEMMA StaysBelowTop ==
  ASSUME TypeOK, TypeOK', InTurnBelowTop, [Next]_vars
  PROVE  InTurnBelowTop'
<1>1. CASE Schedules
  <2>1. PICK status \in [Tasks -> Statuses], back \in Labels : schedule(status, back)
    BY <1>1, ScheduleCalls
  <2>2. UNCHANGED Kept
    BY <1>1, ScheduleCalls
  <2>3. (ByPriority' <=> ByPriority) /\ _top' = _top
    BY <2>2 DEF Kept, ByPriority
  <2>4. CASE ~ ByPriority
    <3>1. schedule_in_turn(back)
      BY <2>1, <2>4 DEF schedule
    <3>2. CASE _top <= 0
      BY <2>3, <2>4, <3>1, <3>2 DEF schedule_in_turn, InTurnBelowTop
    <3>3. CASE ~ (_top <= 0)
      <4>1. _top \in Nat /\ _top > 0 /\ _current \in Int /\ _current' = (_current + 1) % _top
        BY <3>1, <3>3 DEF TypeOK, schedule_in_turn, InTurn
      <4>2. (_current + 1) % _top < _top
        BY <4>1
      <4> QED
        BY <2>3, <4>1, <4>2 DEF InTurnBelowTop
    <3> QED
      BY <3>2, <3>3
  <2> QED
    BY <2>3, <2>4 DEF InTurnBelowTop
<1>2. CASE ~ Schedules
  <2>1. UNCHANGED <<kernel, _current>> /\ _top' >= _top
    BY <1>2, OthersKeepTurn
  <2>2. _top' \in Int /\ _top \in Int /\ _current \in Int
    BY DEF TypeOK
  <2> QED
    BY <2>1, <2>2 DEF InTurnBelowTop, ByPriority
<1> QED
  BY <1>1, <1>2

(* A schedule that passes over a task that is entitled to the hart picks   *)
(* one nearer in turn, and nothing else changes whose turn it is; so it    *)
(* waits for at most MaxTasks schedules: see TurnsComeNearer.              *)
THEOREM TurnsPass == Spec => TurnsComeNearer
<1> DEFINE Passes ==
  IF Schedules
  THEN \A t \in Tasks :
         Entitled(t)' => _current' = t \/ Distance(_current', t) < Distance(_current, t)
  ELSE UNCHANGED _current
<1>1. Init => InTurnBelowTop
  BY DEF Init, InTurnBelowTop
<1>2. TypeOK /\ TypeOK' /\ InTurnBelowTop /\ [Next]_vars => InTurnBelowTop'
  BY StaysBelowTop
<1>3. TypeOK /\ InTurnBelowTop /\ [Next]_vars => [Passes]_vars
  <2> SUFFICES ASSUME TypeOK, InTurnBelowTop, [Next]_vars PROVE Passes
    OBVIOUS
  <2>1. CASE Schedules
    <3>1. PICK status \in [Tasks -> Statuses], back \in Labels : schedule(status, back)
      BY <2>1, ScheduleCalls
    <3>2. UNCHANGED Kept
      BY <2>1, ScheduleCalls
    <3> QED
      BY <2>1, <3>1, <3>2, ScheduleIsNearer
  <2>2. CASE ~ Schedules
    BY <2>2, OthersKeepTurn
  <2> QED
    BY <2>1, <2>2
<1>4. TurnsComeNearer <=> [][Passes]_vars
  BY DEF TurnsComeNearer
<1> HIDE DEF Passes
<1> QED
  BY <1>1, <1>2, <1>3, <1>4, CoopTypeCorrect, PTL DEF Spec
=============================================================================
