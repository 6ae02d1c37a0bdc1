---------------------------- MODULE KernelProofs ----------------------------
(***************************************************************************)
(* The safety of module Kernel for any number of tasks and timers, any     *)
(* timeouts, any width of the tick counter, and both builds; that it gives *)
(* every task a processor of its own, and that it implements Timer.        *)
(***************************************************************************)
EXTENDS KernelInv, TLAPS

USE KernelAssumption

LEMMA ModRange ==
  ASSUME NEW a \in Nat, NEW b \in Nat \ {0}
  PROVE  a % b \in 0 .. b - 1
  OBVIOUS

LEMMA LabelSets ==
  /\ TaskLabels \subseteq Labels /\ KernelLabels \subseteq Labels
  /\ TaskLabels \cap KernelLabels = {} /\ "null" \notin TaskLabels
  /\ Locked \subseteq TaskLabels /\ UserLabels \subseteq TaskLabels
  /\ UserLabels \cap Locked = {} /\ CsrCode \subseteq TaskLabels
  /\ CsrCode \cap Locked = {} /\ "ecall" \notin Locked
  BY DEF TaskLabels, KernelLabels, Labels, Locked, CsrCode, UserLabels, NewCode

LEMMA InitEstablishes ==
  Init => KInv
<1> SUFFICES ASSUME Init PROVE KInv
  OBVIOUS
<1>1. /\ current = -1 /\ top = InitTop /\ mscratch = NoOne /\ mcause = "none"
      /\ ctx = [t \in Tasks |-> IF t < InitTop THEN Fresh(t) ELSE Zeroed]
      /\ regs = [sp |-> NoOne, pc |-> "schedule", a0 |-> Junk, i |-> 0]
      /\ TM!Init
  BY DEF Init
<1>2. TypeOK
  <2>1. \A t \in Tasks : Fresh(t) \in Context /\ Zeroed \in Context
    BY DEF Context, Fresh, Zeroed, A0, Tasks, NoOne, Labels, TaskLabels
  <2>2. ctx \in [Tasks -> Context] /\ regs \in Context
    BY <1>1, <2>1 DEF Context, A0, Junk, Labels, KernelLabels, NoOne
  <2>3. timer_list = [s \in Slots |-> [func |-> NULL, timeout_tick |-> 0]] /\ tick = 0
    BY <1>1 DEF TM!Init, TM!Slots, TM!FreeSlot, Slots
  <2>4. /\ timer_list \in [Slots -> [func : Tasks \cup {NULL}, timeout_tick : 0 .. TickMod - 1]]
        /\ tick \in 0 .. TickMod - 1
    BY <2>3
  <2>5. /\ mie \in BOOLEAN /\ mpie \in BOOLEAN /\ mpp \in {"M", "U"} /\ priv \in {"M", "U"}
        /\ msip \in BOOLEAN /\ mtip \in BOOLEAN /\ meip \in BOOLEAN
    BY DEF Init, Level
  <2>6. mepc \in Labels
    BY DEF Init, Labels
  <2>7. top \in 1 .. MaxTasks /\ current \in -1 .. MaxTasks - 1
    BY <1>1
  <2> QED
    BY <1>1, <2>2, <2>4, <2>5, <2>6, <2>7 DEF TypeOK
<1>3. TaskOnHart /\ TrapOnHart /\ Trapped
  BY DEF Init, TaskOnHart, TrapOnHart, Trapped, InTask, TaskLabels, CsrCode, Locked,
       KernelLabels, Level
<1>4. Saved
  <2> SUFFICES ASSUME NEW t \in Created
               PROVE  IsTask(ctx[t], t) /\ ctx[t].pc \in Preemptible
    BY DEF Saved
  <2>1. t \in Tasks /\ t < InitTop
    BY <1>1 DEF Created, Tasks
  <2>2. ctx[t] = Fresh(t)
    BY <1>1, <2>1
  <2> QED
    BY <2>2 DEF IsTask, Fresh, Preemptible, UserLabels, CsrCode, NewCode, TaskLabels, Locked
<1>5. UnusedIsZero
  BY <1>1 DEF UnusedIsZero, Zeroed, Tasks
<1> QED
  BY <1>2, <1>3, <1>4, <1>5 DEF KInv
-----------------------------------------------------------------------------
(* What the invariant says while a task executes.                          *)
LEMMA WhileInTask ==
  ASSUME KInv, InTask
  PROVE  /\ current \in Created /\ current \in Tasks /\ mscratch = current
         /\ regs.sp = current /\ regs \in Context /\ priv = Level
         /\ IsTask(regs, current)
         /\ UserMode \/ (mie <=> regs.pc \notin Locked)
  BY DEF KInv, TypeOK, TaskOnHart, IsTask, Created, Tasks

(* A step of the running task that leaves contexts and scheduler alone     *)
(* keeps the invariant if it keeps the task a task.                        *)
LEMMA TaskKeeps ==
  ASSUME KInv, InTask, TypeOK', InTask',
         UNCHANGED <<priv, mscratch, ctx, top, current>>,
         IsTask(regs, current)',
         (UserMode \/ (mie <=> regs.pc \notin Locked))'
  PROVE  KInv'
<1>1. TaskOnHart' /\ TrapOnHart' /\ UnusedIsZero'
  BY DEF KInv, TaskOnHart, TrapOnHart, UnusedIsZero, Created
<1>2. Trapped'
  BY LabelSets DEF Trapped, InTask, KernelLabels, TaskLabels, CsrCode, Locked
<1>3. Saved'
  BY DEF KInv, Saved, IsTask, Created, InTask
<1> QED
  BY <1>1, <1>2, <1>3 DEF KInv

(* The labels of the running task: what the build lets it execute.         *)
LEMMA TaskLabelsOfBuild ==
  ASSUME KInv, InTask
  PROVE  IF UserMode THEN regs.pc \in UserLabels ELSE regs.pc # "ecall"
  BY WhileInTask DEF IsTask

LEMMA ComputeKeeps ==
  ASSUME KInv, Compute PROVE KInv'
<1>1. InTask /\ regs.pc \in {"user", "cs"}
  BY DEF Compute, At, InTask, TaskLabels, Locked
<1>2. PICK v \in {0, 1} : regs' = [regs EXCEPT !.a0 = v]
  BY DEF Compute
<1>3. regs' \in Context /\ regs'.pc = regs.pc /\ regs'.sp = regs.sp /\ regs'.i = regs.i
  BY <1>1, <1>2, WhileInTask DEF Context, A0
<1>4. TypeOK'
  BY <1>3 DEF KInv, TypeOK, Compute, mstatus, trapCsr, pending, sched, timers
<1>5. IsTask(regs, current)'
  BY <1>1, <1>3, WhileInTask DEF IsTask, Compute, sched
<1> QED
  BY <1>1, <1>3, <1>4, <1>5, WhileInTask, TaskKeeps
     DEF Compute, mstatus, trapCsr, sched, InTask

LEMMA CallKeeps ==
  ASSUME KInv, Call PROVE KInv'
<1>1. InTask /\ regs.pc = "user"
  BY DEF Call, At, InTask, TaskLabels, Locked
<1>2. PICK c \in Calls, a7 \in {0, 1} :
        /\ c = "task_create" => regs.sp \in Creators
        /\ regs' = [regs EXCEPT !.pc = c, !.i = a7]
  BY DEF Call
<1>3. /\ c \in {"task_yield", "spin_lock", "timer_create", "timer_delete",
                 "task_create", "ecall"}
      /\ c = "ecall" => UserMode
  OBVIOUS
<1>4. regs'.pc = c /\ regs'.sp = regs.sp /\ regs' \in Context
  <2>1. c \in Labels /\ a7 \in 0 .. (MaxTasks + MaxTimer)
    BY <1>3 DEF Labels, TaskLabels, CsrCode
  <2> QED
    BY <1>1, <1>2, <2>1, WhileInTask DEF Context
<1>5. TypeOK'
  BY <1>4 DEF KInv, TypeOK, Call, mstatus, trapCsr, pending, sched, timers
<1>6. c \in TaskLabels /\ c \notin Locked
  BY <1>3 DEF TaskLabels, Locked, CsrCode
<1>7. IsTask(regs, current)'
  BY <1>2, <1>3, <1>4, <1>6, <1>1, WhileInTask
     DEF IsTask, Call, sched, NewCode, UserLabels, CsrCode
<1> QED
  BY <1>1, <1>4, <1>5, <1>6, <1>7, WhileInTask, TaskKeeps
     DEF Call, mstatus, trapCsr, sched, InTask, Locked

(* Most steps only move the pc.                                            *)
LEMMA GotoMoves ==
  ASSUME TypeOK, NEW label \in Labels, Goto(label)
  PROVE  /\ regs' \in Context /\ regs'.pc = label
         /\ regs'.sp = regs.sp /\ regs'.i = regs.i /\ regs'.a0 = regs.a0
  BY DEF TypeOK, Goto, Context

(* Outside of task_create a task has nothing to say about contexts.        *)
LEMMA PlainTask ==
  ASSUME ~ UserMode, regs'.sp = current', regs'.pc \in TaskLabels,
         regs'.pc \notin NewCode \cup CsrCode, regs'.pc # "ecall"
  PROVE  IsTask(regs, current)'
  BY DEF IsTask, NewCode

(* The code behind an access to a CSR is executed in M-mode only.          *)
LEMMA CsrInMachineMode ==
  ASSUME KInv, InTask, regs.pc \in CsrCode, Raises = "none"
  PROVE  ~ UserMode
<1>1. priv = Level /\ regs.pc # "ecall"
  BY WhileInTask DEF CsrCode
<1> QED
  BY <1>1 DEF Raises, Level

LEMMA YieldKeeps ==
  ASSUME KInv, task_yield \/ yield_msip PROVE KInv'
<1>1. InTask /\ regs.pc \in {"task_yield", "yield_msip"}
  BY DEF task_yield, yield_msip, At, InTask, TaskLabels, CsrCode
<1>2. PICK l \in {"yield_msip", "user"} : Goto(l)
  BY DEF task_yield, yield_msip
<1>3. l \in TaskLabels /\ l \in Labels /\ l \notin Locked /\ l \notin NewCode \cup CsrCode /\ l # "ecall"
  BY DEF TaskLabels, Labels, Locked, NewCode, CsrCode
<1>4. TypeOK
  BY DEF KInv
<1>5. /\ regs' \in Context /\ regs'.pc = l /\ regs'.sp = regs.sp
  BY <1>2, <1>3, <1>4, GotoMoves
<1>6. TypeOK'
  BY <1>4, <1>5 DEF TypeOK, task_yield, yield_msip, mstatus, trapCsr, pending, sched, timers
<1>7. ~ UserMode
  <2>1. CASE regs.pc = "task_yield"
    <3>1. Raises = "none" /\ regs.pc \in CsrCode
      BY <2>1 DEF task_yield, yield_msip, At, CsrCode
    <3> QED
      BY <1>1, <3>1, CsrInMachineMode
  <2>2. CASE regs.pc = "yield_msip"
    BY <1>1, <2>2, WhileInTask DEF IsTask, UserLabels, NewCode, CsrCode
  <2> QED
    BY <1>1, <2>1, <2>2
<1>8. IsTask(regs, current)'
  BY <1>1, <1>3, <1>5, <1>7, WhileInTask, PlainTask DEF task_yield, yield_msip, sched
<1>9. regs.pc \notin Locked
  BY <1>1 DEF Locked
<1> QED
  BY <1>1, <1>3, <1>5, <1>6, <1>8, <1>9, WhileInTask, TaskKeeps
     DEF task_yield, yield_msip, mstatus, trapCsr, sched, InTask

LEMMA LockKeeps ==
  ASSUME KInv,
         \/ spin_lock("spin_lock", "cs")
         \/ spin_lock("timer_create", "create_find")
         \/ spin_lock("timer_delete", "delete_clear")
  PROVE  KInv'
<1>1. InTask /\ regs.pc \in CsrCode /\ Raises = "none"
  BY DEF spin_lock, At, InTask, TaskLabels, CsrCode
<1>2. PICK l \in {"cs", "create_find", "delete_clear"} :
         Goto(l) /\ mie' = FALSE
         /\ UNCHANGED <<priv, mpie, mpp, trapCsr, pending, sched, timers>>
  BY DEF spin_lock
<1>3. l \in TaskLabels /\ l \in Labels /\ l \in Locked /\ l \notin NewCode \cup CsrCode /\ l # "ecall"
  BY DEF TaskLabels, Labels, Locked, NewCode, CsrCode
<1>4. TypeOK
  BY DEF KInv
<1>5. /\ regs' \in Context /\ regs'.pc = l /\ regs'.sp = regs.sp
  BY <1>2, <1>3, <1>4, GotoMoves
<1>6. TypeOK'
  BY <1>2, <1>4, <1>5 DEF TypeOK, trapCsr, pending, sched, timers
<1>7. ~ UserMode
  BY <1>1, CsrInMachineMode
<1>8. IsTask(regs, current)'
  BY <1>1, <1>2, <1>3, <1>5, <1>7, WhileInTask, PlainTask DEF sched
<1> QED
  BY <1>1, <1>2, <1>3, <1>5, <1>6, <1>8, WhileInTask, TaskKeeps
     DEF trapCsr, sched, InTask

LEMMA UnlockKeeps ==
  ASSUME KInv,
         spin_unlock("cs") \/ spin_unlock("create_unlock") \/ spin_unlock("delete_unlock")
  PROVE  KInv'
<1>1. InTask /\ regs.pc \in Locked
  BY DEF spin_unlock, At, InTask, TaskLabels, Locked
<1>2. /\ regs' = [regs EXCEPT !.pc = "user", !.i = 0] /\ mie' = TRUE
      /\ UNCHANGED <<priv, mpie, mpp, trapCsr, pending, sched, timers>>
  BY DEF spin_unlock
<1>3. /\ "user" \in TaskLabels /\ "user" \in Labels
      /\ "user" \notin Locked /\ "user" \notin NewCode \cup CsrCode
  BY DEF TaskLabels, Labels, Locked, NewCode, CsrCode
<1>4. TypeOK
  BY DEF KInv
<1>5. /\ regs' \in Context /\ regs'.pc = "user" /\ regs'.sp = regs.sp
  <2>1. 0 \in 0 .. (MaxTasks + MaxTimer)
    OBVIOUS
  <2>2. regs \in Context
    BY <1>1, WhileInTask
  <2> QED
    BY ONLY <1>2, <1>3, <2>1, <2>2 DEF Context
<1>6. TypeOK'
  BY <1>2, <1>4, <1>5 DEF TypeOK, trapCsr, pending, sched, timers
<1>7. ~ UserMode
  BY <1>1, WhileInTask, LabelSets DEF IsTask
<1>8. IsTask(regs, current)'
  BY <1>1, <1>2, <1>3, <1>5, <1>7, WhileInTask, PlainTask DEF sched
<1> QED
  BY <1>1, <1>2, <1>3, <1>5, <1>6, <1>8, WhileInTask, TaskKeeps
     DEF trapCsr, sched, InTask

LEMMA CreateTimerKeeps ==
  ASSUME KInv, create_find \/ create_func \/ create_tick \/ delete_clear
  PROVE  KInv'
<1>1. InTask /\ regs.pc \in Locked
  BY DEF create_find, create_func, create_tick, delete_clear, At, InTask,
         TaskLabels, Locked
<1>2. /\ regs'.pc \in {"create_func", "create_unlock", "create_tick", "delete_unlock"}
      /\ regs'.sp = regs.sp /\ regs' \in Context
  <2>1. regs \in Context
    BY <1>1, WhileInTask
  <2>2. CASE create_find
    <3>1. CASE Goto("create_unlock")
      <4>1. "create_unlock" \in Labels
        BY DEF Labels, TaskLabels, Locked
      <4> QED
        BY <2>1, <3>1, <4>1 DEF Context, Goto
    <3>2. ASSUME NEW s \in 0 .. MaxTimer,
                 regs' = [regs EXCEPT !.pc = "create_func", !.i = s]
          PROVE  /\ regs'.pc = "create_func"
                 /\ regs'.sp = regs.sp /\ regs' \in Context
      <4>1. "create_func" \in Labels /\ s \in 0 .. (MaxTasks + MaxTimer)
        BY DEF Labels, TaskLabels, Locked
      <4> QED
        BY ONLY <2>1, <3>2, <4>1 DEF Context
    <3>3. \/ Goto("create_unlock")
          \/ \E s \in 0 .. MaxTimer : regs' = [regs EXCEPT !.pc = "create_func", !.i = s]
      <4>1. Slots \subseteq 0 .. MaxTimer /\ MaxTimer \in 0 .. MaxTimer
        BY DEF Slots
      <4> QED
        BY <2>2, <4>1 DEF create_find
    <3> QED
      BY <3>1, <3>2, <3>3, GotoMoves, <2>1 DEF Goto
  <2>3. CASE create_func \/ create_tick \/ delete_clear
    <3>1. PICK l \in {"create_tick", "create_unlock", "delete_unlock"} : Goto(l)
      BY <2>3 DEF create_func, create_tick, delete_clear
    <3>2. l \in Labels
      BY DEF Labels, TaskLabels, Locked
    <3> QED
      BY <2>1, <3>1, <3>2 DEF Context, Goto
  <2> QED
    BY <2>2, <2>3
<1>3. /\ UNCHANGED <<mstatus, trapCsr, pending, sched, tick>>
  BY DEF create_find, create_func, create_tick, delete_clear, timers
<1>4. timer_list' \in [Slots -> [func : Tasks \cup {NULL}, timeout_tick : 0 .. TickMod - 1]]
  <2>1. regs.sp \in Tasks /\ tick \in 0 .. TickMod - 1
        /\ timer_list \in [Slots -> [func : Tasks \cup {NULL}, timeout_tick : 0 .. TickMod - 1]]
    BY <1>1, WhileInTask DEF KInv, TypeOK
  <2>2. CASE create_find
    BY <2>1, <2>2 DEF create_find, timers
  <2>3. CASE create_func
    BY <2>1, <2>3 DEF create_func
  <2>4. CASE create_tick
    <3>1. PICK timeout \in Timeouts :
            timer_list' = [timer_list EXCEPT
                             ![regs.i].timeout_tick = (tick + timeout) % TickMod]
      BY <2>4 DEF create_tick
    <3>2. (tick + timeout) % TickMod \in 0 .. TickMod - 1
      BY <2>1, ModRange
    <3> QED
      BY <2>1, <3>1, <3>2
  <2>5. CASE delete_clear
    BY <2>1, <2>5 DEF delete_clear, TM!Cleared
  <2> QED
    BY <2>2, <2>3, <2>4, <2>5
<1>5. TypeOK'
  BY <1>2, <1>3, <1>4 DEF KInv, TypeOK, mstatus, trapCsr, pending, sched
<1>6. ~ UserMode
  BY <1>1, WhileInTask, LabelSets DEF IsTask
<1>7. /\ regs'.pc \in TaskLabels /\ regs'.pc \notin NewCode \cup CsrCode
      /\ regs'.pc # "ecall" /\ regs'.pc \in Locked
  BY <1>2 DEF TaskLabels, Locked, NewCode, CsrCode
<1>8. IsTask(regs, current)'
  BY <1>1, <1>2, <1>3, <1>6, <1>7, WhileInTask, PlainTask DEF sched
<1> QED
  BY <1>1, <1>3, <1>5, <1>7, <1>8, WhileInTask, TaskKeeps
     DEF mstatus, trapCsr, sched, InTask
-----------------------------------------------------------------------------
(* With one creator, nobody else relies on _top or on the context there.   *)
LEMMA OthersDoNotCreate ==
  ASSUME KInv, RegularUse, InTask, regs.pc \in NewCode,
         NEW t \in Created, t # current
  PROVE  ctx[t].pc \notin NewCode
<1>1. current \in Creators
  BY WhileInTask DEF IsTask
<1>2. IsTask(ctx[t], t)
  BY DEF KInv, Saved
<1> QED
  BY <1>1, <1>2 DEF IsTask, RegularUse

(* A step of task_create keeps the invariant if it leaves the contexts of  *)
(* the existing tasks alone and adds only a finished task.                 *)
LEMMA CreatorKeeps ==
  ASSUME KInv, RegularUse, InTask, regs.pc \in NewCode,
         TypeOK', InTask', regs'.pc \notin Locked,
         UNCHANGED <<priv, mie, mscratch, current>>,
         \A t \in Created : ctx'[t] = ctx[t],
         IsTask(regs, current)',
         UnusedIsZero',
         \/ top' = top
         \/ top' = top + 1 /\ ctx'[top].sp = top /\ ctx'[top].pc = "user"
  PROVE  KInv'
<1>0. top \in Nat /\ Created = 0 .. top - 1 /\ Created' = 0 .. top' - 1
  BY DEF KInv, TypeOK, Created
<1>1. TaskOnHart'
  <2>1. regs.pc \notin Locked
    BY DEF NewCode, Locked
  <2>2. current \in Created'
    BY <1>0, WhileInTask
  <2> QED
    BY <2>1, <2>2, WhileInTask DEF TaskOnHart
<1>2. TrapOnHart' /\ Trapped'
  BY LabelSets DEF TrapOnHart, Trapped, InTask, KernelLabels, TaskLabels, CsrCode, Locked
<1>3. Saved'
  <2> SUFFICES ASSUME NEW t \in Created', t # current
               PROVE  IsTask(ctx[t], t)' /\ ctx'[t].pc \in Preemptible
    BY DEF Saved
  <2>1. CASE t \in Created
    <3>1. ctx[t].pc \notin NewCode
      BY <2>1, OthersDoNotCreate
    <3>2. IsTask(ctx[t], t) /\ ctx[t].pc \in Preemptible
      BY <2>1 DEF KInv, Saved
    <3>3. ctx'[t] = ctx[t]
      BY <2>1
    <3> QED
      BY <3>1, <3>2, <3>3 DEF IsTask, NewCode
  <2>2. CASE t \notin Created
    <3>1. ctx'[t].sp = t /\ ctx'[t].pc = "user"
      BY <1>0, <2>2
    <3> QED
      BY <3>1 DEF IsTask, Preemptible, UserLabels, CsrCode, NewCode, TaskLabels, Locked
  <2> QED
    BY <2>1, <2>2
<1> QED
  BY <1>1, <1>2, <1>3 DEF KInv

LEMMA CreateTaskKeeps ==
  ASSUME KInv, RegularUse,
         task_create \/ new_sp \/ new_pc \/ new_load \/ new_store
  PROVE  KInv'
<1>1. InTask /\ regs.pc \in NewCode
  BY DEF task_create, new_sp, new_pc, new_load, new_store, At, InTask,
         TaskLabels, NewCode
<1>2. /\ current \in Creators /\ current \in Tasks /\ regs.sp = current /\ regs \in Context
      /\ top \in 1 .. MaxTasks /\ ctx \in [Tasks -> Context] /\ IsTask(regs, current)
  BY <1>1, WhileInTask DEF KInv, TypeOK, IsTask
<1>3. /\ {"new_sp", "new_pc", "new_load", "new_store", "user"} \subseteq Labels
      /\ {"new_sp", "new_pc", "new_load", "new_store", "user"} \subseteq UserLabels
      /\ -1 \in A0 /\ 0 \in A0
      /\ top \in 0 .. (MaxTasks + MaxTimer) /\ 0 \in 0 .. (MaxTasks + MaxTimer)
  BY <1>2 DEF Labels, TaskLabels, UserLabels, NewCode, A0
<1>4. /\ regs'.sp = current
      /\ regs'.pc \in {"new_sp", "new_pc", "new_load", "new_store", "user"}
      /\ regs' \in Context
  BY <1>2, <1>3 DEF task_create, new_sp, new_pc, new_load, new_store, Goto, Context
<1>5. UNCHANGED <<mstatus, trapCsr, pending, current, timers>>
  BY DEF task_create, new_sp, new_pc, new_load, new_store, sched
<1>6. regs.pc # "task_create" => top < MaxTasks
  BY <1>1, <1>2 DEF IsTask
<1>7. /\ ctx' \in [Tasks -> Context]
      /\ \A t \in Created : ctx'[t] = ctx[t]
      /\ \A t \in Tasks : ctx'[t].a0 = ctx[t].a0 /\ ctx'[t].i = ctx[t].i
  <2>1. CASE task_create \/ new_load \/ new_store
    BY <1>2, <2>1 DEF task_create, new_load, new_store, sched
  <2>2. CASE new_sp
    <3>1. top \in Tasks /\ ctx' = [ctx EXCEPT ![top].sp = top]
      BY <1>2, <1>6, <2>2 DEF new_sp, At, Tasks
    <3>2. [ctx[top] EXCEPT !.sp = top] \in Context
      BY <1>2, <3>1 DEF Context
    <3> QED
      BY <1>2, <3>1, <3>2 DEF Created, Context
  <2>3. CASE new_pc
    <3>1. top \in Tasks /\ ctx' = [ctx EXCEPT ![top].pc = "user"]
      BY <1>2, <1>6, <2>3 DEF new_pc, At, Tasks
    <3>2. [ctx[top] EXCEPT !.pc = "user"] \in Context
      BY <1>2, <1>3, <3>1 DEF Context
    <3> QED
      BY <1>2, <3>1, <3>2 DEF Created, Context
  <2> QED
    BY <2>1, <2>2, <2>3
<1>8. \/ top' = top
      \/ top' = top + 1 /\ ctx'[top].sp = top /\ ctx'[top].pc = "user" /\ top < MaxTasks
  <2>1. CASE task_create \/ new_sp \/ new_pc \/ new_load
    BY <2>1 DEF task_create, new_sp, new_pc, new_load, sched
  <2>2. CASE new_store
    BY <1>2, <2>2 DEF new_store, At, IsTask, NewCode
  <2> QED
    BY <2>1, <2>2
<1>9. TypeOK'
  BY <1>2, <1>4, <1>5, <1>7, <1>8 DEF KInv, TypeOK, mstatus, trapCsr, pending, timers
<1>10. UnusedIsZero'
  BY <1>2, <1>7, <1>8 DEF KInv, UnusedIsZero, Tasks
<1>11. IsTask(regs, current)'
  <2>1. CASE task_create
    BY <1>2, <1>3, <1>4, <1>5, <2>1
       DEF task_create, IsTask, sched, UserLabels, NewCode, TaskLabels, CsrCode, Context
  <2>2. CASE new_sp
    <3>1. top \in Tasks /\ ctx' = [ctx EXCEPT ![top].sp = top] /\ top' = top
          /\ regs'.pc = "new_pc" /\ top < MaxTasks
      BY <1>2, <1>6, <2>2 DEF new_sp, At, Tasks, Goto, Context
    <3>2. ctx'[top].sp = top
      BY <1>2, <3>1 DEF Context
    <3> QED
      BY <1>2, <1>3, <1>4, <1>5, <3>1, <3>2 DEF IsTask, UserLabels, NewCode, TaskLabels,
           CsrCode
  <2>3. CASE new_pc
    <3>1. top \in Tasks /\ ctx' = [ctx EXCEPT ![top].pc = "user"] /\ top' = top
          /\ regs'.pc = "new_load" /\ top < MaxTasks /\ ctx[top].sp = top
      BY <1>2, <1>6, <2>3 DEF new_pc, At, Tasks, Goto, Context, IsTask
    <3>2. ctx'[top].sp = top /\ ctx'[top].pc = "user"
      BY <1>2, <3>1 DEF Context
    <3> QED
      BY <1>2, <1>3, <1>4, <1>5, <3>1, <3>2 DEF IsTask, UserLabels, NewCode, TaskLabels,
           CsrCode
  <2>4. CASE new_load
    <3>1. ctx' = ctx /\ top' = top /\ regs'.pc = "new_store" /\ regs'.i = top
          /\ top < MaxTasks /\ ctx[top].sp = top /\ ctx[top].pc = "user"
      BY <1>2, <1>6, <2>4 DEF new_load, At, sched, Context, IsTask
    <3> QED
      BY <1>2, <1>3, <1>4, <1>5, <3>1 DEF IsTask, UserLabels, NewCode, TaskLabels,
           CsrCode
  <2>5. CASE new_store
    <3>1. regs'.pc = "user"
      BY <1>2, <2>5 DEF new_store, Context
    <3> QED
      BY <1>2, <1>3, <1>4, <1>5, <3>1 DEF IsTask, UserLabels, NewCode, TaskLabels,
           CsrCode
  <2> QED
    BY <2>1, <2>2, <2>3, <2>4, <2>5
<1>12. InTask' /\ regs'.pc \notin Locked
  BY <1>4 DEF InTask, TaskLabels, Locked
<1> QED
  BY <1>1, <1>5, <1>7, <1>8, <1>9, <1>10, <1>11, <1>12, CreatorKeeps
     DEF mstatus, trapCsr
-----------------------------------------------------------------------------
(* What the invariant says while the kernel executes.                      *)
LEMMA WhileInTrap ==
  ASSUME KInv, ~ InTask
  PROVE  /\ priv = "M" /\ mie = FALSE /\ mpp = Level /\ (UserMode \/ mpie = TRUE)
         /\ regs.pc \in KernelLabels /\ ~ Unmasked
         /\ \A t \in Created : IsTask(ctx[t], t) /\ ctx[t].pc \in Preemptible
         /\ regs.pc \notin {"schedule", "switch_to"} =>
               current \in Created /\ mscratch = current
         /\ Created \subseteq Tasks
  BY DEF KInv, TypeOK, TrapOnHart, Saved, Unmasked, Created, Tasks

(* A trap comes only while a task executes outside of the locked sections, *)
(* and saves it.                                                           *)
LEMMA TrapVectorKeeps ==
  ASSUME KInv, NEW cause, trap_vector(cause),
         InTask, regs.pc \in Preemptible, UserMode \/ mie,
         cause \in Causes \cup {"ecall", "illegal"}, cause = "ecall" => regs.pc = "ecall",
         cause = "illegal" => UserMode /\ regs.pc \in CsrCode
  PROVE  KInv'
<1>1. /\ current \in Created /\ current \in Tasks /\ mscratch = current
      /\ IsTask(regs, current) /\ priv = Level /\ regs \in Context
  BY WhileInTask
<1>2. /\ ctx \in [Tasks -> Context] /\ top \in 1 .. MaxTasks /\ mie \in BOOLEAN
      /\ current # top
  BY <1>1 DEF KInv, TypeOK, Created
<1>3. /\ ctx' = [ctx EXCEPT ![current] = regs]
      /\ mepc' = regs.pc /\ mcause' = cause
      /\ mpie' = mie /\ mie' = FALSE /\ mpp' = priv /\ priv' = "M"
      /\ regs' = [regs EXCEPT !.pc = "trap_handler", !.a0 = Junk, !.i = 0]
      /\ UNCHANGED <<mscratch, pending, top, current, timers>>
  BY <1>1 DEF trap_vector, reg_save
<1>4. regs' \in Context /\ regs'.pc = "trap_handler"
  <2>1. "trap_handler" \in Labels /\ Junk \in A0 /\ 0 \in 0 .. (MaxTasks + MaxTimer)
    BY DEF Labels, KernelLabels, A0
  <2> QED
    BY ONLY <1>1, <1>3, <2>1 DEF Context
<1>5. TypeOK'
  <2>1. mepc' \in Labels /\ priv' \in {"M", "U"} /\ mpp' \in {"M", "U"}
        /\ ctx' \in [Tasks -> Context]
    BY <1>1, <1>2, <1>3 DEF Context, Level
  <2> QED
    BY <1>2, <1>3, <1>4, <2>1 DEF KInv, TypeOK, pending, timers
<1>6. ~ InTask' /\ "trap_handler" \in KernelLabels \ {"schedule", "switch_to"}
  BY <1>4, LabelSets DEF InTask, KernelLabels
<1>7. TaskOnHart' /\ TrapOnHart'
  BY <1>1, <1>2, <1>3, <1>4, <1>6 DEF TaskOnHart, TrapOnHart, Created, KernelLabels
<1>8. \A t \in Tasks : ctx'[t] = IF t = current THEN regs ELSE ctx[t]
  BY <1>1, <1>2, <1>3
<1>9. ASSUME NEW r, NEW t, IsTask(r, t)
      PROVE  /\ r.sp = t
             /\ r.pc \in (IF UserMode THEN UserLabels ELSE TaskLabels \ {"ecall"})
             /\ r.pc \in CsrCode => r.pc \in Calls
             /\ r.pc \in NewCode => t \in Creators
             /\ r.pc \in NewCode \ {"task_create"} => top' < MaxTasks
             /\ r.pc \in {"new_pc", "new_load", "new_store"} => ctx'[top'].sp = top'
             /\ r.pc \in {"new_load", "new_store"} => ctx'[top'].pc = "user"
             /\ r.pc = "new_store" => r.i = top'
  <2>1. top < MaxTasks => ctx'[top] = ctx[top]
    BY <1>2, <1>8 DEF Tasks
  <2> QED
    BY <1>3, <1>9, <2>1 DEF IsTask, NewCode
<1>10. Saved'
  <2> SUFFICES ASSUME NEW t \in Created
               PROVE  IsTask(ctx[t], t)' /\ ctx'[t].pc \in Preemptible
    BY <1>3, <1>6 DEF Saved, Created
  <2>1. t \in Tasks
    BY <1>2 DEF Created, Tasks
  <2>2. CASE t = current
    BY <1>1, <1>8, <1>9, <2>1, <2>2 DEF IsTask
  <2>3. CASE t # current
    <3>1. IsTask(ctx[t], t) /\ ctx[t].pc \in Preemptible
      BY <2>3 DEF KInv, Saved
    <3> QED
      BY <1>8, <1>9, <2>1, <2>3, <3>1 DEF IsTask
  <2> QED
    BY <2>2, <2>3
<1>11. Trapped'
  BY <1>1, <1>3, <1>4, <1>8 DEF Trapped, IllegalCsr
<1>12. UnusedIsZero'
  BY <1>1, <1>2, <1>3, <1>8 DEF KInv, UnusedIsZero, Created
<1> QED
  BY <1>5, <1>7, <1>10, <1>11, <1>12 DEF KInv

LEMMA InterruptKeeps ==
  ASSUME KInv, NEW cause \in Causes, Interrupt(cause) PROVE KInv'
<1>1. InTask
  BY WhileInTrap DEF Interrupt
<1>2. regs.pc \in Preemptible /\ (UserMode \/ mie)
  BY <1>1, WhileInTask, LabelSets DEF Interrupt, Unmasked, Level, IsTask, Preemptible
<1> QED
  BY <1>1, <1>2, TrapVectorKeeps DEF Interrupt, Causes

(* The only exceptions are system calls and, in U-mode, accesses to CSRs.  *)
LEMMA OnlySystemCalls ==
  ASSUME KInv, Raises # "none"
  PROVE  /\ InTask /\ UserMode
         /\ \/ Raises = "ecall" /\ regs.pc = "ecall"
            \/ Raises = "illegal" /\ regs.pc \in CsrCode
<1>1. CASE InTask
  <2>1. regs.pc # "null" /\ priv = Level /\ IsTask(regs, current)
    BY <1>1, WhileInTask, LabelSets DEF InTask
  <2>2. CASE regs.pc = "ecall"
    BY <1>1, <2>1, <2>2 DEF Raises, IsTask
  <2>3. CASE regs.pc # "ecall"
    BY <1>1, <2>1, <2>3 DEF Raises, Level
  <2> QED
    BY <2>2, <2>3
<1>2. CASE ~ InTask
  BY <1>2, WhileInTrap, LabelSets DEF Raises, KernelLabels
<1> QED
  BY <1>1, <1>2

LEMMA ExceptionKeeps ==
  ASSUME KInv, Exception PROVE KInv'
<1>1. /\ InTask /\ UserMode /\ trap_vector(Raises)
      /\ \/ Raises = "ecall" /\ regs.pc = "ecall"
         \/ Raises = "illegal" /\ regs.pc \in CsrCode
  BY OnlySystemCalls DEF Exception
<1>2. regs.pc \in Preemptible
  BY <1>1 DEF Preemptible, UserLabels, Locked, CsrCode
<1>3. /\ Raises \in Causes \cup {"ecall", "illegal"}
      /\ Raises = "ecall" => regs.pc = "ecall"
      /\ Raises = "illegal" => regs.pc \in CsrCode
  BY <1>1
<1> QED
  BY <1>1, <1>2, <1>3, TrapVectorKeeps
-----------------------------------------------------------------------------
(* A step of the trap handler that stays in the kernel and leaves contexts *)
(* and the trap CSRs alone.                                                *)
LEMMA HandlerKeeps ==
  ASSUME KInv, ~ InTask, TypeOK',
         UNCHANGED <<mstatus, trapCsr, ctx, top>>,
         regs'.pc \in {"timer_handler", "timer_check", "timer_clear", "timer_load",
                       "schedule", "switch_to"}
           \/ (regs'.pc = "trap_ret" /\ regs.pc = "trap_handler" /\ mcause # "ecall")
           \/ (regs'.pc = "panic" /\ regs.pc = "trap_handler" /\ mcause = "illegal"),
         \/ (UNCHANGED current /\ regs.pc \notin {"schedule", "switch_to"})
         \/ (current' \in Created /\ regs'.pc = "switch_to")
  PROVE  KInv'
<1>1. ~ InTask' /\ regs'.pc \in KernelLabels
  BY DEF InTask, TaskLabels, CsrCode, Locked, KernelLabels
<1>2. TaskOnHart' /\ TrapOnHart'
  BY <1>1, WhileInTrap DEF TaskOnHart, TrapOnHart, Created, mstatus, trapCsr
<1>3. Saved' /\ UnusedIsZero'
  BY <1>1, WhileInTrap DEF Saved, IsTask, Created, KInv, UnusedIsZero
<1>4. Trapped'
  BY DEF KInv, Trapped, IllegalCsr, trapCsr
<1> QED
  BY <1>2, <1>3, <1>4 DEF KInv

LEMMA DispatchKeeps ==
  ASSUME KInv, SoftwareTrap \/ TimerTrap \/ ExternalTrap PROVE KInv'
<1>1. ~ InTask /\ regs.pc = "trap_handler" /\ mcause # "ecall"
  BY DEF SoftwareTrap, TimerTrap, ExternalTrap, At, InTask, TaskLabels, CsrCode, Locked
<1>2. PICK l \in {"schedule", "timer_handler", "trap_ret"} : Goto(l)
  BY DEF SoftwareTrap, TimerTrap, ExternalTrap
<1>3. regs' \in Context /\ regs'.pc = l
  <2>1. l \in Labels
    BY DEF Labels, KernelLabels
  <2> QED
    BY <1>2, <2>1, GotoMoves DEF KInv
<1>4. TypeOK'
  BY <1>3 DEF KInv, TypeOK, SoftwareTrap, TimerTrap, ExternalTrap, mstatus, trapCsr,
     pending, sched, timers
<1> QED
  BY <1>1, <1>3, <1>4, HandlerKeeps DEF SoftwareTrap, TimerTrap, ExternalTrap, sched

LEMMA SyscallKeeps ==
  ASSUME KInv, do_syscall PROVE KInv'
<1>1. /\ ~ InTask /\ regs.pc = "trap_handler" /\ mcause = "ecall"
  BY DEF do_syscall, At, InTask, TaskLabels, CsrCode, Locked
<1>2. /\ current \in Created /\ current \in Tasks /\ mscratch = current
      /\ ctx[current].pc = "ecall" /\ IsTask(ctx[current], current)
      /\ ctx \in [Tasks -> Context] /\ top \in 1 .. MaxTasks /\ current # top
  <2>1. current \in Created /\ current \in Tasks /\ mscratch = current
    BY <1>1, WhileInTrap
  <2>2. ctx \in [Tasks -> Context] /\ top \in 1 .. MaxTasks
    BY DEF KInv, TypeOK
  <2>3. current # top
    BY <2>1, <2>2 DEF Created
  <2>4. IsTask(ctx[current], current)
    BY <1>1, <2>1, WhileInTrap
  <2>5. ctx[current].pc = "ecall"
    BY <1>1, <2>1 DEF KInv, Trapped
  <2> QED
    BY <2>1, <2>2, <2>3, <2>4, <2>5
<1>3. /\ ctx' = [ctx EXCEPT ![current].a0 = SyscallResult(ctx[current])]
      /\ mepc' = "user" /\ Goto("trap_ret")
      /\ UNCHANGED <<mstatus, mcause, mscratch, pending, top, current, timers>>
  BY <1>2 DEF do_syscall
<1>4. SyscallResult(ctx[current]) \in A0
  BY DEF SyscallResult, A0
<1>5. [ctx[current] EXCEPT !.a0 = SyscallResult(ctx[current])] \in Context
  BY <1>2, <1>4 DEF Context
<1>6. /\ ctx' \in [Tasks -> Context]
      /\ \A t \in Tasks :
            /\ ctx'[t].sp = ctx[t].sp /\ ctx'[t].pc = ctx[t].pc
            /\ ctx'[t].i = ctx[t].i
            /\ t # current => ctx'[t] = ctx[t]
  BY <1>2, <1>3, <1>5 DEF Context
<1>7. regs' \in Context /\ regs'.pc = "trap_ret"
  <2>1. "trap_ret" \in Labels
    BY DEF Labels, KernelLabels
  <2> QED
    BY <1>3, <2>1, GotoMoves DEF KInv
<1>8. TypeOK'
  <2>1. mepc' \in Labels
    BY <1>3 DEF Labels, TaskLabels
  <2> QED
    BY <1>3, <1>6, <1>7, <2>1 DEF KInv, TypeOK, mstatus, pending, timers
<1>9. ~ InTask' /\ regs'.pc \in KernelLabels
  BY <1>7 DEF InTask, TaskLabels, CsrCode, Locked, KernelLabels
<1>10. TaskOnHart' /\ TrapOnHart'
  BY <1>1, <1>2, <1>3, <1>9, WhileInTrap DEF TaskOnHart, TrapOnHart, Created, mstatus
<1>11. Saved'
  <2> SUFFICES ASSUME NEW t \in Created
               PROVE  IsTask(ctx[t], t)' /\ ctx'[t].pc \in Preemptible
    BY <1>3, <1>9 DEF Saved, Created
  <2>1. t \in Tasks /\ IsTask(ctx[t], t) /\ ctx[t].pc \in Preemptible
    BY <1>1, WhileInTrap
  <2>2. top < MaxTasks => ctx'[top] = ctx[top]
    BY <1>2, <1>6 DEF Tasks
  <2> QED
    BY <1>3, <1>6, <2>1, <2>2 DEF IsTask, NewCode
<1>12. Trapped'
  BY <1>2, <1>3, <1>6, <1>7 DEF Trapped
<1>13. UnusedIsZero'
  BY <1>2, <1>3, <1>6 DEF KInv, UnusedIsZero, Created
<1> QED
  BY <1>8, <1>10, <1>11, <1>12, <1>13 DEF KInv

(* Of the other exceptions a trap handler sees only CSR accesses.          *)
LEMMA PanicKeeps ==
  ASSUME KInv, OtherTrap PROVE KInv'
<1>1. /\ ~ InTask /\ regs.pc = "trap_handler" /\ mcause \in {"illegal", "fault"}
      /\ Goto("panic") /\ UNCHANGED <<mstatus, trapCsr, pending, sched, timers>>
  BY DEF OtherTrap, At, InTask, TaskLabels, CsrCode, Locked
<1>2. mcause = "illegal"
  BY <1>1 DEF KInv, Trapped, Causes
<1>3. regs' \in Context /\ regs'.pc = "panic"
  <2>1. "panic" \in Labels
    BY DEF Labels, KernelLabels
  <2> QED
    BY <1>1, <2>1, GotoMoves DEF KInv
<1>4. TypeOK'
  BY <1>1, <1>3 DEF KInv, TypeOK, mstatus, trapCsr, pending, sched, timers
<1> QED
  BY <1>1, <1>2, <1>3, <1>4, HandlerKeeps DEF sched

(* timer_check having found slot s expired.                                *)
CheckRuns(s) ==
  /\ TM!IsFirstExpired(timer_list, s, tick)
  /\ regs' = [regs EXCEPT !.pc = "timer_clear", !.i = s]
  /\ <<timer_list', mie'>> \in {<<timer_list, mie>>} \cup (HandlerLists \X {TRUE})

LEMMA CheckCases ==
  ASSUME timer_check
  PROVE  \/ /\ \A s \in Slots : ~ TM!Expired(timer_list, s, tick)
            /\ Goto("timer_load")
            /\ UNCHANGED <<mie, timer_list>>
         \/ \E s \in Slots : CheckRuns(s)
<1> DEFINE Runs == {<<timer_list, mie>>} \cup (HandlerLists \X {TRUE})
<1>1. CASE /\ \A s \in Slots : ~ TM!Expired(timer_list, s, tick)
           /\ Goto("timer_load")
           /\ UNCHANGED <<mie, timer_list>>
  BY <1>1
<1>2. ASSUME NEW s \in Slots, NEW run \in Runs, TM!IsFirstExpired(timer_list, s, tick),
             regs' = [regs EXCEPT !.pc = "timer_clear", !.i = s],
             timer_list' = run[1], mie' = run[2]
      PROVE  CheckRuns(s)
  <2>1. run = <<run[1], run[2]>>
    <3>1. CASE run = <<timer_list, mie>>
      BY ONLY <3>1
    <3>2. CASE run \in HandlerLists \X {TRUE}
      BY ONLY <3>2
    <3> QED
      BY <3>1, <3>2
  <2>2. <<timer_list', mie'>> = run
    BY ONLY <1>2, <2>1
  <2>3. <<timer_list', mie'>> \in Runs
    BY ONLY <2>2, run \in Runs
  <2> QED
    BY <1>2, <2>3 DEF CheckRuns
<1> QED
  BY <1>1, <1>2, Zenon DEF timer_check

(* A handler that makes no call leaves the list and MIE as they are.       *)
LEMMA HandlersOnlyRun ==
  ASSUME RegularUse, NEW s \in Slots, CheckRuns(s)
  PROVE  timer_list' = timer_list /\ mie' = mie
<1>1. HandlerLists = {}
  BY DEF RegularUse, HandlerLists
<1> QED
  BY <1>1 DEF CheckRuns

LEMMA TimerHandlerKeeps ==
  ASSUME KInv, RegularUse,
         timer_handler \/ timer_check \/ timer_clear \/ timer_load
  PROVE  KInv'
<1>1. /\ ~ InTask /\ regs.pc \notin {"schedule", "switch_to"}
  BY DEF timer_handler, timer_check, timer_clear, timer_load, At, InTask,
         TaskLabels, CsrCode, Locked
<1>2. /\ regs \in Context /\ tick \in 0 .. TickMod - 1
      /\ timer_list \in [Slots -> [func : Tasks \cup {NULL}, timeout_tick : 0 .. TickMod - 1]]
      /\ mie \in BOOLEAN
  BY DEF KInv, TypeOK
<1>3. /\ regs' \in Context
      /\ regs'.pc \in {"timer_check", "timer_clear", "timer_load", "schedule"}
      /\ timer_list' \in [Slots -> [func : Tasks \cup {NULL}, timeout_tick : 0 .. TickMod - 1]]
      /\ UNCHANGED mie
  <2>1. {"timer_check", "timer_clear", "timer_load", "schedule"} \subseteq Labels
    BY DEF Labels, KernelLabels
  <2>2. CASE timer_handler \/ timer_load
    BY <1>2, <2>1, <2>2 DEF timer_handler, timer_load, Goto, Context, mstatus, timers
  <2>3. CASE timer_clear
    BY <1>2, <2>1, <2>3 DEF timer_clear, Goto, Context, mstatus, TM!Cleared
  <2>4. CASE timer_check
    <3>1. CASE Goto("timer_load") /\ UNCHANGED <<mie, timer_list>>
      BY <1>2, <2>1, <3>1 DEF Goto, Context
    <3>2. ASSUME NEW s \in Slots, CheckRuns(s)
          PROVE  /\ regs' \in Context /\ regs'.pc = "timer_clear"
                 /\ timer_list' = timer_list /\ UNCHANGED mie
      <4>1. timer_list' = timer_list /\ mie' = mie
        BY <3>2, HandlersOnlyRun
      <4>2. s \in 0 .. (MaxTasks + MaxTimer)
        BY DEF Slots
      <4>3. regs' \in Context /\ regs'.pc = "timer_clear"
        BY ONLY <1>2, <2>1, <3>2, <4>2 DEF Context, CheckRuns
      <4> QED
        BY <4>1, <4>3
    <3> QED
      BY <1>2, <2>4, <3>1, <3>2, CheckCases
  <2> QED
    BY <2>2, <2>3, <2>4
<1>4. tick' \in 0 .. TickMod - 1
  <2>1. (tick + 1) % TickMod \in 0 .. TickMod - 1
    BY <1>2, ModRange
  <2> QED
    BY <1>2, <2>1 DEF timer_handler, timer_check, timer_clear, timer_load, timers
<1>5. UNCHANGED <<mstatus, trapCsr, sched, msip, meip>> /\ mtip' \in {mtip, FALSE}
  BY <1>3 DEF timer_handler, timer_check, timer_clear, timer_load, mstatus, pending
<1>6. TypeOK'
  BY <1>3, <1>4, <1>5 DEF KInv, TypeOK, mstatus, trapCsr, sched
<1>7. UNCHANGED <<mstatus, trapCsr, ctx, top>>
  BY <1>5 DEF sched
<1>8. UNCHANGED current /\ regs.pc \notin {"schedule", "switch_to"}
  BY <1>1, <1>5 DEF sched
<1> QED
  BY <1>1, <1>3, <1>6, <1>7, <1>8, HandlerKeeps

LEMMA ScheduleKeeps ==
  ASSUME KInv, schedule PROVE KInv'
<1>1. ~ InTask /\ regs.pc = "schedule"
  BY DEF schedule, At, InTask, TaskLabels, CsrCode, Locked
<1>2. top \in 1 .. MaxTasks /\ (current = -1 \/ current \in 0 .. top - 1)
  BY <1>1 DEF KInv, TypeOK, TrapOnHart, Created
<1>3. /\ Goto("switch_to") /\ current' = NextTask
      /\ UNCHANGED <<mstatus, trapCsr, pending, ctx, top, timers>>
  BY <1>2 DEF schedule
<1>4. current' \in 0 .. top - 1
  <2>1. current + 1 \in Nat /\ top \in Nat \ {0}
    BY <1>2
  <2> QED
    BY <1>3, <2>1, ModRange DEF NextTask
<1>5. regs' \in Context /\ regs'.pc = "switch_to"
  <2>1. "switch_to" \in Labels
    BY DEF Labels, KernelLabels
  <2> QED
    BY <1>3, <2>1, GotoMoves DEF KInv
<1>6. TypeOK'
  BY <1>2, <1>3, <1>4, <1>5 DEF KInv, TypeOK, mstatus, trapCsr, pending, timers
<1>7. UNCHANGED <<mstatus, trapCsr, ctx, top>>
  BY <1>3
<1>8. current' \in Created /\ regs'.pc = "switch_to"
  BY <1>4, <1>5 DEF Created
<1> QED
  BY <1>1, <1>6, <1>7, <1>8, HandlerKeeps

(* Where a trap ends, a task goes on from its context.                     *)
LEMMA ReturnKeeps ==
  ASSUME KInv, ~ InTask, TypeOK', Mret, current \in Created,
         UNCHANGED <<ctx, top, current>>, mscratch' = current,
         regs'.pc \in Preemptible, IsTask(regs, current)'
  PROVE  KInv'
<1>1. InTask' /\ regs'.pc \notin Locked
  BY LabelSets DEF InTask, Preemptible
<1>2. TaskOnHart' /\ TrapOnHart'
  BY <1>1, WhileInTrap DEF TaskOnHart, TrapOnHart, Mret, Created
<1>3. Saved' /\ UnusedIsZero'
  BY <1>1, WhileInTrap DEF Saved, IsTask, Created, KInv, UnusedIsZero
<1>4. Trapped'
  BY <1>1, LabelSets DEF Trapped, InTask, TaskLabels, CsrCode, Locked
<1> QED
  BY <1>2, <1>3, <1>4 DEF KInv

LEMMA SwitchKeeps ==
  ASSUME KInv, switch_to PROVE KInv'
<1>1. ~ InTask /\ regs.pc = "switch_to"
  BY DEF switch_to, At, InTask, TaskLabels, CsrCode, Locked
<1>2. current \in Created /\ current \in Tasks
  BY <1>1, WhileInTrap DEF KInv, TrapOnHart
<1>3. /\ mscratch' = current /\ mepc' = ctx[current].pc /\ regs' = ctx[current]
      /\ Mret /\ UNCHANGED <<mcause, pending, sched, timers>>
  BY DEF switch_to, reg_restore
<1>4. IsTask(ctx[current], current) /\ ctx[current].pc \in Preemptible
      /\ ctx[current] \in Context
  BY <1>1, <1>2, WhileInTrap DEF KInv, TypeOK
<1>5. TypeOK'
  <2>1. mepc' \in Labels
    BY <1>3, <1>4 DEF Context
  <2> QED
    BY <1>2, <1>3, <1>4, <2>1 DEF KInv, TypeOK, Mret, pending, sched, timers
<1>6. IsTask(regs, current)'
  BY <1>3, <1>4 DEF IsTask, sched
<1> QED
  BY <1>1, <1>2, <1>3, <1>4, <1>5, <1>6, ReturnKeeps DEF sched

LEMMA TrapReturnKeeps ==
  ASSUME KInv, trap_ret PROVE KInv'
<1>1. ~ InTask /\ regs.pc = "trap_ret"
  BY DEF trap_ret, At, InTask, TaskLabels, CsrCode, Locked
<1>2. current \in Created /\ current \in Tasks /\ mscratch = current
  BY <1>1, WhileInTrap
<1>3. /\ regs' = [ctx[current] EXCEPT !.pc = mepc]
      /\ Mret /\ UNCHANGED <<trapCsr, pending, sched, timers>>
  BY <1>2 DEF trap_ret, reg_restore
<1>4. IsTask(ctx[current], current) /\ ctx[current].pc \in Preemptible
      /\ ctx[current] \in Context /\ mepc \in Labels
  BY <1>1, <1>2, WhileInTrap DEF KInv, TypeOK
<1>5. mepc = ctx[current].pc \/ (mepc = "user" /\ ctx[current].pc = "ecall")
  BY <1>1, <1>2 DEF KInv, Trapped
<1>6. regs' \in Context /\ regs'.sp = ctx[current].sp /\ regs'.pc = mepc
      /\ regs'.i = ctx[current].i
  BY <1>3, <1>4 DEF Context
<1>7. TypeOK'
  BY <1>2, <1>3, <1>6 DEF KInv, TypeOK, Mret, trapCsr, pending, sched, timers
<1>8. mepc \in Preemptible
  BY <1>4, <1>5 DEF Preemptible, UserLabels, TaskLabels, Locked
<1>9. IsTask(regs, current)'
  BY <1>3, <1>4, <1>5, <1>6, <1>8 DEF IsTask, sched, Preemptible, NewCode, CsrCode
<1> QED
  BY <1>1, <1>2, <1>3, <1>6, <1>7, <1>8, <1>9, ReturnKeeps DEF sched, trapCsr

LEMMA DeviceKeeps ==
  ASSUME KInv, TimerExpires \/ CharArrives \/ UNCHANGED vars PROVE KInv'
<1>1. /\ UNCHANGED <<mstatus, trapCsr, regs, sched, timers>>
      /\ msip' = msip /\ mtip' \in {mtip, TRUE} /\ meip' \in {meip, TRUE}
  BY DEF TimerExpires, CharArrives, vars, pending
<1>2. TypeOK'
  BY <1>1, ZenonT(60) DEF KInv, TypeOK, mstatus, trapCsr, sched, timers
<1>3. TaskOnHart' /\ TrapOnHart' /\ Saved' /\ Trapped' /\ UnusedIsZero'
  BY <1>1 DEF KInv, TaskOnHart, TrapOnHart, Saved, Trapped, IllegalCsr, UnusedIsZero, IsTask,
     InTask, Created, mstatus, trapCsr, sched
<1> QED
  BY <1>2, <1>3 DEF KInv
-----------------------------------------------------------------------------
(* The inductive invariant holds in every state of a regular system.       *)
THEOREM KernelInvariant ==
  ASSUME RegularUse PROVE Spec => []KInv
<1>1. ASSUME KInv, [Next]_vars PROVE KInv'
  <2>1. CASE TaskStep
    BY <1>1, <2>1, ComputeKeeps, CallKeeps, YieldKeeps, LockKeeps, UnlockKeeps,
       CreateTimerKeeps, CreateTaskKeeps DEF TaskStep
  <2>2. CASE TrapStep
    BY <1>1, <2>2, DispatchKeeps, SyscallKeeps, PanicKeeps, TimerHandlerKeeps,
       ScheduleKeeps, SwitchKeeps, TrapReturnKeeps, DeviceKeeps DEF TrapStep, Panicked
  <2>3. CASE Exception
    BY <1>1, <2>3, ExceptionKeeps
  <2>4. ASSUME NEW cause \in Causes, Interrupt(cause) PROVE KInv'
    BY <1>1, <2>4, InterruptKeeps
  <2>5. CASE TimerExpires \/ CharArrives \/ UNCHANGED vars
    BY <1>1, <2>5, DeviceKeeps
  <2> QED
    BY <1>1, <2>1, <2>2, <2>3, <2>4, <2>5 DEF Next, HartStep
<1> QED
  BY <1>1, InitEstablishes, PTL DEF Spec

(* Where the registers of a created task are, and that they are its own.   *)
LEMMA RegistersOfTask ==
  ASSUME KInv, NEW t \in Created
  PROVE  /\ Registers(t).sp = t /\ Registers(t).pc \in TaskLabels
         /\ Registers(t).pc \in Locked => regs.sp = t
<1>1. top \in 1 .. MaxTasks /\ t \in 0 .. top - 1 /\ t \in Tasks /\ ctx \in [Tasks -> Context]
  BY DEF KInv, TypeOK, Created, Tasks
<1>2. Preemptible \subseteq TaskLabels \ Locked
  BY DEF Preemptible, UserLabels, NewCode, TaskLabels, Locked, CsrCode
<1>3. CASE regs.sp = t /\ InTask
  <2>1. Registers(t) = regs
    BY <1>1, <1>3 DEF Registers, InTask
  <2> QED
    BY <1>3, <2>1 DEF InTask
<1>4. CASE ~ (regs.sp = t /\ InTask)
  <2>1. ~ (InTask /\ current = t)
    BY <1>4, WhileInTask DEF IsTask
  <2>2. ctx[t].sp = t /\ ctx[t].pc \in TaskLabels \ Locked /\ ctx[t] \in Context
    BY <1>1, <1>2, <2>1 DEF KInv, Saved, IsTask
  <2>3. CASE regs.pc = "trap_ret" /\ mscratch = t
    <3>1. mepc \in TaskLabels \ Locked
      BY <2>2, <2>3 DEF KInv, Trapped, TaskLabels, Locked
    <3>2. Registers(t) = [ctx[t] EXCEPT !.pc = mepc]
      BY <1>1, <1>4, <2>3 DEF Registers, InTask
    <3>3. Registers(t).sp = t /\ Registers(t).pc = mepc
      BY <2>2, <3>2 DEF Context
    <3> QED
      BY <3>1, <3>3
  <2>4. CASE ~ (regs.pc = "trap_ret" /\ mscratch = t)
    <3>1. Registers(t) = ctx[t]
      BY <1>1, <1>4, <2>4 DEF Registers, InTask
    <3> QED
      BY <2>2, <3>1
  <2> QED
    BY <2>3, <2>4
<1> QED
  BY <1>3, <1>4

(* A trap always saves into the context of the task it interrupts.         *)
THEOREM TrapsSaveTheirTask ==
  ASSUME RegularUse PROVE Spec => []ScratchIsCurrent
<1>1. KInv => ScratchIsCurrent
  BY DEF KInv, TaskOnHart, TrapOnHart, ScratchIsCurrent, Unmasked, InTask, IsTask
<1> QED
  BY <1>1, KernelInvariant, PTL

(* The interrupt lock excludes, preempted tasks included.                  *)
THEOREM MutualExclusion ==
  ASSUME RegularUse PROVE Spec => []LockExcludes
<1>1. KInv => LockExcludes
  BY RegistersOfTask DEF LockExcludes
<1> QED
  BY <1>1, KernelInvariant, PTL

(* No task below _top is half set up.                                      *)
THEOREM TasksAreSetUp ==
  ASSUME RegularUse PROVE Spec => []CreatedTasksAreSetUp
<1>1. KInv => CreatedTasksAreSetUp
  BY RegistersOfTask DEF CreatedTasksAreSetUp
<1> QED
  BY <1>1, KernelInvariant, PTL

(* What brings the system down is a task of the CONFIG_SYSCALL build that  *)
(* calls an API function which accesses a machine-mode CSR.                *)
THEOREM OnlyCsrAccessPanics ==
  ASSUME RegularUse PROVE Spec => []PanicOnlyFromCsr
<1>1. KInv => PanicOnlyFromCsr
  <2> SUFFICES ASSUME KInv, regs.pc = "panic" PROVE PanicOnlyFromCsr
    BY DEF PanicOnlyFromCsr
  <2>1. ~ InTask
    BY DEF InTask, TaskLabels, CsrCode, Locked
  <2>2. mscratch = current
    BY <2>1, WhileInTrap
  <2> QED
    BY <2>2 DEF KInv, Trapped, IllegalCsr, PanicOnlyFromCsr
<1> QED
  BY <1>1, KernelInvariant, PTL

(* The kernel does not panic if no task does that.                         *)
THEOREM NeverPanics ==
  ASSUME RegularUse, NoCsrCalls PROVE Spec => []NoPanic
<1>1. KInv => NoPanic
  <2> SUFFICES ASSUME KInv, regs.pc = "panic" PROVE FALSE
    BY DEF NoPanic
  <2>1. ~ InTask
    BY DEF InTask, TaskLabels, CsrCode, Locked
  <2>2. mscratch = current /\ current \in Created /\ IsTask(ctx[current], current)
    BY <2>1, WhileInTrap
  <2>3. UserMode /\ ctx[current].pc \in CsrCode
    BY <2>2 DEF KInv, Trapped, IllegalCsr
  <2> QED
    BY <2>2, <2>3 DEF IsTask, NoCsrCalls
<1> QED
  BY <1>1, KernelInvariant, PTL

(* The type invariant.                                                     *)
THEOREM TypeCorrect ==
  ASSUME RegularUse PROVE Spec => []TypeOK
  BY KernelInvariant, PTL DEF KInv
-----------------------------------------------------------------------------
(* Bounded waiting.                                                        *)

(* The next task of the ring is no farther in turn than any other.         *)
LEMMA NextInTurnIsNearest ==
  ASSUME NEW c \in Int, NEW n \in 1 .. MaxTasks, NEW t \in 0 .. n - 1, -1 <= c, c < n
  PROVE  (c + 1) % n = t \/ Distance((c + 1) % n, t) < Distance(c, t)
<1>1. CASE c + 1 = n
  <2>1. (c + 1) % n = 0
    BY <1>1
  <2> QED
    BY <1>1, <2>1 DEF Distance
<1>2. CASE c + 1 < n
  <2>1. (c + 1) % n = c + 1
    BY <1>2
  <2> QED
    BY <1>2, <2>1 DEF Distance
<1> QED
  BY <1>1, <1>2

(* Nothing but schedule changes whose turn it is.                          *)
LEMMA OnlyScheduleTurns ==
  ASSUME [Next]_vars, ~ schedule PROVE UNCHANGED current
<1>1. CASE TaskStep
  <2>1. CASE Compute \/ Call
    BY <2>1 DEF Compute, Call, sched
  <2>2. CASE task_yield \/ yield_msip
    BY <2>2 DEF task_yield, yield_msip, sched
  <2>3. ASSUME NEW from, NEW to, spin_lock(from, to) PROVE UNCHANGED current
    BY <2>3 DEF spin_lock, sched
  <2>4. ASSUME NEW from, spin_unlock(from) PROVE UNCHANGED current
    BY <2>4 DEF spin_unlock, sched
  <2>5. CASE create_find
    <3>1. UNCHANGED sched
      BY ONLY <2>5, Zenon DEF create_find
    <3> QED
      BY <3>1 DEF sched
  <2>6. CASE create_func \/ create_tick \/ delete_clear
    BY ONLY <2>6 DEF create_func, create_tick, delete_clear, sched
  <2>7. CASE task_create \/ new_sp \/ new_pc \/ new_load \/ new_store
    BY <2>7 DEF task_create, new_sp, new_pc, new_load, new_store, sched
  <2> QED
    BY <1>1, <2>1, <2>2, <2>3, <2>4, <2>5, <2>6, <2>7 DEF TaskStep
<1>2. CASE TrapStep
  <2>1. CASE SoftwareTrap \/ TimerTrap \/ ExternalTrap \/ do_syscall \/ OtherTrap
    BY <2>1 DEF SoftwareTrap, TimerTrap, ExternalTrap, do_syscall, OtherTrap, sched
  <2>2. CASE timer_check
    <3>1. UNCHANGED sched
      BY ONLY <2>2, Zenon DEF timer_check
    <3> QED
      BY <3>1 DEF sched
  <2>3. CASE timer_handler \/ timer_clear \/ timer_load
    BY ONLY <2>3 DEF timer_handler, timer_clear, timer_load, sched
  <2>4. CASE Panicked \/ switch_to \/ trap_ret
    BY <2>4 DEF Panicked, switch_to, trap_ret, sched, vars
  <2> QED
    BY <1>2, <2>1, <2>2, <2>3, <2>4 DEF TrapStep
<1>3. CASE Exception
  BY <1>3 DEF Exception, trap_vector
<1>4. ASSUME NEW cause \in Causes, Interrupt(cause) PROVE UNCHANGED current
  BY <1>4 DEF Interrupt, trap_vector
<1>5. CASE TimerExpires \/ CharArrives \/ UNCHANGED vars
  BY <1>5 DEF TimerExpires, CharArrives, sched, vars
<1> QED
  BY <1>1, <1>2, <1>3, <1>4, <1>5 DEF Next, HartStep

(* A task of the ring is passed over at most MaxTasks times: see           *)
(* TurnsComeNearer.                                                        *)
THEOREM TurnsPass ==
  ASSUME RegularUse PROVE Spec => TurnsComeNearer
<1>1. ASSUME KInv, schedule, NEW t \in Created
      PROVE  current' = t \/ Distance(current', t) < Distance(current, t)
  <2>1. ~ InTask /\ regs.pc = "schedule"
    BY <1>1 DEF schedule, At, InTask, TaskLabels, CsrCode, Locked
  <2>2. top \in 1 .. MaxTasks /\ t \in 0 .. top - 1 /\ (current = -1 \/ current \in 0 .. top - 1)
    BY <1>1, <2>1 DEF KInv, TypeOK, TrapOnHart, Created
  <2>3. current' = (current + 1) % top
    BY <1>1, <2>2 DEF schedule, NextTask
  <2>4. current \in Int /\ -1 <= current /\ current < top
    BY <2>2
  <2> QED
    BY <2>2, <2>3, <2>4, NextInTurnIsNearest
<1> DEFINE Passes ==
  IF schedule
  THEN \A t \in Created : current' = t \/ Distance(current', t) < Distance(current, t)
  ELSE UNCHANGED current
<1>2. KInv /\ [Next]_vars => [Passes]_vars
  BY <1>1, OnlyScheduleTurns
<1>3. TurnsComeNearer <=> [][Passes]_vars
  BY DEF TurnsComeNearer
<1> HIDE DEF Passes
<1> QED
  BY <1>2, <1>3, KernelInvariant, PTL DEF Spec
-----------------------------------------------------------------------------
(* The kernel implements VirtualCpus: every step of the hart is, through   *)
(* Registers, a step of one task that no task in a locked section forbids, *)
(* or changes nothing a task can see.                                      *)

(* The step of one task's code that leaves the registers in s.             *)
LEMMA InAfter ==
  ASSUME NEW r, NEW s \in Context, s.sp = r.sp, <<r.pc, s.pc>> \in VC!Moves,
         s.a0 \in VC!NextA0(r), s.i \in VC!NextI(r)
  PROVE  s \in VC!After(r)
<1>1. s = [sp |-> s.sp, pc |-> s.pc, a0 |-> s.a0, i |-> s.i]
  BY DEF Context
<1>2. s.pc \in {m[2] : m \in {n \in VC!Moves : n[1] = r.pc}}
  OBVIOUS
<1> QED
  BY <1>1, <1>2 DEF VC!After

(* A step that only jumps.                                                 *)
LEMMA JumpIsMove ==
  ASSUME KInv, NEW l \in Labels, Goto(l), <<regs.pc, l>> \in VC!Moves,
         regs.pc \notin {"ecall", "new_store"}
  PROVE  regs' \in VC!After(regs)
<1>1. regs \in Context /\ regs.i \in 0 .. (MaxTasks + MaxTimer)
  BY DEF KInv, TypeOK, Context
<1>2. regs' \in Context /\ regs'.sp = regs.sp /\ regs'.pc = l /\ regs'.a0 = regs.a0
      /\ regs'.i = regs.i
  BY <1>1 DEF Goto, Context
<1>3. regs.a0 \in VC!NextA0(regs)
  BY DEF VC!NextA0
<1>4. regs.i \in VC!NextI(regs)
  BY <1>1 DEF VC!NextI
<1> QED
  BY <1>2, <1>3, <1>4, InAfter

(* A step of the executing task is its step in VirtualCpus.                *)
LEMMA TaskMoves ==
  ASSUME KInv, InTask, top' = top, regs.pc # "new_store",
         regs' \in VC!After(regs), regs'.pc \in TaskLabels,
         \A t \in Created : ctx'[t] = ctx[t]
  PROVE  VC!Next
<1>0. current \in Tasks
  BY DEF KInv, TypeOK, TaskOnHart, Created, Tasks
<1> PICK c \in Tasks : c = current
  BY <1>0
<1>1. /\ c \in Created /\ regs.sp = c
      /\ top \in 1 .. MaxTasks /\ Created = 0 .. top - 1
  BY DEF KInv, TypeOK, TaskOnHart, IsTask, Created, Tasks
<1>2. regs'.sp = c
  BY <1>1 DEF VC!After
<1>3. regs.pc # "trap_ret" /\ regs'.pc # "trap_ret" /\ regs.pc \in TaskLabels
  BY DEF InTask, TaskLabels, CsrCode, Locked
<1>4. Registers(c) = regs /\ Registers(c)' = regs'
  <2>1. ~ (c >= top) /\ ~ (c >= top')
    BY <1>1
  <2> QED
    BY <1>1, <1>2, <1>3, <2>1 DEF Registers
<1>5. ASSUME NEW t \in Tasks, t # c PROVE Registers(t)' = Registers(t)
  <2>1. CASE t >= top
    BY <2>1 DEF Registers, Fresh
  <2>2. CASE ~ (t >= top)
    <3>1. t \in Created
      BY <1>1, <2>2 DEF Tasks
    <3>2. Registers(t) = ctx[t]
      BY <1>1, <1>3, <1>5, <2>2 DEF Registers
    <3>3. Registers(t)' = ctx'[t]
      BY <1>1, <1>2, <1>3, <1>5, <2>2 DEF Registers
    <3> QED
      BY <3>1, <3>2, <3>3
  <2> QED
    BY <2>1, <2>2
<1>6. Local' = [Local EXCEPT ![c] = regs'] /\ Local[c] = regs
  BY <1>1, <1>4, <1>5 DEF Local
<1>7. VC!Alone(c)
  <2> SUFFICES ASSUME NEW u \in Created, u # c PROVE Local[u].pc \notin VC!Locked
    BY <1>1 DEF VC!Alone
  <2>1. Registers(u).pc \notin Locked /\ u \in Tasks
    BY <1>1, RegistersOfTask DEF Tasks
  <2> QED
    BY <2>1 DEF Local, Locked, VC!Locked
<1>8. VC!Step(c)
  BY <1>6, <1>7 DEF VC!Step
<1> QED
  BY <1>1, <1>8 DEF VC!Next
-----------------------------------------------------------------------------
LEMMA JumpKeepsLabels ==
  \A m \in VC!Moves : m[1] \in Labels /\ m[2] \in Labels /\ m[2] \in TaskLabels
  BY DEF VC!Moves, Labels, TaskLabels, CsrCode, Locked, KernelAssumption

(* The steps of a task that jump, whatever else they do.                   *)
LEMMA JumpsAreMoves ==
  ASSUME KInv,
         \/ task_yield \/ yield_msip \/ spin_lock("spin_lock", "cs")
         \/ spin_lock("timer_create", "create_find")
         \/ spin_lock("timer_delete", "delete_clear")
         \/ create_func \/ create_tick \/ delete_clear \/ new_sp \/ new_pc
  PROVE  regs' \in VC!After(regs) /\ regs'.pc \in TaskLabels /\ regs.pc # "new_store"
<1>1. PICK l \in Labels : /\ Goto(l) /\ <<regs.pc, l>> \in VC!Moves
                          /\ regs.pc \notin {"ecall", "new_store"}
  <2>1. {"yield_msip", "user", "cs", "create_find", "delete_clear", "create_tick",
         "create_unlock", "delete_unlock", "new_pc", "new_load"} \subseteq Labels
    BY DEF Labels, TaskLabels, Locked
  <2>2. {<<"task_yield", "yield_msip">>, <<"yield_msip", "user">>, <<"spin_lock", "cs">>,
         <<"timer_create", "create_find">>, <<"timer_delete", "delete_clear">>,
         <<"create_func", "create_tick">>, <<"create_tick", "create_unlock">>,
         <<"delete_clear", "delete_unlock">>, <<"new_sp", "new_pc">>,
         <<"new_pc", "new_load">>} \subseteq VC!Moves
    BY DEF VC!Moves
  <2> QED
    BY <2>1, <2>2 DEF task_yield, yield_msip, spin_lock, create_func, create_tick,
       delete_clear, new_sp, new_pc, At
<1>2. regs'.pc = l /\ l \in TaskLabels
  <2>1. regs'.pc = l
    BY <1>1, GotoMoves DEF KInv
  <2> QED
    BY <1>1, <2>1, JumpKeepsLabels
<1> QED
  BY <1>1, <1>2, JumpIsMove

(* The other steps of a task, which set a0 or i as well.                   *)
LEMMA OthersAreMoves ==
  ASSUME KInv, TypeOK',
         \/ Compute \/ Call \/ create_find \/ task_create \/ new_load
         \/ spin_unlock("cs") \/ spin_unlock("create_unlock")
         \/ spin_unlock("delete_unlock")
  PROVE  regs' \in VC!After(regs) /\ regs'.pc \in TaskLabels /\ regs.pc # "new_store"
<1>1. regs \in Context /\ regs' \in Context /\ regs'.i \in 0 .. (MaxTasks + MaxTimer)
  BY DEF KInv, TypeOK, Context
<1>2. regs'.sp = regs.sp /\ regs.pc \notin {"ecall", "new_store"}
  BY <1>1 DEF Compute, Call, create_find, task_create, new_load, spin_unlock, At, Goto,
     Context
<1>3. <<regs.pc, regs'.pc>> \in VC!Moves
  BY <1>1 DEF Compute, Call, create_find, task_create, new_load, spin_unlock, At, Goto,
     Context, VC!Moves
<1>4. regs'.a0 \in VC!NextA0(regs)
  BY <1>1 DEF Compute, Call, create_find, task_create, new_load, spin_unlock, At, Goto,
     Context, VC!NextA0
<1>5. regs'.i \in VC!NextI(regs)
  BY <1>1 DEF Compute, Call, create_find, task_create, new_load, spin_unlock, At, Goto,
     Context, VC!NextI
<1>6. regs'.pc \in TaskLabels
  BY <1>3, JumpKeepsLabels
<1> QED
  BY <1>1, <1>2, <1>3, <1>4, <1>5, <1>6, InAfter

(* new_store: the task appears, its registers those of a fresh one.        *)
LEMMA NewTaskAppears ==
  ASSUME KInv, KInv', new_store PROVE VC!Next
<1>1. /\ InTask /\ regs.pc = "new_store" /\ ctx' = ctx /\ top' = regs.i + 1
      /\ regs' = [regs EXCEPT !.pc = "user", !.a0 = 0, !.i = 0]
  BY DEF new_store, At, InTask, TaskLabels
<1>2. /\ current \in Created /\ current \in Tasks /\ IsTask(regs, current)
      /\ top \in 1 .. MaxTasks /\ Created = 0 .. top - 1
      /\ regs \in Context /\ ctx \in [Tasks -> Context]
  BY <1>1 DEF KInv, TypeOK, TaskOnHart, Created, Tasks
<1>3. /\ regs.sp = current /\ regs.i = top /\ top \in Tasks
      /\ ctx[top].sp = top /\ ctx[top].pc = "user"
  BY <1>1, <1>2 DEF IsTask, NewCode, Tasks
<1>4. ctx[top] = Fresh(top)
  <2>1. ctx[top].a0 = 0 /\ ctx[top].i = 0
    BY <1>2, <1>3 DEF KInv, UnusedIsZero, Tasks
  <2> QED
    BY <1>2, <1>3, <2>1 DEF Context, Fresh
<1>5. top' = top + 1 /\ regs'.sp = current /\ regs'.pc = "user" /\ "user" \in TaskLabels
  BY <1>1, <1>2, <1>3 DEF Context, TaskLabels
<1>6. PICK c \in Tasks : c = current
  BY <1>2
<1>7. Registers(c) = regs /\ Registers(c)' = regs'
  <2>1. ~ (c >= top) /\ ~ (c >= top')
    BY <1>2, <1>5, <1>6
  <2> QED
    BY <1>1, <1>2, <1>3, <1>5, <1>6, <2>1 DEF Registers, InTask
<1>8. ASSUME NEW t \in Tasks, t # c PROVE Registers(t)' = Registers(t)
  <2>1. t \in Nat /\ top \in Nat
    BY <1>2 DEF Tasks
  <2>2. regs.pc # "trap_ret" /\ regs'.pc # "trap_ret" /\ t # regs.sp /\ t # regs'.sp
    BY <1>1, <1>3, <1>5, <1>6, <1>8
  <2>3. CASE t < top
    BY <1>1, <1>5, <2>1, <2>2, <2>3 DEF Registers
  <2>4. CASE t = top
    <3>1. Registers(t) = Fresh(t)
      BY <2>1, <2>4 DEF Registers
    <3>2. Registers(t)' = ctx'[t]
      BY <1>5, <2>1, <2>2, <2>4 DEF Registers
    <3> QED
      BY <1>1, <1>4, <2>4, <3>1, <3>2
  <2>5. CASE t > top
    BY <1>5, <2>1, <2>5 DEF Registers, Fresh
  <2> QED
    BY <2>1, <2>3, <2>4, <2>5
<1>9. Local' = [Local EXCEPT ![c] = regs'] /\ Local[c] = regs
  BY <1>7, <1>8 DEF Local
<1>10. VC!Alone(c)
  <2> SUFFICES ASSUME NEW u \in Created, u # c PROVE Local[u].pc \notin VC!Locked
    BY <1>2 DEF VC!Alone
  <2>1. Registers(u).pc \notin Locked /\ u \in Tasks
    BY <1>2, <1>3, <1>6, RegistersOfTask DEF Tasks
  <2> QED
    BY <2>1 DEF Local, Locked, VC!Locked
<1>11. regs' \in VC!After(regs)
  <2>1. regs' \in Context /\ regs'.a0 = 0 /\ regs'.i = 0
    BY <1>1, <1>2 DEF KInv, TypeOK, Context
  <2>2. <<regs.pc, regs'.pc>> \in VC!Moves
    BY <1>1, <1>5 DEF VC!Moves
  <2>3. regs'.a0 \in VC!NextA0(regs) /\ regs'.i \in VC!NextI(regs)
    BY <1>1, <2>1 DEF VC!NextA0, VC!NextI
  <2> QED
    BY <1>3, <1>5, <2>1, <2>2, <2>3, InAfter
<1>12. VC!Step(c)
  BY <1>1, <1>5, <1>9, <1>10, <1>11 DEF VC!Step
<1> QED
  BY <1>2, <1>6, <1>12 DEF VC!Next

LEMMA TaskStepIsVirtual ==
  ASSUME KInv, KInv', TaskStep PROVE VC!Next
<1>1. CASE new_store
  BY <1>1, NewTaskAppears
<1>2. CASE ~ new_store
  <2>1. InTask
    BY DEF TaskStep, Compute, Call, task_yield, yield_msip, spin_lock, spin_unlock,
       create_find, create_func, create_tick, delete_clear, task_create, new_sp,
       new_pc, new_load, new_store, At, InTask, TaskLabels, CsrCode, Locked
  <2>2. regs' \in VC!After(regs) /\ regs'.pc \in TaskLabels /\ regs.pc # "new_store"
    BY <1>2, JumpsAreMoves, OthersAreMoves DEF TaskStep, KInv
  <2>3. /\ top' = top
        /\ ctx' = ctx \/ \E r : ctx' = [ctx EXCEPT ![top] = r]
    <3>1. CASE new_sp
      BY <3>1 DEF new_sp
    <3>2. CASE new_pc
      BY <3>2 DEF new_pc
    <3>3. CASE ~ new_sp /\ ~ new_pc
      BY <1>2, <3>3 DEF TaskStep, Compute, Call, task_yield, yield_msip, spin_lock,
         spin_unlock, create_find, create_func, create_tick, delete_clear, task_create,
         new_load, sched
    <3> QED
      BY <3>1, <3>2, <3>3
  <2>4. ASSUME NEW t \in Created PROVE ctx'[t] = ctx[t]
    <3>1. t # top /\ t \in Tasks /\ ctx \in [Tasks -> Context]
      BY DEF KInv, TypeOK, Created, Tasks
    <3> QED
      BY <2>3, <3>1
  <2> QED
    BY <2>1, <2>2, <2>3, <2>4, TaskMoves
<1> QED
  BY <1>1, <1>2
-----------------------------------------------------------------------------
(* What is to be shown of a step that no task sees.                        *)
LEMMA Invisible ==
  ASSUME top' = top, \A t \in Tasks : Registers(t)' = Registers(t)
  PROVE  UNCHANGED <<Local, top>>
  BY DEF Local

(* On a trap the registers move from the hart to the context.              *)
LEMMA TrapIsInvisible ==
  ASSUME KInv, InTask, NEW cause, trap_vector(cause)
  PROVE  UNCHANGED <<Local, top>>
<1>1. /\ current \in Created /\ current \in Tasks /\ mscratch = current
      /\ regs.sp = current /\ ctx \in [Tasks -> Context] /\ top \in 1 .. MaxTasks
      /\ Created = 0 .. top - 1 /\ regs \in Context
  BY DEF KInv, TypeOK, TaskOnHart, IsTask, Created, Tasks
<1>2. ctx' = [ctx EXCEPT ![current] = regs] /\ top' = top
  BY <1>1 DEF trap_vector, reg_save
<1>3. regs'.pc = "trap_handler" /\ "trap_handler" \notin TaskLabels /\ regs.pc # "trap_ret"
      /\ regs.pc \in TaskLabels
  BY <1>1 DEF trap_vector, Context, TaskLabels, CsrCode, Locked, InTask
<1>4. ASSUME NEW t \in Tasks PROVE Registers(t)' = Registers(t)
  <2>1. CASE t >= top
    BY <1>2, <2>1 DEF Registers, Fresh
  <2>2. CASE ~ (t >= top) /\ t = current
    <3>1. Registers(t) = regs
      BY <1>1, <1>3, <2>2 DEF Registers
    <3>2. Registers(t)' = ctx'[t]
      BY <1>2, <1>3, <2>2 DEF Registers
    <3> QED
      BY <1>1, <1>2, <2>2, <3>1, <3>2
  <2>3. CASE ~ (t >= top) /\ t # current
    <3>1. Registers(t) = ctx[t]
      BY <1>1, <1>3, <2>3 DEF Registers
    <3>2. Registers(t)' = ctx'[t]
      BY <1>2, <1>3, <2>3 DEF Registers
    <3> QED
      BY <1>1, <1>2, <2>3, <3>1, <3>2
  <2> QED
    BY <2>1, <2>2, <2>3
<1> QED
  BY <1>2, <1>4, Invisible

(* While the handler works the tasks are in their contexts.                *)
LEMMA HandlerIsInvisible ==
  ASSUME KInv, regs.pc \in KernelLabels \ {"trap_ret"},
         regs'.pc \in KernelLabels \ {"trap_ret"}, UNCHANGED <<ctx, top>>
  PROVE  UNCHANGED <<Local, top>>
<1>1. regs.pc \notin TaskLabels /\ regs'.pc \notin TaskLabels
  BY LabelSets
<1>2. \A t \in Tasks : Registers(t)' = Registers(t)
  BY <1>1 DEF Registers, Fresh
<1> QED
  BY <1>2, Invisible

LEMMA ExternalIsInvisible ==
  ASSUME KInv, ExternalTrap PROVE UNCHANGED <<Local, top>>
<1>1. regs.pc = "trap_handler" /\ mcause = "external" /\ regs'.pc = "trap_ret"
      /\ UNCHANGED <<mepc, mscratch, ctx, top>>
  BY GotoMoves DEF ExternalTrap, At, trapCsr, sched, KInv, TypeOK, Goto, Context
<1>2. mepc = ctx[mscratch].pc /\ ctx \in [Tasks -> Context]
  BY <1>1 DEF KInv, TypeOK, Trapped
<1>3. "trap_handler" \notin TaskLabels /\ "trap_ret" \notin TaskLabels
  BY DEF TaskLabels, CsrCode, Locked
<1>4. ASSUME NEW t \in Tasks PROVE Registers(t)' = Registers(t)
  <2>1. mscratch = t => [ctx[t] EXCEPT !.pc = mepc] = ctx[t]
    BY <1>2 DEF Context
  <2> QED
    BY <1>1, <1>3, <2>1 DEF Registers, Fresh
<1> QED
  BY <1>1, <1>4, Invisible

(* switch_to and the way back from a trap move a context into the hart.    *)
LEMMA RestoreIsInvisible ==
  ASSUME KInv, KInv', switch_to \/ trap_ret PROVE UNCHANGED <<Local, top>>
<1>1. ~ InTask /\ regs.pc \in {"switch_to", "trap_ret"} /\ regs.pc \notin TaskLabels
  BY DEF switch_to, trap_ret, At, InTask, TaskLabels, CsrCode, Locked
<1>2. /\ current \in Created /\ current \in Tasks
      /\ regs.pc = "trap_ret" => mscratch = current
      /\ ctx \in [Tasks -> Context] /\ IsTask(ctx[current], current)
      /\ top \in 1 .. MaxTasks /\ Created = 0 .. top - 1
  BY <1>1, WhileInTrap DEF KInv, TypeOK, TrapOnHart, Created
<1>3. UNCHANGED <<ctx, top, current>>
  BY DEF switch_to, trap_ret, sched
<1>4. /\ regs.pc = "switch_to" => regs' = ctx[current]
      /\ regs.pc = "trap_ret" => regs' = [ctx[current] EXCEPT !.pc = mepc]
  BY <1>1, <1>2 DEF switch_to, trap_ret, reg_restore, At
<1>5. regs'.sp = current
  BY <1>1, <1>2, <1>4 DEF IsTask, Context
<1>6. regs'.pc \in TaskLabels /\ regs'.pc # "trap_ret"
  <2>1. mepc \in TaskLabels \/ regs.pc # "trap_ret"
    BY <1>2 DEF KInv, Trapped, IsTask, UserLabels, NewCode, TaskLabels, CsrCode
  <2>2. ctx[current].pc \in TaskLabels
    BY <1>2, LabelSets DEF IsTask
  <2>3. regs'.pc \in TaskLabels
    BY <1>1, <1>2, <1>4, <2>1, <2>2 DEF Context
  <2> QED
    BY <2>3 DEF TaskLabels, CsrCode, Locked
<1>7. PICK c \in Tasks : c = current
  BY <1>2
<1>8. Registers(c)' = Registers(c)
  <2>1. ~ (c >= top) /\ ~ (c >= top')
    BY <1>2, <1>3, <1>7
  <2>2. Registers(c)' = regs'
    BY <1>5, <1>6, <1>7, <2>1 DEF Registers
  <2>3. CASE regs.pc = "switch_to"
    BY <1>1, <1>4, <1>7, <2>1, <2>2, <2>3 DEF Registers
  <2>4. CASE regs.pc = "trap_ret"
    BY <1>1, <1>2, <1>4, <1>7, <2>1, <2>2, <2>4 DEF Registers
  <2> QED
    BY <1>1, <2>3, <2>4
<1>9. ASSUME NEW t \in Tasks, t # c PROVE Registers(t)' = Registers(t)
  <2>1. CASE t >= top
    BY <1>3, <2>1 DEF Registers, Fresh
  <2>2. CASE ~ (t >= top)
    <3>1. Registers(t) = ctx[t]
      BY <1>1, <1>2, <1>7, <1>9, <2>2 DEF Registers
    <3>2. Registers(t)' = ctx'[t]
      BY <1>3, <1>5, <1>6, <1>7, <1>9, <2>2 DEF Registers
    <3> QED
      BY <1>3, <3>1, <3>2
  <2> QED
    BY <2>1, <2>2
<1> QED
  BY <1>3, <1>8, <1>9, Invisible

(* do_syscall is the step of the task that made the system call.           *)
LEMMA SyscallIsVirtual ==
  ASSUME KInv, do_syscall PROVE VC!Next
<1>1. ~ InTask /\ regs.pc = "trap_handler" /\ mcause = "ecall"
  BY DEF do_syscall, At, InTask, TaskLabels, CsrCode, Locked
<1>2. /\ current \in Created /\ current \in Tasks /\ mscratch = current
      /\ top \in 1 .. MaxTasks /\ Created = 0 .. top - 1
      /\ ctx \in [Tasks -> Context] /\ ctx[current].pc = "ecall"
  BY <1>1, WhileInTrap DEF KInv, TypeOK, TrapOnHart, Trapped, Created
<1>3. PICK c \in Tasks : c = current
  BY <1>2
<1> DEFINE r == [ctx[c] EXCEPT !.a0 = SyscallResult(ctx[c]), !.pc = "user"]
<1>4. /\ ctx' = [ctx EXCEPT ![c].a0 = SyscallResult(ctx[c])]
      /\ regs'.pc = "trap_ret" /\ mepc' = "user"
      /\ UNCHANGED <<mscratch, top>>
  BY <1>2, <1>3, GotoMoves DEF do_syscall, KInv, TypeOK, Goto, Context
<1>5. regs.pc \notin TaskLabels /\ regs.pc # "trap_ret" /\ regs'.pc \notin TaskLabels
  BY <1>1, <1>4 DEF TaskLabels, CsrCode, Locked
<1>6. Registers(c) = ctx[c] /\ Registers(c)' = r
  <2>1. ~ (c >= top) /\ ~ (c >= top')
    BY <1>2, <1>3, <1>4
  <2>2. Registers(c) = ctx[c]
    BY <1>5, <2>1 DEF Registers
  <2>3. Registers(c)' = [ctx'[c] EXCEPT !.pc = mepc']
    BY <1>2, <1>3, <1>4, <1>5, <2>1 DEF Registers
  <2>4. ctx'[c] = [ctx[c] EXCEPT !.a0 = SyscallResult(ctx[c])]
    BY <1>2, <1>4
  <2> QED
    BY <1>2, <1>4, <2>2, <2>3, <2>4 DEF Context
<1>7. ASSUME NEW t \in Tasks, t # c PROVE Registers(t)' = Registers(t)
  <2>1. ctx'[t] = ctx[t]
    BY <1>2, <1>4, <1>7
  <2> QED
    BY <1>2, <1>3, <1>4, <1>5, <1>7, <2>1 DEF Registers, Fresh
<1>8. Local' = [Local EXCEPT ![c] = r] /\ Local[c] = ctx[c]
  BY <1>6, <1>7 DEF Local
<1>9. VC!Alone(c)
  <2> SUFFICES ASSUME NEW u \in Created, u # c PROVE Local[u].pc \notin VC!Locked
    BY <1>2 DEF VC!Alone
  <2>1. u \in Tasks /\ ~ (u >= top) /\ ctx[u].pc \in Preemptible
    BY <1>1, <1>2, WhileInTrap DEF Tasks
  <2>2. Registers(u) = ctx[u]
    BY <1>5, <2>1 DEF Registers
  <2> QED
    BY <2>1, <2>2 DEF Local, Locked, VC!Locked, Preemptible
<1>10. r \in VC!After(ctx[c])
  <2>1. SyscallResult(ctx[c]) \in A0 /\ "user" \in Labels
    BY DEF SyscallResult, A0, Labels, TaskLabels
  <2>2. r \in Context /\ r.sp = ctx[c].sp /\ r.pc = "user" /\ r.i = ctx[c].i
        /\ r.a0 = SyscallResult(ctx[c])
    BY <1>2, <2>1 DEF Context
  <2>3. <<ctx[c].pc, r.pc>> \in VC!Moves
    BY <1>2, <1>3, <2>2 DEF VC!Moves
  <2>4. r.a0 \in VC!NextA0(ctx[c])
    BY <1>2, <1>3, <2>2 DEF VC!NextA0, VC!SyscallResult, SyscallResult
  <2>5. r.i \in VC!NextI(ctx[c])
    BY <1>2, <1>3, <2>2 DEF VC!NextI
  <2> QED
    BY <2>2, <2>3, <2>4, <2>5, InAfter
<1>11. VC!Step(c)
  BY <1>2, <1>3, <1>4, <1>8, <1>9, <1>10 DEF VC!Step
<1> QED
  BY <1>2, <1>3, <1>11 DEF VC!Next

LEMMA TrapStepIsVirtual ==
  ASSUME RegularUse, KInv, KInv', TrapStep PROVE [VC!Next]_<<Local, top>>
<1>1. CASE do_syscall
  BY <1>1, SyscallIsVirtual
<1>2. CASE switch_to \/ trap_ret
  BY <1>2, RestoreIsInvisible
<1>3. CASE ExternalTrap
  BY <1>3, ExternalIsInvisible
<1>4. CASE SoftwareTrap \/ TimerTrap \/ timer_handler \/ timer_check
           \/ timer_clear \/ timer_load \/ schedule \/ OtherTrap
  <2>1. /\ ~ InTask /\ regs.pc \in KernelLabels \ {"trap_ret"}
        /\ UNCHANGED <<ctx, top>>
    BY <1>4 DEF SoftwareTrap, TimerTrap, timer_handler, timer_check, timer_clear,
       timer_load, schedule, OtherTrap, At, InTask, TaskLabels, CsrCode, Locked, KernelLabels,
       sched
  <2>2. regs'.pc \in KernelLabels \ {"trap_ret"}
    <3>1. regs \in Context
      BY DEF KInv, TypeOK
    <3>2. CASE timer_check
      <4>1. Goto("timer_load") \/ \E s \in Slots : CheckRuns(s)
        BY <3>2, CheckCases
      <4> QED
        <5>1. CASE Goto("timer_load")
          BY ONLY <3>1, <5>1 DEF Goto, Context, KernelLabels
        <5>2. ASSUME NEW s \in Slots, regs' = [regs EXCEPT !.pc = "timer_clear", !.i = s]
              PROVE  regs'.pc \in KernelLabels \ {"trap_ret"}
          BY ONLY <3>1, <5>2 DEF Context, KernelLabels
        <5> QED
          BY <4>1, <5>1, <5>2 DEF CheckRuns
    <3> QED
      BY <1>4, <3>1, <3>2 DEF SoftwareTrap, TimerTrap, timer_handler, timer_clear,
         timer_load, schedule, OtherTrap, Goto, Context, KernelLabels
  <2> QED
    BY <2>1, <2>2, HandlerIsInvisible
<1>5. CASE Panicked
  <2>1. UNCHANGED <<regs, ctx, top, mscratch, mepc>>
    BY <1>5 DEF Panicked, vars, sched, trapCsr
  <2>2. \A t \in Tasks : Registers(t)' = Registers(t)
    BY <2>1 DEF Registers, Fresh
  <2> QED
    BY <2>1, <2>2, Invisible
<1> QED
  BY <1>1, <1>2, <1>3, <1>4, <1>5 DEF TrapStep

LEMMA InitIsVirtual == Init => VC!Init
<1> SUFFICES ASSUME Init PROVE VC!Init
  OBVIOUS
<1>1. /\ regs.sp = NoOne /\ regs.pc = "schedule" /\ top = InitTop
      /\ ctx = [t \in Tasks |-> IF t < InitTop THEN Fresh(t) ELSE Zeroed]
  BY DEF Init
<1>2. ASSUME NEW t \in Tasks PROVE Registers(t) = Fresh(t)
  <2>1. t # NoOne /\ t \in Nat /\ InitTop \in Nat
    BY DEF NoOne, Tasks, KernelAssumption
  <2> QED
    BY <1>1, <2>1 DEF Registers
<1> QED
  BY <1>1, <1>2 DEF VC!Init, Local, VC!Tasks, Tasks, VC!Fresh, Fresh

(* The kernel implements one processor per task.                           *)
THEOREM KernelImplementsVirtualCpus ==
  ASSUME RegularUse PROVE Spec => ImplementsVirtualCpus
<1>1. ASSUME KInv, KInv', [Next]_vars PROVE [VC!Next]_<<Local, top>>
  <2>1. CASE TaskStep
    BY <1>1, <2>1, TaskStepIsVirtual
  <2>2. CASE TrapStep
    BY <1>1, <2>2, TrapStepIsVirtual
  <2>3. CASE Exception
    <3>1. Raises # "none" /\ trap_vector(Raises)
      BY <2>3 DEF Exception
    <3>2. InTask
      BY <1>1, <3>1, OnlySystemCalls
    <3> QED
      BY <1>1, <3>1, <3>2, TrapIsInvisible
  <2>4. ASSUME NEW cause \in Causes, Interrupt(cause) PROVE UNCHANGED <<Local, top>>
    <3>1. InTask /\ trap_vector(cause)
      BY <1>1, <2>4, WhileInTrap DEF Interrupt
    <3> QED
      BY <1>1, <3>1, TrapIsInvisible
  <2>5. CASE TimerExpires \/ CharArrives \/ UNCHANGED vars
    <3>1. UNCHANGED <<regs, ctx, top, mepc, mscratch>>
      BY <2>5 DEF TimerExpires, CharArrives, vars, trapCsr, sched
    <3>2. \A t \in Tasks : Registers(t)' = Registers(t)
      BY <3>1 DEF Registers, Fresh
    <3> QED
      BY <3>1, <3>2, Invisible
  <2> QED
    BY <1>1, <2>1, <2>2, <2>3, <2>4, <2>5 DEF Next, HartStep
<1> QED
  BY <1>1, InitIsVirtual, KernelInvariant, PTL DEF Spec, ImplementsVirtualCpus, VC!Spec
-----------------------------------------------------------------------------
(* The kernel implements Timer: what the timer calls and the tick do under *)
(* the lock and inside of traps is one step each, seen through TickView    *)
(* and ListView.                                                           *)

Views ==
  /\ regs.pc # "timer_check" => TickView = tick
  /\ regs.pc = "timer_check" => TickView = (tick + TickMod - 1) % TickMod
  /\ regs.pc \notin {"create_tick", "timer_clear"} => ListView = timer_list
  /\ regs.pc \in {"create_tick", "timer_clear"} => ListView = TM!Cleared(timer_list, regs.i)

LEMMA ViewsHold == TypeOK => Views
<1> SUFFICES ASSUME TypeOK PROVE Views
  OBVIOUS
<1>1. timer_list \in [Slots -> [func : Tasks \cup {NULL}, timeout_tick : 0 .. TickMod - 1]]
  BY DEF TypeOK
<1>2. CASE regs.pc \in {"create_tick", "timer_clear"}
  <2>1. ASSUME NEW i \in Slots PROVE ListView[i] = TM!Cleared(timer_list, regs.i)[i]
    BY <1>1, <1>2 DEF ListView, TM!Cleared
  <2>2. TM!Cleared(timer_list, regs.i) = [i \in Slots |-> TM!Cleared(timer_list, regs.i)[i]]
    BY <1>1 DEF TM!Cleared
  <2>3. ListView = [i \in Slots |-> ListView[i]]
    BY DEF ListView
  <2>4. ListView = TM!Cleared(timer_list, regs.i)
    BY <2>1, <2>2, <2>3
  <2> QED
    BY <1>2, <2>4 DEF Views, TickView
<1>3. CASE regs.pc \notin {"create_tick", "timer_clear"}
  <2>1. ListView = timer_list
    BY <1>1, <1>3 DEF ListView
  <2> QED
    BY <1>3, <2>1 DEF Views, TickView
<1> QED
  BY <1>2, <1>3

LEMMA ViewsFacts ==
  ASSUME KInv, KInv'
  PROVE  /\ Views /\ Views' /\ TypeOK /\ TypeOK'
         /\ timer_list \in [Slots -> [func : Tasks \cup {NULL}, timeout_tick : 0 .. TickMod - 1]]
         /\ timer_list' \in [Slots -> [func : Tasks \cup {NULL}, timeout_tick : 0 .. TickMod - 1]]
         /\ tick \in 0 .. TickMod - 1 /\ regs \in Context /\ regs' \in Context
<1>1. TypeOK /\ TypeOK'
  BY DEF KInv
<1>2. Views /\ Views'
  BY <1>1, ViewsHold, PTL
<1> QED
  BY <1>1, <1>2 DEF TypeOK

InTimerCode == {"create_func", "create_tick", "timer_handler", "timer_check", "timer_clear",
                "timer_load"}

(* A step that neither comes from nor leads into the code of the timers.   *)
LEMMA QuietStep ==
  ASSUME KInv, KInv', TimerCalls, UNCHANGED <<tick, timer_list>>,
         regs.pc \notin InTimerCode \/ (regs.pc = "timer_load" /\ ~ mtip'),
         regs'.pc \notin InTimerCode \ {"timer_handler"},
         (\/ regs'.pc = "timer_handler"
          \/ regs'.pc = "trap_handler" /\ mcause' = "timer") => mtip',
         mtip' => mtip
  PROVE  TimerCalls' /\ UNCHANGED <<TickView, ListView>>
<1>1. TickView = tick /\ ListView = timer_list /\ TickView' = tick /\ ListView' = timer_list
  BY ViewsFacts DEF Views, InTimerCode
<1>2. TimerCalls'
  BY <1>1 DEF TimerCalls, InTimerCode
<1> QED
  BY <1>1, <1>2

(* Most steps of a task are of that kind.                                  *)
LEMMA QuietTaskStep ==
  ASSUME KInv, KInv', TimerCalls,
         \/ Compute \/ Call \/ task_yield \/ yield_msip
         \/ spin_lock("spin_lock", "cs") \/ spin_unlock("cs")
         \/ spin_lock("timer_create", "create_find") \/ spin_unlock("create_unlock")
         \/ spin_lock("timer_delete", "delete_clear") \/ spin_unlock("delete_unlock")
         \/ task_create \/ new_sp \/ new_pc \/ new_load \/ new_store
  PROVE  TimerCalls' /\ UNCHANGED <<TickView, ListView>>
<1>1. UNCHANGED <<tick, timer_list>> /\ UNCHANGED <<mtip, mcause>>
  BY DEF Compute, Call, task_yield, yield_msip, spin_lock, spin_unlock, task_create, new_sp,
     new_pc, new_load, new_store, timers, pending, trapCsr
<1>2. regs.pc \notin InTimerCode
  BY DEF Compute, Call, task_yield, yield_msip, spin_lock, spin_unlock, task_create,
     new_sp, new_pc, new_load, new_store, At, InTimerCode
<1>3. regs'.pc \in {"user", "cs", "yield_msip", "create_find", "delete_clear", "new_sp",
                    "new_pc", "new_load", "new_store"} \cup Calls
  <2>1. regs \in Context
    BY ViewsFacts
  <2>2. CASE Compute
    BY <2>1, <2>2 DEF Compute, At, Context
  <2>3. CASE Call
    <3>1. PICK c \in Calls, a7 \in {0, 1} : regs' = [regs EXCEPT !.pc = c, !.i = a7]
      BY <2>3 DEF Call
    <3>2. regs'.pc = c
      BY ONLY <2>1, <3>1 DEF Context
    <3> QED
      BY <3>2
  <2>4. CASE task_yield \/ yield_msip
    BY <2>1, <2>4 DEF task_yield, yield_msip, Goto, Context
  <2>5. CASE spin_lock("spin_lock", "cs") \/ spin_lock("timer_create", "create_find")
             \/ spin_lock("timer_delete", "delete_clear")
    BY <2>1, <2>5 DEF spin_lock, Goto, Context
  <2>6. CASE spin_unlock("cs") \/ spin_unlock("create_unlock") \/ spin_unlock("delete_unlock")
    BY <2>1, <2>6 DEF spin_unlock, Context
  <2>7. CASE task_create \/ new_sp \/ new_pc \/ new_load \/ new_store
    BY <2>1, <2>7 DEF task_create, new_sp, new_pc, new_load, new_store, Goto, Context
  <2> QED
    BY <2>2, <2>3, <2>4, <2>5, <2>6, <2>7
<1>4. regs'.pc \notin InTimerCode /\ regs'.pc # "trap_handler"
  <2>1. Calls \subseteq {"task_yield", "spin_lock", "timer_create", "timer_delete",
                        "task_create", "ecall"}
    BY ONLY KernelAssumption DEF KernelAssumption
  <2> QED
    BY ONLY <1>3, <2>1 DEF InTimerCode
<1>5. mtip' = mtip
  BY <1>1
<1>6. /\ regs'.pc \notin InTimerCode \ {"timer_handler"}
      /\ regs'.pc # "timer_handler"
  BY <1>4 DEF InTimerCode
<1>7. UNCHANGED <<tick, timer_list>>
  BY <1>1
<1> QED
  BY ONLY KInv, KInv', TimerCalls, <1>2, <1>4, <1>5, <1>6, <1>7, QuietStep

(* So are the steps of a trap outside of the tick.                         *)
LEMMA QuietTrapStep ==
  ASSUME KInv, KInv', TimerCalls,
         \/ SoftwareTrap \/ TimerTrap \/ ExternalTrap \/ do_syscall \/ OtherTrap
         \/ timer_load \/ schedule \/ switch_to \/ trap_ret
  PROVE  TimerCalls' /\ UNCHANGED <<TickView, ListView>>
<1>1. UNCHANGED <<tick, timer_list, mcause>> /\ (mtip' => mtip)
  BY DEF SoftwareTrap, TimerTrap, ExternalTrap, do_syscall, OtherTrap, timer_load, schedule,
     switch_to, trap_ret, timers, pending, trapCsr
<1>2. regs.pc \notin InTimerCode \/ (regs.pc = "timer_load" /\ ~ mtip')
  BY DEF SoftwareTrap, TimerTrap, ExternalTrap, do_syscall, OtherTrap, timer_load, schedule,
     switch_to, trap_ret, At, InTimerCode
<1>3. /\ regs'.pc \notin InTimerCode \ {"timer_handler"} /\ regs'.pc # "trap_handler"
      /\ regs'.pc = "timer_handler" => mtip'
  <2>1. CASE switch_to \/ trap_ret
    <3>1. ~ InTask /\ regs.pc \in {"switch_to", "trap_ret"}
      BY <2>1 DEF switch_to, trap_ret, At, InTask, TaskLabels, CsrCode, Locked
    <3>2. /\ current \in Created /\ current \in Tasks /\ ctx \in [Tasks -> Context]
          /\ regs.pc = "trap_ret" => mscratch = current
      BY <3>1, WhileInTrap DEF KInv, TypeOK, TrapOnHart
    <3>3. ctx[current].pc \in Preemptible
      BY <3>1, <3>2, WhileInTrap
    <3>4. regs'.pc \in {ctx[current].pc, mepc} /\ (regs.pc = "switch_to" => regs'.pc = ctx[current].pc)
      BY <2>1, <3>1, <3>2 DEF switch_to, trap_ret, reg_restore, At, Context
    <3>5. regs.pc = "trap_ret" => mepc \in {"user", ctx[current].pc}
      BY <3>2 DEF KInv, Trapped
    <3>6. regs'.pc \in Preemptible \cup {"user"}
      BY <3>1, <3>3, <3>4, <3>5
    <3> QED
      BY <3>6 DEF Preemptible, UserLabels, NewCode, CsrCode, TaskLabels, Locked, InTimerCode
  <2>2. CASE ~ (switch_to \/ trap_ret)
    <3>1. regs \in Context
      BY ViewsFacts
    <3>2. regs'.pc \in {"schedule", "timer_handler", "trap_ret", "panic", "switch_to"}
      BY <2>2, <3>1 DEF SoftwareTrap, TimerTrap, ExternalTrap, do_syscall, OtherTrap, timer_load,
         schedule, At, Goto, Context
    <3>3. regs'.pc = "timer_handler" => mtip'
      BY <2>2, <3>1 DEF SoftwareTrap, TimerTrap, ExternalTrap, do_syscall, OtherTrap, timer_load,
         schedule, At, Goto, Context, TimerCalls, pending
    <3> QED
      BY <3>2, <3>3 DEF InTimerCode
  <2> QED
    BY <2>1, <2>2
<1> QED
  BY <1>1, <1>2, <1>3, QuietStep

(* Traps come only outside of the locked sections.                         *)
LEMMA QuietTrap ==
  ASSUME KInv, KInv', TimerCalls, NEW cause, trap_vector(cause), InTask,
         regs.pc \in Preemptible, cause = "timer" => mtip
  PROVE  TimerCalls' /\ UNCHANGED <<TickView, ListView>>
<1>1. UNCHANGED <<tick, timer_list, mtip>> /\ mcause' = cause
  BY DEF trap_vector, timers, pending
<1>2. regs.pc \notin InTimerCode
  BY DEF Preemptible, UserLabels, NewCode, CsrCode, TaskLabels, Locked, InTimerCode
<1>3. regs'.pc = "trap_handler"
  BY ViewsFacts DEF trap_vector, Context
<1> QED
  BY <1>1, <1>2, <1>3, QuietStep DEF InTimerCode
-----------------------------------------------------------------------------
TimersStep == [TV!Next]_<<TickView, ListView>>

(* timer_create looks for a slot: nobody sees that.                        *)
LEMMA FindIsQuiet ==
  ASSUME KInv, KInv', TimerCalls, create_find
  PROVE  TimerCalls' /\ UNCHANGED <<TickView, ListView>>
<1>1. regs.pc = "create_find" /\ UNCHANGED <<tick, timer_list, mtip, mcause>>
  BY DEF create_find, At, timers, pending, trapCsr
<1>2. /\ regs'.pc \in {"create_unlock", "create_func"}
      /\ regs'.pc = "create_func" /\ regs'.i \in Slots => TM!IsFirstFree(timer_list, regs'.i)
  <2>1. regs \in Context /\ MaxTimer \notin Slots
    BY ViewsFacts DEF Slots
  <2>2. CASE Goto("create_unlock")
    BY <2>1, <2>2 DEF Goto, Context
  <2>3. CASE regs' = [regs EXCEPT !.pc = "create_func", !.i = MaxTimer]
    <3>1. regs'.pc = "create_func" /\ regs'.i = MaxTimer
      BY ONLY <2>1, <2>3 DEF Context
    <3> QED
      BY <2>1, <3>1
  <2>4. ASSUME NEW s \in Slots, TM!IsFirstFree(timer_list, s),
               regs' = [regs EXCEPT !.pc = "create_func", !.i = s]
        PROVE  regs'.pc = "create_func" /\ TM!IsFirstFree(timer_list, regs'.i)
    <3>1. regs'.pc = "create_func" /\ regs'.i = s
      BY ONLY <2>1, <2>4 DEF Context
    <3> QED
      BY <2>4, <3>1
  <2> QED
    BY <2>2, <2>3, <2>4 DEF create_find
<1>3. TickView = tick /\ ListView = timer_list /\ TickView' = tick /\ ListView' = timer_list
  BY <1>1, <1>2, ViewsFacts DEF Views
<1>4. TimerCalls'
  BY <1>1, <1>2, <1>3 DEF TimerCalls
<1> QED
  BY <1>3, <1>4

(* timer_create writes func: the slot still counts as free.                *)
LEMMA FuncIsQuiet ==
  ASSUME KInv, KInv', TimerCalls, create_func
  PROVE  TimerCalls' /\ UNCHANGED <<TickView, ListView>>
<1>1. /\ regs.pc = "create_func" /\ UNCHANGED <<tick, mtip, mcause>>
      /\ timer_list' = [timer_list EXCEPT ![regs.i].func = regs.sp]
  BY DEF create_func, At, pending, trapCsr
<1>2. regs'.pc = "create_tick" /\ regs'.i = regs.i /\ regs'.sp = regs.sp
  BY ViewsFacts DEF create_func, Goto, Context
<1>3. /\ TickView = tick /\ TickView' = tick /\ ListView = timer_list
      /\ ListView' = TM!Cleared(timer_list', regs.i)
  BY <1>1, <1>2, ViewsFacts DEF Views
<1>4. regs.i \in Slots => TM!IsFirstFree(ListView, regs.i)
  BY <1>1 DEF TimerCalls
<1>5. ListView' = ListView
  <2>1. regs.i \in Slots => timer_list[regs.i].func = NULL
    BY <1>3, <1>4 DEF TM!IsFirstFree, TM!InUse
  <2>2. TM!Cleared(timer_list', regs.i) = timer_list
    <3>1. DOMAIN timer_list = Slots
      BY ViewsFacts
    <3>2. ASSUME NEW i \in Slots PROVE TM!Cleared(timer_list', regs.i)[i] = timer_list[i]
      <4>1. timer_list[i] = [func |-> timer_list[i].func, timeout_tick |-> timer_list[i].timeout_tick]
        BY ViewsFacts
      <4>2. CASE i = regs.i
        BY <1>1, <2>1, <3>1, <4>1, <4>2 DEF TM!Cleared
      <4>3. CASE i # regs.i
        BY <1>1, <3>1, <4>3 DEF TM!Cleared
      <4> QED
        BY <4>2, <4>3
    <3>3. TM!Cleared(timer_list', regs.i) =
            [i \in Slots |-> TM!Cleared(timer_list', regs.i)[i]]
      BY <1>1, <3>1 DEF TM!Cleared
    <3> QED
      BY ONLY <3>2, <3>3, ViewsFacts, KInv, KInv'
  <2> QED
    BY <1>3, <2>2
<1>6. regs.i \in Slots => timer_list'[regs.i].func = regs.sp
  BY <1>1, ViewsFacts
<1>7. TimerCalls'
  BY <1>1, <1>2, <1>3, <1>4, <1>5, <1>6 DEF TimerCalls
<1> QED
  BY <1>3, <1>5, <1>7

(* timer_create writes timeout_tick: now the timer is armed.               *)
LEMMA TickArms ==
  ASSUME KInv, KInv', TimerCalls, create_tick
  PROVE  TimerCalls' /\ TimersStep
<1>1. regs.pc = "create_tick" /\ UNCHANGED <<tick, mtip, mcause>>
  BY DEF create_tick, At, pending, trapCsr
<1>2. PICK timeout \in Timeouts :
         timer_list' = [timer_list EXCEPT ![regs.i].timeout_tick = (tick + timeout) % TickMod]
  BY DEF create_tick
<1>3. regs'.pc = "create_unlock"
  BY ViewsFacts DEF create_tick, Goto, Context
<1>4. /\ TickView = tick /\ TickView' = tick /\ ListView' = timer_list'
      /\ ListView = TM!Cleared(timer_list, regs.i)
  BY <1>1, <1>3, ViewsFacts DEF Views
<1>5. TimerCalls'
  BY <1>1, <1>3, <1>4 DEF TimerCalls
<1>6. CASE regs.i \in Slots
  <2>1. TM!IsFirstFree(ListView, regs.i) /\ timer_list[regs.i].func = regs.sp
    BY <1>1, <1>6 DEF TimerCalls
  <2>2. regs.sp \in Tasks
    <3>1. InTask
      BY <1>1 DEF InTask, TaskLabels, Locked
    <3> QED
      BY <3>1, WhileInTask
  <2>3. ListView' = TV!Armed(ListView, regs.i, regs.sp, timeout, TickView)
    <3>1. /\ \A j \in Slots : timer_list[j] = [func |-> timer_list[j].func,
                                                timeout_tick |-> timer_list[j].timeout_tick]
          /\ DOMAIN timer_list = Slots
      BY ViewsFacts
    <3>2. timer_list' = [timer_list EXCEPT ![regs.i] =
                           [func |-> regs.sp, timeout_tick |-> (tick + timeout) % TickMod]]
      <4>1. [timer_list[regs.i] EXCEPT !.timeout_tick = (tick + timeout) % TickMod] =
              [func |-> regs.sp, timeout_tick |-> (tick + timeout) % TickMod]
        BY <1>6, <2>1, ViewsFacts
      <4>2. timer_list' = [timer_list EXCEPT ![regs.i] =
              [timer_list[regs.i] EXCEPT !.timeout_tick = (tick + timeout) % TickMod]]
        BY <1>2, Zenon
      <4> QED
        BY <4>1, <4>2
    <3>3. TV!Armed(ListView, regs.i, regs.sp, timeout, tick) =
            [timer_list EXCEPT ![regs.i] =
               [func |-> regs.sp, timeout_tick |-> (tick + timeout) % TickMod]]
      BY <1>4, <1>6, <3>1 DEF TM!Cleared, TV!Armed
    <3> QED
      BY <1>4, <3>2, <3>3
  <2>4. TV!IsFirstFree(ListView, regs.i) /\ regs.i \in TV!Slots
    BY <1>6, <2>1 DEF TM!IsFirstFree, TM!InUse, TM!Slots, TV!IsFirstFree, TV!InUse, TV!Slots, Slots
  <2>5. ~ TV!Full(ListView)
    BY <2>4 DEF TV!IsFirstFree, TV!Full
  <2>6. ListView' \in TV!Created(ListView, regs.sp, timeout, TickView)
    BY <2>3, <2>4, <2>5 DEF TV!Created
  <2>7. TV!timer_create(regs.sp, timeout)
    BY <1>4, <2>6 DEF TV!timer_create
  <2> QED
    BY <1>5, <2>2, <2>7 DEF TimersStep, TV!Next
<1>7. CASE regs.i \notin Slots
  <2>1. ListView' = ListView
    BY <1>2, <1>4, <1>7, ViewsFacts DEF TM!Cleared
  <2> QED
    BY <1>4, <1>5, <2>1 DEF TimersStep
<1> QED
  BY <1>6, <1>7

LEMMA DeleteFrees ==
  ASSUME KInv, KInv', TimerCalls, delete_clear
  PROVE  TimerCalls' /\ TimersStep
<1>1. regs.pc = "delete_clear" /\ UNCHANGED <<tick, mtip, mcause>>
  BY DEF delete_clear, At, pending, trapCsr
<1>2. regs'.pc = "delete_unlock"
  BY ViewsFacts DEF delete_clear, Goto, Context
<1>3. TickView = tick /\ TickView' = tick /\ ListView' = timer_list' /\ ListView = timer_list
  BY <1>1, <1>2, ViewsFacts DEF Views
<1>4. TimerCalls'
  BY <1>1, <1>2, <1>3 DEF TimerCalls
<1>5. CASE UNCHANGED timer_list
  BY <1>3, <1>4, <1>5 DEF TimersStep
<1>6. ASSUME NEW s \in Slots, timer_list' = TM!Cleared(timer_list, s) PROVE TimersStep
  <2>1. TV!timer_delete(s) /\ s \in TV!Slots
    BY <1>3, <1>6 DEF TV!timer_delete, TM!Cleared, TV!Cleared, TV!Slots, Slots
  <2> QED
    BY <2>1 DEF TimersStep, TV!Next
<1> QED
  BY <1>4, <1>5, <1>6 DEF delete_clear
-----------------------------------------------------------------------------
(* The clock of the callers is one behind while the tick is handled.       *)
LEMMA BackByOne ==
  ASSUME NEW m \in Nat \ {0}, NEW t \in 0 .. m - 1
  PROVE  (((t + 1) % m) + m - 1) % m = t
<1>1. CASE t + 1 < m
  <2>1. (t + 1) % m = t + 1
    BY <1>1
  <2>2. ((t + 1) + m - 1) % m = t
    BY <1>1
  <2> QED
    BY <2>1, <2>2
<1>2. CASE t + 1 = m
  <2>1. (t + 1) % m = 0
    BY <1>2
  <2>2. (0 + m - 1) % m = t
    BY <1>2
  <2> QED
    BY <2>1, <2>2
<1> QED
  BY <1>1, <1>2

LEMMA ForwardByOne ==
  ASSUME NEW m \in Nat \ {0}, NEW t \in 0 .. m - 1
  PROVE  (((t + m - 1) % m) + 1) % m = t
<1>1. CASE t = 0
  <2>1. (t + m - 1) % m = m - 1
    BY <1>1
  <2>2. ((m - 1) + 1) % m = 0
    OBVIOUS
  <2> QED
    BY <1>1, <2>1, <2>2
<1>2. CASE t > 0
  <2>1. (t + m - 1) % m = t - 1
    BY <1>2
  <2>2. ((t - 1) + 1) % m = t
    OBVIOUS
  <2> QED
    BY <2>1, <2>2
<1> QED
  BY <1>1, <1>2

(* The tick is counted: it counts for the timers from the check on.        *)
LEMMA CountIsQuiet ==
  ASSUME KInv, KInv', TimerCalls, timer_handler
  PROVE  TimerCalls' /\ UNCHANGED <<TickView, ListView>>
<1>1. /\ regs.pc = "timer_handler" /\ UNCHANGED <<timer_list, mtip, mcause>>
      /\ tick' = (tick + 1) % TickMod
  BY DEF timer_handler, At, pending, trapCsr
<1>2. regs'.pc = "timer_check"
  BY ViewsFacts DEF timer_handler, Goto, Context
<1>3. /\ TickView = tick /\ TickView' = (tick' + TickMod - 1) % TickMod
      /\ ListView' = timer_list /\ ListView = timer_list
  BY <1>1, <1>2, ViewsFacts DEF Views
<1>4. TickView' = TickView
  <2>1. tick \in 0 .. TickMod - 1 /\ TickMod \in Nat \ {0}
    <3>1. TickMod \in Nat \ {0}
      BY ONLY KernelAssumption DEF KernelAssumption
    <3>2. tick \in 0 .. TickMod - 1
      BY ONLY KInv, KInv', ViewsFacts
    <3> QED
      BY <3>1, <3>2
  <2> QED
    BY ONLY <1>1, <1>3, <2>1, BackByOne
<1>5. TimerCalls'
  BY <1>1, <1>2, <1>3, <1>4 DEF TimerCalls
<1> QED
  BY <1>3, <1>4, <1>5

(* timer_check is the tick.                                                *)
LEMMA CheckIsTheTick ==
  ASSUME RegularUse, KInv, KInv', TimerCalls, timer_check
  PROVE  TimerCalls' /\ TimersStep
<1>1. regs.pc = "timer_check" /\ UNCHANGED <<tick, mtip, mcause>>
  BY DEF timer_check, At, pending, trapCsr
<1>2. mtip /\ TickView # MaxTick
  BY <1>1 DEF TimerCalls
<1>3. TickView = (tick + TickMod - 1) % TickMod /\ ListView = timer_list
  BY <1>1, ViewsFacts DEF Views
<1>4. TV!Now = tick
  <2>1. tick \in 0 .. TickMod - 1 /\ TickMod \in Nat \ {0}
    <3>1. TickMod \in Nat \ {0}
      BY ONLY KernelAssumption DEF KernelAssumption
    <3>2. tick \in 0 .. TickMod - 1
      BY ONLY KInv, KInv', ViewsFacts
    <3> QED
      BY <3>1, <3>2
  <2> QED
    BY ONLY <1>3, <2>1, ForwardByOne DEF TV!Now
<1>5. CASE /\ \A s \in Slots : ~ TM!Expired(timer_list, s, tick)
           /\ Goto("timer_load") /\ UNCHANGED timer_list
  <2>1. regs'.pc = "timer_load"
    BY <1>5, ViewsFacts DEF Goto, Context
  <2>2. TickView' = tick /\ ListView' = timer_list
    BY <1>1, <1>5, <2>1, ViewsFacts DEF Views
  <2>3. \A i \in TV!Slots : ~ TV!Expired(ListView, i, TV!Now)
    BY <1>3, <1>4, <1>5 DEF TV!Expired, TM!Expired, TV!InUse, TM!InUse, TV!Slots, Slots
  <2>4. TV!timer_handler
    BY <1>2, <1>3, <1>4, <2>2, <2>3 DEF TV!timer_handler
  <2>5. TimerCalls'
    BY <1>1, <1>2, <2>1, <2>2 DEF TimerCalls
  <2> QED
    BY <2>4, <2>5 DEF TimersStep, TV!Next
<1>6. ASSUME NEW s \in Slots, CheckRuns(s)
      PROVE  TimerCalls' /\ TimersStep
  <2>1. timer_list' = timer_list
    BY <1>6, HandlersOnlyRun
  <2>2. regs'.pc = "timer_clear" /\ regs'.i = s
    <3>1. regs \in Context
      BY ViewsFacts
    <3> QED
      BY ONLY <1>6, <3>1 DEF Context, CheckRuns
  <2>3. TickView' = tick /\ ListView' = TM!Cleared(timer_list, s)
    BY <1>1, <1>6, <2>1, <2>2, ViewsFacts DEF Views
  <2>5. TV!Fire(s)
    <3>1. TV!IsFirstExpired(ListView, s, TV!Now)
      BY <1>3, <1>4, <1>6 DEF CheckRuns, TV!IsFirstExpired, TM!IsFirstExpired, TV!Expired, TM!Expired,
         TV!InUse, TM!InUse, TV!Slots, TM!Slots
    <3>2. ListView' = TV!Cleared(ListView, s)
      BY <1>3, <2>3 DEF TV!Cleared, TM!Cleared
    <3> QED
      BY <3>1, <3>2 DEF TV!Fire
  <2>6. TickView' = TV!Now /\ s \in TV!Slots
    BY <1>4, <2>3 DEF TV!Slots, Slots
  <2>7. TV!timer_handler
    BY <1>2, <2>5, <2>6 DEF TV!timer_handler
  <2>8. TimerCalls'
    BY <1>1, <1>2, <2>2, <2>3 DEF TimerCalls
  <2> QED
    BY <2>7, <2>8 DEF TimersStep, TV!Next
<1> QED
  BY <1>5, <1>6, CheckCases

(* The slot of the handler that has run counted as free already.           *)
LEMMA ClearIsQuiet ==
  ASSUME KInv, KInv', TimerCalls, timer_clear
  PROVE  TimerCalls' /\ UNCHANGED <<TickView, ListView>>
<1>1. /\ regs.pc = "timer_clear" /\ UNCHANGED <<tick, mtip, mcause>>
      /\ timer_list' = TM!Cleared(timer_list, regs.i)
  BY DEF timer_clear, At, pending, trapCsr
<1>2. regs'.pc = "timer_load"
  BY ViewsFacts DEF timer_clear, Goto, Context
<1>3. /\ TickView = tick /\ TickView' = tick
      /\ ListView' = timer_list' /\ ListView = TM!Cleared(timer_list, regs.i)
  BY <1>1, <1>2, ViewsFacts DEF Views
<1>4. TimerCalls'
  BY <1>1, <1>2, <1>3 DEF TimerCalls
<1> QED
  BY <1>1, <1>3, <1>4
-----------------------------------------------------------------------------
LEMMA DevicesAreQuiet ==
  ASSUME KInv, KInv', TimerCalls, TimerExpires \/ CharArrives \/ UNCHANGED vars
  PROVE  TimerCalls' /\ UNCHANGED <<TickView, ListView>>
<1>1. /\ UNCHANGED <<tick, timer_list, regs, mcause>>
      /\ mtip' = mtip \/ (mtip' = TRUE /\ ~ mtip /\ tick # MaxTick)
  BY DEF TimerExpires, CharArrives, vars, pending, timers, trapCsr
<1>2. UNCHANGED <<TickView, ListView>>
  BY <1>1 DEF TickView, ListView
<1>3. ~ mtip => regs.pc # "timer_check"
  BY DEF TimerCalls
<1>4. ~ mtip => TickView = tick
  BY <1>3 DEF TickView
<1>5. (mtip => mtip') /\ (mtip' => mtip \/ TickView # MaxTick)
  BY <1>1, <1>4
<1>6. regs' = regs /\ timer_list' = timer_list /\ TickView' = TickView /\ ListView' = ListView
      /\ mcause' = mcause
  BY <1>1, <1>2
<1>7. TimerCalls'
  BY <1>5, <1>6 DEF TimerCalls
<1> QED
  BY <1>2, <1>7

LEMMA InitIsTimer == Init => TimerCalls /\ TV!Init
<1> SUFFICES ASSUME Init PROVE TimerCalls /\ TV!Init
  OBVIOUS
<1>1. regs.pc = "schedule" /\ mcause = "none" /\ mtip = FALSE /\ TM!Init
  BY DEF Init
<1>2. TimerCalls
  BY <1>1 DEF TimerCalls
<1>3. TickView = 0 /\ timer_list = [i \in Slots |-> [func |-> NULL, timeout_tick |-> 0]]
  BY <1>1 DEF TickView, TM!Init, TM!Slots, TM!FreeSlot, Slots
<1>4. ListView = timer_list
  BY <1>1, <1>3 DEF ListView
<1> QED
  BY <1>2, <1>3, <1>4 DEF TV!Init, TV!Slots, TV!FreeSlot, Slots

(* The kernel implements Timer: the lock and the masking in traps make     *)
(* timer_create, timer_delete and the tick indivisible; every other step   *)
(* leaves both views alone.                                                *)
THEOREM KernelImplementsTimer ==
  ASSUME RegularUse PROVE Spec => ImplementsTimer
<1>1. ASSUME KInv, KInv', TimerCalls, [Next]_vars PROVE TimerCalls' /\ TimersStep
  <2>0. ASSUME UNCHANGED <<TickView, ListView>> PROVE TimersStep
    BY <2>0 DEF TimersStep
  <2>1. CASE TaskStep
    <3>1. CASE create_find \/ create_func
      BY <1>1, <2>0, <3>1, FindIsQuiet, FuncIsQuiet
    <3>2. CASE create_tick \/ delete_clear
      BY <1>1, <3>2, TickArms, DeleteFrees
    <3>3. CASE ~ (create_find \/ create_func \/ create_tick \/ delete_clear)
      BY <1>1, <2>0, <2>1, <3>3, QuietTaskStep DEF TaskStep
    <3> QED
      BY <3>1, <3>2, <3>3
  <2>2. CASE TrapStep
    <3>1. CASE timer_handler \/ timer_clear
      BY <1>1, <2>0, <3>1, CountIsQuiet, ClearIsQuiet
    <3>2. CASE timer_check
      BY <1>1, <3>2, CheckIsTheTick
    <3>3. CASE Panicked
      BY <1>1, <2>0, <3>3, DevicesAreQuiet DEF Panicked
    <3>4. CASE ~ (timer_handler \/ timer_clear \/ timer_check \/ Panicked)
      BY <1>1, <2>0, <2>2, <3>4, QuietTrapStep DEF TrapStep
    <3> QED
      BY <3>1, <3>2, <3>3, <3>4
  <2>3. CASE Exception
    <3>1. /\ InTask /\ UserMode /\ trap_vector(Raises) /\ Raises # "timer"
          /\ regs.pc = "ecall" \/ regs.pc \in CsrCode
      BY <1>1, <2>3, OnlySystemCalls DEF Exception
    <3>2. regs.pc \in Preemptible
      BY <3>1 DEF Preemptible, UserLabels, Locked, CsrCode
    <3> QED
      BY <1>1, <2>0, <3>1, <3>2, QuietTrap
  <2>4. ASSUME NEW cause \in Causes, Interrupt(cause) PROVE TimerCalls' /\ TimersStep
    <3>1. InTask /\ trap_vector(cause)
      BY <1>1, <2>4, WhileInTrap DEF Interrupt
    <3>2. regs.pc \in Preemptible
      BY <1>1, <2>4, <3>1, WhileInTask, LabelSets
         DEF Interrupt, Unmasked, Level, IsTask, Preemptible
    <3>3. cause = "timer" => mtip
      BY <2>4 DEF Interrupt, IsPending
    <3> QED
      BY <1>1, <2>0, <3>1, <3>2, <3>3, QuietTrap
  <2>5. CASE TimerExpires \/ CharArrives \/ UNCHANGED vars
    BY <1>1, <2>0, <2>5, DevicesAreQuiet
  <2> QED
    BY <1>1, <2>1, <2>2, <2>3, <2>4, <2>5 DEF Next, HartStep
<1>2. ASSUME KInv, KInv', TimerCalls, [Next]_vars PROVE TimerCalls'
  BY <1>1, <1>2
<1>3. ASSUME KInv, KInv', TimerCalls, [Next]_vars PROVE [TV!Next]_<<TickView, ListView>>
  BY <1>1, <1>3 DEF TimersStep
<1>4. Spec => []KInv
  BY KernelInvariant
<1> QED
  BY <1>2, <1>3, <1>4, InitIsTimer, PTL DEF Spec, ImplementsTimer, TV!Spec, TV!vars
=============================================================================
