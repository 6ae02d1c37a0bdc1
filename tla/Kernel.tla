------------------------------- MODULE Kernel -------------------------------
(***************************************************************************)
(* The preemptive kernel on its one hart: trap entry and exit, round-robin *)
(* scheduling, the software interrupt behind task_yield, the interrupt     *)
(* lock, task_create, the software timers and the system call              *)
(* (code/os/11-syscall: entry.S, trap.c, sched.c, lock.c, timer.c,         *)
(* syscall.c).  UserMode = FALSE is the build without CONFIG_SYSCALL,      *)
(* which is the kernel of 10-swtimer.                                      *)
(*                                                                         *)
(* There is one set of registers, regs, and it holds whatever the hart is  *)
(* executing, a task or the kernel; a task that is not executing is its    *)
(* saved context and nothing else.  One step executes one labelled piece   *)
(* of code (module TaskCode); an interrupt can come between any two of     *)
(* them unless the hart masks it.  The system starts where start_kernel    *)
(* calls schedule (kernel.c:32), os_main having created InitTop tasks;     *)
(* interrupts are off until then.                                          *)
(*                                                                         *)
(* An operator x_... that stands right before x is x with a slip a         *)
(* programmer could make: a mutant, against which the properties are       *)
(* tried.  No specification uses it.                                       *)
(***************************************************************************)
EXTENDS TaskCode

CONSTANTS UserMode,     \* CONFIG_SYSCALL: tasks run in U-mode
          InitTop,      \* tasks os_main creates
          Creators,     \* tasks that call task_create while they run
          Sources,      \* subset of {"timer", "external"}: the devices
          Timeouts, TickMod, MaxTick, \* as in module Timer
          NULL,         \* no timer handler
          HandlerCalls  \* subset of {"timer_create", "timer_delete"}: the
                        \* calls timer handlers make, none in the repository

VARIABLES priv,         \* privilege mode, "M" or "U"
          mie, mpie, mpp,         \* the fields of mstatus
          mepc, mcause, mscratch, \* mscratch: whose context it points to
          msip, mtip, meip,       \* pending interrupts
          regs,         \* the registers
          ctx,          \* ctx_tasks
          top, current, \* _top, _current
          tick, timer_list

mstatus == <<priv, mie, mpie, mpp>>
trapCsr == <<mepc, mcause, mscratch>>
pending == <<msip, mtip, meip>>
sched   == <<ctx, top, current>>
timers  == <<tick, timer_list>>
vars == <<mstatus, trapCsr, pending, regs, sched, timers>>

Level == IF UserMode THEN "U" ELSE "M"   \* mstatus.MPP as start.S sets it

TM == INSTANCE Timer WITH Handlers <- Tasks, BehindIsNull <- BOOLEAN

ASSUME KernelAssumption ==
  /\ MaxTasks \in Nat \ {0} /\ MaxTimer \in Nat \ {0}
  /\ InitTop \in 1 .. MaxTasks
  /\ UserMode \in BOOLEAN
  /\ HandlerCalls \subseteq {"timer_create", "timer_delete"}
  /\ Sources \subseteq {"timer", "external"}
  /\ Calls \subseteq {"task_yield", "spin_lock", "timer_create",
                      "timer_delete", "task_create", "ecall"}
  /\ "ecall" \in Calls => UserMode
  /\ NULL \notin Tasks
  /\ Timeouts \subseteq Nat \ {0} /\ TickMod \in Nat \ {0}

(* What task_create has left in ctx_tasks for the tasks of os_main; the    *)
(* other contexts are still zero.                                          *)
Init ==
  /\ priv = "M" /\ mie = FALSE
  /\ mpie = ~ UserMode /\ mpp = Level
  /\ mepc = "null" /\ mcause = "none" /\ mscratch = NoOne
  /\ msip = FALSE /\ mtip = FALSE /\ meip = FALSE
  /\ regs = [sp |-> NoOne, pc |-> "schedule", a0 |-> Junk, i |-> 0]
  /\ ctx = [t \in Tasks |-> IF t < InitTop THEN Fresh(t) ELSE Zeroed]
  /\ top = InitTop /\ current = -1
  /\ TM!Init
-----------------------------------------------------------------------------
Goto(label) == regs' = [regs EXCEPT !.pc = label]

(* mret: interrupts as they were before the trap, execution at mepc.       *)
Mret ==
  /\ mie' = mpie /\ mpie' = TRUE
  /\ priv' = mpp /\ mpp' = "U"

(* The macros of entry.S between the registers and a context.  A macro     *)
(* that misses a register is the mutant.                                   *)
reg_save_missing_a0 == [regs EXCEPT !.a0 = Junk]
reg_save == regs
reg_restore(t) == ctx[t]

(* The hart's response to a trap, and trap_vector up to the call of        *)
(* trap_handler: the registers go to the context mscratch points to.       *)
(* Interrupts are masked all through, so the whole is one step.  The       *)
(* handler runs on the stack of the task it interrupted.                   *)
trap_vector(cause) ==
  /\ ctx' = [ctx EXCEPT ![mscratch] = reg_save]
  /\ mepc' = regs.pc /\ mcause' = cause
  /\ mpie' = mie /\ mie' = FALSE
  /\ mpp' = priv /\ priv' = "M"
  /\ regs' = [regs EXCEPT !.pc = "trap_handler", !.a0 = Junk, !.i = 0]
  /\ UNCHANGED <<mscratch, pending, top, current, timers>>

(* Interrupts of M-mode are enabled in U-mode whatever mstatus.MIE says.   *)
Unmasked == priv = "U" \/ mie

IsPending(cause) == \/ cause = "software" /\ msip
                    \/ cause = "timer" /\ mtip
                    \/ cause = "external" /\ meip

(* Which of several pending interrupts is taken is left open: the store    *)
(* that sets MSIP may take effect after another interrupt is seen.         *)
Interrupt(cause) == Unmasked /\ IsPending(cause) /\ trap_vector(cause)

(* The exceptions code can raise: a system call, a machine-mode CSR        *)
(* accessed in U-mode, a jump to address 0.                                *)
Raises == IF regs.pc = "ecall" THEN "ecall"
          ELSE IF priv = "U" /\ regs.pc \in CsrCode THEN "illegal"
          ELSE IF regs.pc = "null" THEN "fault" ELSE "none"

Exception == Raises # "none" /\ trap_vector(Raises)

(* mtime reaches mtimecmp (CLINT); a character arrives (UART, PLIC).       *)
TimerExpires ==
  /\ "timer" \in Sources /\ ~ mtip /\ tick # MaxTick
  /\ mtip' = TRUE
  /\ UNCHANGED <<mstatus, trapCsr, msip, meip, regs, sched, timers>>

CharArrives ==
  /\ "external" \in Sources /\ ~ meip
  /\ meip' = TRUE
  /\ UNCHANGED <<mstatus, trapCsr, msip, mtip, regs, sched, timers>>
-----------------------------------------------------------------------------
(* The code of the running task.                                           *)
At(label) == regs.pc = label /\ Raises = "none"

Compute ==
  /\ At("user") \/ At("cs")
  /\ \E v \in {0, 1} : regs' = [regs EXCEPT !.a0 = v]
  /\ UNCHANGED <<mstatus, trapCsr, pending, sched, timers>>

(* The task calls a function of the API; a system call has its number in   *)
(* a7.                                                                     *)
Call ==
  /\ At("user")
  /\ \E c \in Calls, a7 \in {0, 1} :
        /\ c = "task_create" => regs.sp \in Creators
        /\ c # "ecall" => a7 = 0
        /\ regs' = [regs EXCEPT !.pc = c, !.i = a7]
  /\ UNCHANGED <<mstatus, trapCsr, pending, sched, timers>>

(* task_yield: read mhartid, then raise the software interrupt.            *)
task_yield ==
  /\ At("task_yield") /\ Goto("yield_msip")
  /\ UNCHANGED <<mstatus, trapCsr, pending, sched, timers>>

yield_msip_not_raised ==
  /\ At("yield_msip") /\ Goto("user")
  /\ UNCHANGED <<mstatus, trapCsr, pending, sched, timers>>

yield_msip ==
  /\ At("yield_msip") /\ Goto("user")
  /\ msip' = TRUE
  /\ UNCHANGED <<mstatus, trapCsr, mtip, meip, sched, timers>>

(* The two halves of every lock-protected call.                            *)
spin_lock_left_open(from, to) ==
  /\ At(from) /\ Goto(to)
  /\ UNCHANGED <<mstatus, trapCsr, pending, sched, timers>>

spin_lock(from, to) ==
  /\ At(from) /\ Goto(to)
  /\ mie' = FALSE
  /\ UNCHANGED <<priv, mpie, mpp, trapCsr, pending, sched, timers>>

spin_unlock(from) ==
  /\ At(from) /\ regs' = [regs EXCEPT !.pc = "user", !.i = 0]
  /\ mie' = TRUE
  /\ UNCHANGED <<priv, mpie, mpp, trapCsr, pending, sched, timers>>

(* timer_create between its lock and unlock: find a slot, fill it.  When   *)
(* the table is full it may take the memory behind it, "slot" MaxTimer,    *)
(* for a slot and write there (see Timer); timer_list does not change.     *)
create_find ==
  /\ At("create_find")
  /\ \/ /\ TM!Full(timer_list)
        /\ \/ Goto("create_unlock")
           \/ regs' = [regs EXCEPT !.pc = "create_func", !.i = MaxTimer]
     \/ \E s \in Slots :
          /\ TM!IsFirstFree(timer_list, s)
          /\ regs' = [regs EXCEPT !.pc = "create_func", !.i = s]
  /\ UNCHANGED <<mstatus, trapCsr, pending, sched, timers>>

create_func ==
  /\ At("create_func") /\ Goto("create_tick")
  /\ timer_list' = [timer_list EXCEPT ![regs.i].func = regs.sp]
  /\ UNCHANGED <<mstatus, trapCsr, pending, sched, tick>>

create_tick ==
  /\ At("create_tick") /\ Goto("create_unlock")
  /\ \E timeout \in Timeouts :
       timer_list' = [timer_list EXCEPT
                        ![regs.i].timeout_tick = (tick + timeout) % TickMod]
  /\ UNCHANGED <<mstatus, trapCsr, pending, sched, tick>>

(* timer_delete: a pointer that matches no slot deletes nothing.           *)
delete_clear ==
  /\ At("delete_clear") /\ Goto("delete_unlock")
  /\ \/ \E s \in Slots : timer_list' = TM!Cleared(timer_list, s)
     \/ UNCHANGED timer_list
  /\ UNCHANGED <<mstatus, trapCsr, pending, sched, tick>>

(* task_create, one statement at a time: it takes no lock.                 *)
task_create ==
  /\ At("task_create")
  /\ regs' = IF top < MaxTasks THEN [regs EXCEPT !.pc = "new_sp"]
             ELSE [regs EXCEPT !.pc = "user", !.a0 = -1]
  /\ UNCHANGED <<mstatus, trapCsr, pending, sched, timers>>

new_sp_without_pc ==
  /\ At("new_sp") /\ Goto("new_load")
  /\ ctx' = [ctx EXCEPT ![top].sp = top]
  /\ UNCHANGED <<mstatus, trapCsr, pending, top, current, timers>>

new_sp ==
  /\ At("new_sp") /\ Goto("new_pc")
  /\ ctx' = [ctx EXCEPT ![top].sp = top]
  /\ UNCHANGED <<mstatus, trapCsr, pending, top, current, timers>>

new_pc ==
  /\ At("new_pc") /\ Goto("new_load")
  /\ ctx' = [ctx EXCEPT ![top].pc = "user"]
  /\ UNCHANGED <<mstatus, trapCsr, pending, top, current, timers>>

new_load ==
  /\ At("new_load")
  /\ regs' = [regs EXCEPT !.pc = "new_store", !.i = top]
  /\ UNCHANGED <<mstatus, trapCsr, pending, sched, timers>>

new_store ==
  /\ At("new_store")
  /\ regs' = [regs EXCEPT !.pc = "user", !.a0 = 0, !.i = 0]
  /\ top' = regs.i + 1
  /\ UNCHANGED <<mstatus, trapCsr, pending, ctx, current, timers>>

TaskStep ==
  \/ Compute \/ Call
  \/ task_yield \/ yield_msip
  \/ spin_lock("spin_lock", "cs") \/ spin_unlock("cs")
  \/ spin_lock("timer_create", "create_find")
  \/ create_find \/ create_func \/ create_tick \/ spin_unlock("create_unlock")
  \/ spin_lock("timer_delete", "delete_clear")
  \/ delete_clear \/ spin_unlock("delete_unlock")
  \/ task_create \/ new_sp \/ new_pc \/ new_load \/ new_store
-----------------------------------------------------------------------------
(* The code of the trap handler.                                           *)

(* Software interrupt: acknowledge, schedule.                              *)
SoftwareTrap ==
  /\ At("trap_handler") /\ mcause = "software" /\ Goto("schedule")
  /\ msip' = FALSE
  /\ UNCHANGED <<mstatus, trapCsr, mtip, meip, sched, timers>>

TimerTrap ==
  /\ At("trap_handler") /\ mcause = "timer" /\ Goto("timer_handler")
  /\ UNCHANGED <<mstatus, trapCsr, pending, sched, timers>>

(* external_interrupt_handler claims, empties the UART and completes.      *)
ExternalTrap ==
  /\ At("trap_handler") /\ mcause = "external" /\ Goto("trap_ret")
  /\ meip' = FALSE
  /\ UNCHANGED <<mstatus, trapCsr, msip, mtip, sched, timers>>

(* do_syscall works on the saved context; the trap returns behind ecall.   *)
do_syscall_returns_to_ecall ==
  /\ At("trap_handler") /\ mcause = "ecall" /\ Goto("trap_ret")
  /\ ctx' = [ctx EXCEPT ![mscratch].a0 = SyscallResult(ctx[mscratch])]
  /\ UNCHANGED <<mstatus, trapCsr, pending, top, current, timers>>

do_syscall ==
  /\ At("trap_handler") /\ mcause = "ecall" /\ Goto("trap_ret")
  /\ ctx' = [ctx EXCEPT ![mscratch].a0 = SyscallResult(ctx[mscratch])]
  /\ mepc' = "user"
  /\ UNCHANGED <<mstatus, mcause, mscratch, pending, top, current, timers>>

(* Any other exception: panic, which never returns.                        *)
OtherTrap_takes_ecall ==
  /\ At("trap_handler") /\ mcause \in {"ecall", "illegal", "fault"} /\ Goto("panic")
  /\ UNCHANGED <<mstatus, trapCsr, pending, sched, timers>>

OtherTrap ==
  /\ At("trap_handler") /\ mcause \in {"illegal", "fault"} /\ Goto("panic")
  /\ UNCHANGED <<mstatus, trapCsr, pending, sched, timers>>

Panicked == At("panic") /\ UNCHANGED vars

timer_handler ==
  /\ At("timer_handler") /\ Goto("timer_check")
  /\ tick' = (tick + 1) % TickMod
  /\ UNCHANGED <<mstatus, trapCsr, pending, sched, timer_list>>

(* The timer list after the call a handler makes.                          *)
HandlerLists ==
  UNION {TM!Created(timer_list, h, timeout, tick) :
           h \in {t \in Tasks : "timer_create" \in HandlerCalls}, timeout \in Timeouts}
  \cup {TM!Cleared(timer_list, s) : s \in {i \in Slots : "timer_delete" \in HandlerCalls}}

(* timer_check finds the first expired slot, and its handler runs.  One    *)
(* that calls timer_create or timer_delete leaves spin_unlock with MIE     *)
(* set, and the tick it runs in is still pending: from "timer_clear" on it *)
(* can be interrupted.                                                     *)
timer_check ==
  /\ At("timer_check")
  /\ \/ /\ \A s \in Slots : ~ TM!Expired(timer_list, s, tick)
        /\ Goto("timer_load")
        /\ UNCHANGED <<mie, timer_list>>
     \/ \E s \in Slots, run \in {<<timer_list, mie>>} \cup (HandlerLists \X {TRUE}) :
          /\ TM!IsFirstExpired(timer_list, s, tick)
          /\ regs' = [regs EXCEPT !.pc = "timer_clear", !.i = s]
          /\ timer_list' = run[1] /\ mie' = run[2]
  /\ UNCHANGED <<priv, mpie, mpp, trapCsr, pending, sched, tick>>

timer_clear_forgotten ==
  /\ At("timer_clear") /\ Goto("timer_load")
  /\ UNCHANGED <<mstatus, trapCsr, pending, sched, timers>>

timer_clear ==
  /\ At("timer_clear") /\ Goto("timer_load")
  /\ timer_list' = TM!Cleared(timer_list, regs.i)
  /\ UNCHANGED <<mstatus, trapCsr, pending, sched, tick>>

(* timer_load: moving mtimecmp ahead withdraws the interrupt.              *)
timer_load_without_schedule ==
  /\ At("timer_load") /\ Goto("trap_ret")
  /\ mtip' = FALSE
  /\ UNCHANGED <<mstatus, trapCsr, msip, meip, sched, timers>>

timer_load ==
  /\ At("timer_load") /\ Goto("schedule")
  /\ mtip' = FALSE
  /\ UNCHANGED <<mstatus, trapCsr, msip, meip, sched, timers>>

NextTask == (current + 1) % top

schedule ==
  /\ At("schedule")
  /\ IF top <= 0 THEN Goto("panic") /\ UNCHANGED current
     ELSE Goto("switch_to") /\ current' = NextTask
  /\ UNCHANGED <<mstatus, trapCsr, pending, ctx, top, timers>>

(* switch_to never returns to its caller.                                  *)
switch_to_without_mscratch ==
  /\ At("switch_to")
  /\ mscratch' = IF mscratch = NoOne THEN current ELSE mscratch
  /\ mepc' = ctx[current].pc
  /\ regs' = reg_restore(current)
  /\ Mret
  /\ UNCHANGED <<mcause, pending, sched, timers>>

switch_to ==
  /\ At("switch_to")
  /\ mscratch' = current
  /\ mepc' = ctx[current].pc
  /\ regs' = reg_restore(current)
  /\ Mret
  /\ UNCHANGED <<mcause, pending, sched, timers>>

(* trap_vector behind the call of trap_handler.                            *)
trap_ret ==
  /\ At("trap_ret")
  /\ regs' = [reg_restore(mscratch) EXCEPT !.pc = mepc]
  /\ Mret
  /\ UNCHANGED <<trapCsr, pending, sched, timers>>

TrapStep ==
  \/ SoftwareTrap \/ TimerTrap \/ ExternalTrap \/ do_syscall \/ OtherTrap
  \/ Panicked \/ timer_handler \/ timer_check \/ timer_clear \/ timer_load
  \/ schedule \/ switch_to \/ trap_ret

(* What the hart does by itself.                                           *)
HartStep == TaskStep \/ TrapStep \/ Exception

Causes == {"software", "timer", "external"}

Next ==
  \/ HartStep
  \/ \E cause \in Causes : Interrupt(cause)
  \/ TimerExpires \/ CharArrives

Spec == Init /\ [][Next]_vars
-----------------------------------------------------------------------------
(* Fairness.  The hart goes on executing; an interrupt that is unmasked    *)
(* again and again while it is pending is taken (the hart looks for        *)
(* pending interrupts after every mret and CSR write); a task does not     *)
(* stay between spin_lock and spin_unlock for ever.                        *)
HartFairness ==
  /\ WF_vars(HartStep)
  /\ \A cause \in Causes : SF_vars(Interrupt(cause))
  /\ SF_vars(spin_unlock("cs"))

LiveSpec == Spec /\ HartFairness

(* The clock goes on.                                                      *)
ClockFairness == WF_vars(TimerExpires)
-----------------------------------------------------------------------------
Created == 0 .. top - 1

TypeOK ==
  /\ priv \in {"M", "U"} /\ mie \in BOOLEAN /\ mpie \in BOOLEAN
  /\ mpp \in {"M", "U"}
  /\ mepc \in Labels /\ mscratch \in Tasks \cup {NoOne}
  /\ mcause \in Causes \cup {"ecall", "illegal", "fault", "none"}
  /\ msip \in BOOLEAN /\ mtip \in BOOLEAN /\ meip \in BOOLEAN
  /\ regs \in Context /\ ctx \in [Tasks -> Context]
  /\ top \in 1 .. MaxTasks /\ current \in -1 .. MaxTasks - 1
  /\ tick \in 0 .. TickMod - 1
  /\ timer_list \in [Slots -> [func : Tasks \cup {NULL}, timeout_tick : 0 .. TickMod - 1]]

(* Whenever a trap can come, mscratch points to the context of the task    *)
(* that is executing, and that task is _current (entry.S:84): the save     *)
(* that trap_vector starts with cannot hit another task's context.         *)
ScratchIsCurrent ==
  Unmasked => /\ regs.pc \in TaskLabels
              /\ mscratch = current /\ regs.sp = current

(* The registers of task t, wherever they are: in the hart while it        *)
(* executes, in its context otherwise.  While a trap is about to return    *)
(* its pc is already in mepc.  A context that task_create is still filling *)
(* in does not count.                                                      *)
Registers(t) ==
  IF t >= top THEN Fresh(t)
  ELSE IF regs.sp = t /\ regs.pc \in TaskLabels THEN regs
  ELSE IF regs.pc = "trap_ret" /\ mscratch = t THEN [ctx[t] EXCEPT !.pc = mepc]
  ELSE ctx[t]

(* No two tasks are between spin_lock and spin_unlock, whether they are    *)
(* executing or preempted there.                                           *)
LockExcludes ==
  \A t, u \in Created :
     Registers(t).pc \in Locked /\ Registers(u).pc \in Locked => t = u

(* Every task below _top has a stack of its own and code to execute.       *)
CreatedTasksAreSetUp ==
  \A t \in Created : Registers(t).sp = t /\ Registers(t).pc \in TaskLabels

NoPanic == regs.pc # "panic"

(* In the CONFIG_SYSCALL build the system goes down only when a task calls *)
(* a function of the API that touches a machine-mode CSR: nothing else a   *)
(* task does, and no interrupt, brings it down.                            *)
PanicOnlyFromCsr ==
  regs.pc = "panic" => /\ UserMode /\ mcause = "illegal"
                       /\ ctx[current].pc \in CsrCode

(* The kernel gives each task a processor of its own: a step of the hart   *)
(* is a step of one task's code or is invisible to all tasks.              *)
Local == [t \in Tasks |-> Registers(t)]
VC == INSTANCE VirtualCpus WITH local <- Local
ImplementsVirtualCpus == VC!Spec

(* The interrupt lock and the masking in traps make the timer calls and    *)
(* the tick indivisible: the slot a timer_create is still filling in       *)
(* counts as free, the slot whose handler has run counts as freed, and     *)
(* the tick counts from the check on.                                      *)
TickView == IF regs.pc = "timer_check" THEN (tick + TickMod - 1) % TickMod ELSE tick
ListView ==
  [i \in Slots |->
     IF regs.pc \in {"create_tick", "timer_clear"} /\ regs.i = i
     THEN [timer_list[i] EXCEPT !.func = NULL] ELSE timer_list[i]]
TV == INSTANCE Timer WITH tick <- TickView, timer_list <- ListView,
        Handlers <- Tasks, BehindIsNull <- BOOLEAN
ImplementsTimer == TV!Spec

(* timer_check frees the slot whose timer has fired (timer.c:99), and not  *)
(* a timer created there since.  It needs interrupts to be off in all      *)
(* of timer_check (timer.c:89): a handler that calls timer_create or       *)
(* timer_delete has enabled them, and a task it let in is later resumed    *)
(* in the middle of timer_check.                                           *)
ClearsWhatFired ==
  regs.pc = "timer_clear" /\ TM!InUse(timer_list, regs.i)
    => TM!Expired(timer_list, regs.i, tick)

(* task_yield gives up the hart (sched.c:65): whatever the clock does, the *)
(* software interrupt it raises is taken and another task gets to run.     *)
YieldRelinquishes ==
  \A t \in Tasks : (regs.sp = t /\ regs.pc = "task_yield") ~> (current # t)

(* A schedule that passes over a task picks one nearer in turn, and so at  *)
(* most MaxTasks of them do, whatever tasks are created meanwhile; nothing *)
(* but schedule changes whose turn it is.                                  *)
Distance(c, t) == IF t > c THEN t - c ELSE t - c + MaxTasks

TurnsComeNearer ==
  [][IF schedule
     THEN \A t \in Created :
            current' = t \/ Distance(current', t) < Distance(current, t)
     ELSE UNCHANGED current]_vars

(* Hence every task is given the hart again and again, if the clock goes   *)
(* on: no task can keep the hart by never yielding.                        *)
EveryTaskRuns ==
  /\ TurnsComeNearer
  /\ ClockFairness =>
       \A t \in Tasks : t < InitTop => []<>(regs.sp = t /\ regs.pc \in TaskLabels)
=============================================================================
