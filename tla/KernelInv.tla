----------------------------- MODULE KernelInv -----------------------------
(***************************************************************************)
(* The inductive invariant behind the safety properties of module Kernel.  *)
(* It holds of the systems the code is written for: timer handlers leave   *)
(* the timer calls to the tasks, and at most one task calls task_create at *)
(* run time.                                                               *)
(***************************************************************************)
EXTENDS Kernel

RegularUse ==
  /\ HandlerCalls = {}
  /\ \A c, d \in Creators : c = d

(* In the CONFIG_SYSCALL build tasks keep to what works in U-mode.         *)
NoCsrCalls == UserMode => Calls \cap CsrCode = {}

InTask == regs.pc \in TaskLabels

NewCode == {"task_create", "new_sp", "new_pc", "new_load", "new_store"}

(* Where a task of the CONFIG_SYSCALL build can be: it never gets past the *)
(* first access to a CSR.                                                  *)
UserLabels == {"user", "ecall"} \cup NewCode \cup CsrCode

(* The labels a task can be interrupted at.                                *)
Preemptible == (IF UserMode THEN UserLabels ELSE TaskLabels) \ Locked

(* r is a state of task t; if t is creating a task, the context at _top is *)
(* filled in as far as t has got.                                          *)
IsTask(r, t) ==
  /\ r.sp = t
  /\ r.pc \in (IF UserMode THEN UserLabels ELSE TaskLabels \ {"ecall"})
  /\ r.pc \in CsrCode => r.pc \in Calls
  /\ r.pc \in NewCode => t \in Creators
  /\ r.pc \in NewCode \ {"task_create"} => top < MaxTasks
  /\ r.pc \in {"new_pc", "new_load", "new_store"} => ctx[top].sp = top
  /\ r.pc \in {"new_load", "new_store"} => ctx[top].pc = "user"
  /\ r.pc = "new_store" => r.i = top

(* While a task executes it is _current, at its own level and mscratch     *)
(* points to its context; in M-mode interrupts are enabled exactly outside *)
(* of the locked sections.                                                 *)
TaskOnHart ==
  InTask => /\ priv = Level /\ (UserMode \/ (mie <=> regs.pc \notin Locked))
            /\ current \in Created /\ mscratch = current
            /\ IsTask(regs, current)

(* While the kernel executes interrupts are masked and mstatus is such     *)
(* that mret returns to a task with interrupts enabled.                    *)
TrapOnHart ==
  ~ InTask => /\ regs.pc \in KernelLabels
              /\ priv = "M" /\ ~ mie /\ mpp = Level /\ (UserMode \/ mpie)
              /\ regs.pc \notin {"schedule", "switch_to"} =>
                   current \in Created /\ mscratch = current
              /\ regs.pc = "switch_to" => current \in Created
              /\ regs.pc = "schedule" => current = -1 \/ current \in Created

(* Every task that does not execute is in its context, outside of the      *)
(* locked sections.                                                        *)
Saved ==
  \A t \in Created : ~ (InTask /\ current = t) =>
                       IsTask(ctx[t], t) /\ ctx[t].pc \in Preemptible

(* The interrupted task accessed a machine-mode CSR in U-mode.             *)
IllegalCsr == UserMode /\ ctx[mscratch].pc \in CsrCode

(* The trap being handled: what trap_vector recorded of it.                *)
Trapped ==
  /\ regs.pc = "trap_handler" =>
       /\ mcause \in Causes \cup {"ecall", "illegal"}
       /\ mcause = "ecall" => ctx[mscratch].pc = "ecall"
       /\ mcause = "illegal" => IllegalCsr
       /\ mepc = ctx[mscratch].pc
  /\ regs.pc = "trap_ret" =>
       \/ mepc = ctx[mscratch].pc /\ mcause # "ecall"
       \/ mepc = "user" /\ ctx[mscratch].pc = "ecall"
  /\ regs.pc = "panic" => mcause = "illegal" /\ IllegalCsr

(* A context nobody has used yet is still zero but for sp and pc.          *)
UnusedIsZero == \A t \in Tasks : t >= top => ctx[t].a0 = 0 /\ ctx[t].i = 0

KInv == TypeOK /\ TaskOnHart /\ TrapOnHart /\ Saved /\ Trapped /\ UnusedIsZero

(* The slot timer_create fills was found free and is so until it is filled *)
(* in; a tick is handled only after the clock has asked for it.            *)
TimerCalls ==
  /\ regs.pc \in {"create_func", "create_tick"} /\ regs.i \in Slots =>
       TM!IsFirstFree(ListView, regs.i)
  /\ regs.pc = "create_tick" /\ regs.i \in Slots => timer_list[regs.i].func = regs.sp
  /\ \/ regs.pc \in {"timer_handler", "timer_check", "timer_clear", "timer_load"}
     \/ regs.pc = "trap_handler" /\ mcause = "timer"
     => mtip
  /\ mtip /\ regs.pc \notin {"timer_clear", "timer_load"} => TickView # MaxTick
=============================================================================
