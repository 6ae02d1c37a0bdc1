------------------------------ MODULE CoopInv ------------------------------
(***************************************************************************)
(* The inductive invariant of the cooperative kernels: what the hart and   *)
(* the contexts hold at each label of switch_to, as long as no trap has    *)
(* come where there was no context.                                        *)
(***************************************************************************)
EXTENDS CoopProps

Alive(t) == There(t) \in {"READY", "RUNNING"}

(* What task t has of the argument it was given, if it is at the label at. *)
HasArg(t, at, a0, s) ==
  given[t] # NULL => given[t] = IF at = "start" THEN a0 ELSE s[1]

(* A task that waits is in its context.                                    *)
Waits(t) ==
  /\ ctx[t].sp = t
  /\ ctx[t].ra \in {"start", "run"}
  /\ HasArg(t, ctx[t].ra, ctx[t].a0, ctx[t].s)

InContext(t) == regs.sp # t \/ pc \in {"point", "load", "load_rest"}

TasksWait == \A t \in Tasks : Alive(t) /\ InContext(t) => Waits(t)

(* In exercise 9-2 the kernel waits in a context of its own.               *)
KernelRuns  == pc \in {"os_main", "os"} \/ (pc \in {"swap", "save"} /\ regs.sp = OS)
KernelWaits ==
  kernel = "9_2" /\ ~ KernelRuns => ctx[OS].sp = OS /\ ctx[OS].ra = "os"

(* Whom control may be given to.                                           *)
Target(c) ==
  \/ c = OS /\ kernel = "9_2"
  \/ c \in Tasks /\ c = _current /\ Alive(c) /\ (ByPriority => c \in Highest(task_status))

(* A task that executes is current, and has what it was given.             *)
TaskExecutes ==
  /\ _current \in Tasks /\ Alive(_current)
  /\ regs.sp = _current /\ mscratch = _current
  /\ HasArg(_current, pc, regs.a0, regs.s)

(* Outside of tasks and switches.                                          *)
KernelExecutes ==
  /\ pc = "os_main" =>
       /\ regs.sp = OS /\ _current = -1
       /\ mscratch = IF kernel = "9_2" THEN OS ELSE NULL
  /\ pc = "os" => kernel = "9_2" /\ regs.sp = OS /\ mscratch = OS
  /\ pc = "panic" => mscratch = NULL \/ kernel = "9_1"

(* The caller of switch_to is a task that yields or has exited, or the     *)
(* kernel, which stages 04 and 07 and exercise 9-1 leave for good.         *)
CallerSwitches ==
  /\ regs.sp \in Contexts
  /\ regs.sp \in Tasks =>
       /\ Alive(regs.sp)   => regs.ra = "run" /\ HasArg(regs.sp, "run", regs.a0, regs.s)
       /\ ~ Alive(regs.sp) => regs.ra = "exited"
  /\ regs.sp = OS /\ kernel = "9_2" => regs.ra = "os"

(* The context mscratch, or t6, points to on the way.                      *)
Own == IF regs.sp = OS /\ kernel # "9_2" THEN NULL ELSE regs.sp

SwitchGoesOn ==
  /\ pc \in {"swap", "save", "point", "load"} => CallerSwitches
  /\ pc \in {"point", "load"} /\ regs.sp \in Tasks =>
       ctx[regs.sp].ra = regs.ra /\ ctx[regs.sp].s = regs.s
  /\ pc \in {"swap", "save", "point"} => Target(regs.a0)
  /\ pc = "swap" => mscratch = Own
  /\ pc = "save" => regs.t6 = regs.sp
  /\ pc \in {"load", "load_rest"} => Target(regs.t6) /\ mscratch = regs.t6
  /\ pc = "load_rest" => regs.sp = ctx[regs.t6].sp /\ regs.ra = ctx[regs.t6].ra
  /\ pc = "ret" =>
       /\ Target(regs.sp) /\ mscratch = regs.sp
       /\ regs.sp = OS => regs.ra = "os"
       /\ regs.sp \in Tasks =>
            regs.ra \in {"start", "run"} /\ HasArg(regs.sp, regs.ra, regs.a0, regs.s)

Undisturbed ==
  /\ pc \notin {"none", "exited", "end", "derailed"}
  /\ TasksWait /\ KernelWaits /\ KernelExecutes /\ SwitchGoesOn
  /\ InTask => TaskExecutes

(* Whatever happens, switch_to has a context to load from.                 *)
HasTarget ==
  /\ pc \in {"swap", "save", "point"} => regs.a0 \in Contexts
  /\ pc \in {"load", "load_rest"} => regs.t6 \in Contexts

CInv ==
  /\ TypeOK /\ HasTarget
  /\ kernel # "07" => ~ hit
  /\ ~ hit => Undisturbed
=============================================================================
