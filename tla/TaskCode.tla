------------------------------ MODULE TaskCode ------------------------------
(***************************************************************************)
(* A task as the kernel sees it: the registers of its context and the way  *)
(* they move when it executes, alone on the hart, its own code and the     *)
(* kernel's API.  Shared by the kernel and by the abstract machine the     *)
(* kernel is to provide.                                                   *)
(*                                                                         *)
(* An address of code is a label, named for the function or statement it   *)
(* stands for: "user" is all code of a task outside the API, "cs" its code *)
(* between spin_lock and spin_unlock.                                      *)
(***************************************************************************)
EXTENDS Integers

CONSTANTS MaxTasks,   \* MAX_TASKS
          MaxTimer,   \* MAX_TIMER
          Calls       \* the API functions the tasks use, by entry label

Tasks == 0 .. MaxTasks - 1
Slots == 0 .. MaxTimer - 1
NoOne == -1           \* no task: a null pointer to a context, the boot stack

(* The statements that run with interrupts disabled by spin_lock.          *)
Locked == {"cs", "create_find", "create_func", "create_tick",
           "create_unlock", "delete_clear", "delete_unlock"}

(* The statements that access a machine-mode CSR: r_mhartid in task_yield, *)
(* r_mstatus and w_mstatus in spin_lock and spin_unlock.                   *)
CsrCode == {"task_yield", "spin_lock", "timer_create", "timer_delete"}

TaskLabels == {"user", "yield_msip", "ecall", "task_create", "new_sp",
               "new_pc", "new_load", "new_store"} \cup CsrCode \cup Locked

KernelLabels == {"trap_handler", "timer_handler", "timer_check",
                 "timer_clear", "timer_load", "schedule", "switch_to",
                 "trap_ret", "panic"}

(* "null" is address 0: the pc of a context nobody filled in.              *)
Labels == TaskLabels \cup KernelLabels \cup {"null"}

Junk == 2             \* a register the trap handler has used for itself
A0   == {-1, 0, 1, Junk}

(* struct context: the stack it runs on, its pc, the argument and result   *)
(* register a0, and one more register i (a7, or a local of a kernel call). *)
Context == [sp : Tasks \cup {NoOne}, pc : Labels, a0 : A0,
            i : 0 .. (MaxTasks + MaxTimer)]

(* A task that is about to execute the first instruction of its routine.   *)
Fresh(t) == [sp |-> t, pc |-> "user", a0 |-> 0, i |-> 0]

(* A context in .bss that nobody has filled in.                            *)
Zeroed == [sp |-> NoOne, pc |-> "null", a0 |-> 0, i |-> 0]

(* The result of the system call whose number is in i: 1 is SYS_gethid,    *)
(* which fails on a null pointer.                                          *)
SyscallResult(r) == IF r.i = 1 /\ r.a0 # 0 THEN 0 ELSE -1

Moves ==
  {<<"user", "user">>, <<"cs", "cs">>, <<"cs", "user">>,
   <<"task_yield", "yield_msip">>, <<"yield_msip", "user">>,
   <<"spin_lock", "cs">>, <<"ecall", "user">>,
   <<"timer_create", "create_find">>, <<"create_find", "create_func">>,
   <<"create_find", "create_unlock">>, <<"create_func", "create_tick">>,
   <<"create_tick", "create_unlock">>, <<"create_unlock", "user">>,
   <<"timer_delete", "delete_clear">>, <<"delete_clear", "delete_unlock">>,
   <<"delete_unlock", "user">>,
   <<"task_create", "user">>, <<"task_create", "new_sp">>,
   <<"new_sp", "new_pc">>, <<"new_pc", "new_load">>,
   <<"new_load", "new_store">>, <<"new_store", "user">>}
  \cup {<<"user", c>> : c \in Calls}

(* The values a step may leave in a0 and in i.                             *)
NextA0(r) ==
  CASE r.pc \in {"user", "cs"} -> {r.a0, 0, 1}
    [] r.pc = "ecall"          -> {SyscallResult(r)}
    [] r.pc = "task_create"    -> {r.a0, -1}
    [] r.pc = "new_store"      -> {0}
    [] OTHER                   -> {r.a0}

NextI(r) ==
  IF r.pc \in {"user", "create_find", "create_unlock", "delete_unlock", "cs",
               "new_load", "new_store"}
  THEN 0 .. (MaxTasks + MaxTimer) ELSE {r.i}

(* The registers a task with registers r may have after its next step.     *)
After(r) == {[sp |-> r.sp, pc |-> label, a0 |-> a, i |-> j] :
               label \in {m[2] : m \in {n \in Moves : n[1] = r.pc}},
               a \in NextA0(r), j \in NextI(r)}
=============================================================================
