----------------------------- MODULE CoopProps -----------------------------
(***************************************************************************)
(* What the cooperative kernels should do for their tasks.  In stages 05   *)
(* to 07 it depends on no trap coming while switch_to is between two       *)
(* contexts, or before there is a first one (hit).                         *)
(***************************************************************************)
EXTENDS Coop

Words    == Contexts \cup Params \cup {Junk}
Labels   == {"none", "os_main", "os", "start", "run", "exited", "end"}
Codes    == Labels \cup {"swap", "save", "point", "load", "load_rest", "ret",
                         "panic", "derailed"}
Register == [ra : Labels, sp : Contexts \cup {NULL}, s : Words \X {0, 1},
             a0 : Words, t6 : Words]

TypeOK ==
  /\ kernel \in Kernels
  /\ _top \in 0 .. MaxTasks /\ _current \in -1 .. MaxTasks - 1
  /\ task_status \in [Tasks -> {"EMPTY", "READY", "RUNNING", "EXITED"}]
  /\ task_priorities \in [Tasks -> 0 .. 255]
  /\ ctx \in [Contexts -> Register] /\ mscratch \in Words
  /\ regs \in Register /\ pc \in Codes
  /\ given \in [Tasks -> Params] /\ hit \in BOOLEAN

InTask == pc \in {"start", "run"}

(* While a task executes, the kernel takes it for the current one, and     *)
(* mscratch points to its context, where a trap may save.                  *)
CurrentExecutes ==
  ~ hit /\ InTask => regs.sp = _current /\ mscratch = _current

(* task_exit never returns, schedule never returns to start_kernel, and    *)
(* nothing that has not been created is executed: each is a label that ret *)
(* would have to find in ra.                                               *)
NeverReturns == ~ hit => pc \notin {"exited", "end", "none"}

(* A task that has just been switched to has the highest priority there    *)
(* is: who could change that does not run (exercises 9-1 and 9-2).         *)
HighestIsResumed ==
  ByPriority /\ pc = "ret" /\ regs.sp # OS => regs.sp \in Highest(task_status)

(* A task has the argument it was created with.  Only of one other than   *)
(* NULL is that true (it is part of ImplementsCoroutines): otherwise a0 is *)
(* what the context's last owner has left (ex_9_1/sched.c:109).            *)
ArgArrives ==
  ~ hit /\ pc = "run" => regs.s[1] = given[regs.sp]

(* In stage 07 all of it would have to hold whenever traps come.           *)
TrapsAreHarmless == pc # "derailed" /\ (InTask => regs.sp = _current)

(* Every task that is there, or by priority: that is of the highest, takes *)
(* its turns for ever.                                                     *)
Entitled(t) == IF ByPriority THEN t \in Highest(task_status) ELSE t < _top

(* A schedule that passes over such a task picks one nearer in turn, and   *)
(* so at most MaxTasks of them do; nothing else changes whose turn it is.  *)
Distance(c, t) == IF t > c THEN t - c ELSE t - c + MaxTasks

Schedules == start_kernel \/ (kernel # "9_2" /\ (task_yield \/ task_exit))

TurnsComeNearer ==
  [][IF Schedules
     THEN \A t \in Tasks :
            Entitled(t)' => _current' = t \/ Distance(_current', t) < Distance(_current, t)
     ELSE UNCHANGED _current]_vars

EveryoneTakesTurns ==
  /\ TurnsComeNearer
  /\ \A t \in Tasks : []<>(Entitled(t) => hit \/ (InTask /\ regs.sp = t))
-----------------------------------------------------------------------------
(* Each kernel implements coroutines.  What a task holds is in the         *)
(* registers while they are its own, and else in its context.              *)
There(t) ==
  IF ByPriority THEN task_status[t] ELSE IF t < _top THEN "READY" ELSE "EMPTY"

ThreadOf(at, a0, s) ==
  IF at = "start" THEN [at |-> "new", arg |-> a0] ELSE [at |-> "live", arg |-> s[1], n |-> s[2]]

Thread(t) ==
  CASE There(t) = "EMPTY"  -> [at |-> "none"]
    [] There(t) = "EXITED" -> [at |-> "gone"]
    [] OTHER ->
         IF regs.sp = t /\ pc # "load_rest"
         THEN ThreadOf(IF pc = "ret" THEN regs.ra ELSE pc, regs.a0, regs.s)
         ELSE ThreadOf(ctx[t].ra, ctx[t].a0, ctx[t].s)

Abstract == INSTANCE Coroutines
  WITH Task    <- Tasks, Kernel <- OS, Arg <- Words, NoArg <- NULL,
       running <- regs.sp, broken <- hit,
       thread  <- IF hit THEN [t \in Tasks |-> [at |-> "none"]]
                  ELSE [t \in Tasks |-> Thread(t)]

ImplementsCoroutines == Abstract!Spec
=============================================================================
