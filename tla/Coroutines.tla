----------------------------- MODULE Coroutines -----------------------------
(***************************************************************************)
(* What a cooperative kernel promises its tasks: each is a thread of       *)
(* control of its own, which only its own steps advance; control moves     *)
(* between them and the kernel without touching what they hold.            *)
(* Nothing is promised once the kernel has broken down.                    *)
(***************************************************************************)
EXTENDS Integers

CONSTANTS Task, Kernel,
          Arg, NoArg  \* arguments, and the one that stands for none

VARIABLES running,    \* whose code the hart executes
          thread,     \* how far each task is: what it holds
          given,      \* the argument each task was created with
          broken      \* the kernel has broken down

None       == [at |-> "none"]
New(a)     == [at |-> "new", arg |-> a]
Live(a, n) == [at |-> "live", arg |-> a, n |-> n]
Gone       == [at |-> "gone"]
Threads    == {None, Gone} \cup {New(a) : a \in Arg} \cup {Live(a, n) : a \in Arg, n \in {0, 1}}

Init == running = Kernel /\ thread = [t \in Task |-> None]
        /\ given = [t \in Task |-> NoArg] /\ broken = FALSE

Goes(t, th) == thread' = [thread EXCEPT ![t] = th]

(* The task that runs takes its argument, does something, or ends.         *)
Run ==
  /\ running \in Task
  /\ \/ \E a \in Arg : thread[running] = New(a) /\ Goes(running, Live(a, 0))
     \/ \E a \in Arg, n \in {0, 1} :
          thread[running] = Live(a, n) /\ Goes(running, Live(a, 1 - n))
     \/ thread[running].at = "live" /\ Goes(running, Gone)
  /\ UNCHANGED <<running, given>>

(* A task comes into being where there is none, or none any more.  It has  *)
(* the argument it was given; if that is none, it may have any.            *)
Create ==
  /\ \E t \in Task, a, g \in Arg :
       /\ thread[t] \in {None, Gone}
       /\ g # NoArg => a = g
       /\ given' = [given EXCEPT ![t] = g]
       /\ Goes(t, New(a))
  /\ UNCHANGED running

(* Control goes to a task that is alive, or to the kernel.                 *)
Transfer ==
  /\ running' = Kernel \/ (running' \in Task /\ thread[running'].at \in {"new", "live"})
  /\ UNCHANGED <<thread, given>>

Next == broken' \/ (~ broken' /\ ~ broken /\ (Run \/ Create \/ Transfer))

Spec == Init /\ [][Next]_<<running, thread, given, broken>>
=============================================================================
