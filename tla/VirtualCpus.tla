---------------------------- MODULE VirtualCpus ----------------------------
(***************************************************************************)
(* What the kernel promises its tasks: each runs as if it had a processor  *)
(* of its own.  A step of a task moves that task's registers the way its   *)
(* code says and touches no other task's; the switches between tasks do    *)
(* not show.  While a task is between spin_lock and spin_unlock no other   *)
(* task moves.                                                             *)
(***************************************************************************)
EXTENDS TaskCode

CONSTANT InitTop      \* tasks os_main created

VARIABLES local,      \* the registers of every task
          top         \* how many tasks there are

Init ==
  /\ local = [t \in Tasks |-> Fresh(t)]
  /\ top = InitTop

Alone(t) == \A u \in 0 .. top - 1 : u # t => local[u].pc \notin Locked

Step(t) ==
  /\ Alone(t)
  /\ \E r \in After(local[t]) : local' = [local EXCEPT ![t] = r]
  /\ top' = IF local[t].pc = "new_store" THEN top + 1 ELSE top

Next == \E t \in 0 .. top - 1 : Step(t)

Spec == Init /\ [][Next]_<<local, top>>
=============================================================================
