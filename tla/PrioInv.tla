------------------------------ MODULE PrioInv ------------------------------
(***************************************************************************)
(* The inductive invariant of the priority scheduler of exercise 15-1.     *)
(***************************************************************************)
EXTENDS PrioProps, FiniteSets

Timer == [wakes : Tasks \cup {OS}, prio : Prios \cup {0}, ts : Slices \cup {0}, left : Int]

HasTimer(t) == \E i \in DOMAIN timers : timers[i].wakes = t

(* The queue is sorted, and what a timer of a creation passes on is what   *)
(* some task has given.                                                    *)
Queue ==
  /\ timers \in Seq(Timer)
  /\ \A i \in DOMAIN timers : timers[i].wakes = OS => /\ timers[i].prio \in Prios
                                                      /\ timers[i].ts \in Slices
  /\ \A i, j \in DOMAIN timers : i <= j => timers[i].left <= timers[j].left

(* Where a task is, executing or not, agrees with its status and timer.    *)
Executing ==
  phase = "none" /\ exec # OS =>
    /\ current = exec
    /\ at \in {"exit", "exited"} => status[exec] = EXITED
    /\ at = "sleep" => status[exec] = SLEEPING
    /\ HasTimer(exec) => at = "armed" \/ (at = "run" /\ msip)

Waiting ==
  \A t \in Tasks : phase # "none" \/ exec # t =>
    /\ ctx[t] \in {"exit", "exited"} => status[t] = EXITED
    /\ ctx[t] = "sleep" => status[t] = SLEEPING /\ ~ HasTimer(t)

(* How many timers there are, and how late they can be: by a tick more     *)
(* while the tick has not been to timer_check yet.                         *)
Sleepers == {t \in Tasks : HasTimer(t)}

FewTimers == Len(timers) <= MaxTimers + Cardinality(Sleepers)

NotTooLate ==
  \A i \in DOMAIN timers :
    timers[i].left >= i - MostTimers + IF phase = "check" THEN 0 ELSE 1

PInv ==
  /\ TypeOK /\ Queue /\ RunsHighest /\ WakeupsMeetSleepers
  /\ (exec = OS => at = "run")
  /\ Executing /\ Waiting /\ FewTimers /\ NotTooLate
=============================================================================
