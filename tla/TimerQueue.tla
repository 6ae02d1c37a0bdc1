----------------------------- MODULE TimerQueue -----------------------------
(***************************************************************************)
(* What the timers of exercise 15-1 are to be, whatever holds them: a      *)
(* queue in the order of their time, of which a tick fires the first if it *)
(* is due, and no other.  Timers due at the same tick fire in any order.   *)
(***************************************************************************)
EXTENDS Integers, SequencesExt

CONSTANTS Timers,     \* the addresses of timers
          Timeouts    \* what callers ask for, in ticks

VARIABLE queue        \* the timers, each with the ticks left of it

Init == queue = <<>>

Sorted(q) == \A i, j \in DOMAIN q : i < j => q[i].left <= q[j].left

(* A new timer goes behind those that are due earlier.                     *)
Create(t, timeout) ==
  LET q == queue
      new == [timer |-> t, left |-> timeout]
  IN  /\ \A i \in DOMAIN q : q[i].timer # t
      /\ queue' \in {p \in {InsertAt(q, i, new) : i \in 1 .. Len(q) + 1} : Sorted(p)}

Delete(t) ==
  LET q == queue
  IN  \E i \in DOMAIN q : q[i].timer = t /\ queue' = RemoveAt(q, i)

Tick ==
  LET q    == queue
      aged == [i \in DOMAIN q |-> [q[i] EXCEPT !.left = @ - 1]]
  IN  queue' = IF aged # <<>> /\ Head(aged).left <= 0 THEN Tail(aged) ELSE aged

Next ==
  \/ \E t \in Timers, timeout \in Timeouts : Create(t, timeout)
  \/ \E t \in Timers : Delete(t)
  \/ Tick

Spec == Init /\ [][Next]_queue
=============================================================================
