----------------------------- MODULE PrioProofs -----------------------------
(***************************************************************************)
(* The priority scheduler of exercise 15-1 for any number of tasks,        *)
(* priorities, time slices and sleeps.                                     *)
(***************************************************************************)
EXTENDS PrioInv, FiniteSetTheorems, SequenceTheorems, TLAPS

(* schedule ends with the assignment of line 109.                          *)
AsIn151 == KeepsSlices = FALSE
-----------------------------------------------------------------------------
(* The queue with one timer more, one less, or a tick later.               *)
LEMMA InsertedIs ==
  ASSUME timers \in Seq(Timer), NEW x \in Timer, NEW q \in Inserted(x)
  PROVE  /\ q \in Seq(Timer) /\ Len(q) = Len(timers) + 1
         /\ \E n \in 0 .. Len(timers) :
              /\ q[n + 1] = x
              /\ \A k \in 1 .. n : q[k] = timers[k] /\ timers[k].left <= x.left
              /\ \A k \in n + 1 .. Len(timers) : q[k + 1] = timers[k]
                                                 /\ x.left <= timers[k].left
<1>1. PICK n \in 0 .. Len(timers) :
         /\ \A k \in 1 .. n : timers[k].left <= x.left
         /\ \A k \in n + 1 .. Len(timers) : x.left <= timers[k].left
         /\ q = SubSeq(timers, 1, n) \o <<x>> \o SubSeq(timers, n + 1, Len(timers))
  BY DEF Inserted
<1>2. Len(timers) \in Nat /\ n \in Nat /\ n <= Len(timers)
  BY <1>1
<1> DEFINE a == SubSeq(timers, 1, n)
           b == SubSeq(timers, n + 1, Len(timers))
<1>3. a \in Seq(Timer) /\ Len(a) = n /\ \A k \in 1 .. n : a[k] = timers[k]
  BY <1>2, SubSeqProperties
<1>4. /\ b \in Seq(Timer) /\ Len(b) = Len(timers) - n
      /\ \A k \in 1 .. Len(timers) - n : b[k] = timers[n + k]
  BY <1>2, SubSeqProperties
<1> HIDE DEF a, b
<1> DEFINE c == a \o <<x>>
<1>5. c \in Seq(Timer) /\ Len(c) = n + 1 /\ c[n + 1] = x /\ \A k \in 1 .. n : c[k] = timers[k]
  BY <1>2, <1>3
<1>6. q = c \o b
  BY <1>1 DEF a, b
<1> HIDE DEF c
<1>7. /\ q \in Seq(Timer) /\ Len(q) = Len(timers) + 1
      /\ \A k \in 1 .. n + 1 : q[k] = c[k]
      /\ \A k \in n + 2 .. Len(timers) + 1 : q[k] = b[k - (n + 1)]
  BY <1>2, <1>4, <1>5, <1>6
<1>8. \A k \in n + 1 .. Len(timers) : q[k + 1] = timers[k]
  <2> SUFFICES ASSUME NEW k \in n + 1 .. Len(timers) PROVE q[k + 1] = timers[k]
    OBVIOUS
  <2>1. q[k + 1] = b[k - n] /\ b[k - n] = timers[k]
    BY <1>2, <1>4, <1>7
  <2> QED
    BY <2>1
<1>9. \A k \in 1 .. n : q[k] = timers[k]
  BY <1>2, <1>5, <1>7
<1>10. q[n + 1] = x
  BY <1>2, <1>5, <1>7
<1> QED
  BY <1>1, <1>7, <1>8, <1>9, <1>10

LEMMA TailIs ==
  ASSUME timers \in Seq(Timer), timers # <<>>
  PROVE  /\ Tail(timers) \in Seq(Timer) /\ Len(Tail(timers)) = Len(timers) - 1
         /\ \A k \in 1 .. Len(timers) - 1 : Tail(timers)[k] = timers[k + 1]
         /\ Head(timers) = timers[1] /\ 1 \in DOMAIN timers
  OBVIOUS

LEMMA AgedIs ==
  ASSUME timers \in Seq(Timer),
         timers' = [i \in DOMAIN timers |-> [timers[i] EXCEPT !.left = @ - 1]]
  PROVE  /\ timers' \in Seq(Timer) /\ Len(timers') = Len(timers)
         /\ \A i \in DOMAIN timers : /\ timers'[i].wakes = timers[i].wakes
                                     /\ timers'[i].prio = timers[i].prio
                                     /\ timers'[i].ts = timers[i].ts
                                     /\ timers'[i].left = timers[i].left - 1
<1>1. DOMAIN timers = 1 .. Len(timers) /\ Len(timers) \in Nat
  OBVIOUS
<1>2. ASSUME NEW i \in 1 .. Len(timers)
      PROVE  /\ timers'[i] \in Timer
             /\ timers'[i].wakes = timers[i].wakes /\ timers'[i].prio = timers[i].prio
             /\ timers'[i].ts = timers[i].ts /\ timers'[i].left = timers[i].left - 1
  <2>1. timers[i] \in Timer
    OBVIOUS
  <2>2. PICK x \in Timer : x = timers[i]
    BY <2>1
  <2>3. timers'[i] = [x EXCEPT !.left = x.left - 1]
    BY <1>1, <2>2
  <2>4. /\ x = [wakes |-> x.wakes, prio |-> x.prio, ts |-> x.ts, left |-> x.left]
        /\ x.wakes \in Tasks \cup {OS} /\ x.prio \in Prios \cup {0}
        /\ x.ts \in Slices \cup {0} /\ x.left \in Int
    BY <2>2 DEF Timer
  <2>5. timers'[i] = [wakes |-> x.wakes, prio |-> x.prio, ts |-> x.ts, left |-> x.left - 1]
    BY <2>3, <2>4
  <2>6. timers'[i] \in Timer
    BY <2>4, <2>5 DEF Timer
  <2> QED
    BY <2>2, <2>5, <2>6
<1>3. timers' \in Seq(Timer) /\ Len(timers') = Len(timers)
  <2>1. timers' \in [1 .. Len(timers) -> Timer]
    BY <1>1, <1>2
  <2> QED
    BY <1>1, <2>1
<1> QED
  BY <1>1, <1>2, <1>3
-----------------------------------------------------------------------------
(* Whom the queue will wake, and how often.                                *)
Once(t) == \A i, j \in DOMAIN timers : timers[i].wakes = t /\ timers[j].wakes = t => i = j

LEMMA TimersAre ==
  ASSUME Queue
  PROVE  \A i \in DOMAIN timers : /\ timers[i].wakes \in Tasks \cup {OS}
                                  /\ timers[i].prio \in Prios \cup {0}
                                  /\ timers[i].ts \in Slices \cup {0}
                                  /\ timers[i].left \in Int
<1>1. \A i \in DOMAIN timers : timers[i] \in Timer
  BY DEF Queue
<1> QED
  BY <1>1 DEF Timer

LEMMA WakeupsAre ==
  ASSUME Queue
  PROVE  WakeupsMeetSleepers <=>
           \A t \in Tasks : HasTimer(t) => status[t] = SLEEPING /\ Once(t)
<1>1. \A i \in DOMAIN timers : timers[i].wakes \in Tasks \cup {OS}
  BY TimersAre
<1>2. OS \notin Tasks
  BY PrioAssumption DEF OS, Tasks
<1> QED
  BY <1>1, <1>2 DEF WakeupsMeetSleepers, HasTimer, Once

LEMMA SleepersAreFew ==
  /\ IsFiniteSet(Sleepers) /\ Cardinality(Sleepers) \in Nat
  /\ Cardinality(Sleepers) <= MaxTasks
<1>1. IsFiniteSet(Tasks) /\ Cardinality(Tasks) = MaxTasks
  BY PrioAssumption, FS_Interval DEF Tasks
<1>2. Sleepers \subseteq Tasks
  BY DEF Sleepers
<1> QED
  BY <1>1, <1>2, FS_Subset, FS_CardinalityType

LEMMA TimersKept ==
  ASSUME timers' = timers
  PROVE  /\ Queue => Queue'
         /\ FewTimers => FewTimers'
         /\ \A t : /\ HasTimer(t)' <=> HasTimer(t)
                   /\ Once(t)' <=> Once(t)
<1>1. \A t : HasTimer(t)' <=> HasTimer(t)
  BY DEF HasTimer
<1>2. \A t : Once(t)' <=> Once(t)
  BY DEF Once
<1>3. Sleepers' = Sleepers
  BY <1>1 DEF Sleepers
<1> QED
  BY <1>1, <1>2, <1>3 DEF Queue, FewTimers

LEMMA TimersAged ==
  ASSUME Queue,
         timers' = [i \in DOMAIN timers |-> [timers[i] EXCEPT !.left = @ - 1]]
  PROVE  /\ Queue'
         /\ FewTimers => FewTimers'
         /\ \A t : /\ HasTimer(t)' <=> HasTimer(t)
                   /\ Once(t)' <=> Once(t)
<1>1. /\ timers' \in Seq(Timer) /\ Len(timers') = Len(timers)
      /\ \A i \in DOMAIN timers : /\ timers'[i].wakes = timers[i].wakes
                                  /\ timers'[i].prio = timers[i].prio
                                  /\ timers'[i].ts = timers[i].ts
                                  /\ timers'[i].left = timers[i].left - 1
  BY AgedIs DEF Queue
<1>2. DOMAIN timers' = DOMAIN timers
  BY <1>1 DEF Queue
<1>3. Queue'
  <2>1. \A i \in DOMAIN timers : timers[i].left \in Int
    BY TimersAre
  <2>2. \A i \in DOMAIN timers' : timers'[i].wakes = OS => /\ timers'[i].prio \in Prios
                                                           /\ timers'[i].ts \in Slices
    BY <1>1, <1>2 DEF Queue
  <2>3. \A i, j \in DOMAIN timers' : i <= j => timers'[i].left <= timers'[j].left
    <3> SUFFICES ASSUME NEW i \in DOMAIN timers, NEW j \in DOMAIN timers, i <= j
                 PROVE  timers'[i].left <= timers'[j].left
      BY <1>2
    <3>1. timers[i].left <= timers[j].left
      BY DEF Queue
    <3> QED
      BY <1>1, <2>1, <3>1
  <2> QED
    BY <1>1, <2>2, <2>3 DEF Queue
<1>4. \A t : HasTimer(t)' <=> HasTimer(t)
  BY <1>1, <1>2 DEF HasTimer
<1>5. \A t : Once(t)' <=> Once(t)
  BY <1>1, <1>2, ZenonT(60) DEF Once
<1>6. Sleepers' = Sleepers
  BY <1>4 DEF Sleepers
<1> QED
  BY <1>1, <1>3, <1>4, <1>5, <1>6 DEF FewTimers

(* The first timer is taken off.                                           *)
LEMMA TimerRemoved ==
  ASSUME Queue, timers # <<>>, timers' = Tail(timers),
         \A t \in Tasks : HasTimer(t) => Once(t)
  PROVE  /\ Queue'
         /\ FewTimers => FewTimers'
         /\ \A t \in Tasks : HasTimer(t)' <=> HasTimer(t) /\ t # Head(timers).wakes
         /\ \A t \in Tasks : HasTimer(t)' => Once(t)'
         /\ Head(timers).wakes \in Tasks => HasTimer(Head(timers).wakes)
<1>1. /\ Tail(timers) \in Seq(Timer) /\ Len(Tail(timers)) = Len(timers) - 1
      /\ \A k \in 1 .. Len(timers) - 1 : Tail(timers)[k] = timers[k + 1]
      /\ Head(timers) = timers[1] /\ 1 \in DOMAIN timers
  BY TailIs DEF Queue
<1>2. DOMAIN timers = 1 .. Len(timers) /\ Len(timers) \in Nat
      /\ DOMAIN timers' = 1 .. Len(timers) - 1
  BY <1>1 DEF Queue
<1>3. \A k \in DOMAIN timers' : k + 1 \in DOMAIN timers /\ timers'[k] = timers[k + 1]
  BY <1>1, <1>2
<1>4. \A k \in DOMAIN timers : k = 1 \/ (k - 1 \in DOMAIN timers' /\ timers'[k - 1] = timers[k])
  BY <1>1, <1>2
<1>5. Queue'
  <2>1. timers' \in Seq(Timer)
    BY <1>1
  <2>2. \A i \in DOMAIN timers' : timers'[i].wakes = OS => /\ timers'[i].prio \in Prios
                                                           /\ timers'[i].ts \in Slices
    BY <1>3 DEF Queue
  <2>3. \A i, j \in DOMAIN timers' : i <= j => timers'[i].left <= timers'[j].left
    <3>1. \A i, j \in DOMAIN timers' : i <= j => i + 1 <= j + 1
      BY <1>2
    <3> QED
      BY <1>3, <3>1 DEF Queue
  <2> QED
    BY <2>1, <2>2, <2>3 DEF Queue
<1>6. \A t \in Tasks : HasTimer(t)' <=> HasTimer(t) /\ t # Head(timers).wakes
  <2> TAKE t \in Tasks
  <2>1. HasTimer(t)' => HasTimer(t) /\ t # Head(timers).wakes
    <3> SUFFICES ASSUME HasTimer(t)' PROVE HasTimer(t) /\ t # timers[1].wakes
      BY <1>1
    <3>1. PICK k \in DOMAIN timers' : timers'[k].wakes = t
      BY DEF HasTimer
    <3>2. k + 1 \in DOMAIN timers /\ timers[k + 1].wakes = t /\ k + 1 # 1
      BY <1>2, <1>3, <3>1
    <3> QED
      BY <1>1, <3>2 DEF HasTimer, Once
  <2>2. HasTimer(t) /\ t # Head(timers).wakes => HasTimer(t)'
    BY <1>1, <1>4 DEF HasTimer
  <2> QED
    BY <2>1, <2>2
<1>7. \A t \in Tasks : HasTimer(t)' => Once(t)'
  <2> SUFFICES ASSUME NEW t \in Tasks, HasTimer(t)',
                      NEW i \in DOMAIN timers', NEW j \in DOMAIN timers',
                      timers'[i].wakes = t, timers'[j].wakes = t
               PROVE  i = j
    BY DEF Once
  <2>1. Once(t)
    BY <1>6
  <2>2. i + 1 = j + 1
    BY <1>3, <2>1 DEF Once
  <2> QED
    BY <1>2, <2>2
<1>8. Head(timers).wakes \in Tasks => HasTimer(Head(timers).wakes)
  BY <1>1 DEF HasTimer
<1>9. FewTimers => FewTimers'
  <2>1. CASE Head(timers).wakes \in Tasks
    <3>1. Sleepers' = Sleepers \ {Head(timers).wakes} /\ Head(timers).wakes \in Sleepers
      BY <1>6, <1>8, <2>1 DEF Sleepers
    <3>2. Cardinality(Sleepers') = Cardinality(Sleepers) - 1
      BY <3>1, SleepersAreFew, FS_RemoveElement
    <3> QED
      BY <1>1, <1>2, <3>2, SleepersAreFew, PrioAssumption DEF FewTimers
  <2>2. CASE Head(timers).wakes \notin Tasks
    <3>1. Sleepers' = Sleepers
      BY <1>6, <2>2 DEF Sleepers
    <3> QED
      BY <1>1, <1>2, <3>1, SleepersAreFew, PrioAssumption DEF FewTimers
  <2> QED
    BY <2>1, <2>2
<1> QED
  BY <1>5, <1>6, <1>7, <1>8, <1>9

(* A timer more.                                                           *)
LEMMA TimerAdded ==
  ASSUME Queue, NEW x \in Timer, timers' \in Inserted(x),
         x.wakes = OS => x.prio \in Prios /\ x.ts \in Slices
  PROVE  /\ Queue'
         /\ Len(timers') = Len(timers) + 1
         /\ \A t : HasTimer(t)' <=> HasTimer(t) \/ t = x.wakes
         /\ \A t : Once(t) /\ (t # x.wakes \/ ~ HasTimer(t)) => Once(t)'
         /\ \A i \in DOMAIN timers' :
              \/ x.left <= timers'[i].left
              \/ i \in DOMAIN timers /\ timers'[i] = timers[i]
<1>1. PICK n \in 0 .. Len(timers) :
         /\ timers'[n + 1] = x
         /\ \A k \in 1 .. n : timers'[k] = timers[k] /\ timers[k].left <= x.left
         /\ \A k \in n + 1 .. Len(timers) : timers'[k + 1] = timers[k]
                                            /\ x.left <= timers[k].left
  BY InsertedIs DEF Queue
<1>2. timers' \in Seq(Timer) /\ Len(timers') = Len(timers) + 1
  BY InsertedIs DEF Queue
<1>3. /\ Len(timers) \in Nat /\ n \in Nat /\ n <= Len(timers)
      /\ DOMAIN timers = 1 .. Len(timers) /\ DOMAIN timers' = 1 .. Len(timers) + 1
  BY <1>1, <1>2 DEF Queue
<1> DEFINE Old(i) == IF i <= n THEN i ELSE i - 1
<1>4. \A i \in DOMAIN timers' : i # n + 1 =>
         Old(i) \in DOMAIN timers /\ timers'[i] = timers[Old(i)]
  <2> SUFFICES ASSUME NEW i \in DOMAIN timers', i # n + 1
               PROVE  Old(i) \in DOMAIN timers /\ timers'[i] = timers[Old(i)]
    OBVIOUS
  <2>1. CASE i <= n
    BY <1>1, <1>3, <2>1
  <2>2. CASE ~ (i <= n)
    <3>1. i - 1 \in n + 1 .. Len(timers) /\ (i - 1) + 1 = i
      BY <1>3, <2>2
    <3> QED
      BY <1>1, <1>3, <2>2, <3>1
  <2> QED
    BY <2>1, <2>2
<1>5. \A i, j \in DOMAIN timers' : i # n + 1 /\ j # n + 1 =>
         /\ i <= j => Old(i) <= Old(j)
         /\ Old(i) = Old(j) => i = j
  BY <1>3
<1>6. \A k \in DOMAIN timers : \E i \in DOMAIN timers' : timers'[i] = timers[k]
  <2> TAKE k \in DOMAIN timers
  <2>1. CASE k <= n
    BY <1>1, <1>3, <2>1
  <2>2. CASE ~ (k <= n)
    <3>1. k + 1 \in DOMAIN timers' /\ timers'[k + 1] = timers[k]
      BY <1>1, <1>3, <2>2
    <3> QED
      BY <3>1
  <2> QED
    BY <2>1, <2>2
<1>7. n + 1 \in DOMAIN timers' /\ timers'[n + 1] = x
  BY <1>1, <1>3
<1>8. \A i \in DOMAIN timers' : i <= n => timers'[i].left <= x.left
  BY <1>1, <1>3
<1>9. \A i \in DOMAIN timers' : n + 1 <= i => x.left <= timers'[i].left
  <2> SUFFICES ASSUME NEW i \in DOMAIN timers', n + 1 <= i, i # n + 1
               PROVE  x.left <= timers'[i].left
    BY <1>1 DEF Timer
  <2>1. i - 1 \in n + 1 .. Len(timers) /\ (i - 1) + 1 = i
    BY <1>3
  <2> QED
    BY <1>1, <2>1
<1> HIDE DEF Old
<1>10. Queue'
  <2>1. \A i \in DOMAIN timers' : timers'[i].wakes = OS => /\ timers'[i].prio \in Prios
                                                           /\ timers'[i].ts \in Slices
    BY <1>4, <1>7 DEF Queue
  <2>2. \A i, j \in DOMAIN timers' : i <= j => timers'[i].left <= timers'[j].left
    <3> SUFFICES ASSUME NEW i \in DOMAIN timers', NEW j \in DOMAIN timers', i <= j
                 PROVE  timers'[i].left <= timers'[j].left
      OBVIOUS
    <3>1. CASE i # n + 1 /\ j # n + 1
      BY <1>4, <1>5, <3>1 DEF Queue
    <3>2. CASE i = n + 1
      BY <1>3, <1>7, <1>9, <3>2
    <3>3. CASE j = n + 1 /\ i # n + 1
      BY <1>3, <1>7, <1>8, <3>3
    <3> QED
      BY <3>1, <3>2, <3>3
  <2> QED
    BY <1>2, <2>1, <2>2 DEF Queue
<1>11. \A t : HasTimer(t)' <=> HasTimer(t) \/ t = x.wakes
  <2> TAKE t
  <2>1. HasTimer(t)' => HasTimer(t) \/ t = x.wakes
    BY <1>4, <1>7 DEF HasTimer
  <2>2. HasTimer(t) => HasTimer(t)'
    BY <1>6 DEF HasTimer
  <2>3. t = x.wakes => HasTimer(t)'
    BY <1>7 DEF HasTimer
  <2> QED
    BY <2>1, <2>2, <2>3
<1>12. \A t : Once(t) /\ (t # x.wakes \/ ~ HasTimer(t)) => Once(t)'
  <2> SUFFICES ASSUME NEW t, Once(t), t # x.wakes \/ ~ HasTimer(t),
                      NEW i \in DOMAIN timers', NEW j \in DOMAIN timers',
                      timers'[i].wakes = t, timers'[j].wakes = t
               PROVE  i = j
    BY DEF Once
  <2>1. CASE i # n + 1 /\ j # n + 1
    BY <1>4, <1>5, <2>1 DEF Once
  <2>2. CASE i = n + 1 \/ j = n + 1
    <3>1. t = x.wakes /\ ~ HasTimer(t)
      BY <1>7, <2>2
    <3>2. i = n + 1 /\ j = n + 1
      BY <1>4, <3>1 DEF HasTimer
    <3> QED
      BY <3>2
  <2> QED
    BY <2>1, <2>2
<1>13. \A i \in DOMAIN timers' : \/ x.left <= timers'[i].left
                                 \/ i \in DOMAIN timers /\ timers'[i] = timers[i]
  <2> TAKE i \in DOMAIN timers'
  <2>1. CASE i <= n
    BY <1>1, <1>3, <2>1
  <2>2. CASE n + 1 <= i
    BY <1>9, <2>2
  <2> QED
    BY <1>3, <2>1, <2>2
<1> QED
  BY <1>2, <1>10, <1>11, <1>12, <1>13
-----------------------------------------------------------------------------
(* The steps of the calls.  A call changes the task that makes it and the  *)
(* queue, and keeps the invariant if it leaves the two in agreement.       *)
LEMMA TimersAreNext ==
  ASSUME Queue'
  PROVE  \A i \in DOMAIN timers' : /\ timers'[i].wakes \in Tasks \cup {OS}
                                   /\ timers'[i].prio \in Prios \cup {0}
                                   /\ timers'[i].ts \in Slices \cup {0}
                                   /\ timers'[i].left \in Int
<1>1. \A i \in DOMAIN timers' : timers'[i] \in Timer
  BY DEF Queue
<1> QED
  BY <1>1 DEF Timer

LEMMA WakeupsAreNext ==
  ASSUME Queue'
  PROVE  WakeupsMeetSleepers' <=>
           \A t \in Tasks : HasTimer(t)' => status'[t] = SLEEPING /\ Once(t)'
<1>1. \A i \in DOMAIN timers' : timers'[i].wakes \in Tasks \cup {OS}
  BY TimersAreNext
<1>2. OS \notin Tasks
  BY PrioAssumption DEF OS, Tasks
<1> QED
  BY <1>1, <1>2 DEF WakeupsMeetSleepers, HasTimer, Once

LEMMA PriosAreNumbers ==
  ASSUME TypeOK
  PROVE  \A t \in Tasks : prio[t] \in Int
<1>1. \A t \in Tasks : prio[t] \in Prios \cup {255}
  BY DEF TypeOK
<1>2. Prios \cup {255} \subseteq Int
  BY PrioAssumption
<1> QED
  BY <1>1, <1>2

LEMMA CallStep ==
  ASSUME PInv, phase = "none", exec # OS,
         UNCHANGED <<prio, ts, sched, ctx, exec, phase>>,
         at' \in Places, msip' \in BOOLEAN,
         status' \in [Tasks -> Statuses],
         \A t \in Tasks : t # exec => status'[t] = status[t],
         Queue', FewTimers', NotTooLate',
         \A t \in Tasks : t # exec /\ HasTimer(t)' => HasTimer(t),
         \A t \in Tasks : HasTimer(t)' => status'[t] = SLEEPING /\ Once(t)',
         at' \in {"exit", "exited"} => status'[exec] = EXITED,
         at' = "sleep" => status'[exec] = SLEEPING,
         HasTimer(exec)' => at' = "armed" \/ (at' = "run" /\ msip')
  PROVE  PInv'
<1>1. exec \in Tasks
  BY DEF PInv, TypeOK
<1>2. TypeOK'
  <2>1. /\ status' \in [Tasks -> Statuses]
        /\ prio' \in [Tasks -> Prios \cup {255}] /\ ts' \in [Tasks -> Slices \cup {0}]
        /\ current' \in Tasks \cup {OS} /\ cur_ts' \in Nat
        /\ ctx' \in [Tasks -> Places]
        /\ exec' \in Tasks \cup {OS} /\ at' \in Places
        /\ phase' \in {"none", "check", "schedule"} /\ msip' \in BOOLEAN
    BY DEF PInv, TypeOK, sched
  <2> QED
    BY <2>1, TimersAreNext DEF TypeOK
<1>3. RunsHighest'
  <2>1. \A t \in Tasks : t # exec /\ Schedulable(t)' => prio[exec] <= prio[t]
    BY DEF PInv, RunsHighest, Schedulable
  <2>2. prio[exec] <= prio[exec]
    BY <1>1, PriosAreNumbers DEF PInv
  <2> QED
    BY <2>1, <2>2 DEF RunsHighest, OS
<1>4. WakeupsMeetSleepers'
  BY WakeupsAreNext
<1>5. (exec = OS => at = "run")'
  OBVIOUS
<1>6. Executing'
  BY DEF PInv, Executing, sched
<1>7. Waiting'
  <2> SUFFICES ASSUME NEW t \in Tasks, t # exec
               PROVE  /\ ctx'[t] \in {"exit", "exited"} => status'[t] = EXITED
                      /\ ctx'[t] = "sleep" => status'[t] = SLEEPING /\ ~ HasTimer(t)'
    BY DEF Waiting
  <2> QED
    BY DEF PInv, Waiting
<1> QED
  BY <1>2, <1>3, <1>4, <1>5, <1>6, <1>7 DEF PInv

(* The caller is a task, _current, and no timer will wake it.              *)
LEMMA CallerIs ==
  ASSUME PInv, NEW w \in Places, Runs(w)
  PROVE  /\ phase = "none" /\ exec # OS /\ exec \in Tasks /\ current = exec /\ at = w /\ ~ msip
         /\ w # "armed" => ~ HasTimer(exec)
         /\ w \in {"exit", "exited"} => status[exec] = EXITED
         /\ w = "sleep" => status[exec] = SLEEPING
BY DEF PInv, TypeOK, Runs, Executing

LEMMA WakeupsNow ==
  ASSUME PInv
  PROVE  \A t \in Tasks : HasTimer(t) => status[t] = SLEEPING /\ Once(t)
BY WakeupsAre DEF PInv

LEMMA LatenessKept ==
  ASSUME NotTooLate, timers' = timers, phase' = "check" <=> phase = "check"
  PROVE  NotTooLate'
<1>1. CASE phase = "check"
  BY <1>1 DEF NotTooLate, MostTimers
<1>2. CASE phase # "check"
  BY <1>2 DEF NotTooLate, MostTimers
<1> QED
  BY <1>1, <1>2

LEMMA SetStatusStep ==
  ASSUME PInv, NEW s \in Statuses, NEW w \in Places, Runs("run"), SetStatus(s), Goes(w),
         w \in {"yield", "exit", "sleep"},
         w = "exit" => s = EXITED, w = "sleep" => s = SLEEPING
  PROVE  PInv'
<1>1. /\ phase = "none" /\ exec # OS /\ exec \in Tasks /\ current = exec /\ ~ msip
      /\ ~ HasTimer(exec)
  BY CallerIs DEF Places
<1>2. /\ Queue' /\ FewTimers' /\ \A t : (HasTimer(t)' <=> HasTimer(t)) /\ (Once(t)' <=> Once(t))
  BY TimersKept DEF PInv, SetStatus
<1>3. /\ UNCHANGED <<prio, ts, sched, ctx, exec, phase>>
      /\ at' = w /\ msip' = FALSE
  BY <1>1 DEF SetStatus, Goes, PInv, TypeOK
<1>4. /\ status' \in [Tasks -> Statuses]
      /\ \A t \in Tasks : t # exec => status'[t] = status[t]
      /\ status'[exec] = s
  BY <1>1 DEF PInv, TypeOK, SetStatus
<1>5. NotTooLate'
  BY LatenessKept DEF PInv, SetStatus, Goes
<1>6. \A t \in Tasks : HasTimer(t)' => status'[t] = SLEEPING /\ Once(t)'
  BY <1>1, <1>2, <1>4, WakeupsNow
<1> QED
  BY <1>1, <1>2, <1>3, <1>4, <1>5, <1>6, CallStep

LEMMA RaiseMsipStep ==
  ASSUME PInv, NEW w \in Places, NEW v \in Places, raise_msip(w, v),
         <<w, v>> \in {<<"yield", "run">>, <<"armed", "run">>, <<"exit", "exited">>}
  PROVE  PInv'
<1>1. /\ phase = "none" /\ exec # OS /\ exec \in Tasks
      /\ w # "armed" => ~ HasTimer(exec)
      /\ w \in {"exit", "exited"} => status[exec] = EXITED
  BY CallerIs DEF raise_msip
<1>2. /\ Queue' /\ FewTimers' /\ \A t : (HasTimer(t)' <=> HasTimer(t)) /\ (Once(t)' <=> Once(t))
  BY TimersKept DEF PInv, raise_msip
<1>3. /\ UNCHANGED <<status, prio, ts, sched, ctx, exec, phase>>
      /\ at' = v /\ msip' = TRUE
  BY DEF raise_msip, Goes, tables
<1>4. status' \in [Tasks -> Statuses]
  BY <1>3 DEF PInv, TypeOK
<1>5. NotTooLate'
  BY LatenessKept DEF PInv, raise_msip, Goes
<1>6. \A t \in Tasks : HasTimer(t)' => status'[t] = SLEEPING /\ Once(t)'
  BY <1>2, <1>3, WakeupsNow
<1> QED
  BY <1>1, <1>2, <1>3, <1>4, <1>5, <1>6, CallStep

(* A new timer is not late, and there are not too many.                    *)
LEMMA LatenessAdded ==
  ASSUME PInv, phase = "none", phase' = phase, NEW x \in Timer, timers' \in Inserted(x),
         x.wakes = OS => x.prio \in Prios /\ x.ts \in Slices,
         x.left >= 1, FewTimers'
  PROVE  NotTooLate'
<1> SUFFICES ASSUME NEW i \in DOMAIN timers'
             PROVE  timers'[i].left >= i - MostTimers + 1
  BY DEF NotTooLate, MostTimers
<1>1. /\ Queue' /\ x.left \in Int
      /\ \/ x.left <= timers'[i].left
         \/ i \in DOMAIN timers /\ timers'[i] = timers[i]
  BY TimerAdded DEF PInv, Timer
<1>2. MostTimers \in Nat /\ timers'[i].left \in Int
  BY <1>1, TimersAreNext, PrioAssumption DEF MostTimers
<1>3. i \in 1 .. Len(timers') /\ Len(timers') \in Nat
  BY <1>1 DEF Queue
<1>4. CASE x.left <= timers'[i].left
  <2>1. Sleepers' \subseteq Tasks
    BY DEF Sleepers
  <2>2. IsFiniteSet(Tasks) /\ Cardinality(Tasks) = MaxTasks
    BY PrioAssumption, FS_Interval DEF Tasks
  <2>3. Cardinality(Sleepers') \in Nat /\ Cardinality(Sleepers') <= MaxTasks
    BY <2>1, <2>2, FS_Subset, FS_CardinalityType
  <2>4. Len(timers') <= MostTimers
    BY <1>3, <2>3, PrioAssumption DEF FewTimers, MostTimers
  <2> QED
    BY <1>1, <1>2, <1>3, <1>4, <2>4
<1>5. CASE i \in DOMAIN timers /\ timers'[i] = timers[i]
  BY <1>5 DEF PInv, NotTooLate
<1> QED
  BY <1>1, <1>4, <1>5

LEMMA SleepTimerStep ==
  ASSUME PInv, NEW ticks \in Sleeps, sleep_timer(ticks)
  PROVE  PInv'
<1>1. /\ phase = "none" /\ exec # OS /\ exec \in Tasks /\ current = exec /\ ~ msip
      /\ ~ HasTimer(exec) /\ status[exec] = SLEEPING
  BY CallerIs DEF sleep_timer, Places
<1>2. /\ UNCHANGED <<status, prio, ts, sched, ctx, exec, phase, msip>>
      /\ at' = IF ticks = 0 THEN "run" ELSE "armed"
  BY DEF sleep_timer, Goes, tables
<1>3. status' \in [Tasks -> Statuses] /\ at' \in Places /\ msip' \in BOOLEAN
  BY <1>2 DEF PInv, TypeOK, Places
<1>4. CASE ticks = 0
  <2>1. timers' = timers
    BY <1>4 DEF sleep_timer
  <2>2. /\ Queue' /\ FewTimers' /\ \A t : (HasTimer(t)' <=> HasTimer(t)) /\ (Once(t)' <=> Once(t))
    BY <2>1, TimersKept DEF PInv
  <2>3. NotTooLate'
    BY <1>2, <2>1, LatenessKept DEF PInv
  <2>4. \A t \in Tasks : HasTimer(t)' => status'[t] = SLEEPING /\ Once(t)'
    BY <1>2, <2>2, WakeupsNow
  <2> QED
    BY <1>1, <1>2, <1>3, <1>4, <2>2, <2>3, <2>4, CallStep
<1>5. CASE ticks # 0
  <2> DEFINE x == [wakes |-> current, prio |-> 0, ts |-> 0, left |-> ticks]
  <2>1. /\ timers' \in Inserted(x) /\ x \in Timer /\ x.wakes = exec /\ x.left = ticks
        /\ ticks \in Nat /\ x.left >= 1
    BY <1>1, <1>5, PrioAssumption DEF sleep_timer, Timer
  <2> HIDE DEF x
  <2>2. /\ Queue' /\ Len(timers') = Len(timers) + 1
        /\ \A t : HasTimer(t)' <=> HasTimer(t) \/ t = exec
        /\ \A t : Once(t) /\ (t # exec \/ ~ HasTimer(t)) => Once(t)'
    BY <1>1, <2>1, TimerAdded DEF PInv
  <2>3. FewTimers'
    <3>1. Sleepers' = Sleepers \cup {exec} /\ exec \notin Sleepers
      BY <1>1, <2>2 DEF Sleepers
    <3>2. Cardinality(Sleepers') = Cardinality(Sleepers) + 1
      BY <3>1, SleepersAreFew, FS_AddElement
    <3>3. Len(timers) \in Nat
      BY DEF PInv, Queue
    <3> QED
      BY <2>2, <3>2, <3>3, SleepersAreFew, PrioAssumption DEF PInv, FewTimers
  <2>4. NotTooLate'
    BY <1>1, <1>2, <2>1, <2>3, LatenessAdded
  <2>5. Once(exec)
    BY <1>1 DEF Once, HasTimer
  <2>6. \A t \in Tasks : HasTimer(t)' => status'[t] = SLEEPING /\ Once(t)'
    BY <1>1, <1>2, <2>2, <2>5, WakeupsNow
  <2> QED
    BY <1>1, <1>2, <1>3, <1>5, <2>2, <2>3, <2>4, <2>6, CallStep
<1> QED
  BY <1>4, <1>5

LEMMA CreationTimerStep ==
  ASSUME PInv, NEW p \in Prios, NEW s \in Slices, NEW ticks \in Sleeps,
         creation_timer(p, s, ticks)
  PROVE  PInv'
<1>1. /\ phase = "none" /\ exec # OS /\ exec \in Tasks /\ ~ HasTimer(exec)
  BY CallerIs DEF creation_timer, Places
<1>2. /\ UNCHANGED <<status, prio, ts, sched, ctx, exec, phase, msip>> /\ at' = "run"
  BY DEF creation_timer, Goes, tables
<1>3. status' \in [Tasks -> Statuses] /\ at' \in Places /\ msip' \in BOOLEAN
  BY <1>2 DEF PInv, TypeOK, Places
<1> DEFINE x == [wakes |-> OS, prio |-> p, ts |-> s, left |-> ticks]
<1>4. /\ timers' \in Inserted(x) /\ x \in Timer /\ x.wakes = OS /\ x.left = ticks
      /\ x.prio \in Prios /\ x.ts \in Slices
      /\ ticks \in Nat /\ x.left >= 1
  BY PrioAssumption DEF creation_timer, Timer
<1> HIDE DEF x
<1>5. OS \notin Tasks
  BY PrioAssumption DEF OS, Tasks
<1>6. /\ Queue' /\ Len(timers') = Len(timers) + 1
      /\ \A t \in Tasks : HasTimer(t)' <=> HasTimer(t)
      /\ \A t \in Tasks : Once(t) => Once(t)'
  BY <1>4, <1>5, TimerAdded DEF PInv
<1>7. FewTimers'
  <2>1. Sleepers' = Sleepers
    BY <1>6 DEF Sleepers
  <2>2. Len(timers) \in Nat /\ Len(timers) < MaxTimers
    BY DEF PInv, Queue, creation_timer
  <2> QED
    BY <1>6, <2>1, <2>2, SleepersAreFew, PrioAssumption DEF FewTimers
<1>8. NotTooLate'
  BY <1>1, <1>2, <1>4, <1>7, LatenessAdded
<1>9. \A t \in Tasks : HasTimer(t)' => status'[t] = SLEEPING /\ Once(t)'
  BY <1>2, <1>6, WakeupsNow
<1> QED
  BY <1>1, <1>2, <1>3, <1>6, <1>7, <1>8, <1>9, CallStep
-----------------------------------------------------------------------------
(* The steps of the OS loop and of the traps.                              *)
LEMMA OsScheduleStep ==
  ASSUME PInv, os_schedule
  PROVE  PInv'
<1>1. UNCHANGED <<status, prio, ts, current, cur_ts, ctx, exec, at, phase, timers>> /\ msip' = TRUE
      /\ phase = "none" /\ exec = OS
  BY DEF os_schedule, tables, sched
<1>2. /\ Queue' /\ FewTimers' /\ \A t : (HasTimer(t)' <=> HasTimer(t)) /\ (Once(t)' <=> Once(t))
  BY <1>1, TimersKept DEF PInv
<1>3. TypeOK' /\ RunsHighest' /\ (exec = OS => at = "run")'
  BY <1>1 DEF PInv, TypeOK, RunsHighest, Schedulable
<1>4. WakeupsMeetSleepers'
  BY <1>1 DEF PInv, WakeupsMeetSleepers
<1>5. Executing'
  BY <1>1 DEF Executing
<1>6. Waiting'
  BY <1>1, <1>2 DEF PInv, Waiting
<1>7. NotTooLate'
  BY <1>1, LatenessKept DEF PInv
<1> QED
  BY <1>2, <1>3, <1>4, <1>5, <1>6, <1>7 DEF PInv

(* The trap has saved the task where it was.                               *)
LEMMA SaveIs ==
  ASSUME PInv, phase = "none", phase' # "none", Save, status' = status,
         \A t \in Tasks : HasTimer(t)' <=> HasTimer(t),
         ~ msip \/ phase' = "schedule"
  PROVE  ctx' \in [Tasks -> Places] /\ Waiting'
<1>1. CASE exec = OS
  <2>1. ctx' = ctx /\ \A t \in Tasks : exec # t
    BY <1>1, PrioAssumption DEF Save, OS, Tasks
  <2> QED
    BY <2>1 DEF PInv, TypeOK, Waiting
<1>2. CASE exec # OS
  <2>1. exec \in Tasks /\ ctx' = [ctx EXCEPT ![exec] = at]
    BY <1>2 DEF PInv, TypeOK, Save
  <2>2. /\ ctx' \in [Tasks -> Places] /\ ctx'[exec] = at
        /\ \A t \in Tasks : t # exec => ctx'[t] = ctx[t]
    BY <2>1 DEF PInv, TypeOK
  <2>3. /\ at \in {"exit", "exited"} => status[exec] = EXITED
        /\ at = "sleep" => status[exec] = SLEEPING /\ ~ HasTimer(exec)
    BY <1>2 DEF PInv, Executing
  <2>4. \A t \in Tasks : t # exec =>
          /\ ctx[t] \in {"exit", "exited"} => status[t] = EXITED
          /\ ctx[t] = "sleep" => status[t] = SLEEPING /\ ~ HasTimer(t)
    BY DEF PInv, Waiting
  <2> QED
    BY <2>2, <2>3, <2>4 DEF Waiting
<1> QED
  BY <1>1, <1>2

LEMMA SoftwareInterruptStep ==
  ASSUME PInv, software_interrupt
  PROVE  PInv'
<1>1. /\ UNCHANGED <<status, prio, ts, current, cur_ts, exec, at, timers>>
      /\ phase = "none" /\ phase' = "schedule" /\ msip' = FALSE /\ Save
  BY DEF software_interrupt, tables, sched
<1>2. /\ Queue' /\ FewTimers' /\ \A t : (HasTimer(t)' <=> HasTimer(t)) /\ (Once(t)' <=> Once(t))
  BY <1>1, TimersKept DEF PInv
<1>3. ctx' \in [Tasks -> Places] /\ Waiting'
  BY <1>1, <1>2, SaveIs
<1>4. TypeOK' /\ RunsHighest' /\ (exec = OS => at = "run")' /\ Executing'
  BY <1>1, <1>3 DEF PInv, TypeOK, RunsHighest, Executing
<1>5. WakeupsMeetSleepers'
  BY <1>1 DEF PInv, WakeupsMeetSleepers
<1>6. NotTooLate'
  BY <1>1, LatenessKept DEF PInv
<1> QED
  BY <1>2, <1>3, <1>4, <1>5, <1>6 DEF PInv

LEMMA TimerInterruptStep ==
  ASSUME PInv, timer_interrupt
  PROVE  PInv'
<1>1. /\ UNCHANGED <<status, prio, ts, current, cur_ts, exec, at, msip>>
      /\ phase = "none" /\ phase' = "check" /\ ~ msip /\ Save
      /\ timers' = [i \in DOMAIN timers |-> [timers[i] EXCEPT !.left = @ - 1]]
  BY DEF timer_interrupt, tables, sched
<1>2. /\ Queue' /\ FewTimers' /\ \A t : (HasTimer(t)' <=> HasTimer(t)) /\ (Once(t)' <=> Once(t))
  BY <1>1, TimersAged DEF PInv
<1>3. ctx' \in [Tasks -> Places] /\ Waiting'
  BY <1>1, <1>2, SaveIs
<1>4. TypeOK'
  <2>1. /\ status' \in [Tasks -> Statuses]
        /\ prio' \in [Tasks -> Prios \cup {255}] /\ ts' \in [Tasks -> Slices \cup {0}]
        /\ current' \in Tasks \cup {OS} /\ cur_ts' \in Nat
        /\ exec' \in Tasks \cup {OS} /\ at' \in Places
        /\ phase' \in {"none", "check", "schedule"} /\ msip' \in BOOLEAN
    BY <1>1 DEF PInv, TypeOK
  <2> QED
    BY <1>2, <1>3, <2>1, TimersAreNext DEF TypeOK
<1>5. RunsHighest' /\ (exec = OS => at = "run")' /\ Executing'
  BY <1>1 DEF PInv, RunsHighest, Executing
<1>6. WakeupsMeetSleepers'
  BY <1>1, <1>2, WakeupsNow, WakeupsAreNext
<1>7. NotTooLate'
  <2> SUFFICES ASSUME NEW i \in DOMAIN timers' PROVE timers'[i].left >= i - MostTimers + 0
    BY <1>1 DEF NotTooLate, MostTimers
  <2>1. i \in DOMAIN timers /\ timers'[i].left = timers[i].left - 1
    BY <1>1, AgedIs DEF PInv, Queue
  <2>2. timers[i].left >= i - MostTimers + 1 /\ timers[i].left \in Int
    BY <1>1, <2>1, TimersAre DEF PInv, NotTooLate
  <2>3. i \in Int /\ MostTimers \in Int
    BY <2>1, PrioAssumption DEF PInv, Queue, MostTimers
  <2> QED
    BY <2>1, <2>2, <2>3
<1> QED
  BY <1>2, <1>3, <1>4, <1>5, <1>6, <1>7 DEF PInv

(* timer_check finds no timer that is due: none of the queue is.           *)
LEMMA NoneDueStep ==
  ASSUME PInv, phase = "check", phase' = "schedule",
         UNCHANGED <<status, prio, ts, current, cur_ts, ctx, exec, at, msip, timers>>,
         timers = <<>> \/ ~ Due(Head(timers))
  PROVE  PInv'
<1>1. /\ Queue' /\ FewTimers' /\ \A t : (HasTimer(t)' <=> HasTimer(t)) /\ (Once(t)' <=> Once(t))
  BY TimersKept DEF PInv
<1>2. TypeOK' /\ RunsHighest' /\ (exec = OS => at = "run")' /\ Executing'
  BY DEF PInv, TypeOK, RunsHighest, Executing
<1>3. WakeupsMeetSleepers'
  BY DEF PInv, WakeupsMeetSleepers
<1>4. Waiting'
  BY <1>1 DEF PInv, Waiting
<1>5. NotTooLate'
  <2> SUFFICES ASSUME NEW i \in DOMAIN timers PROVE timers[i].left >= i - MostTimers + 1
    BY DEF NotTooLate, MostTimers
  <2>1. i \in 1 .. Len(timers) /\ Len(timers) \in Nat /\ timers # <<>>
    BY DEF PInv, Queue
  <2>2. Head(timers) = timers[1] /\ 1 \in DOMAIN timers /\ 1 <= i
    BY <2>1, TailIs DEF PInv, Queue
  <2>3. /\ timers[1].left \in Int /\ timers[i].left \in Int
        /\ timers[1].left <= timers[i].left
    BY <2>2, TimersAre DEF PInv, Queue
  <2>4. timers[1].left >= 1
    BY <2>1, <2>2, <2>3 DEF Due
  <2>5. Len(timers) <= MostTimers /\ MostTimers \in Nat
    BY <2>1, SleepersAreFew, PrioAssumption DEF PInv, FewTimers, MostTimers
  <2> QED
    BY <2>1, <2>3, <2>4, <2>5
<1> QED
  BY <1>1, <1>2, <1>3, <1>4, <1>5 DEF PInv

(* One timer less leaves the others as late as a tick allows.              *)
LEMMA LatenessRemoved ==
  ASSUME PInv, timers # <<>>, timers' = Tail(timers), phase' = "schedule"
  PROVE  NotTooLate'
<1> SUFFICES ASSUME NEW i \in DOMAIN timers' PROVE timers'[i].left >= i - MostTimers + 1
  BY DEF NotTooLate, MostTimers
<1>1. /\ DOMAIN timers = 1 .. Len(timers) /\ Len(timers) \in Nat
      /\ DOMAIN timers' = 1 .. Len(timers) - 1 /\ timers'[i] = timers[i + 1]
  BY TailIs DEF PInv, Queue
<1>2. i + 1 \in DOMAIN timers /\ timers[i + 1].left \in Int
  BY <1>1, TimersAre DEF PInv
<1>3. MostTimers \in Int
  BY PrioAssumption DEF MostTimers
<1>4. timers[i + 1].left >= (i + 1) - MostTimers
  <2>1. timers[i + 1].left >= (i + 1) - MostTimers + IF phase = "check" THEN 0 ELSE 1
    BY <1>2 DEF PInv, NotTooLate
  <2> QED
    BY <1>1, <1>2, <1>3, <2>1
<1> QED
  BY <1>1, <1>2, <1>3, <1>4

LEMMA WakeupStep ==
  ASSUME PInv, phase = "check", phase' = "schedule", timers # <<>>,
         timers' = Tail(timers), Head(timers).wakes # OS,
         task_wakeup(Head(timers).wakes), UNCHANGED <<current, cur_ts, exec, at>>
  PROVE  PInv'
<1> DEFINE w == Head(timers).wakes
<1>1. w \in Tasks
  BY TailIs, TimersAre DEF PInv, Queue
<1>2. /\ Queue' /\ FewTimers'
      /\ \A t \in Tasks : HasTimer(t)' <=> HasTimer(t) /\ t # w
      /\ \A t \in Tasks : HasTimer(t)' => Once(t)'
      /\ HasTimer(w)
  BY <1>1, TimerRemoved, WakeupsNow DEF PInv
<1>3. status[w] = SLEEPING
  BY <1>1, <1>2, WakeupsNow
<1>4. /\ UNCHANGED <<prio, ts, ctx>> /\ msip' = TRUE
      /\ status' \in [Tasks -> Statuses] /\ status'[w] = READY
      /\ \A t \in Tasks : t # w => status'[t] = status[t]
  BY <1>1 DEF PInv, TypeOK, task_wakeup, Statuses
<1> HIDE DEF w
<1>5. TypeOK'
  <2>1. /\ prio' \in [Tasks -> Prios \cup {255}] /\ ts' \in [Tasks -> Slices \cup {0}]
        /\ current' \in Tasks \cup {OS} /\ cur_ts' \in Nat
        /\ ctx' \in [Tasks -> Places]
        /\ exec' \in Tasks \cup {OS} /\ at' \in Places
        /\ phase' \in {"none", "check", "schedule"} /\ msip' \in BOOLEAN
    BY <1>4 DEF PInv, TypeOK
  <2> QED
    BY <1>2, <1>4, <2>1, TimersAreNext DEF TypeOK
<1>6. RunsHighest' /\ (exec = OS => at = "run")' /\ Executing'
  BY DEF PInv, RunsHighest, Executing
<1>7. WakeupsMeetSleepers'
  BY <1>2, <1>4, WakeupsNow, WakeupsAreNext
<1>8. Waiting'
  <2> SUFFICES ASSUME NEW t \in Tasks
               PROVE  /\ ctx[t] \in {"exit", "exited"} => status'[t] = EXITED
                      /\ ctx[t] = "sleep" => status'[t] = SLEEPING /\ ~ HasTimer(t)'
    BY <1>4 DEF Waiting
  <2>1. /\ ctx[t] \in {"exit", "exited"} => status[t] = EXITED
        /\ ctx[t] = "sleep" => status[t] = SLEEPING /\ ~ HasTimer(t)
    BY DEF PInv, Waiting
  <2>2. CASE t = w
    BY <1>2, <1>3, <2>1, <2>2 DEF EXITED, SLEEPING
  <2>3. CASE t # w
    BY <1>2, <1>4, <2>1, <2>3
  <2> QED
    BY <2>2, <2>3
<1>9. NotTooLate'
  BY LatenessRemoved
<1> QED
  BY <1>2, <1>5, <1>6, <1>7, <1>8, <1>9 DEF PInv

LEMMA CreateStep ==
  ASSUME PInv, phase = "check", phase' = "schedule", timers # <<>>,
         timers' = Tail(timers), Head(timers).wakes = OS,
         task_create(Head(timers).prio, Head(timers).ts), UNCHANGED <<current, cur_ts, exec, at>>
  PROVE  PInv'
<1> DEFINE p == Head(timers).prio  s == Head(timers).ts
<1>1. p \in Prios /\ s \in Slices /\ OS \notin Tasks
  BY TailIs, PrioAssumption DEF PInv, Queue, OS, Tasks
<1>2. /\ Queue' /\ FewTimers'
      /\ \A t \in Tasks : HasTimer(t)' <=> HasTimer(t)
      /\ \A t \in Tasks : HasTimer(t)' => Once(t)'
  BY <1>1, TimerRemoved, WakeupsNow DEF PInv
<1>3. /\ status' \in [Tasks -> Statuses] /\ prio' \in [Tasks -> Prios \cup {255}]
      /\ ts' \in [Tasks -> Slices \cup {0}] /\ ctx' \in [Tasks -> Places]
      /\ \A t \in Tasks : \/ status'[t] = status[t] /\ ctx'[t] = ctx[t]
                          \/ status[t] \in {EMPTY, EXITED} /\ ctx'[t] = "run"
      /\ msip' = msip
  <2>1. CASE UNCHANGED <<tables, ctx>>
    BY <2>1 DEF PInv, TypeOK, tables, task_create
  <2>2. ASSUME NEW t \in Tasks, SlotFree(t),
               status' = [status EXCEPT ![t] = READY], prio' = [prio EXCEPT ![t] = p],
               ts' = [ts EXCEPT ![t] = s], ctx' = new_context(t)
        PROVE  <1>3
    BY <1>1, <2>2 DEF PInv, TypeOK, SlotFree, new_context, Statuses, Places, task_create
  <2> QED
    BY <2>1, <2>2 DEF task_create
<1> HIDE DEF p, s
<1>4. TypeOK'
  <2>1. /\ current' \in Tasks \cup {OS} /\ cur_ts' \in Nat
        /\ exec' \in Tasks \cup {OS} /\ at' \in Places
        /\ phase' \in {"none", "check", "schedule"} /\ msip' \in BOOLEAN
    BY <1>3 DEF PInv, TypeOK
  <2> QED
    BY <1>2, <1>3, <2>1, TimersAreNext DEF TypeOK
<1>5. RunsHighest' /\ (exec = OS => at = "run")' /\ Executing'
  BY DEF PInv, RunsHighest, Executing
<1>6. WakeupsMeetSleepers'
  <2>1. \A t \in Tasks : HasTimer(t)' => status'[t] = SLEEPING /\ Once(t)'
    BY <1>2, <1>3, WakeupsNow DEF EMPTY, EXITED, SLEEPING
  <2> QED
    BY <1>2, <2>1, WakeupsAreNext
<1>7. Waiting'
  <2> SUFFICES ASSUME NEW t \in Tasks
               PROVE  /\ ctx'[t] \in {"exit", "exited"} => status'[t] = EXITED
                      /\ ctx'[t] = "sleep" => status'[t] = SLEEPING /\ ~ HasTimer(t)'
    BY DEF Waiting
  <2>1. /\ ctx[t] \in {"exit", "exited"} => status[t] = EXITED
        /\ ctx[t] = "sleep" => status[t] = SLEEPING /\ ~ HasTimer(t)
    BY DEF PInv, Waiting
  <2> QED
    BY <1>2, <1>3, <2>1
<1>8. NotTooLate'
  BY LatenessRemoved
<1> QED
  BY <1>2, <1>4, <1>5, <1>6, <1>7, <1>8 DEF PInv

LEMMA TimerCheckStep ==
  ASSUME PInv, timer_check
  PROVE  PInv'
<1>1. /\ phase = "check" /\ phase' = "schedule"
      /\ UNCHANGED <<current, cur_ts, exec, at>>
  BY DEF timer_check, sched
<1>2. CASE timers # <<>> /\ Due(Head(timers)) /\ Head(timers).wakes # OS
  BY <1>1, <1>2, WakeupStep DEF timer_check
<1>3. CASE timers # <<>> /\ Due(Head(timers)) /\ Head(timers).wakes = OS
  BY <1>1, <1>3, CreateStep DEF timer_check
<1>4. CASE ~ (timers # <<>> /\ Due(Head(timers)))
  BY <1>1, <1>4, NoneDueStep DEF timer_check, tables
<1> QED
  BY <1>2, <1>3, <1>4

(* Who is resumed can run, so it does not sleep and is not exiting.        *)
LEMMA ScheduleStep ==
  ASSUME AsIn151, PInv, schedule
  PROVE  PInv'
<1>1. UNCHANGED <<prio, ts, ctx, msip, timers>> /\ phase = "schedule" /\ phase' = "none"
  BY DEF schedule, switch_to_os, switch_to_task, Resume
<1>2. /\ Queue' /\ FewTimers' /\ \A t : (HasTimer(t)' <=> HasTimer(t)) /\ (Once(t)' <=> Once(t))
  BY <1>1, TimersKept DEF PInv
<1>3. NotTooLate'
  BY <1>1, LatenessKept DEF PInv
<1>4. CASE switch_to_os
  <2>1. /\ UNCHANGED <<status, current, cur_ts>> /\ exec' = OS /\ at' = "run"
        /\ \A t \in Tasks : ~ Schedulable(t)
    BY <1>4 DEF switch_to_os, sched
  <2>2. TypeOK'
    BY <1>1, <2>1 DEF PInv, TypeOK, Places
  <2>3. RunsHighest' /\ Executing' /\ (exec = OS => at = "run")'
    BY <2>1 DEF RunsHighest, Schedulable, Executing
  <2>4. WakeupsMeetSleepers'
    BY <1>1, <2>1 DEF PInv, WakeupsMeetSleepers
  <2>5. Waiting'
    BY <1>1, <1>2, <2>1 DEF PInv, Waiting
  <2> QED
    BY <1>2, <1>3, <2>2, <2>3, <2>4, <2>5 DEF PInv
<1>5. ASSUME NEW t \in Tasks, switch_to_task(t)
      PROVE  PInv'
  <2>1. /\ current' = t /\ exec' = t /\ at' = ctx[t]
        /\ status' = [status EXCEPT ![t] = RUNNING]
        /\ Schedulable(t) /\ \A u \in Tasks : Schedulable(u) => prio[t] <= prio[u]
    BY <1>5 DEF AsIn151, switch_to_task, Resume, NextTask, Highest
  <2>2. cur_ts' \in Nat
    BY <1>5 DEF PInv, TypeOK, switch_to_task, SliceCount
  <2>3. /\ status' \in [Tasks -> Statuses] /\ status'[t] = RUNNING
        /\ \A u \in Tasks : u # t => status'[u] = status[u]
    BY <2>1 DEF PInv, TypeOK, Statuses
  <2>4. /\ ctx[t] \in Places /\ ctx[t] \notin {"exit", "exited", "sleep"}
        /\ ~ HasTimer(t) /\ t # OS
    <3>1. status[t] # EXITED /\ status[t] # SLEEPING
      BY <2>1 DEF Schedulable, READY, RUNNING, EXITED, SLEEPING
    <3> QED
      BY <1>1, <3>1, WakeupsNow, PrioAssumption, SMTT(30) DEF PInv, TypeOK, Waiting, Tasks, OS
  <2>5. TypeOK'
    <3>1. /\ prio' \in [Tasks -> Prios \cup {255}] /\ ts' \in [Tasks -> Slices \cup {0}]
          /\ ctx' \in [Tasks -> Places] /\ msip' \in BOOLEAN
      BY <1>1 DEF PInv, TypeOK
    <3> QED
      BY <1>1, <1>2, <2>1, <2>2, <2>3, <2>4, <3>1, TimersAreNext DEF TypeOK
  <2>6. RunsHighest'
    <3>1. \A u \in Tasks : Schedulable(u)' => Schedulable(u)
      BY <2>1, <2>3 DEF Schedulable
    <3> QED
      BY <1>1, <2>1, <2>4, <3>1 DEF RunsHighest, OS
  <2>7. WakeupsMeetSleepers'
    BY <1>2, <2>3, <2>4, WakeupsNow, WakeupsAreNext
  <2>8. Executing' /\ (exec = OS => at = "run")'
    BY <1>2, <2>1, <2>4 DEF Executing, OS
  <2>9. Waiting'
    BY <1>1, <1>2, <2>1, <2>3 DEF PInv, Waiting
  <2> QED
    BY <1>2, <1>3, <2>5, <2>6, <2>7, <2>8, <2>9 DEF PInv
<1> QED
  BY <1>4, <1>5 DEF schedule
-----------------------------------------------------------------------------
LEMMA InitStep ==
  ASSUME Init
  PROVE  PInv
<1>1. PICK n \in Starters :
         /\ status = [t \in Tasks |-> IF t < n THEN READY ELSE EMPTY]
         /\ prio \in [Tasks -> Prios \cup {255}] /\ ts \in [Tasks -> Slices \cup {0}]
  BY DEF Init
<1>2. timers = <<>> /\ phase = "schedule" /\ exec = OS /\ at = "run"
  BY DEF Init
<1>3. TypeOK
  <2>1. status \in [Tasks -> Statuses]
    BY <1>1 DEF Statuses
  <2>2. /\ current = OS /\ cur_ts = 0 /\ msip = FALSE
        /\ ctx = [t \in Tasks |-> "run"]
    BY DEF Init
  <2>3. ctx \in [Tasks -> Places] /\ at \in Places
    BY <1>2, <2>2 DEF Places
  <2>4. phase \in {"none", "check", "schedule"} /\ msip \in BOOLEAN
    BY <1>2, <2>2
  <2>5. DOMAIN timers = {}
    BY <1>2
  <2> QED
    BY <1>1, <1>2, <2>1, <2>2, <2>3, <2>4, <2>5 DEF TypeOK
<1>4. Queue /\ NotTooLate /\ WakeupsMeetSleepers
  BY <1>2 DEF Queue, NotTooLate, WakeupsMeetSleepers
<1>5. RunsHighest /\ Executing
  BY <1>2 DEF RunsHighest, Executing
<1>6. Waiting
  BY DEF Init, Waiting
<1>7. FewTimers
  BY <1>2, SleepersAreFew, PrioAssumption DEF FewTimers
<1> QED
  BY <1>2, <1>3, <1>4, <1>5, <1>6, <1>7 DEF PInv

LEMMA NextStep ==
  ASSUME AsIn151, PInv, [Next]_vars
  PROVE  PInv'
<1>1. CASE task_yield
  BY <1>1, SetStatusStep DEF task_yield, Statuses, Places
<1>2. CASE task_exit
  BY <1>2, SetStatusStep DEF task_exit, Statuses, Places
<1>3. CASE task_sleep
  BY <1>3, SetStatusStep DEF task_sleep, Statuses, Places
<1>4. CASE raise_msip("yield", "run") \/ raise_msip("armed", "run") \/ raise_msip("exit", "exited")
  BY <1>4, RaiseMsipStep DEF Places
<1>5. CASE \E ticks \in Sleeps : sleep_timer(ticks)
  BY <1>5, SleepTimerStep
<1>6. CASE \E p \in Prios, s \in Slices, ticks \in Sleeps : creation_timer(p, s, ticks)
  BY <1>6, CreationTimerStep
<1>7. CASE os_schedule
  BY <1>7, OsScheduleStep
<1>8. CASE software_interrupt
  BY <1>8, SoftwareInterruptStep
<1>9. CASE timer_interrupt
  BY <1>9, TimerInterruptStep
<1>10. CASE timer_check
  BY <1>10, TimerCheckStep
<1>11. CASE schedule
  BY <1>11, ScheduleStep
<1>12. CASE UNCHANGED vars
  <2>1. UNCHANGED <<status, prio, ts, current, cur_ts, ctx, exec, at, phase, msip, timers>>
    BY <1>12 DEF vars, tables, sched
  <2>2. /\ Queue' /\ FewTimers' /\ \A t : (HasTimer(t)' <=> HasTimer(t)) /\ (Once(t)' <=> Once(t))
    BY <2>1, TimersKept DEF PInv
  <2>3. TypeOK' /\ RunsHighest' /\ (exec = OS => at = "run")'
    BY <2>1 DEF PInv, TypeOK, RunsHighest, Schedulable
  <2>4. WakeupsMeetSleepers'
    BY <2>1 DEF PInv, WakeupsMeetSleepers
  <2>5. Executing' /\ Waiting'
    BY <2>1, <2>2 DEF PInv, Executing, Waiting
  <2>6. NotTooLate'
    BY <2>1, LatenessKept DEF PInv
  <2> QED
    BY <2>2, <2>3, <2>4, <2>5, <2>6 DEF PInv
<1> QED
  BY <1>1, <1>2, <1>3, <1>4, <1>5, <1>6, <1>7, <1>8, <1>9, <1>10, <1>11, <1>12 DEF Next

(* In every state reached, the task that runs, those that wait and the     *)
(* timers agree (PInv).                                                    *)
THEOREM PrioInvariant ==
  ASSUME AsIn151
  PROVE  Spec => []PInv
<1>1. Init => PInv
  BY InitStep
<1>2. PInv /\ [Next]_vars => PInv'
  BY NextStep
<1> QED
  BY <1>1, <1>2, PTL DEF Spec

(* No task waits for one of lower priority, however many there are: see    *)
(* RunsHighest.                                                            *)
THEOREM HighestHasTheHart ==
  ASSUME AsIn151
  PROVE  Spec => []RunsHighest
<1>1. PInv => RunsHighest
  BY DEF PInv
<1> QED
  BY <1>1, PrioInvariant, PTL

(* task_yield, task_exit and task_sleep work on the task that calls them,  *)
(* and past task_exit a task is not resumed: see CurrentIsCaller.          *)
THEOREM CallerIsCurrent ==
  ASSUME AsIn151
  PROVE  Spec => []CurrentIsCaller
<1>1. PInv => CurrentIsCaller
  BY PrioAssumption DEF PInv, Executing, CurrentIsCaller
<1> QED
  BY <1>1, PrioInvariant, PTL

(* A wakeup meets the task that went to sleep, still asleep, and once: see *)
(* WakeupsMeetSleepers.                                                    *)
THEOREM WakeupsAreForSleepers ==
  ASSUME AsIn151
  PROVE  Spec => []WakeupsMeetSleepers
<1>1. PInv => WakeupsMeetSleepers
  BY DEF PInv
<1> QED
  BY <1>1, PrioInvariant, PTL

(* One timer fires per tick, and none is more ticks late than there can be *)
(* timers before it: see OversleepBound.                                   *)
THEOREM OversleepIsBounded ==
  ASSUME AsIn151
  PROVE  Spec => []OversleepBound
<1>1. PInv => OversleepBound
  <2> SUFFICES ASSUME PInv, NEW i \in DOMAIN timers
               PROVE  timers[i].left >= i - MostTimers
    BY DEF OversleepBound
  <2>1. /\ i \in Int /\ MostTimers \in Int /\ timers[i].left \in Int
        /\ timers[i].left >= i - MostTimers + IF phase = "check" THEN 0 ELSE 1
    BY TimersAre, PrioAssumption DEF PInv, Queue, NotTooLate, MostTimers
  <2> QED
    BY <2>1
<1> QED
  BY <1>1, PrioInvariant, PTL

---------------------------------------------------------------------------
(* Bounded waiting                                                        *)

(* A schedule that passes over a task no task outranks picks one nearer in *)
(* turn; nothing else changes whose turn it is: see TurnsComeNearer.       *)
THEOREM TurnsPass ==
  ASSUME AsIn151
  PROVE  Spec => TurnsComeNearer
<1>1. ASSUME PInv, schedule, NEW t \in Tasks, Highest(t)
      PROVE  current' = t \/ Distance(current', t) < Distance(current, t)
  <2>1. PICK n \in Tasks : switch_to_task(n)
    BY <1>1 DEF schedule, switch_to_os, Highest
  <2>2. current' = n /\ NextTask(n)
    BY <2>1 DEF switch_to_task, AsIn151
  <2>3. /\ MaxTasks \in Nat /\ n \in 0 .. MaxTasks - 1 /\ t \in 0 .. MaxTasks - 1
        /\ current \in -1 .. MaxTasks - 1
    BY <1>1, PrioAssumption DEF PInv, TypeOK, Tasks, OS
  <2>4. \/ n > current /\ (t > current => n <= t)
        \/ t <= current /\ n <= t
    BY <1>1, <2>2 DEF NextTask
  <2> QED
    BY <2>2, <2>3, <2>4 DEF Distance
<1>2. ASSUME PInv, [Next]_vars, phase # "schedule"
      PROVE  UNCHANGED current
  BY <1>2 DEF Next, task_yield, task_exit, task_sleep, raise_msip, sleep_timer, creation_timer,
     os_schedule, software_interrupt, timer_interrupt, timer_check, schedule, Goes, Runs, sched, vars
<1>3. ASSUME PInv, [Next]_vars, phase = "schedule"
      PROVE  schedule \/ UNCHANGED vars
  BY <1>3 DEF Next, task_yield, task_exit, task_sleep, raise_msip, sleep_timer, creation_timer,
     os_schedule, software_interrupt, timer_interrupt, timer_check, Runs
<1> DEFINE Passes ==
  IF phase = "schedule"
  THEN \A t \in Tasks : Highest(t) => current' = t \/ Distance(current', t) < Distance(current, t)
  ELSE UNCHANGED current
<1>4. PInv /\ [Next]_vars => [Passes]_vars
  BY <1>1, <1>2, <1>3
<1>5. TurnsComeNearer <=> [][Passes]_vars
  BY DEF TurnsComeNearer
<1> HIDE DEF Passes
<1> QED
  BY <1>4, <1>5, PrioInvariant, PTL DEF Spec
=============================================================================
