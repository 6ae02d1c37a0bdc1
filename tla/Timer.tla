------------------------------- MODULE Timer -------------------------------
(***************************************************************************)
(* The software timers (code/os/11-syscall/timer.c, as in 10-swtimer):     *)
(* timer_create, timer_delete and the tick, each as one indivisible step.  *)
(* This is the service as a task sees it; that the interrupt lock makes    *)
(* the real, interruptible calls behave so is checked in module Kernel.    *)
(*                                                                         *)
(* func and arg of a struct timer are one value of Handlers, NULL when the *)
(* slot is free.  Only tasks call timer_create and timer_delete, as        *)
(* everywhere in the repository: a handler that does enables interrupts    *)
(* inside the trap it runs in (timer.c:67, :86), and the tick is no longer *)
(* one step.  What follows from that is a matter of module Kernel.         *)
(*                                                                         *)
(* IsLastExpired, and the operators named for a slip, are mutants the      *)
(* properties are tried against.                                           *)
(***************************************************************************)
EXTENDS Integers

CONSTANTS MaxTimer,   \* MAX_TIMER
          Handlers,   \* (func, arg) pairs
          NULL,
          Timeouts,   \* values of timeout the callers pass, 0 excluded:
                      \* timer_create returns NULL at once for it
          TickMod,    \* 2^32: the modulus of uint32_t
          MaxTick,    \* bound: no tick once _tick has this value
          BehindIsNull\* what may be true of the word behind timer_list:
                      \* timer_create reads it when the table is full

ASSUME TimerAssumption ==
  /\ MaxTimer \in Nat \ {0}
  /\ NULL \notin Handlers
  /\ Timeouts \subseteq Nat \ {0}
  /\ TickMod \in Nat \ {0}
  /\ BehindIsNull \subseteq BOOLEAN /\ BehindIsNull # {}

VARIABLES tick,       \* _tick
          timer_list  \* timer_list[MAX_TIMER]

vars == <<tick, timer_list>>

Slots == 0 .. MaxTimer - 1
Ticks == 0 .. TickMod - 1
FreeSlot == [func |-> NULL, timeout_tick |-> 0]

Init ==
  /\ tick = 0
  /\ timer_list = [i \in Slots |-> FreeSlot]
-----------------------------------------------------------------------------
InUse(list, i) == list[i].func # NULL

(* The first slot that is free, where timer_create's search stops.         *)
IsFirstFree(list, i) ==
  /\ ~ InUse(list, i)
  /\ \A j \in Slots : j < i => InUse(list, j)

Full(list) == \A i \in Slots : InUse(list, i)

(* _tick >= t->timeout_tick                                                *)
Expired_a_tick_early(list, i, now) ==
  InUse(list, i) /\ now + 1 >= list[i].timeout_tick
Expired(list, i, now) == InUse(list, i) /\ now >= list[i].timeout_tick

(* The slot timer_check acts on.                                           *)
IsLastExpired(list, i, now) ==
  /\ Expired(list, i, now)
  /\ \A j \in Slots : j > i => ~ Expired(list, j, now)
IsFirstExpired(list, i, now) ==
  /\ Expired(list, i, now)
  /\ \A j \in Slots : j < i => ~ Expired(list, j, now)

(* func and arg are reset, timeout_tick keeps its value.                   *)
Cleared_but_func(list, i) == [list EXCEPT ![i].timeout_tick = 0]
Cleared(list, i) == [list EXCEPT ![i].func = NULL]

Armed(list, i, h, timeout, now) ==
  [list EXCEPT ![i] = [func |-> h, timeout_tick |-> (now + timeout) % TickMod]]

(* timer_create: the list afterwards, unchanged when it is full.  Then the *)
(* search has stopped behind the table, and what timer_create takes for    *)
(* the func of a slot is other memory (the first page descriptors, as      *)
(* os.ld places it): if that is NULL the timer is written there and the    *)
(* caller gets a pointer to it, but timer_check does not look there.       *)
Created(list, h, timeout, now) ==
  IF Full(list) THEN {list}
  ELSE {Armed(list, i, h, timeout, now) : i \in {j \in Slots : IsFirstFree(list, j)}}

(* The handler the caller believes to be armed: h, or NULL.                *)
Answers(list, h) ==
  IF Full(list) THEN {IF b THEN h ELSE NULL : b \in BehindIsNull} ELSE {h}

timer_create(h, timeout) ==
  /\ timer_list' \in Created(timer_list, h, timeout, tick)
  /\ UNCHANGED tick

(* timer_delete of a pointer to slot i, whatever the slot now holds.       *)
timer_delete(i) ==
  /\ timer_list' = Cleared(timer_list, i)
  /\ UNCHANGED tick

Now == (tick + 1) % TickMod

(* The tick, when it finds slot i expired: its handler runs and the slot   *)
(* is freed after it; later slots wait for another tick.                   *)
Fire(i) ==
  /\ IsFirstExpired(timer_list, i, Now)
  /\ timer_list' = Cleared(timer_list, i)

(* timer_handler up to its call of schedule: count the tick, check.        *)
timer_handler ==
  /\ tick # MaxTick
  /\ tick' = Now
  /\ \/ /\ \A i \in Slots : ~ Expired(timer_list, i, Now)
        /\ UNCHANGED timer_list
     \/ \E i \in Slots : Fire(i)

Next ==
  \/ \E h \in Handlers, timeout \in Timeouts : timer_create(h, timeout)
  \/ \E i \in Slots : timer_delete(i)
  \/ timer_handler

Spec == Init /\ [][Next]_vars
=============================================================================
