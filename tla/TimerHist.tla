----------------------------- MODULE TimerHist -----------------------------
(***************************************************************************)
(* Module Timer with a record of what its callers are owed, to state what  *)
(* they may rely on.  The record is ghost state: nothing in timer.c reads  *)
(* it.                                                                     *)
(***************************************************************************)
EXTENDS Timer

VARIABLES owed,   \* handlers whose timer_create returned a pointer and
                  \* that have neither run nor been deleted since
          stray,  \* those of them whose timer was created on a full table
          left    \* for every slot, the ticks until its timer is due;
                  \* 0 or less: the timer is late

hvars == <<tick, timer_list, owed, stray, left>>

HInit ==
  /\ Init
  /\ owed = {} /\ stray = {}
  /\ left = [i \in Slots |-> 0]

(* A caller creates a timer under a (func, arg) pair that is not in use,   *)
(* so that owed can tell timers apart.                                     *)
HCreate(h, timeout) ==
  /\ h \notin owed
  /\ timer_create(h, timeout)
  /\ \E a \in Answers(timer_list, h) :
       /\ owed' = owed \cup ({a} \ {NULL})
       /\ stray' = stray \cup {x \in {a} \ {NULL} : Full(timer_list)}
  /\ left' = [i \in Slots |->
                IF ~ Full(timer_list) /\ IsFirstFree(timer_list, i)
                THEN timeout ELSE left[i]]

HDelete(i) ==
  /\ timer_delete(i)
  /\ owed' = owed \ {timer_list[i].func}
  /\ UNCHANGED <<stray, left>>

(* timer_delete of the pointer behind the table: its search ends without   *)
(* having found a slot, and nothing happens but that the caller believes   *)
(* the timer to be gone.                                                   *)
HDeleteStray(h) ==
  /\ h \in stray
  /\ owed' = owed \ {h} /\ stray' = stray \ {h}
  /\ UNCHANGED <<tick, timer_list, left>>

HFire(i) ==
  /\ Fire(i)
  /\ owed' = owed \ {timer_list[i].func}
  /\ left' = [j \in Slots |-> left[j] - 1]

HIdleTick ==
  /\ \A i \in Slots : ~ Expired(timer_list, i, Now)
  /\ left' = [i \in Slots |-> left[i] - 1]
  /\ UNCHANGED <<timer_list, owed>>

HTick ==
  /\ tick # MaxTick
  /\ tick' = Now
  /\ (\E i \in Slots : HFire(i)) \/ HIdleTick
  /\ UNCHANGED stray

HNext ==
  \/ \E h \in Handlers, timeout \in Timeouts : HCreate(h, timeout)
  \/ \E i \in Slots : HDelete(i)
  \/ \E h \in Handlers : HDeleteStray(h)
  \/ HTick

HSpec == HInit /\ [][HNext]_hvars
-----------------------------------------------------------------------------
TypeOK ==
  /\ tick \in Ticks
  /\ timer_list \in [Slots -> [func : Handlers \cup {NULL}, timeout_tick : Ticks]]
  /\ owed \subseteq Handlers /\ stray \subseteq Handlers
  /\ left \in [Slots -> Int]

(* The only timers timer_create promises and timer_check never sees are    *)
(* those created on a full table, when the word behind it (timer.c:58)     *)
(* happens to be NULL.  Every other timer a caller waits for is in a slot  *)
(* of its own until it fires or is deleted (also by mistake, through a     *)
(* pointer to an earlier timer of that slot), however often slots are      *)
(* freed and filled again meanwhile; and no slot holds a timer that has    *)
(* fired, was deleted, or was written behind the table.                    *)
LostOnlyWhenFull ==
  /\ stray \subseteq owed
  /\ owed \ stray = {timer_list[i].func : i \in Slots} \ {NULL}
  /\ \A i, j \in Slots :
        i # j /\ InUse(timer_list, i) => timer_list[i].func # timer_list[j].func

(* A timer fires at the tick it is due or later, never before.  It holds   *)
(* only as long as _tick + timeout does not wrap.                          *)
NeverEarly ==
  [][\A i \in Slots : (tick' # tick /\ Fire(i)) => left[i] <= 1]_hvars

(* One timer fires per tick, the lowest slot first (timer.c:105).  When    *)
(* no timeout is shorter than the table is long, a slot overtakes a later  *)
(* one at most once while that one is due, so slot i is at most i ticks    *)
(* late.                                                                   *)
LatenessBound ==
  (\A timeout \in Timeouts : timeout >= MaxTimer) =>
    \A i \in Slots : InUse(timer_list, i) => left[i] >= 1 - i
=============================================================================
