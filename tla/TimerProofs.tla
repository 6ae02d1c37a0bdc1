---------------------------- MODULE TimerProofs ----------------------------
(***************************************************************************)
(* The software timers for any size of the table: which timers are lost,   *)
(* that none fires early, and how late one may fire.                       *)
(***************************************************************************)
EXTENDS TimerHist, FiniteSetTheorems, TLAPS

USE TimerAssumption

(* _tick + timeout does not wrap.                                          *)
NoWrap ==
  /\ MaxTick \in 0 .. TickMod - 1
  /\ \A timeout \in Timeouts : MaxTick + timeout < TickMod
-----------------------------------------------------------------------------
(* What a step can do.                                                     *)
Arms(j, h, timeout) ==
  /\ ~ InUse(timer_list, j) /\ h \notin owed
  /\ timer_list' = Armed(timer_list, j, h, timeout, tick)
  /\ owed' = owed \cup {h} /\ left' = [left EXCEPT ![j] = timeout]
  /\ UNCHANGED <<tick, stray>>

Strays(h) ==
  /\ h \notin owed /\ Full(timer_list)
  /\ owed' = owed \cup {h} /\ stray' = stray \cup {h}
  /\ UNCHANGED <<tick, timer_list, left>>

Deletes(i) ==
  /\ timer_list' = Cleared(timer_list, i)
  /\ owed' = owed \ {timer_list[i].func} /\ UNCHANGED <<tick, stray, left>>

Ticking == tick # MaxTick /\ tick' = Now /\ stray' = stray

Idles ==
  /\ Ticking /\ \A i \in Slots : ~ Expired(timer_list, i, Now)
  /\ left' = [i \in Slots |-> left[i] - 1] /\ UNCHANGED <<timer_list, owed>>

Fires(i) ==
  /\ Ticking /\ IsFirstExpired(timer_list, i, Now)
  /\ timer_list' = Cleared(timer_list, i)
  /\ owed' = owed \ {timer_list[i].func} /\ left' = [k \in Slots |-> left[k] - 1]

Lists == [Slots -> [func : Handlers \cup {NULL}, timeout_tick : Ticks]]

LEMMA TickArith ==
  /\ \A n \in Nat : n % TickMod \in Ticks
  /\ tick \in Ticks => Now \in Ticks
  BY DEF Ticks, Now

(* The tick at which a timer is due.                                       *)
DueAt(now, timeout) == (now + timeout) % TickMod

LEMMA DueAtTick == \A timeout \in Timeouts, now \in Ticks : DueAt(now, timeout) \in Ticks
  BY DEF DueAt, Ticks

LEMMA ClearedIs ==
  ASSUME NEW list \in Lists, NEW i \in Slots
  PROVE  /\ Cleared(list, i) \in Lists
         /\ Cleared(list, i)[i].func = NULL
         /\ \A k \in Slots : k # i => Cleared(list, i)[k] = list[k]
  BY DEF Cleared, Lists

LEMMA ArmedIs ==
  ASSUME NEW list \in Lists, NEW i \in Slots, NEW h \in Handlers, NEW timeout \in Timeouts,
         NEW now \in Ticks
  PROVE  /\ Armed(list, i, h, timeout, now) \in Lists
         /\ Armed(list, i, h, timeout, now)[i].func = h
         /\ Armed(list, i, h, timeout, now)[i].timeout_tick = DueAt(now, timeout)
         /\ \A k \in Slots : k # i => Armed(list, i, h, timeout, now)[k] = list[k]
<1>1. Armed(list, i, h, timeout, now)
        = [list EXCEPT ![i] = [func |-> h, timeout_tick |-> DueAt(now, timeout)]]
  BY DEF Armed, DueAt
<1> QED
  BY <1>1, DueAtTick DEF Lists

(* What timer_create can have done when it returns.                        *)
LEMMA CreatedIs ==
  ASSUME NEW list \in Lists, NEW h \in Handlers, NEW timeout \in Timeouts, NEW now,
         NEW l \in Created(list, h, timeout, now), NEW a \in Answers(list, h)
  PROVE  \/ Full(list) /\ l = list /\ a = NULL
         \/ Full(list) /\ l = list /\ a = h
         \/ /\ a = h /\ ~ Full(list)
            /\ \E j \in Slots : IsFirstFree(list, j) /\ l = Armed(list, j, h, timeout, now)
  BY DEF Created, Answers

(* Every step is one of the above, or does nothing at all.                 *)
LEMMA Steps ==
  ASSUME TypeOK, HNext
  PROVE  \/ UNCHANGED hvars
         \/ \E j \in Slots, h \in Handlers, timeout \in Timeouts : Arms(j, h, timeout)
         \/ \E h \in Handlers : Strays(h)
         \/ \E h \in Handlers : HDeleteStray(h)
         \/ \E i \in Slots : Deletes(i)
         \/ Idles
         \/ \E i \in Slots : Fires(i)
<1>1. timer_list \in Lists /\ left \in [Slots -> Int] /\ owed \subseteq Handlers
      /\ stray \subseteq Handlers
  BY DEF TypeOK, Lists
<1>2. ASSUME NEW h \in Handlers, NEW timeout \in Timeouts, HCreate(h, timeout)
      PROVE  UNCHANGED hvars \/ Strays(h) \/ \E j \in Slots : Arms(j, h, timeout)
  <2>1. /\ h \notin owed /\ timer_list' \in Created(timer_list, h, timeout, tick) /\ tick' = tick
        /\ left' = [i \in Slots |->
                      IF ~ Full(timer_list) /\ IsFirstFree(timer_list, i) THEN timeout ELSE left[i]]
    BY <1>2 DEF HCreate, timer_create
  <2>2. PICK a \in Answers(timer_list, h) :
               /\ owed' = owed \cup ({a} \ {NULL})
               /\ stray' = stray \cup {x \in {a} \ {NULL} : Full(timer_list)}
    BY <1>2 DEF HCreate
  <2>3. CASE Full(timer_list) /\ timer_list' = timer_list
    <3>1. left' = left
      BY <1>1, <2>1, <2>3
    <3>2. CASE a = NULL
      BY <2>1, <2>2, <2>3, <3>1, <3>2 DEF hvars
    <3>3. CASE a = h
      BY <2>1, <2>2, <2>3, <3>1, <3>3 DEF Strays
    <3> QED
      BY <1>1, <2>1, <3>2, <3>3, CreatedIs
  <2>4. CASE /\ a = h /\ ~ Full(timer_list)
             /\ \E j \in Slots : IsFirstFree(timer_list, j)
                                 /\ timer_list' = Armed(timer_list, j, h, timeout, tick)
    <3>1. PICK j \in Slots : /\ IsFirstFree(timer_list, j)
                             /\ timer_list' = Armed(timer_list, j, h, timeout, tick)
      BY <2>4
    <3>2. \A i \in Slots : IsFirstFree(timer_list, i) <=> i = j
      BY <3>1 DEF IsFirstFree, Slots
    <3>3. left' = [left EXCEPT ![j] = timeout]
      BY <1>1, <2>1, <2>4, <3>2
    <3>4. owed' = owed \cup {h} /\ stray' = stray
      BY <2>2, <2>4
    <3> QED
      BY <2>1, <3>1, <3>3, <3>4 DEF Arms, IsFirstFree
  <2> QED
    BY <1>1, <2>1, <2>3, <2>4, CreatedIs
<1>3. ASSUME NEW i \in Slots, HDelete(i) PROVE Deletes(i)
  BY <1>3 DEF HDelete, timer_delete, Deletes
<1>4. ASSUME NEW i \in Slots, HFire(i), HTick PROVE Fires(i)
  BY <1>4 DEF HTick, HFire, Fire, Fires, Ticking
<1>5. ASSUME HIdleTick, HTick PROVE Idles
  BY <1>5 DEF HTick, HIdleTick, Idles, Ticking
<1> QED
  BY <1>2, <1>3, <1>4, <1>5 DEF HNext, HTick
-----------------------------------------------------------------------------
(* Who waits.  Nothing of this depends on the time.                        *)
OwedInv == TypeOK /\ LostOnlyWhenFull

LEMMA OwedStep ==
  ASSUME OwedInv, [HNext]_hvars
  PROVE  OwedInv'
<1>1. /\ timer_list \in Lists /\ left \in [Slots -> Int] /\ owed \subseteq Handlers
      /\ tick \in Ticks /\ Now \in Ticks /\ stray \subseteq owed
      /\ owed \ stray = {timer_list[i].func : i \in Slots} \ {NULL}
      /\ \A i, j \in Slots : i # j /\ timer_list[i].func # NULL
                              => timer_list[i].func # timer_list[j].func
  BY TickArith DEF OwedInv, TypeOK, LostOnlyWhenFull, Lists, InUse
<1> DEFINE Kept == /\ stray' \subseteq owed'
                   /\ owed' \ stray' = {timer_list'[i].func : i \in Slots} \ {NULL}
                   /\ \A i, j \in Slots : i # j /\ timer_list'[i].func # NULL
                                           => timer_list'[i].func # timer_list'[j].func
<1>2. /\ tick' \in Ticks /\ timer_list' \in Lists /\ owed' \subseteq Handlers
      /\ left' \in [Slots -> Int] /\ Kept
      => OwedInv'
  BY DEF OwedInv, TypeOK, LostOnlyWhenFull, Lists, InUse
<1> HIDE DEF Kept
<1>3. CASE UNCHANGED hvars
  BY <1>1, <1>2, <1>3 DEF hvars, Kept
<1>4. ASSUME NEW j \in Slots, NEW h \in Handlers, NEW timeout \in Timeouts, Arms(j, h, timeout)
      PROVE  OwedInv'
  <2>1. /\ timer_list[j].func = NULL /\ h \notin owed /\ h # NULL
        /\ timer_list' = Armed(timer_list, j, h, timeout, tick)
        /\ owed' = owed \cup {h} /\ left' = [left EXCEPT ![j] = timeout]
        /\ tick' = tick /\ stray' = stray
    BY <1>4 DEF Arms, InUse
  <2>2. /\ timer_list' \in Lists /\ timer_list'[j].func = h
        /\ \A k \in Slots : k # j => timer_list'[k] = timer_list[k]
    BY <1>1, <2>1, ArmedIs
  <2>3. Kept
    BY <1>1, <2>1, <2>2 DEF Kept
  <2> QED
    BY <1>1, <1>2, <2>1, <2>2, <2>3
<1>5. ASSUME NEW i \in Slots, timer_list' = Cleared(timer_list, i),
             owed' = owed \ {timer_list[i].func}, stray' = stray,
             left' \in [Slots -> Int], tick' \in Ticks
      PROVE  OwedInv'
  <2>1. /\ timer_list' \in Lists /\ timer_list'[i].func = NULL
        /\ \A k \in Slots : k # i => timer_list'[k] = timer_list[k]
    BY <1>1, <1>5, ClearedIs
  <2>2. timer_list[i].func \notin stray
    BY <1>1 DEF Lists
  <2>3. Kept
    BY <1>1, <1>5, <2>1, <2>2 DEF Kept
  <2> QED
    BY <1>1, <1>2, <1>5, <2>1, <2>3
<1>6. ASSUME NEW i \in Slots, Deletes(i) PROVE OwedInv'
  BY <1>1, <1>5, <1>6 DEF Deletes
<1>7. CASE Idles
  BY <1>1, <1>2, <1>7 DEF Idles, Ticking, Kept
<1>8. ASSUME NEW i \in Slots, Fires(i) PROVE OwedInv'
  <2>1. left' \in [Slots -> Int]
    BY <1>1, <1>8 DEF Fires
  <2> QED
    BY <1>1, <1>5, <1>8, <2>1 DEF Fires, Ticking
<1>9. ASSUME NEW h \in Handlers, Strays(h) PROVE OwedInv'
  BY <1>1, <1>2, <1>9 DEF Strays, Kept
<1>10. ASSUME NEW h \in Handlers, HDeleteStray(h) PROVE OwedInv'
  BY <1>1, <1>2, <1>10 DEF HDeleteStray, Kept
<1> QED
  BY <1>3, <1>4, <1>6, <1>7, <1>8, <1>9, <1>10, Steps DEF OwedInv

LEMMA OwedInvariant == HSpec => []OwedInv
<1>1. HInit => OwedInv
  BY DEF HInit, Init, OwedInv, TypeOK, LostOnlyWhenFull, InUse, Ticks, FreeSlot
<1>2. OwedInv /\ [HNext]_hvars => OwedInv'
  BY OwedStep
<1> QED
  BY <1>1, <1>2, PTL DEF HSpec

(* The types of the table and its ghosts.                                  *)
THEOREM TimerTypeCorrect == HSpec => []TypeOK
<1>1. OwedInv => TypeOK
  BY DEF OwedInv
<1> QED
  BY <1>1, OwedInvariant, PTL

(* A timer that timer_create has promised waits in a slot of its own until *)
(* it fires or is deleted, unless it was created on a full table, and no   *)
(* other timer fires: whatever the word behind the table is at each call.  *)
THEOREM TimersLostOnlyWhenFull == HSpec => []LostOnlyWhenFull
<1>1. OwedInv => LostOnlyWhenFull
  BY DEF OwedInv
<1> QED
  BY <1>1, OwedInvariant, PTL
-----------------------------------------------------------------------------
(* When timers are due.                                                    *)
DueInv ==
  /\ OwedInv /\ tick <= MaxTick
  /\ \A i \in Slots : InUse(timer_list, i) => timer_list[i].timeout_tick = tick + left[i]

LEMMA NoWrapArith ==
  ASSUME NoWrap, tick \in Ticks, tick <= MaxTick
  PROVE  /\ \A timeout \in Timeouts : DueAt(tick, timeout) = tick + timeout
         /\ tick # MaxTick => Now = tick + 1 /\ Now <= MaxTick
<1>1. \A n \in 0 .. TickMod - 1 : n % TickMod = n
  OBVIOUS
<1>2. tick \in Nat /\ MaxTick \in Nat /\ MaxTick < TickMod /\ TickMod \in Nat
  BY DEF NoWrap, Ticks
<1>3. \A timeout \in Timeouts : timeout \in Nat /\ MaxTick + timeout < TickMod
  BY DEF NoWrap
<1>4. \A timeout \in Timeouts : tick + timeout \in 0 .. TickMod - 1
  BY <1>2, <1>3
<1>5. tick # MaxTick => tick + 1 \in 0 .. TickMod - 1
  BY <1>2
<1>6. tick # MaxTick => Now = tick + 1 /\ Now <= MaxTick
  BY <1>1, <1>2, <1>5 DEF Now
<1> QED
  BY <1>1, <1>4, <1>6 DEF DueAt

LEMMA DueStep ==
  ASSUME NoWrap, DueInv, [HNext]_hvars
  PROVE  DueInv'
<1>1. /\ timer_list \in Lists /\ left \in [Slots -> Int] /\ tick \in Ticks /\ tick \in Int
      /\ Now \in Ticks /\ tick <= MaxTick /\ OwedInv
      /\ \A i \in Slots : timer_list[i].func # NULL
                           => timer_list[i].timeout_tick = tick + left[i]
  BY TickArith DEF DueInv, OwedInv, TypeOK, Lists, InUse, Ticks
<1>2. OwedInv'
  BY <1>1, OwedStep
<1> DEFINE Due == \A i \in Slots : timer_list'[i].func # NULL
                                   => timer_list'[i].timeout_tick = tick' + left'[i]
<1>3. tick' <= MaxTick /\ Due => DueInv'
  BY <1>2 DEF DueInv, InUse
<1> HIDE DEF Due
<1>4. CASE UNCHANGED <<tick, timer_list, left>>
  BY <1>1, <1>3, <1>4 DEF Due
<1>5. ASSUME NEW j \in Slots, NEW h \in Handlers, NEW timeout \in Timeouts, Arms(j, h, timeout)
      PROVE  DueInv'
  <2>1. /\ timer_list' = Armed(timer_list, j, h, timeout, tick) /\ tick' = tick
        /\ left' = [left EXCEPT ![j] = timeout]
    BY <1>5 DEF Arms
  <2>2. /\ timer_list'[j].timeout_tick = tick + timeout
        /\ \A k \in Slots : k # j => timer_list'[k] = timer_list[k]
    <3>1. DueAt(tick, timeout) = tick + timeout
      BY <1>1, NoWrapArith
    <3>2. timer_list \in Lists /\ tick \in Ticks
      BY <1>1
    <3>3. /\ Armed(timer_list, j, h, timeout, tick)[j].timeout_tick = DueAt(tick, timeout)
          /\ \A k \in Slots : k # j => Armed(timer_list, j, h, timeout, tick)[k] = timer_list[k]
      BY ONLY <3>2, ArmedIs, j \in Slots, h \in Handlers, timeout \in Timeouts
    <3> QED
      BY <2>1, <3>1, <3>3
  <2> QED
    BY <1>1, <1>3, <2>1, <2>2 DEF Due
<1>6. ASSUME NEW i \in Slots, Deletes(i) PROVE DueInv'
  <2>1. /\ timer_list'[i].func = NULL /\ tick' = tick /\ left' = left
        /\ \A k \in Slots : k # i => timer_list'[k] = timer_list[k]
    BY <1>1, <1>6, ClearedIs DEF Deletes
  <2> QED
    BY <1>1, <1>3, <2>1 DEF Due
<1>7. CASE Idles
  <2>1. tick' = tick + 1 /\ tick' <= MaxTick
    BY <1>1, <1>7, NoWrapArith DEF Idles, Ticking
  <2> QED
    BY <1>1, <1>3, <1>7, <2>1 DEF Idles, Due
<1>8. ASSUME NEW i \in Slots, Fires(i) PROVE DueInv'
  <2>1. /\ timer_list'[i].func = NULL /\ tick' = tick + 1 /\ tick' <= MaxTick
        /\ \A k \in Slots : k # i => timer_list'[k] = timer_list[k]
        /\ left' = [k \in Slots |-> left[k] - 1]
    BY <1>1, <1>8, ClearedIs, NoWrapArith DEF Fires, Ticking
  <2> QED
    BY <1>1, <1>3, <2>1 DEF Due
<1>9. UNCHANGED hvars \/ (\E h \in Handlers : Strays(h)) \/ (\E h \in Handlers : HDeleteStray(h))
      => UNCHANGED <<tick, timer_list, left>>
  BY DEF hvars, Strays, HDeleteStray
<1> QED
  BY <1>1, <1>4, <1>5, <1>6, <1>7, <1>8, <1>9, Steps DEF OwedInv

LEMMA DueInvariant ==
  ASSUME NoWrap PROVE HSpec => []DueInv
<1>1. HInit => DueInv
  BY DEF HInit, Init, DueInv, OwedInv, TypeOK, LostOnlyWhenFull, InUse, Ticks, FreeSlot, NoWrap
<1>2. DueInv /\ [HNext]_hvars => DueInv'
  BY DueStep
<1> QED
  BY <1>1, <1>2, PTL DEF HSpec

(* No timer fires before it is due.                                        *)
THEOREM NoTimerEarly ==
  ASSUME NoWrap PROVE HSpec => NeverEarly
<1>1. ASSUME DueInv, NEW i \in Slots, [HNext]_hvars, tick' # tick, Fire(i)
      PROVE  left[i] <= 1
  <2>1. /\ InUse(timer_list, i) /\ Now >= timer_list[i].timeout_tick
        /\ timer_list[i].timeout_tick = tick + left[i]
        /\ left[i] \in Int /\ tick \in Ticks /\ tick \in Int /\ tick <= MaxTick
    BY <1>1 DEF Fire, IsFirstExpired, Expired, DueInv, OwedInv, TypeOK, Ticks
  <2>2. tick # MaxTick
    BY <1>1 DEF hvars, HNext, HCreate, timer_create, HDelete, timer_delete, HDeleteStray, HTick
  <2>3. Now = tick + 1
    BY <2>1, <2>2, NoWrapArith
  <2> QED
    BY <2>1, <2>3
<1>2. DueInv /\ [HNext]_hvars =>
        [\A i \in Slots : (tick' # tick /\ Fire(i)) => left[i] <= 1]_hvars
  BY <1>1
<1> QED
  BY <1>2, DueInvariant, PTL DEF HSpec, NeverEarly
-----------------------------------------------------------------------------
(* How late a timer can be.  A timer that is late by l ticks (left is -l)  *)
(* has been overtaken once in each of l + 1 ticks, every time by another   *)
(* of the slots before it: who has just fired is free or due in MaxTimer   *)
(* ticks or more.                                                          *)
LongTimeouts == \A timeout \in Timeouts : timeout >= MaxTimer

HaveOvertaken(i) ==
  {j \in 0 .. i - 1 : InUse(timer_list, j) => left[j] >= MaxTimer + left[i]}

LateInv ==
  DueInv /\ \A i \in Slots : InUse(timer_list, i) /\ left[i] <= 0
                             => Cardinality(HaveOvertaken(i)) >= 1 - left[i]

LEMMA OvertakenAreFinite ==
  ASSUME NEW i \in Slots
  PROVE  IsFiniteSet(HaveOvertaken(i)) /\ Cardinality(HaveOvertaken(i)) \in 0 .. i
<1> DEFINE S == 0 .. i - 1
<1>1. IsFiniteSet(S) /\ Cardinality(S) = i
  BY FS_Interval DEF Slots
<1>2. HaveOvertaken(i) \in SUBSET S
  BY DEF HaveOvertaken
<1> HIDE DEF S
<1>3. IsFiniteSet(HaveOvertaken(i)) /\ Cardinality(HaveOvertaken(i)) <= i
  BY <1>1, <1>2, FS_Subset
<1>4. Cardinality(HaveOvertaken(i)) \in Nat
  BY <1>3, FS_CardinalityType
<1> QED
  BY <1>3, <1>4 DEF Slots

LEMMA LateMeansBounded ==
  ASSUME LateInv
  PROVE  \A i \in Slots : InUse(timer_list, i) => left[i] >= 1 - i
<1> SUFFICES ASSUME NEW i \in Slots, InUse(timer_list, i)
             PROVE  left[i] >= 1 - i
  OBVIOUS
<1>1. left[i] \in Int /\ i \in Nat
  BY DEF LateInv, DueInv, OwedInv, TypeOK, Slots
<1>2. CASE left[i] <= 0
  BY <1>1, <1>2, OvertakenAreFinite DEF LateInv
<1>3. CASE left[i] > 0
  BY <1>1, <1>3
<1> QED
  BY <1>1, <1>2, <1>3

(* It is enough that the set of those who have overtaken i grows with the  *)
(* lateness of i.                                                          *)
LEMMA LateGrows ==
  ASSUME LateInv, DueInv', NEW i \in Slots, InUse(timer_list, i), left[i] <= 0,
         left'[i] = left[i] \/ left'[i] = left[i] - 1,
         HaveOvertaken(i) \subseteq HaveOvertaken(i)',
         left'[i] = left[i] - 1 => \E j \in HaveOvertaken(i)' : j \notin HaveOvertaken(i)
  PROVE  Cardinality(HaveOvertaken(i)') >= 1 - left'[i]
<1>1. left[i] \in Int /\ Cardinality(HaveOvertaken(i)) >= 1 - left[i]
  BY DEF LateInv, DueInv, OwedInv, TypeOK
<1>2. IsFiniteSet(HaveOvertaken(i)') /\ Cardinality(HaveOvertaken(i)') \in Nat
  <2>1. IsFiniteSet(0 .. i - 1)
    BY FS_Interval DEF Slots
  <2>2. HaveOvertaken(i)' \in SUBSET (0 .. i - 1)
    BY DEF HaveOvertaken
  <2> QED
    BY <2>1, <2>2, FS_Subset, FS_CardinalityType
<1>3. IsFiniteSet(HaveOvertaken(i)) /\ Cardinality(HaveOvertaken(i)) \in Nat
  BY OvertakenAreFinite DEF Slots
<1>4. CASE left'[i] = left[i]
  <2>1. Cardinality(HaveOvertaken(i)) <= Cardinality(HaveOvertaken(i)')
    BY <1>2, FS_Subset
  <2> QED
    BY <1>1, <1>2, <1>3, <1>4, <2>1
<1>5. CASE left'[i] = left[i] - 1
  <2>1. PICK j \in HaveOvertaken(i)' : j \notin HaveOvertaken(i)
    BY <1>5
  <2>2. /\ HaveOvertaken(i) \cup {j} \subseteq HaveOvertaken(i)'
        /\ Cardinality(HaveOvertaken(i) \cup {j}) = Cardinality(HaveOvertaken(i)) + 1
    BY <1>3, <2>1, FS_AddElement
  <2>3. Cardinality(HaveOvertaken(i) \cup {j}) <= Cardinality(HaveOvertaken(i)')
    BY <1>2, <2>2, FS_Subset
  <2> QED
    BY <1>1, <1>2, <1>3, <1>5, <2>2, <2>3
<1> QED
  BY <1>4, <1>5

LEMMA LateStep ==
  ASSUME NoWrap, LongTimeouts, LateInv, [HNext]_hvars
  PROVE  LateInv'
<1>1. /\ DueInv /\ DueInv'
      /\ timer_list \in Lists /\ left \in [Slots -> Int]
      /\ timer_list' \in Lists /\ left' \in [Slots -> Int] /\ tick \in Ticks /\ tick \in Int
  BY DueStep DEF LateInv, DueInv, OwedInv, TypeOK, Lists, Ticks
<1>2. \A i \in Slots : i \in Int /\ MaxTimer \in Int /\ i < MaxTimer
                       /\ \A j \in 0 .. i - 1 : j \in Slots /\ j < i
  BY DEF Slots
<1>3. \A i \in Slots : InUse(timer_list, i) => left[i] >= 1 - i
  BY LateMeansBounded DEF LateInv
<1> SUFFICES ASSUME NEW i \in Slots, InUse(timer_list, i)', left'[i] <= 0
             PROVE  Cardinality(HaveOvertaken(i)') >= 1 - left'[i]
  BY <1>1 DEF LateInv
<1>4. CASE UNCHANGED <<tick, timer_list, left>>
  BY <1>4 DEF LateInv, HaveOvertaken, InUse
<1>5. ASSUME NEW j \in Slots, NEW h \in Handlers, NEW timeout \in Timeouts, Arms(j, h, timeout)
      PROVE  Cardinality(HaveOvertaken(i)') >= 1 - left'[i]
  <2>1. /\ left' = [left EXCEPT ![j] = timeout] /\ timeout >= MaxTimer /\ timeout \in Nat \ {0}
        /\ \A k \in Slots : k # j => timer_list'[k] = timer_list[k]
    <3>1. timer_list \in Lists /\ tick \in Ticks
      BY <1>1
    <3>2. \A k \in Slots : k # j => Armed(timer_list, j, h, timeout, tick)[k] = timer_list[k]
      BY ONLY <3>1, ArmedIs, j \in Slots, h \in Handlers, timeout \in Timeouts
    <3> QED
      BY <1>5, <3>2 DEF Arms, LongTimeouts
  <2>2. i # j /\ left'[i] = left[i] /\ left[i] <= 0 /\ InUse(timer_list, i)
    BY <1>1, <2>1 DEF InUse
  <2>3. HaveOvertaken(i) \subseteq HaveOvertaken(i)'
    BY <1>1, <1>2, <2>1, <2>2 DEF HaveOvertaken, InUse
  <2> QED
    BY <1>1, <2>2, <2>3, LateGrows
<1>6. ASSUME NEW d \in Slots, Deletes(d) PROVE Cardinality(HaveOvertaken(i)') >= 1 - left'[i]
  <2>1. /\ left' = left /\ timer_list'[d].func = NULL
        /\ \A k \in Slots : k # d => timer_list'[k] = timer_list[k]
    BY <1>1, <1>6, ClearedIs DEF Deletes
  <2>2. InUse(timer_list, i) /\ left[i] <= 0
    BY <2>1 DEF InUse
  <2>3. HaveOvertaken(i) \subseteq HaveOvertaken(i)'
    BY <1>2, <2>1 DEF HaveOvertaken, InUse
  <2> QED
    BY <1>1, <2>1, <2>2, <2>3, LateGrows
<1>7. CASE Idles
  <2>1. ~ Expired(timer_list, i, Now) /\ Now = tick + 1 /\ timer_list' = timer_list
        /\ left'[i] = left[i] - 1
    BY <1>1, <1>7, NoWrapArith DEF Idles, Ticking, DueInv
  <2>2. InUse(timer_list, i) /\ timer_list[i].timeout_tick = tick + left[i]
    BY <1>1, <2>1 DEF InUse, DueInv
  <2> QED
    BY <1>1, <2>1, <2>2 DEF Expired
(* The tick at which another slot f fires, while i is due.                 *)
<1>8. ASSUME NEW f \in Slots, Ticking, IsFirstExpired(timer_list, f, Now), f # i,
             InUse(timer_list, i), left'[i] = left[i] - 1, timer_list'[f].func = NULL,
             \A k \in Slots : k # f => timer_list'[k] = timer_list[k]
                                      /\ left'[k] = left[k] - 1
      PROVE  Cardinality(HaveOvertaken(i)') >= 1 - left'[i]
  <2>1. /\ Now = tick + 1 /\ left[i] <= 1
        /\ timer_list[i].timeout_tick = tick + left[i]
        /\ timer_list[f].timeout_tick = tick + left[f] /\ InUse(timer_list, f)
        /\ Now >= timer_list[f].timeout_tick
    BY <1>1, <1>8, NoWrapArith DEF Ticking, DueInv, IsFirstExpired, Expired
  <2>2. Expired(timer_list, i, Now) /\ f < i /\ left[f] <= 1
    BY <1>1, <1>2, <1>8, <2>1 DEF Expired, IsFirstExpired
  <2>3. f \in HaveOvertaken(i)'
    BY <1>2, <1>8, <2>2 DEF HaveOvertaken, InUse, Slots
  <2>4. left[i] \in Int /\ left[f] \in Int
    BY <1>1, <1>8
  <2>5. CASE left[i] = 1
    <3>1. IsFiniteSet(HaveOvertaken(i)')
      <4>1. IsFiniteSet(0 .. i - 1)
        BY <1>2, FS_Interval
      <4>2. HaveOvertaken(i)' \in SUBSET (0 .. i - 1)
        BY DEF HaveOvertaken
      <4> QED
        BY <4>1, <4>2, FS_Subset
    <3>2. Cardinality(HaveOvertaken(i)') \in Nat \ {0}
      BY <2>3, <3>1, FS_CardinalityType, FS_EmptySet
    <3> QED
      BY <1>8, <2>5, <3>2
  <2>6. CASE left[i] <= 0
    <3>1. f \notin HaveOvertaken(i)
      BY <1>2, <1>3, <1>8, <2>1, <2>2, <2>4 DEF HaveOvertaken
    <3>2. ASSUME NEW k \in HaveOvertaken(i) PROVE k \in HaveOvertaken(i)'
      <4>1. /\ k \in 0 .. i - 1 /\ k \in Slots /\ k # f
            /\ InUse(timer_list, k) => left[k] >= MaxTimer + left[i]
        BY <1>2, <3>1, <3>2 DEF HaveOvertaken
      <4>2. timer_list'[k] = timer_list[k] /\ left'[k] = left[k] - 1 /\ left[k] \in Int
        BY <1>1, <1>8, <4>1
      <4> QED
        BY <1>2, <1>8, <2>4, <4>1, <4>2 DEF HaveOvertaken, InUse
    <3> QED
      BY <1>1, <1>8, <2>3, <2>6, <3>1, <3>2, LateGrows
  <2> QED
    BY <2>1, <2>4, <2>5, <2>6
<1>9. ASSUME NEW f \in Slots, Fires(f) PROVE Cardinality(HaveOvertaken(i)') >= 1 - left'[i]
  <2>1. /\ Ticking /\ IsFirstExpired(timer_list, f, Now) /\ timer_list'[f].func = NULL
        /\ \A k \in Slots : k # f => timer_list'[k] = timer_list[k]
        /\ \A k \in Slots : left'[k] = left[k] - 1
    BY <1>1, <1>9, ClearedIs DEF Fires
  <2>2. f # i /\ InUse(timer_list, i)
    BY <2>1 DEF InUse
  <2> QED
    BY <1>8, <2>1, <2>2
<1>10. UNCHANGED hvars \/ (\E h \in Handlers : Strays(h)) \/ (\E h \in Handlers : HDeleteStray(h))
       => UNCHANGED <<tick, timer_list, left>>
  BY DEF hvars, Strays, HDeleteStray
<1> QED
  BY <1>1, <1>4, <1>5, <1>6, <1>7, <1>9, <1>10, Steps DEF DueInv, OwedInv

(* When no timeout is shorter than the table is long, slot i fires at most *)
(* i ticks late.                                                           *)
THEOREM LatenessIsBounded ==
  ASSUME NoWrap PROVE HSpec => []LatenessBound
<1>1. CASE LongTimeouts
  <2>1. HInit => LateInv
    BY DEF HInit, Init, LateInv, DueInv, OwedInv, TypeOK, LostOnlyWhenFull, InUse, Ticks, FreeSlot,
       NoWrap
  <2>2. LateInv /\ [HNext]_hvars => LateInv'
    BY <1>1, LateStep
  <2>3. LateInv => LatenessBound
    BY LateMeansBounded DEF LatenessBound
  <2> QED
    BY <2>1, <2>2, <2>3, PTL DEF HSpec
<1>2. CASE ~ LongTimeouts
  <2>1. LatenessBound
    BY <1>2 DEF LatenessBound, LongTimeouts
  <2> QED
    BY <2>1, PTL
<1> QED
  BY <1>1, <1>2
=============================================================================
