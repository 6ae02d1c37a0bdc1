--------------------------- MODULE ListTimerProps ---------------------------
(***************************************************************************)
(* What a sorted list of timers has to keep, and what its users rely on.   *)
(***************************************************************************)
EXTENDS ListTimer

ListNode == [priority : Int, data : Timers \cup {NULL},
             prev : Pointers, next : Pointers]
SkipNode == [priority : Int, data : Timers \cup {NULL}, level : Levels,
             forward : [Levels -> Pointers]]

TypeOK ==
  /\ build \in Builds
  /\ \/ build = "list" /\ list \in [node : [Cells -> ListNode], size : Nat]
     \/ build = "skip" /\ list \in [node : [Cells -> SkipNode], level : Levels,
                                    length : Nat]
  /\ nodes \subseteq Nodes /\ Allocated \subseteq Timers
  /\ \A t \in Allocated : left[t] \in Int /\ left[t] > - LongestDelay
  /\ phase \in {"idle", "handler", "fault"}
  /\ firing \in [node : Nodes \cup {NULL}, timer : Timers \cup {NULL}]

Priority(c) == list.node[c].priority
Sorted == \A i, j \in DOMAIN Order : i < j => Priority(Order[i]) <= Priority(Order[j])

(* The links of the list agree: it reads the same from either end, and its *)
(* size is the number of its nodes.                                        *)
ListIsLinked ==
  /\ Backwards(list) = Reverse(InOrder(list))
  /\ list.size = Len(InOrder(list))

(* r is what q is without the elements that are not in keep.               *)
Picks(r, q, keep) ==
  \E at \in [DOMAIN r -> DOMAIN q] :
    /\ \A i, j \in DOMAIN r : i < j => at[i] < at[j]
    /\ \A i \in DOMAIN r : r[i] = q[at[i]]
    /\ {at[i] : i \in DOMAIN r} = {j \in DOMAIN q : q[j] \in keep}

(* The links of the skip list agree: each level is the nodes of the level  *)
(* below that reach it, the top level is the highest that has a node, and  *)
(* the length is the number of nodes.                                      *)
SkipListIsLinked ==
  /\ \A i \in Levels :
       Picks(AtLevel(list, i), SkipOrder(list), {c \in Nodes : list.node[c].level >= i})
  /\ \A i \in list.level + 1 .. MaxLevel : AtLevel(list, i) = <<>>
  /\ list.level > 0 => AtLevel(list, list.level) # <<>>
  /\ list.length = Len(SkipOrder(list))

(* Whatever has been inserted, deleted and popped, the links agree and the *)
(* list is sorted, which its walks rely on.                                *)
ListKeepsShape ==
  /\ TypeOK
  /\ Sorted
  /\ IF build = "list" THEN ListIsLinked ELSE SkipListIsLinked

(* Each timer that is allocated is in the list once, with its time, but    *)
(* for the one that timer_check has taken off and not freed yet; and no    *)
(* other block is allocated: none is leaked, freed twice or linked when    *)
(* free by what tasks and ticks do (list_timer.c:61, :100).  Destroying    *)
(* the list would free every node of it.                                   *)
BlocksAreListed ==
  LET data == [i \in DOMAIN Order |-> list.node[Order[i]].data]
  IN  /\ Range(Order) = nodes \ {firing.node}
      /\ Range(data) = Allocated \ {firing.timer}
      /\ Len(Order) = Cardinality(Allocated \ {firing.timer})
      /\ Cardinality(nodes) = Cardinality(Allocated)
      /\ \A i \in DOMAIN Order : Priority(Order[i]) = left[data[i]]
      /\ {HEAD, TAIL} \cup Range(Order) =
           IF build = "list" THEN list_destroyed(list) ELSE skip_list_destroyed(list)

(* No null pointer is followed.  The code does not keep this: mm_malloc    *)
(* may fail, and skip_list_delete2 finds its way only to some nodes.       *)
NoFault == phase # "fault"

(* Which these are: skip_list_delete2 starts on the level of the list and  *)
(* passes by a node that does not reach it, so timer_delete succeeds for   *)
(* the timers of the tallest nodes only (skip_list.c:167).                 *)
OnlyTallestDeleted ==
  build = "skip" =>
    \A n \in Range(Order) : DeleteFails(list, n) <=> list.node[n].level # list.level

(* skip_list_search finds the first node of any priority that is in the   *)
(* list, through whatever levels it descends (test_skip_list_3).           *)
SearchFindsFirst(priority) ==
  LET q     == Order
      equal == {i \in DOMAIN q : Priority(q[i]) = priority}
  IN  skip_list_search(list, priority) = IF equal = {} THEN NULL ELSE q[Min(equal)]

(* skip_list_delete takes out the first node of the priority of c and no   *)
(* other, leaves the levels right, and skip_list_insert2 puts it back      *)
(* where it was, whatever its level is then.                               *)
DeleteTakesFirst(c) ==
  LET q     == Order
      first == At(list, Priority(c))
      after == skip_list_delete(list, Priority(c))
  IN  /\ \E i \in DOMAIN q : q[i] = first /\ SkipOrder(after) = RemoveAt(q, i)
      /\ \A i \in Levels : AtLevel(after, i) # <<>> => i <= after.level
      /\ after.level > 0 => AtLevel(after, after.level) # <<>>
      /\ \A level \in Levels :
           SkipOrder(skip_list_insert2(after, first, level)) = q

(* Among nodes of equal priority all of them meet the first.               *)
FirstOfEquals ==
  build = "skip" =>
    /\ \A priority \in {Priority(c) : c \in Nodes} \cup {0} : SearchFindsFirst(priority)
    /\ \A c \in Range(Order) : DeleteTakesFirst(c)

(* The queue that the nodes of either list stand for.                      *)
Listed ==
  LET q == Order
  IN  [i \in DOMAIN q |-> [timer |-> list.node[q[i]].data, left |-> Priority(q[i])]]

Queue == INSTANCE TimerQueue WITH queue <- Listed

(* Both builds implement the queue: callers cannot tell them apart but for *)
(* the order of timers due at the same tick.                               *)
ImplementsTimerQueue == Queue!Spec

(* While the clock goes on every timer is freed again: it fires, or is     *)
(* deleted, however many others are created, unless the system panics.     *)
EveryTimerFires ==
  \A t \in Timers : t \in Allocated ~> t \notin Allocated \/ phase = "fault"
=============================================================================
