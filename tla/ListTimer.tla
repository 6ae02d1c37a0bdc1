----------------------------- MODULE ListTimer -----------------------------
(***************************************************************************)
(* The software timers of exercise 15-1 (timer.c and list_timer.c): one    *)
(* sorted list of timers, of which a tick fires at most the first.  build  *)
(* is the #define in timer.c, "list" for USE_LIST_TIMER and "skip" for     *)
(* USE_SKIP_LIST_TIMER; USE_SIMPLE_TIMER is module Timer.                  *)
(*                                                                         *)
(* Each timer is two blocks of the heap, the timer itself and the node     *)
(* whose data points to it.  Nothing compares addresses but for equality,  *)
(* so mm_malloc may be taken to return the lowest that is free.  Times are *)
(* relative to _tick, which is not kept.                                   *)
(*                                                                         *)
(* timer_create and timer_delete are one step each: a task calls them and  *)
(* holds the interrupt lock.  Handlers leave them alone, as all those in   *)
(* the repository do.  The spin_unlock of a call (list_timer.c:37, :51,    *)
(* :67, :82) would let the tick that is still pending into the trap the    *)
(* handler runs in, to pop another timer meanwhile, and what timer_check   *)
(* does behind the handler would be done again (README, section 4).        *)
(*                                                                         *)
(* An operator x_... right before x is x with a slip a programmer could    *)
(* make, a mutant the properties are tried against.                        *)
(***************************************************************************)
EXTENDS List, SkipList

CONSTANTS Builds,     \* the builds to look at
          Timeouts    \* the timeouts callers ask for

ASSUME TimerAssumption ==
  /\ Builds \subseteq {"list", "skip"}
  /\ Timeouts \subseteq Nat \ {0}
  /\ INVALID > 0 /\ \A timeout \in Timeouts : timeout < INVALID

VARIABLES build,      \* chosen once
          list,       \* list_timer or skip_list_timer
          nodes,      \* the nodes that are allocated
          left,       \* of each timer allocated: timeout_tick - _tick
          phase,      \* of the tick: "idle", or "handler", or "fault"
          firing      \* mut_node and mut_t of timer_check

vars == <<build, list, nodes, left, phase, firing>>

NotFiring == [node |-> NULL, timer |-> NULL]

Timers == Nodes
Allocated == DOMAIN left

Init ==
  /\ build \in Builds
  /\ list = IF build = "list" THEN list_init ELSE skip_list_init
  /\ nodes = {} /\ left = <<>>
  /\ phase = "idle" /\ firing = NotFiring
-----------------------------------------------------------------------------
(* The nodes in the order of the list, and where a walk along it leads.    *)
Order == IF build = "list" THEN InOrder(list) ELSE SkipOrder(list)
First == IF build = "list" THEN list_cbegin(list) ELSE cbegin(list)

(* mm_malloc and mm_free.  What is left in a node that is free nobody      *)
(* reads; it is cleared.                                                   *)
mm_malloc(used) == Min(Nodes \ used)
Freed(t) == [u \in Allocated \ {t} |-> left[u]]
Without(l, n) == [l EXCEPT !.node[n] = IF build = "list" THEN Blank ELSE Unused]

(* A null pointer is followed: the access fault leads to panic.            *)
Faults == phase' = "fault" /\ UNCHANGED <<build, list, nodes, left, firing>>
panic  == phase = "fault" /\ UNCHANGED vars

list_timer_create(n, t, timeout) ==
  list' = list_sort_insert([list EXCEPT !.node[n] =
                              [@ EXCEPT !.priority = timeout, !.data = t]], n)

skip_list_timer_create(n, t, timeout) ==
  \E level \in Levels : list' = skip_list_insert(list, n, timeout, t, level)

timer_create(timeout) ==
  /\ phase = "idle"
  /\ nodes # Nodes /\ Allocated # Timers
  /\ LET n == mm_malloc(nodes)
         t == mm_malloc(Allocated)
     IN  /\ IF build = "list" THEN list_timer_create(n, t, timeout)
            ELSE skip_list_timer_create(n, t, timeout)
         /\ nodes' = nodes \cup {n}
         /\ left' = [u \in Allocated \cup {t} |-> IF u = t THEN timeout ELSE left[u]]
  /\ UNCHANGED <<build, phase, firing>>

(* mm_malloc has no block left, and its result is not looked at.           *)
timer_create_no_memory ==
  /\ phase = "idle"
  /\ nodes = Nodes \/ Allocated = Timers
  /\ Faults
-----------------------------------------------------------------------------
(* The node timer_delete finds for t, from head on; TAIL if there is none. *)
Found(t) ==
  Walked(HEAD, {c \in Cells \ {TAIL} : list.node[c].data # t},
         IF build = "list" THEN Nexts(list) ELSE Forwards(list, 0))

(* The deletion writes through null pointers: of the list, when it takes   *)
(* head for the node; of the skip list, when the node is not linked on all *)
(* its levels, head among them.                                            *)
Fails(n) == IF build = "list" THEN n = HEAD ELSE DeleteFails(list, n)

timer_delete(t) ==
  /\ phase = "idle"
  /\ LET n == Found(t)
     IN  /\ n # TAIL
         /\ ~ Fails(n)
         /\ list' = Without(IF build = "list" THEN list_delete(list, n)
                            ELSE skip_list_delete2(list, n), n)
         /\ nodes' = nodes \ {n}
         /\ left' = Freed(t)
  /\ UNCHANGED <<build, phase, firing>>

timer_delete_fails(t) ==
  /\ phase = "idle"
  /\ Found(t) # TAIL /\ Fails(Found(t))
  /\ Faults
-----------------------------------------------------------------------------
(* A tick makes every time one tick shorter; tail of the skip list keeps   *)
(* INVALID.  No timer gets as late as LongestDelay, where counting ends.   *)
LongestDelay == MaxNodes
Less(time) == IF time > - LongestDelay THEN time - 1 ELSE time

Aged ==
  [list EXCEPT !.node = [c \in Cells |-> IF c \in nodes
                           THEN [list.node[c] EXCEPT !.priority = Less(@)]
                           ELSE list.node[c]]]

Popped(l) == IF build = "list" THEN list_popped(l) ELSE skip_list_popped(l)

Due_not_late(time) == time = 0
Due(time) == time <= 0

(* timer_handler: the tick is counted, and timer_check takes the first     *)
(* timer off the list if it is due.                                        *)
tick == phase = "idle" /\ left' = [t \in Allocated |-> Less(left[t])]

timer_handler ==
  /\ tick
  /\ IF First # TAIL /\ Due(left'[list.node[First].data])
     THEN /\ list' = Popped(Aged)
          /\ firing' = [node |-> First, timer |-> list.node[First].data]
          /\ phase' = "handler"
     ELSE /\ list' = Aged
          /\ UNCHANGED <<firing, phase>>
  /\ UNCHANGED <<build, nodes>>

(* timer_check: the handler of the timer has returned.                     *)
handler_returns_node_kept ==
  /\ phase = "handler"
  /\ left' = Freed(firing.timer)
  /\ firing' = NotFiring /\ phase' = "idle"
  /\ UNCHANGED <<build, list, nodes>>
handler_returns ==
  /\ phase = "handler"
  /\ nodes' = nodes \ {firing.node}
  /\ list' = Without(list, firing.node)
  /\ left' = Freed(firing.timer)
  /\ firing' = NotFiring /\ phase' = "idle"
  /\ UNCHANGED build
-----------------------------------------------------------------------------
Next ==
  \/ \E timeout \in Timeouts : timer_create(timeout)
  \/ timer_create_no_memory
  \/ \E t \in Timers : timer_delete(t)
  \/ \E t \in Timers \cup {NULL} : timer_delete_fails(t)
  \/ timer_handler \/ handler_returns \/ panic

(* The clock goes on (as long as there are timers), and handlers return.   *)
Fairness == WF_left(tick) /\ WF_vars(handler_returns)

Spec == Init /\ [][Next]_vars /\ Fairness
=============================================================================
