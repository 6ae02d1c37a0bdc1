---------------------------- MODULE ListTimerInv ----------------------------
(***************************************************************************)
(* The invariant behind ListTimerProps: where the nodes are in the order q *)
(* of either list, how they are linked there, and what they stand for.     *)
(***************************************************************************)
EXTENDS ListTimerProps

(* The places in a list: head, the nodes, tail, and the null pointer after *)
(* tail.                                                                   *)
Place(q, i) ==
  CASE i = 0                       -> HEAD
    [] i \in 1 .. Len(q)           -> q[i]
    [] i = Len(q) + 1              -> TAIL
    [] OTHER                       -> NULL

IsOrder(q) ==
  /\ q \in Seq(Nodes)
  /\ \A i, j \in 1 .. Len(q) : q[i] = q[j] => i = j

(* The list of list.c with the nodes q.                                    *)
DoublyLinked(l, q) ==
  /\ l \in [node : [Cells -> ListNode], size : Nat]
  /\ l.size = Len(q)
  /\ \A i \in 0 .. Len(q) : /\ l.node[Place(q, i)].next = Place(q, i + 1)
                            /\ l.node[Place(q, i + 1)].prev = Place(q, i)

(* The place k is the first behind j where level i leads.                  *)
IsOn(s, q, i, k) == k = Len(q) + 1 \/ s.node[Place(q, k)].level >= i
Follows(s, q, i, j, k) ==
  /\ j < k /\ IsOn(s, q, i, k)
  /\ \A m \in j + 1 .. k - 1 : ~ IsOn(s, q, i, m)

(* The skip list of skip_list.c with the nodes q on its bottom level.      *)
SkipLinked(s, q) ==
  /\ s \in [node : [Cells -> SkipNode], level : Levels, length : Nat]
  /\ s.length = Len(q)
  /\ s.node[HEAD].level = MaxLevel /\ s.node[TAIL].priority = INVALID
  /\ \A i \in Levels : s.node[TAIL].forward[i] = NULL
  /\ \A j \in 1 .. Len(q) : s.node[q[j]].level <= s.level
  /\ s.level > 0 => \E j \in 1 .. Len(q) : s.node[q[j]].level = s.level
  /\ \A i \in Levels, j \in 0 .. Len(q) :
       IF IsOn(s, q, i, j)
       THEN \A k \in 1 .. Len(q) + 1 :
              Follows(s, q, i, j, k) => s.node[Place(q, j)].forward[i] = Place(q, k)
       ELSE s.node[Place(q, j)].forward[i] = NULL

(* The nodes q are those used, but for the one held by timer_check, and    *)
(* their data are the timers, in the order of their time.  A timer whose   *)
(* turn has not come for want of a tick is late by its place at most.      *)
Files(q, node, used, time, held) ==
  /\ IsOrder(q)
  /\ used \subseteq Nodes /\ DOMAIN time \subseteq Timers
  /\ \/ held = NotFiring
     \/ /\ held \in [node : used, timer : DOMAIN time]
        /\ time[held.timer] \in Int /\ time[held.timer] > - MaxNodes
  /\ {q[i] : i \in 1 .. Len(q)} = used \ {held.node}
  /\ {node[q[i]].data : i \in 1 .. Len(q)} = DOMAIN time \ {held.timer}
  /\ \A i, j \in 1 .. Len(q) : node[q[i]].data = node[q[j]].data => i = j
  /\ \A i \in 1 .. Len(q) :
       /\ node[q[i]].priority = time[node[q[i]].data]
       /\ node[q[i]].priority >= i + 1 - MaxNodes
  /\ \A i, j \in 1 .. Len(q) : i < j => node[q[i]].priority <= node[q[j]].priority
  /\ \A c \in Nodes : node[c].priority \in Int /\ node[c].priority < INVALID

LinkedAs(l, q) == IF build = "list" THEN DoublyLinked(l, q) ELSE SkipLinked(l, q)

Inv ==
  /\ build \in Builds
  /\ LinkedAs(list, Order)
  /\ list.node[HEAD].data = NULL
  /\ Files(Order, list.node, nodes, left, firing)
  /\ phase \in {"idle", "handler", "fault"}
  /\ phase = "idle" => firing = NotFiring
  /\ phase = "handler" => firing # NotFiring
=============================================================================
