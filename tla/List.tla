-------------------------------- MODULE List --------------------------------
(***************************************************************************)
(* The doubly linked list of exercise 15-1 (timer_structs/list.c), sorted  *)
(* by priority.  A list l is its nodes and its size; an operation is an    *)
(* operator from the list before to the list after.                        *)
(*                                                                         *)
(* An operator x_... right before x is x with a slip a programmer could    *)
(* make, a mutant the properties are tried against.                        *)
(***************************************************************************)
EXTENDS ListNodes

Blank == [priority |-> 0, data |-> NULL, prev |-> NULL, next |-> NULL]

(* data of head and tail is never set; NULL is one value it may have.      *)
list_init ==
  [node |-> [[c \in Cells |-> Blank] EXCEPT ![HEAD].next = TAIL, ![TAIL].prev = HEAD],
   size |-> 0]

list_cbegin(l) == l.node[HEAD].next
list_empty(l) == list_cbegin(l) = TAIL

(* The nodes in order, by next and by prev.                                *)
Nexts(l) == [c \in Cells |-> l.node[c].next]
Prevs(l) == [c \in Cells |-> l.node[c].prev]
InOrder(l) == Chain(list_cbegin(l), Nexts(l))
Backwards(l) == Chain(l.node[TAIL].prev, Prevs(l))

(* Node n is linked in before p.                                           *)
Linked(l, n, p) ==
  LET before == l.node[p].prev
  IN  [node |-> [l.node EXCEPT ![n].next = p, ![n].prev = before,
                               ![before].next = n, ![p].prev = n],
       size |-> l.size + 1]

(* The node that list_sort_insert puts a new one before.                   *)
FirstAbove_descending(l, priority) ==
  Walked(list_cbegin(l), {c \in Cells \ {TAIL} : l.node[c].priority >= priority}, Nexts(l))
FirstAbove(l, priority) ==
  Walked(list_cbegin(l), {c \in Cells \ {TAIL} : l.node[c].priority <= priority}, Nexts(l))

list_sort_insert(l, n) == Linked(l, n, FirstAbove(l, l.node[n].priority))

list_delete(l, n) ==
  [node |-> [l.node EXCEPT ![l.node[n].prev].next = l.node[n].next,
                           ![l.node[n].next].prev = l.node[n].prev],
   size |-> l.size - 1]

(* What list_pop_front leaves; the node it returns is list_cbegin(l).      *)
list_popped(l) ==
  IF list_empty(l) THEN l
  ELSE LET after == l.node[list_cbegin(l)].next
       IN  [node |-> [l.node EXCEPT ![HEAD].next = after, ![after].prev = HEAD],
            size |-> l.size - 1]

(* The nodes list_destroy frees: those it pops until the list is empty.    *)
list_destroyed(l) ==
  LET after[pops \in Steps] == IF pops = 0 THEN l ELSE list_popped(after[pops - 1])
  IN  {HEAD, TAIL} \cup {list_cbegin(after[pops]) : pops \in Steps}
=============================================================================
