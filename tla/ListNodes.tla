----------------------------- MODULE ListNodes -----------------------------
(***************************************************************************)
(* The nodes that the list and the skip list of exercise 15-1 are made of. *)
(* An address is a number; head and tail are allocated with the list.      *)
(***************************************************************************)
EXTENDS Integers, SequencesExt, FiniteSetsExt

CONSTANT MaxNodes     \* nodes there is memory for, besides head and tail

ASSUME NodesAssumption == MaxNodes \in Nat \ {0}

NULL  == -1
HEAD  == 0
TAIL  == MaxNodes + 1
Nodes == 1 .. MaxNodes
Cells == HEAD .. TAIL
Pointers == Cells \cup {NULL}

Steps == 0 .. MaxNodes + 2  \* of a walk, on links without a cycle

(* Where while (q is one of on) q = next[q] leaves p.                      *)
Walked(p, on, next) ==
  LET walk[more \in Steps] ==
        [q \in Pointers |->
           IF q \in on /\ more # 0 THEN walk[more - 1][next[q]] ELSE q]
  IN  walk[MaxNodes + 2][p]

(* The nodes that a walk from p meets before head or tail, in order.       *)
Chain(p, next) ==
  LET met[more \in Steps] ==
        [q \in Pointers |->
           IF q \in Nodes /\ more # 0 THEN <<q>> \o met[more - 1][next[q]] ELSE <<>>]
  IN  met[MaxNodes + 2][p]
=============================================================================
