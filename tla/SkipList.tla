------------------------------ MODULE SkipList ------------------------------
(***************************************************************************)
(* The skip list of exercise 15-1 (timer_structs/skip_list.c).  A list s   *)
(* is its nodes, its level and its length; a node is linked at the levels  *)
(* 0 to its own, and level 0 has them all.  The random level of a new node *)
(* is an argument.                                                         *)
(*                                                                         *)
(* An operator x_... right before x is x with a slip a programmer could    *)
(* make, a mutant the properties are tried against.                        *)
(***************************************************************************)
EXTENDS ListNodes

CONSTANTS MaxLevel,   \* MAX_LEVEL
          INVALID     \* the priority of head and tail, above all others

ASSUME LevelAssumption == MaxLevel \in Nat /\ INVALID \in Int

Levels == 0 .. MaxLevel      \* what random_level returns

node_init(priority, level, data, next) ==
  [priority |-> priority, level |-> level, data |-> data,
   forward |-> [i \in Levels |-> IF i <= level THEN next ELSE NULL]]

Unused == node_init(0, 0, NULL, NULL)

skip_list_init ==
  [node   |-> [c \in Cells |-> CASE c = HEAD -> node_init(INVALID, MaxLevel, NULL, TAIL)
                                 [] c = TAIL -> node_init(INVALID, 0, NULL, NULL)
                                 [] OTHER    -> Unused],
   level  |-> 0,
   length |-> 0]

(* A null pointer leads nowhere; whoever follows it has gone wrong.        *)
Forward(s, c, i) == IF c = NULL THEN NULL ELSE s.node[c].forward[i]

cbegin(s)   == Forward(s, HEAD, 0)
Forwards(s, i) == [c \in Cells |-> s.node[c].forward[i]]
AtLevel(s, i) == Chain(Forward(s, HEAD, i), Forwards(s, i))
SkipOrder(s) == AtLevel(s, 0)

(* The array update: on each level the last node before one that stops the *)
(* walk, reached from where the walk on the level above ended.             *)
Update(s, stops) ==
  LET update[i \in 0 .. s.level] ==
        Walked(IF i = s.level THEN HEAD ELSE update[i + 1],
               {c \in Cells : Forward(s, c, i) \notin stops}, Forwards(s, i))
  IN  update

Before(s, priority) == Update(s, {c \in Cells : s.node[c].priority >= priority})

(* The first node that is not below priority, TAIL if there is none.       *)
At(s, priority) == Forward(s, Before(s, priority)[0], 0)

skip_list_search(s, priority) ==
  LET p == At(s, priority) IN IF s.node[p].priority = priority THEN p ELSE NULL

Raised_never(s, level) == s.level
Raised(s, level) == IF level > s.level THEN level ELSE s.level

(* n becomes a node of the given level, behind the nodes in update and,    *)
(* above the level of the list, behind head.                               *)
LinkedIn(s, n, update, level) ==
  LET behind == [i \in 0 .. level |-> IF i <= s.level THEN update[i] ELSE HEAD]
      new    == [s.node[n] EXCEPT !.level = level, !.forward =
                  [i \in Levels |-> IF i <= level THEN Forward(s, behind[i], i) ELSE NULL]]
      linked(c, i) == IF i <= level /\ behind[i] = c THEN n ELSE Forward(s, c, i)
  IN  [node   |-> [c \in Cells |->
                     IF c = n THEN new
                     ELSE [s.node[c] EXCEPT !.forward = [i \in Levels |-> linked(c, i)]]],
       level  |-> Raised(s, level),
       length |-> s.length + 1]

(* mm_malloc has returned n.                                               *)
skip_list_insert(s, n, priority, data, level) ==
  LinkedIn([s EXCEPT !.node[n] = node_init(priority, level, data, NULL)],
           n, Before(s, priority), level)
skip_list_insert2(s, n, level) == LinkedIn(s, n, Before(s, s.node[n].priority), level)

(* p is unlinked from the level 0 up as far as update leads to it.         *)
Bypassed_at_bottom(s, update, p) ==
  [s EXCEPT !.node[update[0]].forward[0] = Forward(s, p, 0)]
Bypassed(s, update, p) ==
  LET linked == {i \in 0 .. s.level : \A j \in 0 .. i : Forward(s, update[j], j) = p}
  IN  [s EXCEPT !.node =
         [c \in Cells |-> [s.node[c] EXCEPT !.forward =
            [i \in Levels |-> IF i \in linked /\ update[i] = c THEN Forward(s, p, i) ELSE @[i]]]]]

(* Levels that have become empty are given up.                             *)
Lowered_once(s) ==
  IF s.level > 0 /\ Forward(s, HEAD, s.level) = TAIL THEN [s EXCEPT !.level = @ - 1] ELSE s
Lowered(s) ==
  [s EXCEPT !.level = Max({0} \cup {i \in 1 .. @ : Forward(s, HEAD, i) # TAIL})]

Unlinked(s, update, p) == [Lowered(Bypassed(s, update, p)) EXCEPT !.length = @ - 1]

(* The first node of that priority is unlinked.                            *)
skip_list_delete(s, priority) ==
  LET p == At(s, priority)
  IN  IF s.node[p].priority = priority THEN Unlinked(s, Before(s, priority), p) ELSE s

(* For skip_list_delete2 the walk on every level is to stop at n itself.   *)
BeforeNode(s, n) == Update(s, {n})
DeleteFails(s, n) == \E i \in 0 .. s.level : BeforeNode(s, n)[i] = NULL
skip_list_delete2(s, n) == Unlinked(s, BeforeNode(s, n), n)

(* What skip_list_pop_front leaves; the node it returns is cbegin(s).      *)
skip_list_popped(s) ==
  IF cbegin(s) = TAIL THEN s ELSE skip_list_delete(s, s.node[cbegin(s)].priority)

(* The nodes skip_list_destroy frees.                                      *)
skip_list_destroyed(s) == {HEAD, TAIL} \cup Range(SkipOrder(s))
=============================================================================
