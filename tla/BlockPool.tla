----------------------------- MODULE BlockPool -----------------------------
(***************************************************************************)
(* What an allocator promises its callers, whatever its bookkeeping: a     *)
(* pool of Size units (pages for page_alloc, words for mm_malloc) out of   *)
(* which disjoint blocks are handed out and taken back.  Which fitting     *)
(* place is chosen is left open; that a request is refused is visible in   *)
(* reply, and allowed only when nothing fits.                              *)
(***************************************************************************)
EXTENDS Integers

CONSTANTS Size,       \* units of the pool
          Requests,   \* block sizes the callers ask for
          MaxBlock    \* no larger block is ever handed out

VARIABLES blocks,     \* the blocks handed out and not given back
          reply       \* the last call, as long as it was a request: its
                      \* size and the base of the block, None if refused

None    == -1
NoReply == [n |-> 0, base |-> None]

Block == [base : 0 .. Size - 1, n : Requests]

Extent(b) == b.base .. (b.base + b.n - 1)

(* A block of n units at i would lie inside the pool and be clear of every *)
(* block that is out.                                                      *)
Room(i, n) ==
  /\ i + n <= Size
  /\ \A b \in blocks : Extent(b) \cap (i .. (i + n - 1)) = {}

Init ==
  /\ blocks = {}
  /\ reply = NoReply

Alloc(n) ==
  \E i \in 0 .. Size - 1 :
     /\ Room(i, n)
     /\ blocks' = blocks \cup {[base |-> i, n |-> n]}
     /\ reply' = [n |-> n, base |-> i]

Refuse(n) ==
  /\ n > MaxBlock \/ \A i \in 0 .. Size - 1 : ~ Room(i, n)
  /\ reply' = [n |-> n, base |-> None]
  /\ UNCHANGED blocks

Free(b) ==
  /\ blocks' = blocks \ {b}
  /\ reply' = NoReply

Next ==
  \/ \E n \in Requests : Alloc(n) \/ Refuse(n)
  \/ \E b \in blocks : Free(b)

Spec == Init /\ [][Next]_<<blocks, reply>>
=============================================================================
