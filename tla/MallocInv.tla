----------------------------- MODULE MallocInv -----------------------------
(***************************************************************************)
(* The inductive invariant behind the properties of MallocProps, for       *)
(* requests that do not wrap when the words of the tags are added.         *)
(***************************************************************************)
EXTENDS MallocProps

NoWrap == \A r \in Requests : r + 2 < WordMod

AllocSizes == {r + 2 : r \in Requests}

(* The blocks at the addresses S lie one behind the other from             *)
(* _mm_start_block to end, and their two tags agree about their size.      *)
Tiles(m, end, S) ==
  /\ S \subseteq 1 .. end - 1 /\ start_block \in S
  /\ \A p \in S : /\ BlockSize(m, p) > 0
                  /\ NextOf(m, p) \in S \cup {end}
                  /\ m[NextOf(m, p) - 2].size = BlockSize(m, p)
  /\ \A p, q \in S : p < q => NextOf(m, p) <= q
  /\ \A q \in (S \cup {end}) \ {start_block} : \E p \in S : NextOf(m, p) = q

EndBlock(m, end) == m[end - 1] = [size |-> 2, used |-> TRUE]

(* No two free blocks are neighbours.                                      *)
Merged(m, end, S) ==
  \A p \in S : ~ Used(m, p) => NextOf(m, p) = end \/ Used(m, NextOf(m, p))

(* The blocks that callers hold are those marked used.                     *)
HeldBlocks(m, S) == {[base |-> p - 1, n |-> BlockSize(m, p)] : p \in {q \in S : Used(m, q)}}

NoneFits(m, S, n) == \A p \in S : ~ Fits(m, p, n)

(* S are the blocks of a heap in m that ends at end, held those in use.    *)
Heap(m, end, S, held) ==
  /\ end \in 2 .. Words - 1
  /\ Tiles(m, end, S) /\ EndBlock(m, end) /\ Merged(m, end, S)
  /\ held = HeldBlocks(m, S)

HeapShape == Running => Heap(mem, mm_end_block, Blocks, live)

(* The first k pages of the pool are out, each by itself.                  *)
PagesOut(k) ==
  /\ pages = {[base |-> i, n |-> 1] : i \in 0 .. k - 1}
  /\ flags = [d \in -1 .. NumPages - 1 |-> IF d \in 0 .. k - 1 THEN {"TAKEN", "LAST"} ELSE {}]

OwnsPages ==
  \E k \in 0 .. NumPages : mm_end = k * PageWords /\ PagesOut(k) /\ (Running <=> k > 0)

(* What mm_malloc remembers while it grows the heap: where the heap ended. *)
OldEnd ==
  /\ call.n \in AllocSizes /\ call.n <= MaxAlloc
  /\ \E j \in 1 .. NumPages : call.cur_end = j * PageWords
  /\ call.cur_end <= mm_end

(* All that has been added to the heap is part of its last block.          *)
Growing ==
  /\ OldEnd
  /\ NoneFits(mem, Blocks, call.n)
  /\ mm_end > call.cur_end =>
       \E p \in Blocks : /\ NextOf(mem, p) = mm_end_block
                         /\ ~ Used(mem, p) /\ p < call.cur_end

(* All pages had been taken when nothing fitted.                           *)
Failing ==
  /\ OldEnd
  /\ \A i \in 0 .. Words - 3 : ~ Pool!Room(i, call.n)

CallShape ==
  /\ call.at \in {"boot", "idle", "grow", "shrink"}
  /\ call.at = "boot" => live = {}
  /\ call.at \in {"idle", "grow"} => mm_end_block = mm_end - 1
  /\ call.at = "shrink" => mm_end_block = call.cur_end - 1
  /\ call.at = "grow" => Growing
  /\ call.at = "shrink" => Failing
  /\ reply.base # None => reply.n <= MaxAlloc

MInv == TypeOK /\ HeapShape /\ OwnsPages /\ CallShape
=============================================================================
