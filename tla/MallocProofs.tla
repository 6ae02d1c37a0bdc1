---------------------------- MODULE MallocProofs ----------------------------
(***************************************************************************)
(* The heap of module Malloc for any number and size of pages, any         *)
(* requests that do not wrap, and whatever memory holds.                   *)
(***************************************************************************)
EXTENDS MallocInv, WellFoundedInduction, TLAPS

(* Induction over addresses: a set of naturals has a smallest member.      *)
LEMMA SmallestMember ==
  ASSUME NEW S \in SUBSET Nat, S # {}
  PROVE  \E n \in S : \A k \in S : n <= k
<1> DEFINE Less == OpToRel(<, Nat)
<1>1. IsWellFoundedOn(Less, Nat)
  BY NatLessThanWellFounded
<1>2. \A j, k \in Nat : j < k => <<j, k>> \in Less
  BY DEF OpToRel
<1> HIDE DEF Less
<1>3. PICK n \in S : \A k \in S : ~ (<<k, n>> \in Less)
  BY <1>1, WFMin
<1>4. \A k \in S : ~ (k < n)
  BY <1>2, <1>3
<1>5. \A k \in S : n <= k
  BY <1>4
<1> QED
  BY <1>5

LEMMA PageArithmetic ==
  ASSUME NEW j \in Nat, NEW k \in Nat
  PROVE  /\ j * PageWords \in Nat
         /\ (k + 1) * PageWords = k * PageWords + PageWords
         /\ j < k => j * PageWords + PageWords <= k * PageWords
         /\ (k * PageWords) \div PageWords = k
<1>1. PageWords \in Nat /\ PageWords > 0
  BY MallocAssumption
<1>2. j * PageWords \in Nat /\ k * PageWords \in Nat
  BY <1>1
<1>3. (k + 1) * PageWords = k * PageWords + PageWords
  BY <1>1
<1>4. ASSUME j < k PROVE j * PageWords + PageWords <= k * PageWords
  <2>1. PICK i \in Nat : k = j + 1 + i
    <3>1. k - j - 1 \in Nat /\ k = j + 1 + (k - j - 1)
      BY <1>4
    <3> QED
      BY <3>1
  <2>2. k * PageWords = j * PageWords + PageWords + i * PageWords
    BY <1>1, <2>1
  <2>3. i * PageWords \in Nat
    BY <1>1
  <2> QED
    BY <1>1, <1>2, <2>2, <2>3
<1>5. (k * PageWords) \div PageWords = k
  BY <1>1
<1> QED
  BY <1>2, <1>3, <1>4, <1>5
-----------------------------------------------------------------------------
(* What a walk meets: the first block, and what lies behind one it met.    *)
IsWalk(m, end, S) ==
  /\ S \subseteq 1 .. end - 1
  /\ \A p \in 1 .. end - 1 :
       p \in S <=> p = start_block \/ \E q \in 1 .. p - 1 : NextOf(m, q) = p /\ q \in S

LEMMA WalkIsWalk ==
  ASSUME NEW m, NEW end \in Nat
  PROVE  IsWalk(m, end, Walk(m, end))
<1> DEFINE A == 1 .. end - 1
           Reached(S, p) ==
             p = start_block \/ \E q \in 1 .. p - 1 : NextOf(m, q) = p /\ q \in S
           Closed(S) == \A p \in A : Reached(S, p) => p \in S
           W == {p \in A : \A S \in SUBSET A : Closed(S) => p \in S}
           Eqn(f) == f = [p \in A |-> p = start_block
                                       \/ \E q \in 1 .. p - 1 : NextOf(m, q) = p /\ f[q]]
<1>1. Closed(W)
  <2> SUFFICES ASSUME NEW p \in A, Reached(W, p), NEW S \in SUBSET A, Closed(S)
               PROVE  p \in S
    OBVIOUS
  <2>1. \A q \in W : q \in S
    OBVIOUS
  <2>2. Reached(S, p)
    BY <2>1
  <2> QED
    BY <2>2
<1>2. ASSUME NEW p \in W PROVE Reached(W, p)
  <2> SUFFICES ASSUME ~ Reached(W, p) PROVE FALSE
    OBVIOUS
  <2> DEFINE V == W \ {p}
  <2>1. V \in SUBSET A
    OBVIOUS
  <2>2. Closed(V)
    <3> SUFFICES ASSUME NEW r \in A, Reached(V, r) PROVE r \in V
      OBVIOUS
    <3>1. Reached(W, r)
      OBVIOUS
    <3> QED
      BY <1>1, <3>1
  <2>3. p \in V
    BY <2>1, <2>2
  <2> QED
    BY <2>3
<1>3. W \subseteq A
  OBVIOUS
<1> HIDE DEF W
<1>4. Eqn([p \in A |-> p \in W])
  <2> DEFINE f == [p \in A |-> p \in W]
  <2>1. ASSUME NEW p \in A
        PROVE  (p \in W) = (p = start_block \/ \E q \in 1 .. p - 1 : NextOf(m, q) = p /\ f[q])
    <3>1. \A q \in 1 .. p - 1 : q \in A /\ f[q] = (q \in W)
      BY <2>1
    <3>2. (\E q \in 1 .. p - 1 : NextOf(m, q) = p /\ f[q])
           <=> \E q \in 1 .. p - 1 : NextOf(m, q) = p /\ q \in W
      BY <3>1, Zenon
    <3>3. p \in W <=> Reached(W, p)
      BY <1>1, <1>2, <2>1
    <3>4. p \in W <=> (p = start_block \/ \E q \in 1 .. p - 1 : NextOf(m, q) = p /\ f[q])
      BY <3>2, <3>3, Zenon
    <3> HIDE DEF f
    <3> QED
      BY <3>4, SMT
  <2> QED
    BY <2>1
<1> DEFINE met == CHOOSE f : Eqn(f)
<1>5. Eqn(met)
  BY <1>4
<1>6. Walk(m, end) = {p \in A : met[p]}
  BY DEF Walk
<1> HIDE DEF met
<1>7. \A p \in A : met[p] = (p = start_block \/ \E q \in 1 .. p - 1 : NextOf(m, q) = p /\ met[q])
  BY <1>5
<1>8. Walk(m, end) \subseteq A
  BY <1>6
<1>9. ASSUME NEW p \in A
      PROVE  p \in Walk(m, end) <=> Reached(Walk(m, end), p)
  <2>1. \A q \in 1 .. p - 1 : q \in A
    BY <1>9
  <2>2. \A q \in A : q \in Walk(m, end) <=> met[q]
    BY <1>6
  <2>3. met[p] <=> p = start_block \/ \E q \in 1 .. p - 1 : NextOf(m, q) = p /\ met[q]
    BY <1>7, <1>9, Zenon
  <2> QED
    BY <1>9, <2>1, <2>2, <2>3, Zenon
<1> QED
  BY <1>8, <1>9 DEF IsWalk

LEMMA WalkIsUnique ==
  ASSUME NEW m, NEW end \in Nat, NEW S, NEW V, IsWalk(m, end, S), IsWalk(m, end, V)
  PROVE  S = V
<1> DEFINE D == {p \in 1 .. end - 1 : ~ (p \in S <=> p \in V)}
<1> SUFFICES D = {}
  BY DEF IsWalk
<1> SUFFICES ASSUME D # {} PROVE FALSE
  OBVIOUS
<1>1. D \in SUBSET Nat
  OBVIOUS
<1>2. PICK p \in D : \A k \in D : p <= k
  BY <1>1, SmallestMember
<1>3. \A q \in 1 .. p - 1 : q \in S <=> q \in V
  BY <1>2
<1>4. p \in S <=> p \in V
  BY <1>2, <1>3 DEF IsWalk
<1> QED
  BY <1>2, <1>4

Memory == [Addr -> [size : Nat, used : BOOLEAN]]

(* The ends of a block that is tiled are words of the heap.                *)
LEMMA BlockBounds ==
  ASSUME NEW m \in Memory, NEW end \in 2 .. Words - 1, NEW S, Tiles(m, end, S),
         NEW p \in S
  PROVE  /\ p \in 1 .. end - 1 /\ p - 1 \in Addr
         /\ BlockSize(m, p) \in Nat /\ BlockSize(m, p) > 0
         /\ NextOf(m, p) = p + BlockSize(m, p)
         /\ NextOf(m, p) \in S \cup {end}
         /\ NextOf(m, p) <= end /\ p < NextOf(m, p)
         /\ NextOf(m, p) - 2 \in Addr
         /\ m[NextOf(m, p) - 2].size = BlockSize(m, p)
         /\ Used(m, p) \in BOOLEAN
<1>0. Words \in Nat
  BY MallocAssumption DEF Words
<1>1. p \in 1 .. end - 1 /\ p - 1 \in Addr
  BY <1>0 DEF Tiles, Addr
<1>2. BlockSize(m, p) \in Nat /\ BlockSize(m, p) > 0 /\ Used(m, p) \in BOOLEAN
  BY <1>1 DEF Tiles, BlockSize, Used, Memory
<1>3. NextOf(m, p) = p + BlockSize(m, p)
  BY DEF NextOf
<1>4. NextOf(m, p) \in S \cup {end} /\ S \subseteq 1 .. end - 1
  BY DEF Tiles
<1>5. NextOf(m, p) <= end /\ p < NextOf(m, p)
  BY <1>1, <1>2, <1>3, <1>4
<1>6. NextOf(m, p) - 2 \in Addr
  BY <1>0, <1>1, <1>2, <1>3, <1>5 DEF Addr
<1> QED
  BY <1>1, <1>2, <1>3, <1>4, <1>5, <1>6 DEF Tiles

LEMMA WalkMeetsTiles ==
  ASSUME NEW m \in Memory, NEW end \in 2 .. Words - 1, NEW S, Tiles(m, end, S)
  PROVE  Walk(m, end) = S
<1>0. Words \in Nat /\ end \in Nat
  BY MallocAssumption DEF Words
<1>1. S \subseteq 1 .. end - 1 /\ start_block \in S
  BY DEF Tiles
<1>2. ASSUME NEW p \in S, p # start_block
      PROVE  \E q \in 1 .. p - 1 : NextOf(m, q) = p /\ q \in S
  <2>1. PICK q \in S : NextOf(m, q) = p
    BY <1>2 DEF Tiles
  <2>2. q \in 1 .. p - 1
    BY <1>1, <2>1, BlockBounds
  <2> QED
    BY <2>1, <2>2
<1>3. ASSUME NEW p \in 1 .. end - 1, NEW q \in S, NextOf(m, q) = p
      PROVE  p \in S
  BY <1>3, BlockBounds
<1>4. IsWalk(m, end, S)
  BY <1>1, <1>2, <1>3 DEF IsWalk
<1> QED
  BY <1>0, <1>4, WalkIsWalk, WalkIsUnique
-----------------------------------------------------------------------------
(* How a change of tags changes the blocks.                                *)

(* A block that comes before another has its tags before it.               *)
LEMMA TagsInOrder ==
  ASSUME NEW m \in Memory, NEW end \in 2 .. Words - 1, NEW S, Tiles(m, end, S),
         NEW p \in S, NEW q \in S
  PROVE  /\ p < q => NextOf(m, p) <= q /\ NextOf(m, p) - 2 < q - 1
         /\ NextOf(m, p) = NextOf(m, q) => p = q
         /\ NextOf(m, p) = end => q <= p
<1>1. /\ p < q => NextOf(m, p) <= q
      /\ q < p => NextOf(m, q) <= p
  BY DEF Tiles
<1> QED
  BY <1>1, BlockBounds

LEMMA SameSizesTile ==
  ASSUME NEW m \in Memory, NEW m2 \in Memory, NEW end \in 2 .. Words - 1, NEW S,
         Tiles(m, end, S),
         \A q \in S : /\ BlockSize(m2, q) = BlockSize(m, q)
                      /\ m2[NextOf(m, q) - 2].size = m[NextOf(m, q) - 2].size
  PROVE  /\ Tiles(m2, end, S)
         /\ \A q \in S : NextOf(m2, q) = NextOf(m, q)
<1>1. \A q \in S : NextOf(m2, q) = NextOf(m, q)
  BY DEF NextOf
<1> QED
  BY <1>1 DEF Tiles

(* The last block, at p, now reaches to another end.                       *)
LEMMA LastBlockTiles ==
  ASSUME NEW m \in Memory, NEW m2 \in Memory,
         NEW end \in 2 .. Words - 1, NEW end2 \in 2 .. Words - 1, NEW S,
         Tiles(m, end, S),
         NEW p \in S, NextOf(m, p) = end, p < end2,
         BlockSize(m2, p) = end2 - p, m2[end2 - 2].size = end2 - p,
         \A a \in Addr : a < p - 1 => m2[a] = m[a]
  PROVE  /\ Tiles(m2, end2, S)
         /\ NextOf(m2, p) = end2
         /\ \A q \in S \ {p} : m2[q - 1] = m[q - 1] /\ NextOf(m2, q) = NextOf(m, q)
<1>1. p \in Nat /\ NextOf(m2, p) = end2
  BY BlockBounds DEF NextOf
<1>2. ASSUME NEW q \in S, q # p
      PROVE  /\ q < p /\ NextOf(m, q) \in S /\ NextOf(m, q) <= p
             /\ m2[q - 1] = m[q - 1] /\ NextOf(m2, q) = NextOf(m, q)
             /\ BlockSize(m2, q) = BlockSize(m, q)
             /\ m2[NextOf(m, q) - 2] = m[NextOf(m, q) - 2]
  <2>1. q < p /\ NextOf(m, q) <= p /\ NextOf(m, q) - 2 < p - 1
    BY <1>1, <1>2, TagsInOrder, BlockBounds
  <2>2. m2[q - 1] = m[q - 1] /\ m2[NextOf(m, q) - 2] = m[NextOf(m, q) - 2]
    BY <1>1, <2>1, BlockBounds
  <2>3. BlockSize(m2, q) = BlockSize(m, q) /\ NextOf(m2, q) = NextOf(m, q)
    BY <2>2 DEF BlockSize, NextOf
  <2>4. NextOf(m, q) \in S
    BY <2>1, <1>1, BlockBounds
  <2> QED
    BY <2>1, <2>2, <2>3, <2>4
<1>3. S \subseteq 1 .. end2 - 1 /\ start_block \in S
  BY <1>1, <1>2 DEF Tiles
<1>4. \A q \in S : /\ BlockSize(m2, q) > 0
                   /\ NextOf(m2, q) \in S \cup {end2}
                   /\ m2[NextOf(m2, q) - 2].size = BlockSize(m2, q)
  <2> TAKE q \in S
  <2>1. CASE q = p
    BY <1>1, <2>1
  <2>2. CASE q # p
    BY <1>2, <2>2, BlockBounds
  <2> QED
    BY <2>1, <2>2
<1>5. \A q, r \in S : q < r => NextOf(m2, q) <= r
  BY <1>1, <1>2, TagsInOrder, BlockBounds
<1>6. \A r \in (S \cup {end2}) \ {start_block} : \E q \in S : NextOf(m2, q) = r
  <2> TAKE r \in (S \cup {end2}) \ {start_block}
  <2>1. CASE r = end2
    BY <1>1, <2>1
  <2>2. CASE r # end2
    <3>1. PICK q \in S : NextOf(m, q) = r
      BY <2>2 DEF Tiles
    <3>2. q # p
      BY <2>2, <3>1 DEF Tiles
    <3> QED
      BY <1>2, <3>1, <3>2
  <2> QED
    BY <2>1, <2>2
<1> QED
  BY <1>1, <1>2, <1>3, <1>4, <1>5, <1>6 DEF Tiles

(* A block is added behind the last one.                                   *)
LEMMA NewBlockTiles ==
  ASSUME NEW m \in Memory, NEW m2 \in Memory,
         NEW end \in 2 .. Words - 1, NEW end2 \in 2 .. Words - 1, NEW S,
         Tiles(m, end, S), end < end2,
         BlockSize(m2, end) = end2 - end, m2[end2 - 2].size = end2 - end,
         \A a \in Addr : a < end - 1 => m2[a] = m[a]
  PROVE  /\ Tiles(m2, end2, S \cup {end})
         /\ NextOf(m2, end) = end2
         /\ \A q \in S : m2[q - 1] = m[q - 1] /\ NextOf(m2, q) = NextOf(m, q)
<1>1. NextOf(m2, end) = end2
  BY DEF NextOf
<1>2. ASSUME NEW q \in S
      PROVE  /\ q < end /\ NextOf(m, q) \in S \cup {end} /\ NextOf(m, q) <= end
             /\ m2[q - 1] = m[q - 1] /\ NextOf(m2, q) = NextOf(m, q)
             /\ BlockSize(m2, q) = BlockSize(m, q) /\ BlockSize(m, q) > 0
             /\ m2[NextOf(m, q) - 2].size = BlockSize(m, q)
  <2>1. q < end /\ NextOf(m, q) <= end /\ NextOf(m, q) \in S \cup {end}
        /\ BlockSize(m, q) > 0 /\ NextOf(m, q) - 2 \in Addr /\ q - 1 \in Addr
        /\ m[NextOf(m, q) - 2].size = BlockSize(m, q)
    BY BlockBounds
  <2>2. m2[q - 1] = m[q - 1] /\ m2[NextOf(m, q) - 2] = m[NextOf(m, q) - 2]
    BY <2>1, BlockBounds
  <2>3. BlockSize(m2, q) = BlockSize(m, q) /\ NextOf(m2, q) = NextOf(m, q)
    BY <2>2 DEF BlockSize, NextOf
  <2> QED
    BY <2>1, <2>2, <2>3
<1> DEFINE V == S \cup {end}
<1>3. V \subseteq 1 .. end2 - 1 /\ start_block \in V
  BY <1>2 DEF Tiles
<1>4. \A q \in V : /\ BlockSize(m2, q) > 0
                   /\ NextOf(m2, q) \in V \cup {end2}
                   /\ m2[NextOf(m2, q) - 2].size = BlockSize(m2, q)
  BY <1>1, <1>2
<1>5. \A q, r \in V : q < r => NextOf(m2, q) <= r
  <2> TAKE q, r \in V
  <2> HAVE q < r
  <2>0. S \subseteq Nat
    BY DEF Tiles
  <2>1. q \in S
    BY <1>2, <2>0
  <2>2. r \in S \/ r = end
    OBVIOUS
  <2> QED
    BY <1>2, <2>1, <2>2, TagsInOrder
<1>6. \A r \in (V \cup {end2}) \ {start_block} : \E q \in V : NextOf(m2, q) = r
  <2> TAKE r \in (V \cup {end2}) \ {start_block}
  <2>1. CASE r = end2
    BY <1>1, <2>1
  <2>2. CASE r # end2
    <3>1. PICK q \in S : NextOf(m, q) = r
      BY <2>2 DEF Tiles
    <3> QED
      BY <1>2, <3>1
  <2> QED
    BY <2>1, <2>2
<1> QED
  BY <1>1, <1>2, <1>3, <1>4, <1>5, <1>6 DEF Tiles

(* The last block is given up.                                             *)
LEMMA FewerBlocksTile ==
  ASSUME NEW m \in Memory, NEW m2 \in Memory, NEW end \in 2 .. Words - 1, NEW S,
         Tiles(m, end, S),
         NEW p \in S, NextOf(m, p) = end, p # start_block,
         \A a \in Addr : a < p - 1 => m2[a] = m[a]
  PROVE  /\ Tiles(m2, p, S \ {p})
         /\ \A q \in S \ {p} : m2[q - 1] = m[q - 1] /\ NextOf(m2, q) = NextOf(m, q)
<1> DEFINE V == S \ {p}
<1>1. ASSUME NEW q \in V
      PROVE  /\ q < p /\ NextOf(m, q) \in S /\ NextOf(m, q) <= p
             /\ m2[q - 1] = m[q - 1] /\ NextOf(m2, q) = NextOf(m, q)
             /\ BlockSize(m2, q) = BlockSize(m, q)
             /\ m2[NextOf(m, q) - 2] = m[NextOf(m, q) - 2]
  <2>1. q < p /\ NextOf(m, q) <= p /\ NextOf(m, q) - 2 < p - 1
    BY <1>1, TagsInOrder, BlockBounds
  <2>2. m2[q - 1] = m[q - 1] /\ m2[NextOf(m, q) - 2] = m[NextOf(m, q) - 2]
    BY <2>1, BlockBounds
  <2>3. BlockSize(m2, q) = BlockSize(m, q) /\ NextOf(m2, q) = NextOf(m, q)
    BY <2>2 DEF BlockSize, NextOf
  <2>4. NextOf(m, q) \in S
    BY <2>1, BlockBounds
  <2> QED
    BY <2>1, <2>2, <2>3, <2>4
<1>2. V \subseteq 1 .. p - 1 /\ start_block \in V
  BY <1>1 DEF Tiles
<1>3. \A q \in V : /\ BlockSize(m2, q) > 0
                   /\ NextOf(m2, q) \in V \cup {p}
                   /\ m2[NextOf(m2, q) - 2].size = BlockSize(m2, q)
  BY <1>1, BlockBounds
<1>4. \A q, r \in V : q < r => NextOf(m2, q) <= r
  BY <1>1, TagsInOrder, BlockBounds
<1>5. \A r \in (V \cup {p}) \ {start_block} : \E q \in V : NextOf(m2, q) = r
  <2> TAKE r \in (V \cup {p}) \ {start_block}
  <2>1. PICK q \in S : NextOf(m, q) = r
    BY DEF Tiles
  <2>2. q # p
    BY <2>1, BlockBounds DEF Tiles
  <2> QED
    BY <1>1, <2>1, <2>2
<1> QED
  BY <1>1, <1>2, <1>3, <1>4, <1>5 DEF Tiles

(* The block at p becomes two, of n words and of the rest.                 *)
LEMMA SplitTiles ==
  ASSUME NEW m \in Memory, NEW m2 \in Memory, NEW end \in 2 .. Words - 1, NEW S,
         Tiles(m, end, S),
         NEW p \in S, NEW n \in Nat, n > 0, n < BlockSize(m, p),
         BlockSize(m2, p) = n, m2[p + n - 2].size = n,
         BlockSize(m2, p + n) = BlockSize(m, p) - n,
         m2[NextOf(m, p) - 2].size = BlockSize(m, p) - n,
         \A a \in Addr : a < p - 1 \/ a > NextOf(m, p) - 2 => m2[a].size = m[a].size
  PROVE  /\ Tiles(m2, end, S \cup {p + n})
         /\ p + n \notin S /\ NextOf(m2, p) = p + n /\ NextOf(m2, p + n) = NextOf(m, p)
         /\ \A q \in S \ {p} : NextOf(m2, q) = NextOf(m, q)
<1> DEFINE V == S \cup {p + n}
           next == NextOf(m, p)
<1>1. /\ p \in 1 .. end - 1 /\ next = p + BlockSize(m, p) /\ BlockSize(m, p) \in Nat
      /\ next \in S \cup {end} /\ next <= end /\ p + n < next /\ next \in Nat
  BY BlockBounds
<1>2. NextOf(m2, p) = p + n /\ NextOf(m2, p + n) = next
  BY <1>1 DEF NextOf
<1>3. ASSUME NEW q \in S, q # p
      PROVE  /\ (q < p /\ NextOf(m, q) <= p) \/ q >= next
             /\ NextOf(m2, q) = NextOf(m, q)
             /\ BlockSize(m2, q) = BlockSize(m, q)
             /\ m2[NextOf(m, q) - 2].size = BlockSize(m, q)
  <2>1. \/ q < p /\ NextOf(m, q) <= p /\ q - 1 < p - 1 /\ NextOf(m, q) - 2 < p - 1
        \/ q >= next /\ q - 1 > next - 2 /\ NextOf(m, q) - 2 > next - 2
    BY <1>1, <1>3, TagsInOrder, BlockBounds
  <2>2. /\ m2[q - 1].size = m[q - 1].size
        /\ m2[NextOf(m, q) - 2].size = m[NextOf(m, q) - 2].size
        /\ m[NextOf(m, q) - 2].size = BlockSize(m, q)
    BY <1>1, <2>1, BlockBounds
  <2>3. BlockSize(m2, q) = BlockSize(m, q) /\ NextOf(m2, q) = NextOf(m, q)
    BY <2>2 DEF BlockSize, NextOf
  <2> QED
    BY <2>1, <2>2, <2>3
<1>4. p + n \notin S
  BY <1>1, <1>3
<1>5. V \subseteq 1 .. end - 1 /\ start_block \in V
  BY <1>1 DEF Tiles
<1>6. \A q \in V : /\ BlockSize(m2, q) > 0
                   /\ NextOf(m2, q) \in V \cup {end}
                   /\ m2[NextOf(m2, q) - 2].size = BlockSize(m2, q)
  <2> TAKE q \in V
  <2>1. CASE q = p \/ q = p + n
    BY <1>1, <1>2, <2>1
  <2>2. CASE q \in S /\ q # p
    BY <1>3, <2>2, BlockBounds
  <2> QED
    BY <2>1, <2>2
<1>7. \A q, r \in V : q < r => NextOf(m2, q) <= r
  <2> TAKE q, r \in V
  <2> HAVE q < r
  <2>0. \A t \in S : t \in Nat
    BY BlockBounds
  <2>1. CASE q \in S /\ q # p /\ r \in S
    BY <1>3, <2>1, TagsInOrder
  <2>2. CASE q \in S /\ q # p /\ r = p + n
    <3>1. q \in Nat /\ ~ q >= next
      BY <1>1, <2>0, <2>2
    <3>2. NextOf(m2, q) = NextOf(m, q) /\ NextOf(m, q) <= p
      BY <1>3, <2>2, <3>1
    <3>3. NextOf(m, q) \in Nat
      BY <1>1, <2>0, <2>2, BlockBounds
    <3> QED
      BY <1>1, <2>2, <3>2, <3>3
  <2>3. CASE q = p
    BY <1>1, <1>2, <1>3, <2>0, <2>3
  <2>4. CASE q = p + n
    BY <1>1, <1>2, <1>3, <2>0, <2>4
  <2> QED
    BY <2>1, <2>2, <2>3, <2>4
<1>8. \A r \in (V \cup {end}) \ {start_block} : \E q \in V : NextOf(m2, q) = r
  <2> TAKE r \in (V \cup {end}) \ {start_block}
  <2>1. CASE r = p + n
    BY <1>2, <2>1
  <2>2. CASE r # p + n
    <3>1. PICK q \in S : NextOf(m, q) = r
      BY <2>2 DEF Tiles
    <3>2. CASE q = p
      BY <1>2, <3>1, <3>2
    <3>3. CASE q # p
      BY <1>3, <3>1, <3>3
    <3> QED
      BY <3>2, <3>3
  <2> QED
    BY <2>1, <2>2
<1> HIDE DEF next
<1>9. Tiles(m2, end, V)
  BY <1>5, <1>6, <1>7, <1>8 DEF Tiles
<1> QED
  BY <1>2, <1>3, <1>4, <1>9 DEF next

(* The block at p takes over the one behind it.                            *)
LEMMA MergeTiles ==
  ASSUME NEW m \in Memory, NEW m2 \in Memory, NEW end \in 2 .. Words - 1, NEW S,
         Tiles(m, end, S),
         NEW p \in S, NEW q \in S, NextOf(m, p) = q,
         BlockSize(m2, p) = BlockSize(m, p) + BlockSize(m, q),
         m2[NextOf(m, q) - 2].size = BlockSize(m, p) + BlockSize(m, q),
         \A a \in Addr : a < p - 1 \/ a > NextOf(m, q) - 2 => m2[a].size = m[a].size
  PROVE  /\ Tiles(m2, end, S \ {q})
         /\ p < q /\ NextOf(m2, p) = NextOf(m, q)
         /\ \A r \in S \ {p, q} : NextOf(m2, r) = NextOf(m, r)
<1> DEFINE V == S \ {q}
           next == NextOf(m, q)
<1>1. /\ p \in 1 .. end - 1 /\ q = p + BlockSize(m, p) /\ BlockSize(m, p) \in Nat
      /\ p < q /\ next = q + BlockSize(m, q) /\ BlockSize(m, q) \in Nat
      /\ BlockSize(m, q) > 0 /\ BlockSize(m, p) > 0
      /\ next \in S \cup {end} /\ next <= end /\ next \in Nat
  BY BlockBounds
<1>2. NextOf(m2, p) = next
  BY <1>1 DEF NextOf
<1>3. ASSUME NEW r \in S, r # p, r # q
      PROVE  /\ (r < p /\ NextOf(m, r) <= p) \/ r >= next
             /\ NextOf(m2, r) = NextOf(m, r) /\ NextOf(m, r) # q
             /\ BlockSize(m2, r) = BlockSize(m, r)
             /\ m2[NextOf(m, r) - 2].size = BlockSize(m, r)
  <2>1. \/ r < p /\ NextOf(m, r) <= p /\ r - 1 < p - 1 /\ NextOf(m, r) - 2 < p - 1
        \/ r >= next /\ r - 1 > next - 2 /\ NextOf(m, r) - 2 > next - 2
    BY <1>1, <1>3, TagsInOrder, BlockBounds
  <2>2. /\ m2[r - 1].size = m[r - 1].size
        /\ m2[NextOf(m, r) - 2].size = m[NextOf(m, r) - 2].size
        /\ m[NextOf(m, r) - 2].size = BlockSize(m, r)
    BY <1>1, <2>1, BlockBounds
  <2>3. BlockSize(m2, r) = BlockSize(m, r) /\ NextOf(m2, r) = NextOf(m, r)
    BY <2>2 DEF BlockSize, NextOf
  <2>4. NextOf(m, r) # q
    BY <1>3, TagsInOrder
  <2> QED
    BY <2>1, <2>2, <2>3, <2>4
<1>4. next # q /\ q # start_block
  BY <1>1 DEF start_block
<1>5. V \subseteq 1 .. end - 1 /\ start_block \in V
  BY <1>4 DEF Tiles
<1>6. \A r \in V : /\ BlockSize(m2, r) > 0
                   /\ NextOf(m2, r) \in V \cup {end}
                   /\ m2[NextOf(m2, r) - 2].size = BlockSize(m2, r)
  <2> TAKE r \in V
  <2>1. CASE r = p
    BY <1>1, <1>2, <1>4, <2>1
  <2>2. CASE r # p
    BY <1>3, <2>2, BlockBounds
  <2> QED
    BY <2>1, <2>2
<1>7. \A r, t \in V : r < t => NextOf(m2, r) <= t
  <2> TAKE r, t \in V
  <2> HAVE r < t
  <2>0. \A u \in S : u \in Nat
    BY BlockBounds
  <2>1. CASE r # p
    BY <1>3, <2>1, TagsInOrder
  <2>2. CASE r = p
    BY <1>1, <1>2, <1>3, <2>0, <2>2
  <2> QED
    BY <2>1, <2>2
<1>8. \A r \in (V \cup {end}) \ {start_block} : \E t \in V : NextOf(m2, t) = r
  <2> TAKE r \in (V \cup {end}) \ {start_block}
  <2>1. PICK t \in S : NextOf(m, t) = r
    BY DEF Tiles
  <2>2. CASE t = q
    BY <1>2, <2>1, <2>2, <1>1
  <2>3. CASE t # q
    <3>1. t # p
      BY <2>1, <1>1, BlockBounds
    <3> QED
      BY <1>3, <2>1, <2>3, <3>1
  <2> QED
    BY <2>2, <2>3
<1> HIDE DEF next
<1>9. Tiles(m2, end, V)
  BY <1>5, <1>6, <1>7, <1>8 DEF Tiles
<1> QED
  BY <1>1, <1>2, <1>3, <1>9 DEF next
-----------------------------------------------------------------------------
(* What the operators that write tags and payloads do to a word.           *)
Word == [size : Nat, used : BOOLEAN]

LEMMA TaggedWords ==
  ASSUME NEW m \in Memory, NEW p \in Int, NEW size \in Nat, NEW used \in BOOLEAN,
         p - 1 \in Addr, p + size - 2 \in Addr
  PROVE  /\ Tagged(m, p, size, used) \in Memory
         /\ \A a \in Addr : Tagged(m, p, size, used)[a] =
              IF a = p - 1 \/ a = p + size - 2 THEN [size |-> size, used |-> used] ELSE m[a]
<1>1. [size |-> size, used |-> used] \in Word
  BY DEF Word
<1> QED
  BY <1>1 DEF Tagged, Memory, Word

LEMMA SetUsedWords ==
  ASSUME NEW m \in Memory, NEW p \in Int, NEW used \in BOOLEAN, p - 1 \in Addr
  PROVE  /\ SetUsed(m, p, used) \in Memory
         /\ \A a \in Addr : a # p - 1 => SetUsed(m, p, used)[a] = m[a]
         /\ SetUsed(m, p, used)[p - 1].size = m[p - 1].size
         /\ SetUsed(m, p, used)[p - 1].used = used
  BY DEF SetUsed, Memory

LEMMA StoredWords ==
  ASSUME NEW m \in Memory, NEW b, NEW g \in Word
  PROVE  /\ Stored(m, b, g) \in Memory
         /\ \A a \in Addr : a \notin Payload(b) => Stored(m, b, g)[a] = m[a]
  BY DEF Stored, Memory, Word

LEMMA BlocksApart ==
  ASSUME NEW m \in Memory, NEW end \in 2 .. Words - 1, NEW S, Tiles(m, end, S),
         NEW p \in S, NEW q \in S, p # q,
         NEW a \in q - 1 .. NextOf(m, q) - 2
  PROVE  a \in Addr /\ (a < p - 1 \/ a > NextOf(m, p) - 2)
<1>1. /\ p \in Nat /\ q \in Nat /\ NextOf(m, p) \in Nat /\ NextOf(m, q) \in Nat
      /\ q - 1 \in Addr /\ NextOf(m, q) - 2 \in Addr
  BY BlockBounds
<1>2. \/ q < p /\ NextOf(m, q) <= p
      \/ p < q /\ NextOf(m, p) <= q
  BY <1>1, TagsInOrder
<1>3. a \in Addr
  BY <1>1, MallocAssumption DEF Addr, Words
<1> QED
  BY <1>1, <1>2, <1>3

(* What callers hold are used blocks, and their payloads lie inside.       *)
LEMMA HeldBlockIs ==
  ASSUME NEW m \in Memory, NEW end \in 2 .. Words - 1, NEW S, Tiles(m, end, S),
         NEW b \in HeldBlocks(m, S)
  PROVE  \E q \in S : /\ Used(m, q) /\ b = [base |-> q - 1, n |-> BlockSize(m, q)]
                      /\ Payload(b) \subseteq q .. NextOf(m, q) - 3
<1>1. PICK q \in S : Used(m, q) /\ b = [base |-> q - 1, n |-> BlockSize(m, q)]
  BY DEF HeldBlocks
<1>2. q \in Nat /\ NextOf(m, q) = q + BlockSize(m, q) /\ BlockSize(m, q) \in Nat
  BY BlockBounds
<1>3. Payload(b) \subseteq q .. NextOf(m, q) - 3
  BY <1>1, <1>2 DEF Payload
<1> QED
  BY <1>1, <1>3

(* Outside of the block at p nothing has changed for the other holders.    *)
LEMMA OthersKeepPayloads ==
  ASSUME NEW m \in Memory, NEW m2, NEW end \in 2 .. Words - 1, NEW S, Tiles(m, end, S),
         NEW p \in S,
         \A a \in Addr : a < p - 1 \/ a > NextOf(m, p) - 2 => m2[a] = m[a],
         NEW b \in HeldBlocks(m, S), b.base # p - 1, NEW a \in Payload(b)
  PROVE  m2[a] = m[a]
<1>1. PICK q \in S : /\ b = [base |-> q - 1, n |-> BlockSize(m, q)]
                    /\ Payload(b) \subseteq q .. NextOf(m, q) - 3
  BY HeldBlockIs
<1>2. q \in Nat /\ NextOf(m, q) \in Nat /\ q # p
  BY <1>1, BlockBounds
<1>3. a \in q - 1 .. NextOf(m, q) - 2
  BY <1>1, <1>2
<1> QED
  BY <1>2, <1>3, BlocksApart

(* The words of a free block part of which is cut out for use.            *)
LEMMA PlacedWords ==
  ASSUME NEW m \in Memory, NEW p \in Int, NEW n \in Nat, NEW k \in Nat,
         k = BlockSize(m, p), n >= 2, n <= k, p >= 1,
         p - 1 .. p + k - 2 \subseteq Addr
  PROVE  /\ Placed(m, p, n) \in Memory
         /\ Placed(m, p, n)[p - 1] = [size |-> n, used |-> TRUE]
         /\ k = n => \A a \in Addr : a # p - 1 => Placed(m, p, n)[a] = m[a]
         /\ k # n =>
              \A a \in Addr :
                Placed(m, p, n)[a] =
                  IF a = p + n - 1 \/ a = p + k - 2 THEN [size |-> k - n, used |-> FALSE]
                  ELSE IF a = p - 1 \/ a = p + n - 2 THEN [size |-> n, used |-> TRUE]
                  ELSE m[a]
<1>1. /\ p - 1 \in Addr /\ p + n - 2 \in Addr /\ p + k - 2 \in Addr
  OBVIOUS
<1>2. CASE k = n
  <2>1. Placed(m, p, n) = SetUsed(m, p, TRUE)
    <3>1. ~ BlockSize(m, p) > n
      BY <1>2
    <3> QED
      BY ONLY <3>1, Zenon DEF Placed
  <2>2. SetUsed(m, p, TRUE)[p - 1] = [size |-> n, used |-> TRUE]
    BY <1>1, <1>2 DEF SetUsed, Memory, BlockSize
  <2>3. /\ SetUsed(m, p, TRUE) \in Memory
        /\ \A a \in Addr : a # p - 1 => SetUsed(m, p, TRUE)[a] = m[a]
    <3>1. TRUE \in BOOLEAN
      OBVIOUS
    <3> QED
      BY ONLY <1>1, <3>1, SetUsedWords, m \in Memory, p \in Int
  <2> QED
    BY <1>2, <2>1, <2>2, <2>3
<1>3. CASE k # n
  <2> DEFINE m1 == Tagged(m, p, n, TRUE)
             pl == Tagged(m1, p + n, k - n, FALSE)
  <2>1. Placed(m, p, n) = pl
    <3>1. BlockSize(m, p) > n
      BY <1>3
    <3> QED
      BY ONLY <3>1, k = BlockSize(m, p), Zenon DEF Placed
  <2>2. /\ TRUE \in BOOLEAN /\ FALSE \in BOOLEAN
        /\ p + n \in Int /\ k - n \in Nat
        /\ (p + n) - 1 \in Addr /\ (p + n) + (k - n) - 2 = p + k - 2
    BY <1>3
  <2>3. /\ m1 \in Memory
        /\ \A a \in Addr : m1[a] = IF a = p - 1 \/ a = p + n - 2
                                   THEN [size |-> n, used |-> TRUE] ELSE m[a]
    BY ONLY <1>1, <2>2, TaggedWords, m \in Memory, p \in Int, n \in Nat
  <2> HIDE DEF m1
  <2>4. /\ pl \in Memory
        /\ \A a \in Addr : pl[a] = IF a = (p + n) - 1 \/ a = (p + n) + (k - n) - 2
                                   THEN [size |-> k - n, used |-> FALSE] ELSE m1[a]
    BY ONLY <1>1, <2>2, <2>3, TaggedWords, ZenonT(60)
  <2> HIDE DEF pl
  <2>5. p - 1 # p + n - 1 /\ p - 1 # p + k - 2
    BY <1>3
  <2>6. \A a \in Addr :
          pl[a] = IF a = p + n - 1 \/ a = p + k - 2 THEN [size |-> k - n, used |-> FALSE]
                  ELSE IF a = p - 1 \/ a = p + n - 2 THEN [size |-> n, used |-> TRUE]
                  ELSE m[a]
    <3> TAKE a \in Addr
    <3>1. (p + n) - 1 = p + n - 1 /\ (p + n) + (k - n) - 2 = p + k - 2
      OBVIOUS
    <3>2. pl[a] = IF a = p + n - 1 \/ a = p + k - 2
                  THEN [size |-> k - n, used |-> FALSE] ELSE m1[a]
      BY ONLY <2>4, <3>1, a \in Addr, Zenon
    <3> QED
      BY ONLY <2>3, <3>2, a \in Addr, Zenon
  <2>7. pl[p - 1] = [size |-> n, used |-> TRUE]
    BY ONLY <1>1, <2>5, <2>6, Zenon
  <2> QED
    BY <1>3, <2>1, <2>4, <2>6, <2>7
<1> QED
  BY <1>2, <1>3

(* The same with the payload the caller writes.                           *)
LEMMA ReturnedWords ==
  ASSUME NEW m \in Memory, NEW end \in 2 .. Words - 1, NEW S, Tiles(m, end, S),
         NEW p \in S, NEW n \in Nat, n >= 2, Fits(m, p, n), NEW g \in Word
  PROVE  LET m2 == Stored(Placed(m, p, n), [base |-> p - 1, n |-> n], g)
         IN  /\ m2 \in Memory
             /\ \A a \in Addr : a < p - 1 \/ a > NextOf(m, p) - 2 => m2[a] = m[a]
             /\ Used(m2, p) /\ BlockSize(m2, p) = n
             /\ BlockSize(m, p) = n => m2[NextOf(m, p) - 2] = m[NextOf(m, p) - 2]
             /\ BlockSize(m, p) # n =>
                  /\ n < BlockSize(m, p) /\ m2[p + n - 2].size = n
                  /\ BlockSize(m2, p + n) = BlockSize(m, p) - n /\ ~ Used(m2, p + n)
                  /\ m2[NextOf(m, p) - 2].size = BlockSize(m, p) - n
<1> DEFINE k == BlockSize(m, p)
           b == [base |-> p - 1, n |-> n]
           pl == Placed(m, p, n)
           m2 == Stored(pl, b, g)
<1>1. /\ p \in Nat /\ p >= 1 /\ p - 1 \in Addr /\ k \in Nat /\ k >= n
      /\ NextOf(m, p) = p + k /\ p + k - 2 \in Addr /\ p + k \in Nat
      /\ p - 1 .. p + k - 2 \subseteq Addr
  <2>1. p \in 1 .. end - 1 /\ p - 1 \in Addr /\ k \in Nat /\ NextOf(m, p) = p + k
        /\ NextOf(m, p) - 2 \in Addr
    BY BlockBounds
  <2>2. k >= n
    BY DEF Fits
  <2>3. p - 1 .. p + k - 2 \subseteq Addr
    BY <2>1, <2>2, MallocAssumption DEF Addr, Words
  <2> QED
    BY <2>1, <2>2, <2>3
<1>2. Payload(b) = p .. p + n - 3
  BY <1>1 DEF Payload
<1>3. /\ pl \in Memory
      /\ pl[p - 1] = [size |-> n, used |-> TRUE]
      /\ k = n => \A a \in Addr : a # p - 1 => pl[a] = m[a]
      /\ k # n =>
           \A a \in Addr :
             pl[a] = IF a = p + n - 1 \/ a = p + k - 2 THEN [size |-> k - n, used |-> FALSE]
                     ELSE IF a = p - 1 \/ a = p + n - 2 THEN [size |-> n, used |-> TRUE]
                     ELSE m[a]
  BY <1>1, PlacedWords
<1> HIDE DEF pl, k
<1>4. m2 \in Memory /\ \A a \in Addr : a \notin Payload(b) => m2[a] = pl[a]
  BY <1>3, StoredWords
<1> HIDE DEF m2, b
<1>5. \A a \in Addr : a \notin p .. p + n - 3 => m2[a] = pl[a]
  BY <1>2, <1>4
<1>6. m2[p - 1] = [size |-> n, used |-> TRUE]
  BY <1>1, <1>3, <1>5
<1>7. ASSUME NEW a \in Addr, a < p - 1 \/ a > p + k - 2
      PROVE  m2[a] = m[a]
  <2>1. \/ a # p - 1 /\ a # p + n - 1 /\ a # p + k - 2 /\ a # p + n - 2 /\ m2[a] = pl[a]
        \/ k = n /\ a # p - 1 /\ m2[a] = pl[a]
    <3>1. a \in Int
      BY MallocAssumption DEF Addr, Words
    <3>2. a \notin p .. p + n - 3 /\ a # p - 1
      BY <1>1, <1>7, <3>1
    <3>3. k = n \/ (a # p + n - 1 /\ a # p + k - 2 /\ a # p + n - 2)
      BY <1>1, <1>7, <3>1
    <3> QED
      BY <1>5, <3>2, <3>3
  <2> QED
    BY ONLY <1>3, <2>1, a \in Addr, Zenon
<1>8. ASSUME k = n PROVE m2[p + k - 2] = m[p + k - 2]
  <2>1. p + k - 2 # p - 1 /\ p + k - 2 \notin p .. p + n - 3
    BY <1>1, <1>8
  <2> QED
    BY <1>1, <1>3, <1>5, <1>8, <2>1
<1>9. ASSUME k # n
      PROVE  /\ n < k /\ m2[p + n - 2].size = n
             /\ m2[p + n - 1] = [size |-> k - n, used |-> FALSE]
             /\ m2[p + k - 2] = [size |-> k - n, used |-> FALSE]
  <2>1. n < k
    BY <1>1, <1>9
  <2>2. /\ p + n - 2 \in Addr /\ p + n - 2 \notin p .. p + n - 3
        /\ p + n - 2 # p + n - 1 /\ p + n - 2 # p + k - 2
        /\ p + n - 1 \in Addr /\ p + n - 1 \notin p .. p + n - 3
        /\ p + k - 2 \in Addr /\ p + k - 2 \notin p .. p + n - 3
    BY <1>1, <2>1
  <2>3. /\ m2[p + n - 2] = pl[p + n - 2] /\ m2[p + n - 1] = pl[p + n - 1]
        /\ m2[p + k - 2] = pl[p + k - 2]
    BY ONLY <1>5, <2>2, Zenon
  <2>4. /\ pl[p + n - 2] = [size |-> n, used |-> TRUE]
        /\ pl[p + n - 1] = [size |-> k - n, used |-> FALSE]
        /\ pl[p + k - 2] = [size |-> k - n, used |-> FALSE]
    BY ONLY <1>3, <1>9, <2>2, Zenon
  <2> QED
    BY <2>1, <2>3, <2>4
<1>10. (p + n) - 1 = p + n - 1
  BY <1>1
<1>11. Used(m2, p) /\ BlockSize(m2, p) = n
  BY <1>6 DEF Used, BlockSize
<1>12. k # n => BlockSize(m2, p + n) = k - n /\ ~ Used(m2, p + n)
  BY <1>9, <1>10 DEF Used, BlockSize
<1>13. NextOf(m, p) - 2 = p + k - 2
  BY <1>1
<1>14. m2 = Stored(Placed(m, p, n), [base |-> p - 1, n |-> n], g)
  BY DEF m2, pl, b
<1> QED
  BY <1>1, <1>4, <1>7, <1>8, <1>9, <1>11, <1>12, <1>13, <1>14 DEF k

(* A free block handed out leaves a heap, in which it is the caller's.     *)
LEMMA ReturnKeepsHeap ==
  ASSUME NEW m \in Memory, NEW end, NEW S, NEW held, Heap(m, end, S, held),
         NEW p \in S, NEW n \in Nat, n >= 2, Fits(m, p, n), NEW g \in Word
  PROVE  LET m2 == Stored(Placed(m, p, n), [base |-> p - 1, n |-> n], g)
             b  == [base |-> p - 1, n |-> n]
         IN  /\ m2 \in Memory
             /\ \E V : Heap(m2, end, V, held \cup {b})
             /\ \A a \in Addr : a < p - 1 \/ a > NextOf(m, p) - 2 => m2[a] = m[a]
<1> DEFINE m2 == Stored(Placed(m, p, n), [base |-> p - 1, n |-> n], g)
           b == [base |-> p - 1, n |-> n]
           k == BlockSize(m, p)
<1>1. /\ end \in 2 .. Words - 1 /\ Tiles(m, end, S) /\ EndBlock(m, end)
      /\ Merged(m, end, S) /\ held = HeldBlocks(m, S)
  BY DEF Heap
<1>2. /\ m2 \in Memory
      /\ \A a \in Addr : a < p - 1 \/ a > NextOf(m, p) - 2 => m2[a] = m[a]
      /\ Used(m2, p) /\ BlockSize(m2, p) = n
      /\ k = n => m2[NextOf(m, p) - 2] = m[NextOf(m, p) - 2]
      /\ k # n => /\ n < k /\ m2[p + n - 2].size = n
                  /\ BlockSize(m2, p + n) = k - n /\ ~ Used(m2, p + n)
                  /\ m2[NextOf(m, p) - 2].size = k - n
  BY <1>1, ReturnedWords
<1> HIDE DEF m2, k
<1>3. ~ Used(m, p)
  BY DEF Fits
<1>4. /\ p \in 1 .. end - 1 /\ NextOf(m, p) \in S \cup {end} /\ NextOf(m, p) <= end
      /\ NextOf(m, p) \in Nat /\ p < NextOf(m, p) /\ NextOf(m, p) = p + k
  BY <1>1, BlockBounds DEF k
<1>5. m2[end - 1] = m[end - 1]
  <2>1. end - 1 \in Addr /\ end - 1 > NextOf(m, p) - 2
    BY <1>1, <1>4, MallocAssumption DEF Addr, Words
  <2> QED
    BY <1>2, <2>1
<1>6. ASSUME NEW q \in S, q # p
      PROVE  /\ m2[q - 1] = m[q - 1]
             /\ Used(m2, q) = Used(m, q) /\ BlockSize(m2, q) = BlockSize(m, q)
             /\ m2[NextOf(m, q) - 2] = m[NextOf(m, q) - 2]
             /\ NextOf(m, q) \in S \cup {end}
  <2>1. /\ q \in Nat /\ NextOf(m, q) \in Nat /\ q < NextOf(m, q)
        /\ NextOf(m, q) \in S \cup {end}
    BY <1>1, <1>6, BlockBounds
  <2>2. q - 1 \in q - 1 .. NextOf(m, q) - 2 /\ NextOf(m, q) - 2 \in q - 1 .. NextOf(m, q) - 2
    BY <2>1
  <2>3. \A a \in q - 1 .. NextOf(m, q) - 2 : m2[a] = m[a]
    BY <1>1, <1>2, <1>6, BlocksApart
  <2> QED
    BY <2>1, <2>2, <2>3 DEF Used, BlockSize
<1>7. ASSUME NEW V, Tiles(m2, end, V), S \subseteq V,
             \A q \in S \ {p} : NextOf(m2, q) = NextOf(m, q),
             \A q \in V \ S : ~ Used(m2, q) /\ NextOf(m2, q) = NextOf(m, p)
      PROVE  Heap(m2, end, V, held \cup {b})
  <2>1. Merged(m2, end, V)
    <3> SUFFICES ASSUME NEW q \in V, ~ Used(m2, q), NextOf(m2, q) # end
                 PROVE  Used(m2, NextOf(m2, q))
      BY DEF Merged
    <3>1. CASE q \in S
      <4>1. q # p /\ ~ Used(m, q) /\ NextOf(m2, q) = NextOf(m, q) /\ NextOf(m, q) \in S
            /\ NextOf(m, q) # end
        BY <1>2, <1>6, <1>7, <3>1
      <4>2. Used(m, NextOf(m, q))
        BY <1>1, <3>1, <4>1, Zenon DEF Merged
      <4> QED
        BY <1>3, <1>6, <4>1, <4>2
    <3>2. CASE q \notin S
      <4>1. NextOf(m2, q) = NextOf(m, p) /\ NextOf(m, p) \in S /\ NextOf(m, p) # p
        BY <1>4, <1>7, <3>2
      <4>2. Used(m, NextOf(m, p))
        BY <1>1, <1>3, <1>7, <3>2, <4>1 DEF Merged
      <4> QED
        BY <1>6, <4>1, <4>2
    <3> QED
      BY <3>1, <3>2
  <2>2. held \cup {b} = HeldBlocks(m2, V)
    <3>1. ASSUME NEW c \in held PROVE c \in HeldBlocks(m2, V)
      <4>1. PICK q \in S : Used(m, q) /\ c = [base |-> q - 1, n |-> BlockSize(m, q)]
        BY <1>1, <3>1 DEF HeldBlocks
      <4>2. q # p
        BY <1>3, <4>1
      <4>3. q \in V /\ Used(m2, q) /\ c = [base |-> q - 1, n |-> BlockSize(m2, q)]
        BY <1>6, <1>7, <4>1, <4>2
      <4> QED
        BY <4>3 DEF HeldBlocks
    <3>2. b \in HeldBlocks(m2, V)
      <4>1. p \in V /\ Used(m2, p) /\ b = [base |-> p - 1, n |-> BlockSize(m2, p)]
        BY <1>2, <1>7
      <4> QED
        BY <4>1 DEF HeldBlocks
    <3>3. ASSUME NEW c \in HeldBlocks(m2, V), c # b PROVE c \in held
      <4>1. PICK q \in V : Used(m2, q) /\ c = [base |-> q - 1, n |-> BlockSize(m2, q)]
        BY <3>3 DEF HeldBlocks
      <4>2. q # p /\ q \in S
        BY <1>2, <1>7, <3>3, <4>1
      <4>3. Used(m, q) /\ c = [base |-> q - 1, n |-> BlockSize(m, q)]
        BY <1>6, <4>1, <4>2
      <4> QED
        BY <1>1, <4>2, <4>3 DEF HeldBlocks
    <3> QED
      BY <3>1, <3>2, <3>3
  <2>3. EndBlock(m2, end)
    BY <1>1, <1>5 DEF EndBlock
  <2> QED
    BY <1>1, <1>7, <2>1, <2>2, <2>3 DEF Heap
<1>8. \E V : Heap(m2, end, V, held \cup {b})
  <2>1. CASE k = n
    <3>1. \A q \in S : /\ BlockSize(m2, q) = BlockSize(m, q)
                       /\ m2[NextOf(m, q) - 2].size = m[NextOf(m, q) - 2].size
      BY <1>2, <1>6, <2>1 DEF k
    <3>2. /\ Tiles(m2, end, S)
          /\ \A q \in S : NextOf(m2, q) = NextOf(m, q)
      BY <1>1, <1>2, <3>1, SameSizesTile
    <3> QED
      BY <1>7, <3>2
  <2>2. CASE k # n
    <3>1. /\ Tiles(m2, end, S \cup {p + n})
          /\ NextOf(m2, p + n) = NextOf(m, p)
          /\ \A q \in S \ {p} : NextOf(m2, q) = NextOf(m, q)
      <4>1. /\ n > 0 /\ n < BlockSize(m, p) /\ BlockSize(m2, p) = n
            /\ m2[p + n - 2].size = n /\ BlockSize(m2, p + n) = BlockSize(m, p) - n
            /\ m2[NextOf(m, p) - 2].size = BlockSize(m, p) - n
            /\ \A a \in Addr : a < p - 1 \/ a > NextOf(m, p) - 2 => m2[a].size = m[a].size
        BY <1>2, <2>2 DEF k
      <4> QED
        <5>1. m2 \in Memory /\ end \in 2 .. Words - 1 /\ Tiles(m, end, S)
          BY <1>1, <1>2
        <5> QED
          BY ONLY <4>1, <5>1, SplitTiles, m \in Memory, p \in S, n \in Nat
    <3> QED
      BY <1>2, <1>7, <2>2, <3>1
  <2> QED
    BY <2>1, <2>2
<1> QED
  BY <1>2, <1>8 DEF m2

(* Tags of a free block.                                                  *)
FreeTagged(m, p, size) == Tagged(m, p, size, FALSE)

(* Two free neighbours, at r and s, become one block.                      *)
LEMMA MergedPair ==
  ASSUME NEW m \in Memory, NEW end \in 2 .. Words - 1, NEW S,
         Tiles(m, end, S), EndBlock(m, end),
         NEW r \in S, NEW s \in S, NextOf(m, r) = s, ~ Used(m, r), ~ Used(m, s),
         NEW size, size = BlockSize(m, r) + BlockSize(m, s)
  PROVE  LET m2 == FreeTagged(m, r, size)
         IN  /\ m2 \in Memory
             /\ Tiles(m2, end, S \ {s}) /\ EndBlock(m2, end)
             /\ HeldBlocks(m2, S \ {s}) = HeldBlocks(m, S)
             /\ \A a \in Addr : a < r - 1 \/ a > NextOf(m, s) - 2 => m2[a] = m[a]
             /\ r < s /\ ~ Used(m2, r) /\ NextOf(m2, r) = NextOf(m, s)
             /\ \A q \in S \ {r, s} : m2[q - 1] = m[q - 1] /\ NextOf(m2, q) = NextOf(m, q)
             /\ \A c \in HeldBlocks(m, S) : \A a \in Payload(c) : m2[a] = m[a]
<1> DEFINE m2 == FreeTagged(m, r, size)
           next == NextOf(m, s)
<1>1. /\ r \in Nat /\ r >= 1 /\ r - 1 \in Addr /\ s \in Nat /\ r < s
      /\ s = r + BlockSize(m, r) /\ next = s + BlockSize(m, s) /\ next \in Nat
      /\ next - 2 \in Addr /\ next <= end /\ s < next
      /\ BlockSize(m, r) \in Nat /\ BlockSize(m, s) \in Nat
  BY BlockBounds
<1>2. size \in Nat /\ r + size - 2 = next - 2 /\ r + size - 2 \in Addr /\ r \in Int
      /\ FALSE \in BOOLEAN
  BY <1>1
<1>3. /\ m2 \in Memory
      /\ \A a \in Addr : m2[a] = IF a = r - 1 \/ a = r + size - 2
                                 THEN [size |-> size, used |-> FALSE] ELSE m[a]
  <2>1. r - 1 \in Addr
    BY <1>1
  <2> QED
    BY ONLY <1>2, <2>1, TaggedWords, m \in Memory DEF FreeTagged
<1> HIDE DEF m2, next
<1>4. /\ m2[r - 1] = [size |-> size, used |-> FALSE]
      /\ m2[next - 2] = [size |-> size, used |-> FALSE]
  BY ONLY <1>1, <1>2, <1>3
<1>5. ASSUME NEW a \in Addr, a < r - 1 \/ a > next - 2
      PROVE  m2[a] = m[a]
  <2>1. a # r - 1 /\ a # r + size - 2
    BY <1>1, <1>2, <1>5, MallocAssumption DEF Addr, Words
  <2> QED
    BY ONLY <1>3, <2>1, a \in Addr
<1>6. ~ Used(m2, r) /\ BlockSize(m2, r) = size
  BY <1>4 DEF Used, BlockSize
<1>7. /\ Tiles(m2, end, S \ {s}) /\ NextOf(m2, r) = next
      /\ \A q \in S \ {r, s} : NextOf(m2, q) = NextOf(m, q)
  <2>1. \A a \in Addr : a < r - 1 \/ a > NextOf(m, s) - 2 => m2[a].size = m[a].size
    BY <1>5 DEF next
  <2>2. /\ BlockSize(m2, r) = BlockSize(m, r) + BlockSize(m, s)
        /\ m2[NextOf(m, s) - 2].size = BlockSize(m, r) + BlockSize(m, s)
    BY <1>4, <1>6 DEF next
  <2>3. m2 \in Memory
    BY <1>3
  <2>4. /\ Tiles(m2, end, S \ {s}) /\ NextOf(m2, r) = NextOf(m, s)
        /\ \A q \in S \ {r, s} : NextOf(m2, q) = NextOf(m, q)
    BY <2>1, <2>2, <2>3, MergeTiles
  <2> QED
    BY <2>4 DEF next
<1>8. ASSUME NEW q \in S \ {r, s} PROVE m2[q - 1] = m[q - 1]
  <2>1. q \in Nat /\ q - 1 \in Addr /\ NextOf(m, q) \in Nat /\ q < NextOf(m, q)
    BY BlockBounds
  <2>2. /\ q - 1 < r - 1 \/ q - 1 > s - 2
        /\ q - 1 < s - 1 \/ q - 1 > next - 2
    <3>1. q - 1 \in q - 1 .. NextOf(m, q) - 2
      BY <2>1
    <3> QED
      BY <3>1, BlocksApart DEF next
  <2>3. q - 1 < r - 1 \/ q - 1 > next - 2
    BY <1>1, <2>1, <2>2
  <2> QED
    BY <1>5, <2>1, <2>3
<1>9. EndBlock(m2, end)
  <2>1. end - 1 \in Addr /\ end - 1 > next - 2
    BY <1>1, MallocAssumption DEF Addr, Words
  <2> QED
    BY <1>5, <2>1 DEF EndBlock
<1>10. HeldBlocks(m2, S \ {s}) = HeldBlocks(m, S)
  <2>1. \A q \in S \ {r, s} : Used(m2, q) = Used(m, q) /\ BlockSize(m2, q) = BlockSize(m, q)
    BY <1>8 DEF Used, BlockSize
  <2>2. ASSUME NEW c \in HeldBlocks(m, S) PROVE c \in HeldBlocks(m2, S \ {s})
    <3>1. PICK q \in S : Used(m, q) /\ c = [base |-> q - 1, n |-> BlockSize(m, q)]
      BY <2>2 DEF HeldBlocks
    <3>2. q \in S \ {s} /\ Used(m2, q) /\ c = [base |-> q - 1, n |-> BlockSize(m2, q)]
      BY <2>1, <3>1
    <3> QED
      BY <3>2 DEF HeldBlocks
  <2>3. ASSUME NEW c \in HeldBlocks(m2, S \ {s}) PROVE c \in HeldBlocks(m, S)
    <3>1. PICK q \in S \ {s} :
            Used(m2, q) /\ c = [base |-> q - 1, n |-> BlockSize(m2, q)]
      BY <2>3 DEF HeldBlocks
    <3>2. q # r
      BY <1>6, <3>1
    <3>3. Used(m, q) /\ c = [base |-> q - 1, n |-> BlockSize(m, q)]
      BY <2>1, <3>1, <3>2
    <3> QED
      BY <3>3 DEF HeldBlocks
  <2> QED
    BY <2>2, <2>3
<1>11. ASSUME NEW c \in HeldBlocks(m, S), NEW a \in Payload(c) PROVE m2[a] = m[a]
  <2>1. PICK q \in S : Used(m, q) /\ Payload(c) \subseteq q .. NextOf(m, q) - 3
    BY HeldBlockIs
  <2>2. q # r /\ q # s
    BY <2>1
  <2>3. a \in q - 1 .. NextOf(m, q) - 2
    BY <2>1, BlockBounds
  <2>4. /\ a \in Addr
        /\ a < r - 1 \/ a > s - 2
        /\ a < s - 1 \/ a > next - 2
    BY <2>2, <2>3, BlocksApart DEF next
  <2>5. a \in Int
    BY <2>4, MallocAssumption DEF Addr, Words
  <2>6. a < r - 1 \/ a > next - 2
    BY <1>1, <2>4, <2>5
  <2> QED
    BY <1>5, <2>4, <2>6
<1> QED
  BY <1>1, <1>3, <1>5, <1>6, <1>7, <1>8, <1>9, <1>10, <1>11 DEF m2, next

(* The free blocks have been merged, except with a block before p.         *)
MergedUpTo(m, end, S, p) ==
  \A q \in S : ~ Used(m, q) =>
    NextOf(m, q) = end \/ Used(m, NextOf(m, q)) \/ NextOf(m, q) = p

(* The first step of mm_free: the block at p is marked free.               *)
LEMMA FreedBlock ==
  ASSUME NEW m \in Memory, NEW end, NEW S, NEW held, Heap(m, end, S, held),
         NEW p \in S, Used(m, p)
  PROVE  LET m2 == SetUsed(m, p, FALSE)
         IN  /\ m2 \in Memory
             /\ Tiles(m2, end, S) /\ EndBlock(m2, end)
             /\ HeldBlocks(m2, S) = held \ {[base |-> p - 1, n |-> BlockSize(m, p)]}
             /\ \A a \in Addr : a # p - 1 => m2[a] = m[a]
             /\ ~ Used(m2, p)
             /\ MergedUpTo(m2, end, S \ {p}, p)
<1> DEFINE m2 == SetUsed(m, p, FALSE)
           b == [base |-> p - 1, n |-> BlockSize(m, p)]
<1>1. /\ end \in 2 .. Words - 1 /\ Tiles(m, end, S) /\ EndBlock(m, end)
      /\ Merged(m, end, S) /\ held = HeldBlocks(m, S)
  BY DEF Heap
<1>2. p \in 1 .. end - 1 /\ p - 1 \in Addr
  BY <1>1, BlockBounds
<1>3. /\ m2 \in Memory
      /\ \A a \in Addr : a # p - 1 => m2[a] = m[a]
      /\ m2[p - 1].size = m[p - 1].size
      /\ m2[p - 1].used = FALSE
  <2>1. p \in Int /\ FALSE \in BOOLEAN
    BY <1>2
  <2> QED
    BY ONLY <1>2, <2>1, SetUsedWords, m \in Memory
<1> HIDE DEF m2
<1>4. \A a \in Addr : m2[a].size = m[a].size
  BY <1>3
<1>5. \A q \in S : q - 1 \in Addr /\ NextOf(m, q) - 2 \in Addr
  BY <1>1, BlockBounds
<1>6. \A q \in S : /\ BlockSize(m2, q) = BlockSize(m, q)
                   /\ m2[NextOf(m, q) - 2].size = m[NextOf(m, q) - 2].size
  BY <1>4, <1>5 DEF BlockSize
<1>7. Tiles(m2, end, S) /\ \A q \in S : NextOf(m2, q) = NextOf(m, q)
  BY <1>1, <1>3, <1>6, SameSizesTile
<1>8. ~ Used(m2, p)
  BY <1>3 DEF Used
<1>9. ASSUME NEW q \in S, q # p PROVE Used(m2, q) = Used(m, q)
  <2>1. q - 1 # p - 1
    BY <1>1, <1>2, <1>9, BlockBounds
  <2> QED
    BY <1>3, <1>5, <2>1 DEF Used
<1>10. EndBlock(m2, end)
  <2>1. end - 1 \in Addr /\ end - 1 # p - 1
    BY <1>1, <1>2, MallocAssumption DEF Addr, Words
  <2> QED
    BY <1>1, <1>3, <2>1 DEF EndBlock
<1>11. HeldBlocks(m2, S) = held \ {b}
  <2>1. ASSUME NEW c \in held, c # b PROVE c \in HeldBlocks(m2, S)
    <3>1. PICK q \in S : Used(m, q) /\ c = [base |-> q - 1, n |-> BlockSize(m, q)]
      BY <1>1, <2>1 DEF HeldBlocks
    <3>2. q # p
      BY <2>1, <3>1
    <3>3. Used(m2, q) /\ c = [base |-> q - 1, n |-> BlockSize(m2, q)]
      BY <1>6, <1>9, <3>1, <3>2
    <3> QED
      BY <3>3 DEF HeldBlocks
  <2>2. ASSUME NEW c \in HeldBlocks(m2, S) PROVE c \in held /\ c # b
    <3>1. PICK q \in S : Used(m2, q) /\ c = [base |-> q - 1, n |-> BlockSize(m2, q)]
      BY <2>2 DEF HeldBlocks
    <3>2. q # p
      BY <1>8, <3>1
    <3>3. Used(m, q) /\ c = [base |-> q - 1, n |-> BlockSize(m, q)]
      BY <1>6, <1>9, <3>1, <3>2
    <3>4. q - 1 # p - 1
      BY <1>1, <1>2, <3>2, BlockBounds
    <3>5. c # b
      BY <3>3, <3>4
    <3> QED
      BY <1>1, <3>3, <3>5 DEF HeldBlocks
  <2> QED
    BY <2>1, <2>2
<1>12. MergedUpTo(m2, end, S \ {p}, p)
  <2> SUFFICES ASSUME NEW q \in S \ {p}, ~ Used(m2, q),
                      NextOf(m2, q) # end, NextOf(m2, q) # p
               PROVE  Used(m2, NextOf(m2, q))
    BY DEF MergedUpTo
  <2>1. /\ ~ Used(m, q) /\ NextOf(m2, q) = NextOf(m, q)
        /\ NextOf(m, q) # end /\ NextOf(m, q) # p
    BY <1>7, <1>9
  <2>2. NextOf(m, q) \in S
    BY <1>1, <2>1, BlockBounds
  <2>3. Used(m, NextOf(m, q))
    BY <1>1, <2>1, Zenon DEF Merged
  <2> QED
    BY <1>9, <2>1, <2>2, <2>3
<1> QED
  BY <1>3, <1>7, <1>8, <1>10, <1>11, <1>12 DEF m2

(* The second: it is merged with a free block behind it.                   *)
LEMMA MergeNextKeeps ==
  ASSUME NEW m \in Memory, NEW S, mm_end_block \in 2 .. Words - 1,
         Tiles(m, mm_end_block, S), EndBlock(m, mm_end_block),
         NEW p \in S, ~ Used(m, p), MergedUpTo(m, mm_end_block, S \ {p}, p)
  PROVE  LET m2 == MergedWithNext(m, p)
         IN  /\ m2 \in Memory
             /\ \A c \in HeldBlocks(m, S) : \A a \in Payload(c) : m2[a] = m[a]
             /\ \E V : /\ Tiles(m2, mm_end_block, V) /\ EndBlock(m2, mm_end_block)
                       /\ HeldBlocks(m2, V) = HeldBlocks(m, S)
                       /\ p \in V /\ ~ Used(m2, p)
                       /\ MergedUpTo(m2, mm_end_block, V, p)
<1> DEFINE m2 == MergedWithNext(m, p)
           next == NextOf(m, p)
           end == mm_end_block
<1>1. /\ next \in S \cup {end} /\ next <= end /\ p \in Nat /\ next \in Nat /\ p < next
  BY BlockBounds
<1>2. Used(m, end)
  BY DEF EndBlock, Used
<1>3. CASE next # end /\ ~ Used(m, next)
  <2>1. m2 = FreeTagged(m, p, BlockSize(m, p) + BlockSize(m, next))
    <3>1. next # p /\ next <= end
      BY <1>1
    <3> QED
      BY <1>3, <3>1, Zenon DEF MergedWithNext, FreeTagged
  <2> HIDE DEF m2
  <2>2. next \in S
    BY <1>1, <1>3
  <2> DEFINE V == S \ {next}
  <2>3. /\ m2 \in Memory
        /\ Tiles(m2, end, V) /\ EndBlock(m2, end)
        /\ HeldBlocks(m2, V) = HeldBlocks(m, S)
        /\ ~ Used(m2, p) /\ NextOf(m2, p) = NextOf(m, next)
        /\ \A q \in S \ {p, next} : m2[q - 1] = m[q - 1] /\ NextOf(m2, q) = NextOf(m, q)
        /\ \A c \in HeldBlocks(m, S) : \A a \in Payload(c) : m2[a] = m[a]
    BY <1>3, <2>1, <2>2, MergedPair
  <2>4. p \in V
    BY <1>1
  <2>5. Used(m2, end)
    BY <2>3 DEF EndBlock, Used
  <2>6. \A q \in S \ {p, next} : Used(m2, q) = Used(m, q)
    BY <2>3 DEF Used
  <2>7. ASSUME NEW q \in V, ~ Used(m2, q), NextOf(m2, q) # end, NextOf(m2, q) # p
        PROVE  Used(m2, NextOf(m2, q))
    <3>1. CASE q = p
      <4>1. NextOf(m, next) \in S /\ NextOf(m, next) # end
        BY <2>2, <2>3, <2>7, <3>1, BlockBounds
      <4>2. NextOf(m, next) # p /\ NextOf(m, next) # next
        BY <1>1, <2>2, BlockBounds
      <4>3. next \in S \ {p}
        BY <1>1, <2>2
      <4>4. Used(m, NextOf(m, next))
        BY <1>3, <4>1, <4>2, <4>3, Zenon DEF MergedUpTo
      <4>5. NextOf(m, next) \in S \ {p, next}
        BY <4>1, <4>2
      <4> QED
        BY <2>3, <2>6, <3>1, <4>4, <4>5
    <3>2. CASE q # p
      <4>1. q \in S \ {p, next} /\ NextOf(m2, q) = NextOf(m, q) /\ ~ Used(m, q)
        BY <2>3, <2>6, <2>7, <3>2
      <4>2. NextOf(m, q) \in S /\ NextOf(m, q) # next
        <5>1. NextOf(m, q) \in S
          BY <2>7, <4>1, BlockBounds
        <5>2. NextOf(m, q) # next
          BY <4>1, TagsInOrder
        <5> QED
          BY <5>1, <5>2
      <4>3. Used(m, NextOf(m, q))
        BY <2>7, <4>1, Zenon DEF MergedUpTo
      <4>4. NextOf(m, q) \in S \ {p, next}
        BY <2>7, <4>1, <4>2
      <4> QED
        BY <2>6, <4>1, <4>3, <4>4
    <3> QED
      BY <3>1, <3>2
  <2>8. MergedUpTo(m2, end, V, p)
    BY <2>7, Zenon DEF MergedUpTo
  <2> QED
    BY <2>3, <2>4, <2>8 DEF m2
<1>4. CASE next = end \/ Used(m, next)
  <2>1. Used(m, next)
    BY <1>2, <1>4
  <2>2. m2 = m
    BY <2>1, Zenon DEF MergedWithNext
  <2>3. MergedUpTo(m, end, S, p)
    BY <2>1, Zenon DEF MergedUpTo
  <2> QED
    BY <2>2, <2>3
<1> QED
  BY <1>3, <1>4

(* The third: with a free block before it.  Below the first block lies a   *)
(* word nobody wrote; whatever it holds is not taken for a block.          *)
LEMMA MergePrevKeeps ==
  ASSUME NEW m \in Memory, NEW end \in 2 .. Words - 1, NEW S,
         Tiles(m, end, S), EndBlock(m, end),
         NEW p \in S, ~ Used(m, p), MergedUpTo(m, end, S, p)
  PROVE  LET m2 == MergedWithPrev(m, p)
         IN  /\ m2 \in Memory
             /\ \A c \in HeldBlocks(m, S) : \A a \in Payload(c) : m2[a] = m[a]
             /\ \E V : Heap(m2, end, V, HeldBlocks(m, S))
<1> DEFINE m2 == MergedWithPrev(m, p)
           prev == PrevOf(m, p)
<1>1. /\ p \in Nat /\ p >= 1 /\ NextOf(m, p) \in S \cup {end}
      /\ NextOf(m, p) \in Nat /\ p < NextOf(m, p)
  BY BlockBounds
<1>2. ASSUME NEW q \in S, NextOf(m, q) = p
      PROVE  q = prev
  <2>1. /\ q + BlockSize(m, q) = p /\ m[p - 2].size = BlockSize(m, q)
        /\ q \in Nat /\ BlockSize(m, q) \in Nat
    BY <1>2, BlockBounds
  <2> QED
    BY <2>1 DEF PrevOf
<1>3. ASSUME m2 = m, \A q \in S : NextOf(m, q) = p => Used(m, q)
      PROVE  /\ m2 \in Memory
             /\ \A c \in HeldBlocks(m, S) : \A a \in Payload(c) : m2[a] = m[a]
             /\ \E V : Heap(m2, end, V, HeldBlocks(m, S))
  <2>1. Merged(m, end, S)
    BY <1>3, Zenon DEF MergedUpTo, Merged
  <2>2. Heap(m, end, S, HeldBlocks(m, S))
    BY <2>1 DEF Heap
  <2> QED
    BY <1>3, <2>2
<1>4. CASE p = start_block
  <2>1. ~ prev >= start_block \/ prev = p
    <3>1. p - 2 = -1 /\ m[p - 2].size \in Nat
      BY <1>4, MallocAssumption DEF start_block, Addr, Words, Memory
    <3> QED
      BY <1>4, <3>1 DEF PrevOf, start_block
  <2>2. m2 = m
    BY <2>1, Zenon DEF MergedWithPrev
  <2>3. \A q \in S : NextOf(m, q) # p
    BY <1>4, BlockBounds DEF start_block
  <2> QED
    BY <1>3, <2>2, <2>3
<1>5. CASE p # start_block /\ Used(m, prev)
  <2>1. m2 = m
    BY <1>5, Zenon DEF MergedWithPrev
  <2> QED
    BY <1>2, <1>3, <1>5, <2>1
<1>6. CASE p # start_block /\ ~ Used(m, prev)
  <2>1. PICK q \in S : NextOf(m, q) = p
    BY <1>6 DEF Tiles
  <2>2. q = prev
    BY <1>2, <2>1
  <2>3. prev \in S /\ NextOf(m, prev) = p
    BY <2>1, <2>2
  <2>4. /\ prev # p /\ prev >= start_block
        /\ BlockSize(m, p) + BlockSize(m, prev) = BlockSize(m, prev) + BlockSize(m, p)
    BY <2>3, BlockBounds DEF start_block
  <2>5. m2 = FreeTagged(m, prev, BlockSize(m, p) + BlockSize(m, prev))
    BY <1>6, <2>4, Zenon DEF MergedWithPrev, FreeTagged
  <2> HIDE DEF m2, prev
  <2> DEFINE V == S \ {p}
  <2>6. /\ m2 \in Memory
        /\ Tiles(m2, end, V) /\ EndBlock(m2, end)
        /\ HeldBlocks(m2, V) = HeldBlocks(m, S)
        /\ prev < p /\ ~ Used(m2, prev) /\ NextOf(m2, prev) = NextOf(m, p)
        /\ \A r \in S \ {prev, p} : m2[r - 1] = m[r - 1] /\ NextOf(m2, r) = NextOf(m, r)
        /\ \A c \in HeldBlocks(m, S) : \A a \in Payload(c) : m2[a] = m[a]
    BY <1>6, <2>3, <2>4, <2>5, MergedPair
  <2>7. \A r \in S \ {prev, p} : Used(m2, r) = Used(m, r)
    BY <2>6 DEF Used
  <2>8. ASSUME NEW r \in V, ~ Used(m2, r), NextOf(m2, r) # end
        PROVE  Used(m2, NextOf(m2, r))
    <3>1. CASE r = prev
      <4>1. NextOf(m, p) \in S \ {prev, p} /\ NextOf(m, p) # end
        BY <1>1, <2>3, <2>6, <2>8, <3>1, BlockBounds
      <4>2. NextOf(m, p) # p
        BY <1>1
      <4>3. Used(m, NextOf(m, p))
        BY <4>1, <4>2, Zenon DEF MergedUpTo
      <4> QED
        BY <2>6, <2>7, <3>1, <4>1, <4>3
    <3>2. CASE r # prev
      <4>1. r \in S \ {prev, p} /\ NextOf(m2, r) = NextOf(m, r) /\ ~ Used(m, r)
        BY <2>6, <2>7, <2>8, <3>2
      <4>2. NextOf(m, r) \in S /\ NextOf(m, r) # p
        BY <2>3, <2>8, <4>1, BlockBounds, TagsInOrder
      <4>3. Used(m, NextOf(m, r))
        BY <2>8, <4>1, <4>2, Zenon DEF MergedUpTo
      <4>4. NextOf(m, r) \in S \ {prev, p}
        BY <1>6, <4>2, <4>3
      <4> QED
        BY <2>7, <4>1, <4>3, <4>4
    <3> QED
      BY <3>1, <3>2
  <2>9. Merged(m2, end, V)
    BY <2>8, Zenon DEF Merged
  <2>10. Heap(m2, end, V, HeldBlocks(m, S))
    BY <2>6, <2>9 DEF Heap
  <2> QED
    BY <2>6, <2>10 DEF m2
<1> QED
  BY <1>4, <1>5, <1>6

(* What mm_free makes of memory m.                                         *)
Freed(m, p) == MergedWithPrev(MergedWithNext(SetUsed(m, p, FALSE), p), p)

(* mm_free as a whole.                                                     *)
LEMMA FreeKeepsHeap ==
  ASSUME NEW m \in Memory, NEW S, NEW held, Heap(m, mm_end_block, S, held),
         NEW p \in S, Used(m, p)
  PROVE  LET m2   == Freed(m, p)
             rest == held \ {[base |-> p - 1, n |-> BlockSize(m, p)]}
         IN  /\ m2 \in Memory
             /\ \E V : Heap(m2, mm_end_block, V, rest)
             /\ \A c \in rest : \A a \in Payload(c) : m2[a] = m[a]
<1> DEFINE m1 == SetUsed(m, p, FALSE)
           mn == MergedWithNext(m1, p)
           m2 == MergedWithPrev(mn, p)
           rest == held \ {[base |-> p - 1, n |-> BlockSize(m, p)]}
           end == mm_end_block
<1>1. end \in 2 .. Words - 1 /\ Tiles(m, end, S) /\ held = HeldBlocks(m, S)
  BY DEF Heap
<1>2. /\ m1 \in Memory
      /\ Tiles(m1, end, S) /\ EndBlock(m1, end)
      /\ HeldBlocks(m1, S) = rest
      /\ \A a \in Addr : a # p - 1 => m1[a] = m[a]
      /\ ~ Used(m1, p)
      /\ MergedUpTo(m1, end, S \ {p}, p)
  BY FreedBlock
<1> HIDE DEF m1, rest
<1>3. /\ mn \in Memory
      /\ \A c \in rest : \A a \in Payload(c) : mn[a] = m1[a]
  BY <1>1, <1>2, MergeNextKeeps
<1>4. PICK V : /\ Tiles(mn, end, V) /\ EndBlock(mn, end)
               /\ HeldBlocks(mn, V) = rest
               /\ p \in V /\ ~ Used(mn, p)
               /\ MergedUpTo(mn, end, V, p)
  BY <1>1, <1>2, MergeNextKeeps
<1> HIDE DEF mn
<1>5. /\ m2 \in Memory
      /\ \A c \in rest : \A a \in Payload(c) : m2[a] = mn[a]
      /\ \E W : Heap(m2, end, W, rest)
  BY <1>1, <1>3, <1>4, MergePrevKeeps
<1>6. ASSUME NEW c \in rest, NEW a \in Payload(c) PROVE m1[a] = m[a]
  <2>1. c \in held /\ c # [base |-> p - 1, n |-> BlockSize(m, p)]
    BY <1>6 DEF rest
  <2>2. PICK q \in S : /\ c = [base |-> q - 1, n |-> BlockSize(m, q)]
                       /\ Payload(c) \subseteq q .. NextOf(m, q) - 3
    BY <1>1, <2>1, HeldBlockIs
  <2>3. q # p
    BY <2>1, <2>2
  <2>4. a \in q - 1 .. NextOf(m, q) - 2
    BY <1>1, <2>2, BlockBounds
  <2>5. a \in Addr /\ (a < p - 1 \/ a > NextOf(m, p) - 2)
    BY <1>1, <2>3, <2>4, BlocksApart
  <2>6. p \in Nat /\ NextOf(m, p) \in Nat /\ p < NextOf(m, p)
    BY <1>1, BlockBounds
  <2>7. a \in Int
    BY <2>5, MallocAssumption DEF Addr, Words
  <2>8. a # p - 1
    BY <2>5, <2>6, <2>7
  <2> QED
    BY <1>2, <2>5, <2>8
<1>7. Freed(m, p) = m2
  BY Zenon DEF m2, mn, m1, Freed
<1> HIDE DEF m2
<1> QED
  BY <1>3, <1>5, <1>6, <1>7 DEF rest
-----------------------------------------------------------------------------
(* The words that carry tags.                                              *)
LEMMA FreeTaggedWords ==
  ASSUME NEW m \in Memory, NEW p \in Int, NEW size \in Nat,
         p - 1 \in Addr, p + size - 2 \in Addr
  PROVE  /\ FreeTagged(m, p, size) \in Memory
         /\ \A a \in Addr : FreeTagged(m, p, size)[a] =
              IF a = p - 1 \/ a = p + size - 2 THEN [size |-> size, used |-> FALSE] ELSE m[a]
<1>1. FALSE \in BOOLEAN
  OBVIOUS
<1> QED
  BY <1>1, TaggedWords DEF FreeTagged

LEMMA EndTaggedWords ==
  ASSUME NEW m \in Memory, NEW end \in Int, end - 2 \in Addr, end - 1 \in Addr
  PROVE  /\ EndTagged(m, end) \in Memory
         /\ \A a \in Addr : EndTagged(m, end)[a] =
              IF a = end - 2 \/ a = end - 1 THEN [size |-> 2, used |-> TRUE] ELSE m[a]
<1> DEFINE tag == [size |-> 2, used |-> TRUE]
<1>1. (end - 1) - 1 = end - 2 /\ (end - 1) + 2 - 2 = end - 1
  OBVIOUS
<1>2. EndTagged(m, end) = [m EXCEPT ![(end - 1) - 1] = tag, ![(end - 1) + 2 - 2] = tag]
  BY Zenon DEF EndTagged, Tagged
<1>3. EndTagged(m, end) = [m EXCEPT ![end - 2] = tag, ![end - 1] = tag]
  BY ONLY <1>1, <1>2, Zenon
<1>4. tag \in Word
  BY DEF Word
<1> HIDE DEF tag
<1>5. /\ EndTagged(m, end) \in Memory
      /\ \A a \in Addr : EndTagged(m, end)[a] =
           IF a = end - 2 \/ a = end - 1 THEN tag ELSE m[a]
  BY <1>3, <1>4 DEF Memory, Word
<1> QED
  BY <1>5 DEF tag

(* The last block of a heap may get another size if it is free.            *)
LEMMA ResizedHeap ==
  ASSUME NEW m \in Memory, NEW m2 \in Memory, NEW end, NEW end2 \in 2 .. Words - 1,
         NEW S, NEW held, Heap(m, end, S, held), EndBlock(m2, end2),
         NEW p \in S, NextOf(m, p) = end, p < end2,
         BlockSize(m2, p) = end2 - p, m2[end2 - 2].size = end2 - p,
         Used(m2, p) = Used(m, p), end2 = end \/ ~ Used(m, p),
         \A a \in Addr : a < p - 1 => m2[a] = m[a]
  PROVE  /\ Heap(m2, end2, S, held)
         /\ NextOf(m2, p) = end2
         /\ \A q \in S \ {p} : m2[q - 1] = m[q - 1]
<1>1. /\ end \in 2 .. Words - 1 /\ Tiles(m, end, S) /\ Merged(m, end, S)
      /\ held = HeldBlocks(m, S)
  BY DEF Heap
<1>2. /\ Tiles(m2, end2, S) /\ NextOf(m2, p) = end2
      /\ \A q \in S \ {p} : m2[q - 1] = m[q - 1] /\ NextOf(m2, q) = NextOf(m, q)
  BY <1>1, LastBlockTiles
<1>3. \A q \in S \ {p} : Used(m2, q) = Used(m, q) /\ BlockSize(m2, q) = BlockSize(m, q)
  BY <1>2 DEF Used, BlockSize
<1>4. Used(m, p) => BlockSize(m2, p) = BlockSize(m, p)
  <2>1. p \in Nat /\ BlockSize(m, p) \in Nat /\ end = p + BlockSize(m, p)
    BY <1>1, BlockBounds
  <2> QED
    BY <2>1
<1>5. \A q \in S : Used(m2, q) = Used(m, q)
  BY <1>3
<1>6. \A q \in S : Used(m, q) => BlockSize(m2, q) = BlockSize(m, q)
  BY <1>3, <1>4
<1>7. HeldBlocks(m2, S) = HeldBlocks(m, S)
  BY <1>5, <1>6 DEF HeldBlocks
<1>8. Merged(m2, end2, S)
  <2> SUFFICES ASSUME NEW q \in S, ~ Used(m2, q), NextOf(m2, q) # end2
               PROVE  Used(m2, NextOf(m2, q))
    BY DEF Merged
  <2>1. q # p /\ NextOf(m2, q) = NextOf(m, q) /\ ~ Used(m, q)
    BY <1>2, <1>5
  <2>2. NextOf(m, q) # end
    BY <1>1, <2>1, TagsInOrder
  <2>3. NextOf(m, q) \in S
    BY <1>1, <2>2, BlockBounds
  <2>4. Used(m, NextOf(m, q))
    BY <1>1, <2>1, <2>2, Zenon DEF Merged
  <2> QED
    BY <1>5, <2>1, <2>3, <2>4
<1> QED
  BY <1>1, <1>2, <1>7, <1>8 DEF Heap

(* A heap has a last block, and the footer below the end block leads to it.*)
LEMMA LastBlock ==
  ASSUME NEW m \in Memory, NEW end \in 2 .. Words - 1, NEW S, Tiles(m, end, S)
  PROVE  \E p \in S : /\ NextOf(m, p) = end /\ PrevOf(m, end) = p
                      /\ Max(S) = p
                      /\ \A q \in S : q <= p /\ (NextOf(m, q) = end => q = p)
<1>1. PICK p \in S : NextOf(m, p) = end
  <2>1. end # start_block
    BY DEF start_block
  <2> QED
    BY <2>1 DEF Tiles
<1>2. /\ p \in Nat /\ BlockSize(m, p) \in Nat /\ end = p + BlockSize(m, p)
      /\ m[end - 2].size = BlockSize(m, p)
  BY <1>1, BlockBounds
<1>3. PrevOf(m, end) = p
  BY <1>2 DEF PrevOf
<1>4. \A q \in S : q \in Nat /\ q <= p /\ (NextOf(m, q) = end => q = p)
  BY <1>1, BlockBounds, TagsInOrder
<1>5. Max(S) = p
  <2>1. p \in S /\ \A y \in S : p >= y
    BY <1>2, <1>4
  <2>2. Max(S) \in S /\ \A y \in S : Max(S) >= y
    BY <2>1 DEF Max
  <2>3. Max(S) >= p /\ p >= Max(S) /\ Max(S) \in Nat
    BY <1>4, <2>1, <2>2
  <2> QED
    BY <1>2, <2>3
<1> QED
  BY <1>1, <1>3, <1>4, <1>5

(* A free block from p to end2, followed by an end block.                  *)
LEMMA FreeTailWords ==
  ASSUME NEW m \in Memory, NEW end2 \in 2 .. Words - 1, NEW p \in 1 .. end2 - 1,
         NEW size, size = end2 - p
  PROVE  LET m2 == EndTagged(FreeTagged(m, p, size), end2 + 1)
         IN  /\ m2 \in Memory /\ EndBlock(m2, end2)
             /\ BlockSize(m2, p) = size /\ ~ Used(m2, p) /\ m2[end2 - 2].size = size
             /\ \A a \in Addr : a # p - 1 /\ a < end2 - 2 => m2[a] = m[a]
<1> DEFINE f == FreeTagged(m, p, size)
           m2 == EndTagged(f, end2 + 1)
<1>1. /\ p - 1 \in Addr /\ p + size - 2 = end2 - 2 /\ p + size - 2 \in Addr
      /\ p \in Int /\ size \in Nat /\ end2 + 1 \in Int
      /\ (end2 + 1) - 2 = end2 - 1 /\ (end2 + 1) - 1 = end2
      /\ end2 - 1 \in Addr /\ end2 \in Addr
      /\ p - 1 # end2 - 1 /\ p - 1 # end2 /\ end2 - 2 # end2 - 1 /\ end2 - 2 # end2
  BY MallocAssumption DEF Addr, Words
<1>2. /\ f \in Memory
      /\ \A a \in Addr : f[a] = IF a = p - 1 \/ a = p + size - 2
                                THEN [size |-> size, used |-> FALSE] ELSE m[a]
  BY <1>1, FreeTaggedWords
<1> HIDE DEF f
<1>3. /\ m2 \in Memory
      /\ \A a \in Addr : m2[a] = IF a = (end2 + 1) - 2 \/ a = (end2 + 1) - 1
                                 THEN [size |-> 2, used |-> TRUE] ELSE f[a]
  BY <1>1, <1>2, EndTaggedWords
<1> HIDE DEF m2
<1>4. m2[end2 - 1] = [size |-> 2, used |-> TRUE]
  BY ONLY <1>1, <1>3, Zenon
<1>5. m2[p - 1] = [size |-> size, used |-> FALSE]
  BY ONLY <1>1, <1>2, <1>3, Zenon
<1>6. m2[end2 - 2] = [size |-> size, used |-> FALSE]
  BY ONLY <1>1, <1>2, <1>3, Zenon
<1>7. ASSUME NEW a \in Addr, a # p - 1, a < end2 - 2 PROVE m2[a] = m[a]
  <2>1. a # (end2 + 1) - 2 /\ a # (end2 + 1) - 1 /\ a # p + size - 2
    BY <1>1, <1>7
  <2> QED
    BY ONLY <1>2, <1>3, <1>7, <2>1, Zenon
<1>8. BlockSize(m2, p) = size /\ ~ Used(m2, p)
  BY <1>5 DEF BlockSize, Used
<1> QED
  BY <1>3, <1>4, <1>6, <1>7, <1>8 DEF EndBlock, m2, f

(* Payloads are inside blocks: changes of the last tags leave them alone.  *)
LEMMA LastTagsKeepPayloads ==
  ASSUME NEW m \in Memory, NEW end \in 2 .. Words - 1, NEW S, Tiles(m, end, S),
         NEW p \in S, NextOf(m, p) = end, NEW m2,
         \A a \in Addr : a < p - 1 => m2[a] = m[a],
         Used(m, p) => \A a \in Addr : p <= a /\ a < end - 2 => m2[a] = m[a],
         NEW c \in HeldBlocks(m, S), NEW a \in Payload(c)
  PROVE  m2[a] = m[a]
<1>1. PICK q \in S : /\ Used(m, q) /\ Payload(c) \subseteq q .. NextOf(m, q) - 3
  BY HeldBlockIs
<1>2. /\ q \in Nat /\ NextOf(m, q) \in Nat /\ p \in Nat /\ end \in Nat
      /\ q - 1 \in Addr /\ NextOf(m, q) - 2 \in Addr
  BY BlockBounds
<1>3. a \in q .. NextOf(m, q) - 3
  BY <1>1
<1>4. a \in Addr
  BY <1>2, <1>3, MallocAssumption DEF Addr, Words
<1>5. CASE q = p
  <2>1. p <= a /\ a < end - 2 /\ Used(m, p)
    BY <1>1, <1>2, <1>3, <1>5
  <2> QED
    BY <1>4, <2>1
<1>6. CASE q # p
  <2>1. q < p
    BY <1>2, <1>6, TagsInOrder, BlockBounds
  <2>2. NextOf(m, q) <= p
    BY <2>1, TagsInOrder
  <2>3. a < p - 1
    BY <1>2, <1>3, <2>2
  <2> QED
    BY <1>4, <2>3
<1> QED
  BY <1>5, <1>6

(* A page more at the end of the heap.                                     *)
LEMMA GrownKeepsHeap ==
  ASSUME NEW m \in Memory, NEW S, NEW held, Heap(m, mm_end_block, S, held),
         mm_end = mm_end_block + 1, mm_end + PageWords <= Words
  PROVE  LET g    == Grown(m)
             end2 == mm_end + PageWords - 1
         IN  /\ g.mem \in Memory
             /\ \E V : /\ Heap(g.mem, end2, V, held)
                       /\ g.last \in V
                       /\ \A q \in V \ {g.last} : q \in S /\ g.mem[q - 1] = m[q - 1]
             /\ NextOf(g.mem, g.last) = end2 /\ ~ Used(g.mem, g.last)
             /\ g.last <= mm_end_block
             /\ \A q \in S : NextOf(m, q) = mm_end_block /\ ~ Used(m, q) => g.last = q
             /\ \A c \in held : \A a \in Payload(c) : g.mem[a] = m[a]
<1> DEFINE end == mm_end_block
           end2 == end + PageWords
<1>1. /\ end \in 2 .. Words - 1 /\ Tiles(m, end, S) /\ EndBlock(m, end)
      /\ Merged(m, end, S) /\ held = HeldBlocks(m, S)
  BY DEF Heap
<1>2. /\ PageWords \in Nat /\ PageWords > 2 /\ Words \in Nat
      /\ mm_end + PageWords = end2 + 1 /\ mm_end + PageWords - 1 = end2
      /\ end2 \in 2 .. Words - 1 /\ end < end2 /\ end \in Nat /\ end2 \in Nat
      /\ end2 - end = PageWords
  BY <1>1, MallocAssumption DEF Words
<1>3. PICK p \in S : /\ NextOf(m, p) = end /\ PrevOf(m, end) = p
                     /\ \A q \in S : q <= p /\ (NextOf(m, q) = end => q = p)
  BY <1>1, LastBlock
<1>4. p \in Nat /\ p >= 1 /\ p < end /\ BlockSize(m, p) \in Nat /\ end = p + BlockSize(m, p)
  BY <1>1, <1>3, BlockBounds
<1> DEFINE Good(m2, last) ==
             /\ m2 \in Memory
             /\ \E V : /\ Heap(m2, end2, V, held)
                       /\ last \in V
                       /\ \A q \in V \ {last} : q \in S /\ m2[q - 1] = m[q - 1]
             /\ NextOf(m2, last) = end2 /\ ~ Used(m2, last)
             /\ last <= end
             /\ \A q \in S : NextOf(m, q) = end /\ ~ Used(m, q) => last = q
             /\ \A c \in held : \A a \in Payload(c) : m2[a] = m[a]
<1>5. ASSUME Used(m, p) PROVE Good(Grown(m).mem, Grown(m).last)
  <2> DEFINE m2 == EndTagged(FreeTagged(m, end, PageWords), end2 + 1)
  <2>1. Grown(m) = [mem |-> m2, last |-> end]
    BY <1>2, <1>3, <1>5, Zenon DEF Grown, FreeTagged
  <2>2. /\ m2 \in Memory /\ EndBlock(m2, end2)
        /\ BlockSize(m2, end) = PageWords /\ ~ Used(m2, end) /\ m2[end2 - 2].size = PageWords
        /\ \A a \in Addr : a # end - 1 /\ a < end2 - 2 => m2[a] = m[a]
    <3>1. end \in 1 .. end2 - 1 /\ end2 \in 2 .. Words - 1 /\ PageWords = end2 - end
      BY <1>2, <1>4
    <3> HIDE DEF end, end2
    <3>2. ASSUME NEW size, size = end2 - end
          PROVE  LET x == EndTagged(FreeTagged(m, end, size), end2 + 1)
                 IN  /\ x \in Memory /\ EndBlock(x, end2)
                     /\ BlockSize(x, end) = size /\ ~ Used(x, end) /\ x[end2 - 2].size = size
                     /\ \A a \in Addr : a # end - 1 /\ a < end2 - 2 => x[a] = m[a]
      BY ONLY <3>1, <3>2, FreeTailWords, m \in Memory
    <3> QED
      BY ONLY <3>1, <3>2
  <2> HIDE DEF m2
  <2>3. \A a \in Addr : a < end - 1 => m2[a] = m[a]
    <3> TAKE a \in Addr
    <3> HAVE a < end - 1
    <3>1. a # end - 1 /\ a < end2 - 2
      BY <1>2, MallocAssumption DEF Addr, Words
    <3> QED
      BY <2>2, <3>1
  <2> DEFINE V == S \cup {end}
  <2>4. /\ Tiles(m2, end2, V) /\ NextOf(m2, end) = end2
        /\ \A q \in S : m2[q - 1] = m[q - 1] /\ NextOf(m2, q) = NextOf(m, q)
    BY <1>1, <1>2, <2>2, <2>3, NewBlockTiles
  <2>5. \A q \in S : Used(m2, q) = Used(m, q) /\ BlockSize(m2, q) = BlockSize(m, q)
    BY <2>4 DEF Used, BlockSize
  <2>6. Merged(m2, end2, V)
    <3> SUFFICES ASSUME NEW q \in V, ~ Used(m2, q), NextOf(m2, q) # end2
                 PROVE  Used(m2, NextOf(m2, q))
      BY DEF Merged
    <3>1. q \in S
      BY <2>4
    <3>2. NextOf(m2, q) = NextOf(m, q) /\ ~ Used(m, q)
      BY <2>4, <2>5, <3>1
    <3>3. NextOf(m, q) # end
      BY <1>3, <1>5, <3>1, <3>2
    <3>4. NextOf(m, q) \in S
      BY <1>1, <3>1, <3>3, BlockBounds
    <3>5. Used(m, NextOf(m, q))
      BY <1>1, <3>1, <3>2, <3>3, Zenon DEF Merged
    <3> QED
      BY <2>5, <3>2, <3>4, <3>5
  <2>7. HeldBlocks(m2, V) = held
    <3>1. {q \in V : Used(m2, q)} = {q \in S : Used(m, q)}
      BY <2>2, <2>5
    <3>2. \A q \in {r \in S : Used(m, r)} : BlockSize(m2, q) = BlockSize(m, q)
      BY <2>5
    <3> QED
      BY <1>1, <3>1, <3>2 DEF HeldBlocks
  <2>8. Heap(m2, end2, V, held)
    BY <1>2, <2>2, <2>4, <2>6, <2>7 DEF Heap
  <2>9. ASSUME NEW c \in held, NEW a \in Payload(c) PROVE m2[a] = m[a]
    <3>1. \A x \in Addr : p <= x /\ x < end - 2 => m2[x] = m[x]
      BY <1>2, <2>3, MallocAssumption DEF Addr, Words
    <3>2. \A x \in Addr : x < p - 1 => m2[x] = m[x]
      BY <1>2, <1>4, <2>3, MallocAssumption DEF Addr, Words
    <3> QED
      BY <1>1, <1>3, <2>9, <3>1, <3>2, LastTagsKeepPayloads
  <2>10. /\ Grown(m).mem = m2 /\ Grown(m).last = end
    BY <2>1
  <2>11. /\ \E W : /\ Heap(m2, end2, W, held)
                   /\ end \in W
                   /\ \A q \in W \ {end} : q \in S /\ m2[q - 1] = m[q - 1]
    BY <2>4, <2>8
  <2>12. \A q \in S : NextOf(m, q) = end /\ ~ Used(m, q) => end = q
    BY <1>3, <1>5
  <2> QED
    <3>1. end <= end
      BY <1>2
    <3>2. Good(m2, end)
      BY <2>2, <2>4, <2>9, <2>11, <2>12, <3>1
    <3> HIDE DEF Good
    <3> QED
      BY <2>10, <3>2
<1>6. ASSUME ~ Used(m, p) PROVE Good(Grown(m).mem, Grown(m).last)
  <2> DEFINE size == BlockSize(m, p) + PageWords
             m2 == EndTagged(FreeTagged(m, p, size), end2 + 1)
  <2>1. Grown(m) = [mem |-> m2, last |-> p]
    BY <1>2, <1>3, <1>6, Zenon DEF Grown, FreeTagged
  <2>2. size = end2 - p /\ p \in 1 .. end2 - 1
    BY <1>2, <1>4
  <2> HIDE DEF size
  <2>3. /\ m2 \in Memory /\ EndBlock(m2, end2)
        /\ BlockSize(m2, p) = size /\ ~ Used(m2, p) /\ m2[end2 - 2].size = size
        /\ \A a \in Addr : a # p - 1 /\ a < end2 - 2 => m2[a] = m[a]
    BY <1>2, <2>2, FreeTailWords
  <2> HIDE DEF m2
  <2>4. \A a \in Addr : a < p - 1 => m2[a] = m[a]
    <3> TAKE a \in Addr
    <3> HAVE a < p - 1
    <3>1. a # p - 1 /\ a < end2 - 2
      BY <1>2, <1>4, MallocAssumption DEF Addr, Words
    <3> QED
      BY <2>3, <3>1
  <2>5. /\ p < end2 /\ BlockSize(m2, p) = end2 - p /\ m2[end2 - 2].size = end2 - p
        /\ Used(m2, p) = Used(m, p)
    <3>1. Used(m, p) \in BOOLEAN /\ Used(m2, p) \in BOOLEAN
      <4>1. p - 1 \in Addr
        BY <1>1, BlockBounds
      <4> QED
        BY <2>3, <4>1 DEF Used, Memory
    <3>2. Used(m2, p) = Used(m, p)
      BY ONLY <1>6, <2>3, <3>1, Zenon
    <3> QED
      BY <1>2, <1>4, <2>2, <2>3, <3>2
  <2>6. /\ Heap(m2, end2, S, held) /\ NextOf(m2, p) = end2
        /\ \A q \in S \ {p} : m2[q - 1] = m[q - 1]
    BY <1>2, <1>3, <1>6, <2>3, <2>4, <2>5, ResizedHeap
  <2>7. ASSUME NEW c \in held, NEW a \in Payload(c) PROVE m2[a] = m[a]
    BY <1>1, <1>3, <1>6, <2>4, <2>7, LastTagsKeepPayloads
  <2>8. Grown(m).mem = m2 /\ Grown(m).last = p
    BY <2>1
  <2>9. /\ \E W : /\ Heap(m2, end2, W, held)
                  /\ p \in W
                  /\ \A q \in W \ {p} : q \in S /\ m2[q - 1] = m[q - 1]
    BY <2>6
  <2> QED
    <3>1. p <= end
      BY <1>2, <1>4
    <3>2. Good(m2, p)
      BY <1>3, <2>3, <2>6, <2>7, <2>9, <3>1
    <3> HIDE DEF Good
    <3> QED
      BY <2>8, <3>2
<1>7. Good(Grown(m).mem, Grown(m).last)
  BY <1>5, <1>6
<1>8. end2 = mm_end + PageWords - 1
  BY <1>2
<1> HIDE DEF end2
<1> QED
  BY <1>7, <1>8

(* The pages that did not help are cut off again.                          *)
LEMMA CutBackKeepsHeap ==
  ASSUME NEW m \in Memory, NEW S, NEW held, Heap(m, mm_end_block, S, held),
         mm_end = mm_end_block + 1,
         NEW cur_end \in Nat, cur_end > 2, cur_end <= mm_end,
         cur_end < mm_end =>
           \E p \in S : NextOf(m, p) = mm_end_block /\ ~ Used(m, p) /\ p < cur_end
  PROVE  LET m2 == CutBack(m, cur_end)
         IN  /\ m2 \in Memory
             /\ \E V : Heap(m2, cur_end - 1, V, held)
             /\ \A c \in held : \A a \in Payload(c) : m2[a] = m[a]
<1> DEFINE end == mm_end_block
           end2 == cur_end - 1
           cut == EndTagged(m, cur_end)
           Good(m2) == /\ m2 \in Memory
                       /\ \E V : Heap(m2, end2, V, held)
                       /\ \A c \in held : \A a \in Payload(c) : m2[a] = m[a]
<1>1. /\ end \in 2 .. Words - 1 /\ Tiles(m, end, S) /\ EndBlock(m, end)
      /\ Merged(m, end, S) /\ held = HeldBlocks(m, S)
  BY DEF Heap
<1>2. /\ Words \in Nat /\ end2 \in 2 .. Words - 1 /\ end2 <= end /\ end2 \in Nat
      /\ end \in Nat /\ cur_end \in Int
      /\ cur_end - 2 = end2 - 1 /\ cur_end - 1 = end2
      /\ end2 - 1 \in Addr /\ end2 \in Addr /\ end2 - 2 \in Addr
      /\ (cur_end < mm_end <=> end2 < end)
  BY <1>1, MallocAssumption DEF Words, Addr
<1>3. PICK p \in S : /\ NextOf(m, p) = end /\ Max(S) = p
                     /\ \A q \in S : q <= p /\ (NextOf(m, q) = end => q = p)
  BY <1>1, LastBlock
<1>4. /\ p \in Nat /\ p >= 1 /\ p < end /\ BlockSize(m, p) \in Nat /\ end = p + BlockSize(m, p)
      /\ p - 1 \in Addr /\ Used(m, p) \in BOOLEAN
  BY <1>1, <1>3, BlockBounds
<1>5. p <= end2 /\ (end2 < end => ~ Used(m, p))
  <2>1. CASE end2 < end
    <3>1. PICK q \in S : NextOf(m, q) = end /\ ~ Used(m, q) /\ q < cur_end
      BY <1>2, <2>1
    <3>2. q = p
      BY <1>3, <3>1
    <3> QED
      BY <1>2, <1>4, <3>1, <3>2
  <2>2. CASE end2 = end
    BY <1>2, <1>4, <2>2
  <2> QED
    BY <1>2, <2>1, <2>2
<1>6. /\ cut \in Memory
      /\ \A a \in Addr : cut[a] = IF a = end2 - 1 \/ a = end2
                                  THEN [size |-> 2, used |-> TRUE] ELSE m[a]
  <2>1. /\ cut \in Memory
        /\ \A a \in Addr : cut[a] = IF a = cur_end - 2 \/ a = cur_end - 1
                                    THEN [size |-> 2, used |-> TRUE] ELSE m[a]
    BY <1>2, EndTaggedWords
  <2> HIDE DEF cut, end2
  <2> QED
    BY ONLY <1>2, <2>1, Zenon
<1> HIDE DEF cut
<1>7. Max(Walk(m, end)) = p
  BY <1>1, <1>3, WalkMeetsTiles
<1>8. ASSUME p = end2 PROVE Good(CutBack(m, cur_end))
  <2>1. CutBack(m, cur_end) = cut
    BY <1>7, <1>8, Zenon DEF CutBack, cut
  <2>2. ASSUME NEW a \in Addr, a < p - 1 PROVE cut[a] = m[a]
    <3>1. a # end2 - 1 /\ a # end2
      BY <1>8, <1>4, <2>2, MallocAssumption DEF Words, Addr
    <3> QED
      BY <1>6, <3>1
  <2>3. p # start_block /\ ~ Used(m, p)
    BY <1>2, <1>4, <1>5, <1>8 DEF start_block
  <2> DEFINE V == S \ {p}
  <2>4. /\ Tiles(cut, end2, V)
        /\ \A q \in V : cut[q - 1] = m[q - 1] /\ NextOf(cut, q) = NextOf(m, q)
    BY <1>1, <1>3, <1>6, <1>8, <2>2, <2>3, FewerBlocksTile
  <2>5. \A q \in V : Used(cut, q) = Used(m, q) /\ BlockSize(cut, q) = BlockSize(m, q)
    BY <2>4 DEF Used, BlockSize
  <2>6. Merged(cut, end2, V)
    <3> SUFFICES ASSUME NEW q \in V, ~ Used(cut, q), NextOf(cut, q) # end2
                 PROVE  Used(cut, NextOf(cut, q))
      BY DEF Merged
    <3>1. ~ Used(m, q) /\ NextOf(cut, q) = NextOf(m, q) /\ NextOf(m, q) # end
      BY <1>3, <2>4, <2>5
    <3>2. NextOf(m, q) \in V
      BY <1>1, <1>8, <3>1, BlockBounds
    <3>3. Used(m, NextOf(m, q))
      BY <1>1, <3>1, Zenon DEF Merged
    <3> QED
      BY <2>5, <3>1, <3>2, <3>3
  <2>7. HeldBlocks(cut, V) = held
    <3>1. {q \in V : Used(cut, q)} = {q \in S : Used(m, q)}
      BY <2>3, <2>5
    <3>2. \A q \in {r \in S : Used(m, r)} : BlockSize(cut, q) = BlockSize(m, q)
      BY <2>3, <2>5
    <3> QED
      BY <1>1, <3>1, <3>2 DEF HeldBlocks
  <2>8. EndBlock(cut, end2)
    BY <1>2, <1>6 DEF EndBlock
  <2>9. Heap(cut, end2, V, held)
    BY <1>2, <2>4, <2>6, <2>7, <2>8 DEF Heap
  <2>10. ASSUME NEW c \in held, NEW a \in Payload(c) PROVE cut[a] = m[a]
    BY <1>1, <1>3, <2>2, <2>3, <2>10, LastTagsKeepPayloads
  <2>11. Good(cut)
    BY <1>6, <2>9, <2>10
  <2> QED
    BY <2>1, <2>11
<1>9. ASSUME p # end2 PROVE Good(CutBack(m, cur_end))
  <2> DEFINE u == Used(cut, p)
             size == end2 - p
             m2 == Tagged(cut, p, size, u)
  <2>1. CutBack(m, cur_end) = m2
    BY <1>7, <1>9, Zenon DEF CutBack, cut
  <2>2. /\ p < end2 /\ size \in Nat /\ p + size - 2 = end2 - 2 /\ p + size - 2 \in Addr
        /\ p \in Int
        /\ p - 1 # end2 - 1 /\ p - 1 # end2
        /\ end2 - 1 # end2 - 2 /\ end2 - 1 # p - 1 /\ size = end2 - p
    BY <1>2, <1>4, <1>5, <1>9
  <2>3. cut[p - 1] = m[p - 1]
    BY <1>4, <1>6, <2>2
  <2>4. u = Used(m, p) /\ u \in BOOLEAN
    BY <1>4, <2>3 DEF Used
  <2> HIDE DEF size, u
  <2>5. /\ m2 \in Memory
        /\ \A a \in Addr : m2[a] = IF a = p - 1 \/ a = p + size - 2
                                   THEN [size |-> size, used |-> u] ELSE cut[a]
    BY ONLY <1>4, <1>6, <2>2, <2>4, TaggedWords
  <2> HIDE DEF m2, end2
  <2>6. /\ m2[p - 1] = [size |-> size, used |-> u]
        /\ m2[end2 - 2] = [size |-> size, used |-> u]
        /\ m2[end2 - 1] = [size |-> 2, used |-> TRUE]
    <3>1. m2[end2 - 1] = cut[end2 - 1]
      BY ONLY <1>2, <2>2, <2>5, Zenon
    <3>2. cut[end2 - 1] = [size |-> 2, used |-> TRUE]
      BY ONLY <1>2, <1>6, Zenon
    <3> QED
      BY ONLY <1>2, <1>4, <2>2, <2>5, <3>1, <3>2, Zenon
  <2>7. ASSUME NEW a \in Addr, a < end2 - 2, a # p - 1 PROVE m2[a] = m[a]
    <3>1. a # p - 1 /\ a # p + size - 2 /\ a # end2 - 1 /\ a # end2
      BY <1>2, <2>2, <2>7, MallocAssumption DEF Words, Addr
    <3> QED
      BY ONLY <1>6, <2>5, <2>7, <3>1, Zenon
  <2>8. \A a \in Addr : a < p - 1 => m2[a] = m[a]
    <3> TAKE a \in Addr
    <3> HAVE a < p - 1
    <3>1. a < end2 - 2 /\ a # p - 1
      BY <1>2, <1>4, <2>2, MallocAssumption DEF Words, Addr
    <3> QED
      BY <2>7, <3>1
  <2>9. EndBlock(m2, end2) /\ BlockSize(m2, p) = end2 - p /\ Used(m2, p) = u
    BY <2>2, <2>6 DEF EndBlock, BlockSize, Used
  <2>10. Used(m2, p) = Used(m, p)
    BY <2>4, <2>9
  <2>11. end2 = end \/ ~ Used(m, p)
    BY <1>2, <1>5
  <2>12. m2[end2 - 2].size = end2 - p
    BY <2>2, <2>6
  <2>13. Heap(m2, end2, S, held)
    BY <1>2, <1>3, <2>2, <2>5, <2>8, <2>9, <2>10, <2>11, <2>12, ResizedHeap
  <2>14. ASSUME NEW c \in held, NEW a \in Payload(c) PROVE m2[a] = m[a]
    <3>1. Used(m, p) => \A x \in Addr : p <= x /\ x < end - 2 => m2[x] = m[x]
      <4> SUFFICES ASSUME Used(m, p), NEW x \in Addr, p <= x, x < end - 2
                   PROVE  m2[x] = m[x]
        OBVIOUS
      <4>1. end2 = end
        BY <2>11
      <4>2. x < end2 - 2 /\ x # p - 1
        BY <1>4, <4>1, MallocAssumption DEF Words, Addr
      <4> QED
        BY <2>7, <4>2
    <3> QED
      BY <1>1, <1>3, <2>8, <2>14, <3>1, LastTagsKeepPayloads
  <2>15. Good(m2)
    BY <2>5, <2>13, <2>14
  <2> HIDE DEF Good
  <2> QED
    BY <2>1, <2>15
<1>10. Good(CutBack(m, cur_end))
  BY <1>8, <1>9
<1> QED
  BY <1>10

(* Every word of the heap belongs to a block.                              *)
LEMMA BlockAround ==
  ASSUME NEW m \in Memory, NEW end \in 2 .. Words - 1, NEW S, Tiles(m, end, S),
         NEW i \in 0 .. end - 2
  PROVE  \E q \in S : q - 1 <= i /\ i <= NextOf(m, q) - 2
<1> DEFINE D == {NextOf(m, q) : q \in {r \in S : NextOf(m, r) >= i + 2}}
<1>1. \A q \in S : q \in Nat /\ NextOf(m, q) \in Nat /\ q < NextOf(m, q)
  BY BlockBounds
<1>2. D \in SUBSET Nat
  BY <1>1
<1>3. \E p \in S : NextOf(m, p) = end
  BY LastBlock
<1>4. end >= i + 2
  OBVIOUS
<1>5. D # {}
  BY <1>3, <1>4
<1>6. PICK d \in D : \A k \in D : d <= k
  BY <1>2, <1>5, SmallestMember
<1>7. PICK q \in S : NextOf(m, q) = d /\ NextOf(m, q) >= i + 2
  BY <1>6
<1>8. q - 1 <= i
  <2> SUFFICES ASSUME q - 1 > i PROVE FALSE
    BY <1>1
  <2>1. q >= i + 2 /\ q # start_block
    BY <1>1 DEF start_block
  <2>2. PICK r \in S : NextOf(m, r) = q
    BY <2>1 DEF Tiles
  <2>3. q \in D
    BY <2>1, <2>2
  <2>4. d <= q
    BY <1>6, <2>3
  <2> QED
    BY <1>1, <1>7, <2>4
<1> QED
  BY <1>1, <1>7, <1>8

(* A heap over the whole pool with no free block of n words has no room    *)
(* for n words anywhere: free neighbours are merged.                       *)
LEMMA NoRoom ==
  ASSUME NEW S, Heap(mem, Words - 1, S, live), mem \in Memory,
         NEW n \in Nat, n >= 2, NoneFits(mem, S, n),
         NEW i \in 0 .. Words - 3
  PROVE  ~ Pool!Room(i, n)
<1> SUFFICES ASSUME Pool!Room(i, n) PROVE FALSE
  OBVIOUS
<1> DEFINE end == Words - 1
<1>1. /\ Words \in Nat /\ end \in 2 .. Words - 1 /\ Tiles(mem, end, S) /\ Merged(mem, end, S)
      /\ live = HeldBlocks(mem, S)
  BY MallocAssumption DEF Heap, Words
<1>2. /\ i + n <= Words - 2
      /\ \A b \in live : (b.base .. (b.base + b.n - 1)) \cap (i .. (i + n - 1)) = {}
  BY DEF Pool!Room, Pool!Extent
<1> HIDE DEF end
<1>3. end = Words - 1
  BY DEF end
<1>4. PICK q \in S : q - 1 <= i /\ i <= NextOf(mem, q) - 2
  <2>1. i \in 0 .. end - 2
    BY <1>1, <1>3
  <2> QED
    BY <1>1, <2>1, BlockAround
<1>5. \A r \in S : /\ r \in Nat /\ r >= 1 /\ NextOf(mem, r) \in Nat /\ BlockSize(mem, r) \in Nat
                   /\ BlockSize(mem, r) > 0
                   /\ NextOf(mem, r) = r + BlockSize(mem, r)
                   /\ NextOf(mem, r) \in S \cup {end}
  BY <1>1, BlockBounds
<1>6. ASSUME NEW r \in S, Used(mem, r), NEW a \in i .. i + n - 1,
             r - 1 <= a, a <= NextOf(mem, r) - 2
      PROVE  FALSE
  <2> DEFINE b == [base |-> r - 1, n |-> BlockSize(mem, r)]
  <2>1. b \in live
    BY <1>1, <1>6 DEF HeldBlocks
  <2>2. a \in b.base .. (b.base + b.n - 1)
    BY <1>5, <1>6
  <2> QED
    BY <1>2, <2>1, <2>2
<1>7. ~ Used(mem, q)
  BY <1>4, <1>5, <1>6
<1>8. i + n >= NextOf(mem, q)
  <2> SUFFICES ASSUME i + n < NextOf(mem, q) PROVE FALSE
    BY <1>5
  <2>1. BlockSize(mem, q) >= n
    BY <1>4, <1>5
  <2> QED
    BY <1>7, <2>1 DEF NoneFits, Fits
<1> DEFINE next == NextOf(mem, q)
<1>9. next < end /\ next \in S
  BY <1>1, <1>2, <1>3, <1>5, <1>8
<1>10. Used(mem, next)
  <2>1. next # end
    BY <1>1, <1>9
  <2> QED
    BY <1>1, <1>7, <2>1, Zenon DEF Merged
<1>11. next - 1 \in i .. i + n - 1
  BY <1>4, <1>5, <1>8
<1>12. next - 1 <= NextOf(mem, next) - 2
  BY <1>5, <1>9
<1> QED
  BY <1>5, <1>6, <1>9, <1>10, <1>11, <1>12

(* The pages: those below _mm_end are out, so the next one is the first    *)
(* that is free, and the search fails only when all are out.               *)
LEMMA FreePages ==
  ASSUME NEW k \in 0 .. NumPages, PagesOut(k)
  PROVE  PageAllocator!Fits(1) = k .. NumPages - 1
<1>1. NumPages \in Nat /\ NumPages >= 1 /\ WordMod \in Nat /\ NumPages < WordMod
  <2>1. NumPages <= NumPages * PageWords
    BY MallocAssumption
  <2> QED
    BY <2>1, MallocAssumption
<1>2. PageAllocator!Bound(1) = NumPages - 1
  BY <1>1 DEF PageAllocator!Bound
<1>3. PageAllocator!Desc = -1 .. NumPages - 1
  BY DEF PageAllocator!Desc
<1>4. \A d \in -1 .. NumPages - 1 : PageAllocator!IsFree(d) <=> ~ d \in 0 .. k - 1
  BY DEF PagesOut, PageAllocator!IsFree, PageAllocator!TAKEN
<1>5. \A i \in 0 .. NumPages - 1 : PageAllocator!Run(i, 1) = {i}
  BY DEF PageAllocator!Run
<1>6. \A i \in 0 .. NumPages - 1 : i \in -1 .. NumPages - 1 /\ i <= NumPages - 1
  BY <1>1
<1>7. ASSUME NEW i \in 0 .. NumPages - 1
      PROVE  i \in PageAllocator!Fits(1) <=> ~ i \in 0 .. k - 1
  BY <1>2, <1>3, <1>4, <1>5, <1>6 DEF PageAllocator!Fits
<1>8. PageAllocator!Fits(1) \subseteq 0 .. NumPages - 1
  BY DEF PageAllocator!Fits
<1>9. \A i \in 0 .. NumPages - 1 : ~ i \in 0 .. k - 1 <=> i \in k .. NumPages - 1
  BY <1>1
<1>10. k .. NumPages - 1 \subseteq 0 .. NumPages - 1
  BY <1>1
<1> QED
  BY <1>7, <1>8, <1>9, <1>10

LEMMA PageTaken ==
  ASSUME NEW k \in 0 .. NumPages, PagesOut(k), PageAllocator!page_alloc(1)
  PROVE  k < NumPages /\ PagesOut(k + 1)' /\ page_reply' = [n |-> 1, base |-> k]
<1>1. PICK i \in PageAllocator!Fits(1) :
        /\ \A j \in PageAllocator!Fits(1) : i <= j
        /\ flags' = [d \in PageAllocator!Desc |->
                       flags[d] \cup {f \in {"TAKEN"} : d \in PageAllocator!Run(i, 1)}
                                \cup {f \in {"LAST"}  : d = i + 1 - 1}]
        /\ pages' = pages \cup {[base |-> i, n |-> 1]}
        /\ page_reply' = [n |-> 1, base |-> i]
  BY DEF PageAllocator!page_alloc, PageAllocator!TAKEN, PageAllocator!LAST
<1>2. i = k /\ k < NumPages /\ NumPages \in Nat /\ k \in Nat
  <2>1. PageAllocator!Fits(1) = k .. NumPages - 1
    BY FreePages
  <2>2. i \in k .. NumPages - 1 /\ k \in k .. NumPages - 1
    BY <1>1, <2>1, MallocAssumption
  <2> QED
    BY <1>1, <2>1, <2>2, MallocAssumption
<1>3. PageAllocator!Run(i, 1) = {k}
  BY <1>2 DEF PageAllocator!Run
<1>4. pages' = {[base |-> j, n |-> 1] : j \in 0 .. k + 1 - 1}
  <2>1. 0 .. k + 1 - 1 = (0 .. k - 1) \cup {k}
    BY <1>2
  <2> QED
    BY <1>1, <1>2, <2>1 DEF PagesOut
<1>5. flags' = [d \in -1 .. NumPages - 1 |-> IF d \in 0 .. k + 1 - 1 THEN {"TAKEN", "LAST"} ELSE {}]
  <2>1. ASSUME NEW d \in -1 .. NumPages - 1
        PROVE  flags[d] \cup {f \in {"TAKEN"} : d \in PageAllocator!Run(i, 1)}
                        \cup {f \in {"LAST"}  : d = i + 1 - 1}
               = IF d \in 0 .. k + 1 - 1 THEN {"TAKEN", "LAST"} ELSE {}
    <3>1. d \in {k} <=> d = k
      OBVIOUS
    <3>2. d = i + 1 - 1 <=> d = k
      BY <1>2
    <3>3. CASE d = k
      <4>1. flags[d] = {}
        BY <1>2, <3>3 DEF PagesOut
      <4>2. d \in 0 .. k + 1 - 1
        BY <1>2, <3>3
      <4> QED
        BY <1>3, <3>2, <3>3, <4>1, <4>2
    <3>4. CASE d # k
      <4>1. d \in 0 .. k + 1 - 1 <=> d \in 0 .. k - 1
        BY <1>2, <3>4
      <4> QED
        BY <1>3, <3>1, <3>2, <3>4, <4>1 DEF PagesOut
    <3> QED
      BY <3>3, <3>4
  <2> QED
    BY <1>1, <2>1 DEF PageAllocator!Desc
<1>6. PagesOut(k + 1)'
  BY ONLY <1>4, <1>5 DEF PagesOut
<1> QED
  BY <1>1, <1>2, <1>6

LEMMA PageRefused ==
  ASSUME NEW k \in 0 .. NumPages, PagesOut(k), PageAllocator!page_alloc_fail(1)
  PROVE  k = NumPages /\ PagesOut(k)' /\ page_reply' = [n |-> 1, base |-> -1]
<1>1. k .. NumPages - 1 = {}
  BY FreePages DEF PageAllocator!page_alloc_fail
<1>2. k = NumPages
  BY <1>1, MallocAssumption
<1> QED
  BY <1>2 DEF PagesOut, PageAllocator!page_alloc_fail, PageAllocator!None

LEMMA PageGivenBack ==
  ASSUME NEW k \in 1 .. NumPages, PagesOut(k),
         PageAllocator!page_free([base |-> k - 1, n |-> 1])
  PROVE  PagesOut(k - 1)' /\ page_reply' = [n |-> 0, base |-> -1]
<1>1. /\ flags' = [d \in PageAllocator!Desc |->
                     IF d \in PageAllocator!Cleared(k - 1) THEN {} ELSE flags[d]]
      /\ pages' = pages \ {[base |-> k - 1, n |-> 1]}
      /\ page_reply' = [n |-> 0, base |-> -1]
  BY DEF PageAllocator!page_free, PageAllocator!NoReply, PageAllocator!None
<1>2. k \in Nat /\ k >= 1 /\ NumPages \in Nat /\ k <= NumPages
  BY MallocAssumption
<1>3. PageAllocator!Desc = -1 .. NumPages - 1
  BY DEF PageAllocator!Desc
<1>4. \A d \in -1 .. NumPages - 1 :
        /\ PageAllocator!IsFree(d) <=> ~ d \in 0 .. k - 1
        /\ PageAllocator!IsLast(d) <=> d \in 0 .. k - 1
  BY DEF PagesOut, PageAllocator!IsFree, PageAllocator!TAKEN, PageAllocator!IsLast,
         PageAllocator!LAST
<1>5. PageAllocator!Cleared(k - 1) = {k - 1}
  <2>1. k - 1 \in -1 .. NumPages - 1 /\ k - 1 \in 0 .. k - 1
    BY <1>2
  <2>2. ASSUME NEW d \in -1 .. NumPages - 1, d >= k - 1, d # k - 1
        PROVE  ~ \A e \in k - 1 .. d - 1 : ~ PageAllocator!IsLast(e)
    <3>1. k - 1 \in k - 1 .. d - 1
      BY <1>2, <2>2
    <3> QED
      BY <1>4, <2>1, <3>1
  <2>3. /\ \A e \in k - 1 .. k - 1 : ~ PageAllocator!IsFree(e)
        /\ \A e \in k - 1 .. (k - 1) - 1 : ~ PageAllocator!IsLast(e)
    <3>1. \A e \in k - 1 .. k - 1 : e = k - 1
      BY <1>2
    <3>2. \A e \in k - 1 .. (k - 1) - 1 : FALSE
      BY <1>2
    <3> QED
      BY <1>4, <2>1, <3>1, <3>2
  <2>4. k - 1 >= k - 1
    BY <1>2
  <2> QED
    BY <1>3, <2>1, <2>2, <2>3, <2>4 DEF PageAllocator!Cleared
<1>6. pages' = {[base |-> j, n |-> 1] : j \in 0 .. k - 1 - 1}
  <2>1. 0 .. k - 1 - 1 = (0 .. k - 1) \ {k - 1}
    BY <1>2
  <2>2. \A i \in 0 .. k - 1 : [base |-> i, n |-> 1] = [base |-> k - 1, n |-> 1] <=> i = k - 1
    OBVIOUS
  <2>3. pages' = {[base |-> i, n |-> 1] : i \in 0 .. k - 1} \ {[base |-> k - 1, n |-> 1]}
    BY <1>1 DEF PagesOut
  <2> QED
    BY <2>1, <2>2, <2>3
<1>7. flags' = [d \in -1 .. NumPages - 1 |-> IF d \in 0 .. k - 1 - 1 THEN {"TAKEN", "LAST"} ELSE {}]
  <2>1. \A d \in -1 .. NumPages - 1 : d \in 0 .. k - 1 - 1 <=> d \in 0 .. k - 1 /\ d # k - 1
    BY <1>2
  <2> QED
    BY <1>1, <1>3, <1>5, <2>1 DEF PagesOut
<1> QED
  BY <1>1, <1>6, <1>7 DEF PagesOut
-----------------------------------------------------------------------------
(* mm_init: one free block and the end block.                              *)
LEMMA FirstHeap ==
  ASSUME NEW m \in Memory
  PROVE  LET m2 == EndTagged(Tagged(m, start_block, PageWords - 2, FALSE), PageWords)
         IN  m2 \in Memory /\ Heap(m2, PageWords - 1, {start_block}, {})
<1> DEFINE end == PageWords - 1
           size == PageWords - 2
           m2 == EndTagged(FreeTagged(m, 1, size), end + 1)
<1>1. /\ PageWords \in Nat /\ PageWords > 2 /\ PageWords <= Words /\ Words \in Nat
      /\ end + 1 = PageWords /\ end \in 2 .. Words - 1 /\ 1 \in 1 .. end - 1
      /\ size = end - 1 /\ size \in Nat /\ size > 0
  <2>1. PageWords <= Words
    BY MallocAssumption DEF Words
  <2> QED
    BY <2>1, MallocAssumption DEF Words
<1>2. EndTagged(Tagged(m, start_block, PageWords - 2, FALSE), PageWords) = m2
  BY <1>1, Zenon DEF start_block, FreeTagged
<1> HIDE DEF end, size
<1>3. /\ m2 \in Memory /\ EndBlock(m2, end)
      /\ BlockSize(m2, 1) = size /\ ~ Used(m2, 1) /\ m2[end - 2].size = size
  BY <1>1, FreeTailWords
<1> HIDE DEF m2
<1>4. NextOf(m2, 1) = end
  BY <1>1, <1>3 DEF NextOf, end
<1>5. Tiles(m2, end, {1})
  <2>1. {1} \subseteq 1 .. end - 1 /\ start_block \in {1}
    BY <1>1 DEF start_block
  <2>2. (({1} \cup {end}) \ {start_block}) = {end}
    BY <1>1 DEF start_block, end
  <2> QED
    BY <1>1, <1>3, <1>4, <2>1, <2>2 DEF Tiles
<1>6. Merged(m2, end, {1}) /\ HeldBlocks(m2, {1}) = {}
  BY <1>3, <1>4 DEF Merged, HeldBlocks
<1>7. Heap(m2, end, {1}, {})
  BY <1>1, <1>3, <1>5, <1>6 DEF Heap
<1> QED
  BY <1>2, <1>3, <1>7, Zenon DEF start_block, end

(* The blocks of a heap are those a walk meets, and what callers hold are  *)
(* stretches of the pool.                                                  *)
LEMMA HeapFacts ==
  ASSUME NEW m \in Memory, NEW end, NEW S, NEW held, Heap(m, end, S, held)
  PROVE  /\ Heap(m, end, Walk(m, end), held)
         /\ held \subseteq [base : Addr, n : Nat]
<1>1. end \in 2 .. Words - 1 /\ Tiles(m, end, S) /\ held = HeldBlocks(m, S)
  BY DEF Heap
<1>2. Walk(m, end) = S
  BY <1>1, WalkMeetsTiles
<1>3. held \subseteq [base : Addr, n : Nat]
  <2>1. \A q \in S : q - 1 \in Addr /\ BlockSize(m, q) \in Nat
    BY <1>1, BlockBounds
  <2> QED
    BY <1>1, <2>1 DEF HeldBlocks
<1> QED
  BY <1>2, <1>3

(* The sizes asked for, as _get_alloc_size computes them.                  *)
LEMMA AllocSize ==
  ASSUME NoWrap, NEW n \in AllocSizes
  PROVE  alloc_size(n) = n /\ n \in Nat /\ n >= 2
<1>1. PICK r \in Requests : n = r + 2
  BY DEF AllocSizes
<1>2. n \in Nat /\ n >= 2 /\ n < WordMod /\ WordMod \in Nat
  BY <1>1, MallocAssumption DEF NoWrap
<1>3. n % WordMod = n
  BY <1>2
<1> QED
  BY <1>2, <1>3 DEF alloc_size

LEMMA MinIsMember ==
  ASSUME NEW S \in SUBSET Nat, S # {}
  PROVE  Min(S) \in S
<1>1. \E x \in S : \A y \in S : x <= y
  BY SmallestMember
<1> QED
  BY <1>1 DEF Min

(* A block that fits is room of the pool.                                  *)
LEMMA RoomFor ==
  ASSUME NEW m \in Memory, NEW end, NEW S, Heap(m, end, S, live),
         NEW p \in S, NEW n \in Nat, n >= 2, Fits(m, p, n)
  PROVE  p - 1 \in 0 .. Words - 3 /\ Pool!Room(p - 1, n)
<1>1. /\ end \in 2 .. Words - 1 /\ Tiles(m, end, S) /\ live = HeldBlocks(m, S)
  BY DEF Heap
<1>2. /\ p \in Nat /\ p >= 1 /\ BlockSize(m, p) \in Nat /\ BlockSize(m, p) >= n
      /\ NextOf(m, p) = p + BlockSize(m, p) /\ NextOf(m, p) <= end /\ Words \in Nat
      /\ ~ Used(m, p)
  BY <1>1, BlockBounds, MallocAssumption DEF Fits, Words
<1>3. p - 1 + n <= Words - 2 /\ p - 1 \in 0 .. Words - 3
  BY <1>1, <1>2
<1>4. ASSUME NEW b \in live, NEW a \in b.base .. (b.base + b.n - 1),
             a \in p - 1 .. (p - 1 + n - 1)
      PROVE  FALSE
  <2>1. PICK q \in S : Used(m, q) /\ b = [base |-> q - 1, n |-> BlockSize(m, q)]
    BY <1>1, <1>4 DEF HeldBlocks
  <2>2. q # p /\ q \in Nat /\ BlockSize(m, q) \in Nat /\ NextOf(m, q) = q + BlockSize(m, q)
    BY <1>1, <1>2, <2>1, BlockBounds
  <2>3. b.base = q - 1 /\ b.n = BlockSize(m, q)
    BY <2>1
  <2>4. a \in q - 1 .. NextOf(m, q) - 2
    BY <1>4, <2>2, <2>3
  <2>5. a < p - 1 \/ a > NextOf(m, p) - 2
    BY <1>1, <2>2, <2>4, BlocksApart
  <2> QED
    BY <1>2, <1>4, <2>4, <2>5, <2>2
<1>5. \A b \in live : (b.base .. (b.base + b.n - 1)) \cap (p - 1 .. (p - 1 + n - 1)) = {}
  BY <1>4
<1> QED
  BY <1>3, <1>5 DEF Pool!Room, Pool!Extent

(* What holders rely on, and what the pool of BlockPool allows.            *)
Kept == \A b \in live \cap live' : \A a \in Payload(b) : mem'[a] = mem[a]
PoolStep == Pool!Next \/ UNCHANGED <<live, reply>>

(* The types, given the shape of the heap and its pages.                   *)
Parts ==
  /\ mem \in Memory /\ HeapShape /\ OwnsPages /\ (~ Running => live = {})
  /\ mm_end_block \in 0 .. Words
  /\ call \in [at : {"boot", "idle", "grow", "shrink", "panic"},
               n : Nat, cur_end : 0 .. Words]
  /\ reply \in [base : Addr, n : Nat]
  /\ page_reply \in [base : -1 .. NumPages - 1, n : {0, 1}]

LEMMA TypesFrom == Parts => TypeOK
<1> SUFFICES ASSUME Parts PROVE TypeOK
  OBVIOUS
<1> USE DEF Parts
<1>1. PICK k \in 0 .. NumPages : mm_end = k * PageWords /\ PagesOut(k)
  BY DEF OwnsPages
<1>2. mm_end \in 0 .. Words
  <2>1. k \in Nat /\ NumPages \in Nat /\ (k < NumPages \/ k = NumPages) /\ PageWords \in Nat
    BY MallocAssumption
  <2>2. /\ k * PageWords \in Nat
        /\ k < NumPages => k * PageWords + PageWords <= NumPages * PageWords
    BY <2>1, PageArithmetic
  <2>3. NumPages * PageWords \in Nat
    BY <2>1
  <2> QED
    BY <1>1, <2>1, <2>2, <2>3 DEF Words
<1>3. live \subseteq [base : Addr, n : Nat]
  <2>1. CASE Running
    BY <2>1, HeapFacts DEF HeapShape
  <2>2. CASE ~ Running
    BY <2>2
  <2> QED
    BY <2>1, <2>2
<1>4. PageAllocator!TypeOK
  <2>1. flags \in [-1 .. NumPages - 1 -> SUBSET {"TAKEN", "LAST"}]
    BY <1>1 DEF PagesOut
  <2>2. pages \subseteq [base : 0 .. NumPages - 1, n : {1}]
    <3>1. 0 .. k - 1 \subseteq 0 .. NumPages - 1
      BY MallocAssumption
    <3> QED
      BY <1>1, <3>1 DEF PagesOut
  <2>3. page_reply \in [base : (0 .. NumPages - 1) \cup {-1}, n : {1} \cup {0}]
    <3>1. page_reply.base \in -1 .. NumPages - 1 /\ page_reply.n \in {0, 1}
          /\ page_reply = [base |-> page_reply.base, n |-> page_reply.n]
      OBVIOUS
    <3>2. page_reply.base \in (0 .. NumPages - 1) \cup {-1}
      BY <3>1, MallocAssumption
    <3> QED
      BY <3>1, <3>2
  <2> QED
    BY <2>1, <2>2, <2>3 DEF PageAllocator!TypeOK, PageAllocator!Desc, PageAllocator!Flags,
       PageAllocator!Heap, PageAllocator!TAKEN, PageAllocator!LAST, PageAllocator!None
<1> QED
  BY <1>2, <1>3, <1>4 DEF TypeOK, Memory

(* mm_malloc returns a free block of heap m, which has the callers' data.  *)
LEMMA ReturnStep ==
  ASSUME NoWrap, NEW m \in Memory, NEW end, NEW S, Heap(m, end, S, live),
         NEW p \in S, NEW n \in AllocSizes, n <= MaxAlloc,
         Fits(m, p, alloc_size(n)), Return(m, p, n), mm_end_block' = end,
         \A b \in live : \A a \in Payload(b) : m[a] = mem[a]
  PROVE  /\ mem' \in Memory /\ call' = Idle
         /\ Heap(mem', mm_end_block', Walk(mem', mm_end_block'), live')
         /\ reply' \in [base : Addr, n : Nat] /\ reply'.n <= MaxAlloc
         /\ Kept /\ PoolStep
<1>1. alloc_size(n) = n /\ n \in Nat /\ n >= 2 /\ Fits(m, p, n)
  BY AllocSize
<1> DEFINE b == [base |-> p - 1, n |-> n]
           M(g) == Stored(Placed(m, p, n), b, g)
<1>2. PICK g \in Garbage : mem' = M(g)
  BY <1>1 DEF Return
<1>3. g \in Word
  BY MallocAssumption DEF Word
<1>4. /\ live' = live \cup {b} /\ reply' = [n |-> n, base |-> p - 1] /\ call' = Idle
  BY DEF Return
<1>5. /\ M(g) \in Memory
      /\ \E V : Heap(M(g), end, V, live \cup {b})
      /\ \A a \in Addr : a < p - 1 \/ a > NextOf(m, p) - 2 => M(g)[a] = m[a]
  BY ONLY <1>1, <1>3, ReturnKeepsHeap, m \in Memory, Heap(m, end, S, live), p \in S
<1> HIDE DEF M
<1>6. /\ end \in 2 .. Words - 1 /\ Tiles(m, end, S) /\ live = HeldBlocks(m, S)
      /\ p - 1 \in Addr
  BY BlockBounds DEF Heap
<1>7. Heap(mem', mm_end_block', Walk(mem', mm_end_block'), live')
  BY <1>2, <1>4, <1>5, HeapFacts
<1>8. Kept
  <2> SUFFICES ASSUME NEW c \in live, NEW a \in Payload(c)
               PROVE  mem'[a] = mem[a]
    BY DEF Kept
  <2>1. PICK q \in S : Used(m, q) /\ c = [base |-> q - 1, n |-> BlockSize(m, q)]
    BY <1>6, HeldBlockIs
  <2>2. q # p /\ q \in Nat /\ p \in Nat
    BY <1>6, <2>1, BlockBounds DEF Fits
  <2>3. c.base # p - 1
    BY <2>1, <2>2
  <2>4. M(g)[a] = m[a]
    BY <1>5, <1>6, <2>3, OthersKeepPayloads
  <2> QED
    BY <1>2, <2>4
<1>9. PoolStep
  <2>1. p - 1 \in 0 .. Words - 3 /\ Pool!Room(p - 1, n)
    BY <1>1, RoomFor
  <2>2. p - 1 \in 0 .. (Words - 2) - 1
    BY <2>1, MallocAssumption DEF Words
  <2>3. Pool!Alloc(n)
    BY <1>4, <2>1, <2>2 DEF Pool!Alloc
  <2> QED
    BY <2>3 DEF PoolStep, Pool!Next, AllocSizes
<1> QED
  BY <1>1, <1>2, <1>4, <1>5, <1>6, <1>7, <1>8, <1>9

LEMMA MInvFacts ==
  ASSUME MInv
  PROVE  /\ mem \in Memory /\ mm_end_block \in 0 .. Words /\ mm_end \in 0 .. Words
         /\ call \in [at : {"boot", "idle", "grow", "shrink", "panic"},
                      n : Nat, cur_end : 0 .. Words]
         /\ reply \in [base : Addr, n : Nat]
         /\ page_reply \in [base : -1 .. NumPages - 1, n : {0, 1}]
         /\ PageWords \in Nat /\ PageWords > 2 /\ NumPages \in Nat /\ NumPages >= 1
         /\ Words \in Nat /\ Words = NumPages * PageWords
<1>1. TypeOK
  BY DEF MInv
<1>2. page_reply \in [base : (0 .. NumPages - 1) \cup {-1}, n : {1} \cup {0}]
  BY <1>1 DEF TypeOK, PageAllocator!TypeOK, PageAllocator!Heap, PageAllocator!None
<1>3. page_reply \in [base : -1 .. NumPages - 1, n : {0, 1}]
  <2>1. (0 .. NumPages - 1) \cup {-1} \subseteq -1 .. NumPages - 1
    BY MallocAssumption
  <2> QED
    BY <1>2, <2>1
<1> QED
  BY <1>1, <1>3, MallocAssumption DEF TypeOK, Memory, Words

(* The pages, while the heap is running.                                   *)
LEMMA PagesOfHeap ==
  ASSUME MInv, Running
  PROVE  \E k \in 1 .. NumPages : mm_end = k * PageWords /\ PagesOut(k)
<1>1. PICK k \in 0 .. NumPages : /\ mm_end = k * PageWords /\ PagesOut(k)
                                 /\ Running <=> k > 0
  BY DEF MInv, OwnsPages
<1>2. k \in 1 .. NumPages
  BY <1>1, MInvFacts
<1> QED
  BY <1>1, <1>2

LEMMA InitMInv ==
  ASSUME Init
  PROVE  MInv
<1>1. mem \in Memory
  BY MallocAssumption DEF Init, Memory
<1>2. ~ Running /\ live = {} /\ mm_end = 0 /\ mm_end_block = 0
  BY DEF Init, Running, Idle
<1>3. HeapShape
  BY <1>2 DEF HeapShape
<1>4. OwnsPages
  <2>1. /\ flags \in [-1 .. NumPages - 1 -> SUBSET {"TAKEN", "LAST"}]
        /\ \A d \in 0 .. NumPages - 1 : flags[d] = {}
        /\ flags[-1] = {} /\ pages = {}
    BY DEF Init, PageAllocator!Init, PageAllocator!Desc, PageAllocator!Flags,
       PageAllocator!Heap, PageAllocator!TAKEN, PageAllocator!LAST
  <2>2. \A d \in -1 .. NumPages - 1 : flags[d] = {}
    <3>1. \A d \in -1 .. NumPages - 1 : d = -1 \/ d \in 0 .. NumPages - 1
      BY MallocAssumption
    <3> QED
      BY <2>1, <3>1
  <2>3. 0 .. 0 - 1 = {}
    OBVIOUS
  <2>4. flags = [d \in -1 .. NumPages - 1 |-> IF d \in 0 .. 0 - 1 THEN {"TAKEN", "LAST"} ELSE {}]
    BY <2>1, <2>2, <2>3
  <2>5. PagesOut(0)
    BY <2>1, <2>3, <2>4 DEF PagesOut
  <2>6. 0 \in 0 .. NumPages /\ 0 = 0 * PageWords
    BY MallocAssumption
  <2> QED
    BY <1>2, <2>5, <2>6 DEF OwnsPages
<1>5. /\ mm_end_block \in 0 .. Words
      /\ call \in [at : {"boot", "idle", "grow", "shrink", "panic"},
                   n : Nat, cur_end : 0 .. Words]
      /\ reply \in [base : Addr, n : Nat]
      /\ page_reply \in [base : -1 .. NumPages - 1, n : {0, 1}]
  <2>1. Words \in Nat /\ -1 \in Addr /\ -1 \in -1 .. NumPages - 1
    BY MallocAssumption DEF Words, Addr
  <2> QED
    BY <2>1 DEF Init, Idle, NoReply, None, PageAllocator!Init, PageAllocator!NoReply,
       PageAllocator!None
<1>6. TypeOK
  BY <1>1, <1>2, <1>3, <1>4, <1>5, TypesFrom DEF Parts
<1>7. CallShape
  BY <1>2 DEF Init, CallShape, Idle, NoReply, None
<1> QED
  BY <1>3, <1>4, <1>6, <1>7 DEF MInv

(* A step that leaves a heap behind keeps the invariant.                   *)
LEMMA KeepsMInv ==
  ASSUME MInv, Heap(mem', mm_end_block', Walk(mem', mm_end_block'), live'), mem' \in Memory,
         OwnsPages', Running', CallShape',
         call' \in [at : {"boot", "idle", "grow", "shrink", "panic"},
                    n : Nat, cur_end : 0 .. Words],
         reply' \in [base : Addr, n : Nat],
         page_reply' \in [base : -1 .. NumPages - 1, n : {0, 1}]
  PROVE  MInv'
<1>1. HeapShape'
  BY DEF HeapShape, Blocks
<1>2. mm_end_block' \in 0 .. Words
  BY MInvFacts DEF Heap
<1>3. Parts'
  BY <1>1, <1>2 DEF Parts
<1>4. TypeOK'
  BY <1>3, TypesFrom, PTL
<1> QED
  BY <1>1, <1>4 DEF MInv

LEMMA mm_initKeeps ==
  ASSUME MInv, mm_init
  PROVE  MInv' /\ Kept /\ PoolStep
<1>1. PICK k \in 0 .. NumPages : mm_end = k * PageWords /\ PagesOut(k) /\ (Running <=> k > 0)
  BY DEF MInv, OwnsPages
<1>2. /\ call.at = "boot" /\ PageAllocator!page_alloc(1)
      /\ mm_end' = PageWords /\ mm_end_block' = PageWords - 1
      /\ mem' = EndTagged(Tagged(mem, start_block, PageWords - 2, FALSE), PageWords)
      /\ call' = Idle /\ live' = live /\ reply' = reply
  BY DEF mm_init
<1>3. ~ Running /\ k = 0 /\ live = {}
  BY <1>1, <1>2, MInvFacts DEF Running, MInv, CallShape
<1>4. 0 < NumPages /\ PagesOut(0 + 1)' /\ page_reply' = [n |-> 1, base |-> 0]
  BY <1>1, <1>2, <1>3, PageTaken
<1>5. Running'
  BY <1>2 DEF Running, Idle
<1>6. OwnsPages'
  <2>1. /\ 1 \in 0 .. NumPages /\ PageWords = 1 * PageWords /\ 1 > 0 /\ 0 + 1 = 1
    BY MInvFacts
  <2> QED
    BY <1>2, <1>4, <1>5, <2>1 DEF OwnsPages
<1>7. mem' \in Memory /\ Heap(mem', mm_end_block', Walk(mem', mm_end_block'), live')
  <2>1. mem' \in Memory /\ Heap(mem', PageWords - 1, {start_block}, {})
    BY <1>2, MInvFacts, FirstHeap, Zenon
  <2>2. Heap(mem', mm_end_block', {start_block}, live')
    BY <1>2, <1>3, <2>1
  <2> QED
    BY <2>1, <2>2, HeapFacts
<1>8. CallShape'
  BY <1>2 DEF MInv, CallShape, Idle
<1>9. /\ call' \in [at : {"boot", "idle", "grow", "shrink", "panic"},
                    n : Nat, cur_end : 0 .. Words]
      /\ reply' \in [base : Addr, n : Nat]
      /\ page_reply' \in [base : -1 .. NumPages - 1, n : {0, 1}]
  BY <1>2, <1>4, MInvFacts DEF Idle
<1>10. Kept /\ PoolStep
  BY <1>2, <1>3 DEF Kept, PoolStep
<1> QED
  BY <1>5, <1>6, <1>7, <1>8, <1>9, <1>10, KeepsMInv

(* What is the same in all steps of mm_malloc and mm_free that leave the   *)
(* page allocator alone.                                                   *)
LEMMA PagesStay ==
  ASSUME MInv, Running, Running', UNCHANGED <<mm_end, paged>>
  PROVE  OwnsPages' /\ page_reply' \in [base : -1 .. NumPages - 1, n : {0, 1}]
<1>1. flags' = flags /\ pages' = pages /\ page_reply' = page_reply /\ mm_end' = mm_end
  BY DEF paged
<1>2. PICK k \in 1 .. NumPages : mm_end = k * PageWords /\ PagesOut(k)
  BY PagesOfHeap
<1>3. k \in 0 .. NumPages /\ k > 0
  BY <1>2, MInvFacts
<1>4. PagesOut(k)'
  BY <1>1, <1>2 DEF PagesOut
<1> QED
  BY <1>1, <1>2, <1>3, <1>4, MInvFacts DEF OwnsPages

LEMMA HeapNow ==
  ASSUME MInv, Running
  PROVE  /\ Heap(mem, mm_end_block, Blocks, live)
         /\ Blocks = Walk(mem, mm_end_block) /\ Blocks \in SUBSET Nat
         /\ Tiles(mem, mm_end_block, Blocks) /\ mm_end_block \in 2 .. Words - 1
         /\ live = HeldBlocks(mem, Blocks)
<1>1. Heap(mem, mm_end_block, Blocks, live)
  BY DEF MInv, HeapShape
<1>2. Tiles(mem, mm_end_block, Blocks)
  BY <1>1 DEF Heap
<1>3. Blocks \in SUBSET Nat
  BY <1>2 DEF Tiles
<1> QED
  BY <1>1, <1>2, <1>3 DEF Blocks, Heap

LEMMA mm_mallocKeeps ==
  ASSUME NoWrap, MInv, NEW n \in AllocSizes, mm_malloc(n)
  PROVE  MInv' /\ Kept /\ PoolStep
<1>1. /\ call.at = "idle" /\ Running /\ alloc_size(n) = n /\ n \in Nat /\ n >= 2
  BY AllocSize DEF mm_malloc, malloc_too_large, malloc_found, malloc_not_found, Running
<1>2. mm_end_block = mm_end - 1
  BY <1>1 DEF MInv, CallShape
<1>3. CASE malloc_too_large(n)
  <2>1. /\ n > MaxAlloc /\ UNCHANGED <<mem, mm_end, mm_end_block, live>> /\ UNCHANGED paged
        /\ reply' = [n |-> n, base |-> -1] /\ call' = Idle
    BY <1>1, <1>3 DEF malloc_too_large, ReturnNull, heap, None
  <2>2. Running'
    BY <2>1 DEF Running, Idle
  <2>3. CallShape'
    BY <1>2, <2>1 DEF CallShape, Idle, None
  <2>4. OwnsPages' /\ page_reply' \in [base : -1 .. NumPages - 1, n : {0, 1}]
    BY <1>1, <2>1, <2>2, PagesStay
  <2>5. /\ call' \in [at : {"boot", "idle", "grow", "shrink", "panic"},
                      n : Nat, cur_end : 0 .. Words]
        /\ reply' \in [base : Addr, n : Nat]
    BY <1>1, <2>1, MInvFacts DEF Idle, Addr
  <2>6. Heap(mem', mm_end_block', Walk(mem', mm_end_block'), live')
    BY <1>1, <2>1, HeapNow DEF Blocks
  <2>7. MInv'
    BY <2>1, <2>2, <2>3, <2>4, <2>5, <2>6, MInvFacts, KeepsMInv
  <2>8. Pool!Refuse(n)
    BY <2>1 DEF Pool!Refuse, Pool!None
  <2>9. PoolStep
    BY <2>8 DEF PoolStep, Pool!Next, AllocSizes
  <2> QED
    BY <2>1, <2>7, <2>9 DEF Kept
<1>4. CASE malloc_found(n)
  <2> DEFINE p == Min(Fitting(n))
  <2>1. /\ n <= MaxAlloc /\ Fitting(n) # {} /\ Return(mem, p, n)
        /\ mm_end' = mm_end /\ mm_end_block' = mm_end_block /\ UNCHANGED paged
    BY <1>1, <1>4 DEF malloc_found
  <2>2. p \in Fitting(n)
    <3>1. Fitting(n) \in SUBSET Nat
      BY <1>1, HeapNow DEF Fitting
    <3> QED
      BY <2>1, <3>1, MinIsMember
  <2>3. p \in Blocks /\ Fits(mem, p, alloc_size(n))
    BY <2>2 DEF Fitting, Blocks
  <2> HIDE DEF p
  <2>4. /\ mem' \in Memory /\ call' = Idle
        /\ Heap(mem', mm_end_block', Walk(mem', mm_end_block'), live')
        /\ reply' \in [base : Addr, n : Nat] /\ reply'.n <= MaxAlloc
        /\ Kept /\ PoolStep
    BY <1>1, <2>1, <2>3, HeapNow, MInvFacts, ReturnStep
  <2>5. Running'
    BY <2>4 DEF Running, Idle
  <2>6. CallShape'
    BY <1>2, <2>1, <2>4 DEF CallShape, Idle
  <2>7. OwnsPages' /\ page_reply' \in [base : -1 .. NumPages - 1, n : {0, 1}]
    BY <1>1, <2>1, <2>5, PagesStay
  <2>8. call' \in [at : {"boot", "idle", "grow", "shrink", "panic"},
                   n : Nat, cur_end : 0 .. Words]
    BY <2>4, MInvFacts DEF Idle
  <2> QED
    BY <2>4, <2>5, <2>6, <2>7, <2>8, KeepsMInv
<1>5. CASE malloc_not_found(n)
  <2>1. /\ n <= MaxAlloc /\ Fitting(n) = {}
        /\ call' = [at |-> "grow", n |-> n, cur_end |-> mm_end]
        /\ UNCHANGED <<mem, mm_end, mm_end_block, live, reply>> /\ UNCHANGED paged
    BY <1>1, <1>5 DEF malloc_not_found, heap
  <2>2. Running' /\ Blocks' = Blocks
    BY <2>1 DEF Running, Blocks
  <2>3. NoneFits(mem, Blocks, n)
    BY <1>1, <2>1, HeapNow DEF NoneFits, Fitting
  <2>4. \E j \in 1 .. NumPages : mm_end = j * PageWords
    BY <1>1, PagesOfHeap
  <2>5. mm_end \in Nat /\ mm_end <= mm_end /\ ~ mm_end > mm_end
    BY MInvFacts
  <2>6. OldEnd'
    BY <2>1, <2>4, <2>5 DEF OldEnd
  <2>7. Growing'
    BY <2>1, <2>2, <2>3, <2>5, <2>6 DEF Growing
  <2>8. CallShape'
    BY <1>2, <2>1, <2>7 DEF MInv, CallShape
  <2>9. OwnsPages' /\ page_reply' \in [base : -1 .. NumPages - 1, n : {0, 1}]
    BY <1>1, <2>1, <2>2, PagesStay
  <2>10. /\ call' \in [at : {"boot", "idle", "grow", "shrink", "panic"},
                       n : Nat, cur_end : 0 .. Words]
         /\ reply' \in [base : Addr, n : Nat]
    BY <1>1, <2>1, MInvFacts
  <2>11. Heap(mem', mm_end_block', Walk(mem', mm_end_block'), live')
    BY <1>1, <2>1, HeapNow DEF Blocks
  <2>12. MInv'
    BY <2>1, <2>2, <2>8, <2>9, <2>10, <2>11, MInvFacts, KeepsMInv
  <2> QED
    BY <2>1, <2>12 DEF Kept, PoolStep
<1> QED
  BY <1>3, <1>4, <1>5 DEF mm_malloc

LEMMA growKeeps ==
  ASSUME NoWrap, MInv, grow
  PROVE  MInv' /\ Kept /\ PoolStep
<1> DEFINE n == call.n
           g == Grown(mem)
           end2 == mm_end + PageWords - 1
<1>1. call.at = "grow" /\ Running /\ PageAllocator!page_alloc(1)
  BY DEF grow, Running
<1>2. /\ mm_end_block = mm_end - 1 /\ OldEnd /\ NoneFits(mem, Blocks, n)
      /\ mm_end > call.cur_end =>
           \E p \in Blocks : /\ NextOf(mem, p) = mm_end_block
                             /\ ~ Used(mem, p) /\ p < call.cur_end
      /\ n \in AllocSizes /\ n <= MaxAlloc /\ call.cur_end <= mm_end
  BY <1>1 DEF MInv, CallShape, Growing, OldEnd
<1>3. alloc_size(n) = n
  BY <1>2, AllocSize
<1>4. PICK k \in 1 .. NumPages : mm_end = k * PageWords /\ PagesOut(k)
  BY <1>1, PagesOfHeap
<1>5. k \in 0 .. NumPages /\ k \in Nat
  BY <1>4, MInvFacts
<1>6. k < NumPages /\ PagesOut(k + 1)' /\ page_reply' = [n |-> 1, base |-> k]
  BY <1>1, <1>4, <1>5, PageTaken
<1>7. page_reply'.base * PageWords = mm_end
  BY <1>4, <1>6
<1>8. /\ mm_end' = mm_end + PageWords /\ mm_end_block' = mm_end' - 1
      /\ \/ Fits(g.mem, g.last, alloc_size(n)) /\ Return(g.mem, g.last, n)
         \/ ~ Fits(g.mem, g.last, alloc_size(n)) /\ mem' = g.mem /\ UNCHANGED <<call, live, reply>>
  BY <1>7 DEF grow
<1>9. /\ mm_end + PageWords = (k + 1) * PageWords /\ mm_end + PageWords <= Words
      /\ mm_end = mm_end_block + 1
  BY <1>2, <1>4, <1>5, <1>6, PageArithmetic, MInvFacts
<1>10. /\ g.mem \in Memory
       /\ \E V : /\ Heap(g.mem, end2, V, live)
                 /\ g.last \in V
                 /\ \A q \in V \ {g.last} : q \in Blocks /\ g.mem[q - 1] = mem[q - 1]
       /\ NextOf(g.mem, g.last) = end2 /\ ~ Used(g.mem, g.last)
       /\ g.last <= mm_end_block
       /\ \A q \in Blocks : NextOf(mem, q) = mm_end_block /\ ~ Used(mem, q) => g.last = q
       /\ \A c \in live : \A a \in Payload(c) : g.mem[a] = mem[a]
  BY <1>1, <1>9, HeapNow, MInvFacts, GrownKeepsHeap
<1> HIDE DEF g
<1>11. mm_end_block' = end2
  BY <1>8, MInvFacts
<1>12. PICK V : /\ Heap(g.mem, end2, V, live)
                /\ g.last \in V
                /\ \A q \in V \ {g.last} : q \in Blocks /\ g.mem[q - 1] = mem[q - 1]
  BY <1>10
<1>13. page_reply' \in [base : -1 .. NumPages - 1, n : {0, 1}]
  <2>1. k \in -1 .. NumPages - 1
    BY <1>5, <1>6, MInvFacts
  <2> QED
    BY <1>6, <2>1
<1>14. Running' => OwnsPages'
  <2>1. k + 1 \in 0 .. NumPages /\ k + 1 > 0
    BY <1>5, <1>6, MInvFacts
  <2> QED
    BY <1>6, <1>8, <1>9, <2>1, MInvFacts DEF OwnsPages
<1>15. CASE Fits(g.mem, g.last, alloc_size(n)) /\ Return(g.mem, g.last, n)
  <2>1. /\ mem' \in Memory /\ call' = Idle
        /\ Heap(mem', mm_end_block', Walk(mem', mm_end_block'), live')
        /\ reply' \in [base : Addr, n : Nat] /\ reply'.n <= MaxAlloc
        /\ Kept /\ PoolStep
    BY <1>2, <1>10, <1>11, <1>12, <1>15, ReturnStep
  <2>2. Running'
    BY <2>1 DEF Running, Idle
  <2>3. CallShape'
    BY <1>8, <2>1 DEF CallShape, Idle
  <2>4. call' \in [at : {"boot", "idle", "grow", "shrink", "panic"},
                   n : Nat, cur_end : 0 .. Words]
    BY <2>1, MInvFacts DEF Idle
  <2> QED
    BY <1>13, <1>14, <2>1, <2>2, <2>3, <2>4, KeepsMInv
<1>16. CASE /\ ~ Fits(g.mem, g.last, alloc_size(n)) /\ mem' = g.mem
            /\ UNCHANGED <<call, live, reply>>
  <2>1. Running'
    BY <1>1, <1>16 DEF Running
  <2>2. Heap(mem', mm_end_block', V, live') /\ mem' \in Memory
    BY <1>10, <1>11, <1>12, <1>16
  <2>3. /\ Heap(mem', mm_end_block', Walk(mem', mm_end_block'), live')
        /\ Walk(mem', mm_end_block') = V
    <3>1. Tiles(mem', mm_end_block', V) /\ mm_end_block' \in 2 .. Words - 1
      BY <2>2 DEF Heap
    <3> QED
      BY <2>2, <3>1, WalkMeetsTiles
  <2>4. Blocks' = V
    BY <2>3 DEF Blocks
  <2>5. NoneFits(mem', V, n)
    <3> SUFFICES ASSUME NEW q \in V PROVE ~ Fits(mem', q, n)
      BY DEF NoneFits
    <3>1. CASE q = g.last
      BY <1>3, <1>16, <3>1
    <3>2. CASE q # g.last
      <4>1. q \in Blocks /\ mem'[q - 1] = mem[q - 1]
        BY <1>12, <1>16, <3>2
      <4> QED
        BY <1>2, <4>1 DEF NoneFits, Fits, Used, BlockSize
    <3> QED
      BY <3>1, <3>2
  <2>6. g.last \in Nat
    <3>1. Tiles(g.mem, end2, V)
      BY <1>12 DEF Heap
    <3>2. V \subseteq 1 .. end2 - 1
      BY <3>1 DEF Tiles
    <3>3. g.last \in V
      BY <1>12
    <3>4. end2 \in Int
      BY MInvFacts
    <3> HIDE DEF end2
    <3>5. ASSUME NEW x \in V PROVE x \in Nat
      <4>1. x \in 1 .. end2 - 1
        BY ONLY <3>2
      <4> QED
        BY ONLY <3>4, <4>1
    <3> QED
      BY ONLY <3>3, <3>5
  <2>7. g.last < call.cur_end
    <3>1. CASE mm_end > call.cur_end
      <4>1. PICK p \in Blocks : /\ NextOf(mem, p) = mm_end_block
                                /\ ~ Used(mem, p) /\ p < call.cur_end
        BY <1>2, <3>1
      <4>2. g.last = p
        BY <1>10, <4>1
      <4> QED
        BY <4>1, <4>2
    <3>2. CASE mm_end = call.cur_end
      BY <1>2, <1>10, <2>6, <3>2, MInvFacts
    <3> QED
      BY <1>2, <3>1, <3>2, MInvFacts
  <2>8. OldEnd'
    <3>1. call.cur_end <= mm_end + PageWords
      BY <1>2, MInvFacts
    <3> QED
      BY <1>2, <1>8, <1>16, <3>1 DEF OldEnd
  <2>9. Growing'
    <3>1. /\ g.last \in V /\ NextOf(mem', g.last) = mm_end_block' /\ ~ Used(mem', g.last)
      BY <1>10, <1>11, <1>12, <1>16
    <3> QED
      BY <1>16, <2>4, <2>5, <2>7, <2>8, <3>1 DEF Growing
  <2>10. CallShape'
    BY <1>1, <1>8, <1>16, <2>9 DEF MInv, CallShape
  <2>11. MInv'
    BY <1>13, <1>14, <1>16, <2>1, <2>2, <2>3, <2>10, KeepsMInv, MInvFacts
  <2>12. Kept /\ PoolStep
    BY <1>10, <1>16 DEF Kept, PoolStep
  <2> QED
    BY <2>11, <2>12
<1> QED
  BY <1>8, <1>15, <1>16

LEMMA grow_failKeeps ==
  ASSUME NoWrap, MInv, grow_fail
  PROVE  MInv' /\ Kept /\ PoolStep
<1>1. /\ call.at = "grow" /\ Running /\ PageAllocator!page_alloc_fail(1)
      /\ mem' = CutBack(mem, call.cur_end)
      /\ mm_end_block' = call.cur_end - 1
      /\ call' = [call EXCEPT !.at = "shrink"]
      /\ mm_end' = mm_end /\ live' = live /\ reply' = reply
  BY DEF grow_fail, Running
<1>2. /\ mm_end_block = mm_end - 1 /\ OldEnd /\ NoneFits(mem, Blocks, call.n)
      /\ mm_end > call.cur_end =>
           \E p \in Blocks : /\ NextOf(mem, p) = mm_end_block
                             /\ ~ Used(mem, p) /\ p < call.cur_end
      /\ call.n \in AllocSizes /\ call.n <= MaxAlloc /\ call.cur_end <= mm_end
  BY <1>1 DEF MInv, CallShape, Growing, OldEnd
<1>3. call.n \in Nat /\ call.n >= 2
  BY <1>2, AllocSize
<1>4. PICK k \in 1 .. NumPages : mm_end = k * PageWords /\ PagesOut(k)
  BY <1>1, PagesOfHeap
<1>5. k = NumPages /\ PagesOut(k)' /\ page_reply' = [n |-> 1, base |-> -1]
  <2>1. k \in 0 .. NumPages
    BY <1>4, MInvFacts
  <2> QED
    BY <1>1, <1>4, <2>1, PageRefused
<1>6. mm_end = Words /\ mm_end_block = Words - 1
  BY <1>2, <1>4, <1>5, MInvFacts
<1>7. call.cur_end \in Nat /\ call.cur_end > 2 /\ mm_end = mm_end_block + 1
  <2>1. PICK j \in 1 .. NumPages : call.cur_end = j * PageWords
    BY <1>2 DEF OldEnd
  <2>2. j \in Nat /\ j >= 1 /\ PageWords \in Nat /\ PageWords > 2
    BY MInvFacts
  <2>3. j * PageWords >= PageWords
    <3>1. 0 * PageWords + PageWords <= j * PageWords
      BY <2>2, PageArithmetic
    <3> QED
      BY <2>2, <3>1
  <2> QED
    BY <1>2, <2>1, <2>2, <2>3, MInvFacts
<1>8. /\ mem' \in Memory
      /\ \E V : Heap(mem', mm_end_block', V, live)
      /\ \A c \in live : \A a \in Payload(c) : mem'[a] = mem[a]
  <2>1. call.cur_end < mm_end =>
          \E p \in Blocks : NextOf(mem, p) = mm_end_block /\ ~ Used(mem, p) /\ p < call.cur_end
    BY <1>2, <1>7, MInvFacts
  <2>2. Heap(mem, mm_end_block, Blocks, live) /\ mem \in Memory
    BY <1>1, HeapNow, MInvFacts
  <2>3. LET m2 == CutBack(mem, call.cur_end)
        IN  /\ m2 \in Memory
            /\ \E V : Heap(m2, call.cur_end - 1, V, live)
            /\ \A c \in live : \A a \in Payload(c) : m2[a] = mem[a]
    BY <1>2, <1>7, <2>1, <2>2, CutBackKeepsHeap
  <2> QED
    BY <1>1, <2>3
<1>9. Heap(mem', mm_end_block', Walk(mem', mm_end_block'), live')
  BY <1>1, <1>8, HeapFacts
<1>10. Running' /\ call'.at = "shrink" /\ call'.n = call.n /\ call'.cur_end = call.cur_end
  BY <1>1, MInvFacts DEF Running
<1>11. Failing
  <2>1. Heap(mem, Words - 1, Blocks, live) /\ mem \in Memory
    BY <1>1, <1>6, HeapNow, MInvFacts
  <2>2. \A i \in 0 .. Words - 3 : ~ Pool!Room(i, call.n)
    BY <1>2, <1>3, <2>1, NoRoom
  <2> QED
    BY <1>2, <2>2 DEF Failing
<1>12. Failing'
  <2>1. OldEnd'
    BY <1>1, <1>2, <1>10 DEF OldEnd
  <2>2. \A i \in 0 .. Words - 3 : ~ Pool!Room(i, call.n)'
    BY <1>1, <1>10, <1>11 DEF Failing, Pool!Room, Pool!Extent
  <2> QED
    BY <2>1, <2>2 DEF Failing
<1>13. CallShape'
  BY <1>1, <1>10, <1>12 DEF MInv, CallShape
<1>14. OwnsPages'
  <2>1. k \in 0 .. NumPages /\ k > 0
    BY <1>4, MInvFacts
  <2> QED
    BY <1>1, <1>4, <1>5, <1>10, <2>1, MInvFacts DEF OwnsPages
<1>15. /\ call' \in [at : {"boot", "idle", "grow", "shrink", "panic"},
                     n : Nat, cur_end : 0 .. Words]
       /\ reply' \in [base : Addr, n : Nat]
       /\ page_reply' \in [base : -1 .. NumPages - 1, n : {0, 1}]
  BY <1>1, <1>5, MInvFacts
<1>16. MInv'
  BY <1>8, <1>9, <1>10, <1>13, <1>14, <1>15, KeepsMInv
<1> QED
  BY <1>1, <1>8, <1>16 DEF Kept, PoolStep

LEMMA shrinkKeeps ==
  ASSUME MInv, shrink
  PROVE  MInv' /\ Kept /\ PoolStep
<1>1. /\ call.at = "shrink" /\ Running /\ mm_end > call.cur_end
      /\ mm_end' = mm_end - PageWords
      /\ PageAllocator!page_free([base |-> (mm_end - PageWords) \div PageWords, n |-> 1])
      /\ UNCHANGED <<mem, mm_end_block, call, live, reply>>
  BY DEF shrink, Running, page_given_back
<1>2. Failing /\ mm_end_block = call.cur_end - 1
  BY <1>1 DEF MInv, CallShape
<1>3. PICK k \in 1 .. NumPages : mm_end = k * PageWords /\ PagesOut(k)
  BY <1>1, PagesOfHeap
<1>4. PICK j \in 1 .. NumPages : call.cur_end = j * PageWords
  BY <1>2 DEF Failing, OldEnd
<1>5. /\ k \in Nat /\ k >= 1 /\ j \in Nat /\ j >= 1 /\ k <= NumPages
      /\ PageWords \in Nat /\ PageWords > 2 /\ NumPages \in Nat
  BY MInvFacts
<1>6. j < k
  <2> SUFFICES ASSUME k <= j PROVE FALSE
    BY <1>5
  <2>1. k * PageWords <= j * PageWords
    <3>1. CASE k < j
      BY <1>5, <3>1, PageArithmetic
    <3>2. CASE k = j
      BY <1>5, <3>2
    <3> QED
      BY <1>5, <3>1, <3>2
  <2> QED
    BY <1>1, <1>3, <1>4, <1>5, <2>1
<1>7. /\ k - 1 \in Nat /\ k - 1 >= 1 /\ mm_end - PageWords = (k - 1) * PageWords
      /\ ((k - 1) * PageWords) \div PageWords = k - 1
      /\ call.cur_end <= mm_end - PageWords
  <2>1. k - 1 \in Nat /\ k - 1 >= 1 /\ (k - 1) + 1 = k
    BY <1>5, <1>6
  <2>2. ((k - 1) + 1) * PageWords = (k - 1) * PageWords + PageWords
    BY <2>1, PageArithmetic
  <2>3. ((k - 1) * PageWords) \div PageWords = k - 1
    BY <2>1, PageArithmetic
  <2>4. j * PageWords + PageWords <= k * PageWords
    BY <1>5, <1>6, PageArithmetic
  <2>5. (k - 1) * PageWords \in Nat /\ j * PageWords \in Nat
    BY <1>5, <2>1, PageArithmetic
  <2> QED
    BY <1>3, <1>4, <1>5, <2>1, <2>2, <2>3, <2>4, <2>5
<1>8. PagesOut(k - 1)' /\ page_reply' = [n |-> 0, base |-> -1]
  BY <1>1, <1>3, <1>7, PageGivenBack
<1>9. Running'
  BY <1>1 DEF Running
<1>10. OwnsPages'
  <2>1. k - 1 \in 0 .. NumPages /\ k - 1 > 0
    BY <1>5, <1>7
  <2> QED
    BY <1>1, <1>7, <1>8, <1>9, <2>1 DEF OwnsPages
<1>11. OldEnd'
  BY <1>1, <1>2, <1>7 DEF Failing, OldEnd
<1>12. Failing'
  BY <1>1, <1>2, <1>11 DEF Failing, Pool!Room, Pool!Extent
<1>13. CallShape'
  BY <1>1, <1>2, <1>12 DEF MInv, CallShape
<1>14. Heap(mem', mm_end_block', Walk(mem', mm_end_block'), live')
  BY <1>1, HeapNow DEF Blocks
<1>15. /\ call' \in [at : {"boot", "idle", "grow", "shrink", "panic"},
                     n : Nat, cur_end : 0 .. Words]
       /\ reply' \in [base : Addr, n : Nat]
       /\ page_reply' \in [base : -1 .. NumPages - 1, n : {0, 1}]
       /\ mem' \in Memory
  BY <1>1, <1>5, <1>8, MInvFacts
<1>16. MInv'
  BY <1>9, <1>10, <1>13, <1>14, <1>15, KeepsMInv
<1> QED
  BY <1>1, <1>16 DEF Kept, PoolStep

LEMMA malloc_failedKeeps ==
  ASSUME MInv, malloc_failed
  PROVE  MInv' /\ Kept /\ PoolStep
<1>1. /\ call.at = "shrink" /\ Running /\ mm_end <= call.cur_end
      /\ UNCHANGED <<mem, mm_end, mm_end_block>> /\ UNCHANGED paged
  BY DEF malloc_failed, Running, heap
<1>2. Failing /\ mm_end_block = call.cur_end - 1 /\ call.cur_end <= mm_end
      /\ call.n \in AllocSizes
  BY <1>1 DEF MInv, CallShape, Failing, OldEnd
<1>3. mm_end_block = mm_end - 1
  BY <1>1, <1>2, MInvFacts
<1>4. /\ reply' = [n |-> call.n, base |-> -1] /\ call' = Idle /\ live' = live
  BY <1>1, <1>3 DEF malloc_failed, ReturnNull, None
<1>5. Running'
  BY <1>4 DEF Running, Idle
<1>6. CallShape'
  BY <1>1, <1>3, <1>4 DEF CallShape, Idle, None
<1>7. OwnsPages' /\ page_reply' \in [base : -1 .. NumPages - 1, n : {0, 1}]
  BY <1>1, <1>5, PagesStay
<1>8. /\ call' \in [at : {"boot", "idle", "grow", "shrink", "panic"},
                    n : Nat, cur_end : 0 .. Words]
      /\ reply' \in [base : Addr, n : Nat]
  BY <1>4, MInvFacts DEF Idle, Addr
<1>9. Heap(mem', mm_end_block', Walk(mem', mm_end_block'), live')
  BY <1>1, <1>4, HeapNow DEF Blocks
<1>10. MInv'
  BY <1>1, <1>5, <1>6, <1>7, <1>8, <1>9, MInvFacts, KeepsMInv
<1>11. PoolStep
  <2>1. \A i \in 0 .. (Words - 2) - 1 : ~ Pool!Room(i, call.n)
    <3>1. (Words - 2) - 1 = Words - 3
      BY MInvFacts
    <3> QED
      BY <1>2, <3>1 DEF Failing
  <2>2. Pool!Refuse(call.n)
    BY <1>4, <2>1 DEF Pool!Refuse, Pool!None
  <2> QED
    BY <1>2, <2>2 DEF PoolStep, Pool!Next, AllocSizes
<1> QED
  BY <1>1, <1>4, <1>10, <1>11 DEF Kept

LEMMA mm_freeKeeps ==
  ASSUME MInv, NEW b \in live, mm_free(b)
  PROVE  MInv' /\ Kept /\ PoolStep
<1> DEFINE p == b.base + 1
<1>1. /\ call.at = "idle" /\ Running
      /\ mem' = Freed(mem, p)
      /\ live' = live \ {b} /\ reply' = NoReply
      /\ UNCHANGED <<mm_end, mm_end_block, call>> /\ UNCHANGED paged
  BY Zenon DEF mm_free, Running, Freed
<1>2. mm_end_block = mm_end - 1
  BY <1>1 DEF MInv, CallShape
<1>3. PICK q \in Blocks : Used(mem, q) /\ b = [base |-> q - 1, n |-> BlockSize(mem, q)]
  BY <1>1, HeapNow, HeldBlockIs, MInvFacts
<1>4. p = q
  <2>1. q \in Nat
    BY <1>1, HeapNow
  <2> QED
    BY <1>3, <2>1
<1>5. /\ mem' \in Memory
      /\ \E V : Heap(mem', mm_end_block, V, live')
      /\ \A c \in live' : \A a \in Payload(c) : mem'[a] = mem[a]
  <2>1. Heap(mem, mm_end_block, Blocks, live) /\ mem \in Memory
    BY <1>1, HeapNow, MInvFacts
  <2> DEFINE m2 == Freed(mem, q)
             rest == live \ {[base |-> q - 1, n |-> BlockSize(mem, q)]}
  <2>2. /\ m2 \in Memory
        /\ \E V : Heap(m2, mm_end_block, V, rest)
        /\ \A c \in rest : \A a \in Payload(c) : m2[a] = mem[a]
    BY <1>3, <2>1, FreeKeepsHeap
  <2>3. mem' = m2 /\ live' = rest
    BY <1>1, <1>3, <1>4
  <2> HIDE DEF m2, rest
  <2> QED
    BY <2>2, <2>3
<1>6. Heap(mem', mm_end_block', Walk(mem', mm_end_block'), live')
  BY <1>1, <1>5, HeapFacts
<1>7. Running'
  BY <1>1 DEF Running
<1>8. CallShape'
  BY <1>1, <1>2 DEF CallShape, NoReply, None
<1>9. OwnsPages' /\ page_reply' \in [base : -1 .. NumPages - 1, n : {0, 1}]
  BY <1>1, <1>7, PagesStay
<1>10. reply' \in [base : Addr, n : Nat] /\ call' = call
  BY <1>1, MInvFacts DEF NoReply, None, Addr
<1>11. MInv'
  BY <1>5, <1>6, <1>7, <1>8, <1>9, <1>10, MInvFacts, KeepsMInv
<1>12. Kept
  BY <1>5 DEF Kept
<1>13. PoolStep
  <2>1. Pool!Free(b)
    BY <1>1 DEF Pool!Free, Pool!NoReply, Pool!None, NoReply, None
  <2> QED
    BY <2>1 DEF PoolStep, Pool!Next
<1> QED
  BY <1>11, <1>12, <1>13

-----------------------------------------------------------------------------
(* Every step keeps the invariant and what callers stored, and is a step   *)
(* of the block pool.                                                      *)
LEMMA NextKeeps ==
  ASSUME NoWrap, MInv, [Next]_vars
  PROVE  MInv' /\ [Kept]_vars /\ PoolStep
<1>1. CASE mm_init
  BY <1>1, mm_initKeeps
<1>2. CASE \E r \in Requests : mm_malloc(r + 2)
  <2>1. PICK r \in Requests : mm_malloc(r + 2)
    BY <1>2
  <2>2. r + 2 \in AllocSizes
    BY DEF AllocSizes
  <2> QED
    BY <2>1, <2>2, mm_mallocKeeps
<1>3. CASE grow
  BY <1>3, growKeeps
<1>4. CASE grow_fail
  BY <1>4, grow_failKeeps
<1>5. CASE shrink
  BY <1>5, shrinkKeeps
<1>6. CASE malloc_failed
  BY <1>6, malloc_failedKeeps
<1>7. CASE \E b \in live : mm_free(b)
  BY <1>7, mm_freeKeeps
<1>8. CASE UNCHANGED vars
  <2>1. UNCHANGED <<mem, mm_end, mm_end_block, call, live, reply, flags, pages, page_reply>>
    BY <1>8 DEF vars, heap, paged
  <2>2. MInv'
    BY <2>1 DEF MInv, TypeOK, HeapShape, OwnsPages, PagesOut, CallShape, Running, Blocks,
                Growing, Failing, OldEnd, PageAllocator!TypeOK, Pool!Room
  <2>3. PoolStep
    BY <2>1 DEF PoolStep
  <2> QED
    BY <1>8, <2>2, <2>3
<1>9. CASE mm_free_null
  BY <1>8, <1>9 DEF mm_free_null
<1> QED
  BY <1>1, <1>2, <1>3, <1>4, <1>5, <1>6, <1>7, <1>8, <1>9 DEF Next

(* The invariant of the heap of malloc.c, at every instant of every run.   *)
THEOREM MallocInvariant ==
  ASSUME NoWrap
  PROVE  Spec => []MInv
<1>1. Init => MInv
  BY InitMInv
<1>2. MInv /\ [Next]_vars => MInv'
  BY NextKeeps
<1> QED
  BY <1>1, <1>2, PTL DEF Spec

(* The blocks from _mm_start_block to the end block lie one behind the     *)
(* other and their two tags agree, whatever mm_malloc and mm_free split,   *)
(* merged, grew and cut back, and whatever callers stored in them.         *)
THEOREM BlocksAlwaysTile ==
  ASSUME NoWrap
  PROVE  Spec => []BlocksTile
<1>1. MInv => BlocksTile
  <2> SUFFICES ASSUME MInv PROVE BlocksTile
    OBVIOUS
  <2>1. TypeOK
    BY DEF MInv
  <2>2. ASSUME Running
        PROVE  /\ \A p \in Blocks : /\ BlockSize(mem, p) > 0
                                    /\ NextOf(mem, p) <= mm_end_block
                                    /\ PrevOf(mem, NextOf(mem, p)) = p
               /\ BlockSize(mem, mm_end_block) = 2 /\ Used(mem, mm_end_block)
    <3>1. /\ Tiles(mem, mm_end_block, Blocks) /\ EndBlock(mem, mm_end_block)
          /\ mm_end_block \in 2 .. Words - 1
      BY <2>2 DEF MInv, HeapShape, Heap
    <3>2. BlockSize(mem, mm_end_block) = 2 /\ Used(mem, mm_end_block)
      BY <3>1 DEF EndBlock, BlockSize, Used
    <3>3. ASSUME NEW p \in Blocks
          PROVE  /\ BlockSize(mem, p) > 0
                 /\ NextOf(mem, p) <= mm_end_block
                 /\ PrevOf(mem, NextOf(mem, p)) = p
      <4>1. /\ BlockSize(mem, p) > 0 /\ BlockSize(mem, p) \in Nat /\ p \in Nat
            /\ NextOf(mem, p) <= mm_end_block
        <5>1. mem \in Memory
          BY MInvFacts
        <5>2. /\ p \in 1 .. mm_end_block - 1 /\ BlockSize(mem, p) \in Nat
              /\ BlockSize(mem, p) > 0 /\ NextOf(mem, p) <= mm_end_block
          BY ONLY <3>1, <5>1, p \in Blocks, BlockBounds
        <5>3. mm_end_block \in Int
          BY <3>1, MallocAssumption DEF Words
        <5> QED
          BY <5>2, <5>3
      <4>2. mem[NextOf(mem, p) - 2].size = BlockSize(mem, p)
        BY <3>1 DEF Tiles
      <4>3. PrevOf(mem, NextOf(mem, p)) = NextOf(mem, p) - BlockSize(mem, p)
        BY <4>2, Zenon DEF PrevOf
      <4>4. NextOf(mem, p) = p + BlockSize(mem, p)
        BY DEF NextOf
      <4> QED
        BY <4>1, <4>3, <4>4
    <3> QED
      BY <3>2, <3>3
  <2> QED
    BY <2>1, <2>2 DEF BlocksTile
<1> QED
  BY <1>1, MallocInvariant, PTL

(* No two free blocks are neighbours: mm_free and the growing loop merge   *)
(* them at once, also across several pages.                                *)
THEOREM FreeBlocksAreMerged ==
  ASSUME NoWrap
  PROVE  Spec => []NoFreeNeighbours
<1>1. MInv => NoFreeNeighbours
  BY DEF MInv, HeapShape, Heap, Merged, NoFreeNeighbours
<1> QED
  BY <1>1, MallocInvariant, PTL

(* The pages out are those below _mm_end, before, during and after a       *)
(* request that fails, and neither panic of mm_malloc is reached.          *)
THEOREM HeapAlwaysOwnsItsPages ==
  ASSUME NoWrap
  PROVE  Spec => []HeapOwnsItsPages
<1>1. MInv => HeapOwnsItsPages
  <2> SUFFICES ASSUME MInv PROVE HeapOwnsItsPages
    OBVIOUS
  <2>1. PICK k \in 0 .. NumPages : mm_end = k * PageWords /\ PagesOut(k)
    BY DEF MInv, OwnsPages
  <2>2. mm_end \div PageWords = k
    BY <2>1, PageArithmetic, MInvFacts
  <2>3. {b.base : b \in pages} = 0 .. k - 1
    <3>1. \A b \in pages : b.base \in 0 .. k - 1
      BY <2>1 DEF PagesOut
    <3>2. ASSUME NEW i \in 0 .. k - 1 PROVE \E b \in pages : b.base = i
      <4>1. [base |-> i, n |-> 1] \in pages
        BY <2>1 DEF PagesOut
      <4> QED
        BY <4>1
    <3> QED
      BY <3>1, <3>2
  <2> QED
    BY <2>2, <2>3 DEF MInv, CallShape, HeapOwnsItsPages
<1> QED
  BY <1>1, MallocInvariant, PTL

(* No step of mm_malloc or mm_free writes into a block that a caller holds *)
(* before and after it.                                                    *)
THEOREM CallersKeepTheirPayloads ==
  ASSUME NoWrap
  PROVE  Spec => PayloadsKept
<1>1. MInv /\ [Next]_vars => [Kept]_vars
  BY NextKeeps
<1>2. [Kept]_vars <=> [\A b \in live \cap live' : \A a \in Payload(b) : mem'[a] = mem[a]]_vars
  BY DEF Kept
<1> QED
  BY <1>1, <1>2, MallocInvariant, PTL DEF Spec, PayloadsKept

(* mm_malloc and mm_free implement a pool of words that hands out disjoint *)
(* blocks and refuses a request only when it is too large or when no free  *)
(* stretch of the whole page pool could hold it.                           *)
THEOREM MallocImplementsBlockPool ==
  ASSUME NoWrap
  PROVE  Spec => ImplementsBlockPool
<1>1. Init => Pool!Init
  BY DEF Init, Pool!Init, NoReply, None, Pool!NoReply, Pool!None
<1>2. MInv /\ [Next]_vars => [Pool!Next]_<<live, reply>>
  BY NextKeeps DEF PoolStep
<1> QED
  BY <1>1, <1>2, MallocInvariant, PTL DEF Spec, ImplementsBlockPool, Pool!Spec
=============================================================================
