--------------------------- MODULE ListTimerProofs ---------------------------
(***************************************************************************)
(* The timers of exercise 15-1 on either list, for any number of nodes,    *)
(* levels and timeouts: the lists are walked, linked and unlinked pointer  *)
(* by pointer, and stand for one order of nodes throughout.                *)
(***************************************************************************)
EXTENDS ListTimerInv, FiniteSetTheorems, WellFoundedInduction, TLAPS

(* Induction over numbers: a set of naturals has a smallest member.        *)
LEMMA SmallestMember ==
  ASSUME NEW S \in SUBSET Nat, S # {}
  PROVE  \E n \in S : \A k \in S : n <= k
<1> DEFINE Smaller == OpToRel(<, Nat)
<1>1. IsWellFoundedOn(Smaller, Nat)
  BY NatLessThanWellFounded
<1>2. \A j, k \in Nat : j < k => <<j, k>> \in Smaller
  BY DEF OpToRel
<1> HIDE DEF Smaller
<1>3. PICK n \in S : \A k \in S : ~ (<<k, n>> \in Smaller)
  BY <1>1, WFMin
<1>4. \A k \in S : ~ (k < n)
  BY <1>2, <1>3
<1>5. \A k \in S : n <= k
  BY <1>4
<1> QED
  BY <1>5

(* The set of the numbers up to n that have a property holds all of them.  *)
LEMMA AllUpTo ==
  ASSUME NEW n \in Nat, NEW P \in SUBSET (0 .. n),
         0 \in P, \A k \in 0 .. n - 1 : k \in P => k + 1 \in P
  PROVE  P = 0 .. n
<1>1. SUFFICES ASSUME 0 .. n \ P # {} PROVE FALSE
  OBVIOUS
<1>2. 0 .. n \ P \in SUBSET Nat
  OBVIOUS
<1>3. PICK k \in 0 .. n \ P : \A j \in 0 .. n \ P : k <= j
  BY <1>1, <1>2, SmallestMember
<1>4. k # 0
  OBVIOUS
<1>5. k - 1 \in 0 .. n - 1
  BY <1>4
<1>6. k - 1 \notin P
  BY <1>3, <1>5
<1>7. k - 1 \in 0 .. n \ P
  BY <1>5, <1>6
<1>8. k <= k - 1
  BY ONLY <1>3, <1>7
<1> QED
  BY <1>8

-----------------------------------------------------------------------------
(* Numbers, iteration and sequences.                                       *)

(* What is iterated n times exists.                                        *)
Iterates(f, v, F, n) == f[0] = v /\ \A k \in 1 .. n : f[k] = F[f[k - 1]]

(* Induction over a function: its iterates from v are a function of the    *)
(* number of steps.                                                        *)
LEMMA IteratesExist ==
  ASSUME NEW V, NEW v \in V, NEW F \in [V -> V], NEW n \in Nat
  PROVE  \E f \in [0 .. n -> V] : Iterates(f, v, F, n)
<1> DEFINE Is(f, m) == f[0] = v /\ \A k \in 1 .. m : f[k] = F[f[k - 1]]
           Can(m) == \E f \in [0 .. m -> V] : Is(f, m)
           P == {m \in 0 .. n : Can(m)}
<1>1. Can(0)
  <2>1. [k \in 0 .. 0 |-> v] \in [0 .. 0 -> V] /\ Is([k \in 0 .. 0 |-> v], 0)
    OBVIOUS
  <2> QED
    BY ONLY <2>1
<1>2. ASSUME NEW m \in 0 .. n - 1, Can(m) PROVE Can(m + 1)
  <2>1. PICK f \in [0 .. m -> V] : Is(f, m)
    BY <1>2
  <2> DEFINE g == [k \in 0 .. m + 1 |-> IF k = m + 1 THEN F[f[m]] ELSE f[k]]
  <2>2. g \in [0 .. m + 1 -> V]
    OBVIOUS
  <2>3. g[0] = v
    BY <2>1
  <2>4. ASSUME NEW k \in 1 .. m + 1 PROVE g[k] = F[g[k - 1]]
    <3>1. k - 1 \in 0 .. m /\ g[k - 1] = f[k - 1]
      OBVIOUS
    <3>2. CASE k = m + 1
      BY <3>1, <3>2
    <3>3. CASE k # m + 1
      <4>1. k \in 1 .. m
        BY <3>3
      <4> QED
        BY <3>1, <3>3, <4>1, <2>1
    <3> QED
      BY <3>2, <3>3
  <2>5. Is(g, m + 1)
    BY <2>3, <2>4
  <2> HIDE DEF g, Is
  <2> QED
    BY <2>2, <2>5
<1> HIDE DEF Can
<1>3. P \in SUBSET (0 .. n) /\ 0 \in P /\ \A m \in 0 .. n - 1 : m \in P => m + 1 \in P
  BY <1>1, <1>2
<1> HIDE DEF P
<1>4. P = 0 .. n
  BY <1>3, AllUpTo
<1>5. n \in P
  BY <1>4
<1>6. Can(n)
  BY <1>5 DEF P
<1> QED
  BY <1>6 DEF Can, Iterates
-----------------------------------------------------------------------------
(* Sequences with an element put in or taken out, position by position.    *)
LEMMA Joined ==
  ASSUME NEW S, NEW a \in Seq(S), NEW b \in Seq(S)
  PROVE  /\ a \o b \in Seq(S)
         /\ Len(a \o b) = Len(a) + Len(b)
         /\ \A i \in 1 .. Len(a) : (a \o b)[i] = a[i]
         /\ \A i \in 1 .. Len(b) : (a \o b)[Len(a) + i] = b[i]
OBVIOUS

(* p is q with e put in at place J.                                        *)
IsInsertion(S, p, q, J, e) ==
  /\ p \in Seq(S) /\ Len(p) = Len(q) + 1
  /\ \A i \in 1 .. Len(q) + 1 : p[i] = IF i < J THEN q[i] ELSE IF i = J THEN e ELSE q[i - 1]

(* That is what InsertAt of the community modules makes of a sequence.     *)
LEMMA InsertsAt ==
  ASSUME NEW S, NEW q \in Seq(S), NEW J \in 1 .. Len(q) + 1, NEW e \in S
  PROVE  IsInsertion(S, InsertAt(q, J, e), q, J, e)
<1> DEFINE a == SubSeq(q, 1, J - 1)
           b == SubSeq(q, J, Len(q))
<1>1. a \in Seq(S) /\ Len(a) = J - 1 /\ \A i \in 1 .. J - 1 : a[i] = q[i]
  OBVIOUS
<1>2. b \in Seq(S) /\ Len(b) = Len(q) + 1 - J /\ \A i \in 1 .. Len(q) + 1 - J : b[i] = q[J + i - 1]
  OBVIOUS
<1> HIDE DEF a, b
<1>3. InsertAt(q, J, e) = a \o <<e>> \o b
  BY DEF a, b, InsertAt
<1> DEFINE c == <<e>> \o b
<1>4. c \in Seq(S) /\ Len(c) = Len(b) + 1 /\ c[1] = e /\ \A i \in 1 .. Len(b) : c[1 + i] = b[i]
  BY <1>2
<1> HIDE DEF c
<1>5. InsertAt(q, J, e) = a \o c /\ Len(q) \in Nat /\ J \in Nat
  BY <1>1, <1>2, <1>3 DEF c
<1>6. Len(InsertAt(q, J, e)) = Len(q) + 1 /\ InsertAt(q, J, e) \in Seq(S)
  <2>1. a \o c \in Seq(S) /\ Len(a \o c) = Len(a) + Len(c)
    BY <1>1, <1>4, Joined
  <2> QED
    BY ONLY <1>1, <1>2, <1>4, <1>5, <2>1
<1>7. ASSUME NEW i \in 1 .. Len(q) + 1
      PROVE  InsertAt(q, J, e)[i] = IF i < J THEN q[i] ELSE IF i = J THEN e ELSE q[i - 1]
  <2>1. CASE i < J
    <3>1. i \in 1 .. Len(a)
      BY <1>1, <1>5, <2>1
    <3> QED
      BY <1>1, <1>4, <1>5, <2>1, <3>1, Joined
  <2>2. CASE i = J
    <3>1. 1 \in 1 .. Len(c) /\ i = Len(a) + 1
      BY <1>1, <1>2, <1>4, <1>5, <2>2
    <3> QED
      BY <1>1, <1>4, <1>5, <2>2, <3>1, Joined
  <2>3. CASE i > J
    <3> DEFINE k == i - J
    <3>1. k \in 1 .. Len(b) /\ i = Len(a) + (1 + k) /\ 1 + k \in 1 .. Len(c) /\ J + k - 1 = i - 1
      BY <1>1, <1>2, <1>4, <1>5, <2>3
    <3> HIDE DEF k
    <3>2. InsertAt(q, J, e)[i] = c[1 + k]
      BY <1>1, <1>4, <1>5, <3>1, Joined
    <3>3. c[1 + k] = q[i - 1]
      BY <1>2, <1>4, <3>1
    <3> QED
      BY <1>5, <2>3, <3>2, <3>3
  <2>4. i < J \/ i = J \/ i > J
    BY <1>5
  <2> QED
    BY ONLY <2>1, <2>2, <2>3, <2>4
<1> QED
  BY ONLY <1>6, <1>7 DEF IsInsertion

(* The same, position by position.                                         *)
LEMMA Inserted ==
  ASSUME NEW S, NEW q \in Seq(S), NEW J \in 1 .. Len(q) + 1, NEW e \in S
  PROVE  /\ InsertAt(q, J, e) \in Seq(S)
         /\ Len(InsertAt(q, J, e)) = Len(q) + 1
         /\ \A i \in 1 .. Len(q) + 1 :
              InsertAt(q, J, e)[i] = IF i < J THEN q[i] ELSE IF i = J THEN e ELSE q[i - 1]
<1>1. IsInsertion(S, InsertAt(q, J, e), q, J, e)
  BY InsertsAt
<1> QED
  BY ONLY <1>1 DEF IsInsertion

(* What RemoveAt of the community modules makes of a sequence.             *)
LEMMA Removed ==
  ASSUME NEW S, NEW q \in Seq(S), NEW J \in 1 .. Len(q)
  PROVE  /\ RemoveAt(q, J) \in Seq(S)
         /\ Len(RemoveAt(q, J)) = Len(q) - 1
         /\ \A i \in 1 .. Len(q) - 1 :
              RemoveAt(q, J)[i] = IF i < J THEN q[i] ELSE q[i + 1]
<1> DEFINE a == SubSeq(q, 1, J - 1)
           b == SubSeq(q, J + 1, Len(q))
<1>1. a \in Seq(S) /\ Len(a) = J - 1 /\ \A i \in 1 .. J - 1 : a[i] = q[i]
  OBVIOUS
<1>2. b \in Seq(S) /\ Len(b) = Len(q) - J /\ \A i \in 1 .. Len(q) - J : b[i] = q[J + i]
  OBVIOUS
<1> HIDE DEF a, b
<1>3. RemoveAt(q, J) = a \o b
  BY DEF a, b, RemoveAt
<1>4. Len(q) \in Nat /\ J \in Nat
  OBVIOUS
<1>5. Len(RemoveAt(q, J)) = Len(q) - 1 /\ RemoveAt(q, J) \in Seq(S)
  <2>1. a \o b \in Seq(S) /\ Len(a \o b) = Len(a) + Len(b)
    BY <1>1, <1>2, Joined
  <2> QED
    BY ONLY <1>1, <1>2, <1>3, <1>4, <2>1
<1>6. ASSUME NEW i \in 1 .. Len(q) - 1
      PROVE  RemoveAt(q, J)[i] = IF i < J THEN q[i] ELSE q[i + 1]
  <2>1. CASE i < J
    <3>1. i \in 1 .. Len(a)
      BY <1>1, <1>4, <2>1
    <3> QED
      BY <1>1, <1>2, <1>3, <2>1, <3>1, Joined
  <2>2. CASE i >= J
    <3> DEFINE k == i + 1 - J
    <3>1. k \in 1 .. Len(b) /\ i = Len(a) + k /\ J + k = i + 1 /\ k \in 1 .. Len(q) - J
      BY <1>1, <1>2, <1>4, <2>2
    <3> HIDE DEF k
    <3>2. RemoveAt(q, J)[i] = b[k]
      BY <1>1, <1>2, <1>3, <3>1, Joined
    <3>3. b[k] = q[i + 1]
      BY <1>2, <3>1
    <3> QED
      BY <1>4, <2>2, <3>2, <3>3
  <2> QED
    BY <1>4, <2>1, <2>2
<1> QED
  BY <1>5, <1>6

(* The members of a set of positions can be listed in their order.         *)
LEMMA Listing ==
  ASSUME NEW n \in Nat, NEW P \in SUBSET (1 .. n)
  PROVE  \E m \in Nat : \E at \in [1 .. m -> 1 .. n] :
           /\ m <= n
           /\ \A i, j \in 1 .. m : i < j => at[i] < at[j]
           /\ {at[i] : i \in 1 .. m} = P
<1> DEFINE Lists(m, at, k) == /\ m <= k
                              /\ \A i, j \in 1 .. m : i < j => at[i] < at[j]
                              /\ {at[i] : i \in 1 .. m} = P \cap (1 .. k)
           Can(k) == \E m \in Nat : \E at \in [1 .. m -> 1 .. n] : Lists(m, at, k)
           K == {k \in 0 .. n : Can(k)}
<1>1. Can(0)
  <2>1. <<>> \in [1 .. 0 -> 1 .. n] /\ Lists(0, <<>>, 0)
    OBVIOUS
  <2> HIDE DEF Lists
  <2> QED
    BY <2>1
<1>2. ASSUME NEW k \in 0 .. n - 1, Can(k) PROVE Can(k + 1)
  <2>0. PICK m \in Nat : \E at \in [1 .. m -> 1 .. n] : Lists(m, at, k)
    BY <1>2
  <2>1. PICK at \in [1 .. m -> 1 .. n] : Lists(m, at, k)
    BY <2>0
  <2>3. CASE k + 1 \notin P
    <3>1. P \cap (1 .. k + 1) = P \cap (1 .. k)
      BY <2>3
    <3>2. Lists(m, at, k + 1)
      BY <2>1, <3>1
    <3> QED
      BY <3>2
  <2>4. CASE k + 1 \in P
    <3> DEFINE new == [i \in 1 .. m + 1 |-> IF i = m + 1 THEN k + 1 ELSE at[i]]
    <3>1. \A i \in 1 .. m : at[i] \in 1 .. k
      BY <2>1
    <3>2. new \in [1 .. m + 1 -> 1 .. n]
      BY <2>4
    <3>3. ASSUME NEW i \in 1 .. m + 1, NEW j \in 1 .. m + 1, i < j PROVE new[i] < new[j]
      <4>1. i \in 1 .. m /\ new[i] = at[i]
        BY <3>3
      <4>2. CASE j = m + 1
        BY <3>1, <4>1, <4>2
      <4>3. CASE j # m + 1
        BY <2>1, <3>3, <4>1, <4>3
      <4> QED
        BY <4>2, <4>3
    <3>4. \A i \in 1 .. m + 1 : new[i] \in P \cap (1 .. k + 1)
      BY <2>1, <2>4, <3>1
    <3>5. ASSUME NEW p \in P \cap (1 .. k + 1) PROVE \E i \in 1 .. m + 1 : new[i] = p
      <4>1. CASE p = k + 1
        BY <4>1
      <4>2. CASE p # k + 1
        <5>1. p \in P \cap (1 .. k)
          BY <4>2
        <5>2. PICK i \in 1 .. m : at[i] = p
          BY <2>1, <5>1
        <5> QED
          BY <5>2
      <4> QED
        BY <4>1, <4>2
    <3>6. {new[i] : i \in 1 .. m + 1} = P \cap (1 .. k + 1)
      BY <3>4, <3>5
    <3>7. Lists(m + 1, new, k + 1)
      BY <2>1, <3>3, <3>6
    <3> HIDE DEF new, Lists
    <3> QED
      BY <3>2, <3>7
  <2> QED
    BY <2>3, <2>4
<1> HIDE DEF Can
<1>3. K \in SUBSET (0 .. n) /\ 0 \in K /\ \A k \in 0 .. n - 1 : k \in K => k + 1 \in K
  BY <1>1, <1>2
<1> HIDE DEF K
<1>4. K = 0 .. n
  BY <1>3, AllUpTo
<1>5. Can(n)
  BY <1>4 DEF K
<1>6. P \cap (1 .. n) = P
  OBVIOUS
<1> QED
  BY <1>5, <1>6 DEF Can

-----------------------------------------------------------------------------
(* Walks along links, and the chains they meet.                            *)

LastStep == MaxNodes + 2

(* w[k] is where a walk leads, from wherever it starts, in k steps.        *)
WalksBy(w, on, next) ==
  /\ \A p \in Pointers : Walked(p, on, next) = w[LastStep][p]
  /\ \A q \in Pointers : w[0][q] = q
  /\ \A k \in 1 .. LastStep : \A q \in Pointers :
       w[k][q] = IF q \in on THEN w[k - 1][next[q]] ELSE q

(* The recursive function in Walked is defined on every step.              *)
LEMMA WalkSteps ==
  ASSUME NEW on \in SUBSET Cells, NEW next \in [Cells -> Pointers]
  PROVE  \E w \in [0 .. LastStep -> [Pointers -> Pointers]] : WalksBy(w, on, next)
<1> DEFINE V == [Pointers -> Pointers]
           v == [q \in Pointers |-> q]
           F == [w \in V |-> [q \in Pointers |-> IF q \in on THEN w[next[q]] ELSE q]]
           body(w) == [more \in Steps |->
                         [q \in Pointers |->
                            IF q \in on /\ more # 0 THEN w[more - 1][next[q]] ELSE q]]
<1>1. v \in V /\ F \in [V -> V]
  BY DEF Pointers
<1>2. LastStep \in Nat /\ Steps = 0 .. LastStep
  BY NodesAssumption DEF Steps, LastStep
<1> HIDE DEF v, F, V
<1>a. PICK f \in [0 .. LastStep -> V] : Iterates(f, v, F, LastStep)
  BY <1>1, <1>2, IteratesExist
<1>3. f[0] = v /\ \A k \in 1 .. LastStep : f[k] = F[f[k - 1]]
  BY <1>a DEF Iterates
<1>4. \A q \in Pointers : f[0][q] = q
  BY <1>3 DEF v
<1>5. ASSUME NEW k \in 1 .. LastStep
      PROVE  /\ f[k] = [q \in Pointers |-> IF q \in on THEN f[k - 1][next[q]] ELSE q]
             /\ \A q \in Pointers : f[k][q] = IF q \in on THEN f[k - 1][next[q]] ELSE q
  <2>1. f[k - 1] \in V /\ f[k] = F[f[k - 1]]
    BY <1>2, <1>3
  <2>2. f[k] = [q \in Pointers |-> IF q \in on THEN f[k - 1][next[q]] ELSE q]
    BY <2>1 DEF F
  <2> QED
    BY <2>2
<1>6. ASSUME NEW k \in Steps PROVE f[k] = body(f)[k]
  <2>1. CASE k = 0
    BY <1>3, <2>1 DEF v
  <2>2. CASE k # 0
    <3>1. k \in 1 .. LastStep
      BY <1>2, <2>2
    <3> QED
      BY <1>5, <2>2, <3>1
  <2> QED
    BY <2>1, <2>2
<1>7. f = body(f)
  BY <1>2, <1>3, <1>6
<1> DEFINE g == CHOOSE w : w = body(w)
<1>8. g = body(g)
  BY ONLY <1>7
<1>9. \A k \in 0 .. LastStep : g[k] = f[k]
  <2> DEFINE P == {k \in 0 .. LastStep : g[k] = f[k]}
  <2> HIDE DEF g
  <2>1. 0 \in P
    <3>1. g[0] = [q \in Pointers |-> q] /\ f[0] = [q \in Pointers |-> q]
      BY <1>2, <1>8, <1>3 DEF v
    <3> QED
      BY <3>1, <1>2
  <2>2. ASSUME NEW k \in 0 .. LastStep - 1, k \in P PROVE k + 1 \in P
    <3>1. k + 1 \in 1 .. LastStep /\ k + 1 \in Steps /\ (k + 1) - 1 = k /\ k + 1 # 0
      BY <1>2
    <3>2. g[k + 1] = [q \in Pointers |-> IF q \in on THEN g[k][next[q]] ELSE q]
      BY <1>8, <3>1
    <3>3. f[k + 1] = [q \in Pointers |-> IF q \in on THEN f[k][next[q]] ELSE q]
      BY <1>5, <3>1
    <3>4. g[k] = f[k]
      BY <2>2
    <3>5. g[k + 1] = f[k + 1]
      BY ONLY <3>2, <3>3, <3>4
    <3> QED
      BY <3>1, <3>5
  <2>3. P \in SUBSET (0 .. LastStep)
    OBVIOUS
  <2> HIDE DEF P
  <2>4. P = 0 .. LastStep
    BY <1>2, <2>1, <2>2, <2>3, AllUpTo
  <2> QED
    BY <2>4 DEF P
<1>10. \A p \in Pointers : Walked(p, on, next) = g[LastStep][p]
  BY DEF Walked, LastStep
<1> HIDE DEF g
<1>11. \A p \in Pointers : Walked(p, on, next) = f[LastStep][p]
  BY <1>2, <1>9, <1>10
<1> QED
  BY <1>3, <1>4, <1>5, <1>11 DEF V, WalksBy

(* A walk on links that lead only forward ends where it is to stop.        *)
LEMMA WalkEnds ==
  ASSUME NEW on \in SUBSET Cells, NEW next \in [Cells -> Pointers],
         NEW I \in SUBSET Pointers, NEW rank \in [I -> Nat], NEW p \in I,
         \A q \in I : q \in on => /\ next[q] \in I
                                  /\ rank[next[q]] > rank[q]
                                  /\ rank[q] < LastStep
  PROVE  Walked(p, on, next) \in I /\ Walked(p, on, next) \notin on
<1>1. LastStep \in Nat
  BY NodesAssumption DEF LastStep
<1>a. PICK w \in [0 .. LastStep -> [Pointers -> Pointers]] : WalksBy(w, on, next)
  BY WalkSteps
<1>2. /\ \A q \in Pointers : Walked(q, on, next) = w[LastStep][q]
      /\ \A q \in Pointers : w[0][q] = q
      /\ \A k \in 1 .. LastStep : \A q \in Pointers :
           w[k][q] = IF q \in on THEN w[k - 1][next[q]] ELSE q
  BY <1>a DEF WalksBy
<1> DEFINE Ends(k) == \A q \in I : rank[q] + k >= LastStep => w[k][q] \in I /\ w[k][q] \notin on
           P == {k \in 0 .. LastStep : Ends(k)}
<1>3. Ends(0)
  BY <1>1, <1>2
<1>4. ASSUME NEW k \in 0 .. LastStep - 1, Ends(k) PROVE Ends(k + 1)
  <2> SUFFICES ASSUME NEW q \in I, rank[q] + (k + 1) >= LastStep
               PROVE  w[k + 1][q] \in I /\ w[k + 1][q] \notin on
    OBVIOUS
  <2>1. k + 1 \in 1 .. LastStep /\ (k + 1) - 1 = k /\ k \in Nat /\ rank[q] \in Nat
    BY <1>1
  <2>2. w[k + 1][q] = IF q \in on THEN w[k][next[q]] ELSE q
    BY <1>2, <2>1
  <2>3. CASE q \in on
    <3>1. next[q] \in I /\ rank[next[q]] \in Nat /\ rank[next[q]] > rank[q]
      BY <2>3
    <3>2. rank[next[q]] + k >= LastStep
      BY <1>1, <2>1, <3>1
    <3> QED
      BY <1>4, <2>2, <2>3, <3>1, <3>2
  <2> QED
    BY <2>2, <2>3
<1> HIDE DEF Ends
<1>5. P \in SUBSET (0 .. LastStep) /\ 0 \in P /\ \A k \in 0 .. LastStep - 1 : k \in P => k + 1 \in P
  BY <1>1, <1>3, <1>4
<1> HIDE DEF P
<1>6. P = 0 .. LastStep
  BY <1>1, <1>5, AllUpTo
<1>7. Ends(LastStep)
  BY <1>1, <1>6 DEF P
<1>8. rank[p] + LastStep >= LastStep
  BY <1>1
<1> QED
  BY <1>2, <1>7, <1>8 DEF Ends

(* c[k] is the nodes a walk meets, from wherever it starts, in k steps.    *)
ChainsBy(c, next) ==
  /\ \A p \in Pointers : Chain(p, next) = c[LastStep][p]
  /\ \A q \in Pointers : c[0][q] = <<>>
  /\ \A k \in 1 .. LastStep : \A q \in Pointers :
       c[k][q] = IF q \in Nodes THEN <<q>> \o c[k - 1][next[q]] ELSE <<>>

(* The recursive function in Chain is defined on every step.               *)
LEMMA ChainSteps ==
  ASSUME NEW next \in [Cells -> Pointers]
  PROVE  \E c \in [0 .. LastStep -> [Pointers -> Seq(Nodes)]] : ChainsBy(c, next)
<1> DEFINE V == [Pointers -> Seq(Nodes)]
           v == [q \in Pointers |-> <<>>]
           F == [w \in V |-> [q \in Pointers |-> IF q \in Nodes THEN <<q>> \o w[next[q]] ELSE <<>>]]
           body(w) == [more \in Steps |->
                         [q \in Pointers |->
                            IF q \in Nodes /\ more # 0 THEN <<q>> \o w[more - 1][next[q]] ELSE <<>>]]
<1>1. v \in V /\ F \in [V -> V]
  <2>1. v \in V
    OBVIOUS
  <2>2. ASSUME NEW w \in V, NEW q \in Pointers, q \in Nodes
        PROVE  <<q>> \o w[next[q]] \in Seq(Nodes)
    <3>1. q \in Cells
      BY <2>2, NodesAssumption DEF Nodes, Cells, HEAD, TAIL
    <3>2. next[q] \in Pointers /\ <<q>> \in Seq(Nodes)
      BY <2>2, <3>1
    <3> QED
      BY <3>2, Joined
  <2>3. F \in [V -> V]
    BY <2>2
  <2> QED
    BY <2>1, <2>3
<1>2. LastStep \in Nat /\ Steps = 0 .. LastStep
  BY NodesAssumption DEF Steps, LastStep
<1> HIDE DEF v, F, V
<1>a. PICK f \in [0 .. LastStep -> V] : Iterates(f, v, F, LastStep)
  BY <1>1, <1>2, IteratesExist
<1>3. f[0] = v /\ \A k \in 1 .. LastStep : f[k] = F[f[k - 1]]
  BY <1>a DEF Iterates
<1>4. \A q \in Pointers : f[0][q] = <<>>
  BY <1>3 DEF v
<1>5. ASSUME NEW k \in 1 .. LastStep
      PROVE  /\ f[k] = [q \in Pointers |-> IF q \in Nodes THEN <<q>> \o f[k - 1][next[q]] ELSE <<>>]
             /\ \A q \in Pointers : f[k][q] = IF q \in Nodes THEN <<q>> \o f[k - 1][next[q]] ELSE <<>>
  <2>1. f[k - 1] \in V /\ f[k] = F[f[k - 1]]
    BY <1>2, <1>3
  <2>2. f[k] = [q \in Pointers |-> IF q \in Nodes THEN <<q>> \o f[k - 1][next[q]] ELSE <<>>]
    BY <2>1 DEF F
  <2> QED
    BY <2>2
<1>6. ASSUME NEW k \in Steps PROVE f[k] = body(f)[k]
  <2>1. CASE k = 0
    BY <1>3, <2>1 DEF v
  <2>2. CASE k # 0
    <3>1. k \in 1 .. LastStep
      BY <1>2, <2>2
    <3> QED
      BY <1>5, <2>2, <3>1
  <2> QED
    BY <2>1, <2>2
<1>7. f = body(f)
  BY <1>2, <1>3, <1>6
<1> DEFINE g == CHOOSE w : w = body(w)
<1>8. g = body(g)
  BY ONLY <1>7
<1>9. \A k \in 0 .. LastStep : g[k] = f[k]
  <2> DEFINE P == {k \in 0 .. LastStep : g[k] = f[k]}
  <2> HIDE DEF g
  <2>1. 0 \in P
    <3>1. g[0] = [q \in Pointers |-> <<>>] /\ f[0] = [q \in Pointers |-> <<>>]
      BY <1>2, <1>8, <1>3 DEF v
    <3> QED
      BY <3>1, <1>2
  <2>2. ASSUME NEW k \in 0 .. LastStep - 1, k \in P PROVE k + 1 \in P
    <3>1. k + 1 \in 1 .. LastStep /\ k + 1 \in Steps /\ (k + 1) - 1 = k /\ k + 1 # 0
      BY <1>2
    <3>2. g[k + 1] = [q \in Pointers |-> IF q \in Nodes THEN <<q>> \o g[k][next[q]] ELSE <<>>]
      BY <1>8, <3>1
    <3>3. f[k + 1] = [q \in Pointers |-> IF q \in Nodes THEN <<q>> \o f[k][next[q]] ELSE <<>>]
      BY <1>5, <3>1
    <3>4. g[k] = f[k]
      BY <2>2
    <3>5. g[k + 1] = f[k + 1]
      BY ONLY <3>2, <3>3, <3>4
    <3> QED
      BY <3>1, <3>5
  <2>3. P \in SUBSET (0 .. LastStep)
    OBVIOUS
  <2> HIDE DEF P
  <2>4. P = 0 .. LastStep
    BY <1>2, <2>1, <2>2, <2>3, AllUpTo
  <2> QED
    BY <2>4 DEF P
<1>10. \A p \in Pointers : Chain(p, next) = g[LastStep][p]
  BY DEF Chain, LastStep
<1> HIDE DEF g
<1>11. \A p \in Pointers : Chain(p, next) = f[LastStep][p]
  BY <1>2, <1>9, <1>10
<1> QED
  BY <1>3, <1>4, <1>5, <1>11 DEF V, ChainsBy

(* Links that lead from each of the nodes e to the next, and from the last *)
(* to what is no node, are met as e.                                       *)
LEMMA ChainAlong ==
  ASSUME NEW next \in [Cells -> Pointers], NEW e \in Seq(Nodes), NEW p \in Pointers,
         Len(e) <= MaxNodes,
         IF e = <<>> THEN p \notin Nodes ELSE p = e[1],
         \A i \in 1 .. Len(e) :
           IF i = Len(e) THEN next[e[i]] \notin Nodes ELSE next[e[i]] = e[i + 1]
  PROVE  Chain(p, next) = e
<1>1. LastStep \in Nat /\ MaxNodes \in Nat /\ MaxNodes < LastStep
  BY NodesAssumption DEF LastStep
<1>a. PICK c \in [0 .. LastStep -> [Pointers -> Seq(Nodes)]] : ChainsBy(c, next)
  BY ChainSteps
<1>2. /\ \A q \in Pointers : Chain(q, next) = c[LastStep][q]
      /\ \A q \in Pointers : c[0][q] = <<>>
      /\ \A k \in 1 .. LastStep : \A q \in Pointers :
           c[k][q] = IF q \in Nodes THEN <<q>> \o c[k - 1][next[q]] ELSE <<>>
  BY <1>a DEF ChainsBy
<1>3. Nodes \subseteq Cells /\ Cells \subseteq Pointers
  BY <1>1 DEF Nodes, Cells, HEAD, TAIL, Pointers
<1> DEFINE IsRest(i, r) == Len(r) = Len(e) + 1 - i /\ \A j \in 1 .. Len(e) + 1 - i : r[j] = e[i + j - 1]
           Rests(k) == \A i \in 1 .. Len(e) : k + i > Len(e) => IsRest(i, c[k][e[i]])
           P == {k \in 0 .. LastStep : Rests(k)}
<1>4. Rests(0)
  OBVIOUS
<1>5. ASSUME NEW k \in 0 .. LastStep - 1, Rests(k) PROVE Rests(k + 1)
  <2> SUFFICES ASSUME NEW i \in 1 .. Len(e), (k + 1) + i > Len(e)
               PROVE  IsRest(i, c[k + 1][e[i]])
    OBVIOUS
  <2>1. k + 1 \in 1 .. LastStep /\ (k + 1) - 1 = k /\ k \in Nat /\ Len(e) \in Nat /\ i \in Nat
    BY <1>1
  <2>2. e[i] \in Nodes /\ e[i] \in Pointers /\ next[e[i]] \in Pointers
    BY <1>3
  <2> DEFINE r == c[k][next[e[i]]]
  <2>3. c[k + 1][e[i]] = <<e[i]>> \o r
    BY <1>2, <2>1, <2>2
  <2>4. r \in Seq(Nodes)
    BY <2>1, <2>2, <1>1
  <2>5. Len(r) = Len(e) - i /\ \A j \in 1 .. Len(e) - i : r[j] = e[i + j]
    <3>1. CASE i = Len(e)
      <4>1. next[e[i]] \notin Nodes
        BY <3>1
      <4>2. r = <<>>
        <5>1. CASE k = 0
          BY <1>2, <2>2, <5>1
        <5>2. CASE k # 0
          <6>1. k \in 1 .. LastStep
            BY <1>1, <2>1, <5>2
          <6> QED
            BY <1>2, <2>2, <4>1, <6>1
        <5> QED
          BY <5>1, <5>2
      <4>3. Len(e) - i = 0
        BY <2>1, <3>1
      <4> QED
        BY <4>2, <4>3
    <3>2. CASE i # Len(e)
      <4>1. i + 1 \in 1 .. Len(e) /\ k + (i + 1) > Len(e)
        BY <2>1, <3>2
      <4>2. next[e[i]] = e[i + 1]
        BY <3>2
      <4>3. IsRest(i + 1, r)
        BY <1>5, <4>1, <4>2
      <4>4. Len(e) + 1 - (i + 1) = Len(e) - i /\ \A j \in Int : (i + 1) + j - 1 = i + j
        BY <2>1
      <4> QED
        BY <4>3, <4>4
    <3> QED
      BY <3>1, <3>2
  <2> HIDE DEF r
  <2>6. /\ Len(<<e[i]>> \o r) = 1 + Len(r)
        /\ (<<e[i]>> \o r)[1] = e[i]
        /\ \A j \in 1 .. Len(r) : (<<e[i]>> \o r)[1 + j] = r[j]
    BY <2>2, <2>4
  <2>7. ASSUME NEW j \in 1 .. Len(e) + 1 - i PROVE (<<e[i]>> \o r)[j] = e[i + j - 1]
    <3>1. CASE j = 1
      BY <2>1, <2>6, <3>1
    <3>2. CASE j # 1
      <4>1. j - 1 \in 1 .. Len(r) /\ 1 + (j - 1) = j /\ i + (j - 1) = i + j - 1 /\ j - 1 \in 1 .. Len(e) - i
        BY <2>1, <2>5, <3>2
      <4>2. (<<e[i]>> \o r)[j] = r[j - 1]
        BY <2>6, <4>1
      <4> QED
        BY <2>5, <4>1, <4>2
    <3> QED
      BY <3>1, <3>2
  <2>8. Len(<<e[i]>> \o r) = Len(e) + 1 - i
    BY <2>1, <2>5, <2>6
  <2> QED
    BY <2>3, <2>7, <2>8
<1> HIDE DEF Rests
<1>6. P \in SUBSET (0 .. LastStep) /\ 0 \in P /\ \A k \in 0 .. LastStep - 1 : k \in P => k + 1 \in P
  BY <1>1, <1>4, <1>5
<1> HIDE DEF P
<1>7. P = 0 .. LastStep
  BY <1>1, <1>6, AllUpTo
<1>8. Rests(LastStep)
  <2>1. LastStep \in P
    BY <1>1, <1>7
  <2> QED
    BY <2>1 DEF P
<1>9. CASE e = <<>>
  <2>1. LastStep \in 1 .. LastStep
    BY <1>1
  <2>2. c[LastStep][p] = <<>>
    BY <1>2, <1>9, <2>1
  <2> QED
    BY <1>2, <1>9, <2>2
<1>10. CASE e # <<>>
  <2>1. 1 \in 1 .. Len(e) /\ LastStep + 1 > Len(e) /\ Len(e) \in Nat
    BY <1>1, <1>10
  <2>2. IsRest(1, c[LastStep][e[1]])
    BY <1>8, <2>1 DEF Rests
  <2>3. e[1] = p /\ Chain(p, next) = c[LastStep][e[1]]
    BY <1>2, <1>10
  <2> DEFINE r == c[LastStep][e[1]]
  <2>4. r \in Seq(Nodes)
    BY <1>1, <2>3
  <2>5. Len(r) = Len(e) /\ \A j \in 1 .. Len(e) : r[j] = e[j]
    BY <2>1, <2>2
  <2> HIDE DEF r
  <2>6. r = e
    BY <2>4, <2>5
  <2> QED
    BY <2>3, <2>6 DEF r
<1> QED
  BY <1>9, <1>10

-----------------------------------------------------------------------------
(* The places of an order.                                                 *)

(* Head, tail, null and the nodes are different addresses.                 *)
LEMMA Addresses ==
  /\ MaxNodes \in Nat /\ MaxNodes > 0
  /\ Nodes \subseteq Cells /\ Cells \subseteq Pointers
  /\ HEAD \in Cells /\ TAIL \in Cells /\ NULL \in Pointers
  /\ HEAD \notin Nodes /\ TAIL \notin Nodes /\ NULL \notin Nodes /\ NULL \notin Cells
  /\ HEAD # TAIL /\ NULL # HEAD /\ NULL # TAIL
  /\ \A c \in Cells : c = HEAD \/ c = TAIL \/ c \in Nodes
  /\ \A c \in Pointers : c = NULL \/ c \in Cells
BY NodesAssumption DEF Nodes, Cells, Pointers, HEAD, TAIL, NULL

(* An order has a place for head, for each node, for tail and for null,    *)
(* all different.                                                          *)
LEMMA Places ==
  ASSUME NEW q, IsOrder(q)
  PROVE  /\ Len(q) \in Nat /\ DOMAIN q = 1 .. Len(q)
         /\ Place(q, 0) = HEAD /\ Place(q, Len(q) + 1) = TAIL /\ Place(q, Len(q) + 2) = NULL
         /\ \A i \in 1 .. Len(q) : Place(q, i) = q[i] /\ q[i] \in Nodes
         /\ \A i \in 0 .. Len(q) + 1 : Place(q, i) \in Cells
         /\ \A i \in 0 .. Len(q) + 2 : Place(q, i) \in Pointers
         /\ \A i \in 0 .. Len(q) + 2 : Place(q, i) \in Nodes => i \in 1 .. Len(q)
         /\ \A i, j \in 0 .. Len(q) + 2 : Place(q, i) = Place(q, j) => i = j
<1>1. /\ q \in Seq(Nodes) /\ Len(q) \in Nat /\ DOMAIN q = 1 .. Len(q)
      /\ \A i \in 1 .. Len(q) : q[i] \in Nodes
      /\ \A i, j \in 1 .. Len(q) : q[i] = q[j] => i = j
  BY DEF IsOrder
<1>2. Place(q, 0) = HEAD
  BY DEF Place
<1>3. Place(q, Len(q) + 1) = TAIL
  BY <1>1 DEF Place
<1>4. Place(q, Len(q) + 2) = NULL
  BY <1>1 DEF Place
<1>5. \A i \in 1 .. Len(q) : Place(q, i) = q[i]
  BY <1>1 DEF Place
<1>6. \A i \in 0 .. Len(q) + 2 : i = 0 \/ i \in 1 .. Len(q) \/ i = Len(q) + 1 \/ i = Len(q) + 2
  BY <1>1
<1>7. ASSUME NEW i \in 0 .. Len(q) + 2
      PROVE  /\ Place(q, i) \in Pointers
             /\ i \in 0 .. Len(q) + 1 => Place(q, i) \in Cells
             /\ Place(q, i) \in Nodes => i \in 1 .. Len(q)
  BY <1>1, <1>2, <1>3, <1>4, <1>5, <1>6, Addresses
<1>8. \A i \in 0 .. Len(q) + 1 : i \in 0 .. Len(q) + 2
  BY <1>1
<1>9. ASSUME NEW i \in 0 .. Len(q) + 2, NEW j \in 0 .. Len(q) + 2, Place(q, i) = Place(q, j)
      PROVE  i = j
  <2>1. CASE i = 0
    BY <1>1, <1>2, <1>3, <1>4, <1>5, <1>6, <1>9, <2>1, Addresses
  <2>2. CASE i \in 1 .. Len(q)
    BY <1>1, <1>2, <1>3, <1>4, <1>5, <1>6, <1>9, <2>2, Addresses
  <2>3. CASE i = Len(q) + 1
    BY <1>1, <1>2, <1>3, <1>4, <1>5, <1>6, <1>9, <2>3, Addresses
  <2>4. CASE i = Len(q) + 2
    BY <1>1, <1>2, <1>3, <1>4, <1>5, <1>6, <1>9, <2>4, Addresses
  <2> QED
    BY <1>6, <2>1, <2>2, <2>3, <2>4
<1> QED
  BY <1>1, <1>2, <1>3, <1>4, <1>5, <1>7, <1>8, <1>9

(* Orders have no more nodes than there are.                               *)
LEMMA OrderSize ==
  ASSUME NEW q, IsOrder(q), NEW S \in SUBSET Nodes, {q[i] : i \in 1 .. Len(q)} = S
  PROVE  IsFiniteSet(S) /\ Cardinality(S) = Len(q) /\ Len(q) <= MaxNodes
<1>1. /\ q \in Seq(Nodes) /\ Len(q) \in Nat
      /\ \A i, j \in 1 .. Len(q) : q[i] = q[j] => i = j
  BY DEF IsOrder
<1>2. q \in Bijection(1 .. Len(q), S)
  <2>1. q \in [1 .. Len(q) -> S]
    BY <1>1
  <2>2. \A s \in S : \E i \in 1 .. Len(q) : q[i] = s
    OBVIOUS
  <2> QED
    BY <1>1, <2>1, <2>2 DEF Bijection, Injection, Surjection, IsInjective
<1>3. ExistsBijection(1 .. Len(q), S)
  BY <1>2 DEF ExistsBijection
<1>4. IsFiniteSet(S) /\ Cardinality(S) = Len(q)
  BY <1>1, <1>3, FS_CountingElements, FS_NatBijection
<1>5. IsFiniteSet(Nodes) /\ Cardinality(Nodes) = MaxNodes
  <2>1. 1 \in Int /\ MaxNodes \in Int /\ 1 <= MaxNodes
    BY Addresses
  <2> QED
    BY <2>1, FS_Interval DEF Nodes
<1>6. Cardinality(S) <= Cardinality(Nodes)
  BY <1>5, FS_Subset
<1> QED
  BY <1>4, <1>5, <1>6

(* A walk that leads from place to place, and only forward, ends at one of *)
(* the places it may come to, where it is to stop.                         *)
LEMMA WalkAlong ==
  ASSUME NEW q, IsOrder(q), Len(q) <= MaxNodes,
         NEW on \in SUBSET Cells, NEW next \in [Cells -> Pointers],
         NEW J \in SUBSET (0 .. Len(q) + 2), NEW i \in J,
         \A j \in J : Place(q, j) \in on =>
                        \E k \in J : k > j /\ next[Place(q, j)] = Place(q, k)
  PROVE  \E k \in J : Walked(Place(q, i), on, next) = Place(q, k) /\ Place(q, k) \notin on
<1> DEFINE I == {Place(q, j) : j \in J}
           rank == [c \in I |-> CHOOSE j \in J : Place(q, j) = c]
<1>1. I \in SUBSET Pointers /\ Place(q, i) \in I
  BY Places
<1>2. \A j \in J : Place(q, j) \in I /\ rank[Place(q, j)] = j
  <2> SUFFICES ASSUME NEW j \in J PROVE rank[Place(q, j)] = j
    OBVIOUS
  <2>1. \A k \in J : Place(q, k) = Place(q, j) => k = j
    BY Places
  <2> QED
    BY <2>1
<1>3. \A c \in I : \E j \in J : c = Place(q, j)
  OBVIOUS
<1>4. rank \in [I -> Nat]
  BY <1>2, Places
<1> HIDE DEF I, rank
<1>5. ASSUME NEW c \in I, c \in on
      PROVE  next[c] \in I /\ rank[next[c]] > rank[c] /\ rank[c] < LastStep
  <2>1. PICK j \in J : c = Place(q, j)
    BY <1>3
  <2>2. PICK k \in J : k > j /\ next[c] = Place(q, k)
    BY <1>5, <2>1
  <2>3. j # Len(q) + 2
    BY <1>5, <2>1, Places, Addresses
  <2>4. j < LastStep
    BY <2>3, Places, Addresses DEF LastStep
  <2> QED
    BY <1>2, <2>1, <2>2, <2>4
<1>6. Walked(Place(q, i), on, next) \in I /\ Walked(Place(q, i), on, next) \notin on
  BY <1>1, <1>4, <1>5, WalkEnds
<1> QED
  BY <1>3, <1>6

(* The places after a node has been inserted.                              *)
LEMMA InsertedPlaces ==
  ASSUME NEW q, IsOrder(q), NEW J \in 1 .. Len(q) + 1, NEW n \in Nodes,
         \A i \in 1 .. Len(q) : q[i] # n
  PROVE  /\ IsOrder(InsertAt(q, J, n)) /\ Len(InsertAt(q, J, n)) = Len(q) + 1
         /\ \A i \in 0 .. Len(q) + 3 :
              Place(InsertAt(q, J, n), i) =
                IF i < J THEN Place(q, i) ELSE IF i = J THEN n ELSE Place(q, i - 1)
<1> DEFINE p == InsertAt(q, J, n)
<1>1. /\ q \in Seq(Nodes) /\ Len(q) \in Nat /\ J \in Nat
      /\ \A i \in 1 .. Len(q) : q[i] \in Nodes
      /\ \A i, j \in 1 .. Len(q) : q[i] = q[j] => i = j
  BY DEF IsOrder
<1>2. /\ p \in Seq(Nodes) /\ Len(p) = Len(q) + 1
      /\ \A i \in 1 .. Len(q) + 1 : p[i] = IF i < J THEN q[i] ELSE IF i = J THEN n ELSE q[i - 1]
  <2>1. p \in Seq(Nodes) /\ Len(p) = Len(q) + 1
    BY <1>1, Inserted
  <2>2. ASSUME NEW i \in 1 .. Len(q) + 1
        PROVE  p[i] = IF i < J THEN q[i] ELSE IF i = J THEN n ELSE q[i - 1]
    BY <1>1, Inserted
  <2> QED
    BY <2>1, <2>2
<1> HIDE DEF p
<1>3. ASSUME NEW i \in 1 .. Len(p), NEW j \in 1 .. Len(p), p[i] = p[j] PROVE i = j
  <2>1. i \in 1 .. Len(q) + 1 /\ j \in 1 .. Len(q) + 1 /\ i \in Int /\ j \in Int
    BY <1>1, <1>2
  <2>2. \A k \in 1 .. Len(q) + 1 : (k < J => k \in 1 .. Len(q)) /\ (k > J => k - 1 \in 1 .. Len(q))
    BY <1>1
  <2>3. CASE i < J
    <3>1. p[i] = q[i] /\ i \in 1 .. Len(q)
      BY <1>2, <2>1, <2>2, <2>3
    <3>2. CASE j < J
      BY <1>1, <1>2, <1>3, <2>1, <2>2, <3>1, <3>2
    <3>3. CASE j = J
      <4>1. p[j] = n
        BY <1>1, <1>2, <2>1, <3>3
      <4> QED
        BY <1>3, <3>1, <4>1
    <3>4. CASE j > J
      <4>1. p[j] = q[j - 1] /\ j - 1 \in 1 .. Len(q) /\ j - 1 # i
        BY <1>1, <1>2, <2>1, <2>2, <2>3, <3>4
      <4> QED
        BY <1>1, <1>3, <3>1, <4>1
    <3> QED
      BY <1>1, <2>1, <3>2, <3>3, <3>4
  <2>4. CASE i = J
    BY <1>1, <1>2, <1>3, <2>1, <2>2, <2>4
  <2>5. CASE i > J
    BY <1>1, <1>2, <1>3, <2>1, <2>2, <2>5, SMTT(30)
  <2> QED
    BY <1>1, <2>1, <2>3, <2>4, <2>5
<1>4. IsOrder(p)
  BY <1>2, <1>3 DEF IsOrder
<1>5. ASSUME NEW i \in 0 .. Len(q) + 3
      PROVE  Place(p, i) = IF i < J THEN Place(q, i) ELSE IF i = J THEN n ELSE Place(q, i - 1)
  <2>1. CASE i = 0
    BY <1>1, <1>4, <2>1, Places
  <2>2. CASE i \in 1 .. Len(q) + 1
    <3>1. Place(p, i) = p[i]
      BY <1>2, <1>4, <2>2, Places
    <3>2. CASE i < J
      <4>1. i \in 1 .. Len(q) /\ p[i] = q[i]
        BY <1>1, <1>2, <2>2, <3>2
      <4> QED
        BY <3>1, <3>2, <4>1, Places
    <3>3. CASE i = J
      BY <1>1, <1>2, <2>2, <3>1, <3>3
    <3>4. CASE i > J
      <4>1. i - 1 \in 1 .. Len(q) /\ p[i] = q[i - 1] /\ ~ (i < J) /\ i # J
        BY <1>1, <1>2, <2>2, <3>4
      <4> QED
        BY <3>1, <4>1, Places
    <3> QED
      BY <1>1, <2>2, <3>2, <3>3, <3>4
  <2>3. CASE i = Len(q) + 2
    <3>1. i = Len(p) + 1 /\ i - 1 = Len(q) + 1 /\ i > J
      BY <1>1, <1>2, <2>3
    <3>2. Place(p, i) = TAIL /\ Place(q, i - 1) = TAIL
      BY <1>4, <3>1, Places
    <3> QED
      BY <1>1, <3>1, <3>2
  <2>4. CASE i = Len(q) + 3
    <3>1. i = Len(p) + 2 /\ i - 1 = Len(q) + 2 /\ i > J
      BY <1>1, <1>2, <2>4
    <3>2. Place(p, i) = NULL /\ Place(q, i - 1) = NULL
      BY <1>4, <3>1, Places
    <3> QED
      BY <1>1, <3>1, <3>2
  <2> QED
    BY <1>1, <2>1, <2>2, <2>3, <2>4
<1> QED
  BY <1>2, <1>4, <1>5 DEF p

(* The places after a node has been removed.                               *)
LEMMA RemovedPlaces ==
  ASSUME NEW q, IsOrder(q), NEW J \in 1 .. Len(q)
  PROVE  /\ IsOrder(RemoveAt(q, J)) /\ Len(RemoveAt(q, J)) = Len(q) - 1
         /\ \A i \in 1 .. Len(q) - 1 : RemoveAt(q, J)[i] # q[J]
         /\ \A i \in 0 .. Len(q) + 1 :
              Place(RemoveAt(q, J), i) = IF i < J THEN Place(q, i) ELSE Place(q, i + 1)
<1> DEFINE p == RemoveAt(q, J)
<1>1. /\ q \in Seq(Nodes) /\ Len(q) \in Nat /\ J \in Nat
      /\ \A i \in 1 .. Len(q) : q[i] \in Nodes
      /\ \A i, j \in 1 .. Len(q) : q[i] = q[j] => i = j
  BY DEF IsOrder
<1>2. /\ p \in Seq(Nodes) /\ Len(p) = Len(q) - 1
      /\ \A i \in 1 .. Len(q) - 1 : p[i] = IF i < J THEN q[i] ELSE q[i + 1]
  BY <1>1, Removed
<1> HIDE DEF p
<1>3. ASSUME NEW i \in 1 .. Len(q) - 1
      PROVE  \E k \in 1 .. Len(q) : k = (IF i < J THEN i ELSE i + 1) /\ k # J /\ p[i] = q[k]
  <2>1. CASE i < J
    BY <1>1, <1>2, <2>1
  <2>2. CASE ~ (i < J)
    <3>1. i + 1 \in 1 .. Len(q) /\ i + 1 # J /\ p[i] = q[i + 1]
      BY <1>1, <1>2, <2>2
    <3> QED
      BY <2>2, <3>1
  <2> QED
    BY <2>1, <2>2
<1>4. ASSUME NEW i \in 1 .. Len(p), NEW j \in 1 .. Len(p), p[i] = p[j] PROVE i = j
  <2>1. i \in 1 .. Len(q) - 1 /\ j \in 1 .. Len(q) - 1 /\ i \in Int /\ j \in Int
    BY <1>1, <1>2
  <2>2. PICK k \in 1 .. Len(q) : k = (IF i < J THEN i ELSE i + 1) /\ p[i] = q[k]
    BY <1>3, <2>1
  <2>3. PICK m \in 1 .. Len(q) : m = (IF j < J THEN j ELSE j + 1) /\ p[j] = q[m]
    BY <1>3, <2>1
  <2>4. k = m
    BY <1>1, <1>4, <2>2, <2>3
  <2> QED
    BY <1>1, <2>1, <2>2, <2>3, <2>4
<1>5. IsOrder(p)
  BY <1>2, <1>4 DEF IsOrder
<1>6. ASSUME NEW i \in 0 .. Len(q) + 1
      PROVE  Place(p, i) = IF i < J THEN Place(q, i) ELSE Place(q, i + 1)
  <2>1. CASE i = 0
    BY <1>1, <1>5, <2>1, Places
  <2>2. CASE i \in 1 .. Len(q) - 1
    <3>1. Place(p, i) = p[i]
      BY <1>2, <1>5, <2>2, Places
    <3>2. PICK k \in 1 .. Len(q) : k = (IF i < J THEN i ELSE i + 1) /\ p[i] = q[k]
      BY <1>3, <2>2
    <3>3. Place(q, k) = q[k]
      BY Places
    <3> QED
      BY <3>1, <3>2, <3>3
  <2>3. CASE i = Len(q)
    <3>1. i = Len(p) + 1 /\ ~ (i < J)
      BY <1>1, <1>2, <2>3
    <3>2. Place(p, i) = TAIL /\ Place(q, i + 1) = TAIL
      BY <1>5, <2>3, <3>1, Places
    <3> QED
      BY <3>1, <3>2
  <2>4. CASE i = Len(q) + 1
    <3>1. i = Len(p) + 2 /\ i + 1 = Len(q) + 2 /\ ~ (i < J)
      BY <1>1, <1>2, <2>4
    <3>2. Place(p, i) = NULL /\ Place(q, i + 1) = NULL
      BY <1>5, <3>1, Places
    <3> QED
      BY <3>1, <3>2
  <2> QED
    BY <1>1, <2>1, <2>2, <2>3, <2>4
<1>7. \A i \in 1 .. Len(q) - 1 : p[i] # q[J]
  BY <1>1, <1>3
<1> QED
  BY <1>2, <1>5, <1>6, <1>7 DEF p

-----------------------------------------------------------------------------
(* The doubly linked list.                                                 *)

(* The list of list.c.                                                     *)
LEMMA ListFields ==
  ASSUME NEW l, NEW q, DoublyLinked(l, q)
  PROVE  /\ l.node \in [Cells -> ListNode] /\ l.size \in Nat /\ l.size = Len(q)
         /\ l = [node |-> l.node, size |-> l.size]
         /\ \A c \in Cells :
              /\ l.node[c] \in ListNode
              /\ l.node[c].next \in Pointers /\ l.node[c].prev \in Pointers
              /\ l.node[c].priority \in Int /\ l.node[c].data \in Timers \cup {NULL}
BY DEF DoublyLinked, ListNode

(* The list reads as its order from head, and as its reverse from tail.    *)
LEMMA InOrderIs ==
  ASSUME NEW l, NEW q, IsOrder(q), Len(q) <= MaxNodes, DoublyLinked(l, q)
  PROVE  /\ InOrder(l) = q /\ Backwards(l) = Reverse(q)
         /\ list_cbegin(l) = Place(q, 1) /\ (list_empty(l) <=> Len(q) = 0)
<1>1. /\ Len(q) \in Nat /\ q \in Seq(Nodes)
      /\ \A i \in 0 .. Len(q) : /\ l.node[Place(q, i)].next = Place(q, i + 1)
                                /\ l.node[Place(q, i + 1)].prev = Place(q, i)
  BY DEF DoublyLinked, IsOrder
<1>2. list_cbegin(l) = Place(q, 1)
  BY <1>1, Places DEF list_cbegin
<1>3. l.node[TAIL].prev = Place(q, Len(q))
  BY <1>1, Places
<1>4. Nexts(l) \in [Cells -> Pointers] /\ Prevs(l) \in [Cells -> Pointers]
  BY ListFields DEF Nexts, Prevs
<1>5. ASSUME NEW i \in 1 .. Len(q)
      PROVE  Nexts(l)[q[i]] = Place(q, i + 1) /\ Prevs(l)[q[i]] = Place(q, i - 1)
  <2>1. i \in 0 .. Len(q) /\ i - 1 \in 0 .. Len(q) /\ (i - 1) + 1 = i
    BY <1>1
  <2>2. Place(q, i) = q[i] /\ q[i] \in Cells
    BY Places, Addresses
  <2> QED
    BY <1>1, <2>1, <2>2 DEF Nexts, Prevs
<1>6. InOrder(l) = q
  <2>1. IF q = <<>> THEN Place(q, 1) \notin Nodes ELSE Place(q, 1) = q[1]
    <3>1. CASE q = <<>>
      BY <3>1, <1>1, Places, Addresses
    <3>2. CASE q # <<>>
      <4>1. 1 \in 1 .. Len(q)
        BY <1>1, <3>2
      <4> QED
        BY <3>2, <4>1, Places
    <3> QED
      BY <3>1, <3>2
  <2>2. ASSUME NEW i \in 1 .. Len(q)
        PROVE  IF i = Len(q) THEN Nexts(l)[q[i]] \notin Nodes ELSE Nexts(l)[q[i]] = q[i + 1]
    <3>1. CASE i = Len(q)
      BY <1>5, <3>1, Places, Addresses
    <3>2. CASE i # Len(q)
      <4>1. i + 1 \in 1 .. Len(q)
        BY <1>1, <3>2
      <4> QED
        BY <1>5, <3>2, <4>1, Places
    <3> QED
      BY <3>1, <3>2
  <2>3. Place(q, 1) \in Pointers
    BY <1>1, Places, Addresses
  <2>4. Chain(Place(q, 1), Nexts(l)) = q
    BY <1>1, <1>4, <2>1, <2>2, <2>3, ChainAlong
  <2> QED
    BY <1>2, <2>4 DEF InOrder
<1>7. Backwards(l) = Reverse(q)
  <2> DEFINE r == [i \in 1 .. Len(q) |-> q[Len(q) - i + 1]]
  <2>1. r \in Seq(Nodes) /\ Len(r) = Len(q) /\ \A i \in 1 .. Len(q) : r[i] = q[Len(q) - i + 1]
    <3>1. \A i \in 1 .. Len(q) : q[Len(q) - i + 1] \in Nodes
      BY <1>1
    <3> QED
      BY <1>1, <3>1
  <2>2. Reverse(q) = r
    BY DEF Reverse
  <2> HIDE DEF r
  <2>3. IF r = <<>> THEN Place(q, Len(q)) \notin Nodes ELSE Place(q, Len(q)) = r[1]
    <3>1. CASE r = <<>>
      BY <2>1, <3>1, <1>1, Places, Addresses
    <3>2. CASE r # <<>>
      <4>1. 1 \in 1 .. Len(q) /\ Len(q) \in 1 .. Len(q) /\ Len(q) - 1 + 1 = Len(q)
        BY <1>1, <2>1, <3>2
      <4> QED
        BY <2>1, <3>2, <4>1, Places
    <3> QED
      BY <3>1, <3>2
  <2>4. ASSUME NEW i \in 1 .. Len(r)
        PROVE  IF i = Len(r) THEN Prevs(l)[r[i]] \notin Nodes ELSE Prevs(l)[r[i]] = r[i + 1]
    <3>1. i \in 1 .. Len(q) /\ Len(q) - i + 1 \in 1 .. Len(q)
      BY <1>1, <2>1
    <3>2. Prevs(l)[r[i]] = Place(q, (Len(q) - i + 1) - 1)
      BY <1>5, <2>1, <3>1
    <3>3. CASE i = Len(r)
      <4>1. (Len(q) - i + 1) - 1 = 0
        BY <1>1, <2>1, <3>3
      <4> QED
        BY <3>2, <3>3, <4>1, Places, Addresses
    <3>4. CASE i # Len(r)
      <4>1. i + 1 \in 1 .. Len(q) /\ (Len(q) - i + 1) - 1 \in 1 .. Len(q)
             /\ (Len(q) - i + 1) - 1 = Len(q) - (i + 1) + 1
        BY <1>1, <2>1, <3>4
      <4>2. r[i + 1] = q[(Len(q) - i + 1) - 1]
        BY <2>1, <4>1
      <4> QED
        BY <3>2, <3>4, <4>1, <4>2, Places
    <3> QED
      BY <3>3, <3>4
  <2>5. Place(q, Len(q)) \in Pointers
    BY <1>1, Places
  <2>6. Chain(Place(q, Len(q)), Prevs(l)) = r
    BY <1>4, <2>1, <2>3, <2>4, <2>5, ChainAlong
  <2> QED
    BY <1>3, <2>2, <2>6 DEF Backwards
<1>8. list_empty(l) <=> Len(q) = 0
  <2>1. Place(q, 1) = TAIL <=> Len(q) + 1 = 1
    <3>1. 1 \in 0 .. Len(q) + 2 /\ Len(q) + 1 \in 0 .. Len(q) + 2
      BY <1>1
    <3> QED
      BY <3>1, Places
  <2> QED
    BY <1>1, <1>2, <2>1 DEF list_empty
<1> QED
  BY <1>2, <1>6, <1>7, <1>8

Lists == [node : [Cells -> ListNode], size : Nat]

(* The shape is in the links only.                                         *)
LEMMA SameLinks ==
  ASSUME NEW l, NEW m \in Lists, NEW q, IsOrder(q), DoublyLinked(l, q),
         m.size = l.size,
         \A c \in Cells : c = HEAD \/ c = TAIL \/ (\E i \in 1 .. Len(q) : c = q[i]) =>
           m.node[c].next = l.node[c].next /\ m.node[c].prev = l.node[c].prev
  PROVE  DoublyLinked(m, q)
<1>1. \A i \in 0 .. Len(q) + 1 :
        /\ m.node[Place(q, i)].next = l.node[Place(q, i)].next
        /\ m.node[Place(q, i)].prev = l.node[Place(q, i)].prev
  <2> SUFFICES ASSUME NEW i \in 0 .. Len(q) + 1
               PROVE  /\ m.node[Place(q, i)].next = l.node[Place(q, i)].next
                      /\ m.node[Place(q, i)].prev = l.node[Place(q, i)].prev
    OBVIOUS
  <2>1. i = 0 \/ i = Len(q) + 1 \/ i \in 1 .. Len(q)
    BY Places
  <2>2. Place(q, i) \in Cells
    BY Places
  <2>3. Place(q, i) = HEAD \/ Place(q, i) = TAIL \/ \E k \in 1 .. Len(q) : Place(q, i) = q[k]
    BY <2>1, Places
  <2> QED
    BY <2>2, <2>3
<1>2. \A i \in 0 .. Len(q) : i \in 0 .. Len(q) + 1 /\ i + 1 \in 0 .. Len(q) + 1
  BY Places
<1> QED
  BY <1>1, <1>2 DEF DoublyLinked, Lists

(* The walk of list_sort_insert ends at the first node with a higher       *)
(* priority.                                                               *)
LEMMA FirstAboveIs ==
  ASSUME NEW l, NEW q, IsOrder(q), Len(q) <= MaxNodes, DoublyLinked(l, q),
         NEW priority \in Int
  PROVE  \E J \in 1 .. Len(q) + 1 :
           /\ FirstAbove(l, priority) = Place(q, J)
           /\ \A i \in 1 .. J - 1 : l.node[q[i]].priority <= priority
           /\ J <= Len(q) => l.node[q[J]].priority > priority
<1> DEFINE on == {c \in Cells \ {TAIL} : l.node[c].priority <= priority}
           J == {j \in 1 .. Len(q) + 1 : \A i \in 1 .. j - 1 : l.node[q[i]].priority <= priority}
<1>1. Len(q) \in Nat
  BY Places
<1>2. on \in SUBSET Cells /\ Nexts(l) \in [Cells -> Pointers]
  BY ListFields DEF Nexts
<1>3. J \in SUBSET (0 .. Len(q) + 2) /\ 1 \in J
  BY <1>1
<1>4. ASSUME NEW j \in J, Place(q, j) \in on
      PROVE  \E k \in J : k > j /\ Nexts(l)[Place(q, j)] = Place(q, k)
  <2>1. j \in 1 .. Len(q)
    BY <1>1, <1>4, Places
  <2>2. Place(q, j) = q[j] /\ q[j] \in Cells
    BY <2>1, Places, Addresses
  <2>3. l.node[q[j]].priority <= priority
    BY <1>4, <2>2
  <2>4. \A i \in 1 .. (j + 1) - 1 : i = j \/ i \in 1 .. j - 1
    BY <1>1, <2>1
  <2>5. j + 1 \in J
    BY <1>1, <2>1, <2>3, <2>4
  <2>6. l.node[q[j]].next = Place(q, j + 1)
    BY <1>1, <2>1, <2>2 DEF DoublyLinked
  <2> QED
    BY <1>1, <2>1, <2>2, <2>5, <2>6 DEF Nexts
<1> HIDE DEF on, J
<1>5. PICK k \in J : Walked(Place(q, 1), on, Nexts(l)) = Place(q, k) /\ Place(q, k) \notin on
  BY <1>2, <1>3, <1>4, WalkAlong
<1>6. FirstAbove(l, priority) = Place(q, k)
  BY <1>5, InOrderIs DEF FirstAbove, on
<1>7. ASSUME k <= Len(q) PROVE l.node[q[k]].priority > priority
  <2>1. k \in 1 .. Len(q)
    BY <1>1, <1>7 DEF J
  <2>2. Place(q, k) = q[k] /\ q[k] \in Cells /\ q[k] # TAIL
    BY <2>1, Places, Addresses
  <2>3. l.node[q[k]].priority \in Int
    BY <2>2, ListFields
  <2> QED
    BY <1>5, <2>2, <2>3 DEF on
<1> QED
  BY <1>6, <1>7 DEF J

(* What one assignment to a link writes.                                   *)
LEMMA NextSet ==
  ASSUME NEW d \in [Cells -> ListNode], NEW c \in Cells, NEW v \in Pointers
  PROVE  /\ [d EXCEPT ![c].next = v] \in [Cells -> ListNode]
         /\ \A e \in Cells :
              [d EXCEPT ![c].next = v][e] =
                [priority |-> d[e].priority, data |-> d[e].data, prev |-> d[e].prev,
                 next |-> IF e = c THEN v ELSE d[e].next]
BY DEF ListNode

(* An assignment to prev of one node changes nothing else.                 *)
LEMMA PrevSet ==
  ASSUME NEW d \in [Cells -> ListNode], NEW c \in Cells, NEW v \in Pointers
  PROVE  /\ [d EXCEPT ![c].prev = v] \in [Cells -> ListNode]
         /\ \A e \in Cells :
              [d EXCEPT ![c].prev = v][e] =
                [priority |-> d[e].priority, data |-> d[e].data,
                 prev |-> IF e = c THEN v ELSE d[e].prev, next |-> d[e].next]
BY DEF ListNode

(* What list_sort_insert writes.                                           *)
LEMMA LinkedFields ==
  ASSUME NEW l \in Lists, NEW n \in Cells, NEW p \in Cells, NEW b \in Cells,
         l.node[p].prev = b, n # p, n # b, p # b
  PROVE  /\ Linked(l, n, p) \in Lists
         /\ Linked(l, n, p).size = l.size + 1
         /\ \A c \in Cells :
              /\ Linked(l, n, p).node[c].next =
                   IF c = n THEN p ELSE IF c = b THEN n ELSE l.node[c].next
              /\ Linked(l, n, p).node[c].prev =
                   IF c = n THEN b ELSE IF c = p THEN n ELSE l.node[c].prev
              /\ Linked(l, n, p).node[c].priority = l.node[c].priority
              /\ Linked(l, n, p).node[c].data = l.node[c].data
<1> DEFINE m == [c \in Cells |->
                   [priority |-> l.node[c].priority, data |-> l.node[c].data,
                    prev |-> IF c = n THEN b ELSE IF c = p THEN n ELSE l.node[c].prev,
                    next |-> IF c = n THEN p ELSE IF c = b THEN n ELSE l.node[c].next]]
<1>1. l.node \in [Cells -> ListNode] /\ l.size \in Nat /\ l = [node |-> l.node, size |-> l.size]
  BY DEF Lists
<1>2. \A c \in Cells : /\ l.node[c] \in ListNode
                       /\ l.node[c] = [priority |-> l.node[c].priority, data |-> l.node[c].data,
                                       prev |-> l.node[c].prev, next |-> l.node[c].next]
  BY <1>1 DEF ListNode
<1>3. m \in [Cells -> ListNode]
  BY <1>2, Addresses DEF ListNode
<1>4. Linked(l, n, p) = [node |-> m, size |-> l.size + 1]
  <2> DEFINE d == [[[[l.node EXCEPT ![n].next = p] EXCEPT ![n].prev = b] EXCEPT ![b].next = n]
                     EXCEPT ![p].prev = n]
  <2>1. Linked(l, n, p) = [node |-> d, size |-> l.size + 1]
    BY <1>1 DEF Linked
  <2>2. d \in [Cells -> ListNode]
    <3> DEFINE d1 == [l.node EXCEPT ![n].next = p]
               d2 == [d1 EXCEPT ![n].prev = b]
               d3 == [d2 EXCEPT ![b].next = n]
    <3>1. n \in Pointers /\ p \in Pointers /\ b \in Pointers
      BY Addresses
    <3>2. d1 \in [Cells -> ListNode]
      BY <1>1, <3>1, NextSet
    <3> HIDE DEF d1
    <3>3. d2 \in [Cells -> ListNode]
      BY <3>1, <3>2, PrevSet
    <3> HIDE DEF d2
    <3>4. d3 \in [Cells -> ListNode]
      BY <3>1, <3>3, NextSet
    <3> HIDE DEF d3
    <3>5. [d3 EXCEPT ![p].prev = n] \in [Cells -> ListNode]
      BY <3>1, <3>4, PrevSet
    <3> QED
      BY <3>5 DEF d1, d2, d3
  <2>3. ASSUME NEW c \in Cells PROVE d[c] = m[c]
    BY <1>1, <1>2, <2>3, SMTT(30) DEF ListNode
  <2> HIDE DEF d, m
  <2>4. d = m
    BY <1>3, <2>2, <2>3
  <2> QED
    BY <2>1, <2>4
<1>5. Linked(l, n, p).node = m /\ Linked(l, n, p).size = l.size + 1
  BY <1>4
<1>6. [node |-> m, size |-> l.size + 1] \in Lists
  BY <1>1, <1>3 DEF Lists
<1> QED
  BY <1>4, <1>5, <1>6

(* A node put in before any place leaves the list linked.                  *)
LEMMA LinkedShape ==
  ASSUME NEW l, NEW q, IsOrder(q), DoublyLinked(l, q),
         NEW J \in 1 .. Len(q) + 1, NEW n \in Nodes, \A i \in 1 .. Len(q) : q[i] # n
  PROVE  /\ DoublyLinked(Linked(l, n, Place(q, J)), InsertAt(q, J, n))
         /\ \A c \in Cells :
              /\ Linked(l, n, Place(q, J)).node[c].priority = l.node[c].priority
              /\ Linked(l, n, Place(q, J)).node[c].data = l.node[c].data
<1> DEFINE p == Place(q, J)
           b == Place(q, J - 1)
           m == Linked(l, n, Place(q, J))
           r == InsertAt(q, J, n)
<1>1. Len(q) \in Nat /\ J \in Nat /\ J - 1 \in 0 .. Len(q) /\ J \in 0 .. Len(q) + 1 /\ (J - 1) + 1 = J
  BY Places
<1>2. l.node[p].prev = b
  BY <1>1 DEF DoublyLinked
<1>3. p \in Cells /\ b \in Cells /\ n \in Cells /\ p # b /\ n # p /\ n # b
  <2>1. p \in Cells /\ b \in Cells /\ n \in Cells
    BY <1>1, Places, Addresses
  <2>2. p # b
    <3>1. J \in 0 .. Len(q) + 2 /\ J - 1 \in 0 .. Len(q) + 2 /\ J # J - 1
      BY <1>1
    <3> QED
      BY <3>1, Places
  <2>3. \A i \in 0 .. Len(q) + 1 : Place(q, i) # n
    BY <1>1, Places
  <2> QED
    BY <1>1, <2>1, <2>2, <2>3
<1>4. l \in Lists /\ l.size = Len(q)
  BY DEF DoublyLinked, Lists
<1>5. /\ m \in Lists
      /\ m.size = l.size + 1
      /\ \A c \in Cells :
           /\ m.node[c].next = IF c = n THEN p ELSE IF c = b THEN n ELSE l.node[c].next
           /\ m.node[c].prev = IF c = n THEN b ELSE IF c = p THEN n ELSE l.node[c].prev
           /\ m.node[c].priority = l.node[c].priority
           /\ m.node[c].data = l.node[c].data
  BY <1>2, <1>3, <1>4, LinkedFields
<1>6. /\ Len(r) = Len(q) + 1
      /\ \A i \in 0 .. Len(q) + 3 :
           Place(r, i) = IF i < J THEN Place(q, i) ELSE IF i = J THEN n ELSE Place(q, i - 1)
  BY InsertedPlaces
<1>7. \A i, j \in 0 .. Len(q) + 1 : Place(q, i) \in Cells /\ (Place(q, i) = Place(q, j) => i = j)
                                     /\ Place(q, i) # n
  BY <1>1, Places
<1> HIDE DEF m, r, p, b
<1>8. ASSUME NEW i \in 0 .. Len(q) + 1
      PROVE  m.node[Place(r, i)].next = Place(r, i + 1) /\ m.node[Place(r, i + 1)].prev = Place(r, i)
  <2>1. i \in 0 .. Len(q) + 3 /\ i + 1 \in 0 .. Len(q) + 3 /\ (i + 1) - 1 = i
    BY <1>1
  <2>2. CASE i + 1 < J
    <3>1. Place(r, i) = Place(q, i) /\ Place(r, i + 1) = Place(q, i + 1)
      BY <1>1, <1>6, <2>1, <2>2
    <3>2. i \in 0 .. Len(q) + 1 /\ i + 1 \in 0 .. Len(q) + 1 /\ i \in 0 .. Len(q) /\ i # J - 1 /\ i + 1 # J
      BY <1>1, <2>2
    <3>3. Place(q, i) # b /\ Place(q, i + 1) # p
      BY <1>1, <1>7, <3>2 DEF b, p
    <3>4. l.node[Place(q, i)].next = Place(q, i + 1) /\ l.node[Place(q, i + 1)].prev = Place(q, i)
      BY <3>2 DEF DoublyLinked
    <3> QED
      BY <1>5, <1>7, <3>1, <3>2, <3>3, <3>4
  <2>3. CASE i + 1 = J
    <3>1. Place(r, i) = b /\ Place(r, i + 1) = n
      BY <1>1, <1>6, <2>1, <2>3 DEF b
    <3> QED
      BY <1>3, <1>5, <3>1
  <2>4. CASE i = J
    <3>1. Place(r, i) = n /\ Place(r, i + 1) = p
      BY <1>1, <1>6, <2>1, <2>4 DEF p
    <3> QED
      BY <1>3, <1>5, <3>1
  <2>5. CASE i > J
    <3>1. Place(r, i) = Place(q, i - 1) /\ Place(r, i + 1) = Place(q, i)
      BY <1>1, <1>6, <2>1, <2>5
    <3>2. i \in 0 .. Len(q) + 1 /\ i - 1 \in 0 .. Len(q) + 1 /\ i - 1 \in 0 .. Len(q) /\ i - 1 # J - 1 /\ i # J
          /\ (i - 1) + 1 = i
      BY <1>1, <2>5
    <3>3. Place(q, i - 1) # b /\ Place(q, i) # p
      BY <1>1, <1>7, <3>2 DEF b, p
    <3>4. l.node[Place(q, i - 1)].next = Place(q, i) /\ l.node[Place(q, i)].prev = Place(q, i - 1)
      BY <3>2 DEF DoublyLinked
    <3> QED
      BY <1>5, <1>7, <3>1, <3>2, <3>3, <3>4
  <2> QED
    BY <1>1, <2>2, <2>3, <2>4, <2>5
<1>9. DoublyLinked(m, r)
  BY <1>4, <1>5, <1>6, <1>8 DEF DoublyLinked, Lists
<1> QED
  BY <1>5, <1>9 DEF m, r

(* What list_delete writes.                                                *)
LEMMA DeletedFields ==
  ASSUME NEW l \in Lists, NEW n \in Cells, NEW b \in Cells, NEW p \in Cells,
         l.node[n].prev = b, l.node[n].next = p, n # p, n # b, b # p, l.size > 0
  PROVE  /\ list_delete(l, n) \in Lists
         /\ list_delete(l, n).size = l.size - 1
         /\ \A c \in Cells :
              /\ list_delete(l, n).node[c].next = IF c = b THEN p ELSE l.node[c].next
              /\ list_delete(l, n).node[c].prev = IF c = p THEN b ELSE l.node[c].prev
              /\ list_delete(l, n).node[c].priority = l.node[c].priority
              /\ list_delete(l, n).node[c].data = l.node[c].data
<1> DEFINE m == [c \in Cells |->
                   [priority |-> l.node[c].priority, data |-> l.node[c].data,
                    prev |-> IF c = p THEN b ELSE l.node[c].prev,
                    next |-> IF c = b THEN p ELSE l.node[c].next]]
<1>1. l.node \in [Cells -> ListNode] /\ l.size \in Nat /\ l = [node |-> l.node, size |-> l.size]
  BY DEF Lists
<1>2. \A c \in Cells : /\ l.node[c] \in ListNode
                       /\ l.node[c] = [priority |-> l.node[c].priority, data |-> l.node[c].data,
                                       prev |-> l.node[c].prev, next |-> l.node[c].next]
  BY <1>1 DEF ListNode
<1>3. m \in [Cells -> ListNode]
  BY <1>2, Addresses DEF ListNode
<1>4. list_delete(l, n) = [node |-> m, size |-> l.size - 1]
  <2> DEFINE d == [[l.node EXCEPT ![b].next = p] EXCEPT ![p].prev = b]
  <2>1. list_delete(l, n) = [node |-> d, size |-> l.size - 1]
    BY <1>1 DEF list_delete
  <2>2. d \in [Cells -> ListNode]
    <3> DEFINE d1 == [l.node EXCEPT ![b].next = p]
    <3>1. p \in Pointers /\ b \in Pointers
      BY Addresses
    <3>2. d1 \in [Cells -> ListNode]
      BY <1>1, <3>1, NextSet
    <3> HIDE DEF d1
    <3>3. [d1 EXCEPT ![p].prev = b] \in [Cells -> ListNode]
      BY <3>1, <3>2, PrevSet
    <3> QED
      BY <3>3 DEF d1
  <2>3. ASSUME NEW c \in Cells PROVE d[c] = m[c]
    BY <1>1, <1>2, <2>3, SMTT(30) DEF ListNode
  <2> HIDE DEF d, m
  <2>4. d = m
    BY <1>3, <2>2, <2>3
  <2> QED
    BY <2>1, <2>4
<1>5. list_delete(l, n).node = m /\ list_delete(l, n).size = l.size - 1
  BY <1>4
<1>6. [node |-> m, size |-> l.size - 1] \in Lists
  BY <1>1, <1>3 DEF Lists
<1> QED
  BY <1>4, <1>5, <1>6

(* A node taken out, from any place, leaves the list linked.               *)
LEMMA DeletedShape ==
  ASSUME NEW l, NEW q, IsOrder(q), DoublyLinked(l, q), NEW J \in 1 .. Len(q)
  PROVE  /\ DoublyLinked(list_delete(l, q[J]), RemoveAt(q, J))
         /\ \A c \in Cells :
              /\ list_delete(l, q[J]).node[c].priority = l.node[c].priority
              /\ list_delete(l, q[J]).node[c].data = l.node[c].data
<1> DEFINE n == q[J]
           p == Place(q, J + 1)
           b == Place(q, J - 1)
           m == list_delete(l, n)
           r == RemoveAt(q, J)
<1>1. Len(q) \in Nat /\ J \in Nat /\ J - 1 \in 0 .. Len(q) /\ J \in 0 .. Len(q) /\ (J - 1) + 1 = J
      /\ Place(q, J) = n
  BY Places
<1>2. l.node[n].prev = b /\ l.node[n].next = p
  BY <1>1 DEF DoublyLinked
<1>3. n \in Cells /\ p \in Cells /\ b \in Cells /\ n # p /\ n # b /\ b # p
  <2>1. J \in 0 .. Len(q) + 1 /\ J - 1 \in 0 .. Len(q) + 1 /\ J + 1 \in 0 .. Len(q) + 1
    BY <1>1
  <2>2. J \in 0 .. Len(q) + 2 /\ J - 1 \in 0 .. Len(q) + 2 /\ J + 1 \in 0 .. Len(q) + 2
    BY <1>1
  <2> QED
    BY <1>1, <2>1, <2>2, Places
<1>4. l \in Lists /\ l.size = Len(q) /\ l.size > 0
  BY <1>1 DEF DoublyLinked, Lists
<1>5. /\ m \in Lists
      /\ m.size = l.size - 1
      /\ \A c \in Cells :
           /\ m.node[c].next = IF c = b THEN p ELSE l.node[c].next
           /\ m.node[c].prev = IF c = p THEN b ELSE l.node[c].prev
           /\ m.node[c].priority = l.node[c].priority
           /\ m.node[c].data = l.node[c].data
  BY <1>2, <1>3, <1>4, DeletedFields
<1>6. /\ Len(r) = Len(q) - 1
      /\ \A i \in 0 .. Len(q) + 1 : Place(r, i) = IF i < J THEN Place(q, i) ELSE Place(q, i + 1)
  BY RemovedPlaces
<1>7. \A i, j \in 0 .. Len(q) + 1 : Place(q, i) \in Cells /\ (Place(q, i) = Place(q, j) => i = j)
  BY <1>1, Places
<1> HIDE DEF m, r, p, b, n
<1>8. ASSUME NEW i \in 0 .. Len(q) - 1
      PROVE  m.node[Place(r, i)].next = Place(r, i + 1) /\ m.node[Place(r, i + 1)].prev = Place(r, i)
  <2>1. i \in 0 .. Len(q) + 1 /\ i + 1 \in 0 .. Len(q) + 1 /\ i + 2 \in 0 .. Len(q) + 1
        /\ i \in 0 .. Len(q) /\ i + 1 \in 0 .. Len(q) /\ (i + 1) + 1 = i + 2
    BY <1>1
  <2>2. CASE i + 1 < J
    <3>1. Place(r, i) = Place(q, i) /\ Place(r, i + 1) = Place(q, i + 1)
      BY <1>1, <1>6, <2>1, <2>2
    <3>2. i # J - 1 /\ i + 1 # J + 1 /\ J + 1 \in 0 .. Len(q) + 1 /\ J - 1 \in 0 .. Len(q) + 1
      BY <1>1, <2>2
    <3>3. Place(q, i) # b /\ Place(q, i + 1) # p
      BY <1>7, <2>1, <3>2 DEF b, p
    <3>4. l.node[Place(q, i)].next = Place(q, i + 1) /\ l.node[Place(q, i + 1)].prev = Place(q, i)
      BY <2>1 DEF DoublyLinked
    <3> QED
      BY <1>5, <1>7, <2>1, <3>1, <3>3, <3>4
  <2>3. CASE i + 1 = J
    <3>1. Place(r, i) = b /\ Place(r, i + 1) = p
      BY <1>1, <1>6, <2>1, <2>3 DEF b, p
    <3> QED
      BY <1>3, <1>5, <3>1
  <2>4. CASE i + 1 > J
    <3>1. Place(r, i) = Place(q, i + 1) /\ Place(r, i + 1) = Place(q, i + 2)
      BY <1>1, <1>6, <2>1, <2>4
    <3>2. i + 1 # J - 1 /\ i + 2 # J + 1 /\ J + 1 \in 0 .. Len(q) + 1 /\ J - 1 \in 0 .. Len(q) + 1
      BY <1>1, <2>4
    <3>3. Place(q, i + 1) # b /\ Place(q, i + 2) # p
      BY <1>7, <2>1, <3>2 DEF b, p
    <3>4. l.node[Place(q, i + 1)].next = Place(q, i + 2) /\ l.node[Place(q, i + 2)].prev = Place(q, i + 1)
      BY <2>1 DEF DoublyLinked
    <3> QED
      BY <1>5, <1>7, <2>1, <3>1, <3>3, <3>4
  <2> QED
    BY <1>1, <2>2, <2>3, <2>4
<1>9. DoublyLinked(m, r)
  BY <1>4, <1>5, <1>6, <1>8 DEF DoublyLinked, Lists
<1> QED
  BY <1>5, <1>9 DEF m, r, n

(* list_pop_front deletes the first node.                                  *)
LEMMA PoppedIs ==
  ASSUME NEW l, NEW q, IsOrder(q), Len(q) <= MaxNodes, DoublyLinked(l, q)
  PROVE  list_popped(l) = IF Len(q) = 0 THEN l ELSE list_delete(l, q[1])
<1>1. list_empty(l) <=> Len(q) = 0
  BY InOrderIs
<1>2. CASE Len(q) = 0
  BY <1>1, <1>2 DEF list_popped
<1>3. CASE Len(q) # 0
  <2>1. 1 \in 1 .. Len(q) /\ 0 \in 0 .. Len(q) /\ 0 + 1 = 1
    BY <1>3, Places
  <2>2. list_cbegin(l) = q[1]
    BY <2>1, InOrderIs, Places
  <2>3. l.node[q[1]].prev = HEAD
    BY <2>1, Places DEF DoublyLinked
  <2> QED
    BY <1>1, <1>3, <2>2, <2>3 DEF list_popped, list_delete
<1> QED
  BY <1>2, <1>3

(* list_destroy frees what is in the list.                                 *)
LEMMA DestroyedIs ==
  ASSUME NEW l, NEW q, IsOrder(q), Len(q) <= MaxNodes, DoublyLinked(l, q)
  PROVE  list_destroyed(l) = {HEAD, TAIL} \cup {q[i] : i \in 1 .. Len(q)}
<1> DEFINE IsList(m, r) == IsOrder(r) /\ Len(r) <= MaxNodes /\ DoublyLinked(m, r)
           V == {m \in Lists : \E r \in Seq(Nodes) : IsList(m, r)}
           F == [m \in V |-> list_popped(m)]
           body(w) == [pops \in Steps |-> IF pops = 0 THEN l ELSE list_popped(w[pops - 1])]
<1>1. LastStep \in Nat /\ Steps = 0 .. LastStep /\ MaxNodes \in Nat /\ MaxNodes < LastStep
  BY NodesAssumption DEF Steps, LastStep
<1>2. ASSUME NEW m, NEW r, IsList(m, r)
      PROVE  IF Len(r) = 0 THEN list_popped(m) = m
             ELSE 1 \in 1 .. Len(r) /\ IsList(list_popped(m), RemoveAt(r, 1))
  <2>1. CASE Len(r) = 0
    BY <1>2, <2>1, PoppedIs
  <2>2. CASE Len(r) # 0
    <3>1. 1 \in 1 .. Len(r)
      BY <1>2, <2>2, Places
    <3>2. list_popped(m) = list_delete(m, r[1])
      BY <1>2, <2>2, PoppedIs
    <3>3. DoublyLinked(list_popped(m), RemoveAt(r, 1))
      BY <1>2, <3>1, <3>2, DeletedShape
    <3>4. IsOrder(RemoveAt(r, 1)) /\ Len(RemoveAt(r, 1)) = Len(r) - 1 /\ Len(r) \in Nat
      BY <1>2, <3>1, RemovedPlaces, Places
    <3>5. Len(RemoveAt(r, 1)) <= MaxNodes
      BY <1>1, <1>2, <3>4
    <3> QED
      BY <2>2, <3>1, <3>3, <3>4, <3>5
  <2> QED
    BY <2>1, <2>2
<1>3. \A m, r : IsList(m, r) => m \in V /\ r \in Seq(Nodes)
  BY DEF IsOrder, DoublyLinked, Lists
<1>4. l \in V
  BY <1>3
<1>5. F \in [V -> V]
  <2> SUFFICES ASSUME NEW m \in V PROVE list_popped(m) \in V
    OBVIOUS
  <2>1. PICK r \in Seq(Nodes) : IsList(m, r)
    OBVIOUS
  <2> HIDE DEF IsList, V
  <2> QED
    BY <1>2, <1>3, <2>1
<1> HIDE DEF V, F
<1>a. PICK f \in [0 .. LastStep -> V] : Iterates(f, l, F, LastStep)
  BY <1>1, <1>4, <1>5, IteratesExist
<1>6. f[0] = l /\ \A k \in 1 .. LastStep : f[k] = list_popped(f[k - 1])
  <2>1. f[0] = l /\ \A k \in 1 .. LastStep : f[k] = F[f[k - 1]]
    BY <1>a DEF Iterates
  <2>2. \A k \in 1 .. LastStep : f[k - 1] \in V
    BY <1>1
  <2> QED
    BY <2>1, <2>2 DEF F
<1>7. f = body(f)
  <2>1. \A k \in Steps : f[k] = body(f)[k]
    BY <1>1, <1>6
  <2> QED
    BY <1>1, <2>1
<1> DEFINE g == CHOOSE w : w = body(w)
<1>8. g = body(g)
  BY ONLY <1>7
<1>9. \A k \in 0 .. LastStep : g[k] = f[k]
  <2> DEFINE P == {k \in 0 .. LastStep : g[k] = f[k]}
  <2> HIDE DEF g
  <2>1. 0 \in P
    BY <1>1, <1>6, <1>8
  <2>2. ASSUME NEW k \in 0 .. LastStep - 1, k \in P PROVE k + 1 \in P
    <3>1. k + 1 \in 1 .. LastStep /\ k + 1 \in Steps /\ (k + 1) - 1 = k /\ k + 1 # 0
      BY <1>1
    <3>2. g[k + 1] = list_popped(g[k])
      BY <1>8, <3>1
    <3>3. f[k + 1] = list_popped(f[k])
      BY <1>6, <3>1
    <3>4. g[k] = f[k]
      BY <2>2
    <3>5. g[k + 1] = f[k + 1]
      BY ONLY <3>2, <3>3, <3>4
    <3> QED
      BY <3>1, <3>5
  <2>3. P \in SUBSET (0 .. LastStep)
    OBVIOUS
  <2> HIDE DEF P
  <2>4. P = 0 .. LastStep
    BY <1>1, <2>1, <2>2, <2>3, AllUpTo
  <2> QED
    BY <2>4 DEF P
<1>10. list_destroyed(l) = {HEAD, TAIL} \cup {list_cbegin(g[pops]) : pops \in Steps}
  BY DEF list_destroyed
<1> HIDE DEF g
<1>11. Len(q) \in Nat /\ \A i \in 1 .. Len(q) : q[i] \in Nodes
  BY Places
<1> DEFINE Rest(r, k) == /\ IF k <= Len(q) THEN Len(r) = Len(q) - k ELSE Len(r) = 0
                         /\ \A i \in 1 .. Len(r) : r[i] = q[i + k]
           Can(k) == \E r \in Seq(Nodes) : IsList(f[k], r) /\ Rest(r, k)
           K == {k \in 0 .. LastStep : Can(k)}
<1> HIDE DEF IsList
<1>12. Can(0)
  <2>1. IsList(f[0], q) /\ Rest(q, 0) /\ q \in Seq(Nodes)
    BY <1>6, <1>11 DEF IsList, IsOrder
  <2> QED
    BY <2>1
<1>13. ASSUME NEW k \in 0 .. LastStep - 1, Can(k) PROVE Can(k + 1)
  <2>1. PICK r \in Seq(Nodes) : IsList(f[k], r) /\ Rest(r, k)
    BY <1>13
  <2>2. k + 1 \in 1 .. LastStep /\ (k + 1) - 1 = k /\ k \in Nat
    BY <1>1
  <2>3. f[k + 1] = list_popped(f[k])
    BY <1>6, <2>2
  <2>4. CASE Len(r) = 0
    <3>1. IsList(f[k + 1], r)
      BY <1>2, <2>1, <2>3, <2>4
    <3>2. Rest(r, k + 1)
      BY <1>11, <2>1, <2>2, <2>4
    <3> QED
      BY <3>1, <3>2
  <2>5. CASE Len(r) # 0
    <3>1. IsList(f[k + 1], RemoveAt(r, 1)) /\ 1 \in 1 .. Len(r) /\ Len(r) \in Nat
      BY <1>2, <2>1, <2>3, <2>5
    <3>2. /\ Len(RemoveAt(r, 1)) = Len(r) - 1
          /\ \A i \in 1 .. Len(r) - 1 : RemoveAt(r, 1)[i] = IF i < 1 THEN r[i] ELSE r[i + 1]
      BY <3>1, Removed
    <3>3. Len(r) = Len(q) - k /\ k + 1 <= Len(q)
      BY <1>11, <2>1, <2>2, <3>1
    <3>4. ASSUME NEW i \in 1 .. Len(r) - 1 PROVE RemoveAt(r, 1)[i] = q[i + (k + 1)]
      <4>1. i + 1 \in 1 .. Len(r) /\ ~ (i < 1) /\ (i + 1) + k = i + (k + 1)
        BY <2>2, <3>1
      <4>2. RemoveAt(r, 1)[i] = r[i + 1]
        BY <3>2, <4>1
      <4>3. r[i + 1] = q[(i + 1) + k]
        BY <2>1, <4>1
      <4> QED
        BY <4>1, <4>2, <4>3
    <3>5. Rest(RemoveAt(r, 1), k + 1)
      BY <1>11, <2>2, <3>1, <3>2, <3>3, <3>4
    <3>6. RemoveAt(r, 1) \in Seq(Nodes)
      BY <3>1, Removed
    <3> HIDE DEF Rest
    <3> QED
      BY <3>1, <3>5, <3>6
  <2> QED
    BY <2>4, <2>5
<1> HIDE DEF Can
<1>14. K \in SUBSET (0 .. LastStep) /\ 0 \in K /\ \A k \in 0 .. LastStep - 1 : k \in K => k + 1 \in K
  BY <1>1, <1>12, <1>13
<1> HIDE DEF K
<1>15. K = 0 .. LastStep
  BY <1>1, <1>14, AllUpTo
<1>16. \A k \in 0 .. LastStep : Can(k)
  BY <1>15 DEF K
<1>17. ASSUME NEW k \in Steps
       PROVE  list_cbegin(g[k]) = IF k < Len(q) THEN q[k + 1] ELSE TAIL
  <2>1. Can(k) /\ g[k] = f[k] /\ k \in Nat
    BY <1>1, <1>9, <1>16
  <2>2. PICK r \in Seq(Nodes) : IsList(f[k], r) /\ Rest(r, k)
    BY <2>1 DEF Can
  <2>3. IsOrder(r) /\ list_cbegin(g[k]) = Place(r, 1)
    BY <2>1, <2>2, InOrderIs DEF IsList
  <2>4. CASE k < Len(q)
    <3>1. 1 \in 1 .. Len(r) /\ 1 + k = k + 1
      BY <1>11, <2>1, <2>2, <2>4
    <3>2. Place(r, 1) = r[1] /\ r[1] = q[k + 1]
      BY <2>2, <2>3, <3>1, Places
    <3> QED
      BY <2>3, <2>4, <3>2
  <2>5. CASE ~ (k < Len(q))
    <3>1. Len(r) = 0
      BY <1>11, <2>1, <2>2, <2>5
    <3>2. Place(r, 0 + 1) = TAIL /\ 0 + 1 = 1
      BY <2>3, <3>1, Places
    <3> QED
      BY <2>3, <2>5, <3>2
  <2> QED
    BY <2>4, <2>5
<1>18. \A i \in 1 .. Len(q) : i - 1 \in Steps /\ i - 1 < Len(q) /\ (i - 1) + 1 = i
  BY <1>1, <1>11
<1>19. \A k \in Steps : k < Len(q) => k + 1 \in 1 .. Len(q)
  BY <1>1, <1>11
<1>20. ASSUME NEW i \in 1 .. Len(q) PROVE q[i] \in {list_cbegin(g[pops]) : pops \in Steps}
  <2>1. list_cbegin(g[i - 1]) = q[i]
    BY <1>17, <1>18
  <2> QED
    BY <1>18, <2>1
<1>21. ASSUME NEW k \in Steps PROVE list_cbegin(g[k]) \in {HEAD, TAIL} \cup {q[i] : i \in 1 .. Len(q)}
  BY <1>17, <1>19
<1> QED
  BY <1>10, <1>20, <1>21

-----------------------------------------------------------------------------
(* What the nodes stand for.                                               *)

(* A new timer behind those that are due earlier.                          *)
Inserts(q, node, used, time, n, t, timeout, J, m, later) ==
  /\ J \in 1 .. Len(q) + 1 /\ n \in Nodes \ used /\ t \in Timers \ DOMAIN time
  /\ timeout \in Nat /\ timeout > 0 /\ timeout < INVALID
  /\ m[n].priority = timeout /\ m[n].data = t
  /\ \A c \in Nodes : c # n => m[c].priority = node[c].priority /\ m[c].data = node[c].data
  /\ \A i \in 1 .. J - 1 : node[q[i]].priority <= timeout
  /\ \A i \in J .. Len(q) : node[q[i]].priority >= timeout
  /\ DOMAIN later = DOMAIN time \cup {t} /\ later[t] = timeout
  /\ \A u \in DOMAIN time : later[u] = time[u]

(* The records agree after an insertion behind the timers due earlier.     *)
LEMMA FilesInsert ==
  ASSUME NEW q, NEW node, NEW used, NEW time, NEW held, Files(q, node, used, time, held),
         NEW n, NEW t, NEW timeout, NEW J, NEW m, NEW later,
         Inserts(q, node, used, time, n, t, timeout, J, m, later)
  PROVE  Files(InsertAt(q, J, n), m, used \cup {n}, later, held)
<1> SUFFICES ASSUME J \in 1 .. Len(q) + 1, n \in Nodes \ used, t \in Timers \ DOMAIN time,
                    timeout \in Nat, timeout > 0, timeout < INVALID,
                    m[n].priority = timeout, m[n].data = t,
                    \A c \in Nodes : c # n => m[c].priority = node[c].priority /\ m[c].data = node[c].data,
                    \A i \in 1 .. J - 1 : node[q[i]].priority <= timeout,
                    \A i \in J .. Len(q) : node[q[i]].priority >= timeout,
                    DOMAIN later = DOMAIN time \cup {t}, later[t] = timeout,
                    \A u \in DOMAIN time : later[u] = time[u]
             PROVE  Files(InsertAt(q, J, n), m, used \cup {n}, later, held)
  BY DEF Inserts
<1> DEFINE r == InsertAt(q, J, n)
<1>1. /\ IsOrder(q) /\ Len(q) \in Nat /\ J \in Nat /\ MaxNodes \in Nat
      /\ used \subseteq Nodes /\ DOMAIN time \subseteq Timers
      /\ {q[i] : i \in 1 .. Len(q)} = used \ {held.node}
      /\ {node[q[i]].data : i \in 1 .. Len(q)} = DOMAIN time \ {held.timer}
  BY Places, Addresses DEF Files
<1>2. \A i \in 1 .. Len(q) :
        /\ q[i] \in Nodes /\ q[i] # n /\ q[i] \in used
        /\ m[q[i]].priority = node[q[i]].priority /\ m[q[i]].data = node[q[i]].data
        /\ node[q[i]].data \in DOMAIN time /\ node[q[i]].data # t
        /\ node[q[i]].priority \in Int
        /\ node[q[i]].priority = time[node[q[i]].data]
        /\ node[q[i]].priority >= i + 1 - MaxNodes
        /\ later[node[q[i]].data] = time[node[q[i]].data]
  <2>1. \A i \in 1 .. Len(q) : q[i] \in used /\ node[q[i]].data \in DOMAIN time
    BY <1>1
  <2>2. \A i \in 1 .. Len(q) : /\ node[q[i]].priority = time[node[q[i]].data]
                               /\ node[q[i]].priority >= i + 1 - MaxNodes
    BY DEF Files
  <2>3. \A c \in Nodes : node[c].priority \in Int
    BY DEF Files
  <2> QED
    BY <1>1, <2>1, <2>2, <2>3
<1>3. /\ IsOrder(r) /\ Len(r) = Len(q) + 1
      /\ \A i \in 0 .. Len(q) + 3 :
           Place(r, i) = IF i < J THEN Place(q, i) ELSE IF i = J THEN n ELSE Place(q, i - 1)
  BY <1>1, <1>2, InsertedPlaces
<1> HIDE DEF r
<1>4. /\ \A i \in 1 .. J - 1 : i \in 1 .. Len(q) /\ i \in 1 .. Len(r) /\ r[i] = q[i]
      /\ J \in 1 .. Len(r) /\ r[J] = n
      /\ \A i \in J .. Len(q) : i \in 1 .. Len(q) /\ i + 1 \in 1 .. Len(r) /\ r[i + 1] = q[i]
  <2>1. /\ \A i \in 1 .. Len(r) : Place(r, i) = r[i]
        /\ \A i \in 1 .. Len(q) : Place(q, i) = q[i]
    BY <1>1, <1>3, Places
  <2>2. ASSUME NEW i \in 1 .. J - 1 PROVE i \in 1 .. Len(q) /\ i \in 1 .. Len(r) /\ r[i] = q[i]
    <3>1. i \in 1 .. Len(q) /\ i \in 1 .. Len(r) /\ i \in 0 .. Len(q) + 3 /\ i < J
      BY <1>1, <1>3
    <3> QED
      BY <1>3, <2>1, <3>1
  <2>3. J \in 1 .. Len(r) /\ r[J] = n
    <3>1. J \in 1 .. Len(r) /\ J \in 0 .. Len(q) + 3 /\ ~ (J < J)
      BY <1>1, <1>3
    <3> QED
      BY <1>3, <2>1, <3>1
  <2>4. ASSUME NEW i \in J .. Len(q)
        PROVE  i \in 1 .. Len(q) /\ i + 1 \in 1 .. Len(r) /\ r[i + 1] = q[i]
    <3>1. i \in 1 .. Len(q) /\ i + 1 \in 1 .. Len(r) /\ i + 1 \in 0 .. Len(q) + 3
          /\ ~ (i + 1 < J) /\ i + 1 # J /\ (i + 1) - 1 = i
      BY <1>1, <1>3
    <3> QED
      BY <1>3, <2>1, <3>1
  <2> QED
    BY <2>2, <2>3, <2>4
<1>5. \A i \in 1 .. Len(r) : \/ i \in 1 .. J - 1
                             \/ i = J
                             \/ \E k \in J .. Len(q) : i = k + 1
  <2> SUFFICES ASSUME NEW i \in 1 .. Len(r), i > J PROVE \E k \in J .. Len(q) : i = k + 1
    BY <1>1, <1>3
  <2>1. i - 1 \in J .. Len(q) /\ i = (i - 1) + 1
    BY <1>1, <1>3
  <2> QED
    BY <2>1
<1>6. \A k \in 1 .. Len(q) : \E i \in 1 .. Len(r) : r[i] = q[k]
  <2> TAKE k \in 1 .. Len(q)
  <2>1. k \in 1 .. J - 1 \/ k \in J .. Len(q)
    BY <1>1
  <2> QED
    BY <1>4, <2>1
<1>7. Len(r) <= MaxNodes
  <2>1. {r[i] : i \in 1 .. Len(r)} \in SUBSET Nodes
    BY <1>3, Places
  <2> QED
    BY <1>3, <2>1, OrderSize
<1>8. \A i \in 1 .. Len(r) : r[i] = n \/ \E k \in 1 .. Len(q) : r[i] = q[k]
  BY <1>4, <1>5
<1>9. /\ \/ held = NotFiring
         \/ /\ held \in [node : used \cup {n}, timer : DOMAIN later]
            /\ later[held.timer] \in Int /\ later[held.timer] > - MaxNodes
      /\ held.node # n /\ held.timer # t
  <2>1. CASE held = NotFiring
    <3>1. held.node = NULL /\ held.timer = NULL
      BY <2>1 DEF NotFiring
    <3> QED
      BY <2>1, <3>1, Addresses DEF Timers
  <2>2. CASE held # NotFiring
    <3>1. /\ held \in [node : used, timer : DOMAIN time]
          /\ time[held.timer] \in Int /\ time[held.timer] > - MaxNodes
      BY <2>2 DEF Files
    <3>2. held.node \in used /\ held.timer \in DOMAIN time
      BY <3>1
    <3>3. held \in [node : used \cup {n}, timer : DOMAIN later]
      BY <3>1
    <3> QED
      BY <3>1, <3>2, <3>3
  <2> QED
    BY <2>1, <2>2
<1>10. {r[i] : i \in 1 .. Len(r)} = (used \cup {n}) \ {held.node}
  <2>1. ASSUME NEW c \in (used \cup {n}) \ {held.node} PROVE \E i \in 1 .. Len(r) : r[i] = c
    <3>1. CASE c = n
      BY <1>4, <3>1
    <3>2. CASE c # n
      <4>1. \E k \in 1 .. Len(q) : q[k] = c
        BY <1>1, <3>2
      <4> QED
        BY <1>6, <4>1
    <3> QED
      BY <3>1, <3>2
  <2>2. ASSUME NEW i \in 1 .. Len(r) PROVE r[i] \in (used \cup {n}) \ {held.node}
    BY <1>1, <1>8, <1>9
  <2> QED
    BY <2>1, <2>2
<1>11. {m[r[i]].data : i \in 1 .. Len(r)} = DOMAIN later \ {held.timer}
  <2>1. ASSUME NEW u \in DOMAIN later \ {held.timer}
        PROVE  \E i \in 1 .. Len(r) : m[r[i]].data = u
    <3>1. CASE u = t
      BY <1>4, <3>1
    <3>2. CASE u # t
      <4>1. PICK k \in 1 .. Len(q) : node[q[k]].data = u
        BY <1>1, <3>2
      <4> QED
        BY <1>2, <1>6, <4>1
    <3> QED
      BY <3>1, <3>2
  <2>2. ASSUME NEW i \in 1 .. Len(r) PROVE m[r[i]].data \in DOMAIN later \ {held.timer}
    <3>1. CASE r[i] = n
      BY <1>9, <3>1
    <3>2. CASE r[i] # n
      <4>1. PICK k \in 1 .. Len(q) : r[i] = q[k]
        BY <1>8, <3>2
      <4>2. node[q[k]].data \in DOMAIN time \ {held.timer}
        BY <1>1
      <4> QED
        BY <1>2, <4>1, <4>2
    <3> QED
      BY <3>1, <3>2
  <2> QED
    BY <2>1, <2>2
<1>12. ASSUME NEW i \in 1 .. Len(r), NEW j \in 1 .. Len(r), m[r[i]].data = m[r[j]].data PROVE i = j
  <2>1. r[i] = r[j]
    <3>1. CASE r[i] = n
      <4>1. r[j] = n
        BY <1>2, <1>8, <1>12, <3>1
      <4> QED
        BY <3>1, <4>1
    <3>2. CASE r[i] # n
      <4>1. PICK k \in 1 .. Len(q) : r[i] = q[k]
        BY <1>8, <3>2
      <4>2. r[j] # n
        BY <1>2, <1>12, <4>1
      <4>3. PICK l \in 1 .. Len(q) : r[j] = q[l]
        BY <1>8, <4>2
      <4>4. k = l
        BY <1>2, <1>12, <4>1, <4>3 DEF Files
      <4> QED
        BY <4>1, <4>3, <4>4
    <3> QED
      BY <3>1, <3>2
  <2> QED
    BY <1>3, <2>1 DEF IsOrder
<1>13. ASSUME NEW i \in 1 .. Len(r)
       PROVE  m[r[i]].priority = later[m[r[i]].data] /\ m[r[i]].priority >= i + 1 - MaxNodes
  <2>1. CASE i \in 1 .. J - 1
    BY <1>2, <1>4, <2>1
  <2>2. CASE i = J
    BY <1>1, <1>4, <1>7, <2>2
  <2>3. CASE \E k \in J .. Len(q) : i = k + 1
    <3>1. PICK k \in J .. Len(q) : i = k + 1
      BY <2>3
    <3>2. r[i] = q[k] /\ k \in 1 .. Len(q)
      BY <1>4, <3>1
    <3>3. m[r[i]].priority = later[m[r[i]].data] /\ m[r[i]].priority >= timeout
      BY <1>2, <3>1, <3>2, SMTT(30)
    <3>4. m[r[i]].priority \in Int
      BY <1>2, <3>2
    <3> QED
      BY <1>1, <1>3, <1>7, <3>3, <3>4
  <2> QED
    BY <1>5, <2>1, <2>2, <2>3
<1>14. ASSUME NEW i \in 1 .. Len(r), NEW j \in 1 .. Len(r), i < j
       PROVE  m[r[i]].priority <= m[r[j]].priority
  <2>1. \A k, l \in 1 .. Len(q) : k < l => node[q[k]].priority <= node[q[l]].priority
    BY DEF Files
  <2>2. \A k, l \in 1 .. Len(q) : k <= l => node[q[k]].priority <= node[q[l]].priority
    BY <1>1, <1>2, <2>1
  <2>3. CASE i \in 1 .. J - 1
    <3>1. r[i] = q[i] /\ i \in 1 .. Len(q) /\ m[r[i]].priority = node[q[i]].priority
          /\ node[q[i]].priority <= timeout
      BY <1>2, <1>4, <2>3
    <3>2. CASE j \in 1 .. J - 1
      BY <1>2, <1>4, <1>14, <2>1, <3>1, <3>2
    <3>3. CASE j = J
      BY <1>4, <3>1, <3>3
    <3>4. CASE \E k \in J .. Len(q) : j = k + 1
      <4>1. PICK k \in J .. Len(q) : j = k + 1
        BY <3>4
      <4>2. r[j] = q[k] /\ k \in 1 .. Len(q) /\ m[r[j]].priority = node[q[k]].priority /\ i <= k
        BY <1>1, <1>2, <1>4, <2>3, <4>1
      <4> QED
        BY <2>2, <3>1, <4>2
    <3> QED
      BY <1>5, <3>2, <3>3, <3>4
  <2>4. CASE ~ (i \in 1 .. J - 1)
    <3>1. i \in Int /\ j \in Int /\ ~ (j \in 1 .. J - 1) /\ j # J
      BY <1>1, <1>3, <1>14, <2>4
    <3>2. PICK k \in J .. Len(q) : j = k + 1
      BY <1>5, <3>1
    <3>3. r[j] = q[k] /\ k \in 1 .. Len(q) /\ m[r[j]].priority = node[q[k]].priority
          /\ node[q[k]].priority >= timeout
      BY <1>2, <1>4, <3>2
    <3>4. CASE i = J
      BY <1>4, <3>3, <3>4
    <3>5. CASE i # J
      <4>1. PICK l \in J .. Len(q) : i = l + 1
        BY <1>5, <2>4, <3>5
      <4>2. r[i] = q[l] /\ l \in 1 .. Len(q) /\ m[r[i]].priority = node[q[l]].priority /\ l < k
        BY <1>1, <1>2, <1>4, <1>14, <3>2, <4>1
      <4> QED
        BY <2>1, <3>3, <4>2
    <3> QED
      BY <3>4, <3>5
  <2> QED
    BY <2>3, <2>4
<1>15. \A c \in Nodes : m[c].priority \in Int /\ m[c].priority < INVALID
  <2>1. \A c \in Nodes : node[c].priority \in Int /\ node[c].priority < INVALID
    BY DEF Files
  <2> QED
    BY <2>1
<1>16. used \cup {n} \subseteq Nodes /\ DOMAIN later \subseteq Timers
  BY <1>1
<1>17. Files(r, m, used \cup {n}, later, held)
  BY <1>3, <1>9, <1>10, <1>11, <1>12, <1>13, <1>14, <1>15, <1>16 DEF Files
<1> QED
  BY <1>17 DEF r

HeldAsFiled(used, time, held) ==
  \/ held = NotFiring
  \/ /\ held \in [node : used, timer : DOMAIN time]
     /\ time[held.timer] \in Int /\ time[held.timer] > - MaxNodes

(* What is filed about each node of an order.                              *)
FiledFacts(q, node, used, time, held) ==
  /\ IsOrder(q) /\ Len(q) \in Nat /\ Len(q) <= MaxNodes
  /\ used \subseteq Nodes /\ DOMAIN time \subseteq Timers
  /\ HeldAsFiled(used, time, held)
  /\ {q[i] : i \in 1 .. Len(q)} = used \ {held.node}
  /\ {node[q[i]].data : i \in 1 .. Len(q)} = DOMAIN time \ {held.timer}
  /\ \A i \in 1 .. Len(q) :
       /\ q[i] \in Nodes /\ q[i] \in used /\ q[i] # held.node
       /\ node[q[i]].data \in DOMAIN time /\ node[q[i]].data \in Timers
       /\ node[q[i]].data # held.timer
       /\ node[q[i]].priority \in Int /\ node[q[i]].priority < INVALID
       /\ node[q[i]].priority = time[node[q[i]].data]
       /\ node[q[i]].priority >= i + 1 - MaxNodes
  /\ \A i, j \in 1 .. Len(q) : node[q[i]].data = node[q[j]].data => i = j
  /\ \A i, j \in 1 .. Len(q) : i <= j => node[q[i]].priority <= node[q[j]].priority

(* The records say of each node of the order what is needed below.         *)
LEMMA Filed ==
  ASSUME NEW q, NEW node, NEW used, NEW time, NEW held, Files(q, node, used, time, held)
  PROVE  FiledFacts(q, node, used, time, held)
<1>1. /\ IsOrder(q) /\ Len(q) \in Nat /\ MaxNodes \in Nat
      /\ used \subseteq Nodes /\ DOMAIN time \subseteq Timers
      /\ {q[i] : i \in 1 .. Len(q)} = used \ {held.node}
      /\ {node[q[i]].data : i \in 1 .. Len(q)} = DOMAIN time \ {held.timer}
  BY Places, Addresses DEF Files
<1>2. \A i \in 1 .. Len(q) : q[i] \in used \ {held.node} /\ node[q[i]].data \in DOMAIN time \ {held.timer}
  BY <1>1
<1>3. \A i \in 1 .. Len(q) : /\ node[q[i]].priority = time[node[q[i]].data]
                             /\ node[q[i]].priority >= i + 1 - MaxNodes
  BY DEF Files
<1>4. \A c \in Nodes : node[c].priority \in Int /\ node[c].priority < INVALID
  BY DEF Files
<1>5. \A i, j \in 1 .. Len(q) : i < j => node[q[i]].priority <= node[q[j]].priority
  BY DEF Files
<1>6. ASSUME NEW i \in 1 .. Len(q)
      PROVE  /\ q[i] \in Nodes /\ q[i] \in used /\ q[i] # held.node
             /\ node[q[i]].data \in DOMAIN time /\ node[q[i]].data \in Timers
             /\ node[q[i]].data # held.timer
             /\ node[q[i]].priority \in Int /\ node[q[i]].priority < INVALID
  BY <1>1, <1>2, <1>4
<1>7. \A i, j \in 1 .. Len(q) : i <= j => node[q[i]].priority <= node[q[j]].priority
  BY <1>1, <1>5, <1>6
<1>8. Len(q) <= MaxNodes
  <2>1. used \ {held.node} \in SUBSET Nodes
    BY <1>1
  <2> QED
    BY <1>1, <2>1, OrderSize
<1>9. HeldAsFiled(used, time, held) /\ \A i, j \in 1 .. Len(q) : node[q[i]].data = node[q[j]].data => i = j
  BY DEF Files, HeldAsFiled
<1> QED
  BY <1>1, <1>3, <1>6, <1>7, <1>8, <1>9 DEF FiledFacts

(* The time goes on by d, and the node at place J leaves the order.        *)
Removes(q, node, used, time, held, J, d, m, left2, used2, held2) ==
  /\ J \in 1 .. Len(q) /\ d \in Nat /\ (d = 0 \/ (d = 1 /\ J = 1))
  /\ used2 \subseteq Nodes /\ DOMAIN left2 \subseteq Timers /\ HeldAsFiled(used2, left2, held2)
  /\ used2 \ {held2.node} = (used \ {held.node}) \ {q[J]}
  /\ DOMAIN left2 \ {held2.timer} = (DOMAIN time \ {held.timer}) \ {node[q[J]].data}
  /\ \A u \in DOMAIN left2 \ {held2.timer} : left2[u] = time[u] - d
  /\ \A i \in 1 .. Len(q) : i # J => /\ m[q[i]].priority = node[q[i]].priority - d
                                     /\ m[q[i]].data = node[q[i]].data
  /\ \A c \in Nodes : m[c].priority \in Int /\ m[c].priority < INVALID

(* The records agree after a removal.                                      *)
LEMMA FilesRemove ==
  ASSUME NEW q, NEW node, NEW used, NEW time, NEW held, Files(q, node, used, time, held),
         NEW J, NEW d, NEW m, NEW left2, NEW used2, NEW held2,
         Removes(q, node, used, time, held, J, d, m, left2, used2, held2)
  PROVE  Files(RemoveAt(q, J), m, used2, left2, held2)
<1> SUFFICES ASSUME J \in 1 .. Len(q), d \in Nat, d = 0 \/ (d = 1 /\ J = 1),
                    used2 \subseteq Nodes, DOMAIN left2 \subseteq Timers,
                    HeldAsFiled(used2, left2, held2),
                    used2 \ {held2.node} = (used \ {held.node}) \ {q[J]},
                    DOMAIN left2 \ {held2.timer} = (DOMAIN time \ {held.timer}) \ {node[q[J]].data},
                    \A u \in DOMAIN left2 \ {held2.timer} : left2[u] = time[u] - d,
                    \A i \in 1 .. Len(q) : i # J => /\ m[q[i]].priority = node[q[i]].priority - d
                                                   /\ m[q[i]].data = node[q[i]].data,
                    \A c \in Nodes : m[c].priority \in Int /\ m[c].priority < INVALID
             PROVE  Files(RemoveAt(q, J), m, used2, left2, held2)
  BY DEF Removes
<1> DEFINE r == RemoveAt(q, J)
           old(i) == IF i < J THEN i ELSE i + 1
<1>0. FiledFacts(q, node, used, time, held)
  BY ONLY Files(q, node, used, time, held), Filed
<1>1. IsOrder(q) /\ Len(q) \in Nat /\ J \in Nat /\ MaxNodes \in Nat
  BY <1>0, Addresses DEF FiledFacts
<1>2. IsOrder(r) /\ Len(r) = Len(q) - 1
  BY <1>1, RemovedPlaces
<1>3. ASSUME NEW i \in 1 .. Len(r)
      PROVE  old(i) \in 1 .. Len(q) /\ old(i) # J /\ r[i] = q[old(i)] /\ old(i) >= i
             /\ (d = 1 => old(i) = i + 1)
  <2>1. i \in 1 .. Len(q) - 1 /\ i \in Int
    BY <1>1, <1>2
  <2>2. r[i] = q[old(i)]
    BY ONLY <1>1, <2>1, J \in 1 .. Len(q), Removed DEF IsOrder, r, old
  <2> QED
    BY <1>1, <2>1, <2>2
<1>4. ASSUME NEW k \in 1 .. Len(q), k # J PROVE \E i \in 1 .. Len(r) : old(i) = k
  <2>1. CASE k < J
    <3>1. k \in 1 .. Len(r) /\ old(k) = k
      BY <1>1, <1>2, <2>1
    <3> QED
      BY <3>1
  <2>2. CASE k > J
    <3>1. k - 1 \in 1 .. Len(r) /\ old(k - 1) = k
      BY <1>1, <1>2, <2>2
    <3> QED
      BY <3>1
  <2> QED
    BY <1>1, <1>4, <2>1, <2>2
<1>5. \A i, j \in 1 .. Len(r) : /\ old(i) = old(j) => i = j
                                /\ i < j => old(i) <= old(j)
  BY <1>1, <1>2
<1> HIDE DEF r, old
<1>6. /\ {q[i] : i \in 1 .. Len(q)} = used \ {held.node}
      /\ {node[q[i]].data : i \in 1 .. Len(q)} = DOMAIN time \ {held.timer}
      /\ \A i, j \in 1 .. Len(q) : q[i] = q[j] => i = j
      /\ \A i, j \in 1 .. Len(q) : node[q[i]].data = node[q[j]].data => i = j
      /\ \A i, j \in 1 .. Len(q) : i <= j => node[q[i]].priority <= node[q[j]].priority
      /\ \A i \in 1 .. Len(q) :
           /\ q[i] \in used \ {held.node} /\ node[q[i]].data \in DOMAIN time \ {held.timer}
           /\ node[q[i]].priority \in Int
           /\ node[q[i]].priority = time[node[q[i]].data]
           /\ node[q[i]].priority >= i + 1 - MaxNodes
  BY <1>0 DEF FiledFacts, IsOrder
<1>7. \A i \in 1 .. Len(r) : /\ m[r[i]].priority = node[q[old(i)]].priority - d
                             /\ m[r[i]].data = node[q[old(i)]].data
  BY <1>3
<1>8. {r[i] : i \in 1 .. Len(r)} = used2 \ {held2.node}
  <2>1. ASSUME NEW i \in 1 .. Len(r) PROVE r[i] \in used2 \ {held2.node}
    <3>1. old(i) \in 1 .. Len(q) /\ r[i] = q[old(i)] /\ q[old(i)] # q[J]
      BY <1>3, <1>6
    <3> QED
      BY <1>6, <3>1
  <2>2. ASSUME NEW c \in used2 \ {held2.node} PROVE \E i \in 1 .. Len(r) : r[i] = c
    <3>1. PICK k \in 1 .. Len(q) : q[k] = c /\ k # J
      BY <1>6
    <3>2. PICK i \in 1 .. Len(r) : old(i) = k
      BY <1>4, <3>1
    <3> QED
      BY <1>3, <3>1, <3>2
  <2> QED
    BY <2>1, <2>2
<1>9. {m[r[i]].data : i \in 1 .. Len(r)} = DOMAIN left2 \ {held2.timer}
  <2>1. ASSUME NEW i \in 1 .. Len(r) PROVE m[r[i]].data \in DOMAIN left2 \ {held2.timer}
    <3>1. /\ old(i) \in 1 .. Len(q) /\ m[r[i]].data = node[q[old(i)]].data
          /\ node[q[old(i)]].data # node[q[J]].data
      BY <1>3, <1>6, <1>7
    <3> QED
      BY <1>6, <3>1
  <2>2. ASSUME NEW u \in DOMAIN left2 \ {held2.timer} PROVE \E i \in 1 .. Len(r) : m[r[i]].data = u
    <3>1. PICK k \in 1 .. Len(q) : node[q[k]].data = u /\ k # J
      <4>1. u \in DOMAIN time \ {held.timer} /\ u # node[q[J]].data
        OBVIOUS
      <4> QED
        BY ONLY <1>6, <4>1
    <3>2. PICK i \in 1 .. Len(r) : old(i) = k
      BY <1>4, <3>1
    <3> QED
      BY <1>7, <3>1, <3>2
  <2> QED
    BY <2>1, <2>2
<1>10. \A i, j \in 1 .. Len(r) : m[r[i]].data = m[r[j]].data => i = j
  BY <1>3, <1>5, <1>6, <1>7
<1>11. ASSUME NEW i \in 1 .. Len(r)
       PROVE  m[r[i]].priority = left2[m[r[i]].data] /\ m[r[i]].priority >= i + 1 - MaxNodes
  <2>1. m[r[i]].data \in DOMAIN left2 \ {held2.timer}
    BY <1>9
  <2>2. left2[m[r[i]].data] = time[m[r[i]].data] - d
    BY <2>1
  <2>3. m[r[i]].priority = left2[m[r[i]].data]
    <3>1. old(i) \in 1 .. Len(q) /\ m[r[i]].priority = node[q[old(i)]].priority - d
          /\ m[r[i]].data = node[q[old(i)]].data
      BY <1>3, <1>7
    <3>2. node[q[old(i)]].priority = time[node[q[old(i)]].data]
      BY <1>6, <3>1
    <3> QED
      BY <2>2, <3>1, <3>2
  <2>4. m[r[i]].priority >= i + 1 - MaxNodes
    <3>1. node[q[old(i)]].priority \in Int /\ node[q[old(i)]].priority >= old(i) + 1 - MaxNodes
      BY <1>3, <1>6
    <3>2. old(i) \in Int /\ i \in Int /\ old(i) >= i /\ (d = 1 => old(i) = i + 1)
          /\ m[r[i]].priority = node[q[old(i)]].priority - d
      BY <1>1, <1>3, <1>7
    <3> QED
      BY <1>1, <3>1, <3>2
  <2> QED
    BY <2>3, <2>4
<1>12. \A i, j \in 1 .. Len(r) : i < j => m[r[i]].priority <= m[r[j]].priority
  <2> SUFFICES ASSUME NEW i \in 1 .. Len(r), NEW j \in 1 .. Len(r), i < j
               PROVE  m[r[i]].priority <= m[r[j]].priority
    OBVIOUS
  <2>1. old(i) \in 1 .. Len(q) /\ old(j) \in 1 .. Len(q) /\ old(i) <= old(j)
    BY <1>3, <1>5
  <2>2. node[q[old(i)]].priority <= node[q[old(j)]].priority
        /\ node[q[old(i)]].priority \in Int /\ node[q[old(j)]].priority \in Int
    BY <1>6, <2>1
  <2> QED
    BY <1>7, <2>2, SMTT(30)
<1>13. Files(r, m, used2, left2, held2)
  BY <1>2, <1>8, <1>9, <1>10, <1>11, <1>12 DEF Files, HeldAsFiled
<1> QED
  BY <1>13 DEF r

(* The time goes on by d, and the order stays.                             *)
Keeps(q, node, used, time, held, d, m, left2, used2, held2) ==
  /\ d \in Nat
  /\ used2 \subseteq Nodes /\ DOMAIN left2 \subseteq Timers /\ HeldAsFiled(used2, left2, held2)
  /\ used2 \ {held2.node} = used \ {held.node}
  /\ DOMAIN left2 \ {held2.timer} = DOMAIN time \ {held.timer}
  /\ \A u \in DOMAIN left2 \ {held2.timer} : left2[u] = time[u] - d
  /\ \A i \in 1 .. Len(q) : /\ m[q[i]].priority = node[q[i]].priority - d
                            /\ m[q[i]].data = node[q[i]].data
                            /\ m[q[i]].priority >= i + 1 - MaxNodes
  /\ \A c \in Nodes : m[c].priority \in Int /\ m[c].priority < INVALID

(* The records agree when only time has passed or what is held was freed.  *)
LEMMA FilesKeep ==
  ASSUME NEW q, NEW node, NEW used, NEW time, NEW held, Files(q, node, used, time, held),
         NEW d, NEW m, NEW left2, NEW used2, NEW held2,
         Keeps(q, node, used, time, held, d, m, left2, used2, held2)
  PROVE  Files(q, m, used2, left2, held2)
<1> SUFFICES ASSUME d \in Nat, used2 \subseteq Nodes, DOMAIN left2 \subseteq Timers,
                    HeldAsFiled(used2, left2, held2),
                    used2 \ {held2.node} = used \ {held.node},
                    DOMAIN left2 \ {held2.timer} = DOMAIN time \ {held.timer},
                    \A u \in DOMAIN left2 \ {held2.timer} : left2[u] = time[u] - d,
                    \A i \in 1 .. Len(q) : /\ m[q[i]].priority = node[q[i]].priority - d
                                          /\ m[q[i]].data = node[q[i]].data
                                          /\ m[q[i]].priority >= i + 1 - MaxNodes,
                    \A c \in Nodes : m[c].priority \in Int /\ m[c].priority < INVALID
             PROVE  Files(q, m, used2, left2, held2)
  BY DEF Keeps
<1>0. FiledFacts(q, node, used, time, held)
  BY ONLY Files(q, node, used, time, held), Filed
<1>1. /\ IsOrder(q)
      /\ {q[i] : i \in 1 .. Len(q)} = used \ {held.node}
      /\ {node[q[i]].data : i \in 1 .. Len(q)} = DOMAIN time \ {held.timer}
      /\ \A i, j \in 1 .. Len(q) : node[q[i]].data = node[q[j]].data => i = j
      /\ \A i, j \in 1 .. Len(q) : i <= j => node[q[i]].priority <= node[q[j]].priority
      /\ \A i \in 1 .. Len(q) :
           /\ node[q[i]].data \in DOMAIN time \ {held.timer}
           /\ node[q[i]].priority \in Int
           /\ node[q[i]].priority = time[node[q[i]].data]
  BY <1>0 DEF FiledFacts
<1>2. {m[q[i]].data : i \in 1 .. Len(q)} = DOMAIN left2 \ {held2.timer}
  BY <1>1
<1>3. \A i, j \in 1 .. Len(q) : m[q[i]].data = m[q[j]].data => i = j
  BY <1>1
<1>4. \A i \in 1 .. Len(q) : m[q[i]].priority = left2[m[q[i]].data]
  BY <1>1
<1>5. \A i, j \in 1 .. Len(q) : i < j => m[q[i]].priority <= m[q[j]].priority
  <2> SUFFICES ASSUME NEW i \in 1 .. Len(q), NEW j \in 1 .. Len(q), i < j
               PROVE  m[q[i]].priority <= m[q[j]].priority
    OBVIOUS
  <2>1. node[q[i]].priority <= node[q[j]].priority
        /\ node[q[i]].priority \in Int /\ node[q[j]].priority \in Int
    BY <1>1
  <2>2. m[q[i]].priority = node[q[i]].priority - d /\ m[q[j]].priority = node[q[j]].priority - d
    OBVIOUS
  <2> QED
    BY <2>1, <2>2
<1> QED
  BY <1>1, <1>2, <1>3, <1>4, <1>5 DEF Files, HeldAsFiled

-----------------------------------------------------------------------------
(* The skip list: its levels.                                              *)

Skips == [node : [Cells -> SkipNode], level : Levels, length : Nat]

(* The types of the fields of a skip list.                                 *)
LEMMA SkipFields ==
  ASSUME NEW s \in Skips
  PROVE  /\ s = [node |-> s.node, level |-> s.level, length |-> s.length]
         /\ s.node \in [Cells -> SkipNode] /\ s.level \in Levels /\ s.length \in Nat
         /\ MaxLevel \in Nat /\ s.level \in Nat /\ 0 .. s.level \subseteq Levels
         /\ \A c \in Cells :
              /\ s.node[c] = [priority |-> s.node[c].priority, level |-> s.node[c].level,
                              data |-> s.node[c].data, forward |-> s.node[c].forward]
              /\ s.node[c].priority \in Int /\ s.node[c].data \in Timers \cup {NULL}
              /\ s.node[c].level \in Levels /\ s.node[c].level \in Nat
              /\ s.node[c].forward \in [Levels -> Pointers]
              /\ \A i \in Levels : Forward(s, c, i) = s.node[c].forward[i]
                                   /\ Forward(s, c, i) \in Pointers
                                   /\ Forwards(s, i)[c] = Forward(s, c, i)
         /\ \A i \in Levels : Forwards(s, i) \in [Cells -> Pointers]
<1>1. MaxLevel \in Nat
  BY LevelAssumption
<1>2. /\ s = [node |-> s.node, level |-> s.level, length |-> s.length]
      /\ s.node \in [Cells -> SkipNode] /\ s.level \in Levels /\ s.length \in Nat
  BY DEF Skips
<1>3. s.level \in Nat /\ 0 .. s.level \subseteq Levels
  BY <1>1, <1>2 DEF Levels
<1>4. ASSUME NEW c \in Cells
      PROVE  /\ s.node[c] = [priority |-> s.node[c].priority, level |-> s.node[c].level,
                             data |-> s.node[c].data, forward |-> s.node[c].forward]
             /\ s.node[c].priority \in Int /\ s.node[c].data \in Timers \cup {NULL}
             /\ s.node[c].level \in Levels /\ s.node[c].level \in Nat
             /\ s.node[c].forward \in [Levels -> Pointers]
  <2>1. s.node[c] \in SkipNode
    BY <1>2
  <2>2. s.node[c].level \in Levels
    BY <2>1 DEF SkipNode
  <2>3. s.node[c].level \in Nat
    BY <2>2, <1>1 DEF Levels
  <2> QED
    BY <2>1, <2>2, <2>3 DEF SkipNode
<1>5. ASSUME NEW c \in Cells, NEW i \in Levels
      PROVE  /\ Forward(s, c, i) = s.node[c].forward[i] /\ Forward(s, c, i) \in Pointers
             /\ Forwards(s, i)[c] = Forward(s, c, i)
  BY <1>4, Addresses DEF Forward, Forwards
<1>6. ASSUME NEW i \in Levels PROVE Forwards(s, i) \in [Cells -> Pointers]
  <2>1. \A c \in Cells : s.node[c].forward[i] \in Pointers
    BY <1>4
  <2> QED
    BY <2>1 DEF Forwards
<1> QED
  BY <1>1, <1>2, <1>3, <1>4, <1>5, <1>6

(* Head and tail are on every level, a node on those up to its own.        *)
LEMMA LevelsOn ==
  ASSUME NEW s, NEW q, SkipLinked(s, q), IsOrder(q)
  PROVE  /\ s \in Skips
         /\ \A i \in Levels : IsOn(s, q, i, 0) /\ IsOn(s, q, i, Len(q) + 1)
         /\ \A i \in Levels, k \in 1 .. Len(q) : IsOn(s, q, i, k) <=> s.node[q[k]].level >= i
         /\ \A k \in 1 .. Len(q) : s.node[q[k]].level \in Nat /\ s.node[q[k]].level <= s.level
<1>1. s \in Skips /\ s.node[HEAD].level = MaxLevel
      /\ \A j \in 1 .. Len(q) : s.node[q[j]].level <= s.level
  BY DEF SkipLinked, Skips
<1>2. MaxLevel \in Nat
  BY LevelAssumption
<1>3. \A i \in Levels : IsOn(s, q, i, 0) /\ IsOn(s, q, i, Len(q) + 1)
  BY <1>1, <1>2, Places DEF IsOn, Levels
<1>4. ASSUME NEW i \in Levels, NEW k \in 1 .. Len(q)
      PROVE  IsOn(s, q, i, k) <=> s.node[q[k]].level >= i
  BY Places DEF IsOn
<1>5. \A k \in 1 .. Len(q) : s.node[q[k]].level \in Nat
  BY <1>1, SkipFields, Places, Addresses
<1> QED
  BY <1>1, <1>3, <1>4, <1>5

(* On every level a place leads to one place behind it.                    *)
LEMMA SomeFollows ==
  ASSUME NEW s, NEW q, IsOrder(q), NEW i, NEW j \in 0 .. Len(q)
  PROVE  \E k \in 1 .. Len(q) + 1 : Follows(s, q, i, j, k)
<1> DEFINE S == {k \in j + 1 .. Len(q) + 1 : IsOn(s, q, i, k)}
<1>1. Len(q) \in Nat /\ j \in Nat
  BY Places
<1>2. S \in SUBSET Nat /\ Len(q) + 1 \in S
  BY <1>1 DEF IsOn
<1>3. PICK k \in S : \A m \in S : k <= m
  <2> HIDE DEF S
  <2> QED
    BY <1>2, SmallestMember
<1>4. k \in 1 .. Len(q) + 1 /\ j < k /\ IsOn(s, q, i, k)
  BY <1>1
<1>5. ASSUME NEW m \in j + 1 .. k - 1 PROVE ~ IsOn(s, q, i, m)
  BY <1>1, <1>3, <1>4
<1> QED
  BY <1>4, <1>5 DEF Follows

(* No place has two successors on a level.                                 *)
LEMMA OneFollows ==
  ASSUME NEW s, NEW q, NEW i, NEW j \in Nat, NEW k \in Nat, NEW m \in Nat,
         Follows(s, q, i, j, k), Follows(s, q, i, j, m)
  PROVE  k = m
<1>1. j < k /\ IsOn(s, q, i, k) /\ \A x \in j + 1 .. k - 1 : ~ IsOn(s, q, i, x)
  BY DEF Follows
<1>2. j < m /\ IsOn(s, q, i, m) /\ \A x \in j + 1 .. m - 1 : ~ IsOn(s, q, i, x)
  BY DEF Follows
<1>3. ~ (k < m) /\ ~ (m < k)
  BY <1>1, <1>2
<1> QED
  BY <1>3

(* forward leads from each place on a level to its successor there.        *)
LEMMA ForwardIs ==
  ASSUME NEW s, NEW q, IsOrder(q), SkipLinked(s, q), NEW i \in Levels, NEW j \in 0 .. Len(q),
         IsOn(s, q, i, j)
  PROVE  \E k \in 1 .. Len(q) + 1 : /\ Follows(s, q, i, j, k)
                                    /\ Forward(s, Place(q, j), i) = Place(q, k)
                                    /\ Forwards(s, i)[Place(q, j)] = Place(q, k)
<1>1. PICK k \in 1 .. Len(q) + 1 : Follows(s, q, i, j, k)
  BY SomeFollows
<1>2. s.node[Place(q, j)].forward[i] = Place(q, k)
  BY <1>1 DEF SkipLinked
<1>3. s \in Skips /\ Place(q, j) \in Cells
  BY LevelsOn, Places
<1>4. /\ Forward(s, Place(q, j), i) = s.node[Place(q, j)].forward[i]
      /\ Forwards(s, i)[Place(q, j)] = Forward(s, Place(q, j), i)
  BY <1>3, SkipFields
<1> QED
  BY <1>1, <1>2, <1>4

(* The same, for a successor that is known.                                *)
LEMMA ForwardToPlace ==
  ASSUME NEW s, NEW q, IsOrder(q), SkipLinked(s, q), NEW i \in Levels, NEW j \in 0 .. Len(q),
         IsOn(s, q, i, j), NEW k \in 1 .. Len(q) + 1, Follows(s, q, i, j, k)
  PROVE  Forward(s, Place(q, j), i) = Place(q, k) /\ Forwards(s, i)[Place(q, j)] = Place(q, k)
<1>1. PICK m \in 1 .. Len(q) + 1 : /\ Follows(s, q, i, j, m)
                                   /\ Forward(s, Place(q, j), i) = Place(q, m)
                                   /\ Forwards(s, i)[Place(q, j)] = Place(q, m)
  BY ForwardIs
<1>2. m = k
  <2>1. Len(q) \in Nat
    BY Places
  <2>2. m \in Nat /\ k \in Nat /\ j \in Nat
    BY <2>1
  <2> QED
    BY <1>1, <2>2, OneFollows
<1> QED
  BY <1>1, <1>2

(* Tail leads nowhere.                                                     *)
LEMMA TailLeads ==
  ASSUME NEW s, NEW q, IsOrder(q), SkipLinked(s, q), NEW i \in Levels
  PROVE  Forward(s, TAIL, i) = NULL /\ Forwards(s, i)[TAIL] = NULL
         /\ s.node[TAIL].priority = INVALID
<1>1. s.node[TAIL].forward[i] = NULL /\ s.node[TAIL].priority = INVALID
  BY DEF SkipLinked
<1>2. s \in Skips /\ TAIL \in Cells
  BY LevelsOn, Addresses
<1>3. Forward(s, TAIL, i) = s.node[TAIL].forward[i] /\ Forwards(s, i)[TAIL] = Forward(s, TAIL, i)
  BY <1>2, SkipFields
<1> QED
  BY <1>1, <1>3

(* The places at on the level i, and the level as it reads.                *)
LevelIs(s, q, i, m, at) ==
  /\ m <= Len(q)
  /\ \A x, y \in 1 .. m : x < y => at[x] < at[y]
  /\ {at[x] : x \in 1 .. m} = {k \in 1 .. Len(q) : s.node[q[k]].level >= i}
  /\ AtLevel(s, i) \in Seq(Nodes) /\ Len(AtLevel(s, i)) = m
  /\ DOMAIN AtLevel(s, i) = 1 .. m
  /\ \A x \in 1 .. m : AtLevel(s, i)[x] = q[at[x]]

(* Each level reads as the nodes that reach it, in order.                  *)
LEMMA AtLevelIs ==
  ASSUME NEW s, NEW q, IsOrder(q), Len(q) <= MaxNodes, SkipLinked(s, q), NEW i \in Levels
  PROVE  \E m \in Nat : \E at \in [1 .. m -> 1 .. Len(q)] : LevelIs(s, q, i, m, at)
<1>1. Len(q) \in Nat /\ \A k \in 1 .. Len(q) : q[k] \in Nodes /\ Place(q, k) = q[k]
  BY Places
<1> DEFINE P == {k \in 1 .. Len(q) : s.node[q[k]].level >= i}
<1>2. P \in SUBSET (1 .. Len(q))
  OBVIOUS
<1> DEFINE ListsP(m, at) == /\ m <= Len(q)
                            /\ \A x, y \in 1 .. m : x < y => at[x] < at[y]
                            /\ {at[x] : x \in 1 .. m} = P
<1>3. \E m \in Nat : \E at \in [1 .. m -> 1 .. Len(q)] : ListsP(m, at)
  <2> HIDE DEF P
  <2> QED
    BY <1>1, <1>2, Listing
<1>4. PICK m \in Nat : \E at \in [1 .. m -> 1 .. Len(q)] : ListsP(m, at)
  BY <1>3
<1>5. PICK at \in [1 .. m -> 1 .. Len(q)] : ListsP(m, at)
  BY <1>4
<1>6. /\ m <= Len(q)
      /\ \A x, y \in 1 .. m : x < y => at[x] < at[y]
      /\ \A x \in 1 .. m : at[x] \in 1 .. Len(q) /\ IsOn(s, q, i, at[x])
      /\ \A k \in 1 .. Len(q) : IsOn(s, q, i, k) => \E x \in 1 .. m : at[x] = k
  <2>1. \A x \in 1 .. m : at[x] \in P
    BY <1>5
  <2>2. \A k \in P : \E x \in 1 .. m : at[x] = k
    BY <1>5
  <2>3. \A k \in 1 .. Len(q) : IsOn(s, q, i, k) <=> k \in P
    BY LevelsOn
  <2>4. m <= Len(q) /\ \A x, y \in 1 .. m : x < y => at[x] < at[y]
    BY <1>5
  <2> QED
    BY <2>1, <2>2, <2>3, <2>4
<1> DEFINE at0(x) == IF x = 0 THEN 0 ELSE IF x = m + 1 THEN Len(q) + 1 ELSE at[x]
<1>7. ASSUME NEW x \in 0 .. m
      PROVE  /\ at0(x) \in 0 .. Len(q) /\ at0(x + 1) \in 1 .. Len(q) + 1
             /\ IsOn(s, q, i, at0(x)) /\ Follows(s, q, i, at0(x), at0(x + 1))
  <2>1. at0(x) \in 0 .. Len(q) /\ IsOn(s, q, i, at0(x))
    <3>1. CASE x = 0
      BY <1>1, <3>1, LevelsOn
    <3>2. CASE x # 0
      <4>1. x \in 1 .. m /\ x # m + 1
        BY <3>2
      <4> QED
        BY <1>1, <1>6, <3>2, <4>1
    <3> QED
      BY <3>1, <3>2
  <2>2. at0(x + 1) \in 1 .. Len(q) + 1 /\ IsOn(s, q, i, at0(x + 1))
    <3>1. CASE x = m
      BY <1>1, <3>1, LevelsOn
    <3>2. CASE x # m
      <4>1. x + 1 \in 1 .. m /\ x + 1 # m + 1 /\ x + 1 # 0
        BY <3>2
      <4> QED
        BY <1>1, <1>6, <4>1
    <3> QED
      BY <3>1, <3>2
  <2>3. at0(x) < at0(x + 1)
    <3>1. CASE x = 0
      BY <1>1, <2>2, <3>1
    <3>2. CASE x # 0 /\ x = m
      BY <1>1, <1>6, <3>2
    <3>3. CASE x # 0 /\ x # m
      <4>1. x \in 1 .. m /\ x + 1 \in 1 .. m /\ x # m + 1 /\ x + 1 # m + 1 /\ x + 1 # 0 /\ x < x + 1
        BY <3>3
      <4> QED
        BY <1>6, <4>1
    <3> QED
      BY <3>1, <3>2, <3>3
  <2>4. ASSUME NEW z \in at0(x) + 1 .. at0(x + 1) - 1, IsOn(s, q, i, z) PROVE FALSE
    <3>1. z \in 1 .. Len(q) /\ at0(x) < z /\ z < at0(x + 1)
      BY <1>1, <2>1, <2>2
    <3>2. PICK y \in 1 .. m : at[y] = z
      BY <1>6, <2>4, <3>1
    <3>3. x < y
      <4>1. CASE x = 0
        BY <4>1
      <4>2. CASE x # 0
        <5>1. x \in 1 .. m /\ at0(x) = at[x] /\ at[x] \in Int /\ at[y] \in Int
          BY <1>1, <1>6, <4>2
        <5>2. y < x => at[y] < at[x]
          BY <1>6, <5>1
        <5>3. ~ (y < x) /\ y # x
          BY <3>1, <3>2, <5>1, <5>2
        <5> QED
          BY <5>3
      <4> QED
        BY <4>1, <4>2
    <3>4. x + 1 \in 1 .. m /\ at0(x + 1) = at[x + 1]
      BY <3>3
    <3>5. x + 1 < y => at[x + 1] < at[y]
      BY <1>6, <3>4
    <3>6. at[x + 1] \in Int /\ at[y] \in Int
      BY <1>1, <1>6, <3>4
    <3> QED
      BY <3>1, <3>2, <3>3, <3>4, <3>5, <3>6
  <2> QED
    BY <2>1, <2>2, <2>3, <2>4 DEF Follows
<1>8. \A x \in 0 .. m : Forward(s, Place(q, at0(x)), i) = Place(q, at0(x + 1))
                        /\ Forwards(s, i)[Place(q, at0(x))] = Place(q, at0(x + 1))
  <2> HIDE DEF at0
  <2> QED
    BY <1>7, ForwardToPlace
<1> DEFINE e == [x \in 1 .. m |-> q[at[x]]]
<1>9. /\ e \in Seq(Nodes) /\ Len(e) = m /\ DOMAIN e = 1 .. m
      /\ \A x \in 1 .. m : e[x] = q[at[x]]
  BY <1>1, <1>6
<1> HIDE DEF e
<1>10. \A x \in 1 .. m : at0(x) = at[x] /\ Place(q, at0(x)) = e[x]
  BY <1>1, <1>6, <1>9
<1>11. at0(0) = 0 /\ at0(m + 1) = Len(q) + 1
  OBVIOUS
<1> HIDE DEF at0
<1>12. Place(q, at0(m + 1)) = TAIL /\ Place(q, at0(0)) = HEAD
  BY <1>11, Places
<1> DEFINE p == Forward(s, HEAD, i)
<1>13. p = Place(q, at0(1))
  <2>1. 0 \in 0 .. m /\ 0 + 1 = 1
    OBVIOUS
  <2> QED
    BY <1>8, <1>12, <2>1
<1>14. IF e = <<>> THEN p \notin Nodes ELSE p = e[1]
  <2>1. CASE m = 0
    BY <1>9, <1>12, <1>13, <2>1, Addresses
  <2>2. CASE m # 0
    <3>1. 1 \in 1 .. m
      BY <2>2
    <3> QED
      BY <1>9, <1>10, <1>13, <3>1
  <2> QED
    BY <2>1, <2>2
<1>15. ASSUME NEW x \in 1 .. Len(e)
       PROVE  IF x = Len(e) THEN Forwards(s, i)[e[x]] \notin Nodes
              ELSE Forwards(s, i)[e[x]] = e[x + 1]
  <2>1. x \in 0 .. m /\ x \in 1 .. m
    BY <1>9
  <2>2. Forwards(s, i)[e[x]] = Place(q, at0(x + 1))
    BY <1>8, <1>10, <2>1
  <2>3. CASE x = m
    BY <1>9, <1>12, <2>2, <2>3, Addresses
  <2>4. CASE x # m
    <3>1. x + 1 \in 1 .. m
      BY <2>1, <2>4
    <3> QED
      BY <1>9, <1>10, <2>2, <2>4, <3>1
  <2> QED
    BY <2>3, <2>4
<1>16. s \in Skips
  BY LevelsOn
<1>17. p \in Pointers /\ Forwards(s, i) \in [Cells -> Pointers] /\ Len(e) <= MaxNodes
  <2>1. p \in Pointers /\ Forwards(s, i) \in [Cells -> Pointers]
    BY <1>16, SkipFields, Addresses
  <2> QED
    BY <1>1, <1>6, <1>9, <2>1, Addresses
<1> HIDE DEF p
<1>18. Chain(p, Forwards(s, i)) = e
  BY <1>9, <1>14, <1>15, <1>17, ChainAlong
<1>19. AtLevel(s, i) = e
  BY <1>18 DEF AtLevel, p
<1>20. {at[x] : x \in 1 .. m} = {k \in 1 .. Len(q) : s.node[q[k]].level >= i}
  BY <1>5
<1>21. LevelIs(s, q, i, m, at)
  BY <1>6, <1>9, <1>19, <1>20 DEF LevelIs
<1> QED
  BY <1>21

(* The bottom level reads as the order.                                    *)
LEMMA SkipOrderIs ==
  ASSUME NEW s, NEW q, IsOrder(q), Len(q) <= MaxNodes, SkipLinked(s, q)
  PROVE  SkipOrder(s) = q /\ cbegin(s) = Place(q, 1)
<1>1. Len(q) \in Nat /\ (\A k \in 1 .. Len(q) : q[k] \in Nodes /\ Place(q, k) = q[k]) /\ q \in Seq(Nodes)
  BY Places DEF IsOrder
<1>2. 0 \in Levels /\ s \in Skips
  BY LevelAssumption, LevelsOn DEF Levels
<1>3. \A k \in 0 .. Len(q) + 1 : IsOn(s, q, 0, k)
  <2> SUFFICES ASSUME NEW k \in 0 .. Len(q) + 1 PROVE IsOn(s, q, 0, k)
    OBVIOUS
  <2>1. k = 0 \/ k = Len(q) + 1 \/ k \in 1 .. Len(q)
    BY <1>1
  <2>2. \A j \in 1 .. Len(q) : s.node[q[j]].level >= 0
    BY LevelsOn
  <2> QED
    BY <1>2, <2>1, <2>2, LevelsOn
<1>4. ASSUME NEW k \in 0 .. Len(q) PROVE Follows(s, q, 0, k, k + 1)
  BY <1>1, <1>3 DEF Follows
<1>5. ASSUME NEW k \in 0 .. Len(q)
      PROVE  Forward(s, Place(q, k), 0) = Place(q, k + 1) /\ Forwards(s, 0)[Place(q, k)] = Place(q, k + 1)
  <2>1. k + 1 \in 1 .. Len(q) + 1 /\ IsOn(s, q, 0, k)
    BY <1>1, <1>3
  <2> QED
    BY <1>2, <1>4, <2>1, ForwardToPlace
<1>6. Forward(s, HEAD, 0) = Place(q, 1)
  <2>1. 0 \in 0 .. Len(q) /\ 0 + 1 = 1 /\ Place(q, 0) = HEAD
    BY <1>1, Places
  <2> QED
    BY <1>5, <2>1
<1>7. IF q = <<>> THEN Place(q, 1) \notin Nodes ELSE Place(q, 1) = q[1]
  <2>1. CASE q = <<>>
    BY <2>1, <1>1, Places, Addresses
  <2>2. CASE q # <<>>
    <3>1. 1 \in 1 .. Len(q)
      BY <1>1, <2>2
    <3> QED
      BY <2>2, <3>1, Places
  <2> QED
    BY <2>1, <2>2
<1>8. ASSUME NEW k \in 1 .. Len(q)
      PROVE  IF k = Len(q) THEN Forwards(s, 0)[q[k]] \notin Nodes ELSE Forwards(s, 0)[q[k]] = q[k + 1]
  <2>1. Forwards(s, 0)[q[k]] = Place(q, k + 1)
    <3>1. k \in 0 .. Len(q) /\ Place(q, k) = q[k]
      BY <1>1
    <3> QED
      BY <1>5, <3>1
  <2>2. CASE k = Len(q)
    BY <2>1, <2>2, Places, Addresses
  <2>3. CASE k # Len(q)
    <3>1. k + 1 \in 1 .. Len(q)
      BY <1>1, <2>3
    <3> QED
      BY <1>1, <2>1, <2>3, <3>1
  <2> QED
    BY <2>2, <2>3
<1>9. Forwards(s, 0) \in [Cells -> Pointers] /\ Place(q, 1) \in Pointers
  BY <1>1, <1>2, SkipFields, Places
<1>10. Chain(Place(q, 1), Forwards(s, 0)) = q
  BY <1>1, <1>7, <1>8, <1>9, ChainAlong
<1> QED
  BY <1>6, <1>10 DEF SkipOrder, AtLevel, cbegin

-----------------------------------------------------------------------------
(* The skip list: the array update.                                        *)

(* A walk ends at an address, or at null.                                  *)
LEMMA WalkedType ==
  ASSUME NEW on \in SUBSET Cells, NEW next \in [Cells -> Pointers], NEW p \in Pointers
  PROVE  Walked(p, on, next) \in Pointers
<1>1. LastStep \in Nat
  BY NodesAssumption DEF LastStep
<1>2. PICK w \in [0 .. LastStep -> [Pointers -> Pointers]] : WalksBy(w, on, next)
  BY WalkSteps
<1>3. Walked(p, on, next) = w[LastStep][p]
  BY <1>2 DEF WalksBy
<1>4. w[LastStep] \in [Pointers -> Pointers]
  BY <1>1
<1> QED
  BY <1>3, <1>4

(* Where the walk on level i is not to stop.                               *)
Going(s, stops, i) == {c \in Cells : Forward(s, c, i) \notin stops}

(* The array update is filled from the top.                                *)
LEMMA UpdateSteps ==
  ASSUME NEW s \in Skips, NEW stops
  PROVE  \A i \in 0 .. s.level :
           Update(s, stops)[i] =
             Walked(IF i = s.level THEN HEAD ELSE Update(s, stops)[i + 1],
                    Going(s, stops, i), Forwards(s, i))
<1> DEFINE L == s.level
           G(i, p) == Walked(p, Going(s, stops, i), Forwards(s, i))
           body(u) == [i \in 0 .. L |->
                         Walked(IF i = L THEN HEAD ELSE u[i + 1],
                                {c \in Cells : Forward(s, c, i) \notin stops}, Forwards(s, i))]
           V == (0 .. L) \X Pointers
           v == <<L, G(L, HEAD)>>
           F == [x \in V |-> IF x[1] = 0 THEN x ELSE <<x[1] - 1, G(x[1] - 1, x[2])>>]
<1>1. L \in Nat /\ 0 .. L \subseteq Levels
  BY SkipFields
<1>2. \A i \in 0 .. L, p \in Pointers : G(i, p) \in Pointers
  <2> SUFFICES ASSUME NEW i \in 0 .. L, NEW p \in Pointers PROVE G(i, p) \in Pointers
    OBVIOUS
  <2>1. Going(s, stops, i) \in SUBSET Cells
    BY DEF Going
  <2>2. Forwards(s, i) \in [Cells -> Pointers]
    BY <1>1, SkipFields
  <2> QED
    BY <2>1, <2>2, WalkedType
<1> HIDE DEF G
<1>3. v \in V
  BY <1>1, <1>2, Addresses
<1>4. F \in [V -> V]
  <2> SUFFICES ASSUME NEW x \in V PROVE (IF x[1] = 0 THEN x ELSE <<x[1] - 1, G(x[1] - 1, x[2])>>) \in V
    OBVIOUS
  <2>1. x[1] # 0 => x[1] - 1 \in 0 .. L
    BY <1>1
  <2> QED
    BY <1>2, <2>1
<1> HIDE DEF V, v, F
<1>5. PICK f \in [0 .. L -> V] : Iterates(f, v, F, L)
  BY <1>1, <1>3, <1>4, IteratesExist
<1>6. f[0] = v /\ \A k \in 1 .. L : f[k] = F[f[k - 1]]
  BY <1>5 DEF Iterates
<1> DEFINE P == {k \in 0 .. L : f[k][1] = L - k}
<1>7. P = 0 .. L
  <2>1. 0 \in P
    BY <1>1, <1>6 DEF v
  <2>2. ASSUME NEW k \in 0 .. L - 1, k \in P PROVE k + 1 \in P
    <3>1. k + 1 \in 1 .. L /\ (k + 1) - 1 = k /\ f[k] \in V
      BY <1>1
    <3>2. f[k + 1] = F[f[k]] /\ f[k][1] = L - k /\ f[k][1] # 0
      BY <1>1, <1>6, <2>2, <3>1
    <3>3. f[k + 1] = <<f[k][1] - 1, G(f[k][1] - 1, f[k][2])>>
      BY <3>1, <3>2 DEF F
    <3>4. L - (k + 1) = (L - k) - 1
      BY <1>1
    <3> QED
      BY <3>1, <3>2, <3>3, <3>4
  <2>3. P \in SUBSET (0 .. L)
    OBVIOUS
  <2> HIDE DEF P
  <2> QED
    BY <1>1, <2>1, <2>2, <2>3, AllUpTo
<1>8. \A k \in 0 .. L : f[k][1] = L - k
  BY <1>7 DEF P
<1> HIDE DEF P
<1> DEFINE u == [i \in 0 .. L |-> f[L - i][2]]
<1>9. ASSUME NEW i \in 0 .. L PROVE u[i] = G(i, IF i = L THEN HEAD ELSE u[i + 1])
  <2>1. CASE i = L
    <3>1. u[i] = f[0][2]
      BY <1>1, <2>1
    <3> QED
      BY <1>6, <2>1, <3>1 DEF v
  <2>2. CASE i # L
    <3>1. L - i \in 1 .. L /\ (L - i) - 1 \in 0 .. L /\ L - (i + 1) = (L - i) - 1 /\ i + 1 \in 0 .. L
          /\ L - ((L - i) - 1) = i + 1 /\ (i + 1) - 1 = i /\ i + 1 # 0
      BY <1>1, <2>2
    <3>2. f[L - i] = F[f[(L - i) - 1]] /\ f[(L - i) - 1][1] = i + 1 /\ f[(L - i) - 1] \in V
      BY <1>6, <1>8, <3>1
    <3>3. f[L - i] = <<i, G(i, f[(L - i) - 1][2])>>
      BY <3>1, <3>2 DEF F
    <3>4. u[i] = f[L - i][2] /\ u[i + 1] = f[(L - i) - 1][2]
      BY <3>1
    <3> HIDE DEF u
    <3> QED
      BY <2>2, <3>3, <3>4
  <2> QED
    BY <2>1, <2>2
<1>10. ASSUME NEW i \in 0 .. L, NEW p
       PROVE  G(i, p) = Walked(p, {c \in Cells : Forward(s, c, i) \notin stops}, Forwards(s, i))
  BY DEF G, Going
<1>11. u = body(u)
  <2>1. DOMAIN u = 0 .. L
    OBVIOUS
  <2>2. ASSUME NEW i \in 0 .. L PROVE u[i] = body(u)[i]
    BY <1>9, <1>10
  <2> HIDE DEF G
  <2> QED
    BY <2>1, <2>2
<1> DEFINE g == CHOOSE w : w = body(w)
<1>12. g = body(g)
  <2> HIDE DEF u
  <2> QED
    BY ONLY <1>11
<1>13. Update(s, stops) = g
  BY DEF Update
<1> HIDE DEF g
<1>14. ASSUME NEW i \in 0 .. L
       PROVE  g[i] = Walked(IF i = L THEN HEAD ELSE g[i + 1],
                             {c \in Cells : Forward(s, c, i) \notin stops}, Forwards(s, i))
  BY <1>12
<1> QED
  BY <1>13, <1>14 DEF Going

(* update leads over place J: on each level of the list it is the last     *)
(* place before J, from which the level leads to J or behind it.           *)
LeadsOver(s, q, i, b, J) ==
  /\ b \in 0 .. J - 1 /\ IsOn(s, q, i, b)
  /\ \E k \in J .. Len(q) + 1 : Follows(s, q, i, b, k)
Leads(s, q, i, c, J) == \E b \in 0 .. J - 1 : c = Place(q, b) /\ LeadsOver(s, q, i, b, J)
IsUpdate(s, q, update, J) == \A i \in 0 .. s.level : Leads(s, q, i, update[i], J)

(* The walks fill update with the last places before J, if they stop from  *)
(* J on only.                                                              *)
LEMMA UpdateIs ==
  ASSUME NEW s, NEW q, IsOrder(q), Len(q) <= MaxNodes, SkipLinked(s, q),
         NEW J \in 1 .. Len(q) + 1, NEW stops,
         \A k \in 1 .. J - 1 : Place(q, k) \notin stops,
         \A i \in 0 .. s.level, k \in J .. Len(q) + 1 :
           IsOn(s, q, i, k) /\ (\A m \in J .. k - 1 : ~ IsOn(s, q, i, m)) => Place(q, k) \in stops
  PROVE  IsUpdate(s, q, Update(s, stops), J)
<1> DEFINE L == s.level
           u == Update(s, stops)
<1>1. Len(q) \in Nat /\ J \in Nat /\ s \in Skips /\ L \in Nat /\ 0 .. L \subseteq Levels
  BY Places, LevelsOn, SkipFields
<1>2. ASSUME NEW i \in 0 .. L, NEW j \in 0 .. J - 1, IsOn(s, q, i, j)
      PROVE  Leads(s, q, i, Walked(Place(q, j), Going(s, stops, i), Forwards(s, i)), J)
  <2> DEFINE K == {k \in 0 .. J - 1 : IsOn(s, q, i, k)}
             on == Going(s, stops, i)
  <2>1. i \in Levels /\ Forwards(s, i) \in [Cells -> Pointers] /\ on \in SUBSET Cells
    BY <1>1, SkipFields DEF Going
  <2>2. K \in SUBSET (0 .. Len(q) + 2) /\ j \in K
    BY <1>1, <1>2
  <2>3. ASSUME NEW k \in K
        PROVE  /\ k \in 0 .. Len(q)
               /\ Place(q, k) \in on =>
                    \E m \in K : m > k /\ Forwards(s, i)[Place(q, k)] = Place(q, m)
               /\ Place(q, k) \notin on => \E m \in J .. Len(q) + 1 : Follows(s, q, i, k, m)
    <3>1. k \in 0 .. Len(q) /\ IsOn(s, q, i, k)
      BY <1>1
    <3>2. PICK m \in 1 .. Len(q) + 1 : /\ Follows(s, q, i, k, m)
                                       /\ Forward(s, Place(q, k), i) = Place(q, m)
                                       /\ Forwards(s, i)[Place(q, k)] = Place(q, m)
      BY <2>1, <3>1, ForwardIs
    <3>3. k < m /\ IsOn(s, q, i, m) /\ \A x \in k + 1 .. m - 1 : ~ IsOn(s, q, i, x)
      BY <3>2 DEF Follows
    <3>4. CASE m < J
      <4>1. m \in K /\ m \in 1 .. J - 1
        BY <1>1, <3>3, <3>4
      <4>2. Place(q, m) \notin stops
        BY <4>1
      <4>3. Place(q, k) \in on
        BY <3>1, <3>2, <4>2, Places DEF Going
      <4> QED
        BY <3>1, <3>2, <3>3, <4>1, <4>3
    <3>5. CASE ~ (m < J)
      <4>1. m \in J .. Len(q) + 1 /\ \A x \in J .. m - 1 : ~ IsOn(s, q, i, x)
        BY <1>1, <3>3, <3>5
      <4>2. Place(q, m) \in stops
        BY <3>3, <4>1
      <4>3. Place(q, k) \notin on
        BY <3>2, <4>2 DEF Going
      <4> QED
        BY <3>1, <3>2, <4>1, <4>3
    <3> QED
      BY <3>4, <3>5
  <2> HIDE DEF K, on
  <2>4. \A k \in K : Place(q, k) \in on =>
                       \E m \in K : m > k /\ Forwards(s, i)[Place(q, k)] = Place(q, m)
    BY <2>3
  <2>5. PICK k \in K : Walked(Place(q, j), on, Forwards(s, i)) = Place(q, k) /\ Place(q, k) \notin on
    BY <2>1, <2>2, <2>4, WalkAlong
  <2>6. \E m \in J .. Len(q) + 1 : Follows(s, q, i, k, m)
    BY <2>3, <2>5
  <2>7. k \in 0 .. J - 1 /\ IsOn(s, q, i, k)
    BY DEF K
  <2> QED
    BY <2>5, <2>6, <2>7 DEF Leads, LeadsOver, on
<1>3. \A i \in 0 .. L : u[i] = Walked(IF i = L THEN HEAD ELSE u[i + 1], Going(s, stops, i), Forwards(s, i))
  BY <1>1, UpdateSteps
<1> HIDE DEF u
<1>4. \A i \in 0 .. L, j \in 0 .. Len(q) : IsOn(s, q, i + 1, j) => IsOn(s, q, i, j)
  <2> SUFFICES ASSUME NEW i \in 0 .. L, NEW j \in 0 .. Len(q), IsOn(s, q, i + 1, j)
               PROVE  IsOn(s, q, i, j)
    OBVIOUS
  <2>1. Place(q, j) \in Cells
    BY Places
  <2>2. s.node[Place(q, j)].level \in Nat
    BY <1>1, <2>1, SkipFields
  <2> QED
    BY <1>1, <2>2 DEF IsOn
<1> DEFINE K == {k \in 0 .. L : Leads(s, q, L - k, u[L - k], J)}
<1>5. 0 \in K
  <2>1. L \in 0 .. L /\ 0 \in 0 .. J - 1 /\ L - 0 = L /\ 0 \in 0 .. L
    BY <1>1
  <2>2. IsOn(s, q, L, 0) /\ Place(q, 0) = HEAD
    BY <1>1, <2>1, LevelsOn, Places
  <2>3. Leads(s, q, L, Walked(HEAD, Going(s, stops, L), Forwards(s, L)), J)
    BY <1>2, <2>1, <2>2
  <2>4. u[L] = Walked(HEAD, Going(s, stops, L), Forwards(s, L))
    BY <1>3, <2>1
  <2> HIDE DEF L
  <2> QED
    BY <2>1, <2>3, <2>4
<1>6. ASSUME NEW k \in 0 .. L - 1, k \in K PROVE k + 1 \in K
  <2>1. L - (k + 1) \in 0 .. L /\ L - (k + 1) # L /\ (L - (k + 1)) + 1 = L - k /\ k + 1 \in 0 .. L
    BY <1>1
  <2>2. PICK b \in 0 .. J - 1 : u[L - k] = Place(q, b) /\ LeadsOver(s, q, L - k, b, J)
    BY <1>6 DEF Leads
  <2>3. IsOn(s, q, L - (k + 1), b)
    <3>1. IsOn(s, q, (L - (k + 1)) + 1, b) /\ b \in 0 .. Len(q)
      BY <1>1, <2>1, <2>2 DEF LeadsOver
    <3> QED
      BY <1>4, <2>1, <3>1
  <2>4. u[L - (k + 1)] = Walked(Place(q, b), Going(s, stops, L - (k + 1)), Forwards(s, L - (k + 1)))
    BY <1>3, <2>1, <2>2
  <2>5. Leads(s, q, L - (k + 1), u[L - (k + 1)], J)
    BY <1>2, <2>1, <2>3, <2>4
  <2> QED
    BY <2>1, <2>5
<1>7. K \in SUBSET (0 .. L)
  OBVIOUS
<1> HIDE DEF K
<1>8. K = 0 .. L
  BY <1>1, <1>5, <1>6, <1>7, AllUpTo
<1>9. ASSUME NEW i \in 0 .. L PROVE Leads(s, q, i, u[i], J)
  <2>1. L - i \in 0 .. L /\ L - (L - i) = i
    BY <1>1
  <2>2. L - i \in K
    BY <1>8, <2>1
  <2> QED
    BY <2>1, <2>2 DEF K
<1> QED
  BY <1>9 DEF IsUpdate, u

(* J is the first place of a priority or above it.                         *)
IsFirstAt(s, q, priority, J) ==
  /\ \A k \in 1 .. J - 1 : s.node[Place(q, k)].priority < priority
  /\ \A k \in J .. Len(q) + 1 : s.node[Place(q, k)].priority >= priority

(* skip_list_search, insert and delete find the first node not below a     *)
(* priority.                                                               *)
LEMMA BeforeIs ==
  ASSUME NEW s, NEW q, IsOrder(q), Len(q) <= MaxNodes, SkipLinked(s, q),
         NEW J \in 1 .. Len(q) + 1, NEW priority \in Int, IsFirstAt(s, q, priority, J)
  PROVE  IsUpdate(s, q, Before(s, priority), J) /\ At(s, priority) = Place(q, J)
<1> DEFINE stops == {c \in Cells : s.node[c].priority >= priority}
<1>1. Len(q) \in Nat /\ J \in Nat /\ s \in Skips /\ s.level \in Nat
  BY Places, LevelsOn, SkipFields
<1>2. \A k \in 1 .. J - 1 : Place(q, k) \notin stops
  <2> SUFFICES ASSUME NEW k \in 1 .. J - 1, Place(q, k) \in stops PROVE FALSE
    OBVIOUS
  <2>1. s.node[Place(q, k)].priority \in Int
    BY <1>1, SkipFields
  <2>2. s.node[Place(q, k)].priority < priority
    BY DEF IsFirstAt
  <2> QED
    BY <2>1, <2>2
<1>3. \A k \in J .. Len(q) + 1 : Place(q, k) \in stops
  BY <1>1, Places DEF IsFirstAt
<1> HIDE DEF stops
<1>4. IsUpdate(s, q, Update(s, stops), J)
  BY <1>2, <1>3, UpdateIs
<1>5. Before(s, priority) = Update(s, stops)
  BY DEF Before, stops
<1>6. 0 \in 0 .. s.level /\ 0 \in Levels
  BY <1>1, LevelAssumption DEF Levels
<1> DEFINE u == Before(s, priority)
<1>7. Leads(s, q, 0, u[0], J)
  BY <1>4, <1>5, <1>6 DEF IsUpdate
<1> HIDE DEF u
<1>8. PICK b \in 0 .. J - 1 : u[0] = Place(q, b) /\ LeadsOver(s, q, 0, b, J)
  BY <1>7 DEF Leads
<1>9. PICK k \in J .. Len(q) + 1 : Follows(s, q, 0, b, k)
  BY <1>8 DEF LeadsOver
<1>10. k = J
  <2>1. IsOn(s, q, 0, J)
    <3>1. CASE J = Len(q) + 1
      BY <1>6, <3>1, LevelsOn
    <3>2. CASE J # Len(q) + 1
      <4>1. J \in 1 .. Len(q)
        BY <1>1, <3>2
      <4>2. s.node[q[J]].level >= 0
        BY <4>1, LevelsOn
      <4> QED
        BY <1>6, <4>1, <4>2, LevelsOn
    <3> QED
      BY <3>1, <3>2
  <2>2. J \in b + 1 .. k - 1 \/ J = k
    BY <1>1
  <2> QED
    BY <1>9, <2>1, <2>2 DEF Follows
<1>11. Forward(s, Place(q, b), 0) = Place(q, k)
  <2>1. b \in 0 .. Len(q) /\ k \in 1 .. Len(q) + 1 /\ IsOn(s, q, 0, b)
    BY <1>1, <1>8 DEF LeadsOver
  <2> QED
    BY <1>6, <1>9, <2>1, ForwardToPlace
<1>12. At(s, priority) = Forward(s, u[0], 0)
  BY DEF At, u
<1> QED
  BY <1>4, <1>5, <1>8, <1>10, <1>11, <1>12

(* skip_list_delete2 finds the places before a node of the level of the    *)
(* list, and follows a null pointer for any other.                         *)
LEMMA BeforeNodeIs ==
  ASSUME NEW s, NEW q, IsOrder(q), Len(q) <= MaxNodes, SkipLinked(s, q),
         NEW J \in 1 .. Len(q)
  PROVE  /\ s.node[q[J]].level = s.level => IsUpdate(s, q, BeforeNode(s, q[J]), J)
         /\ DeleteFails(s, q[J]) <=> s.node[q[J]].level # s.level
<1> DEFINE n == q[J]
           L == s.level
           u == Update(s, {n})
<1>1. /\ Len(q) \in Nat /\ J \in Nat /\ s \in Skips /\ L \in Nat /\ 0 .. L \subseteq Levels
      /\ Place(q, J) = n /\ n \in Nodes /\ s.node[n].level \in Nat /\ s.node[n].level <= L
  BY Places, LevelsOn, SkipFields
<1>2. \A k \in 0 .. Len(q) + 2 : Place(q, k) = n => k = J
  <2>1. J \in 0 .. Len(q) + 2
    BY <1>1
  <2> QED
    BY <1>1, <2>1, Places
<1>3. ASSUME s.node[n].level = L PROVE IsUpdate(s, q, u, J)
  <2>1. \A k \in 1 .. J - 1 : Place(q, k) \notin {n}
    BY <1>1, <1>2
  <2>2. ASSUME NEW i \in 0 .. L, NEW k \in J .. Len(q) + 1, \A m \in J .. k - 1 : ~ IsOn(s, q, i, m)
        PROVE  Place(q, k) \in {n}
    <3>1. IsOn(s, q, i, J)
      <4>1. i \in Levels /\ s.node[q[J]].level >= i
        BY <1>1, <1>3
      <4> QED
        BY <4>1, LevelsOn
    <3>2. k = J
      BY <1>1, <2>2, <3>1
    <3> QED
      BY <1>1, <3>2
  <2>3. J \in 1 .. Len(q) + 1
    BY <1>1
  <2> HIDE DEF n
  <2> QED
    BY <2>1, <2>2, <2>3, UpdateIs
<1>4. ASSUME s.node[n].level # L PROVE u[L] = NULL
  <2> DEFINE K == {k \in 0 .. Len(q) + 2 : k = Len(q) + 2 \/ IsOn(s, q, L, k)}
             on == Going(s, {n}, L)
  <2>1. L \in Levels /\ Forwards(s, L) \in [Cells -> Pointers] /\ on \in SUBSET Cells /\ L \in 0 .. L
    BY <1>1, SkipFields DEF Going
  <2>2. K \in SUBSET (0 .. Len(q) + 2) /\ 0 \in K
    BY <1>1, <2>1, LevelsOn
  <2>3. J \notin K
    <3>1. ~ IsOn(s, q, L, J)
      BY <1>1, <1>4, <2>1, LevelsOn
    <3> QED
      BY <1>1, <3>1
  <2>4. ASSUME NEW k \in K, k # Len(q) + 2
        PROVE  \E m \in K : m > k /\ Forward(s, Place(q, k), L) = Place(q, m)
                                  /\ Forwards(s, L)[Place(q, k)] = Place(q, m)
    <3>1. CASE k = Len(q) + 1
      <4>1. Len(q) + 2 \in K /\ Len(q) + 2 > k
        BY <1>1, <3>1
      <4>2. Place(q, k) = TAIL /\ Place(q, Len(q) + 2) = NULL
        BY <3>1, Places
      <4>3. Forward(s, TAIL, L) = NULL /\ Forwards(s, L)[TAIL] = NULL
        BY <2>1, TailLeads
      <4> QED
        BY <4>1, <4>2, <4>3
    <3>2. CASE k # Len(q) + 1
      <4>1. k \in 0 .. Len(q) /\ IsOn(s, q, L, k)
        BY <1>1, <2>4, <3>2
      <4>2. PICK m \in 1 .. Len(q) + 1 : /\ Follows(s, q, L, k, m)
                                         /\ Forward(s, Place(q, k), L) = Place(q, m)
                                         /\ Forwards(s, L)[Place(q, k)] = Place(q, m)
        BY <2>1, <4>1, ForwardIs
      <4>3. m \in K /\ m > k
        BY <1>1, <4>1, <4>2 DEF Follows
      <4> QED
        BY <4>2, <4>3
    <3> QED
      BY <3>1, <3>2
  <2>5. ASSUME NEW k \in K, k # Len(q) + 2 PROVE Place(q, k) \in on
    <3>1. PICK m \in K : m > k /\ Forward(s, Place(q, k), L) = Place(q, m)
      BY <2>4, <2>5
    <3>2. Place(q, m) # n
      BY <1>2, <2>3
    <3>3. Place(q, k) \in Cells
      <4>1. k \in 0 .. Len(q) + 1
        BY <1>1, <2>5
      <4> QED
        BY <4>1, Places
    <3> QED
      BY <3>1, <3>2, <3>3 DEF Going
  <2>6. Place(q, Len(q) + 2) = NULL /\ NULL \notin on /\ HEAD = Place(q, 0)
    BY Places, Addresses DEF Going
  <2> HIDE DEF K, on
  <2>7. \A k \in K : Place(q, k) \in on => \E m \in K : m > k /\ Forwards(s, L)[Place(q, k)] = Place(q, m)
    BY <2>4, <2>6
  <2>8. PICK k \in K : Walked(Place(q, 0), on, Forwards(s, L)) = Place(q, k) /\ Place(q, k) \notin on
    BY <2>1, <2>2, <2>7, WalkAlong
  <2>9. Place(q, k) = NULL
    BY <2>5, <2>6, <2>8
  <2>10. u[L] = Walked(HEAD, on, Forwards(s, L))
    BY <1>1, <2>1, UpdateSteps DEF on
  <2> QED
    BY <2>6, <2>8, <2>9, <2>10
<1>5. BeforeNode(s, n) = u
  BY DEF BeforeNode
<1>6. ASSUME s.node[n].level = L, NEW i \in 0 .. L PROVE u[i] # NULL
  <2>1. Leads(s, q, i, u[i], J)
    BY <1>3, <1>6 DEF IsUpdate
  <2>2. PICK b \in 0 .. J - 1 : u[i] = Place(q, b)
    BY <2>1 DEF Leads
  <2>3. b \in 0 .. Len(q) + 1
    BY <1>1
  <2> QED
    BY <2>2, <2>3, Places, Addresses
<1>7. L \in 0 .. L
  BY <1>1
<1> HIDE DEF u
<1>8. DeleteFails(s, n) <=> \E i \in 0 .. L : u[i] = NULL
  BY <1>5 DEF DeleteFails
<1> QED
  BY <1>3, <1>4, <1>5, <1>6, <1>7, <1>8

-----------------------------------------------------------------------------
(* The skip list: insertion.                                               *)

Behind(s, update, i) == IF i <= s.level THEN update[i] ELSE HEAD

(* An assignment to forward of a node changes nothing else.                *)
LEMMA ForwardSet ==
  ASSUME NEW d \in SkipNode, NEW f \in [Levels -> Pointers]
  PROVE  /\ [d EXCEPT !.forward = f] \in SkipNode
         /\ [d EXCEPT !.forward = f].priority = d.priority
         /\ [d EXCEPT !.forward = f].data = d.data
         /\ [d EXCEPT !.forward = f].level = d.level
         /\ [d EXCEPT !.forward = f].forward = f
BY DEF SkipNode

(* What skip_list_insert2 writes.                                          *)
LEMMA LinkedInFields ==
  ASSUME NEW s \in Skips, NEW n \in Nodes, NEW update, NEW level \in Levels,
         \A i \in 0 .. level : Behind(s, update, i) \in Cells
  PROVE  /\ LinkedIn(s, n, update, level) \in Skips
         /\ LinkedIn(s, n, update, level).length = s.length + 1
         /\ LinkedIn(s, n, update, level).level = Raised(s, level)
         /\ \A c \in Cells :
              /\ LinkedIn(s, n, update, level).node[c].priority = s.node[c].priority
              /\ LinkedIn(s, n, update, level).node[c].data = s.node[c].data
              /\ LinkedIn(s, n, update, level).node[c].level =
                   IF c = n THEN level ELSE s.node[c].level
              /\ \A i \in Levels :
                   LinkedIn(s, n, update, level).node[c].forward[i] =
                     IF c = n
                     THEN IF i <= level THEN Forward(s, Behind(s, update, i), i) ELSE NULL
                     ELSE IF i <= level /\ Behind(s, update, i) = c THEN n ELSE Forward(s, c, i)
<1> DEFINE behind == [i \in 0 .. level |-> IF i <= s.level THEN update[i] ELSE HEAD]
           reach == [i \in Levels |-> IF i <= level THEN Forward(s, behind[i], i) ELSE NULL]
           linked(c) == [i \in Levels |-> IF i <= level /\ behind[i] = c THEN n ELSE Forward(s, c, i)]
           new == [s.node[n] EXCEPT !.level = level, !.forward = reach]
           node == [c \in Cells |-> IF c = n THEN new ELSE [s.node[c] EXCEPT !.forward = linked(c)]]
           m == LinkedIn(s, n, update, level)
<1>1. m = [node |-> node, level |-> Raised(s, level), length |-> s.length + 1]
  BY DEF LinkedIn
<1>2. MaxLevel \in Nat /\ level \in Nat /\ s.level \in Levels /\ s.length \in Nat /\ n \in Cells
      /\ n \in Pointers /\ NULL \in Pointers
  BY SkipFields, Addresses DEF Levels
<1>3. \A i \in Levels : i <= level => i \in 0 .. level /\ behind[i] = Behind(s, update, i)
  BY <1>2 DEF Behind, Levels
<1>4. \A c \in Cells : s.node[c] \in SkipNode
  BY SkipFields
<1>5. \A c \in Cells, i \in Levels : Forward(s, c, i) \in Pointers
  BY SkipFields
<1> HIDE DEF behind
<1>6. reach \in [Levels -> Pointers]
      /\ \A i \in Levels : reach[i] = IF i <= level THEN Forward(s, Behind(s, update, i), i) ELSE NULL
  BY <1>2, <1>3, <1>5
<1>7. ASSUME NEW c \in Cells
      PROVE  /\ linked(c) \in [Levels -> Pointers]
             /\ \A i \in Levels : linked(c)[i] =
                  IF i <= level /\ Behind(s, update, i) = c THEN n ELSE Forward(s, c, i)
  BY <1>2, <1>3, <1>5
<1> HIDE DEF reach, linked
<1>8. ASSUME NEW c \in Cells
      PROVE  /\ node[c] \in SkipNode
             /\ node[c].priority = s.node[c].priority /\ node[c].data = s.node[c].data
             /\ node[c].level = (IF c = n THEN level ELSE s.node[c].level)
             /\ node[c].forward = (IF c = n THEN reach ELSE linked(c))
  <2>1. CASE c = n
    <3>1. node[c] = new
      BY <2>1
    <3>2. /\ new \in SkipNode /\ new.priority = s.node[n].priority /\ new.data = s.node[n].data
          /\ new.level = level /\ new.forward = reach
      <4>1. s.node[n] \in SkipNode /\ reach \in [Levels -> Pointers]
        BY <1>2, <1>4, <1>6
      <4> DEFINE d == s.node[n]
                 e == [d EXCEPT !.level = level, !.forward = reach]
      <4>2. d \in SkipNode
        BY <4>1
      <4> HIDE DEF d
      <4>3. /\ e \in SkipNode /\ e.priority = d.priority /\ e.data = d.data
            /\ e.level = level /\ e.forward = reach
        BY <4>1, <4>2 DEF SkipNode
      <4>4. new = e
        BY DEF d
      <4> HIDE DEF e, new
      <4> QED
        BY <4>3, <4>4 DEF d
    <3> HIDE DEF node, new
    <3> QED
      BY <2>1, <3>1, <3>2
  <2>2. CASE c # n
    <3>1. node[c] = [s.node[c] EXCEPT !.forward = linked(c)]
      BY <2>2
    <3> DEFINE d == [s.node[c] EXCEPT !.forward = linked(c)]
    <3>2. /\ d \in SkipNode /\ d.priority = s.node[c].priority /\ d.data = s.node[c].data
          /\ d.level = s.node[c].level /\ d.forward = linked(c)
      BY <1>4, <1>7, ForwardSet
    <3>3. node[c] = d
      BY <3>1
    <3> HIDE DEF node, d
    <3> QED
      BY <2>2, <3>2, <3>3
  <2> QED
    BY <2>1, <2>2
<1>9. node \in [Cells -> SkipNode]
  <2>1. node = [c \in Cells |-> node[c]]
    OBVIOUS
  <2> HIDE DEF node
  <2> QED
    BY <1>8, <2>1
<1>10. Raised(s, level) \in Levels
  BY <1>2 DEF Raised
<1> HIDE DEF node, m
<1>11. m \in Skips /\ m.length = s.length + 1 /\ m.level = Raised(s, level) /\ m.node = node
  BY <1>1, <1>2, <1>9, <1>10 DEF Skips
<1>12. ASSUME NEW c \in Cells
       PROVE  /\ m.node[c].priority = s.node[c].priority
              /\ m.node[c].data = s.node[c].data
              /\ m.node[c].level = IF c = n THEN level ELSE s.node[c].level
              /\ \A i \in Levels : m.node[c].forward[i] =
                     IF c = n
                     THEN IF i <= level THEN Forward(s, Behind(s, update, i), i) ELSE NULL
                     ELSE IF i <= level /\ Behind(s, update, i) = c THEN n ELSE Forward(s, c, i)
  <2>1. /\ m.node[c].priority = s.node[c].priority
        /\ m.node[c].data = s.node[c].data
        /\ m.node[c].level = IF c = n THEN level ELSE s.node[c].level
        /\ m.node[c].forward = IF c = n THEN reach ELSE linked(c)
    BY <1>8, <1>11
  <2> QED
    BY <1>6, <1>7, <2>1
<1> QED
  BY <1>11, <1>12 DEF m

(* The shape is in the links and the levels only.                          *)
LEMMA SameSkips ==
  ASSUME NEW s, NEW q, IsOrder(q), SkipLinked(s, q), NEW m \in Skips,
         m.length = s.length, m.level = s.level, m.node[TAIL].priority = INVALID,
         \A c \in Cells : c = HEAD \/ c = TAIL \/ (\E i \in 1 .. Len(q) : c = q[i]) =>
           m.node[c].level = s.node[c].level /\ m.node[c].forward = s.node[c].forward
  PROVE  /\ SkipLinked(m, q)
         /\ \A i : \A j \in 0 .. Len(q) + 1 : IsOn(m, q, i, j) <=> IsOn(s, q, i, j)
<1>1. \A j \in 0 .. Len(q) + 1 :
        /\ m.node[Place(q, j)].level = s.node[Place(q, j)].level
        /\ m.node[Place(q, j)].forward = s.node[Place(q, j)].forward
  <2> SUFFICES ASSUME NEW i \in 0 .. Len(q) + 1
               PROVE  /\ m.node[Place(q, i)].level = s.node[Place(q, i)].level
                      /\ m.node[Place(q, i)].forward = s.node[Place(q, i)].forward
    OBVIOUS
  <2>1. i = 0 \/ i = Len(q) + 1 \/ i \in 1 .. Len(q)
    BY Places
  <2>2. Place(q, i) \in Cells
    BY Places
  <2>3. Place(q, i) = HEAD \/ Place(q, i) = TAIL \/ \E k \in 1 .. Len(q) : Place(q, i) = q[k]
    BY <2>1, Places
  <2> QED
    BY <2>2, <2>3
<1>2. Len(q) \in Nat
  BY Places
<1>3. \A i : \A j \in 0 .. Len(q) + 1 : IsOn(m, q, i, j) <=> IsOn(s, q, i, j)
  BY <1>1 DEF IsOn
<1>4. \A i : \A j \in 0 .. Len(q), k \in 1 .. Len(q) + 1 : Follows(m, q, i, j, k) => Follows(s, q, i, j, k)
  <2> SUFFICES ASSUME NEW i, NEW j \in 0 .. Len(q), NEW k \in 1 .. Len(q) + 1, Follows(m, q, i, j, k)
               PROVE  Follows(s, q, i, j, k)
    OBVIOUS
  <2>1. j < k /\ IsOn(m, q, i, k) /\ \A x \in j + 1 .. k - 1 : ~ IsOn(m, q, i, x)
    BY DEF Follows
  <2>2. \A x \in j + 1 .. k - 1 : x \in 0 .. Len(q) + 1
    BY <1>2
  <2>3. k \in 0 .. Len(q) + 1
    BY <1>2
  <2> QED
    BY <1>3, <2>1, <2>2, <2>3 DEF Follows
<1>5. \A i \in Levels, j \in 0 .. Len(q) :
        IF IsOn(m, q, i, j)
        THEN \A k \in 1 .. Len(q) + 1 :
               Follows(m, q, i, j, k) => m.node[Place(q, j)].forward[i] = Place(q, k)
        ELSE m.node[Place(q, j)].forward[i] = NULL
  <2> SUFFICES ASSUME NEW i \in Levels, NEW j \in 0 .. Len(q)
               PROVE  IF IsOn(m, q, i, j)
                      THEN \A k \in 1 .. Len(q) + 1 :
                             Follows(m, q, i, j, k) => m.node[Place(q, j)].forward[i] = Place(q, k)
                      ELSE m.node[Place(q, j)].forward[i] = NULL
    OBVIOUS
  <2>1. j \in 0 .. Len(q) + 1
    BY <1>2
  <2>2. CASE IsOn(m, q, i, j)
    <3>1. \A k \in 1 .. Len(q) + 1 : Follows(s, q, i, j, k) => s.node[Place(q, j)].forward[i] = Place(q, k)
      BY <1>3, <2>1, <2>2 DEF SkipLinked
    <3> QED
      BY <1>1, <1>4, <2>1, <2>2, <3>1
  <2>3. CASE ~ IsOn(m, q, i, j)
    <3>1. s.node[Place(q, j)].forward[i] = NULL
      BY <1>3, <2>1, <2>3 DEF SkipLinked
    <3> QED
      BY <1>1, <2>1, <2>3, <3>1
  <2> QED
    BY <2>2, <2>3
<1>6. \A k \in 1 .. Len(q) : m.node[q[k]].level = s.node[q[k]].level
  BY Places, Addresses
<1>7. /\ s.length = Len(q) /\ s.node[HEAD].level = MaxLevel
      /\ \A i \in Levels : s.node[TAIL].forward[i] = NULL
      /\ \A j \in 1 .. Len(q) : s.node[q[j]].level <= s.level
      /\ s.level > 0 => \E j \in 1 .. Len(q) : s.node[q[j]].level = s.level
  BY DEF SkipLinked
<1>8. m.node[HEAD].level = MaxLevel /\ \A i \in Levels : m.node[TAIL].forward[i] = NULL
  BY <1>7, Addresses
<1>9. SkipLinked(m, q)
  BY <1>5, <1>6, <1>7, <1>8 DEF SkipLinked, Skips
<1> QED
  BY <1>3, <1>9

(* skip_list_insert links a node of any level in at place J, on all its    *)
(* levels.                                                                 *)
LEMMA LinkedInShape ==
  ASSUME NEW s, NEW q, IsOrder(q), SkipLinked(s, q), NEW J \in 1 .. Len(q) + 1,
         NEW n \in Nodes, \A k \in 1 .. Len(q) : q[k] # n,
         NEW level \in Levels, NEW update, IsUpdate(s, q, update, J)
  PROVE  /\ SkipLinked(LinkedIn(s, n, update, level), InsertAt(q, J, n))
         /\ \A c \in Cells :
              /\ LinkedIn(s, n, update, level).node[c].priority = s.node[c].priority
              /\ LinkedIn(s, n, update, level).node[c].data = s.node[c].data
<1> DEFINE N == Len(q)
           m == LinkedIn(s, n, update, level)
           r == InsertAt(q, J, n)
           back(k) == IF k < J THEN k ELSE k - 1
<1>1. /\ N \in Nat /\ J \in Nat /\ s \in Skips /\ s.level \in Nat /\ 0 .. s.level \subseteq Levels
      /\ MaxLevel \in Nat /\ level \in Nat /\ n \in Cells
  BY Places, LevelsOn, SkipFields, Addresses DEF Levels
<1>2. ASSUME NEW i \in 0 .. level
      PROVE  \E b \in 0 .. J - 1 : Behind(s, update, i) = Place(q, b) /\ LeadsOver(s, q, i, b, J)
  <2>1. CASE i <= s.level
    <3>1. i \in 0 .. s.level
      BY <1>1, <2>1
    <3> QED
      BY <2>1, <3>1 DEF IsUpdate, Leads, Behind
  <2>2. CASE ~ (i <= s.level)
    <3>1. i \in Levels /\ 0 \in 0 .. J - 1 /\ N + 1 \in J .. N + 1
      BY <1>1 DEF Levels
    <3>2. ASSUME NEW x \in 0 + 1 .. (N + 1) - 1 PROVE ~ IsOn(s, q, i, x)
      <4>1. x \in 1 .. N
        BY <1>1
      <4>2. s.node[q[x]].level \in Nat /\ s.node[q[x]].level <= s.level
        BY <4>1, LevelsOn
      <4>3. ~ (s.node[q[x]].level >= i)
        BY <1>1, <2>2, <4>2
      <4> QED
        BY <3>1, <4>1, <4>3, LevelsOn
    <3>3. IsOn(s, q, i, 0) /\ IsOn(s, q, i, N + 1)
      BY <3>1, LevelsOn
    <3>4. Follows(s, q, i, 0, N + 1)
      BY <1>1, <3>2, <3>3 DEF Follows
    <3>5. Behind(s, update, i) = Place(q, 0)
      BY <2>2, Places DEF Behind
    <3> HIDE DEF N
    <3>6. LeadsOver(s, q, i, 0, J)
      BY <3>1, <3>3, <3>4 DEF LeadsOver, N
    <3> QED
      BY <3>1, <3>5, <3>6
  <2> QED
    BY <2>1, <2>2
<1>3. \A i \in 0 .. level : Behind(s, update, i) \in Cells
  <2>1. \A b \in 0 .. J - 1 : b \in 0 .. N + 1
    BY <1>1
  <2> QED
    BY <1>2, <2>1, Places
<1>4. /\ m \in Skips /\ m.length = s.length + 1 /\ m.level = Raised(s, level)
      /\ \A c \in Cells :
           /\ m.node[c].priority = s.node[c].priority
           /\ m.node[c].data = s.node[c].data
           /\ m.node[c].level = IF c = n THEN level ELSE s.node[c].level
           /\ \A i \in Levels :
                m.node[c].forward[i] =
                     IF c = n
                     THEN IF i <= level THEN Forward(s, Behind(s, update, i), i) ELSE NULL
                     ELSE IF i <= level /\ Behind(s, update, i) = c THEN n ELSE Forward(s, c, i)
  BY <1>1, <1>3, LinkedInFields
<1>5. /\ IsOrder(r) /\ Len(r) = N + 1
      /\ \A k \in 0 .. N + 3 : Place(r, k) = IF k < J THEN Place(q, k) ELSE IF k = J THEN n ELSE Place(q, k - 1)
  BY InsertedPlaces
<1> HIDE DEF m, r
<1>6. /\ Place(r, J) = n
      /\ \A k \in 0 .. N + 2 : k # J => /\ Place(r, k) = Place(q, back(k))
                                        /\ back(k) \in 0 .. N + 1
                                        /\ Place(q, back(k)) \in Cells /\ Place(q, back(k)) # n
                                        /\ (k # N + 2 => back(k) \in 0 .. N)
  <2>1. Place(r, J) = n
    BY <1>1, <1>5
  <2>2. ASSUME NEW k \in 0 .. N + 2, k # J
        PROVE  /\ Place(r, k) = Place(q, back(k))
               /\ back(k) \in 0 .. N + 1 /\ (k # N + 2 => back(k) \in 0 .. N)
    <3>1. k \in 0 .. N + 3
      BY <1>1
    <3>2. Place(r, k) = IF k < J THEN Place(q, k) ELSE IF k = J THEN n ELSE Place(q, k - 1)
      BY <1>5, <3>1
    <3>3. CASE k < J
      <4>1. back(k) = k /\ k \in 0 .. N
        BY <1>1, <3>3
      <4> QED
        BY <1>1, <3>2, <3>3, <4>1
    <3>4. CASE ~ (k < J)
      <4>1. back(k) = k - 1 /\ k - 1 \in 0 .. N + 1 /\ (k # N + 2 => k - 1 \in 0 .. N)
        BY <1>1, <2>2, <3>4
      <4> QED
        BY <2>2, <3>2, <3>4, <4>1
    <3> QED
      BY <3>3, <3>4
  <2>3. \A x \in 0 .. N + 1 : Place(q, x) \in Cells /\ Place(q, x) # n
    <3> SUFFICES ASSUME NEW x \in 0 .. N + 1 PROVE Place(q, x) \in Cells /\ Place(q, x) # n
      OBVIOUS
    <3>1. x = 0 \/ x = N + 1 \/ x \in 1 .. N
      BY <1>1
    <3> QED
      BY <3>1, Places, Addresses
  <2> HIDE DEF back
  <2> QED
    BY <2>1, <2>2, <2>3
<1>7. ASSUME NEW i \in Levels, NEW k \in 0 .. N + 2
      PROVE  IsOn(m, r, i, k) <=> IF k = J THEN i <= level ELSE IsOn(s, q, i, back(k))
  <2>1. i \in Nat
    BY <1>1 DEF Levels
  <2>2. CASE k = J
    <3>1. k # Len(r) + 1
      BY <1>1, <1>5, <2>2
    <3>2. m.node[Place(r, k)].level = level
      BY <1>1, <1>4, <1>6, <2>2
    <3> QED
      BY <1>1, <2>1, <2>2, <3>1, <3>2 DEF IsOn
  <2>3. CASE k # J
    <3>1. k = Len(r) + 1 <=> back(k) = N + 1
      <4>1. CASE k < J
        <5>1. k # N + 2 /\ k # N + 1 /\ back(k) = k
          BY <1>1, <4>1
        <5> QED
          BY <1>1, <1>5, <5>1
      <4>2. CASE ~ (k < J)
        <5>1. back(k) = k - 1 /\ Len(r) + 1 = N + 2 /\ k \in Int
          BY <1>1, <1>5, <4>2
        <5>2. k = N + 2 <=> k - 1 = N + 1
          BY <1>1, <5>1
        <5> HIDE DEF back
        <5> QED
          BY <5>1, <5>2
      <4> QED
        BY <4>1, <4>2
    <3>2. m.node[Place(r, k)].level = s.node[Place(q, back(k))].level
      BY <1>4, <1>6, <2>3
    <3> QED
      BY <2>3, <3>1, <3>2 DEF IsOn
  <2> QED
    BY <2>2, <2>3
<1>8. ASSUME NEW i \in Levels, NEW k \in 1 .. N + 2, Follows(m, r, i, J, k), i <= level
      PROVE  m.node[n].forward[i] = Place(r, k)
  <2>1. i \in 0 .. level
    BY <1>1, <1>8 DEF Levels
  <2>2. PICK b \in 0 .. J - 1 : Behind(s, update, i) = Place(q, b) /\ LeadsOver(s, q, i, b, J)
    BY <1>2, <2>1
  <2>3. IsOn(s, q, i, b) /\ \E x \in J .. N + 1 : Follows(s, q, i, b, x)
    BY <2>2 DEF LeadsOver
  <2>4. PICK x \in J .. N + 1 : Follows(s, q, i, b, x)
    BY <2>3
  <2>5. Forward(s, Place(q, b), i) = Place(q, x)
    <3>1. b \in 0 .. N /\ x \in 1 .. N + 1
      BY <1>1
    <3> QED
      BY <2>3, <2>4, <3>1, ForwardToPlace
  <2>6. m.node[n].forward[i] = Place(q, x)
    BY <1>1, <1>4, <1>8, <2>2, <2>5
  <2>7. IsOn(s, q, i, x) /\ \A z \in b + 1 .. x - 1 : ~ IsOn(s, q, i, z)
    BY <2>4 DEF Follows
  <2>8. x + 1 \in 0 .. N + 2 /\ x + 1 # J /\ back(x + 1) = x
    BY <1>1
  <2>9. IsOn(m, r, i, x + 1) /\ Place(r, x + 1) = Place(q, x)
    BY <1>6, <1>7, <2>7, <2>8
  <2>10. ASSUME NEW z \in J + 1 .. (x + 1) - 1 PROVE ~ IsOn(m, r, i, z)
    <3>1. z \in 0 .. N + 2 /\ z # J /\ back(z) = z - 1 /\ z - 1 \in b + 1 .. x - 1
      BY <1>1
    <3> QED
      BY <1>7, <2>7, <3>1
  <2>11. Follows(m, r, i, J, x + 1)
    BY <1>1, <2>9, <2>10 DEF Follows
  <2>12. k = x + 1
    <3>1. k \in Nat /\ x + 1 \in Nat
      BY <1>1
    <3> QED
      BY <1>1, <1>8, <2>11, <3>1, OneFollows
  <2> QED
    BY <2>6, <2>9, <2>12
<1>9. ASSUME NEW i \in Levels, NEW j \in 0 .. N + 1, j # J, IsOn(s, q, i, back(j)),
             NEW k \in 1 .. N + 2, Follows(m, r, i, j, k)
      PROVE  m.node[Place(r, j)].forward[i] = Place(r, k)
  <2> DEFINE c == Place(q, back(j))
  <2>1. j \in 0 .. N + 2 /\ j # N + 2 /\ i \in Nat
    BY <1>1 DEF Levels
  <2>2. Place(r, j) = c /\ back(j) \in 0 .. N /\ c \in Cells /\ c # n
    BY <1>6, <1>9, <2>1
  <2>3. m.node[c].forward[i] = IF i <= level /\ Behind(s, update, i) = c THEN n ELSE Forward(s, c, i)
    BY <1>4, <2>2
  <2>4. CASE i <= level /\ Behind(s, update, i) = c
    <3>1. i \in 0 .. level
      BY <2>1, <2>4
    <3>2. PICK b \in 0 .. J - 1 : Behind(s, update, i) = Place(q, b) /\ LeadsOver(s, q, i, b, J)
      BY <1>2, <3>1
    <3>3. PICK x \in J .. N + 1 : Follows(s, q, i, b, x)
      BY <3>2 DEF LeadsOver
    <3>4. b = back(j)
      <4>1. b \in 0 .. N + 2 /\ back(j) \in 0 .. N + 2 /\ Place(q, b) = Place(q, back(j))
        BY <1>1, <2>2, <2>4, <3>2
      <4> QED
        BY <4>1, Places
    <3>5. j = b /\ j < J
      BY <1>1, <1>9, <3>4
    <3>6. IsOn(m, r, i, J)
      <4>1. J \in 0 .. N + 2
        BY <1>1
      <4> QED
        BY <1>7, <2>4, <4>1
    <3>7. ASSUME NEW z \in j + 1 .. J - 1 PROVE ~ IsOn(m, r, i, z)
      <4>1. z \in 0 .. N + 2 /\ z # J /\ back(z) = z /\ z \in b + 1 .. x - 1
        BY <1>1, <3>5
      <4>2. ~ IsOn(s, q, i, z)
        BY <3>3, <4>1 DEF Follows
      <4> QED
        BY <1>7, <4>1, <4>2
    <3>8. Follows(m, r, i, j, J)
      BY <1>1, <3>5, <3>6, <3>7 DEF Follows
    <3>9. k = J
      <4>1. k \in Nat /\ j \in Nat
        BY <1>1
      <4> QED
        BY <1>1, <1>9, <3>8, <4>1, OneFollows
    <3> QED
      BY <1>6, <2>2, <2>3, <2>4, <3>9
  <2>5. CASE ~ (i <= level /\ Behind(s, update, i) = c)
    <3>1. PICK x \in 1 .. N + 1 : Follows(s, q, i, back(j), x) /\ Forward(s, c, i) = Place(q, x)
      BY <1>9, <2>2, ForwardIs
    <3>2. back(j) < x /\ IsOn(s, q, i, x) /\ \A z \in back(j) + 1 .. x - 1 : ~ IsOn(s, q, i, z)
      BY <3>1 DEF Follows
    <3> DEFINE y == IF x < J THEN x ELSE x + 1
    <3>3. y \in 1 .. N + 2 /\ y # J /\ back(y) = x /\ j < y
      BY <1>1, <1>9, <3>2
    <3>4. IsOn(m, r, i, y) /\ Place(r, y) = Place(q, x)
      BY <1>6, <1>7, <3>2, <3>3
    <3>5. ASSUME NEW z \in j + 1 .. y - 1 PROVE ~ IsOn(m, r, i, z)
      <4>1. z \in 0 .. N + 2
        BY <1>1, <3>3
      <4>2. CASE z # J
        <5>1. back(z) \in back(j) + 1 .. x - 1
          BY <1>1, <1>9, <3>3, <4>2
        <5> QED
          BY <1>7, <3>2, <4>1, <4>2, <5>1
      <4>3. CASE z = J /\ i <= level
        <5>1. i \in 0 .. level
          BY <2>1, <4>3
        <5>2. PICK b \in 0 .. J - 1 : Behind(s, update, i) = Place(q, b) /\ LeadsOver(s, q, i, b, J)
          BY <1>2, <5>1
        <5>3. PICK w \in J .. N + 1 : Follows(s, q, i, b, w)
          BY <5>2 DEF LeadsOver
        <5>4. IsOn(s, q, i, b) /\ \A v \in b + 1 .. w - 1 : ~ IsOn(s, q, i, v)
          BY <5>2, <5>3 DEF LeadsOver, Follows
        <5>5. back(j) = j /\ j < J /\ J <= x
          BY <1>1, <3>3, <4>3
        <5>6. b # j
          BY <2>5, <4>3, <5>2, <5>5
        <5>7. ~ (j < b)
          <6>1. j < b => b \in back(j) + 1 .. x - 1
            BY <1>1, <5>5
          <6> QED
            BY <3>2, <5>4, <6>1
        <5>8. ~ (b < j)
          <6>1. b < j => back(j) \in b + 1 .. w - 1
            BY <1>1, <5>5
          <6> QED
            BY <1>9, <5>4, <6>1
        <5> QED
          BY <1>1, <5>6, <5>7, <5>8
      <4>4. CASE z = J /\ ~ (i <= level)
        BY <1>7, <4>1, <4>4
      <4> QED
        BY <4>2, <4>3, <4>4
    <3>6. Follows(m, r, i, j, y)
      BY <3>3, <3>4, <3>5 DEF Follows
    <3>7. k = y
      <4>1. k \in Nat /\ j \in Nat /\ y \in Nat
        BY <1>1, <3>3
      <4> HIDE DEF y
      <4> QED
        BY <1>9, <3>6, <4>1, OneFollows
    <3>8. m.node[c].forward[i] = Place(q, x)
      BY <2>3, <2>5, <3>1
    <3> QED
      BY <2>2, <3>4, <3>7, <3>8
  <2> QED
    BY <2>4, <2>5
<1>10. ASSUME NEW i \in Levels, NEW j \in 0 .. N + 1, j # J, ~ IsOn(s, q, i, back(j))
       PROVE  m.node[Place(r, j)].forward[i] = NULL
  <2> DEFINE c == Place(q, back(j))
  <2>1. j \in 0 .. N + 2 /\ j # N + 2 /\ i \in Nat
    BY <1>1 DEF Levels
  <2>2. Place(r, j) = c /\ back(j) \in 0 .. N /\ c \in Cells /\ c # n
    BY <1>6, <1>10, <2>1
  <2>3. m.node[c].forward[i] = IF i <= level /\ Behind(s, update, i) = c THEN n ELSE Forward(s, c, i)
    BY <1>4, <2>2
  <2>4. ~ (i <= level /\ Behind(s, update, i) = c)
    <3> SUFFICES ASSUME i <= level, Behind(s, update, i) = c PROVE FALSE
      OBVIOUS
    <3>1. i \in 0 .. level
      BY <2>1
    <3>2. PICK b \in 0 .. J - 1 : Behind(s, update, i) = Place(q, b) /\ LeadsOver(s, q, i, b, J)
      BY <1>2, <3>1
    <3>3. b = back(j)
      <4>1. b \in 0 .. N + 2 /\ back(j) \in 0 .. N + 2 /\ Place(q, b) = Place(q, back(j))
        BY <1>1, <2>2, <3>2
      <4> QED
        BY <4>1, Places
    <3> QED
      BY <1>10, <3>2, <3>3 DEF LeadsOver
  <2>5. Forward(s, c, i) = NULL
    <3>1. s.node[c].forward[i] = NULL
      BY <1>10, <2>2 DEF SkipLinked
    <3> QED
      BY <1>1, <2>2, <3>1, SkipFields
  <2> HIDE DEF c
  <2> QED
    BY <2>2, <2>3, <2>4, <2>5
<1>11. \A i \in Levels, j \in 0 .. Len(r) :
         IF IsOn(m, r, i, j)
         THEN \A k \in 1 .. Len(r) + 1 :
                Follows(m, r, i, j, k) => m.node[Place(r, j)].forward[i] = Place(r, k)
         ELSE m.node[Place(r, j)].forward[i] = NULL
  <2> SUFFICES ASSUME NEW i \in Levels, NEW j \in 0 .. Len(r)
               PROVE  IF IsOn(m, r, i, j)
                      THEN \A k \in 1 .. Len(r) + 1 :
                             Follows(m, r, i, j, k) => m.node[Place(r, j)].forward[i] = Place(r, k)
                      ELSE m.node[Place(r, j)].forward[i] = NULL
    OBVIOUS
  <2>1. j \in 0 .. N + 1 /\ j \in 0 .. N + 2 /\ 1 .. Len(r) + 1 = 1 .. N + 2
    BY <1>1, <1>5
  <2>2. CASE j = J
    <3>1. ~ (i <= level) => m.node[n].forward[i] = NULL
      BY <1>1, <1>4
    <3> QED
      BY <1>6, <1>7, <1>8, <2>1, <2>2, <3>1
  <2>3. CASE j # J
    BY <1>7, <1>9, <1>10, <2>1, <2>3
  <2> QED
    BY <2>2, <2>3
<1>12. /\ s.length = N /\ s.node[HEAD].level = MaxLevel /\ s.node[TAIL].priority = INVALID
       /\ \A i \in Levels : s.node[TAIL].forward[i] = NULL
       /\ \A j \in 1 .. N : s.node[q[j]].level <= s.level
       /\ s.level > 0 => \E j \in 1 .. N : s.node[q[j]].level = s.level
  BY DEF SkipLinked
<1>13. m.node[HEAD].level = MaxLevel /\ m.node[TAIL].priority = INVALID
  BY <1>4, <1>12, Addresses
<1>14. ASSUME NEW i \in Levels PROVE m.node[TAIL].forward[i] = NULL
  <2>1. ~ (i <= level /\ Behind(s, update, i) = TAIL)
    <3> SUFFICES ASSUME i <= level, Behind(s, update, i) = TAIL PROVE FALSE
      OBVIOUS
    <3>1. i \in 0 .. level
      BY <1>1 DEF Levels
    <3>2. PICK b \in 0 .. J - 1 : Behind(s, update, i) = Place(q, b)
      BY <1>2, <3>1
    <3>3. b \in 0 .. N + 2 /\ N + 1 \in 0 .. N + 2 /\ b # N + 1
      BY <1>1
    <3> QED
      BY <3>2, <3>3, Places
  <2>2. m.node[TAIL].forward[i] = IF i <= level /\ Behind(s, update, i) = TAIL THEN n ELSE Forward(s, TAIL, i)
    BY <1>4, Addresses
  <2>3. Forward(s, TAIL, i) = NULL
    BY TailLeads
  <2> QED
    BY <2>1, <2>2, <2>3
<1>15. m.level = IF level > s.level THEN level ELSE s.level
  BY <1>4 DEF Raised
<1>16. ASSUME NEW j \in 1 .. N + 1
       PROVE  /\ r[j] = Place(r, j)
              /\ m.node[r[j]].level = IF j = J THEN level ELSE s.node[q[back(j)]].level
              /\ j # J => back(j) \in 1 .. N
  <2>1. j \in 1 .. Len(r) /\ j \in 0 .. N + 2
    BY <1>1, <1>5
  <2>2. r[j] = Place(r, j)
    BY <1>5, <2>1, Places
  <2>3. CASE j = J
    BY <1>1, <1>4, <1>6, <2>2, <2>3
  <2>4. CASE j # J
    <3>1. back(j) \in 1 .. N
      BY <1>1, <2>4
    <3>2. Place(r, j) = q[back(j)] /\ q[back(j)] \in Cells /\ q[back(j)] # n
      BY <1>6, <2>1, <2>4, <3>1, Places, Addresses
    <3> QED
      BY <1>4, <2>2, <2>4, <3>1, <3>2
  <2> QED
    BY <2>3, <2>4
<1>17. ASSUME NEW j \in 1 .. N + 1 PROVE m.node[r[j]].level <= m.level
  <2>1. CASE j = J
    BY <1>1, <1>15, <1>16, <2>1
  <2>2. CASE j # J
    <3>1. s.node[q[back(j)]].level \in Nat /\ s.node[q[back(j)]].level <= s.level
      BY <1>16, <2>2, LevelsOn
    <3>2. m.node[r[j]].level = s.node[q[back(j)]].level
      BY <1>16, <2>2
    <3> QED
      BY <1>1, <1>15, <3>1, <3>2
  <2> QED
    BY <2>1, <2>2
<1>18. ASSUME m.level > 0 PROVE \E j \in 1 .. N + 1 : m.node[r[j]].level = m.level
  <2>1. CASE level > s.level
    <3>1. J \in 1 .. N + 1 /\ m.node[r[J]].level = level
      BY <1>16
    <3> QED
      BY <1>15, <2>1, <3>1
  <2>2. CASE ~ (level > s.level)
    <3>1. m.level = s.level
      BY <1>15, <2>2
    <3>2. PICK x \in 1 .. N : s.node[q[x]].level = s.level
      BY <1>12, <1>18, <3>1
    <3> DEFINE y == IF x < J THEN x ELSE x + 1
    <3>3. y \in 1 .. N + 1 /\ y # J /\ back(y) = x
      BY <1>1
    <3>4. m.node[r[y]].level = s.level
      BY <1>16, <3>2, <3>3
    <3> HIDE DEF y
    <3> QED
      BY <3>1, <3>3, <3>4
  <2> QED
    BY <2>1, <2>2
<1>19. SkipLinked(m, r)
  <2>1. m.length = Len(r)
    BY <1>4, <1>5, <1>12
  <2>2. 1 .. Len(r) = 1 .. N + 1
    BY <1>5
  <2> QED
    BY <1>4, <1>11, <1>13, <1>14, <1>17, <1>18, <2>1, <2>2 DEF SkipLinked, Skips
<1> QED
  BY <1>4, <1>19 DEF m, r

-----------------------------------------------------------------------------
(* The skip list: deletion.                                                *)

(* The maximum of a bounded set of numbers is one of them and above the    *)
(* others.                                                                 *)
LEMMA MaxIs ==
  ASSUME NEW n \in Nat, NEW S \in SUBSET (0 .. n), 0 \in S
  PROVE  Max(S) \in S /\ \A x \in S : x <= Max(S)
<1> DEFINE T == {n - x : x \in S}
<1>0. \A x \in S : x \in Nat /\ x <= n /\ n - x \in Nat
  OBVIOUS
<1>1. T \in SUBSET Nat /\ T # {}
  <2>1. n - 0 \in T
    BY ZenonT(30)
  <2>2. ASSUME NEW k \in T PROVE k \in Nat
    <3>1. PICK x \in S : k = n - x
      OBVIOUS
    <3> QED
      BY <1>0, <3>1
  <2> HIDE DEF T
  <2> QED
    BY <2>1, <2>2
<1>2. PICK t \in T : \A k \in T : t <= k
  <2> HIDE DEF T
  <2> QED
    BY <1>1, SmallestMember
<1>3. PICK y \in S : t = n - y
  OBVIOUS
<1>4. \A x \in S : y >= x
  <2> SUFFICES ASSUME NEW x \in S PROVE y >= x
    OBVIOUS
  <2>1. n - x \in T
    BY Zenon
  <2> HIDE DEF T
  <2>3. x \in Int /\ y \in Int /\ n \in Int
    BY <1>0
  <2>2. n - y <= n - x
    BY <1>2, <1>3, <2>1, Zenon
  <2> QED
    BY <2>2, <2>3
<1>5. Max(S) \in S /\ \A x \in S : Max(S) >= x
  BY <1>4 DEF Max
<1> QED
  BY <1>5

(* What skip_list_delete writes on its way up.                             *)
Reached(s, update, p) == {i \in 0 .. s.level : \A j \in 0 .. i : Forward(s, update[j], j) = p}

(* What the unlinking loop changes: the forward pointers that led to p.    *)
LEMMA BypassedFields ==
  ASSUME NEW s \in Skips, NEW p \in Cells, NEW update
  PROVE  /\ Bypassed(s, update, p) \in Skips
         /\ Bypassed(s, update, p).level = s.level /\ Bypassed(s, update, p).length = s.length
         /\ \A c \in Cells :
              /\ Bypassed(s, update, p).node[c].priority = s.node[c].priority
              /\ Bypassed(s, update, p).node[c].data = s.node[c].data
              /\ Bypassed(s, update, p).node[c].level = s.node[c].level
              /\ \A i \in Levels :
                   Bypassed(s, update, p).node[c].forward[i] =
                     IF i \in Reached(s, update, p) /\ update[i] = c
                     THEN Forward(s, p, i) ELSE s.node[c].forward[i]
<1> DEFINE reached == Reached(s, update, p)
           links(c) == [i \in Levels |->
                          IF i \in reached /\ update[i] = c THEN Forward(s, p, i)
                          ELSE s.node[c].forward[i]]
           node == [c \in Cells |-> [s.node[c] EXCEPT !.forward = links(c)]]
           m == Bypassed(s, update, p)
<1>1. m = [s EXCEPT !.node = node]
  BY DEF Bypassed, Reached
<1>2. \A c \in Cells : s.node[c] \in SkipNode
  BY SkipFields
<1>3. \A c \in Cells, i \in Levels : Forward(s, c, i) \in Pointers /\ s.node[c].forward[i] \in Pointers
  BY SkipFields
<1> HIDE DEF reached
<1>4. ASSUME NEW c \in Cells
      PROVE  /\ links(c) \in [Levels -> Pointers]
             /\ \A i \in Levels : links(c)[i] = IF i \in reached /\ update[i] = c THEN Forward(s, p, i)
                                                ELSE s.node[c].forward[i]
  BY <1>3
<1> HIDE DEF links
<1>5. ASSUME NEW c \in Cells
      PROVE  /\ node[c] \in SkipNode
             /\ node[c].priority = s.node[c].priority /\ node[c].data = s.node[c].data
             /\ node[c].level = s.node[c].level /\ node[c].forward = links(c)
  <2> DEFINE d == [s.node[c] EXCEPT !.forward = links(c)]
  <2>1. /\ d \in SkipNode /\ d.priority = s.node[c].priority /\ d.data = s.node[c].data
        /\ d.level = s.node[c].level /\ d.forward = links(c)
    BY <1>2, <1>4, ForwardSet
  <2>2. node[c] = d
    OBVIOUS
  <2> HIDE DEF node, d
  <2> QED
    BY <2>1, <2>2
<1>6. node \in [Cells -> SkipNode]
  <2>1. node = [c \in Cells |-> node[c]]
    OBVIOUS
  <2> HIDE DEF node
  <2> QED
    BY <1>5, <2>1
<1> HIDE DEF node, m
<1>7. m \in Skips /\ m.level = s.level /\ m.length = s.length /\ m.node = node
  BY <1>1, <1>6, SkipFields DEF Skips
<1>8. ASSUME NEW c \in Cells
      PROVE  /\ m.node[c].priority = s.node[c].priority
             /\ m.node[c].data = s.node[c].data
             /\ m.node[c].level = s.node[c].level
             /\ \A i \in Levels :
                  m.node[c].forward[i] = IF i \in reached /\ update[i] = c
                                         THEN Forward(s, p, i) ELSE s.node[c].forward[i]
  BY <1>4, <1>5, <1>7
<1> QED
  BY <1>7, <1>8 DEF m, reached

(* What lowering the level changes: nothing but the level, to the highest  *)
(* that is in use.                                                         *)
LEMMA LoweredFields ==
  ASSUME NEW s \in Skips
  PROVE  /\ Lowered(s) \in Skips
         /\ Lowered(s).node = s.node /\ Lowered(s).length = s.length
         /\ Lowered(s).level \in 0 .. s.level
         /\ Lowered(s).level > 0 => Forward(s, HEAD, Lowered(s).level) # TAIL
         /\ \A i \in 1 .. s.level : Forward(s, HEAD, i) # TAIL => i <= Lowered(s).level
<1> DEFINE S == {0} \cup {i \in 1 .. s.level : Forward(s, HEAD, i) # TAIL}
<1>1. s.level \in Nat /\ 0 .. s.level \subseteq Levels
  BY SkipFields
<1>2. S \in SUBSET (0 .. s.level) /\ 0 \in S
  BY <1>1
<1>3. Lowered(s) = [s EXCEPT !.level = Max(S)]
  BY DEF Lowered
<1>4. \A i \in S : i > 0 => Forward(s, HEAD, i) # TAIL
  BY <1>1
<1>5. \A i \in 1 .. s.level : Forward(s, HEAD, i) # TAIL => i \in S
  OBVIOUS
<1> HIDE DEF S
<1>6. Max(S) \in S /\ \A x \in S : x <= Max(S)
  BY <1>1, <1>2, MaxIs
<1>7. /\ Lowered(s) \in Skips /\ Lowered(s).node = s.node /\ Lowered(s).length = s.length
      /\ Lowered(s).level = Max(S)
  BY <1>1, <1>2, <1>3, <1>6 DEF Skips
<1> QED
  BY <1>2, <1>4, <1>5, <1>6, <1>7

(* The deletion of the node at place J leaves a skip list of the others,   *)
(* at the right level.                                                     *)
LEMMA UnlinkedShape ==
  ASSUME NEW s, NEW q, IsOrder(q), SkipLinked(s, q), NEW J \in 1 .. Len(q),
         NEW update, IsUpdate(s, q, update, J)
  PROVE  /\ SkipLinked(Unlinked(s, update, q[J]), RemoveAt(q, J))
         /\ \A c \in Cells :
              /\ Unlinked(s, update, q[J]).node[c].priority = s.node[c].priority
              /\ Unlinked(s, update, q[J]).node[c].data = s.node[c].data
              /\ Unlinked(s, update, q[J]).node[c].level = s.node[c].level
<1> DEFINE N == Len(q)
           L == s.level
           p == q[J]
           m1 == Bypassed(s, update, p)
           m2 == Lowered(m1)
           m == Unlinked(s, update, p)
           r == RemoveAt(q, J)
           skip(k) == IF k < J THEN k ELSE k + 1
           v == s.node[p].level
<1>1. /\ N \in Nat /\ N > 0 /\ J \in Nat /\ s \in Skips /\ L \in Nat /\ 0 .. L \subseteq Levels
      /\ MaxLevel \in Nat /\ p \in Cells /\ p \in Nodes /\ Place(q, J) = p
      /\ v \in Nat /\ v <= L
  BY Places, LevelsOn, SkipFields, Addresses
<1> HIDE DEF v
<1>2. ASSUME NEW i \in Levels PROVE IsOn(s, q, i, J) <=> i <= v
  BY <1>1, LevelsOn DEF v, Levels
<1>3. ASSUME NEW i \in 0 .. L
      PROVE  \E b \in 0 .. J - 1 :
               /\ update[i] = Place(q, b) /\ LeadsOver(s, q, i, b, J)
               /\ Forward(s, update[i], i) = p <=> i <= v
  <2>1. PICK b \in 0 .. J - 1 : update[i] = Place(q, b) /\ LeadsOver(s, q, i, b, J)
    BY DEF IsUpdate, Leads
  <2>2. PICK x \in J .. N + 1 : Follows(s, q, i, b, x)
    BY <2>1 DEF LeadsOver
  <2>3. i \in Levels /\ b \in 0 .. N /\ x \in 1 .. N + 1
    BY <1>1
  <2>4. Forward(s, update[i], i) = Place(q, x)
    BY <2>1, <2>2, <2>3, ForwardToPlace DEF LeadsOver
  <2>5. Place(q, x) = p <=> x = J
    <3>1. x \in 0 .. N + 2 /\ J \in 0 .. N + 2
      BY <1>1
    <3> QED
      BY <1>1, <3>1, Places
  <2>6. x = J <=> i <= v
    <3>1. b < x /\ IsOn(s, q, i, x) /\ \A z \in b + 1 .. x - 1 : ~ IsOn(s, q, i, z)
      BY <2>2 DEF Follows
    <3>2. J # x => J \in b + 1 .. x - 1
      BY <1>1
    <3> QED
      BY <1>2, <2>3, <3>1, <3>2
  <2> QED
    BY <2>1, <2>4, <2>5, <2>6
<1>4. Reached(s, update, p) = 0 .. v
  <2>1. \A i \in 0 .. L : Forward(s, update[i], i) = p <=> i <= v
    BY <1>3
  <2>2. ASSUME NEW i \in Reached(s, update, p) PROVE i \in 0 .. v
    <3>1. i \in 0 .. L /\ i \in 0 .. i /\ \A j \in 0 .. i : Forward(s, update[j], j) = p
      BY <1>1 DEF Reached
    <3> QED
      BY <2>1, <3>1
  <2>3. ASSUME NEW i \in 0 .. v PROVE i \in Reached(s, update, p)
    <3>1. i \in 0 .. L /\ \A j \in 0 .. i : j \in 0 .. L /\ j <= v
      BY <1>1
    <3> QED
      BY <2>1, <3>1 DEF Reached
  <2> QED
    BY <2>2, <2>3
<1>5. /\ m1 \in Skips /\ m1.level = L /\ m1.length = s.length
      /\ \A c \in Cells :
           /\ m1.node[c].priority = s.node[c].priority
           /\ m1.node[c].data = s.node[c].data
           /\ m1.node[c].level = s.node[c].level
           /\ \A i \in Levels :
                m1.node[c].forward[i] = IF i \in 0 .. v /\ update[i] = c
                                        THEN Forward(s, p, i) ELSE s.node[c].forward[i]
  BY <1>1, <1>4, BypassedFields
<1> HIDE DEF m1
<1>6. /\ m2 \in Skips /\ m2.node = m1.node /\ m2.length = m1.length
      /\ m2.level \in 0 .. L
      /\ m2.level > 0 => Forward(m1, HEAD, m2.level) # TAIL
      /\ \A i \in 1 .. L : Forward(m1, HEAD, i) # TAIL => i <= m2.level
  BY <1>5, LoweredFields
<1> HIDE DEF m2
<1>7. s.length = N
  BY DEF SkipLinked
<1>8. m \in Skips /\ m.node = m1.node /\ m.length = N - 1 /\ m.level = m2.level
  <2>1. m = [m2 EXCEPT !.length = @ - 1]
    BY DEF Unlinked, m1, m2
  <2>2. m2.length = N
    BY <1>5, <1>6, <1>7
  <2> HIDE DEF m
  <2> QED
    BY <1>1, <1>6, <2>1, <2>2 DEF Skips
<1> HIDE DEF m
<1>9. /\ IsOrder(r) /\ Len(r) = N - 1
      /\ \A k \in 0 .. N + 1 : Place(r, k) = IF k < J THEN Place(q, k) ELSE Place(q, k + 1)
  BY RemovedPlaces
<1> HIDE DEF r
<1>10. ASSUME NEW k \in 0 .. N
       PROVE  /\ Place(r, k) = Place(q, skip(k)) /\ skip(k) \in 0 .. N + 1 /\ skip(k) # J
              /\ Place(q, skip(k)) \in Cells
              /\ k # N => skip(k) \in 0 .. N
              /\ k = N <=> skip(k) = N + 1
  <2>1. k \in 0 .. N + 1
    BY <1>1
  <2>2. CASE k < J
    <3>1. skip(k) = k /\ k \in 0 .. N + 1 /\ k # J /\ k # N /\ k # N + 1
      BY <1>1, <2>2
    <3> QED
      BY <1>9, <2>1, <2>2, <3>1, Places
  <2>3. CASE ~ (k < J)
    <3>1. /\ skip(k) = k + 1 /\ k + 1 \in 0 .. N + 1 /\ k + 1 # J /\ (k # N => k + 1 \in 0 .. N)
          /\ (k = N <=> k + 1 = N + 1)
      BY <1>1, <2>3
    <3> QED
      BY <1>9, <2>1, <2>3, <3>1, Places
  <2> QED
    BY <2>2, <2>3
<1>11. ASSUME NEW i \in Levels, NEW k \in 0 .. N
       PROVE  IsOn(m, r, i, k) <=> IsOn(s, q, i, skip(k))
  <2>1. m.node[Place(r, k)].level = s.node[Place(q, skip(k))].level
    BY <1>5, <1>8, <1>10
  <2>2. k = Len(r) + 1 <=> skip(k) = N + 1
    BY <1>1, <1>9, <1>10
  <2> QED
    BY <2>1, <2>2 DEF IsOn
<1>12. ASSUME NEW i \in Levels, NEW j \in 0 .. N - 1, IsOn(s, q, i, skip(j)),
              NEW k \in 1 .. N, Follows(m, r, i, j, k)
       PROVE  m.node[Place(r, j)].forward[i] = Place(r, k)
  <2> DEFINE c == Place(q, skip(j))
  <2>1. j \in 0 .. N /\ j # N /\ i \in Nat
    BY <1>1 DEF Levels
  <2>2. Place(r, j) = c /\ skip(j) \in 0 .. N /\ c \in Cells /\ skip(j) # J
    BY <1>10, <2>1
  <2>3. m.node[c].forward[i] = IF i \in 0 .. v /\ update[i] = c THEN Forward(s, p, i) ELSE s.node[c].forward[i]
    BY <1>5, <1>8, <2>2
  <2>4. ASSUME i \in 0 .. v
        PROVE  \E b \in 0 .. J - 1 :
                 /\ update[i] = Place(q, b) /\ IsOn(s, q, i, b)
                 /\ \A z \in b + 1 .. J - 1 : ~ IsOn(s, q, i, z)
    <3>1. i \in 0 .. L
      BY <1>1, <2>4
    <3>2. PICK b \in 0 .. J - 1 : update[i] = Place(q, b) /\ LeadsOver(s, q, i, b, J)
      BY <1>3, <3>1
    <3>3. PICK x \in J .. N + 1 : Follows(s, q, i, b, x)
      BY <3>2 DEF LeadsOver
    <3>4. \A z \in b + 1 .. J - 1 : z \in b + 1 .. x - 1
      BY <1>1
    <3> QED
      BY <3>2, <3>3, <3>4 DEF LeadsOver, Follows
  <2>5. CASE i \in 0 .. v /\ update[i] = c
    <3>1. PICK b \in 0 .. J - 1 : /\ update[i] = Place(q, b) /\ IsOn(s, q, i, b)
                                  /\ \A z \in b + 1 .. J - 1 : ~ IsOn(s, q, i, z)
      BY <2>4, <2>5
    <3>2. b = skip(j)
      <4>1. b \in 0 .. N + 2 /\ skip(j) \in 0 .. N + 2 /\ Place(q, b) = Place(q, skip(j))
        BY <1>1, <2>2, <2>5, <3>1
      <4> QED
        BY <4>1, Places
    <3>3. j = b /\ j < J
      BY <1>1, <3>2
    <3>4. IsOn(s, q, i, J) /\ J \in 0 .. N
      BY <1>1, <1>2, <2>5
    <3>5. PICK x \in 1 .. N + 1 : Follows(s, q, i, J, x) /\ Forward(s, Place(q, J), i) = Place(q, x)
      BY <3>4, ForwardIs
    <3>6. J < x /\ IsOn(s, q, i, x) /\ \A z \in J + 1 .. x - 1 : ~ IsOn(s, q, i, z)
      BY <3>5 DEF Follows
    <3>7. x - 1 \in 0 .. N /\ skip(x - 1) = x /\ j < x - 1
      BY <1>1, <3>3, <3>6
    <3>8. IsOn(m, r, i, x - 1) /\ Place(r, x - 1) = Place(q, x)
      BY <1>10, <1>11, <3>6, <3>7
    <3>9. ASSUME NEW z \in j + 1 .. (x - 1) - 1 PROVE ~ IsOn(m, r, i, z)
      <4>1. z \in 0 .. N
        BY <1>1, <3>7
      <4>2. skip(z) \in b + 1 .. J - 1 \/ skip(z) \in J + 1 .. x - 1
        BY <1>1, <3>3, <3>7
      <4>3. ~ IsOn(s, q, i, skip(z))
        BY <3>1, <3>6, <4>2
      <4> QED
        BY <1>11, <4>1, <4>3
    <3>10. Follows(m, r, i, j, x - 1)
      BY <3>7, <3>8, <3>9 DEF Follows
    <3>11. k = x - 1
      <4>1. k \in Nat /\ j \in Nat /\ x - 1 \in Nat
        BY <1>1, <3>7
      <4> QED
        BY <1>12, <3>10, <4>1, OneFollows
    <3> QED
      BY <1>1, <2>2, <2>3, <2>5, <3>5, <3>8, <3>11
  <2>6. CASE ~ (i \in 0 .. v /\ update[i] = c)
    <3>1. PICK x \in 1 .. N + 1 : Follows(s, q, i, skip(j), x) /\ Forward(s, c, i) = Place(q, x)
      BY <1>12, <2>2, ForwardIs
    <3>2. skip(j) < x /\ IsOn(s, q, i, x) /\ \A z \in skip(j) + 1 .. x - 1 : ~ IsOn(s, q, i, z)
      BY <3>1 DEF Follows
    <3>3. x # J
      <4> SUFFICES ASSUME x = J PROVE FALSE
        OBVIOUS
      <4>1. i \in 0 .. v
        BY <1>1, <1>2, <2>1, <3>2
      <4>2. PICK b \in 0 .. J - 1 : /\ update[i] = Place(q, b) /\ IsOn(s, q, i, b)
                                    /\ \A z \in b + 1 .. J - 1 : ~ IsOn(s, q, i, z)
        BY <2>4, <4>1
      <4>3. skip(j) = j /\ j < J
        BY <1>1, <3>2
      <4>4. b # j
        BY <2>6, <4>1, <4>2, <4>3
      <4>5. ~ (j < b)
        <5>1. j < b => b \in skip(j) + 1 .. x - 1
          BY <1>1, <4>3
        <5> QED
          BY <3>2, <4>2, <5>1
      <4>6. ~ (b < j)
        <5>1. b < j => skip(j) \in b + 1 .. J - 1
          BY <1>1, <4>3
        <5> QED
          BY <1>12, <4>2, <5>1
      <4> QED
        BY <1>1, <4>4, <4>5, <4>6
    <3> DEFINE y == IF x < J THEN x ELSE x - 1
    <3>4. y \in 1 .. N /\ y \in 0 .. N /\ skip(y) = x /\ j < y
      <4>1. CASE x < J
        <5>1. y = x /\ skip(x) = x /\ x \in 1 .. N
          BY <1>1, <4>1
        <5>2. j < x
          BY <1>1, <3>2, <4>1
        <5> QED
          BY <5>1, <5>2
      <4>2. CASE ~ (x < J)
        <5>1. x > J /\ y = x - 1 /\ skip(x - 1) = x /\ x - 1 \in 1 .. N
          BY <1>1, <3>3, <4>2
        <5>2. j < x - 1
          BY <1>1, <3>2, <5>1
        <5> QED
          BY <1>1, <5>1, <5>2
      <4> QED
        BY <4>1, <4>2
    <3>5. IsOn(m, r, i, y) /\ Place(r, y) = Place(q, x)
      BY <1>10, <1>11, <3>2, <3>4
    <3>6. ASSUME NEW z \in j + 1 .. y - 1 PROVE ~ IsOn(m, r, i, z)
      <4>1. z \in 0 .. N
        BY <1>1, <3>4
      <4>2. skip(z) \in skip(j) + 1 .. x - 1
        BY <1>1, <3>4
      <4> QED
        BY <1>11, <3>2, <4>1, <4>2
    <3>7. Follows(m, r, i, j, y)
      BY <3>4, <3>5, <3>6 DEF Follows
    <3>8. k = y
      <4>1. k \in Nat /\ j \in Nat /\ y \in Nat
        BY <1>1, <3>4
      <4> HIDE DEF y
      <4> QED
        BY <1>12, <3>7, <4>1, OneFollows
    <3>9. s.node[c].forward[i] = Place(q, x)
      BY <1>1, <2>2, <3>1, SkipFields
    <3> QED
      BY <2>2, <2>3, <2>6, <3>5, <3>8, <3>9
  <2> QED
    BY <2>5, <2>6
<1>13. ASSUME NEW i \in Levels, NEW j \in 0 .. N - 1, ~ IsOn(s, q, i, skip(j))
       PROVE  m.node[Place(r, j)].forward[i] = NULL
  <2> DEFINE c == Place(q, skip(j))
  <2>1. j \in 0 .. N /\ j # N
    BY <1>1
  <2>2. Place(r, j) = c /\ skip(j) \in 0 .. N /\ c \in Cells
    BY <1>10, <2>1
  <2>3. m.node[c].forward[i] = IF i \in 0 .. v /\ update[i] = c THEN Forward(s, p, i) ELSE s.node[c].forward[i]
    BY <1>5, <1>8, <2>2
  <2>4. ~ (i \in 0 .. v /\ update[i] = c)
    <3> SUFFICES ASSUME i \in 0 .. v, update[i] = c PROVE FALSE
      OBVIOUS
    <3>1. i \in 0 .. L
      BY <1>1
    <3>2. PICK b \in 0 .. J - 1 : update[i] = Place(q, b) /\ LeadsOver(s, q, i, b, J)
      BY <1>3, <3>1
    <3>3. b = skip(j)
      <4>1. b \in 0 .. N + 2 /\ skip(j) \in 0 .. N + 2 /\ Place(q, b) = Place(q, skip(j))
        BY <1>1, <2>2, <3>2
      <4> QED
        BY <4>1, Places
    <3> QED
      BY <1>13, <3>2, <3>3 DEF LeadsOver
  <2>5. s.node[c].forward[i] = NULL
    BY <1>13, <2>2 DEF SkipLinked
  <2> HIDE DEF c
  <2> QED
    BY <2>2, <2>3, <2>4, <2>5
<1>14. \A i \in Levels, j \in 0 .. Len(r) :
         IF IsOn(m, r, i, j)
         THEN \A k \in 1 .. Len(r) + 1 :
                Follows(m, r, i, j, k) => m.node[Place(r, j)].forward[i] = Place(r, k)
         ELSE m.node[Place(r, j)].forward[i] = NULL
  <2> SUFFICES ASSUME NEW i \in Levels, NEW j \in 0 .. Len(r)
               PROVE  IF IsOn(m, r, i, j)
                      THEN \A k \in 1 .. Len(r) + 1 :
                             Follows(m, r, i, j, k) => m.node[Place(r, j)].forward[i] = Place(r, k)
                      ELSE m.node[Place(r, j)].forward[i] = NULL
    OBVIOUS
  <2>1. j \in 0 .. N - 1 /\ j \in 0 .. N /\ 1 .. Len(r) + 1 = 1 .. N
    BY <1>1, <1>9
  <2> QED
    BY <1>11, <1>12, <1>13, <2>1
<1>15. /\ s.node[HEAD].level = MaxLevel /\ s.node[TAIL].priority = INVALID
       /\ \A i \in Levels : s.node[TAIL].forward[i] = NULL
  BY DEF SkipLinked
<1>16. m.node[HEAD].level = MaxLevel /\ m.node[TAIL].priority = INVALID
  BY <1>5, <1>8, <1>15, Addresses
<1>17. ASSUME NEW i \in Levels PROVE m.node[TAIL].forward[i] = NULL
  <2>1. ~ (i \in 0 .. v /\ update[i] = TAIL)
    <3> SUFFICES ASSUME i \in 0 .. v, update[i] = TAIL PROVE FALSE
      OBVIOUS
    <3>1. i \in 0 .. L
      BY <1>1
    <3>2. PICK b \in 0 .. J - 1 : update[i] = Place(q, b)
      BY <1>3, <3>1
    <3>3. b \in 0 .. N + 2 /\ N + 1 \in 0 .. N + 2 /\ b # N + 1
      BY <1>1
    <3> QED
      BY <3>2, <3>3, Places
  <2> QED
    BY <1>5, <1>8, <1>15, <2>1, Addresses
<1>18. ASSUME NEW i \in Levels
       PROVE  \E k \in 1 .. N : Follows(m, r, i, 0, k) /\ Forward(m1, HEAD, i) = Place(r, k)
  <2>1. 0 \in 0 .. Len(r) /\ 0 \in 0 .. N /\ 1 .. Len(r) + 1 = 1 .. N
    BY <1>1, <1>9
  <2>2. PICK k \in 1 .. N : Follows(m, r, i, 0, k)
    BY <1>9, <2>1, SomeFollows
  <2>3. IsOn(m, r, i, 0)
    <3>1. skip(0) = 0
      BY <1>1
    <3>2. IsOn(s, q, i, 0)
      BY LevelsOn
    <3> QED
      BY <1>11, <2>1, <3>1, <3>2
  <2>4. m.node[Place(r, 0)].forward[i] = Place(r, k) /\ Place(r, 0) = HEAD
    BY <1>9, <1>14, <2>1, <2>2, <2>3, Places
  <2>5. Forward(m1, HEAD, i) = m1.node[HEAD].forward[i]
    BY Addresses DEF Forward
  <2> QED
    BY <1>8, <2>2, <2>4, <2>5
<1>19. \A k \in 1 .. N : Place(r, k) = TAIL <=> k = N
  <2> SUFFICES ASSUME NEW k \in 1 .. N PROVE Place(r, k) = TAIL <=> k = N
    OBVIOUS
  <2>1. k \in 0 .. Len(r) + 2 /\ Len(r) + 1 \in 0 .. Len(r) + 2 /\ Len(r) + 1 = N
    BY <1>1, <1>9
  <2> QED
    BY <1>9, <2>1, Places
<1>20. ASSUME NEW j \in 1 .. N - 1
       PROVE  /\ m.node[r[j]].level \in Nat /\ m.node[r[j]].level <= L
              /\ \A i \in Levels : IsOn(m, r, i, j) <=> m.node[r[j]].level >= i
  <2>1. j \in 1 .. Len(r) /\ j \in 0 .. N /\ j # N /\ j # Len(r) + 1
    BY <1>1, <1>9
  <2>2. r[j] = Place(r, j)
    BY <1>9, <2>1, Places
  <2>3. Place(r, j) = Place(q, skip(j)) /\ skip(j) \in 1 .. N /\ skip(j) # N + 1
    <3>1. skip(j) # 0
      BY <1>1
    <3>2. skip(j) \in 0 .. N /\ Place(r, j) = Place(q, skip(j))
      BY <1>10, <2>1
    <3> HIDE DEF skip
    <3> QED
      BY <1>1, <3>1, <3>2
  <2>4. r[j] = q[skip(j)] /\ q[skip(j)] \in Cells
    BY <2>2, <2>3, Places, Addresses
  <2>5. m.node[r[j]].level = s.node[q[skip(j)]].level
    BY <1>5, <1>8, <2>4
  <2>6. s.node[q[skip(j)]].level \in Nat /\ s.node[q[skip(j)]].level <= L
    BY <2>3, LevelsOn
  <2>7. \A i : IsOn(m, r, i, j) <=> m.node[r[j]].level >= i
    BY <2>1, <2>2 DEF IsOn
  <2> QED
    BY <2>5, <2>6, <2>7
<1>21. ASSUME NEW j \in 1 .. N - 1 PROVE m.node[r[j]].level <= m.level
  <2> DEFINE i == m.node[r[j]].level
  <2>1. i \in Nat /\ i <= L /\ m.level \in Nat
    BY <1>1, <1>6, <1>8, <1>20
  <2>2. CASE i = 0
    BY <2>1, <2>2
  <2>3. CASE i # 0
    <3>1. i \in 1 .. L /\ i \in Levels
      BY <1>1, <2>1, <2>3
    <3>2. IsOn(m, r, i, j)
      BY <1>20, <2>1, <3>1
    <3>3. PICK k \in 1 .. N : Follows(m, r, i, 0, k) /\ Forward(m1, HEAD, i) = Place(r, k)
      BY <1>18, <3>1
    <3>4. k # N
      <4>1. k = N => j \in 0 + 1 .. k - 1
        BY <1>1
      <4> QED
        BY <3>2, <3>3, <4>1 DEF Follows
    <3>5. Forward(m1, HEAD, i) # TAIL
      BY <1>19, <3>3, <3>4
    <3> HIDE DEF i
    <3> QED
      BY <1>6, <1>8, <3>1, <3>5 DEF i
  <2> QED
    BY <2>2, <2>3
<1>22. ASSUME m.level > 0 PROVE \E j \in 1 .. N - 1 : m.node[r[j]].level = m.level
  <2> DEFINE i == m.level
  <2>1. i \in Nat /\ i \in Levels /\ i \in 0 .. L
    BY <1>1, <1>6, <1>8
  <2>2. PICK k \in 1 .. N : Follows(m, r, i, 0, k) /\ Forward(m1, HEAD, i) = Place(r, k)
    BY <1>18, <2>1
  <2>3. Forward(m1, HEAD, i) # TAIL
    BY <1>6, <1>8, <1>22
  <2>4. k \in 1 .. N - 1
    BY <1>1, <1>19, <2>2, <2>3
  <2>5. m.node[r[k]].level >= i /\ m.node[r[k]].level \in Nat /\ m.node[r[k]].level <= i
    BY <1>20, <1>21, <2>1, <2>2, <2>4 DEF Follows
  <2> QED
    BY <2>1, <2>4, <2>5
<1>23. SkipLinked(m, r)
  <2>1. m.length = Len(r) /\ 1 .. Len(r) = 1 .. N - 1
    BY <1>8, <1>9
  <2> QED
    BY <1>8, <1>14, <1>16, <1>17, <1>21, <1>22, <2>1 DEF SkipLinked, Skips
<1> QED
  BY <1>5, <1>8, <1>23 DEF m, r

-----------------------------------------------------------------------------
(* The skip list: the operations.                                          *)

(* mm_malloc returns a block that is free.                                 *)
LEMMA LowestFree ==
  ASSUME NEW used \in SUBSET Nodes, used # Nodes
  PROVE  mm_malloc(used) \in Nodes \ used
<1> DEFINE S == Nodes \ used
<1>1. S \in SUBSET Nat /\ S # {}
  <2>1. \E x \in Nodes : x \notin used
    OBVIOUS
  <2>2. Nodes \subseteq Nat
    BY NodesAssumption DEF Nodes
  <2> QED
    BY <2>1, <2>2
<1> HIDE DEF S
<1>2. PICK x \in S : \A y \in S : x <= y
  BY <1>1, SmallestMember
<1>3. Min(S) \in S
  BY <1>2 DEF Min
<1> QED
  BY <1>3 DEF mm_malloc, S

(* In a sorted list every priority has its place.                          *)
LEMMA FirstAtExists ==
  ASSUME NEW s, NEW q, IsOrder(q), SkipLinked(s, q), NEW priority \in Int, priority <= INVALID,
         \A i, j \in 1 .. Len(q) : i <= j => s.node[q[i]].priority <= s.node[q[j]].priority
  PROVE  \E J \in 1 .. Len(q) + 1 : IsFirstAt(s, q, priority, J)
<1> DEFINE S == {k \in 1 .. Len(q) + 1 : s.node[Place(q, k)].priority >= priority}
<1>1. Len(q) \in Nat /\ s \in Skips /\ INVALID \in Int
  BY Places, LevelsOn, LevelAssumption
<1>2. \A k \in 1 .. Len(q) + 1 : s.node[Place(q, k)].priority \in Int
  <2>1. \A k \in 1 .. Len(q) + 1 : k \in 0 .. Len(q) + 1
    BY <1>1
  <2> QED
    BY <1>1, <2>1, Places, SkipFields
<1>3. s.node[Place(q, Len(q) + 1)].priority = INVALID
  BY Places DEF SkipLinked
<1>4. S \in SUBSET Nat /\ Len(q) + 1 \in S
  BY <1>1, <1>3
<1>5. PICK J \in S : \A k \in S : J <= k
  <2> HIDE DEF S
  <2> QED
    BY <1>4, SmallestMember
<1>6. J \in 1 .. Len(q) + 1 /\ s.node[Place(q, J)].priority >= priority
  OBVIOUS
<1>7. ASSUME NEW k \in 1 .. J - 1 PROVE s.node[Place(q, k)].priority < priority
  <2>1. k \in 1 .. Len(q) + 1 /\ ~ (J <= k)
    BY <1>1, <1>6
  <2>2. k \notin S
    BY <1>5, <2>1
  <2> QED
    BY <1>2, <2>1, <2>2
<1>8. ASSUME NEW k \in J .. Len(q) + 1 PROVE s.node[Place(q, k)].priority >= priority
  <2>1. CASE k = Len(q) + 1
    BY <1>1, <1>3, <2>1
  <2>2. CASE k # Len(q) + 1
    <3>1. k \in 1 .. Len(q) /\ J \in 1 .. Len(q) /\ J <= k
      BY <1>1, <1>6, <2>2
    <3>2. s.node[q[J]].priority <= s.node[q[k]].priority
      BY <3>1
    <3>3. Place(q, J) = q[J] /\ Place(q, k) = q[k]
      BY <3>1, Places
    <3>4. s.node[Place(q, J)].priority \in Int /\ s.node[Place(q, k)].priority \in Int
      BY <1>2, <1>6, <3>1
    <3> QED
      BY <1>6, <3>2, <3>3, <3>4
  <2> QED
    BY <2>1, <2>2
<1> QED
  BY <1>6, <1>7, <1>8 DEF IsFirstAt

(* skip_list_delete of a priority that is in the list.                     *)
LEMMA SkipDeleteIs ==
  ASSUME NEW s, NEW q, IsOrder(q), Len(q) <= MaxNodes, SkipLinked(s, q),
         NEW J \in 1 .. Len(q), NEW priority \in Int, IsFirstAt(s, q, priority, J),
         s.node[q[J]].priority = priority
  PROVE  /\ SkipLinked(skip_list_delete(s, priority), RemoveAt(q, J))
         /\ \A c \in Cells :
              /\ skip_list_delete(s, priority).node[c].priority = s.node[c].priority
              /\ skip_list_delete(s, priority).node[c].data = s.node[c].data
              /\ skip_list_delete(s, priority).node[c].level = s.node[c].level
<1>1. J \in 1 .. Len(q) + 1 /\ Place(q, J) = q[J]
  BY Places
<1>2. IsUpdate(s, q, Before(s, priority), J) /\ At(s, priority) = q[J]
  BY <1>1, BeforeIs
<1>3. skip_list_delete(s, priority) = Unlinked(s, Before(s, priority), q[J])
  BY <1>2 DEF skip_list_delete
<1> DEFINE u == Before(s, priority)
<1>4. /\ SkipLinked(Unlinked(s, u, q[J]), RemoveAt(q, J))
      /\ \A c \in Cells :
           /\ Unlinked(s, u, q[J]).node[c].priority = s.node[c].priority
           /\ Unlinked(s, u, q[J]).node[c].data = s.node[c].data
           /\ Unlinked(s, u, q[J]).node[c].level = s.node[c].level
  BY <1>2, UnlinkedShape
<1> QED
  BY <1>3, <1>4

(* skip_list_pop_front, which deletes by priority, takes out the first     *)
(* node.                                                                   *)
LEMMA SkipPoppedIs ==
  ASSUME NEW s, NEW q, IsOrder(q), Len(q) <= MaxNodes, SkipLinked(s, q), 1 \in 1 .. Len(q),
         s.node[q[1]].priority <= INVALID,
         \A i, j \in 1 .. Len(q) : i <= j => s.node[q[i]].priority <= s.node[q[j]].priority
  PROVE  /\ SkipLinked(skip_list_popped(s), RemoveAt(q, 1))
         /\ \A c \in Cells :
              /\ skip_list_popped(s).node[c].priority = s.node[c].priority
              /\ skip_list_popped(s).node[c].data = s.node[c].data
<1> DEFINE priority == s.node[q[1]].priority
<1>1. /\ Len(q) \in Nat /\ s \in Skips /\ q[1] \in Cells /\ q[1] # TAIL /\ Place(q, 1) = q[1]
  BY Places, LevelsOn, Addresses
<1>2. priority \in Int
  BY <1>1, SkipFields
<1>3. skip_list_popped(s) = skip_list_delete(s, priority)
  BY <1>1, SkipOrderIs DEF skip_list_popped
<1>4. \A k \in 1 .. Len(q) + 1 : s.node[Place(q, k)].priority >= priority
  <2> SUFFICES ASSUME NEW k \in 1 .. Len(q) + 1 PROVE s.node[Place(q, k)].priority >= priority
    OBVIOUS
  <2>1. CASE k = Len(q) + 1
    <3>1. s.node[Place(q, k)].priority = INVALID /\ INVALID \in Int
      BY <2>1, Places, LevelAssumption DEF SkipLinked
    <3> QED
      BY <1>2, <3>1
  <2>2. CASE k # Len(q) + 1
    <3>1. k \in 1 .. Len(q) /\ 1 <= k
      BY <1>1, <2>2
    <3>2. Place(q, k) = q[k] /\ q[k] \in Cells
      BY <3>1, Places, Addresses
    <3>3. s.node[q[1]].priority <= s.node[q[k]].priority /\ s.node[q[k]].priority \in Int
      BY <1>1, <3>1, <3>2, SkipFields
    <3> QED
      BY <1>2, <3>2, <3>3
  <2> QED
    BY <2>1, <2>2
<1>5. IsFirstAt(s, q, priority, 1)
  BY <1>4 DEF IsFirstAt
<1> HIDE DEF priority
<1>6. s.node[q[1]].priority = priority
  BY DEF priority
<1> QED
  BY <1>2, <1>3, <1>5, <1>6, SkipDeleteIs

(* skip_list_insert of a new node.                                         *)
LEMMA NodeSet ==
  ASSUME NEW s \in Skips, NEW n \in Cells, NEW d \in SkipNode
  PROVE  /\ [s EXCEPT !.node[n] = d] \in Skips
         /\ [s EXCEPT !.node[n] = d].level = s.level /\ [s EXCEPT !.node[n] = d].length = s.length
         /\ \A c \in Cells : [s EXCEPT !.node[n] = d].node[c] = IF c = n THEN d ELSE s.node[c]
BY DEF Skips

(* skip_list_insert puts a new node before the first that is not below its *)
(* priority.                                                               *)
LEMMA SkipInsertShape ==
  ASSUME NEW s, NEW q, IsOrder(q), Len(q) <= MaxNodes, SkipLinked(s, q),
         NEW J \in 1 .. Len(q) + 1, NEW priority \in Int, IsFirstAt(s, q, priority, J),
         NEW n \in Nodes, \A k \in 1 .. Len(q) : q[k] # n,
         NEW data \in Timers \cup {NULL}, NEW level \in Levels
  PROVE  /\ SkipLinked(skip_list_insert(s, n, priority, data, level), InsertAt(q, J, n))
         /\ \A c \in Cells :
              /\ skip_list_insert(s, n, priority, data, level).node[c].priority =
                   IF c = n THEN priority ELSE s.node[c].priority
              /\ skip_list_insert(s, n, priority, data, level).node[c].data =
                   IF c = n THEN data ELSE s.node[c].data
<1> DEFINE d == node_init(priority, level, data, NULL)
           s2 == [s EXCEPT !.node[n] = d]
           u == Before(s, priority)
           m == LinkedIn(s2, n, u, level)
<1>1. s \in Skips /\ n \in Cells /\ n # HEAD /\ n # TAIL
  BY LevelsOn, Addresses
<1>2. d \in SkipNode /\ d.priority = priority /\ d.data = data
  <2>1. [i \in Levels |-> IF i <= level THEN NULL ELSE NULL] \in [Levels -> Pointers]
    BY Addresses
  <2> QED
    BY <2>1 DEF node_init, SkipNode
<1> HIDE DEF d
<1>3. /\ s2 \in Skips /\ s2.level = s.level /\ s2.length = s.length
      /\ \A c \in Cells : s2.node[c] = IF c = n THEN d ELSE s.node[c]
  BY <1>1, <1>2, NodeSet
<1> HIDE DEF s2
<1>4. s2.node[TAIL].priority = INVALID
  BY <1>1, <1>3, Addresses DEF SkipLinked
<1>5. \A c \in Cells : c = HEAD \/ c = TAIL \/ (\E i \in 1 .. Len(q) : c = q[i]) =>
        s2.node[c].level = s.node[c].level /\ s2.node[c].forward = s.node[c].forward
  BY <1>1, <1>3
<1>6. SkipLinked(s2, q) /\ \A i : \A j \in 0 .. Len(q) + 1 : IsOn(s2, q, i, j) <=> IsOn(s, q, i, j)
  BY <1>3, <1>4, <1>5, SameSkips
<1>7. IsUpdate(s, q, u, J)
  BY BeforeIs
<1>8. IsUpdate(s2, q, u, J)
  <2> SUFFICES ASSUME NEW i \in 0 .. s2.level PROVE Leads(s2, q, i, u[i], J)
    BY DEF IsUpdate
  <2>2. i \in 0 .. s.level
    BY <1>3
  <2>3. PICK b \in 0 .. J - 1 : u[i] = Place(q, b) /\ LeadsOver(s, q, i, b, J)
    BY <1>7, <2>2 DEF IsUpdate, Leads
  <2>4. PICK k \in J .. Len(q) + 1 : Follows(s, q, i, b, k)
    BY <2>3 DEF LeadsOver
  <2>5. /\ Len(q) \in Nat /\ b \in 0 .. Len(q) + 1 /\ k \in 0 .. Len(q) + 1
        /\ \A z \in b + 1 .. k - 1 : z \in 0 .. Len(q) + 1
    BY Places
  <2>6. Follows(s2, q, i, b, k)
    BY <1>6, <2>4, <2>5 DEF Follows
  <2> QED
    BY <1>6, <2>3, <2>4, <2>5, <2>6 DEF Leads, LeadsOver
<1>9. /\ SkipLinked(m, InsertAt(q, J, n))
      /\ \A c \in Cells : m.node[c].priority = s2.node[c].priority /\ m.node[c].data = s2.node[c].data
  BY <1>6, <1>8, LinkedInShape
<1>10. skip_list_insert(s, n, priority, data, level) = m
  BY DEF skip_list_insert, m, s2, d, u
<1> HIDE DEF m
<1>11. \A c \in Cells :
         /\ m.node[c].priority = IF c = n THEN priority ELSE s.node[c].priority
         /\ m.node[c].data = IF c = n THEN data ELSE s.node[c].data
  BY <1>2, <1>3, <1>9
<1> QED
  BY <1>9, <1>10, <1>11

-----------------------------------------------------------------------------
(* Either list.                                                            *)

(* Either list, l in the build b, has the nodes q.                         *)
IsLinked(b, l, q) == IF b = "list" THEN DoublyLinked(l, q) ELSE SkipLinked(l, q)

(* Every node has a priority, and data of a timer or none.                 *)
LEMMA NodeFields ==
  ASSUME NEW b, NEW l, NEW q, IsOrder(q), IsLinked(b, l, q)
  PROVE  \A c \in Cells : l.node[c].priority \in Int /\ l.node[c].data \in Timers \cup {NULL}
<1>1. CASE b = "list"
  BY <1>1, ListFields DEF IsLinked
<1>2. CASE b # "list"
  <2>1. SkipLinked(l, q)
    BY <1>2 DEF IsLinked
  <2> QED
    BY <2>1, LevelsOn, SkipFields
<1> QED
  BY <1>1, <1>2

(* Either list reads as its order.                                         *)
LEMMA OrderFor ==
  ASSUME NEW b, NEW l, NEW q, IsOrder(q), Len(q) <= MaxNodes, IsLinked(b, l, q)
  PROVE  /\ (IF b = "list" THEN InOrder(l) ELSE SkipOrder(l)) = q
         /\ (IF b = "list" THEN list_cbegin(l) ELSE cbegin(l)) = Place(q, 1)
<1>1. CASE b = "list"
  BY <1>1, InOrderIs DEF IsLinked
<1>2. CASE b # "list"
  BY <1>2, SkipOrderIs DEF IsLinked
<1> QED
  BY <1>1, <1>2

(* On the bottom each place leads to the next.                             *)
LEMMA BottomIs ==
  ASSUME NEW b, NEW l, NEW q, IsOrder(q), IsLinked(b, l, q),
         NEW next, next = IF b = "list" THEN Nexts(l) ELSE Forwards(l, 0)
  PROVE  next \in [Cells -> Pointers] /\ \A k \in 0 .. Len(q) : next[Place(q, k)] = Place(q, k + 1)
<1>1. CASE b = "list"
  <2>1. DoublyLinked(l, q) /\ next = Nexts(l)
    BY <1>1 DEF IsLinked
  <2>2. next \in [Cells -> Pointers]
    BY <2>1, ListFields DEF Nexts
  <2>3. \A k \in 0 .. Len(q) : Place(q, k) \in Cells /\ l.node[Place(q, k)].next = Place(q, k + 1)
    BY <2>1, Places DEF DoublyLinked
  <2> QED
    BY <2>1, <2>2, <2>3 DEF Nexts
<1>2. CASE b # "list"
  <2>1. SkipLinked(l, q) /\ next = Forwards(l, 0)
    BY <1>2 DEF IsLinked
  <2>2. 0 \in Levels /\ Len(q) \in Nat
    BY LevelAssumption, Places DEF Levels
  <2>3. next \in [Cells -> Pointers]
    BY <2>1, <2>2, LevelsOn, SkipFields
  <2>4. \A k \in 0 .. Len(q) + 1 : IsOn(l, q, 0, k)
    <3> SUFFICES ASSUME NEW k \in 0 .. Len(q) + 1 PROVE IsOn(l, q, 0, k)
      OBVIOUS
    <3>1. k = 0 \/ k = Len(q) + 1 \/ k \in 1 .. Len(q)
      BY <2>2
    <3>2. \A j \in 1 .. Len(q) : l.node[q[j]].level >= 0
      BY <2>1, LevelsOn
    <3> QED
      BY <2>1, <2>2, <3>1, <3>2, LevelsOn
  <2>5. ASSUME NEW k \in 0 .. Len(q) PROVE next[Place(q, k)] = Place(q, k + 1)
    <3>1. k + 1 \in 1 .. Len(q) + 1 /\ IsOn(l, q, 0, k) /\ Follows(l, q, 0, k, k + 1)
      BY <2>2, <2>4 DEF Follows
    <3> QED
      BY <2>1, <2>2, <3>1, ForwardToPlace
  <2> QED
    BY <2>3, <2>5
<1> QED
  BY <1>1, <1>2

(* A node that is free is a node.                                          *)
LEMMA ClearedNodes ==
  /\ Blank \in ListNode /\ Unused \in SkipNode
  /\ Blank.priority = 0 /\ Blank.data = NULL /\ Unused.priority = 0 /\ Unused.data = NULL
<1>1. NULL \in Pointers /\ 0 \in Levels
  BY Addresses, LevelAssumption DEF Levels
<1>2. [i \in Levels |-> IF i <= 0 THEN NULL ELSE NULL] \in [Levels -> Pointers]
  BY <1>1
<1> QED
  BY <1>1, <1>2 DEF Blank, Unused, node_init, ListNode, SkipNode

(* A node that is not in the list is cleared.                              *)
Cleared(b, l, n) == [l EXCEPT !.node[n] = IF b = "list" THEN Blank ELSE Unused]

(* Freeing a node that is not linked leaves the list as it is.             *)
LEMMA WithoutShape ==
  ASSUME NEW b, NEW l, NEW q, IsOrder(q), IsLinked(b, l, q),
         NEW n \in Nodes, \A k \in 1 .. Len(q) : q[k] # n,
         NEW m, m = Cleared(b, l, n)
  PROVE  /\ IsLinked(b, m, q)
         /\ \A c \in Cells : /\ m.node[c].priority = IF c = n THEN 0 ELSE l.node[c].priority
                             /\ m.node[c].data = IF c = n THEN NULL ELSE l.node[c].data
<1>1. n \in Cells /\ n # HEAD /\ n # TAIL /\ HEAD \in Cells /\ TAIL \in Cells
      /\ \A k \in 1 .. Len(q) : q[k] \in Cells
  BY Addresses, Places
<1>2. CASE b = "list"
  <2>1. DoublyLinked(l, q) /\ l \in Lists
    BY <1>2 DEF IsLinked, DoublyLinked, Lists
  <2>2. m = [l EXCEPT !.node[n] = Blank]
    BY <1>2 DEF Cleared
  <2>3. m \in Lists /\ m.size = l.size /\ \A c \in Cells : m.node[c] = IF c = n THEN Blank ELSE l.node[c]
    <3>1. Blank \in ListNode
      BY ClearedNodes
    <3> QED
      BY <1>1, <2>1, <2>2, <3>1 DEF Lists
  <2>4. DoublyLinked(m, q)
    <3>1. \A c \in Cells : c = HEAD \/ c = TAIL \/ (\E i \in 1 .. Len(q) : c = q[i]) =>
            m.node[c].next = l.node[c].next /\ m.node[c].prev = l.node[c].prev
      BY <1>1, <2>3
    <3> QED
      BY <2>1, <2>3, <3>1, SameLinks
  <2> QED
    BY <1>2, <2>3, <2>4, ClearedNodes DEF IsLinked
<1>3. CASE b # "list"
  <2>1. SkipLinked(l, q) /\ l \in Skips
    BY <1>3 DEF IsLinked, SkipLinked, Skips
  <2>2. m = [l EXCEPT !.node[n] = Unused]
    BY <1>3 DEF Cleared
  <2>3. /\ m \in Skips /\ m.level = l.level /\ m.length = l.length
        /\ \A c \in Cells : m.node[c] = IF c = n THEN Unused ELSE l.node[c]
    <3>1. Unused \in SkipNode
      BY ClearedNodes
    <3> QED
      BY <1>1, <2>1, <2>2, <3>1 DEF Skips
  <2>4. SkipLinked(m, q)
    <3>1. \A c \in Cells : c = HEAD \/ c = TAIL \/ (\E i \in 1 .. Len(q) : c = q[i]) =>
            m.node[c].level = l.node[c].level /\ m.node[c].forward = l.node[c].forward
      BY <1>1, <2>3
    <3>2. m.node[TAIL].priority = INVALID
      BY <1>1, <2>1, <2>3 DEF SkipLinked
    <3> QED
      BY <2>1, <2>3, <3>1, <3>2, SameSkips
  <2> QED
    BY <1>3, <2>3, <2>4, ClearedNodes DEF IsLinked
<1> QED
  BY <1>2, <1>3

(* The priorities of nodes are other than they were.                       *)
LEMMA ListPrioritySet ==
  ASSUME NEW d \in ListNode, NEW v \in Int
  PROVE  /\ [d EXCEPT !.priority = v] \in ListNode
         /\ [d EXCEPT !.priority = v].priority = v /\ [d EXCEPT !.priority = v].data = d.data
         /\ [d EXCEPT !.priority = v].next = d.next /\ [d EXCEPT !.priority = v].prev = d.prev
BY DEF ListNode

(* The same for a node of a skip list.                                     *)
LEMMA SkipPrioritySet ==
  ASSUME NEW d \in SkipNode, NEW v \in Int
  PROVE  /\ [d EXCEPT !.priority = v] \in SkipNode
         /\ [d EXCEPT !.priority = v].priority = v /\ [d EXCEPT !.priority = v].data = d.data
         /\ [d EXCEPT !.priority = v].level = d.level /\ [d EXCEPT !.priority = v].forward = d.forward
BY DEF SkipNode

(* A time goes down by one while it is above the bound of counting.        *)
LEMMA LessIs ==
  ASSUME NEW time \in Int
  PROVE  Less(time) \in Int /\ Less(time) <= time /\ (time > - MaxNodes => Less(time) = time - 1)
BY Addresses DEF Less, LongestDelay

(* The links do not change with the priorities.                            *)
LEMMA AgedShape ==
  ASSUME NEW b, NEW l, NEW q, IsOrder(q), IsLinked(b, l, q), NEW used \in SUBSET Nodes,
         NEW m, m = [l EXCEPT !.node = [c \in Cells |-> IF c \in used
                                          THEN [l.node[c] EXCEPT !.priority = Less(@)]
                                          ELSE l.node[c]]]
  PROVE  /\ IsLinked(b, m, q)
         /\ \A c \in Cells :
              /\ m.node[c].priority = IF c \in used THEN Less(l.node[c].priority) ELSE l.node[c].priority
              /\ m.node[c].data = l.node[c].data
<1> DEFINE node == [c \in Cells |-> IF c \in used THEN [l.node[c] EXCEPT !.priority = Less(@)]
                                    ELSE l.node[c]]
           aged(c) == [l.node[c] EXCEPT !.priority = Less(l.node[c].priority)]
<1>1. \A c \in Cells : node[c] = IF c \in used THEN aged(c) ELSE l.node[c]
  OBVIOUS
<1>2. \A c \in Cells : l.node[c].priority \in Int /\ Less(l.node[c].priority) \in Int
  BY NodeFields, LessIs
<1>3. TAIL \in Cells /\ TAIL \notin used
  BY Addresses
<1>4. m = [l EXCEPT !.node = node] /\ node = [c \in Cells |-> node[c]]
  OBVIOUS
<1> HIDE DEF node
<1>5. CASE b = "list"
  <2>1. DoublyLinked(l, q) /\ l \in Lists
    BY <1>5 DEF IsLinked, DoublyLinked, Lists
  <2>2. ASSUME NEW c \in Cells
        PROVE  /\ node[c] \in ListNode
               /\ node[c].priority = IF c \in used THEN Less(l.node[c].priority) ELSE l.node[c].priority
               /\ node[c].data = l.node[c].data /\ node[c].next = l.node[c].next
               /\ node[c].prev = l.node[c].prev
    <3>1. l.node[c] \in ListNode
      BY <2>1 DEF Lists
    <3>2. /\ aged(c) \in ListNode /\ aged(c).priority = Less(l.node[c].priority)
          /\ aged(c).data = l.node[c].data /\ aged(c).next = l.node[c].next
          /\ aged(c).prev = l.node[c].prev
      BY <1>2, <3>1, ListPrioritySet
    <3> HIDE DEF aged
    <3> QED
      BY <1>1, <3>1, <3>2
  <2>3. node \in [Cells -> ListNode]
    BY <1>4, <2>2
  <2>4. m \in Lists /\ m.size = l.size /\ m.node = node
    BY <1>4, <2>1, <2>3 DEF Lists
  <2>5. DoublyLinked(m, q)
    <3>1. \A c \in Cells : c = HEAD \/ c = TAIL \/ (\E i \in 1 .. Len(q) : c = q[i]) =>
            m.node[c].next = l.node[c].next /\ m.node[c].prev = l.node[c].prev
      BY <2>2, <2>4
    <3> QED
      BY <2>1, <2>4, <3>1, SameLinks
  <2> QED
    BY <1>5, <2>2, <2>4, <2>5 DEF IsLinked
<1>6. CASE b # "list"
  <2>1. SkipLinked(l, q) /\ l \in Skips
    BY <1>6 DEF IsLinked, SkipLinked, Skips
  <2>2. ASSUME NEW c \in Cells
        PROVE  /\ node[c] \in SkipNode
               /\ node[c].priority = IF c \in used THEN Less(l.node[c].priority) ELSE l.node[c].priority
               /\ node[c].data = l.node[c].data /\ node[c].level = l.node[c].level
               /\ node[c].forward = l.node[c].forward
    <3>1. l.node[c] \in SkipNode
      BY <2>1 DEF Skips
    <3>2. /\ aged(c) \in SkipNode /\ aged(c).priority = Less(l.node[c].priority)
          /\ aged(c).data = l.node[c].data /\ aged(c).level = l.node[c].level
          /\ aged(c).forward = l.node[c].forward
      BY <1>2, <3>1, SkipPrioritySet
    <3> HIDE DEF aged
    <3> QED
      BY <1>1, <3>1, <3>2
  <2>3. node \in [Cells -> SkipNode]
    BY <1>4, <2>2
  <2>4. m \in Skips /\ m.level = l.level /\ m.length = l.length /\ m.node = node
    BY <1>4, <2>1, <2>3 DEF Skips
  <2>5. m.node[TAIL].priority = INVALID
    BY <1>3, <2>1, <2>2, <2>4 DEF SkipLinked
  <2>6. SkipLinked(m, q)
    BY <2>1, <2>2, <2>4, <2>5, SameSkips
  <2> QED
    BY <1>6, <2>2, <2>4, <2>6 DEF IsLinked
<1> QED
  BY <1>5, <1>6

-----------------------------------------------------------------------------
(* The steps of the timers, and the invariant.                             *)

(* What the invariant says of the order it is about.                       *)
Holds(q) ==
  /\ q = Order /\ First = Place(q, 1) /\ build \in Builds
  /\ IsOrder(q) /\ Len(q) \in Nat /\ Len(q) <= MaxNodes /\ IsLinked(build, list, q)
  /\ list.node[HEAD].data = NULL
  /\ Files(q, list.node, nodes, left, firing)
  /\ \A c \in Nodes : list.node[c].priority \in Int /\ list.node[c].priority < INVALID
  /\ phase \in {"idle", "handler", "fault"}
  /\ phase = "idle" => firing = NotFiring
  /\ phase = "handler" => firing # NotFiring

(* The invariant, said of one order instead of the one the list reads as.  *)
LEMMA InvHolds ==
  ASSUME Inv
  PROVE  Holds(Order)
<1> DEFINE q == Order
<1>1. /\ build \in Builds /\ LinkedAs(list, q) /\ list.node[HEAD].data = NULL
      /\ Files(q, list.node, nodes, left, firing)
      /\ phase \in {"idle", "handler", "fault"}
      /\ phase = "idle" => firing = NotFiring
      /\ phase = "handler" => firing # NotFiring
  BY DEF Inv
<1> HIDE DEF q
<1>2. FiledFacts(q, list.node, nodes, left, firing)
  BY <1>1, Filed
<1>3. IsOrder(q) /\ Len(q) \in Nat /\ Len(q) <= MaxNodes
  BY <1>2 DEF FiledFacts
<1>4. IsLinked(build, list, q)
  BY <1>1 DEF LinkedAs, IsLinked
<1>5. \A c \in Nodes : list.node[c].priority \in Int /\ list.node[c].priority < INVALID
  BY <1>1 DEF Files
<1>6. First = Place(q, 1)
  BY <1>3, <1>4, OrderFor DEF First
<1> QED
  BY <1>1, <1>3, <1>4, <1>5, <1>6 DEF Holds, q

(* A step keeps the invariant if its list has the nodes of some order r,   *)
(* which is then the new order.                                            *)
LEMMA InvNext ==
  ASSUME NEW r, IsLinked(build', list', r), Files(r, list'.node, nodes', left', firing'),
         list'.node[HEAD].data = NULL, build' \in Builds, phase' \in {"idle", "handler", "fault"},
         phase' = "idle" => firing' = NotFiring, phase' = "handler" => firing' # NotFiring
  PROVE  Inv' /\ Order' = r
<1>1. FiledFacts(r, list'.node, nodes', left', firing')
  BY Filed
<1>2. IsOrder(r) /\ Len(r) <= MaxNodes
  BY <1>1 DEF FiledFacts
<1>3. Order' = r
  BY <1>2, OrderFor DEF Order
<1>4. LinkedAs(list, Order)'
  BY <1>3 DEF LinkedAs, IsLinked
<1> QED
  BY <1>3, <1>4 DEF Inv

(* list_sort_insert of a new node.                                         *)
Filled(l, n, priority, data) ==
  [l EXCEPT !.node[n] = [@ EXCEPT !.priority = priority, !.data = data]]

(* The new node of list_timer_create before it is linked.                  *)
LEMMA ListFilled ==
  ASSUME NEW l \in Lists, NEW n \in Cells, NEW priority \in Int, NEW data \in Timers \cup {NULL},
         NEW l2, l2 = Filled(l, n, priority, data)
  PROVE  /\ l2 \in Lists /\ l2.size = l.size
         /\ \A c \in Cells :
              /\ l2.node[c].priority = IF c = n THEN priority ELSE l.node[c].priority
              /\ l2.node[c].data = IF c = n THEN data ELSE l.node[c].data
              /\ l2.node[c].next = l.node[c].next /\ l2.node[c].prev = l.node[c].prev
<1> DEFINE old == l.node[n]
           d == [old EXCEPT !.priority = priority, !.data = data]
<1>1. old \in ListNode
  BY DEF Lists
<1>2. l2 = [l EXCEPT !.node[n] = d]
  BY DEF Filled
<1> HIDE DEF old
<1>3. /\ d \in ListNode /\ d.priority = priority /\ d.data = data
      /\ d.next = old.next /\ d.prev = old.prev
  BY <1>1 DEF ListNode
<1> HIDE DEF d
<1>4. l2 \in Lists /\ l2.size = l.size /\ \A c \in Cells : l2.node[c] = IF c = n THEN d ELSE l.node[c]
  BY ONLY l \in Lists, n \in Cells, <1>2, <1>3 DEF Lists
<1> QED
  BY ONLY <1>3, <1>4 DEF old

(* list_sort_insert puts a new node before the first with a higher         *)
(* priority.                                                               *)
LEMMA ListInsertShape ==
  ASSUME NEW l, NEW q, IsOrder(q), Len(q) <= MaxNodes, DoublyLinked(l, q),
         NEW priority \in Int, NEW data \in Timers \cup {NULL},
         NEW n \in Nodes, \A k \in 1 .. Len(q) : q[k] # n,
         NEW l2 \in Lists, l2.size = l.size,
         \A c \in Cells :
           /\ l2.node[c].priority = IF c = n THEN priority ELSE l.node[c].priority
           /\ l2.node[c].data = IF c = n THEN data ELSE l.node[c].data
           /\ l2.node[c].next = l.node[c].next /\ l2.node[c].prev = l.node[c].prev
  PROVE  \E J \in 1 .. Len(q) + 1 :
           /\ DoublyLinked(list_sort_insert(l2, n), InsertAt(q, J, n))
           /\ \A c \in Cells :
                /\ list_sort_insert(l2, n).node[c].priority =
                     IF c = n THEN priority ELSE l.node[c].priority
                /\ list_sort_insert(l2, n).node[c].data =
                     IF c = n THEN data ELSE l.node[c].data
           /\ \A i \in 1 .. J - 1 : l.node[q[i]].priority <= priority
           /\ J <= Len(q) => l.node[q[J]].priority > priority
<1>1. n \in Cells /\ \A k \in 1 .. Len(q) : q[k] \in Cells
  BY Addresses, Places
<1>5. DoublyLinked(l2, q)
  <2>1. \A c \in Cells : c = HEAD \/ c = TAIL \/ (\E i \in 1 .. Len(q) : c = q[i]) =>
          l2.node[c].next = l.node[c].next /\ l2.node[c].prev = l.node[c].prev
    OBVIOUS
  <2> QED
    BY <2>1, SameLinks
<1>6. PICK J \in 1 .. Len(q) + 1 :
        /\ FirstAbove(l2, priority) = Place(q, J)
        /\ \A i \in 1 .. J - 1 : l2.node[q[i]].priority <= priority
        /\ J <= Len(q) => l2.node[q[J]].priority > priority
  BY <1>5, FirstAboveIs
<1>7. list_sort_insert(l2, n) = Linked(l2, n, Place(q, J))
  BY <1>1, <1>6 DEF list_sort_insert
<1>8. /\ DoublyLinked(Linked(l2, n, Place(q, J)), InsertAt(q, J, n))
      /\ \A c \in Cells :
           /\ Linked(l2, n, Place(q, J)).node[c].priority = l2.node[c].priority
           /\ Linked(l2, n, Place(q, J)).node[c].data = l2.node[c].data
  BY <1>5, LinkedShape
<1>9. Len(q) \in Nat
  BY Places
<1>10. \A i \in 1 .. J - 1 : l.node[q[i]].priority <= priority
  <2>1. \A i \in 1 .. J - 1 : i \in 1 .. Len(q)
    BY <1>9
  <2> QED
    BY <1>1, <1>6, <2>1
<1>11. J <= Len(q) => l.node[q[J]].priority > priority
  <2>1. J <= Len(q) => J \in 1 .. Len(q)
    BY <1>9
  <2> QED
    BY <1>1, <1>6, <2>1
<1>12. \A c \in Cells :
         /\ list_sort_insert(l2, n).node[c].priority = IF c = n THEN priority ELSE l.node[c].priority
         /\ list_sort_insert(l2, n).node[c].data = IF c = n THEN data ELSE l.node[c].data
  BY <1>7, <1>8
<1> QED
  BY <1>7, <1>8, <1>10, <1>11, <1>12

(* A step that links the new node n, for the timer t, in at place J.       *)
Created(q, J, n, t, timeout) ==
  /\ J \in 1 .. Len(q) + 1 /\ n \in Nodes \ nodes /\ t \in Timers \ Allocated
  /\ timeout \in Nat /\ timeout > 0 /\ timeout < INVALID
  /\ IsLinked(build, list', InsertAt(q, J, n))
  /\ \A c \in Cells :
       /\ list'.node[c].priority = IF c = n THEN timeout ELSE list.node[c].priority
       /\ list'.node[c].data = IF c = n THEN t ELSE list.node[c].data
  /\ \A i \in 1 .. J - 1 : list.node[q[i]].priority <= timeout
  /\ \A i \in J .. Len(q) : list.node[q[i]].priority >= timeout
  /\ nodes' = nodes \cup {n}
  /\ DOMAIN left' = Allocated \cup {t} /\ left'[t] = timeout
  /\ \A u \in Allocated : left'[u] = left[u]
  /\ UNCHANGED <<build, phase, firing>>

(* list_timer_create links its node in at its place.                       *)
LEMMA ListCreates ==
  ASSUME NEW q, Holds(q), build = "list", NEW timeout \in Timeouts,
         NEW n \in Nodes \ nodes, NEW t \in Timers, list_timer_create(n, t, timeout)
  PROVE  \E J \in 1 .. Len(q) + 1 :
           /\ IsLinked(build, list', InsertAt(q, J, n))
           /\ \A c \in Cells :
                /\ list'.node[c].priority = IF c = n THEN timeout ELSE list.node[c].priority
                /\ list'.node[c].data = IF c = n THEN t ELSE list.node[c].data
           /\ \A i \in 1 .. J - 1 : list.node[q[i]].priority <= timeout
           /\ \A i \in J .. Len(q) : list.node[q[i]].priority >= timeout
<1> DEFINE l2 == Filled(list, n, timeout, t)
<1>1. /\ IsOrder(q) /\ Len(q) \in Nat /\ Len(q) <= MaxNodes /\ DoublyLinked(list, q)
      /\ FiledFacts(q, list.node, nodes, left, firing)
  BY Filed DEF Holds, IsLinked
<1>2. timeout \in Int /\ t \in Timers \cup {NULL} /\ n \in Nodes /\ n \in Cells
  BY TimerAssumption, Addresses
<1>3. \A k \in 1 .. Len(q) : q[k] # n
  BY <1>1 DEF FiledFacts
<1>4. list \in Lists
  BY <1>1 DEF DoublyLinked, Lists
<1>5. /\ l2 \in Lists /\ l2.size = list.size
      /\ \A c \in Cells :
           /\ l2.node[c].priority = IF c = n THEN timeout ELSE list.node[c].priority
           /\ l2.node[c].data = IF c = n THEN t ELSE list.node[c].data
           /\ l2.node[c].next = list.node[c].next /\ l2.node[c].prev = list.node[c].prev
  BY <1>2, <1>4, ListFilled
<1>6. list' = list_sort_insert(l2, n)
  BY DEF list_timer_create, Filled
<1> HIDE DEF l2
<1>7. PICK J \in 1 .. Len(q) + 1 :
        /\ DoublyLinked(list_sort_insert(l2, n), InsertAt(q, J, n))
        /\ \A c \in Cells :
             /\ list_sort_insert(l2, n).node[c].priority =
                  IF c = n THEN timeout ELSE list.node[c].priority
             /\ list_sort_insert(l2, n).node[c].data =
                  IF c = n THEN t ELSE list.node[c].data
        /\ \A i \in 1 .. J - 1 : list.node[q[i]].priority <= timeout
        /\ J <= Len(q) => list.node[q[J]].priority > timeout
  BY <1>1, <1>2, <1>3, <1>5, ListInsertShape
<1>8. ASSUME NEW i \in J .. Len(q) PROVE list.node[q[i]].priority >= timeout
  <2>1. J \in 1 .. Len(q) /\ i \in 1 .. Len(q) /\ J <= i /\ J <= Len(q)
    BY <1>1
  <2>2. list.node[q[J]].priority <= list.node[q[i]].priority
        /\ list.node[q[J]].priority \in Int /\ list.node[q[i]].priority \in Int
    BY <1>1, <2>1 DEF FiledFacts
  <2> QED
    BY <1>2, <1>7, <2>1, <2>2
<1>9. IsLinked(build, list', InsertAt(q, J, n))
  BY <1>6, <1>7 DEF IsLinked
<1> QED
  BY <1>6, <1>7, <1>8, <1>9

(* skip_list_timer_create links its node in at its place, whatever its     *)
(* level.                                                                  *)
LEMMA SkipCreates ==
  ASSUME NEW q, Holds(q), build # "list", NEW timeout \in Timeouts,
         NEW n \in Nodes \ nodes, NEW t \in Timers, skip_list_timer_create(n, t, timeout)
  PROVE  \E J \in 1 .. Len(q) + 1 :
           /\ IsLinked(build, list', InsertAt(q, J, n))
           /\ \A c \in Cells :
                /\ list'.node[c].priority = IF c = n THEN timeout ELSE list.node[c].priority
                /\ list'.node[c].data = IF c = n THEN t ELSE list.node[c].data
           /\ \A i \in 1 .. J - 1 : list.node[q[i]].priority <= timeout
           /\ \A i \in J .. Len(q) : list.node[q[i]].priority >= timeout
<1>1. /\ IsOrder(q) /\ Len(q) \in Nat /\ Len(q) <= MaxNodes /\ SkipLinked(list, q)
      /\ FiledFacts(q, list.node, nodes, left, firing)
  BY Filed DEF Holds, IsLinked
<1>2. timeout \in Int /\ timeout <= INVALID /\ t \in Timers \cup {NULL} /\ n \in Nodes /\ n \in Cells
  BY TimerAssumption, LevelAssumption, Addresses
<1>3. \A k \in 1 .. Len(q) : q[k] # n
  BY <1>1 DEF FiledFacts
<1>4. \A i, j \in 1 .. Len(q) : i <= j => list.node[q[i]].priority <= list.node[q[j]].priority
  BY <1>1 DEF FiledFacts
<1>5. PICK J \in 1 .. Len(q) + 1 : IsFirstAt(list, q, timeout, J)
  BY <1>1, <1>2, <1>4, FirstAtExists
<1>6. PICK level \in Levels : list' = skip_list_insert(list, n, timeout, t, level)
  BY DEF skip_list_timer_create
<1> DEFINE m == skip_list_insert(list, n, timeout, t, level)
<1>7. /\ SkipLinked(m, InsertAt(q, J, n))
      /\ \A c \in Cells :
           /\ m.node[c].priority = IF c = n THEN timeout ELSE list.node[c].priority
           /\ m.node[c].data = IF c = n THEN t ELSE list.node[c].data
  BY <1>1, <1>2, <1>3, <1>5, SkipInsertShape
<1> HIDE DEF m
<1>8. list' = m
  BY <1>6 DEF m
<1>9. IsLinked(build, list', InsertAt(q, J, n))
  BY <1>7, <1>8 DEF IsLinked
<1>10. ASSUME NEW i \in 1 .. J - 1 PROVE list.node[q[i]].priority <= timeout
  <2>1. i \in 1 .. Len(q)
    BY <1>1
  <2>2. list.node[q[i]].priority < timeout /\ list.node[q[i]].priority \in Int
    BY <1>1, <1>5, <2>1, Places DEF IsFirstAt, FiledFacts
  <2> QED
    BY <1>2, <2>2
<1>11. ASSUME NEW i \in J .. Len(q) PROVE list.node[q[i]].priority >= timeout
  <2>1. i \in 1 .. Len(q) /\ i \in J .. Len(q) + 1
    BY <1>1
  <2> QED
    BY <1>1, <1>5, <2>1, Places DEF IsFirstAt
<1> QED
  BY <1>7, <1>8, <1>9, <1>10, <1>11

(* timer_create is such a step in either build.                            *)
LEMMA CreateStep ==
  ASSUME NEW q, Holds(q), NEW timeout \in Timeouts, timer_create(timeout)
  PROVE  \E J, n, t : Created(q, J, n, t, timeout)
<1> DEFINE n == mm_malloc(nodes)
           t == mm_malloc(Allocated)
<1>1. FiledFacts(q, list.node, nodes, left, firing) /\ IsOrder(q)
  BY Filed DEF Holds
<1>2. nodes \subseteq Nodes /\ Allocated \subseteq Timers /\ Timers = Nodes
  BY <1>1 DEF FiledFacts, Allocated, Timers
<1>3. /\ nodes # Nodes /\ Allocated # Timers
      /\ IF build = "list" THEN list_timer_create(n, t, timeout)
         ELSE skip_list_timer_create(n, t, timeout)
      /\ nodes' = nodes \cup {n}
      /\ left' = [u \in Allocated \cup {t} |-> IF u = t THEN timeout ELSE left[u]]
      /\ UNCHANGED <<build, phase, firing>>
  BY DEF timer_create
<1>4. n \in Nodes \ nodes /\ t \in Timers \ Allocated
  BY <1>2, <1>3, LowestFree
<1> HIDE DEF n, t
<1>5. timeout \in Nat /\ timeout > 0 /\ timeout < INVALID
  BY TimerAssumption
<1>6. PICK J \in 1 .. Len(q) + 1 :
           /\ IsLinked(build, list', InsertAt(q, J, n))
           /\ \A c \in Cells :
                /\ list'.node[c].priority = IF c = n THEN timeout ELSE list.node[c].priority
                /\ list'.node[c].data = IF c = n THEN t ELSE list.node[c].data
           /\ \A i \in 1 .. J - 1 : list.node[q[i]].priority <= timeout
           /\ \A i \in J .. Len(q) : list.node[q[i]].priority >= timeout
  <2>1. CASE build = "list"
    <3>1. list_timer_create(n, t, timeout)
      BY <1>3, <2>1
    <3> QED
      BY <1>4, <2>1, <3>1, ListCreates
  <2>2. CASE build # "list"
    <3>1. skip_list_timer_create(n, t, timeout)
      BY <1>3, <2>2
    <3> QED
      BY <1>4, <2>2, <3>1, SkipCreates
  <2> QED
    BY <2>1, <2>2
<1>7. /\ DOMAIN left' = Allocated \cup {t} /\ left'[t] = timeout
      /\ \A u \in Allocated : left'[u] = left[u]
  BY <1>3, <1>4
<1>8. Created(q, J, n, t, timeout)
  BY <1>3, <1>4, <1>5, <1>6, <1>7 DEF Created
<1> QED
  BY <1>8

(* Creations keep the invariant.                                           *)
LEMMA CreateKeeps ==
  ASSUME NEW q, Holds(q), NEW timeout, NEW J, NEW n, NEW t, Created(q, J, n, t, timeout)
  PROVE  Inv' /\ Order' = InsertAt(q, J, n)
<1> DEFINE r == InsertAt(q, J, n)
<1>1. Files(q, list.node, nodes, left, firing) /\ \A c \in Nodes : c \in Cells
  BY Addresses DEF Holds
<1>2. Files(r, list'.node, nodes', left', firing')
  <2>1. Inserts(q, list.node, nodes, left, n, t, timeout, J, list'.node, left')
    BY <1>1 DEF Created, Allocated, Inserts
  <2>2. Files(r, list'.node, nodes \cup {n}, left', firing)
    BY ONLY <1>1, <2>1, FilesInsert
  <2> QED
    BY <2>2 DEF Created
<1>3. list'.node[HEAD].data = NULL
  BY Addresses DEF Created, Holds
<1>4. IsLinked(build', list', r)
  BY DEF Created
<1>5. /\ build' \in Builds /\ phase' \in {"idle", "handler", "fault"}
      /\ phase' = "idle" => firing' = NotFiring
      /\ phase' = "handler" => firing' # NotFiring
  BY DEF Created, Holds
<1> QED
  BY <1>2, <1>3, <1>4, <1>5, InvNext

(* timer_delete finds the node of the timer, if it has one in the list.    *)
LEMMA FoundIs ==
  ASSUME NEW q, Holds(q), NEW t \in Timers
  PROVE  Found(t) = TAIL \/ \E J \in 1 .. Len(q) : Found(t) = q[J] /\ list.node[q[J]].data = t
<1> DEFINE on == {c \in Cells \ {TAIL} : list.node[c].data # t}
           next == IF build = "list" THEN Nexts(list) ELSE Forwards(list, 0)
<1>1. /\ IsOrder(q) /\ Len(q) \in Nat /\ Len(q) <= MaxNodes /\ IsLinked(build, list, q)
      /\ list.node[HEAD].data = NULL
  BY DEF Holds
<1>2. next \in [Cells -> Pointers] /\ \A k \in 0 .. Len(q) : next[Place(q, k)] = Place(q, k + 1)
  BY <1>1, BottomIs
<1>3. Found(t) = Walked(Place(q, 0), on, next)
  BY <1>1, Places DEF Found
<1> HIDE DEF next
<1>4. on \in SUBSET Cells /\ TAIL \notin on /\ HEAD \in on
  BY <1>1, Addresses DEF Timers
<1>5. \A c \in Cells \ {TAIL} : c \notin on => list.node[c].data = t
  OBVIOUS
<1> HIDE DEF on
<1>6. \E k \in 0 .. Len(q) + 1 : Walked(Place(q, 0), on, next) = Place(q, k) /\ Place(q, k) \notin on
  <2>1. \A j \in 0 .. Len(q) + 1 : Place(q, j) \in on =>
          \E k \in 0 .. Len(q) + 1 : k > j /\ next[Place(q, j)] = Place(q, k)
    <3> SUFFICES ASSUME NEW j \in 0 .. Len(q) + 1, Place(q, j) \in on
                 PROVE  \E k \in 0 .. Len(q) + 1 : k > j /\ next[Place(q, j)] = Place(q, k)
      OBVIOUS
    <3>1. j # Len(q) + 1
      BY <1>1, <1>4, Places
    <3>2. j \in 0 .. Len(q) /\ j + 1 \in 0 .. Len(q) + 1 /\ j + 1 > j
      BY <1>1, <3>1
    <3> QED
      BY <1>2, <3>2
  <2> DEFINE P == 0 .. Len(q) + 1
  <2>2. P \in SUBSET (0 .. Len(q) + 2) /\ 0 \in P
    BY <1>1
  <2>3. \A j \in P : Place(q, j) \in on => \E k \in P : k > j /\ next[Place(q, j)] = Place(q, k)
    BY <2>1
  <2> HIDE DEF P
  <2>4. \E k \in P : Walked(Place(q, 0), on, next) = Place(q, k) /\ Place(q, k) \notin on
    BY ONLY <1>1, <1>2, <1>4, <2>2, <2>3, WalkAlong
  <2> QED
    BY <2>4 DEF P
<1>7. PICK k \in 0 .. Len(q) + 1 : Found(t) = Place(q, k) /\ Place(q, k) \notin on
  BY <1>3, <1>6
<1>8. k # 0
  BY <1>1, <1>4, <1>7, Places
<1>9. CASE k = Len(q) + 1
  BY <1>1, <1>7, <1>9, Places
<1>10. CASE k # Len(q) + 1
  <2>1. k \in 1 .. Len(q)
    BY <1>1, <1>8, <1>10
  <2>2. Place(q, k) = q[k] /\ q[k] \in Cells \ {TAIL}
    BY <1>1, <2>1, Places, Addresses
  <2> QED
    BY <1>5, <1>7, <2>1, <2>2
<1> QED
  BY <1>9, <1>10

(* A step that takes out the node at place J, of the timer t.              *)
Deleted(q, J, t) ==
  /\ J \in 1 .. Len(q) /\ list.node[q[J]].data = t
  /\ IsLinked(build, list', RemoveAt(q, J))
  /\ \A c \in Cells :
       /\ list'.node[c].priority = IF c = q[J] THEN 0 ELSE list.node[c].priority
       /\ list'.node[c].data = IF c = q[J] THEN NULL ELSE list.node[c].data
  /\ nodes' = nodes \ {q[J]} /\ left' = Freed(t)
  /\ UNCHANGED <<build, phase, firing>>

(* timer_delete, where it does not fail, is such a step in either build.   *)
LEMMA DeleteStep ==
  ASSUME NEW q, Holds(q), NEW t \in Timers, timer_delete(t)
  PROVE  \E J : Deleted(q, J, t)
<1> DEFINE n == Found(t)
           l2 == IF build = "list" THEN list_delete(list, n) ELSE skip_list_delete2(list, n)
<1>1. /\ n # TAIL /\ ~ Fails(n) /\ list' = Without(l2, n)
      /\ nodes' = nodes \ {n} /\ left' = Freed(t) /\ UNCHANGED <<build, phase, firing>>
  BY DEF timer_delete
<1>2. PICK J \in 1 .. Len(q) : n = q[J] /\ list.node[q[J]].data = t
  BY <1>1, FoundIs
<1>3. IsOrder(q) /\ Len(q) \in Nat /\ Len(q) <= MaxNodes /\ IsLinked(build, list, q)
  BY DEF Holds
<1>4. /\ IsLinked(build, l2, RemoveAt(q, J))
      /\ \A c \in Cells : /\ l2.node[c].priority = list.node[c].priority
                          /\ l2.node[c].data = list.node[c].data
  <2>1. CASE build = "list"
    <3>1. DoublyLinked(list, q) /\ l2 = list_delete(list, q[J])
      BY <1>2, <1>3, <2>1 DEF IsLinked
    <3> HIDE DEF l2
    <3> QED
      BY <1>3, <2>1, <3>1, DeletedShape DEF IsLinked
  <2>2. CASE build # "list"
    <3>1. SkipLinked(list, q) /\ l2 = Unlinked(list, BeforeNode(list, q[J]), q[J])
      BY <1>2, <1>3, <2>2 DEF IsLinked, skip_list_delete2
    <3>2. ~ DeleteFails(list, q[J])
      BY <1>1, <1>2, <2>2 DEF Fails
    <3>3. IsUpdate(list, q, BeforeNode(list, q[J]), J)
      BY <1>3, <3>1, <3>2, BeforeNodeIs
    <3> HIDE DEF l2
    <3> QED
      BY <1>3, <2>2, <3>1, <3>3, UnlinkedShape DEF IsLinked
  <2> QED
    BY <2>1, <2>2
<1> HIDE DEF l2, n
<1>5. /\ q[J] \in Nodes /\ IsOrder(RemoveAt(q, J))
      /\ \A k \in 1 .. Len(RemoveAt(q, J)) : RemoveAt(q, J)[k] # q[J]
  BY <1>3, RemovedPlaces, Places
<1>6. list' = [l2 EXCEPT !.node[q[J]] = IF build = "list" THEN Blank ELSE Unused]
  BY <1>1, <1>2 DEF Without
<1>7. /\ IsLinked(build, list', RemoveAt(q, J))
      /\ \A c \in Cells : /\ list'.node[c].priority = IF c = q[J] THEN 0 ELSE l2.node[c].priority
                          /\ list'.node[c].data = IF c = q[J] THEN NULL ELSE l2.node[c].data
  <2> DEFINE r == RemoveAt(q, J)
             c == q[J]
  <2>1. IsOrder(r) /\ IsLinked(build, l2, r) /\ c \in Nodes /\ \A k \in 1 .. Len(r) : r[k] # c
    BY <1>4, <1>5
  <2>2. list' = Cleared(build, l2, c)
    BY <1>6 DEF Cleared
  <2> HIDE DEF r, c
  <2>3. /\ IsLinked(build, list', r)
        /\ \A e \in Cells : /\ list'.node[e].priority = IF e = c THEN 0 ELSE l2.node[e].priority
                            /\ list'.node[e].data = IF e = c THEN NULL ELSE l2.node[e].data
    BY ONLY <2>1, <2>2, WithoutShape
  <2> QED
    BY <2>3 DEF r, c
<1>8. Deleted(q, J, t)
  BY <1>1, <1>2, <1>4, <1>7 DEF Deleted
<1> QED
  BY <1>8

(* Deletions keep the invariant.                                           *)
LEMMA DeleteKeeps ==
  ASSUME NEW q, Holds(q), NEW t, NEW J, Deleted(q, J, t)
  PROVE  Inv' /\ Order' = RemoveAt(q, J)
<1>1. /\ Files(q, list.node, nodes, left, firing) /\ \A c \in Nodes : c \in Cells
      /\ FiledFacts(q, list.node, nodes, left, firing)
      /\ INVALID > 0 /\ INVALID \in Int
  BY Addresses, Filed, TimerAssumption, LevelAssumption DEF Holds
<1>2. /\ J \in 1 .. Len(q) /\ list.node[q[J]].data = t
      /\ nodes' = nodes \ {q[J]} /\ left' = Freed(t) /\ UNCHANGED <<build, phase, firing>>
  BY DEF Deleted
<1>3. /\ q[J] \in nodes /\ q[J] # firing.node /\ t \in Allocated /\ t # firing.timer
      /\ nodes \subseteq Nodes /\ Allocated \subseteq Timers
  BY <1>1, <1>2 DEF FiledFacts, Allocated
<1>4. DOMAIN left' = Allocated \ {t} /\ \A u \in DOMAIN left' : left'[u] = left[u]
  BY <1>2 DEF Freed
<1>5. HeldAsFiled(nodes', left', firing)
  <2>1. CASE firing = NotFiring
    BY <2>1 DEF HeldAsFiled
  <2>2. CASE firing # NotFiring
    <3>1. /\ firing \in [node : nodes, timer : DOMAIN left]
          /\ left[firing.timer] \in Int /\ left[firing.timer] > - MaxNodes
      BY <1>1, <2>2 DEF FiledFacts, HeldAsFiled
    <3>2. firing.node \in nodes' /\ firing.timer \in DOMAIN left'
      BY <1>2, <1>3, <1>4, <3>1 DEF Allocated
    <3>3. firing \in [node : nodes', timer : DOMAIN left']
      BY <3>1, <3>2
    <3>4. left'[firing.timer] = left[firing.timer]
      BY <1>4, <3>2
    <3> QED
      BY <3>1, <3>3, <3>4 DEF HeldAsFiled
  <2> QED
    BY <2>1, <2>2
<1>6. \A i \in 1 .. Len(q) : i # J => /\ list'.node[q[i]].priority = list.node[q[i]].priority - 0
                                      /\ list'.node[q[i]].data = list.node[q[i]].data
  <2> SUFFICES ASSUME NEW i \in 1 .. Len(q), i # J
               PROVE  /\ list'.node[q[i]].priority = list.node[q[i]].priority - 0
                      /\ list'.node[q[i]].data = list.node[q[i]].data
    OBVIOUS
  <2>1. q[i] \in Cells /\ q[i] # q[J] /\ list.node[q[i]].priority \in Int
    BY <1>1, <1>2 DEF FiledFacts, IsOrder
  <2>2. /\ list'.node[q[i]].priority = list.node[q[i]].priority
        /\ list'.node[q[i]].data = list.node[q[i]].data
    BY <2>1 DEF Deleted
  <2> QED
    BY <2>1, <2>2
<1>7. \A c \in Nodes : list'.node[c].priority \in Int /\ list'.node[c].priority < INVALID
  <2>1. \A c \in Nodes : list.node[c].priority \in Int /\ list.node[c].priority < INVALID
    BY DEF Holds
  <2>2. \A c \in Nodes : list'.node[c].priority = IF c = q[J] THEN 0 ELSE list.node[c].priority
    BY <1>1 DEF Deleted
  <2> QED
    BY <1>1, <2>1, <2>2
<1>8. \A u \in DOMAIN left' \ {firing.timer} : left'[u] = left[u] - 0
  <2> SUFFICES ASSUME NEW u \in DOMAIN left' \ {firing.timer} PROVE left'[u] = left[u] - 0
    OBVIOUS
  <2>1. u \in DOMAIN left \ {firing.timer}
    BY <1>4 DEF Allocated
  <2>2. PICK i \in 1 .. Len(q) : list.node[q[i]].data = u
    <3>1. {list.node[q[i]].data : i \in 1 .. Len(q)} = DOMAIN left \ {firing.timer}
      BY <1>1 DEF FiledFacts
    <3> QED
      BY ONLY <2>1, <3>1
  <2>3. left[u] \in Int
    BY <1>1, <2>2 DEF FiledFacts
  <2> QED
    BY <1>4, <2>3
<1>9. Removes(q, list.node, nodes, left, firing, J, 0, list'.node, left', nodes', firing)
  <2>1. nodes' \ {firing.node} = (nodes \ {firing.node}) \ {q[J]}
    BY <1>2
  <2>2. DOMAIN left' \ {firing.timer} = (DOMAIN left \ {firing.timer}) \ {list.node[q[J]].data}
    BY <1>2, <1>4 DEF Allocated
  <2>3. nodes' \subseteq Nodes /\ DOMAIN left' \subseteq Timers
    BY <1>2, <1>3, <1>4
  <2> QED
    BY <1>2, <1>5, <1>6, <1>7, <1>8, <2>1, <2>2, <2>3 DEF Removes
<1>10. Files(RemoveAt(q, J), list'.node, nodes', left', firing')
  <2>1. Files(RemoveAt(q, J), list'.node, nodes', left', firing)
    BY ONLY <1>1, <1>9, FilesRemove
  <2> QED
    BY <1>2, <2>1
<1>11. list'.node[HEAD].data = NULL
  BY Addresses DEF Deleted, Holds
<1>12. IsLinked(build', list', RemoveAt(q, J))
  BY DEF Deleted
<1>13. /\ build' \in Builds /\ phase' \in {"idle", "handler", "fault"}
       /\ phase' = "idle" => firing' = NotFiring
       /\ phase' = "handler" => firing' # NotFiring
  BY DEF Deleted, Holds
<1> QED
  BY <1>10, <1>11, <1>12, <1>13, InvNext

(* A tick makes every priority in the list one less.                       *)
AgedFacts(q, m) ==
  /\ IsLinked(build, m, q) /\ m.node[HEAD].data = NULL
  /\ \A i \in 1 .. Len(q) : /\ m.node[q[i]].priority = list.node[q[i]].priority - 1
                            /\ m.node[q[i]].data = list.node[q[i]].data
  /\ \A c \in Nodes : m.node[c].priority \in Int /\ m.node[c].priority < INVALID

(* No priority in the list is at the bound of counting.                    *)
LEMMA AgedIs ==
  ASSUME NEW q, Holds(q)
  PROVE  AgedFacts(q, Aged)
<1> DEFINE m == Aged
<1>1. /\ IsOrder(q) /\ IsLinked(build, list, q) /\ list.node[HEAD].data = NULL
      /\ FiledFacts(q, list.node, nodes, left, firing)
      /\ \A c \in Nodes : list.node[c].priority \in Int /\ list.node[c].priority < INVALID
  BY Filed DEF Holds
<1>2. nodes \in SUBSET Nodes
  BY <1>1 DEF FiledFacts
<1>3. m = [list EXCEPT !.node = [c \in Cells |-> IF c \in nodes
                                   THEN [list.node[c] EXCEPT !.priority = Less(@)]
                                   ELSE list.node[c]]]
  BY DEF Aged
<1> HIDE DEF m
<1>4. /\ IsLinked(build, m, q)
      /\ \A c \in Cells :
           /\ m.node[c].priority =
                IF c \in nodes THEN Less(list.node[c].priority) ELSE list.node[c].priority
           /\ m.node[c].data = list.node[c].data
  BY <1>1, <1>2, <1>3, AgedShape
<1>5. ASSUME NEW i \in 1 .. Len(q)
      PROVE  /\ m.node[q[i]].priority = list.node[q[i]].priority - 1
             /\ m.node[q[i]].data = list.node[q[i]].data
  <2>1. /\ q[i] \in nodes /\ q[i] \in Nodes /\ list.node[q[i]].priority \in Int
        /\ list.node[q[i]].priority >= i + 1 - MaxNodes
    BY <1>1 DEF FiledFacts
  <2>2. q[i] \in Cells /\ list.node[q[i]].priority > - MaxNodes
    BY <2>1, Addresses
  <2> QED
    BY <1>4, <2>1, <2>2, LessIs
<1>6. ASSUME NEW c \in Nodes PROVE m.node[c].priority \in Int /\ m.node[c].priority < INVALID
  <2>1. c \in Cells /\ list.node[c].priority \in Int /\ list.node[c].priority < INVALID
    BY <1>1, Addresses
  <2>2. m.node[c].priority = Less(list.node[c].priority) \/ m.node[c].priority = list.node[c].priority
    BY <1>4, <2>1
  <2>3. Less(list.node[c].priority) \in Int /\ Less(list.node[c].priority) <= list.node[c].priority
    BY <2>1, LessIs
  <2> QED
    BY <2>1, <2>2, <2>3, LevelAssumption
<1>7. m.node[HEAD].data = NULL
  BY <1>1, <1>4, Addresses
<1> QED
  BY <1>4, <1>5, <1>6, <1>7 DEF AgedFacts, m

(* Either pop takes out the first node.                                    *)
LEMMA PoppedShape ==
  ASSUME NEW q, IsOrder(q), Len(q) <= MaxNodes, NEW l, IsLinked(build, l, q), 1 \in 1 .. Len(q),
         l.node[q[1]].priority <= INVALID,
         \A i, j \in 1 .. Len(q) : i <= j => l.node[q[i]].priority <= l.node[q[j]].priority
  PROVE  /\ IsLinked(build, Popped(l), RemoveAt(q, 1))
         /\ \A c \in Cells : /\ Popped(l).node[c].priority = l.node[c].priority
                             /\ Popped(l).node[c].data = l.node[c].data
<1>1. CASE build = "list"
  <2>1. DoublyLinked(l, q) /\ Popped(l) = list_popped(l) /\ Len(q) # 0
    BY <1>1 DEF IsLinked, Popped
  <2>2. Popped(l) = list_delete(l, q[1])
    BY <2>1, PoppedIs
  <2>3. /\ DoublyLinked(list_delete(l, q[1]), RemoveAt(q, 1))
        /\ \A c \in Cells : /\ list_delete(l, q[1]).node[c].priority = l.node[c].priority
                            /\ list_delete(l, q[1]).node[c].data = l.node[c].data
    BY <2>1, DeletedShape
  <2> QED
    BY <1>1, <2>2, <2>3 DEF IsLinked
<1>2. CASE build # "list"
  <2>1. SkipLinked(l, q) /\ Popped(l) = skip_list_popped(l)
    BY <1>2 DEF IsLinked, Popped
  <2>2. /\ SkipLinked(skip_list_popped(l), RemoveAt(q, 1))
        /\ \A c \in Cells : /\ skip_list_popped(l).node[c].priority = l.node[c].priority
                            /\ skip_list_popped(l).node[c].data = l.node[c].data
    BY <2>1, SkipPoppedIs
  <2> QED
    BY <1>2, <2>1, <2>2 DEF IsLinked
<1> QED
  BY <1>1, <1>2

(* A tick: every time is one less, and the first timer may be taken off.   *)
LEMMA TickTimes ==
  ASSUME NEW q, Holds(q), phase = "idle", tick
  PROVE  /\ firing = NotFiring
         /\ DOMAIN left' = DOMAIN left
         /\ \A u \in DOMAIN left : /\ left[u] \in Int /\ left'[u] = left[u] - 1
                                   /\ \E i \in 1 .. Len(q) : list.node[q[i]].data = u
<1>1. FiledFacts(q, list.node, nodes, left, firing) /\ firing = NotFiring
  BY Filed DEF Holds
<1>2. left' = [t \in Allocated |-> Less(left[t])]
  BY DEF tick
<1>3. DOMAIN left' = DOMAIN left /\ \A u \in DOMAIN left : left'[u] = Less(left[u])
  BY <1>2 DEF Allocated
<1>4. {list.node[q[i]].data : i \in 1 .. Len(q)} = DOMAIN left
  <2>1. {list.node[q[i]].data : i \in 1 .. Len(q)} = DOMAIN left \ {firing.timer}
        /\ DOMAIN left \subseteq Timers
    BY <1>1 DEF FiledFacts
  <2>2. firing.timer = NULL /\ NULL \notin Timers
    BY <1>1, Addresses DEF NotFiring, Timers
  <2> QED
    BY ONLY <2>1, <2>2
<1>5. ASSUME NEW u \in DOMAIN left
      PROVE  /\ left[u] \in Int /\ left'[u] = left[u] - 1
             /\ \E i \in 1 .. Len(q) : list.node[q[i]].data = u
  <2>1. PICK i \in 1 .. Len(q) : list.node[q[i]].data = u
    BY ONLY <1>4, <1>5
  <2>2. /\ list.node[q[i]].priority \in Int /\ list.node[q[i]].priority = left[u]
        /\ list.node[q[i]].priority >= i + 1 - MaxNodes
    BY <1>1, <2>1 DEF FiledFacts
  <2>3. left[u] > - MaxNodes
    BY <2>2, Addresses
  <2> QED
    BY <1>3, <2>1, <2>2, <2>3, LessIs
<1> QED
  BY <1>1, <1>3, <1>5

(* The handler of the first timer is about to run.                         *)
Fired(q) ==
  /\ phase = "idle" /\ tick /\ 1 \in 1 .. Len(q) /\ left'[list.node[q[1]].data] <= 0
  /\ list' = Popped(Aged)
  /\ firing' = [node |-> q[1], timer |-> list.node[q[1]].data]
  /\ phase' = "handler" /\ UNCHANGED <<build, nodes>>

(* No timer is due.                                                        *)
Passed(q) ==
  /\ phase = "idle" /\ tick /\ (Len(q) = 0 \/ left'[list.node[q[1]].data] > 0)
  /\ list' = Aged /\ UNCHANGED <<build, nodes, firing, phase>>

(* A tick is one or the other in either build.                             *)
LEMMA HandlerStep ==
  ASSUME NEW q, Holds(q), timer_handler
  PROVE  Fired(q) \/ Passed(q)
<1>1. /\ First = Place(q, 1) /\ IsOrder(q) /\ Len(q) \in Nat
      /\ FiledFacts(q, list.node, nodes, left, firing)
  BY Filed DEF Holds
<1>2. phase = "idle" /\ tick /\ UNCHANGED <<build, nodes>>
  BY DEF timer_handler, tick
<1>3. /\ First = TAIL <=> Len(q) = 0
      /\ Len(q) # 0 => First = q[1] /\ 1 \in 1 .. Len(q)
  <2>1. CASE Len(q) = 0
    BY <1>1, <2>1, Places
  <2>2. CASE Len(q) # 0
    <3>1. 1 \in 1 .. Len(q)
      BY <1>1, <2>2
    <3>2. Place(q, 1) = q[1] /\ q[1] # TAIL
      BY <1>1, <3>1, Places, Addresses
    <3> QED
      BY <1>1, <2>2, <3>1, <3>2
  <2> QED
    BY <2>1, <2>2
<1>4. CASE First # TAIL /\ Due(left'[list.node[First].data])
  <2>1. /\ list' = Popped(Aged) /\ firing' = [node |-> First, timer |-> list.node[First].data]
        /\ phase' = "handler"
    BY <1>4 DEF timer_handler
  <2> QED
    BY <1>2, <1>3, <1>4, <2>1 DEF Fired, Due
<1>5. CASE ~ (First # TAIL /\ Due(left'[list.node[First].data]))
  <2>1. list' = Aged /\ UNCHANGED <<firing, phase>>
    BY <1>5 DEF timer_handler
  <2>2. Len(q) = 0 \/ left'[list.node[q[1]].data] > 0
    <3> SUFFICES ASSUME Len(q) # 0 PROVE left'[list.node[q[1]].data] > 0
      OBVIOUS
    <3>1. 1 \in 1 .. Len(q) /\ ~ Due(left'[list.node[q[1]].data])
      BY <1>3, <1>5
    <3>2. list.node[q[1]].data \in DOMAIN left
      BY <1>1, <3>1 DEF FiledFacts
    <3>3. left'[list.node[q[1]].data] \in Int
      <4>1. left[list.node[q[1]].data] \in Int
            /\ left'[list.node[q[1]].data] = left[list.node[q[1]].data] - 1
        BY ONLY Holds(q), <1>2, <3>2, TickTimes
      <4> QED
        BY ONLY <4>1
    <3> QED
      BY <3>1, <3>3 DEF Due
  <2> QED
    BY <1>2, <2>1, <2>2 DEF Passed
<1> QED
  BY <1>4, <1>5

(* A tick at which no timer is due keeps the invariant.                    *)
LEMMA PassedKeeps ==
  ASSUME NEW q, Holds(q), Passed(q)
  PROVE  /\ Inv' /\ Order' = q
         /\ \A i \in 1 .. Len(q) : /\ list'.node[q[i]].priority = list.node[q[i]].priority - 1
                                   /\ list'.node[q[i]].data = list.node[q[i]].data
<1>1. /\ Files(q, list.node, nodes, left, firing)
      /\ FiledFacts(q, list.node, nodes, left, firing)
      /\ IsOrder(q) /\ Len(q) \in Nat /\ Len(q) <= MaxNodes /\ MaxNodes \in Nat
  BY Filed, Addresses DEF Holds
<1>2. /\ phase = "idle" /\ tick /\ list' = Aged /\ UNCHANGED <<build, nodes, firing, phase>>
      /\ (Len(q) = 0 \/ left'[list.node[q[1]].data] > 0)
  BY DEF Passed
<1>3. /\ firing = NotFiring /\ DOMAIN left' = DOMAIN left
      /\ \A u \in DOMAIN left : left[u] \in Int /\ left'[u] = left[u] - 1
  BY ONLY Holds(q), <1>2, TickTimes
<1>4. AgedFacts(q, list')
  BY <1>2, AgedIs
<1>5. ASSUME NEW i \in 1 .. Len(q) PROVE list'.node[q[i]].priority >= i + 1 - MaxNodes
  <2>1. /\ 1 \in 1 .. Len(q) /\ 1 <= i /\ i \in Int /\ i <= MaxNodes
    BY <1>1
  <2>2. list.node[q[1]].data \in DOMAIN left /\ list.node[q[1]].priority = left[list.node[q[1]].data]
        /\ list.node[q[1]].priority <= list.node[q[i]].priority
        /\ list.node[q[1]].priority \in Int /\ list.node[q[i]].priority \in Int
    BY <1>1, <2>1 DEF FiledFacts
  <2>3. left'[list.node[q[1]].data] = list.node[q[1]].priority - 1
    BY ONLY <1>3, <2>2
  <2>4. list.node[q[1]].priority - 1 > 0
    BY ONLY <1>2, <2>1, <2>3
  <2>5. list'.node[q[i]].priority = list.node[q[i]].priority - 1
    BY <1>4 DEF AgedFacts
  <2> QED
    BY ONLY <1>1, <2>1, <2>2, <2>4, <2>5
<1>6. Keeps(q, list.node, nodes, left, firing, 1, list'.node, left', nodes', firing)
  <2>1. nodes' \subseteq Nodes /\ DOMAIN left' \subseteq Timers
    BY <1>1, <1>2, <1>3 DEF FiledFacts
  <2>2. HeldAsFiled(nodes', left', firing)
    BY <1>3 DEF HeldAsFiled
  <2>3. nodes' \ {firing.node} = nodes \ {firing.node}
    BY <1>2
  <2>4. /\ DOMAIN left' \ {firing.timer} = DOMAIN left \ {firing.timer}
        /\ \A u \in DOMAIN left' \ {firing.timer} : left'[u] = left[u] - 1
    BY <1>3
  <2>5. /\ \A i \in 1 .. Len(q) : /\ list'.node[q[i]].priority = list.node[q[i]].priority - 1
                                  /\ list'.node[q[i]].data = list.node[q[i]].data
        /\ \A c \in Nodes : list'.node[c].priority \in Int /\ list'.node[c].priority < INVALID
    BY <1>4 DEF AgedFacts
  <2> QED
    BY <1>5, <2>1, <2>2, <2>3, <2>4, <2>5 DEF Keeps
<1>7. Files(q, list'.node, nodes', left', firing')
  <2>1. Files(q, list'.node, nodes', left', firing)
    BY ONLY <1>1, <1>6, FilesKeep
  <2> QED
    BY <1>2, <2>1
<1>8. IsLinked(build', list', q) /\ list'.node[HEAD].data = NULL
  BY <1>2, <1>4 DEF AgedFacts
<1>9. /\ build' \in Builds /\ phase' \in {"idle", "handler", "fault"}
      /\ phase' = "idle" => firing' = NotFiring
      /\ phase' = "handler" => firing' # NotFiring
  BY <1>2 DEF Holds
<1>10. Inv' /\ Order' = q
  BY <1>7, <1>8, <1>9, InvNext
<1> QED
  BY <1>4, <1>10 DEF AgedFacts

(* A tick that takes the first timer off the list keeps the invariant.     *)
LEMMA FiredKeeps ==
  ASSUME NEW q, Holds(q), Fired(q)
  PROVE  /\ Inv' /\ Order' = RemoveAt(q, 1)
         /\ \A i \in 1 .. Len(q) : /\ list'.node[q[i]].priority = list.node[q[i]].priority - 1
                                   /\ list'.node[q[i]].data = list.node[q[i]].data
<1> DEFINE c == q[1]
           t == list.node[q[1]].data
           held == [node |-> c, timer |-> t]
           r == RemoveAt(q, 1)
<1>1. /\ Files(q, list.node, nodes, left, firing)
      /\ FiledFacts(q, list.node, nodes, left, firing)
      /\ IsOrder(q) /\ Len(q) \in Nat /\ Len(q) <= MaxNodes /\ MaxNodes \in Nat
      /\ INVALID \in Int
  BY Filed, Addresses, LevelAssumption DEF Holds
<1>2. /\ phase = "idle" /\ tick /\ list' = Popped(Aged) /\ UNCHANGED <<build, nodes>>
      /\ 1 \in 1 .. Len(q) /\ firing' = held /\ phase' = "handler"
  BY DEF Fired
<1>3. /\ firing = NotFiring /\ DOMAIN left' = DOMAIN left
      /\ \A u \in DOMAIN left : left[u] \in Int /\ left'[u] = left[u] - 1
  BY ONLY Holds(q), <1>2, TickTimes
<1>4. AgedFacts(q, Aged)
  BY AgedIs
<1>5. \A i \in 1 .. Len(q) :
        /\ q[i] \in Nodes /\ list.node[q[i]].priority \in Int /\ list.node[q[i]].priority < INVALID
        /\ Aged.node[q[i]].priority = list.node[q[i]].priority - 1
  BY <1>1, <1>4 DEF FiledFacts, AgedFacts
<1>6. \A i, j \in 1 .. Len(q) : i <= j => Aged.node[q[i]].priority <= Aged.node[q[j]].priority
  <2>1. \A i, j \in 1 .. Len(q) : i <= j => list.node[q[i]].priority <= list.node[q[j]].priority
    BY <1>1 DEF FiledFacts
  <2> QED
    BY ONLY <1>5, <2>1
<1>7. Aged.node[q[1]].priority <= INVALID
  <2>1. /\ list.node[q[1]].priority \in Int /\ list.node[q[1]].priority < INVALID
        /\ Aged.node[q[1]].priority = list.node[q[1]].priority - 1
    BY ONLY <1>2, <1>5
  <2> QED
    BY ONLY <1>1, <2>1
<1>8. /\ IsLinked(build, list', r)
      /\ \A e \in Cells : /\ list'.node[e].priority = Aged.node[e].priority
                          /\ list'.node[e].data = Aged.node[e].data
  <2> DEFINE l == Aged
  <2>1. IsLinked(build, l, q)
    BY <1>4 DEF AgedFacts
  <2>2. l.node[q[1]].priority <= INVALID
        /\ \A i, j \in 1 .. Len(q) : i <= j => l.node[q[i]].priority <= l.node[q[j]].priority
    BY <1>6, <1>7
  <2> HIDE DEF l
  <2>3. /\ IsLinked(build, Popped(l), RemoveAt(q, 1))
        /\ \A e \in Cells : /\ Popped(l).node[e].priority = l.node[e].priority
                            /\ Popped(l).node[e].data = l.node[e].data
    BY <1>1, <1>2, <2>1, <2>2, PoppedShape
  <2>4. list' = Popped(l)
    BY <1>2 DEF l
  <2> QED
    BY <2>3, <2>4 DEF l
<1>9. /\ c \in nodes /\ t \in DOMAIN left /\ t \in Timers /\ list.node[c].priority = left[t]
      /\ list.node[c].priority >= 2 - MaxNodes /\ list.node[c].priority \in Int
      /\ nodes \subseteq Nodes /\ DOMAIN left \subseteq Timers
  <2>1. 1 + 1 - MaxNodes = 2 - MaxNodes
    BY <1>1
  <2> QED
    BY <1>1, <1>2, <2>1 DEF FiledFacts
<1>10. firing.node = NULL /\ firing.timer = NULL /\ NULL \notin Nodes /\ NULL \notin Timers
  BY <1>3, Addresses DEF NotFiring, Timers
<1>11. ASSUME NEW i \in 1 .. Len(q)
       PROVE  /\ list'.node[q[i]].priority = list.node[q[i]].priority - 1
              /\ list'.node[q[i]].data = list.node[q[i]].data
  <2>1. q[i] \in Cells
    BY <1>5, Addresses
  <2> QED
    BY <1>4, <1>8, <2>1 DEF AgedFacts
<1>12. \A e \in Nodes : list'.node[e].priority \in Int /\ list'.node[e].priority < INVALID
  BY <1>4, <1>8, Addresses DEF AgedFacts
<1>13. list'.node[HEAD].data = NULL
  BY <1>4, <1>8, Addresses DEF AgedFacts
<1> HIDE DEF c, t
<1>14. held.node = c /\ held.timer = t /\ held # NotFiring
  <2>1. c # NULL
    BY <1>9, <1>10
  <2> QED
    BY <2>1 DEF NotFiring
<1>15. HeldAsFiled(nodes', left', held)
  <2>1. held \in [node : nodes', timer : DOMAIN left']
    BY <1>2, <1>3, <1>9
  <2>2. left'[t] = left[t] - 1
    BY <1>3, <1>9
  <2>3. left'[t] \in Int /\ left'[t] > - MaxNodes
    BY <1>1, <1>9, <2>2
  <2> QED
    BY <1>14, <2>1, <2>3 DEF HeldAsFiled
<1> HIDE DEF held
<1>16. Removes(q, list.node, nodes, left, firing, 1, 1, list'.node, left', nodes', held)
  <2>1. nodes' \ {held.node} = (nodes \ {firing.node}) \ {q[1]}
    BY <1>2, <1>9, <1>10, <1>14 DEF c
  <2>2. DOMAIN left' \ {held.timer} = (DOMAIN left \ {firing.timer}) \ {list.node[q[1]].data}
    BY <1>3, <1>9, <1>10, <1>14 DEF t
  <2>3. \A u \in DOMAIN left' \ {held.timer} : left'[u] = left[u] - 1
    BY <1>3
  <2>4. nodes' \subseteq Nodes /\ DOMAIN left' \subseteq Timers
    BY <1>2, <1>3, <1>9
  <2> QED
    BY <1>2, <1>11, <1>12, <1>15, <2>1, <2>2, <2>3, <2>4 DEF Removes
<1>17. Files(RemoveAt(q, 1), list'.node, nodes', left', firing')
  <2>1. Files(RemoveAt(q, 1), list'.node, nodes', left', held)
    BY ONLY <1>1, <1>16, FilesRemove
  <2> QED
    BY <1>2, <2>1
<1>18. IsLinked(build', list', r)
  BY <1>2, <1>8
<1>19. /\ build' \in Builds /\ phase' \in {"idle", "handler", "fault"}
       /\ phase' = "idle" => firing' = NotFiring
       /\ phase' = "handler" => firing' # NotFiring
  BY <1>2, <1>14 DEF Holds
<1>20. Inv' /\ Order' = RemoveAt(q, 1)
  BY <1>13, <1>17, <1>18, <1>19, InvNext
<1> QED
  BY <1>11, <1>20

(* The handler has returned, and the node and the timer are freed.         *)
LEMMA ReturnKeeps ==
  ASSUME NEW q, Holds(q), handler_returns
  PROVE  /\ Inv' /\ Order' = q
         /\ \A i \in 1 .. Len(q) : /\ list'.node[q[i]].priority = list.node[q[i]].priority
                                   /\ list'.node[q[i]].data = list.node[q[i]].data
<1> DEFINE c == firing.node
           t == firing.timer
<1>1. /\ Files(q, list.node, nodes, left, firing)
      /\ FiledFacts(q, list.node, nodes, left, firing)
      /\ IsOrder(q) /\ IsLinked(build, list, q) /\ list.node[HEAD].data = NULL
      /\ Len(q) \in Nat /\ Len(q) <= MaxNodes /\ INVALID > 0
      /\ \A e \in Nodes : list.node[e].priority \in Int /\ list.node[e].priority < INVALID
  BY Filed, TimerAssumption DEF Holds
<1>2. /\ phase = "handler" /\ nodes' = nodes \ {c} /\ list' = Cleared(build, list, c)
      /\ left' = [u \in DOMAIN left \ {t} |-> left[u]]
      /\ firing' = NotFiring /\ phase' = "idle" /\ build' = build
  BY DEF handler_returns, Without, Cleared, Freed, Allocated
<1>3. /\ firing # NotFiring /\ c \in nodes /\ nodes \subseteq Nodes /\ DOMAIN left \subseteq Timers
  BY <1>1, <1>2 DEF Holds, FiledFacts, HeldAsFiled
<1>4. \A k \in 1 .. Len(q) : q[k] # c /\ q[k] \in Cells /\ list.node[q[k]].priority \in Int
  BY <1>1, Addresses DEF FiledFacts
<1>5. c \in Nodes
  BY <1>3
<1> HIDE DEF c, t
<1>6. /\ IsLinked(build, list', q)
      /\ \A e \in Cells : /\ list'.node[e].priority = IF e = c THEN 0 ELSE list.node[e].priority
                          /\ list'.node[e].data = IF e = c THEN NULL ELSE list.node[e].data
  BY ONLY <1>1, <1>2, <1>4, <1>5, WithoutShape
<1>7. ASSUME NEW i \in 1 .. Len(q)
      PROVE  /\ list'.node[q[i]].priority = list.node[q[i]].priority
             /\ list'.node[q[i]].data = list.node[q[i]].data
  BY <1>4, <1>6
<1>8. \A e \in Nodes : list'.node[e].priority \in Int /\ list'.node[e].priority < INVALID
  BY <1>1, <1>6, Addresses
<1>9. list'.node[HEAD].data = NULL
  BY <1>1, <1>6, Addresses
<1>10. Keeps(q, list.node, nodes, left, firing, 0, list'.node, left', nodes', NotFiring)
  <2>1. NotFiring.node = NULL /\ NotFiring.timer = NULL /\ NULL \notin Nodes /\ NULL \notin Timers
    BY Addresses DEF NotFiring, Timers
  <2>2. nodes' \subseteq Nodes /\ DOMAIN left' \subseteq Timers
    BY <1>2, <1>3
  <2>3. nodes' \ {NotFiring.node} = nodes \ {firing.node}
    BY <1>2, <1>3, <2>1 DEF c
  <2>4. DOMAIN left' \ {NotFiring.timer} = DOMAIN left \ {firing.timer}
    BY <1>2, <1>3, <2>1 DEF t
  <2>5. \A u \in DOMAIN left' \ {NotFiring.timer} : left'[u] = left[u] - 0
    <3> SUFFICES ASSUME NEW u \in DOMAIN left \ {firing.timer} PROVE left'[u] = left[u] - 0
      BY <2>4
    <3>1. {list.node[q[i]].data : i \in 1 .. Len(q)} = DOMAIN left \ {firing.timer}
      BY <1>1 DEF FiledFacts
    <3>2. PICK i \in 1 .. Len(q) : list.node[q[i]].data = u
      BY ONLY <3>1, u \in DOMAIN left \ {firing.timer}
    <3>3. left[u] \in Int
      BY <1>1, <3>2 DEF FiledFacts
    <3> QED
      BY <1>2, <3>3 DEF t
  <2>6. \A i \in 1 .. Len(q) : /\ list'.node[q[i]].priority = list.node[q[i]].priority - 0
                               /\ list'.node[q[i]].data = list.node[q[i]].data
                               /\ list'.node[q[i]].priority >= i + 1 - MaxNodes
    <3> SUFFICES ASSUME NEW i \in 1 .. Len(q)
                 PROVE  /\ list'.node[q[i]].priority = list.node[q[i]].priority - 0
                        /\ list'.node[q[i]].data = list.node[q[i]].data
                        /\ list'.node[q[i]].priority >= i + 1 - MaxNodes
      OBVIOUS
    <3>1. list.node[q[i]].priority >= i + 1 - MaxNodes /\ list.node[q[i]].priority \in Int
      BY <1>1 DEF FiledFacts
    <3> QED
      BY <1>7, <3>1
  <2>7. HeldAsFiled(nodes', left', NotFiring)
    BY DEF HeldAsFiled
  <2> QED
    BY <1>8, <2>2, <2>3, <2>4, <2>5, <2>6, <2>7 DEF Keeps
<1>11. Files(q, list'.node, nodes', left', firing')
  <2>1. Files(q, list'.node, nodes', left', NotFiring)
    BY ONLY <1>1, <1>10, FilesKeep
  <2> QED
    BY <1>2, <2>1
<1>12. IsLinked(build', list', q)
  BY <1>2, <1>6
<1>13. /\ build' \in Builds /\ phase' \in {"idle", "handler", "fault"}
       /\ phase' = "idle" => firing' = NotFiring
       /\ phase' = "handler" => firing' # NotFiring
  BY <1>2 DEF Holds
<1>14. Inv' /\ Order' = q
  BY <1>9, <1>11, <1>12, <1>13, InvNext
<1> QED
  BY <1>7, <1>14

(* The empty order.                                                        *)
LEMMA EmptyPlaces ==
  /\ IsOrder(<<>>) /\ Len(<<>>) = 0
  /\ Place(<<>>, 0) = HEAD /\ Place(<<>>, 1) = TAIL
<1>1. IsOrder(<<>>) /\ Len(<<>>) = 0
  BY DEF IsOrder
<1> QED
  BY <1>1, Places

(* list_init makes an empty list.                                          *)
LEMMA ListInitShape == DoublyLinked(list_init, <<>>)
<1> DEFINE blank == [c \in Cells |-> Blank]
           a == [blank EXCEPT ![HEAD].next = TAIL]
           b == [a EXCEPT ![TAIL].prev = HEAD]
<1>1. HEAD \in Cells /\ TAIL \in Cells /\ HEAD # TAIL /\ HEAD \in Pointers /\ TAIL \in Pointers
  BY Addresses
<1>2. blank \in [Cells -> ListNode]
  BY ClearedNodes
<1> HIDE DEF blank
<1>3. /\ a \in [Cells -> ListNode]
      /\ a[HEAD].next = TAIL
  BY <1>1, <1>2, NextSet
<1> HIDE DEF a
<1>4. /\ b \in [Cells -> ListNode]
      /\ b[HEAD].next = TAIL /\ b[TAIL].prev = HEAD
  BY <1>1, <1>3, PrevSet
<1>5. list_init = [node |-> b, size |-> 0]
  BY DEF list_init, a, blank
<1> HIDE DEF b
<1>6. /\ list_init \in [node : [Cells -> ListNode], size : Nat]
      /\ list_init.node = b /\ list_init.size = 0
  BY <1>4, <1>5
<1>7. \A i \in 0 .. Len(<<>>) : /\ list_init.node[Place(<<>>, i)].next = Place(<<>>, i + 1)
                                /\ list_init.node[Place(<<>>, i + 1)].prev = Place(<<>>, i)
  <2>1. \A i \in 0 .. Len(<<>>) : i = 0 /\ i + 1 = 1
    BY EmptyPlaces
  <2> QED
    BY <1>4, <1>6, <2>1, EmptyPlaces
<1> QED
  BY <1>6, <1>7, EmptyPlaces DEF DoublyLinked

(* skip_list_init makes an empty skip list.                                *)
LEMMA SkipInitShape == SkipLinked(skip_list_init, <<>>)
<1> DEFINE head == node_init(INVALID, MaxLevel, NULL, TAIL)
           tail == node_init(INVALID, 0, NULL, NULL)
           s == skip_list_init
<1>1. /\ HEAD \in Cells /\ TAIL \in Cells /\ HEAD # TAIL /\ HEAD \in Pointers /\ TAIL \in Pointers
      /\ NULL \in Pointers /\ MaxLevel \in Nat /\ 0 \in Levels /\ MaxLevel \in Levels
      /\ INVALID \in Int /\ \A i \in Levels : i <= MaxLevel /\ i \in Int
  BY Addresses, LevelAssumption DEF Levels
<1>2. /\ head \in SkipNode /\ head.level = MaxLevel /\ \A i \in Levels : head.forward[i] = TAIL
  <2>1. [i \in Levels |-> IF i <= MaxLevel THEN TAIL ELSE NULL] \in [Levels -> Pointers]
    BY <1>1
  <2> QED
    BY <1>1, <2>1 DEF node_init, SkipNode
<1>3. /\ tail \in SkipNode /\ tail.priority = INVALID /\ \A i \in Levels : tail.forward[i] = NULL
  <2>1. [i \in Levels |-> IF i <= 0 THEN NULL ELSE NULL] \in [Levels -> Pointers]
    BY <1>1
  <2> QED
    BY <1>1, <2>1 DEF node_init, SkipNode
<1> DEFINE cell(c) == CASE c = HEAD -> head [] c = TAIL -> tail [] OTHER -> Unused
<1>4. s = [node |-> [c \in Cells |-> cell(c)], level |-> 0, length |-> 0]
  BY DEF skip_list_init
<1>5. Unused \in SkipNode
  BY ClearedNodes
<1> HIDE DEF head, tail
<1>6. \A c \in Cells : cell(c) \in SkipNode
  <2>1. \A c \in Cells : cell(c) = head \/ cell(c) = tail \/ cell(c) = Unused
    OBVIOUS
  <2> HIDE DEF cell
  <2> QED
    BY <1>2, <1>3, <1>5, <2>1
<1>7. cell(HEAD) = head /\ cell(TAIL) = tail
  BY <1>1
<1> HIDE DEF cell, s
<1>8. /\ s \in [node : [Cells -> SkipNode], level : Levels, length : Nat]
      /\ s.level = 0 /\ s.length = 0 /\ s.node[HEAD] = head /\ s.node[TAIL] = tail
  BY <1>1, <1>4, <1>6, <1>7
<1>9. ASSUME NEW i \in Levels, NEW j \in 0 .. Len(<<>>)
      PROVE  /\ IsOn(s, <<>>, i, j)
             /\ \A k \in 1 .. Len(<<>>) + 1 : s.node[Place(<<>>, j)].forward[i] = Place(<<>>, k)
  <2>1. j = 0 /\ \A k \in 1 .. Len(<<>>) + 1 : k = 1
    BY EmptyPlaces
  <2>2. s.node[Place(<<>>, j)] = head
    BY <1>8, <2>1, EmptyPlaces
  <2>3. IsOn(s, <<>>, i, j)
    BY <1>1, <1>2, <2>2 DEF IsOn
  <2> QED
    BY <1>2, <2>1, <2>2, <2>3, EmptyPlaces
<1>10. SkipLinked(s, <<>>)
  BY <1>2, <1>3, <1>8, <1>9, EmptyPlaces DEF SkipLinked
<1> QED
  BY <1>10 DEF s

(* The invariant holds when either list has been initialised.              *)
LEMMA InitInv == Init => Inv
<1> SUFFICES ASSUME Init PROVE Inv
  OBVIOUS
<1>1. /\ build \in Builds /\ list = IF build = "list" THEN list_init ELSE skip_list_init
      /\ nodes = {} /\ left = <<>> /\ phase = "idle" /\ firing = NotFiring
  BY DEF Init
<1>2. IsLinked(build, list, <<>>)
  BY <1>1, ListInitShape, SkipInitShape DEF IsLinked
<1>3. Len(<<>>) <= MaxNodes /\ \A i \in 1 .. Len(<<>>) : FALSE
  BY EmptyPlaces, Addresses
<1>4. Order = <<>>
  BY <1>2, <1>3, EmptyPlaces, OrderFor DEF Order
<1>5. \A c \in Cells : list.node[c].priority \in Int /\ list.node[c].data \in Timers \cup {NULL}
  BY <1>2, EmptyPlaces, NodeFields
<1>6. \A c \in Nodes : list.node[c].priority = 0 /\ list.node[HEAD].data = NULL
  <2> SUFFICES ASSUME NEW c \in Nodes PROVE list.node[c].priority = 0 /\ list.node[HEAD].data = NULL
    OBVIOUS
  <2>1. c \in Cells /\ c # HEAD /\ c # TAIL /\ HEAD \in Cells /\ TAIL \in Cells /\ HEAD # TAIL
    BY Addresses
  <2>2. CASE build = "list"
    <3>1. list.node[c].priority = 0
      BY <1>1, <2>1, <2>2 DEF list_init, Blank
    <3>2. list.node[HEAD].data = NULL
      BY <1>1, <2>1, <2>2 DEF list_init, Blank
    <3> QED
      BY <3>1, <3>2
  <2>3. CASE build # "list"
    <3>1. list.node[c] = Unused /\ list.node[HEAD] = node_init(INVALID, MaxLevel, NULL, TAIL)
      BY <1>1, <2>1, <2>3 DEF skip_list_init
    <3>2. Unused.priority = 0
      BY ClearedNodes
    <3> QED
      BY <3>1, <3>2 DEF node_init
  <2> QED
    BY <2>2, <2>3
<1>7. list.node[HEAD].data = NULL
  <2>1. 1 \in Nodes
    BY Addresses DEF Nodes
  <2> QED
    BY <1>6, <2>1
<1>8. Files(<<>>, list.node, nodes, left, firing)
  <2>1. DOMAIN left = {}
    BY <1>1
  <2>2. \A c \in Nodes : list.node[c].priority \in Int /\ list.node[c].priority < INVALID
    BY <1>6, TimerAssumption
  <2>3. {list.node[(<<>>)[i]].data : i \in 1 .. Len(<<>>)} = {}
    BY <1>3
  <2>4. {(<<>>)[i] : i \in 1 .. Len(<<>>)} = {}
    BY <1>3
  <2> QED
    BY <1>1, <1>3, <2>1, <2>2, <2>3, <2>4, EmptyPlaces DEF Files
<1>9. LinkedAs(list, Order)
  BY <1>2, <1>4 DEF LinkedAs, IsLinked
<1> QED
  BY <1>1, <1>4, <1>7, <1>8, <1>9 DEF Inv

(* What the step does to the order, for the refinement as well.            *)
StepShape ==
  \/ \E timeout \in Timeouts : \E J, n, t : Created(Order, J, n, t, timeout)
  \/ \E t \in Timers : \E J : Deleted(Order, J, t)
  \/ Fired(Order) \/ Passed(Order) \/ handler_returns
  \/ UNCHANGED <<build, list, nodes, left, firing>> /\ phase' \in {phase, "fault"}

(* Every step is one of these.                                             *)
LEMMA StepCases ==
  ASSUME Inv, [Next]_vars
  PROVE  StepShape
<1>1. Holds(Order)
  BY InvHolds
<1>2. CASE \E timeout \in Timeouts : timer_create(timeout)
  BY <1>1, <1>2, CreateStep DEF StepShape
<1>3. CASE \E t \in Timers : timer_delete(t)
  BY <1>1, <1>3, DeleteStep DEF StepShape
<1>4. CASE timer_handler
  BY <1>1, <1>4, HandlerStep DEF StepShape
<1>5. CASE handler_returns
  BY <1>5 DEF StepShape
<1>6. CASE timer_create_no_memory \/ \E t \in Timers \cup {NULL} : timer_delete_fails(t)
  BY <1>6 DEF StepShape, timer_create_no_memory, timer_delete_fails, Faults
<1>7. CASE panic \/ UNCHANGED vars
  BY <1>7 DEF StepShape, panic, vars
<1> QED
  BY <1>2, <1>3, <1>4, <1>5, <1>6, <1>7 DEF Next

(* Every step keeps the invariant.                                         *)
LEMMA StepKeepsInv == Inv /\ [Next]_vars => Inv'
<1> SUFFICES ASSUME Inv, [Next]_vars PROVE Inv'
  OBVIOUS
<1>1. Holds(Order) /\ StepShape
  BY InvHolds, StepCases
<1>2. CASE \E timeout \in Timeouts : \E J, n, t : Created(Order, J, n, t, timeout)
  BY ONLY <1>1, <1>2, CreateKeeps
<1>3. CASE \E t \in Timers : \E J : Deleted(Order, J, t)
  BY ONLY <1>1, <1>3, DeleteKeeps
<1>4. CASE Fired(Order)
  BY ONLY <1>1, <1>4, FiredKeeps
<1>5. CASE Passed(Order)
  BY ONLY <1>1, <1>5, PassedKeeps
<1>6. CASE handler_returns
  BY ONLY <1>1, <1>6, ReturnKeeps
<1>7. CASE UNCHANGED <<build, list, nodes, left, firing>> /\ phase' = phase
  BY <1>7 DEF Inv, Order, LinkedAs, InOrder, SkipOrder
<1>8. CASE UNCHANGED <<build, list, nodes, left, firing>> /\ phase' = "fault"
  BY <1>8 DEF Inv, Order, LinkedAs, InOrder, SkipOrder
<1> QED
  BY <1>1, <1>2, <1>3, <1>4, <1>5, <1>6, <1>7, <1>8 DEF StepShape

(* Whatever tasks create and delete and ticks fire, the nodes of either    *)
(* list stay linked in order and stand for the timers that are allocated.  *)
(* (Handlers leave the timer calls to the tasks: see module ListTimer.)    *)
THEOREM ListTimerInvariant == Spec => []Inv
BY InitInv, StepKeepsInv, PTL DEF Spec

-----------------------------------------------------------------------------
(* What follows from the invariant.                                        *)

(* Types follow from the invariant.                                        *)
LEMMA InvTypeOK == Inv => TypeOK
<1> SUFFICES ASSUME Inv PROVE TypeOK
  OBVIOUS
<1> DEFINE q == Order
<1>1. Holds(q)
  BY InvHolds
<1> HIDE DEF q
<1>2. /\ FiledFacts(q, list.node, nodes, left, firing) /\ IsLinked(build, list, q)
      /\ build \in Builds /\ phase \in {"idle", "handler", "fault"}
  BY <1>1, Filed DEF Holds
<1>3. \/ build = "list" /\ list \in [node : [Cells -> ListNode], size : Nat]
      \/ build = "skip" /\ list \in [node : [Cells -> SkipNode], level : Levels, length : Nat]
  <2>1. build = "list" \/ build = "skip"
    BY <1>2, TimerAssumption
  <2>2. CASE build = "list"
    BY <1>2, <2>2 DEF IsLinked, DoublyLinked
  <2>3. CASE build = "skip"
    <3>1. SkipLinked(list, q)
      BY <1>2, <2>3 DEF IsLinked
    <3> QED
      BY <2>3, <3>1 DEF SkipLinked
  <2> QED
    BY <2>1, <2>2, <2>3
<1>4. /\ nodes \subseteq Nodes /\ DOMAIN left \subseteq Timers
      /\ HeldAsFiled(nodes, left, firing)
      /\ {list.node[q[i]].data : i \in 1 .. Len(q)} = DOMAIN left \ {firing.timer}
  BY <1>2 DEF FiledFacts
<1>5. firing \in [node : Nodes \cup {NULL}, timer : Timers \cup {NULL}]
  BY <1>4 DEF HeldAsFiled, NotFiring
<1>6. ASSUME NEW t \in DOMAIN left PROVE left[t] \in Int /\ left[t] > - MaxNodes
  <2>1. CASE t # firing.timer
    <3>1. PICK i \in 1 .. Len(q) : list.node[q[i]].data = t
      BY ONLY <1>4, <1>6, <2>1
    <3>2. /\ list.node[q[i]].priority = left[t] /\ list.node[q[i]].priority \in Int
          /\ list.node[q[i]].priority >= i + 1 - MaxNodes
      BY <1>2, <3>1 DEF FiledFacts
    <3> QED
      BY <3>2, Addresses
  <2>2. CASE t = firing.timer
    <3>1. firing # NotFiring
      BY <1>4, <2>2, Addresses DEF NotFiring, Timers
    <3> QED
      BY <1>4, <2>2, <3>1 DEF HeldAsFiled
  <2> QED
    BY <2>1, <2>2
<1> QED
  BY <1>2, <1>3, <1>4, <1>5, <1>6 DEF TypeOK, Allocated, LongestDelay

(* So does the order by priority,                                          *)
LEMMA InvSorted == Inv => Sorted
<1> SUFFICES ASSUME Inv PROVE Sorted
  OBVIOUS
<1> DEFINE q == Order
<1>1. Holds(q)
  BY InvHolds
<1> HIDE DEF q
<1>2. IsOrder(q) /\ Files(q, list.node, nodes, left, firing)
  BY <1>1 DEF Holds
<1>3. \A i, j \in DOMAIN q : i < j => list.node[q[i]].priority <= list.node[q[j]].priority
  BY <1>2, Places DEF Files
<1> QED
  BY <1>3 DEF Sorted, Priority, q

(* What the links of a skip list come to.                                  *)
LEMMA LevelsRight ==
  ASSUME NEW s, NEW q, IsOrder(q), Len(q) <= MaxNodes, SkipLinked(s, q)
  PROVE  /\ \A i \in Levels : AtLevel(s, i) # <<>> => i <= s.level
         /\ s.level > 0 => AtLevel(s, s.level) # <<>>
         /\ \A i \in Levels : Picks(AtLevel(s, i), q, {c \in Nodes : s.node[c].level >= i})
<1>1. s \in Skips /\ Len(q) \in Nat /\ DOMAIN q = 1 .. Len(q) /\ \A k \in 1 .. Len(q) : q[k] \in Nodes
  BY LevelsOn, Places
<1>2. s.level \in Levels /\ s.level \in Nat
  BY <1>1, SkipFields
<1>3. ASSUME NEW i \in Levels
      PROVE  /\ AtLevel(s, i) # <<>> <=> \E k \in 1 .. Len(q) : s.node[q[k]].level >= i
             /\ Picks(AtLevel(s, i), q, {c \in Nodes : s.node[c].level >= i})
  <2>1. PICK m \in Nat : \E at \in [1 .. m -> 1 .. Len(q)] : LevelIs(s, q, i, m, at)
    BY AtLevelIs
  <2>2. PICK at \in [1 .. m -> 1 .. Len(q)] : LevelIs(s, q, i, m, at)
    BY <2>1
  <2> DEFINE r == AtLevel(s, i)
             keep == {c \in Nodes : s.node[c].level >= i}
  <2>3. /\ \A x, y \in 1 .. m : x < y => at[x] < at[y]
        /\ {at[x] : x \in 1 .. m} = {k \in 1 .. Len(q) : s.node[q[k]].level >= i}
        /\ r \in Seq(Nodes) /\ Len(r) = m /\ DOMAIN r = 1 .. m
        /\ \A x \in 1 .. m : r[x] = q[at[x]]
    BY <2>2 DEF LevelIs
  <2> HIDE DEF r
  <2>4. r # <<>> <=> m # 0
    BY <2>3
  <2>5. m # 0 <=> \E k \in 1 .. Len(q) : s.node[q[k]].level >= i
    <3>1. ASSUME m # 0 PROVE \E k \in 1 .. Len(q) : s.node[q[k]].level >= i
      <4>1. at[1] \in {at[x] : x \in 1 .. m}
        BY <3>1
      <4> QED
        BY <2>3, <4>1
    <3>2. ASSUME NEW k \in 1 .. Len(q), s.node[q[k]].level >= i PROVE m # 0
      <4>1. \E x \in 1 .. m : at[x] = k
        BY <2>3, <3>2
      <4> QED
        BY <4>1
    <3> QED
      BY <3>1, <3>2
  <2>6. \A k \in 1 .. Len(q) : q[k] \in keep <=> s.node[q[k]].level >= i
    BY <1>1
  <2> HIDE DEF keep
  <2>7. Picks(r, q, keep)
    <3>1. {at[x] : x \in DOMAIN r} = {j \in DOMAIN q : q[j] \in keep}
      BY <1>1, <2>3, <2>6
    <3>2. at \in [DOMAIN r -> DOMAIN q]
      BY <1>1, <2>3
    <3> QED
      BY <2>3, <3>1, <3>2 DEF Picks
  <2> QED
    BY <2>4, <2>5, <2>7 DEF r, keep
<1>4. ASSUME NEW i \in Levels, AtLevel(s, i) # <<>> PROVE i <= s.level
  <2>1. PICK k \in 1 .. Len(q) : s.node[q[k]].level >= i
    BY <1>3, <1>4
  <2>2. s.node[q[k]].level <= s.level /\ s.node[q[k]].level \in Nat /\ i \in Nat
    BY LevelsOn, LevelAssumption DEF Levels
  <2> QED
    BY <1>2, <2>1, <2>2
<1>5. ASSUME s.level > 0 PROVE AtLevel(s, s.level) # <<>>
  <2>1. PICK k \in 1 .. Len(q) : s.node[q[k]].level = s.level
    BY <1>5 DEF SkipLinked
  <2>2. s.node[q[k]].level >= s.level
    BY <1>2, <2>1
  <2> QED
    BY <1>2, <1>3, <2>2
<1> QED
  BY <1>3, <1>4, <1>5

(* the agreement of all links, forward, backward and on each level,        *)
LEMMA InvKeepsShape == Inv => ListKeepsShape
<1> SUFFICES ASSUME Inv PROVE ListKeepsShape
  OBVIOUS
<1> DEFINE q == Order
<1>1. Holds(q)
  BY InvHolds
<1>2. IsOrder(q) /\ Len(q) \in Nat /\ Len(q) <= MaxNodes /\ IsLinked(build, list, q)
  BY <1>1 DEF Holds
<1>3. CASE build = "list"
  <2>1. DoublyLinked(list, q)
    BY <1>2, <1>3 DEF IsLinked
  <2> HIDE DEF q
  <2>2. InOrder(list) = q /\ Backwards(list) = Reverse(q) /\ list.size = Len(q)
    BY <1>2, <2>1, InOrderIs DEF DoublyLinked
  <2> QED
    BY <1>3, <2>2, InvTypeOK, InvSorted DEF ListKeepsShape, ListIsLinked
<1>4. CASE build # "list"
  <2>1. SkipLinked(list, q)
    BY <1>2, <1>4 DEF IsLinked
  <2> HIDE DEF q
  <2>2. SkipOrder(list) = q /\ list.length = Len(q) /\ list \in Skips
    BY <1>2, <2>1, SkipOrderIs, LevelsOn DEF SkipLinked
  <2>3. /\ \A i \in Levels : AtLevel(list, i) # <<>> => i <= list.level
        /\ list.level > 0 => AtLevel(list, list.level) # <<>>
        /\ \A i \in Levels : Picks(AtLevel(list, i), q, {c \in Nodes : list.node[c].level >= i})
    BY <1>2, <2>1, LevelsRight
  <2>4. ASSUME NEW i \in list.level + 1 .. MaxLevel PROVE AtLevel(list, i) = <<>>
    <3>1. list.level \in Nat /\ MaxLevel \in Nat
      BY <2>2, SkipFields
    <3>2. i \in Levels /\ ~ (i <= list.level)
      BY <3>1 DEF Levels
    <3> QED
      BY <2>3, <3>2
  <2>5. SkipListIsLinked
    BY <2>2, <2>3, <2>4 DEF SkipListIsLinked
  <2> QED
    BY <1>4, <2>5, InvTypeOK, InvSorted DEF ListKeepsShape
<1> QED
  BY <1>3, <1>4

(* the agreement of list and heap,                                         *)
LEMMA InvBlocks == Inv => BlocksAreListed
<1> SUFFICES ASSUME Inv PROVE BlocksAreListed
  OBVIOUS
<1> DEFINE q == Order
           data == [i \in DOMAIN q |-> list.node[q[i]].data]
<1>1. Holds(q)
  BY InvHolds
<1> HIDE DEF q
<1>2. /\ IsOrder(q) /\ Len(q) \in Nat /\ Len(q) <= MaxNodes /\ IsLinked(build, list, q)
      /\ FiledFacts(q, list.node, nodes, left, firing) /\ DOMAIN q = 1 .. Len(q)
  BY <1>1, Filed, Places DEF Holds
<1>3. /\ {q[i] : i \in 1 .. Len(q)} = nodes \ {firing.node}
      /\ {list.node[q[i]].data : i \in 1 .. Len(q)} = Allocated \ {firing.timer}
      /\ nodes \subseteq Nodes /\ Allocated \subseteq Nodes
      /\ HeldAsFiled(nodes, left, firing)
      /\ \A i \in 1 .. Len(q) : /\ list.node[q[i]].data \in Nodes
                                /\ list.node[q[i]].priority = left[list.node[q[i]].data]
      /\ \A i, j \in 1 .. Len(q) : list.node[q[i]].data = list.node[q[j]].data => i = j
  BY <1>2 DEF FiledFacts, Allocated, Timers
<1>4. /\ data \in Seq(Nodes) /\ Len(data) = Len(q) /\ DOMAIN data = 1 .. Len(q)
      /\ \A i \in 1 .. Len(q) : data[i] = list.node[q[i]].data
  BY <1>2, <1>3
<1> HIDE DEF data
<1>5. IsOrder(data)
  BY <1>3, <1>4 DEF IsOrder
<1>6. {data[i] : i \in 1 .. Len(data)} = Allocated \ {firing.timer}
  <2>1. {data[i] : i \in 1 .. Len(data)} = {list.node[q[i]].data : i \in 1 .. Len(q)}
    BY <1>4
  <2> QED
    BY <1>3, <2>1
<1>7. /\ IsFiniteSet(Allocated \ {firing.timer}) /\ Cardinality(Allocated \ {firing.timer}) = Len(q)
      /\ IsFiniteSet(nodes \ {firing.node}) /\ Cardinality(nodes \ {firing.node}) = Len(q)
  <2>1. nodes \ {firing.node} \in SUBSET Nodes /\ Allocated \ {firing.timer} \in SUBSET Nodes
    BY <1>3
  <2> QED
    BY <1>2, <1>3, <1>4, <1>5, <1>6, <2>1, OrderSize
<1>8. Cardinality(nodes) = Cardinality(Allocated)
  <2>1. CASE firing = NotFiring
    <3>1. nodes \ {firing.node} = nodes /\ Allocated \ {firing.timer} = Allocated
      BY <1>3, <2>1, Addresses DEF NotFiring
    <3> QED
      BY <1>7, <3>1
  <2>2. CASE firing # NotFiring
    <3> DEFINE a == nodes \ {firing.node}
               b == Allocated \ {firing.timer}
    <3>1. firing.node \in nodes /\ firing.timer \in Allocated
      BY <1>3, <2>2 DEF HeldAsFiled, Allocated
    <3>2. /\ nodes = a \cup {firing.node} /\ firing.node \notin a
          /\ Allocated = b \cup {firing.timer} /\ firing.timer \notin b
      BY <3>1
    <3> HIDE DEF a, b
    <3>3. Cardinality(nodes) = Len(q) + 1 /\ Cardinality(Allocated) = Len(q) + 1
      <4>1. IsFiniteSet(a) /\ Cardinality(a) = Len(q) /\ IsFiniteSet(b) /\ Cardinality(b) = Len(q)
        BY <1>7 DEF a, b
      <4>2. /\ Cardinality(a \cup {firing.node}) = Len(q) + 1
            /\ Cardinality(b \cup {firing.timer}) = Len(q) + 1
        BY <3>2, <4>1, FS_AddElement
      <4> QED
        BY <3>2, <4>2
    <3> QED
      BY <3>3
  <2> QED
    BY <2>1, <2>2
<1>9. {HEAD, TAIL} \cup {q[i] : i \in 1 .. Len(q)} =
        IF build = "list" THEN list_destroyed(list) ELSE skip_list_destroyed(list)
  <2>1. CASE build = "list"
    <3>1. DoublyLinked(list, q)
      BY <1>2, <2>1 DEF IsLinked
    <3> QED
      BY <1>2, <2>1, <3>1, DestroyedIs
  <2>2. CASE build # "list"
    <3>1. SkipLinked(list, q)
      BY <1>2, <2>2 DEF IsLinked
    <3>2. SkipOrder(list) = q
      BY <1>2, <3>1, SkipOrderIs
    <3> QED
      BY <1>2, <2>2, <3>2 DEF skip_list_destroyed, Range
  <2> QED
    BY <2>1, <2>2
<1>10. Range(q) = {q[i] : i \in 1 .. Len(q)} /\ Range(data) = {data[i] : i \in 1 .. Len(data)}
  BY <1>2, <1>4 DEF Range
<1>11. /\ Range(q) = nodes \ {firing.node}
       /\ Range(data) = Allocated \ {firing.timer}
       /\ Len(q) = Cardinality(Allocated \ {firing.timer})
       /\ Cardinality(nodes) = Cardinality(Allocated)
       /\ \A i \in DOMAIN q : Priority(q[i]) = left[data[i]]
       /\ {HEAD, TAIL} \cup Range(q) =
            IF build = "list" THEN list_destroyed(list) ELSE skip_list_destroyed(list)
  BY <1>2, <1>3, <1>4, <1>6, <1>7, <1>8, <1>9, <1>10 DEF Priority
<1> QED
  BY <1>11 DEF BlocksAreListed, data, q

(* and which nodes skip_list_delete2 can delete.                           *)
LEMMA InvTallest == Inv => OnlyTallestDeleted
<1> SUFFICES ASSUME Inv, build = "skip", NEW n \in Range(Order)
             PROVE  DeleteFails(list, n) <=> list.node[n].level # list.level
  BY DEF OnlyTallestDeleted
<1> DEFINE q == Order
<1>1. Holds(q)
  BY InvHolds
<1>2. n \in Range(q)
  OBVIOUS
<1> HIDE DEF q
<1>3. IsOrder(q) /\ Len(q) <= MaxNodes /\ SkipLinked(list, q)
  BY <1>1 DEF Holds, IsLinked
<1>4. PICK J \in 1 .. Len(q) : n = q[J]
  BY <1>2, <1>3, Places DEF Range
<1> QED
  BY <1>3, <1>4, BeforeNodeIs

(* The minimum of a set of numbers is the one below the others.            *)
LEMMA MinIs ==
  ASSUME NEW S \in SUBSET Nat, NEW x \in S, \A y \in S : x <= y
  PROVE  Min(S) = x
<1>1. \E y \in S : \A z \in S : y <= z
  OBVIOUS
<1>2. Min(S) \in S /\ \A z \in S : Min(S) <= z
  BY <1>1 DEF Min
<1>3. Min(S) \in Nat /\ x \in Nat /\ Min(S) <= x /\ x <= Min(S)
  BY <1>2
<1> QED
  BY <1>3

(* What FirstOfEquals relies on of the list.                               *)
SkipHeld(s, q) ==
  /\ IsOrder(q) /\ Len(q) \in Nat /\ Len(q) <= MaxNodes /\ SkipLinked(s, q)
  /\ \A i \in 1 .. Len(q) : s.node[q[i]].priority \in Int /\ s.node[q[i]].priority < INVALID
  /\ \A i, j \in 1 .. Len(q) : i <= j => s.node[q[i]].priority <= s.node[q[j]].priority

(* skip_list_search returns the first node of the priority, or null.       *)
LEMMA SearchIs ==
  ASSUME NEW s, NEW q, SkipHeld(s, q), NEW priority \in Int, priority < INVALID
  PROVE  LET equal == {i \in DOMAIN q : s.node[q[i]].priority = priority}
         IN  skip_list_search(s, priority) = IF equal = {} THEN NULL ELSE q[Min(equal)]
<1> DEFINE equal == {i \in 1 .. Len(q) : s.node[q[i]].priority = priority}
<1>1. /\ IsOrder(q) /\ Len(q) \in Nat /\ Len(q) <= MaxNodes /\ SkipLinked(s, q) /\ INVALID \in Int
      /\ \A i \in 1 .. Len(q) : s.node[q[i]].priority \in Int /\ s.node[q[i]].priority < INVALID
      /\ \A i, j \in 1 .. Len(q) : i <= j => s.node[q[i]].priority <= s.node[q[j]].priority
  BY LevelAssumption DEF SkipHeld
<1>2. PICK J \in 1 .. Len(q) + 1 : IsFirstAt(s, q, priority, J)
  BY <1>1, FirstAtExists
<1>3. At(s, priority) = Place(q, J)
  BY <1>1, <1>2, BeforeIs
<1>4. /\ \A k \in 1 .. Len(q) : k < J => s.node[q[k]].priority < priority
      /\ \A k \in 1 .. Len(q) : J <= k => s.node[q[k]].priority >= priority
  <2>1. \A k \in 1 .. Len(q) : Place(q, k) = q[k] /\ (k < J => k \in 1 .. J - 1)
                               /\ (J <= k => k \in J .. Len(q) + 1)
    BY <1>1, Places
  <2> QED
    BY <1>2, <2>1 DEF IsFirstAt
<1>5. skip_list_search(s, priority) = IF equal = {} THEN NULL ELSE q[Min(equal)]
  <2>1. CASE J = Len(q) + 1
    <3>1. At(s, priority) = TAIL /\ s.node[TAIL].priority = INVALID
      BY <1>1, <1>3, <2>1, Places DEF SkipLinked
    <3>2. equal = {}
      BY <1>1, <1>4, <2>1
    <3> QED
      BY <1>1, <3>1, <3>2 DEF skip_list_search
  <2>2. CASE J # Len(q) + 1
    <3>1. J \in 1 .. Len(q) /\ At(s, priority) = q[J]
      BY <1>1, <1>3, <2>2, Places
    <3>2. CASE s.node[q[J]].priority = priority
      <4>1. J \in equal /\ equal \in SUBSET Nat /\ \A k \in equal : J <= k
        BY <1>1, <1>4, <3>1, <3>2
      <4> HIDE DEF equal
      <4>2. Min(equal) = J /\ equal # {}
        BY <4>1, MinIs
      <4> QED
        BY <3>1, <3>2, <4>2 DEF skip_list_search
    <3>3. CASE s.node[q[J]].priority # priority
      <4>1. ASSUME NEW k \in 1 .. Len(q), s.node[q[k]].priority = priority PROVE FALSE
        <5>1. J <= k
          BY <1>1, <1>4, <3>1, <4>1
        <5>2. s.node[q[J]].priority <= priority /\ s.node[q[J]].priority >= priority
          BY <1>1, <1>4, <3>1, <4>1, <5>1
        <5> QED
          BY <1>1, <3>1, <3>3, <5>2
      <4>2. equal = {}
        BY <4>1
      <4> HIDE DEF equal
      <4> QED
        BY <3>1, <3>3, <4>2 DEF skip_list_search
    <3> QED
      BY <3>2, <3>3
  <2> QED
    BY <2>1, <2>2
<1>6. DOMAIN q = 1 .. Len(q)
  BY <1>1, Places
<1> QED
  BY <1>5, <1>6

(* Putting back what was taken out.                                        *)
LEMMA PutBack ==
  ASSUME NEW q, IsOrder(q), NEW J \in 1 .. Len(q)
  PROVE  InsertAt(RemoveAt(q, J), J, q[J]) = q
<1> DEFINE r == RemoveAt(q, J)
           n == q[J]
           p == InsertAt(r, J, n)
<1>1. q \in Seq(Nodes) /\ Len(q) \in Nat /\ n \in Nodes
  BY Places DEF IsOrder
<1>2. /\ r \in Seq(Nodes) /\ Len(r) = Len(q) - 1
      /\ \A i \in 1 .. Len(q) - 1 : r[i] = IF i < J THEN q[i] ELSE q[i + 1]
  BY <1>1, Removed
<1> HIDE DEF r, n
<1>3. J \in 1 .. Len(r) + 1
  BY <1>1, <1>2
<1>4. /\ p \in Seq(Nodes) /\ Len(p) = Len(r) + 1
      /\ \A i \in 1 .. Len(r) + 1 : p[i] = IF i < J THEN r[i] ELSE IF i = J THEN n ELSE r[i - 1]
  <2>1. r \in Seq(Nodes) /\ J \in 1 .. Len(r) + 1 /\ n \in Nodes
    BY <1>1, <1>2, <1>3
  <2>2. IsInsertion(Nodes, InsertAt(r, J, n), r, J, n)
    BY ONLY <2>1, InsertsAt
  <2> QED
    BY ONLY <2>2 DEF IsInsertion
<1> HIDE DEF p
<1>5. ASSUME NEW i \in 1 .. Len(q) PROVE p[i] = q[i]
  <2>1. i \in 1 .. Len(r) + 1 /\ i \in Nat
    BY <1>1, <1>2
  <2>2. CASE i < J
    <3>1. p[i] = r[i] /\ i \in 1 .. Len(q) - 1
      BY <1>1, <1>4, <2>1, <2>2
    <3> QED
      BY <1>2, <2>2, <3>1
  <2>3. CASE i = J
    BY <1>4, <2>1, <2>3 DEF n
  <2>4. CASE i > J
    <3>1. ~ (i < J) /\ i # J /\ i - 1 \in 1 .. Len(q) - 1 /\ ~ (i - 1 < J) /\ (i - 1) + 1 = i
      BY <1>1, <2>1, <2>4
    <3>2. p[i] = r[i - 1]
      BY <1>4, <2>1, <3>1
    <3> QED
      BY <1>2, <3>1, <3>2
  <2> QED
    BY <2>1, <2>2, <2>3, <2>4
<1>6. Len(p) = Len(q)
  BY <1>1, <1>2, <1>4
<1>7. p = q
  BY <1>1, <1>4, <1>5, <1>6
<1> QED
  BY <1>7 DEF p, r, n

(* skip_list_delete takes out the first node of the priority, and          *)
(* skip_list_insert2 puts it back.                                         *)
LEMMA DeleteTakesIs ==
  ASSUME NEW s, NEW q, SkipHeld(s, q), NEW K \in 1 .. Len(q),
         NEW priority, priority = s.node[q[K]].priority, NEW after, after = skip_list_delete(s, priority)
  PROVE  \E J \in 1 .. Len(q) :
           /\ q[J] = At(s, priority) /\ SkipLinked(after, RemoveAt(q, J))
           /\ SkipOrder(after) = RemoveAt(q, J)
           /\ \A level \in Levels :
                SkipOrder(skip_list_insert2(after, At(s, priority), level)) = q
<1>1. /\ IsOrder(q) /\ Len(q) \in Nat /\ Len(q) <= MaxNodes /\ SkipLinked(s, q) /\ INVALID \in Int
      /\ \A i \in 1 .. Len(q) : s.node[q[i]].priority \in Int /\ s.node[q[i]].priority < INVALID
      /\ \A i, j \in 1 .. Len(q) : i <= j => s.node[q[i]].priority <= s.node[q[j]].priority
      /\ priority \in Int /\ priority < INVALID /\ priority <= INVALID
  BY LevelAssumption DEF SkipHeld
<1>2. PICK J \in 1 .. Len(q) + 1 : IsFirstAt(s, q, priority, J)
  BY <1>1, FirstAtExists
<1>3. /\ \A k \in 1 .. Len(q) : k < J => s.node[q[k]].priority < priority
      /\ \A k \in 1 .. Len(q) : J <= k => s.node[q[k]].priority >= priority
  <2>1. \A k \in 1 .. Len(q) : Place(q, k) = q[k] /\ (k < J => k \in 1 .. J - 1)
                               /\ (J <= k => k \in J .. Len(q) + 1)
    BY <1>1, Places
  <2> QED
    BY <1>2, <2>1 DEF IsFirstAt
<1>4. J <= K /\ J \in 1 .. Len(q)
  BY <1>1, <1>3
<1>5. s.node[q[J]].priority = priority
  <2>1. s.node[q[J]].priority <= s.node[q[K]].priority /\ s.node[q[J]].priority >= priority
        /\ s.node[q[J]].priority \in Int
    BY <1>1, <1>3, <1>4
  <2> QED
    BY <1>1, <2>1
<1> DEFINE r == RemoveAt(q, J)
           n == q[J]
<1>6. At(s, priority) = n
  <2>1. At(s, priority) = Place(q, J)
    BY <1>1, <1>2, BeforeIs
  <2> QED
    BY <1>1, <1>4, <2>1, Places
<1>7. /\ SkipLinked(after, r)
      /\ \A c \in Cells : after.node[c].priority = s.node[c].priority
  <2>1. /\ SkipLinked(skip_list_delete(s, priority), RemoveAt(q, J))
        /\ \A c \in Cells : skip_list_delete(s, priority).node[c].priority = s.node[c].priority
    BY <1>1, <1>2, <1>4, <1>5, SkipDeleteIs
  <2> QED
    BY <2>1
<1>8. /\ IsOrder(r) /\ Len(r) = Len(q) - 1 /\ \A i \in 1 .. Len(q) - 1 : r[i] # n
      /\ \A i \in 0 .. Len(q) + 1 : Place(r, i) = IF i < J THEN Place(q, i) ELSE Place(q, i + 1)
      /\ n \in Nodes /\ n \in Cells
  <2>1. /\ IsOrder(r) /\ Len(r) = Len(q) - 1 /\ \A i \in 1 .. Len(q) - 1 : r[i] # n
        /\ \A i \in 0 .. Len(q) + 1 : Place(r, i) = IF i < J THEN Place(q, i) ELSE Place(q, i + 1)
    BY ONLY <1>1, <1>4, RemovedPlaces
  <2>2. n \in Nodes /\ n \in Cells
    BY <1>1, <1>4, Places, Addresses
  <2> QED
    BY ONLY <2>1, <2>2
<1>9. InsertAt(r, J, n) = q
  BY <1>1, <1>4, PutBack
<1> HIDE DEF r, n
<1>10. Len(r) \in Nat /\ Len(r) <= MaxNodes /\ J \in 1 .. Len(r) + 1
       /\ \A i \in 1 .. Len(r) : r[i] # n
  <2>1. MaxNodes \in Nat
    BY Addresses
  <2> QED
    BY ONLY <1>1, <1>4, <1>8, <2>1
<1>11. SkipOrder(after) = r
  BY <1>7, <1>8, <1>10, SkipOrderIs
<1>12. IsFirstAt(after, r, priority, J)
  <2>1. ASSUME NEW k \in 1 .. J - 1 PROVE after.node[Place(r, k)].priority < priority
    <3>1. k \in 0 .. Len(q) + 1 /\ k < J
      BY <1>1, <1>4
    <3>2. Place(r, k) = Place(q, k) /\ Place(q, k) \in Cells
      BY <1>1, <1>8, <3>1, Places
    <3>3. s.node[Place(q, k)].priority < priority
      BY <1>2, <2>1 DEF IsFirstAt
    <3> QED
      BY <1>7, <3>2, <3>3
  <2>2. ASSUME NEW k \in J .. Len(r) + 1 PROVE after.node[Place(r, k)].priority >= priority
    <3>1. k \in 0 .. Len(q) + 1 /\ ~ (k < J) /\ k + 1 \in J .. Len(q) + 1 /\ k + 1 \in 0 .. Len(q) + 1
      BY <1>1, <1>4, <1>8, <2>2
    <3>2. Place(r, k) = Place(q, k + 1) /\ Place(q, k + 1) \in Cells
      BY <1>1, <1>8, <3>1, Places
    <3>3. s.node[Place(q, k + 1)].priority >= priority
      BY <1>2, <3>1 DEF IsFirstAt
    <3> QED
      BY <1>7, <3>2, <3>3
  <2> QED
    BY <2>1, <2>2 DEF IsFirstAt
<1>13. IsUpdate(after, r, Before(after, priority), J)
  BY <1>1, <1>7, <1>8, <1>10, <1>12, BeforeIs
<1>14. after.node[n].priority = priority
  BY <1>5, <1>7, <1>8 DEF n
<1>15. ASSUME NEW level \in Levels
       PROVE  SkipOrder(skip_list_insert2(after, n, level)) = q
  <2> DEFINE back == LinkedIn(after, n, Before(after, priority), level)
  <2>1. skip_list_insert2(after, n, level) = back
    BY <1>14 DEF skip_list_insert2
  <2>2. SkipLinked(back, InsertAt(r, J, n))
    BY <1>7, <1>8, <1>10, <1>13, LinkedInShape
  <2> HIDE DEF back
  <2>3. SkipLinked(back, q)
    BY <1>9, <2>2
  <2> QED
    BY <1>1, <2>1, <2>3, SkipOrderIs
<1> QED
  BY <1>4, <1>6, <1>7, <1>11, <1>15 DEF r, n

(* Among equal priorities the list of the program is such a list.          *)
LEMMA InvFirstOfEquals == Inv => FirstOfEquals
<1> SUFFICES ASSUME Inv, build = "skip"
             PROVE  /\ \A priority \in {Priority(c) : c \in Nodes} \cup {0} : SearchFindsFirst(priority)
                    /\ \A c \in Range(Order) : DeleteTakesFirst(c)
  BY DEF FirstOfEquals
<1> DEFINE q == Order
<1>1. Holds(q) /\ q = Order
  BY InvHolds
<1> HIDE DEF q
<1>2. /\ FiledFacts(q, list.node, nodes, left, firing) /\ INVALID > 0
      /\ \A c \in Nodes : list.node[c].priority \in Int /\ list.node[c].priority < INVALID
      /\ IsOrder(q) /\ Len(q) \in Nat /\ Len(q) <= MaxNodes /\ SkipLinked(list, q)
  BY <1>1, Filed, TimerAssumption DEF Holds, IsLinked
<1>3. SkipHeld(list, q)
  BY <1>2 DEF SkipHeld, FiledFacts
<1>4. ASSUME NEW priority \in {Priority(c) : c \in Nodes} \cup {0} PROVE SearchFindsFirst(priority)
  <2>1. priority \in Int /\ priority < INVALID
    BY <1>2 DEF Priority
  <2> QED
    BY <1>1, <1>3, <2>1, SearchIs DEF SearchFindsFirst, Priority
<1>5. ASSUME NEW c \in Range(q) PROVE DeleteTakesFirst(c)
  <2>1. PICK K \in 1 .. Len(q) : q[K] = c
    BY <1>2, <1>5, Places DEF Range
  <2> DEFINE p == Priority(c)
             after == skip_list_delete(list, p)
             first == At(list, p)
  <2>2. p = list.node[q[K]].priority
    BY <2>1 DEF Priority
  <2> HIDE DEF p
  <2>3. PICK J \in 1 .. Len(q) :
           /\ q[J] = first /\ SkipLinked(after, RemoveAt(q, J))
           /\ SkipOrder(after) = RemoveAt(q, J)
           /\ \A level \in Levels : SkipOrder(skip_list_insert2(after, first, level)) = q
    BY ONLY <1>3, <2>2, DeleteTakesIs
  <2>4. IsOrder(RemoveAt(q, J)) /\ Len(RemoveAt(q, J)) <= MaxNodes
    BY <1>2, RemovedPlaces, Addresses
  <2> HIDE DEF after, first
  <2>5. /\ \A i \in Levels : AtLevel(after, i) # <<>> => i <= after.level
        /\ after.level > 0 => AtLevel(after, after.level) # <<>>
    BY <2>3, <2>4, LevelsRight
  <2>6. J \in DOMAIN q
    BY <1>2, Places
  <2> QED
    BY <1>1, <2>3, <2>5, <2>6 DEF DeleteTakesFirst, p, after, first
<1> QED
  BY <1>1, <1>4, <1>5

-----------------------------------------------------------------------------
(* The queue that the list implements.                                     *)

(* The queue that an order stands for, with what is in the nodes.          *)
Entry == [timer : Timers \cup {NULL}, left : Int]
Entries(q, node) == [i \in DOMAIN q |-> [timer |-> node[q[i]].data, left |-> node[q[i]].priority]]

(* Sequences with the same elements are the same.                          *)
LEMMA SameSequences ==
  ASSUME NEW S, NEW p \in Seq(S), NEW q \in Seq(S), Len(p) = Len(q),
         \A i \in 1 .. Len(q) : p[i] = q[i]
  PROVE  p = q
OBVIOUS

(* The entries are a sequence like the order.                              *)
LEMMA EntriesAre ==
  ASSUME NEW q, IsOrder(q), NEW node,
         \A i \in 1 .. Len(q) : node[q[i]].data \in Timers \cup {NULL} /\ node[q[i]].priority \in Int
  PROVE  /\ Entries(q, node) \in Seq(Entry) /\ Len(Entries(q, node)) = Len(q)
         /\ DOMAIN Entries(q, node) = 1 .. Len(q)
         /\ \A i \in 1 .. Len(q) : /\ Entries(q, node)[i] \in Entry
                                   /\ Entries(q, node)[i].timer = node[q[i]].data
                                   /\ Entries(q, node)[i].left = node[q[i]].priority
<1> DEFINE e == Entries(q, node)
           one(i) == [timer |-> node[q[i]].data, left |-> node[q[i]].priority]
<1>1. Len(q) \in Nat /\ DOMAIN q = 1 .. Len(q)
  BY Places
<1>2. e = [i \in 1 .. Len(q) |-> one(i)]
  BY <1>1 DEF Entries
<1>3. \A i \in 1 .. Len(q) : /\ one(i) \in Entry /\ one(i).timer = node[q[i]].data
                             /\ one(i).left = node[q[i]].priority
  BY DEF Entry
<1> HIDE DEF e, one
<1>4. e \in Seq(Entry) /\ Len(e) = Len(q) /\ DOMAIN e = 1 .. Len(q) /\ \A i \in 1 .. Len(q) : e[i] = one(i)
  BY <1>1, <1>2, <1>3
<1> QED
  BY <1>3, <1>4 DEF e

(* Entries are the same when their fields are.                             *)
LEMMA SameEntries ==
  ASSUME NEW a \in Entry, NEW b \in Entry, a.timer = b.timer, a.left = b.left
  PROVE  a = b
BY DEF Entry

(* A node inserted is an entry inserted.                                   *)
LEMMA EntriesInserted ==
  ASSUME NEW q, IsOrder(q), NEW J \in 1 .. Len(q) + 1, NEW n \in Nodes,
         \A i \in 1 .. Len(q) : q[i] # n,
         NEW node, NEW m, NEW t \in Timers, NEW timeout \in Int,
         \A i \in 1 .. Len(q) : /\ node[q[i]].data \in Timers \cup {NULL} /\ node[q[i]].priority \in Int
                                /\ m[q[i]].data = node[q[i]].data
                                /\ m[q[i]].priority = node[q[i]].priority,
         m[n].data = t, m[n].priority = timeout
  PROVE  Entries(InsertAt(q, J, n), m) =
           InsertAt(Entries(q, node), J, [timer |-> t, left |-> timeout])
<1> DEFINE r == InsertAt(q, J, n)
           a == Entries(q, node)
           new == [timer |-> t, left |-> timeout]
           b == Entries(r, m)
           c == InsertAt(a, J, new)
<1>1. q \in Seq(Nodes) /\ Len(q) \in Nat /\ J \in Nat
  BY Places DEF IsOrder
<1>2. /\ IsOrder(r) /\ Len(r) = Len(q) + 1
      /\ \A i \in 1 .. Len(q) + 1 : r[i] = IF i < J THEN q[i] ELSE IF i = J THEN n ELSE q[i - 1]
  BY <1>1, InsertedPlaces, Inserted
<1> HIDE DEF r
<1>3. \A i \in 1 .. Len(q) + 1 : \/ i < J /\ i \in 1 .. Len(q) /\ r[i] = q[i]
                                 \/ i = J /\ r[i] = n
                                 \/ i > J /\ i - 1 \in 1 .. Len(q) /\ r[i] = q[i - 1]
  BY <1>1, <1>2
<1>4. /\ a \in Seq(Entry) /\ Len(a) = Len(q)
      /\ \A i \in 1 .. Len(q) : a[i] \in Entry /\ a[i].timer = node[q[i]].data
                                /\ a[i].left = node[q[i]].priority
  BY EntriesAre
<1>5. \A i \in 1 .. Len(r) : m[r[i]].data \in Timers \cup {NULL} /\ m[r[i]].priority \in Int
  <2> SUFFICES ASSUME NEW i \in 1 .. Len(r)
               PROVE  m[r[i]].data \in Timers \cup {NULL} /\ m[r[i]].priority \in Int
    OBVIOUS
  <2>1. r[i] = n \/ \E k \in 1 .. Len(q) : r[i] = q[k]
    BY <1>2, <1>3
  <2> QED
    BY <2>1
<1>6. /\ b \in Seq(Entry) /\ Len(b) = Len(r)
      /\ \A i \in 1 .. Len(r) : b[i] \in Entry /\ b[i].timer = m[r[i]].data
                                /\ b[i].left = m[r[i]].priority
  BY <1>2, <1>5, EntriesAre, SMTT(30)
<1>7. new \in Entry /\ new.timer = t /\ new.left = timeout
  BY DEF Entry
<1> HIDE DEF a, b, new
<1>8. /\ c \in Seq(Entry) /\ Len(c) = Len(q) + 1
      /\ \A i \in 1 .. Len(q) + 1 : c[i] = IF i < J THEN a[i] ELSE IF i = J THEN new ELSE a[i - 1]
  <2>1. J \in 1 .. Len(a) + 1
    BY <1>4
  <2>2. /\ c \in Seq(Entry) /\ Len(c) = Len(a) + 1
        /\ \A i \in 1 .. Len(a) + 1 : c[i] = IF i < J THEN a[i] ELSE IF i = J THEN new ELSE a[i - 1]
    BY ONLY <1>4, <1>7, <2>1, Inserted
  <2> QED
    BY ONLY <1>4, <2>2
<1> HIDE DEF c
<1>9. ASSUME NEW i \in 1 .. Len(q) + 1 PROVE b[i] = c[i]
  <2>1. b[i] \in Entry /\ b[i].timer = m[r[i]].data /\ b[i].left = m[r[i]].priority
    BY <1>2, <1>6
  <2>2. CASE i < J /\ i \in 1 .. Len(q) /\ r[i] = q[i]
    <3>1. c[i] = a[i]
      BY <1>8, <2>2
    <3>2. a[i] \in Entry /\ a[i].timer = b[i].timer /\ a[i].left = b[i].left
      BY <1>4, <2>1, <2>2
    <3> QED
      BY <2>1, <3>1, <3>2, SameEntries
  <2>3. CASE i = J /\ r[i] = n
    <3>1. c[i] = new
      BY <1>1, <1>8, <2>3
    <3>2. new \in Entry /\ new.timer = b[i].timer /\ new.left = b[i].left
      BY <1>7, <2>1, <2>3
    <3> QED
      BY <2>1, <3>1, <3>2, SameEntries
  <2>4. CASE i > J /\ i - 1 \in 1 .. Len(q) /\ r[i] = q[i - 1]
    <3>1. ~ (i < J) /\ i # J
      BY <1>1, <2>4
    <3>2. c[i] = a[i - 1]
      BY <1>8, <3>1
    <3>3. a[i - 1] \in Entry /\ a[i - 1].timer = b[i].timer /\ a[i - 1].left = b[i].left
      BY <1>4, <2>1, <2>4
    <3> QED
      BY <2>1, <3>2, <3>3, SameEntries
  <2> QED
    BY <1>3, <2>2, <2>3, <2>4
<1>10. b = c
  BY <1>2, <1>6, <1>8, <1>9, SameSequences
<1> QED
  BY <1>10 DEF b, c, a, new, r

(* Both node and m hold the entries of q, but for the one at place J.      *)
SameEntriesBut(q, J, node, m) ==
  /\ \A i \in 1 .. Len(q) : node[q[i]].data \in Timers \cup {NULL} /\ node[q[i]].priority \in Int
  /\ \A i \in 1 .. Len(q) : i # J => /\ m[q[i]].data = node[q[i]].data
                                     /\ m[q[i]].priority = node[q[i]].priority

(* A node removed is an entry removed.                                     *)
LEMMA EntriesRemoved ==
  ASSUME NEW q, IsOrder(q), NEW J \in 1 .. Len(q), NEW node, NEW m,
         SameEntriesBut(q, J, node, m)
  PROVE  Entries(RemoveAt(q, J), m) = RemoveAt(Entries(q, node), J)
<1>0. /\ \A i \in 1 .. Len(q) : node[q[i]].data \in Timers \cup {NULL} /\ node[q[i]].priority \in Int
      /\ \A i \in 1 .. Len(q) : i # J => /\ m[q[i]].data = node[q[i]].data
                                         /\ m[q[i]].priority = node[q[i]].priority
  BY DEF SameEntriesBut
<1> DEFINE r == RemoveAt(q, J)
           a == Entries(q, node)
           b == Entries(r, m)
           c == RemoveAt(a, J)
<1>1. q \in Seq(Nodes) /\ Len(q) \in Nat /\ J \in Nat
  BY Places DEF IsOrder
<1>2. /\ IsOrder(r) /\ Len(r) = Len(q) - 1
      /\ \A i \in 1 .. Len(q) - 1 : r[i] = IF i < J THEN q[i] ELSE q[i + 1]
  BY <1>1, RemovedPlaces, Removed
<1> HIDE DEF r
<1>3. \A i \in 1 .. Len(q) - 1 : \/ i < J /\ i \in 1 .. Len(q) /\ i # J /\ r[i] = q[i]
                                 \/ ~ (i < J) /\ i + 1 \in 1 .. Len(q) /\ i + 1 # J /\ r[i] = q[i + 1]
  BY <1>1, <1>2
<1>4. /\ a \in Seq(Entry) /\ Len(a) = Len(q)
      /\ \A i \in 1 .. Len(q) : a[i] \in Entry /\ a[i].timer = node[q[i]].data
                                /\ a[i].left = node[q[i]].priority
  BY <1>0, EntriesAre
<1>5. ASSUME NEW i \in 1 .. Len(r)
      PROVE  m[r[i]].data \in Timers \cup {NULL} /\ m[r[i]].priority \in Int
  <2>1. PICK k \in 1 .. Len(q) : k # J /\ r[i] = q[k]
    BY <1>2, <1>3
  <2>2. m[q[k]].data = node[q[k]].data /\ m[q[k]].priority = node[q[k]].priority
    BY <1>0, <2>1
  <2>3. node[q[k]].data \in Timers \cup {NULL} /\ node[q[k]].priority \in Int
    BY <1>0
  <2> QED
    BY ONLY <2>1, <2>2, <2>3
<1>6. /\ b \in Seq(Entry) /\ Len(b) = Len(r)
      /\ \A i \in 1 .. Len(r) : b[i] \in Entry /\ b[i].timer = m[r[i]].data
                                /\ b[i].left = m[r[i]].priority
  BY <1>2, <1>5, EntriesAre, SMTT(30)
<1> HIDE DEF a, b
<1>7. /\ c \in Seq(Entry) /\ Len(c) = Len(q) - 1
      /\ \A i \in 1 .. Len(q) - 1 : c[i] = IF i < J THEN a[i] ELSE a[i + 1]
  <2>1. J \in 1 .. Len(a)
    BY <1>4
  <2>2. /\ c \in Seq(Entry) /\ Len(c) = Len(a) - 1
        /\ \A i \in 1 .. Len(a) - 1 : c[i] = IF i < J THEN a[i] ELSE a[i + 1]
    BY ONLY <1>4, <2>1, Removed
  <2> QED
    BY ONLY <1>4, <2>2
<1> HIDE DEF c
<1>8. ASSUME NEW i \in 1 .. Len(q) - 1 PROVE b[i] = c[i]
  <2>1. b[i] \in Entry /\ b[i].timer = m[r[i]].data /\ b[i].left = m[r[i]].priority
    BY <1>2, <1>6
  <2>2. CASE i < J /\ i \in 1 .. Len(q) /\ i # J /\ r[i] = q[i]
    <3>1. c[i] = a[i]
      BY <1>7, <2>2
    <3>2. a[i] \in Entry /\ a[i].timer = b[i].timer /\ a[i].left = b[i].left
      BY <1>0, <1>4, <2>1, <2>2
    <3> QED
      BY <2>1, <3>1, <3>2, SameEntries
  <2>3. CASE ~ (i < J) /\ i + 1 \in 1 .. Len(q) /\ i + 1 # J /\ r[i] = q[i + 1]
    <3>1. c[i] = a[i + 1]
      BY <1>7, <2>3
    <3>2. a[i + 1] \in Entry /\ a[i + 1].timer = b[i].timer /\ a[i + 1].left = b[i].left
      BY <1>0, <1>4, <2>1, <2>3
    <3> QED
      BY <2>1, <3>1, <3>2, SameEntries
  <2> QED
    BY <1>3, <2>2, <2>3
<1>9. b = c
  BY <1>2, <1>6, <1>7, <1>8, SameSequences
<1> QED
  BY <1>9 DEF b, c, a, r

(* The entries are those of the nodes in the order only.                   *)
LEMMA EntriesSame ==
  ASSUME NEW q, IsOrder(q), NEW node, NEW m,
         \A i \in 1 .. Len(q) : m[q[i]].data = node[q[i]].data /\ m[q[i]].priority = node[q[i]].priority
  PROVE  Entries(q, m) = Entries(q, node)
<1>1. DOMAIN q = 1 .. Len(q)
  BY Places
<1> QED
  BY <1>1 DEF Entries

(* The queue is what the order stands for.                                 *)
LEMMA ListedIs == Listed = Entries(Order, list.node)
BY DEF Listed, Entries, Priority

(* The queue after a step that leads to the order r.                       *)
LEMMA ListedNext ==
  ASSUME NEW r, Order' = r
  PROVE  Listed' = Entries(r, list'.node)
BY DEF Listed, Entries, Priority

(* The operators that TimerQueue takes from the community modules are the  *)
(* same there.                                                             *)
LEMMA QueueOps ==
  /\ \A s, i, e : Queue!InsertAt(s, i, e) = InsertAt(s, i, e)
  /\ \A s, i : Queue!RemoveAt(s, i) = RemoveAt(s, i)
BY DEF Queue!InsertAt, InsertAt, Queue!RemoveAt, RemoveAt

(* Every node in the order has a timer and a time.                         *)
LEMMA FieldsOf ==
  ASSUME NEW q, Holds(q)
  PROVE  \A i \in 1 .. Len(q) : /\ list.node[q[i]].data \in Timers \cup {NULL}
                                /\ list.node[q[i]].priority \in Int /\ q[i] \in Nodes /\ q[i] \in Cells
<1>1. FiledFacts(q, list.node, nodes, left, firing)
  BY Filed DEF Holds
<1> QED
  BY <1>1, Addresses DEF FiledFacts

(* After any step the queue is in the order of the time left.              *)
LEMMA SortedNext ==
  ASSUME Inv', NEW r, Order' = r, NEW e, e = Entries(r, list'.node)
  PROVE  Queue!Sorted(e)
<1>1. IsOrder(r) /\ Files(r, list'.node, nodes', left', firing')
  BY DEF Inv, Files
<1>2. FiledFacts(r, list'.node, nodes', left', firing')
  BY <1>1, Filed
<1>3. \A i \in 1 .. Len(r) : /\ list'.node[r[i]].data \in Timers \cup {NULL}
                             /\ list'.node[r[i]].priority \in Int
  BY <1>2 DEF FiledFacts
<1>4. /\ DOMAIN e = 1 .. Len(r)
      /\ \A i \in 1 .. Len(r) : e[i].left = list'.node[r[i]].priority
  BY <1>1, <1>3, EntriesAre
<1> QED
  BY <1>1, <1>4 DEF Queue!Sorted, Files

(* A creation is a creation in the queue.                                  *)
LEMMA CreateQueues ==
  ASSUME Inv, Inv', NEW timeout \in Timeouts, NEW J, NEW n, NEW t,
         Created(Order, J, n, t, timeout)
  PROVE  t \in Timers /\ Queue!Create(t, timeout)
<1> DEFINE q == Order
           a == Entries(q, list.node)
           new == [timer |-> t, left |-> timeout]
           r == InsertAt(q, J, n)
           b == Entries(r, list'.node)
<1>1. Holds(q) /\ Created(q, J, n, t, timeout) /\ Listed = a
  BY InvHolds, ListedIs
<1>2. Order' = r
  BY <1>1, CreateKeeps
<1>3. Listed' = b
  BY <1>2, ListedNext
<1>4. Queue!Sorted(b)
  BY <1>2, SortedNext
<1> HIDE DEF q
<1>5. /\ IsOrder(q) /\ FiledFacts(q, list.node, nodes, left, firing) /\ Len(q) \in Nat
  BY <1>1, Filed DEF Holds
<1>6. /\ J \in 1 .. Len(q) + 1 /\ n \in Nodes \ nodes /\ t \in Timers \ Allocated
      /\ timeout \in Int
      /\ \A c \in Cells :
           /\ list'.node[c].priority = IF c = n THEN timeout ELSE list.node[c].priority
           /\ list'.node[c].data = IF c = n THEN t ELSE list.node[c].data
  BY <1>1 DEF Created
<1>7. \A i \in 1 .. Len(q) : q[i] # n /\ list.node[q[i]].data # t
  BY <1>5, <1>6 DEF FiledFacts, Allocated
<1>8. b = InsertAt(a, J, new)
  <2>1. \A i \in 1 .. Len(q) : /\ list.node[q[i]].data \in Timers \cup {NULL}
                               /\ list.node[q[i]].priority \in Int
                               /\ list'.node[q[i]].data = list.node[q[i]].data
                               /\ list'.node[q[i]].priority = list.node[q[i]].priority
    BY <1>1, <1>6, <1>7, FieldsOf
  <2>2. list'.node[n].data = t /\ list'.node[n].priority = timeout
    BY <1>6, Addresses
  <2> DEFINE m == list'.node
  <2>3. /\ IsOrder(q) /\ J \in 1 .. Len(q) + 1 /\ n \in Nodes /\ t \in Timers /\ timeout \in Int
        /\ \A i \in 1 .. Len(q) : q[i] # n
        /\ \A i \in 1 .. Len(q) : /\ list.node[q[i]].data \in Timers \cup {NULL}
                                  /\ list.node[q[i]].priority \in Int
                                  /\ m[q[i]].data = list.node[q[i]].data
                                  /\ m[q[i]].priority = list.node[q[i]].priority
        /\ m[n].data = t /\ m[n].priority = timeout
    BY <1>5, <1>6, <1>7, <2>1, <2>2
  <2> HIDE DEF m
  <2>4. Entries(InsertAt(q, J, n), m) =
          InsertAt(Entries(q, list.node), J, [timer |-> t, left |-> timeout])
    BY ONLY <2>3, EntriesInserted
  <2> QED
    BY ONLY <2>4 DEF m, a, b, r, new
<1>9. /\ DOMAIN a = 1 .. Len(q) /\ Len(a) = Len(q)
      /\ \A i \in 1 .. Len(q) : a[i].timer = list.node[q[i]].data
  BY <1>1, <1>5, FieldsOf, EntriesAre
<1> HIDE DEF a, b
<1>10. \A i \in DOMAIN a : a[i].timer # t
  BY <1>7, <1>9
<1>11. b \in {p \in {Queue!InsertAt(a, i, new) : i \in 1 .. Len(a) + 1} : Queue!Sorted(p)}
  BY <1>4, <1>6, <1>8, <1>9, QueueOps
<1> QED
  BY <1>1, <1>3, <1>6, <1>10, <1>11 DEF Queue!Create

(* A deletion is a deletion in the queue.                                  *)
LEMMA DeleteQueues ==
  ASSUME Inv, NEW t \in Timers, NEW J, Deleted(Order, J, t)
  PROVE  Queue!Delete(t)
<1> DEFINE q == Order
           a == Entries(q, list.node)
           r == RemoveAt(q, J)
           b == Entries(r, list'.node)
<1>1. Holds(q) /\ Deleted(q, J, t) /\ Listed = a
  BY InvHolds, ListedIs
<1>2. Order' = r
  BY <1>1, DeleteKeeps
<1>3. Listed' = b
  BY <1>2, ListedNext
<1> HIDE DEF q
<1>5. IsOrder(q)
  BY <1>1 DEF Holds
<1>6. /\ J \in 1 .. Len(q) /\ list.node[q[J]].data = t
      /\ \A c \in Cells :
           /\ list'.node[c].priority = IF c = q[J] THEN 0 ELSE list.node[c].priority
           /\ list'.node[c].data = IF c = q[J] THEN NULL ELSE list.node[c].data
  BY <1>1 DEF Deleted
<1>7. \A i \in 1 .. Len(q) : i # J => q[i] # q[J]
  BY <1>5, <1>6 DEF IsOrder
<1>8. b = RemoveAt(a, J)
  <2>1. \A i \in 1 .. Len(q) : i # J => /\ list'.node[q[i]].data = list.node[q[i]].data
                                        /\ list'.node[q[i]].priority = list.node[q[i]].priority
    BY <1>1, <1>6, <1>7, FieldsOf
  <2>2. \A i \in 1 .. Len(q) : /\ list.node[q[i]].data \in Timers \cup {NULL}
                               /\ list.node[q[i]].priority \in Int
    BY <1>1, FieldsOf
  <2>3. SameEntriesBut(q, J, list.node, list'.node)
    BY <2>1, <2>2 DEF SameEntriesBut
  <2> DEFINE m == list'.node
             o == list.node
  <2> HIDE DEF m, o
  <2>5. IsOrder(q) /\ J \in 1 .. Len(q) /\ SameEntriesBut(q, J, o, m)
    BY ONLY <1>5, <1>6, <2>3 DEF m, o
  <2>4. Entries(RemoveAt(q, J), m) = RemoveAt(Entries(q, o), J)
    BY ONLY <2>5, EntriesRemoved
  <2> QED
    BY ONLY <2>4 DEF m, o, a, b, r
<1>9. DOMAIN a = 1 .. Len(q) /\ \A i \in 1 .. Len(q) : a[i].timer = list.node[q[i]].data
  BY <1>1, <1>5, FieldsOf, EntriesAre
<1> HIDE DEF a, b
<1>10. J \in DOMAIN a /\ a[J].timer = t
  BY <1>6, <1>9
<1> QED
  BY <1>1, <1>3, <1>8, <1>10, QueueOps DEF Queue!Delete

AgedQueue(e) == [i \in DOMAIN e |-> [e[i] EXCEPT !.left = e[i].left - 1]]

(* A tick makes every entry one less.                                      *)
LEMMA AgedEntries ==
  ASSUME NEW q, IsOrder(q), NEW node, NEW m,
         \A i \in 1 .. Len(q) : /\ node[q[i]].data \in Timers \cup {NULL} /\ node[q[i]].priority \in Int
                                /\ m[q[i]].priority = node[q[i]].priority - 1
                                /\ m[q[i]].data = node[q[i]].data
  PROVE  AgedQueue(Entries(q, node)) = Entries(q, m)
<1> DEFINE e == Entries(q, node)
           f == Entries(q, m)
           g == AgedQueue(e)
<1>1. /\ DOMAIN e = 1 .. Len(q)
      /\ \A i \in 1 .. Len(q) : e[i] \in Entry /\ e[i].timer = node[q[i]].data
                                /\ e[i].left = node[q[i]].priority
  BY EntriesAre
<1>2. /\ f \in Seq(Entry) /\ Len(f) = Len(q) /\ DOMAIN f = 1 .. Len(q)
      /\ \A i \in 1 .. Len(q) : f[i] \in Entry /\ f[i].timer = m[q[i]].data
                                /\ f[i].left = m[q[i]].priority
  <2>1. \A i \in 1 .. Len(q) : m[q[i]].data \in Timers \cup {NULL} /\ m[q[i]].priority \in Int
    OBVIOUS
  <2> QED
    BY <2>1, EntriesAre
<1>3. ASSUME NEW d \in Entry
      PROVE  /\ [d EXCEPT !.left = d.left - 1] \in Entry
             /\ [d EXCEPT !.left = d.left - 1].timer = d.timer
             /\ [d EXCEPT !.left = d.left - 1].left = d.left - 1
  BY DEF Entry
<1> HIDE DEF e, f
<1> DEFINE one(i) == [e[i] EXCEPT !.left = e[i].left - 1]
<1>4. ASSUME NEW i \in 1 .. Len(q) PROVE one(i) = f[i]
  <2>1. one(i) \in Entry /\ one(i).timer = e[i].timer /\ one(i).left = e[i].left - 1
    BY <1>1, <1>3
  <2> HIDE DEF one
  <2>2. one(i).timer = f[i].timer /\ one(i).left = f[i].left /\ f[i] \in Entry
    BY <1>1, <1>2, <2>1
  <2> QED
    BY <2>1, <2>2, SameEntries
<1>5. g = [i \in 1 .. Len(q) |-> one(i)]
  BY <1>1 DEF AgedQueue
<1> HIDE DEF g, one
<1>6. g = [i \in 1 .. Len(q) |-> f[i]]
  BY <1>4, <1>5
<1>7. f = [i \in 1 .. Len(q) |-> f[i]]
  BY <1>2
<1>8. g = f
  BY <1>6, <1>7
<1> QED
  BY <1>8 DEF g, e, f

(* The tail is what is left without the first.                             *)
LEMMA TailIs ==
  ASSUME NEW S, NEW e \in Seq(S), e # <<>>
  PROVE  Tail(e) = RemoveAt(e, 1) /\ Head(e) = e[1]
<1>1. 1 \in 1 .. Len(e) /\ Len(e) \in Nat
  OBVIOUS
<1> DEFINE r == RemoveAt(e, 1)
           t == Tail(e)
<1>2. r \in Seq(S) /\ Len(r) = Len(e) - 1
      /\ \A i \in 1 .. Len(e) - 1 : r[i] = IF i < 1 THEN e[i] ELSE e[i + 1]
  BY <1>1, Removed
<1>3. t \in Seq(S) /\ Len(t) = Len(e) - 1 /\ \A i \in 1 .. Len(e) - 1 : t[i] = e[i + 1]
  OBVIOUS
<1> HIDE DEF r, t
<1>4. \A i \in 1 .. Len(r) : t[i] = r[i]
  <2>1. \A i \in 1 .. Len(e) - 1 : ~ (i < 1)
    BY <1>1
  <2> QED
    BY <1>2, <1>3, <2>1
<1>5. t = r
  BY <1>2, <1>3, <1>4, SameSequences
<1> QED
  BY <1>5 DEF t, r

(* A tick is a tick of the queue, which fires the same timer or none.      *)
LEMMA TickQueues ==
  ASSUME Inv, Fired(Order) \/ Passed(Order)
  PROVE  Queue!Tick
<1> DEFINE q == Order
           a == Entries(q, list.node)
           m == list'.node
           e == Entries(q, m)
<1>1. Holds(q) /\ (Fired(q) \/ Passed(q)) /\ Listed = a
  BY InvHolds, ListedIs
<1>2. /\ \A i \in 1 .. Len(q) : /\ list'.node[q[i]].priority = list.node[q[i]].priority - 1
                                /\ list'.node[q[i]].data = list.node[q[i]].data
      /\ Fired(q) => Order' = RemoveAt(q, 1)
      /\ Passed(q) => Order' = q
  <2> HIDE DEF q
  <2>1. CASE Fired(q)
    <3>1. /\ Order' = RemoveAt(q, 1)
          /\ \A i \in 1 .. Len(q) : /\ list'.node[q[i]].priority = list.node[q[i]].priority - 1
                                    /\ list'.node[q[i]].data = list.node[q[i]].data
      BY ONLY <1>1, <2>1, FiredKeeps
    <3>2. ~ Passed(q)
      BY <2>1 DEF Fired, Passed
    <3> QED
      BY <3>1, <3>2
  <2>2. CASE Passed(q)
    <3>1. /\ Order' = q
          /\ \A i \in 1 .. Len(q) : /\ list'.node[q[i]].priority = list.node[q[i]].priority - 1
                                    /\ list'.node[q[i]].data = list.node[q[i]].data
      BY ONLY <1>1, <2>2, PassedKeeps
    <3>2. ~ Fired(q)
      BY <2>2 DEF Fired, Passed
    <3> QED
      BY <3>1, <3>2
  <2> QED
    BY <1>1, <2>1, <2>2
<1>3. /\ Fired(q) => Listed' = Entries(RemoveAt(q, 1), m)
      /\ Passed(q) => Listed' = e
  BY <1>2, ListedNext
<1> HIDE DEF q
<1>4. /\ IsOrder(q) /\ Len(q) \in Nat /\ FiledFacts(q, list.node, nodes, left, firing)
      /\ \A i \in 1 .. Len(q) : /\ list.node[q[i]].data \in Timers \cup {NULL}
                                /\ list.node[q[i]].priority \in Int
  BY <1>1, Filed, FieldsOf DEF Holds
<1>5. \A i \in 1 .. Len(q) : /\ m[q[i]].priority = list.node[q[i]].priority - 1
                             /\ m[q[i]].data = list.node[q[i]].data
  BY <1>2
<1> HIDE DEF m
<1>6. AgedQueue(a) = e
  BY ONLY <1>4, <1>5, AgedEntries
<1>7. \A i \in 1 .. Len(q) : m[q[i]].data \in Timers \cup {NULL} /\ m[q[i]].priority \in Int
  BY <1>4, <1>5
<1>8. /\ e \in Seq(Entry) /\ Len(e) = Len(q)
      /\ \A i \in 1 .. Len(q) : e[i].left = m[q[i]].priority
  BY ONLY <1>4, <1>7, EntriesAre
<1> HIDE DEF a
<1>9. Listed' = IF e # <<>> /\ Head(e).left <= 0 THEN Tail(e) ELSE e
  <2>1. ASSUME 1 \in 1 .. Len(q)
        PROVE  /\ e # <<>> /\ Head(e) = e[1] /\ Tail(e) = RemoveAt(e, 1)
               /\ tick /\ phase = "idle" => Head(e).left = left'[list.node[q[1]].data]
    <3> HIDE DEF e
    <3>1. e # <<>>
      BY <1>4, <1>8, <2>1
    <3>2. Head(e) = e[1] /\ Tail(e) = RemoveAt(e, 1)
      BY <1>8, <3>1, TailIs
    <3>3. ASSUME tick, phase = "idle" PROVE e[1].left = left'[list.node[q[1]].data]
      <4>1. /\ list.node[q[1]].data \in DOMAIN left
            /\ list.node[q[1]].priority = left[list.node[q[1]].data]
        BY <1>4, <2>1 DEF FiledFacts
      <4>2. left'[list.node[q[1]].data] = left[list.node[q[1]].data] - 1
        BY ONLY <1>1, <3>3, <4>1, TickTimes
      <4> QED
        BY <1>5, <1>8, <2>1, <4>1, <4>2
    <3> QED
      BY <3>1, <3>2, <3>3
  <2>2. CASE Fired(q)
    <3>1. 1 \in 1 .. Len(q) /\ tick /\ phase = "idle" /\ left'[list.node[q[1]].data] <= 0
      BY <2>2 DEF Fired
    <3>2. e # <<>> /\ Head(e).left <= 0 /\ Tail(e) = RemoveAt(e, 1)
      BY ONLY <2>1, <3>1
    <3>3. Entries(RemoveAt(q, 1), m) = RemoveAt(Entries(q, m), 1)
      <4>1. \A i \in 1 .. Len(q) : i # 1 => /\ m[q[i]].data = m[q[i]].data
                                            /\ m[q[i]].priority = m[q[i]].priority
        OBVIOUS
      <4>2. SameEntriesBut(q, 1, m, m)
        BY ONLY <1>4, <1>7, <4>1 DEF SameEntriesBut
      <4> QED
        BY ONLY <1>4, <1>7, <3>1, <4>2, EntriesRemoved
    <3>4. Listed' = RemoveAt(e, 1)
      BY <1>3, <2>2, <3>3
    <3> HIDE DEF e
    <3> QED
      BY ONLY <3>2, <3>4
  <2>3. CASE Passed(q)
    <3>1. tick /\ phase = "idle" /\ (Len(q) = 0 \/ left'[list.node[q[1]].data] > 0)
      BY <2>3 DEF Passed
    <3>2. Listed' = e
      BY <1>3, <2>3
    <3>3. ~ (e # <<>> /\ Head(e).left <= 0)
      <4>1. CASE Len(q) = 0
        <5> HIDE DEF e
        <5> QED
          BY <1>8, <4>1
      <4>2. CASE Len(q) # 0
        <5>1. 1 \in 1 .. Len(q)
          BY <1>4, <4>2
        <5>2. Head(e).left = left'[list.node[q[1]].data] /\ Head(e) = e[1]
          BY ONLY <2>1, <3>1, <5>1
        <5>3. e[1].left \in Int
          BY ONLY <1>7, <1>8, <5>1
        <5> HIDE DEF e
        <5> QED
          BY ONLY <3>1, <4>2, <5>2, <5>3
      <4> QED
        BY <4>1, <4>2
    <3> HIDE DEF e
    <3> QED
      BY ONLY <3>2, <3>3
  <2> QED
    BY <1>1, <2>2, <2>3
<1> HIDE DEF e
<1>10. e = AgedQueue(Listed)
  BY <1>1, <1>6
<1> QED
  BY ONLY <1>9, <1>10 DEF Queue!Tick, AgedQueue

(* Both lists start as the empty queue.                                    *)
LEMMA InitQueues == Init => Queue!Init
<1> SUFFICES ASSUME Init PROVE Queue!Init
  OBVIOUS
<1>1. Inv /\ build \in Builds /\ list = IF build = "list" THEN list_init ELSE skip_list_init
  BY InitInv DEF Init
<1>2. IsLinked(build, list, <<>>)
  BY <1>1, ListInitShape, SkipInitShape DEF IsLinked
<1>3. Order = <<>>
  <2>1. Len(<<>>) <= MaxNodes
    BY EmptyPlaces, Addresses
  <2> QED
    BY <1>2, <2>1, EmptyPlaces, OrderFor DEF Order
<1> DEFINE e == Entries(<<>>, list.node)
<1>4. \A i \in 1 .. Len(<<>>) : FALSE
  BY EmptyPlaces
<1>5. e \in Seq(Entry) /\ Len(e) = 0
  BY <1>4, EmptyPlaces, EntriesAre
<1>6. Listed = e
  BY <1>3, ListedIs
<1> HIDE DEF e
<1>7. Listed = <<>>
  BY <1>5, <1>6
<1> QED
  BY <1>7 DEF Queue!Init

(* Every step is a step of the queue or invisible to it.                   *)
LEMMA StepQueues == Inv /\ Inv' /\ [Next]_vars => [Queue!Next]_Listed
<1> SUFFICES ASSUME Inv, Inv', [Next]_vars PROVE Queue!Next \/ Listed' = Listed
  OBVIOUS
<1>1. Holds(Order) /\ StepShape
  BY InvHolds, StepCases
<1>2. CASE \E timeout \in Timeouts : \E J, n, t : Created(Order, J, n, t, timeout)
  <2>1. \E t \in Timers, timeout \in Timeouts : Queue!Create(t, timeout)
    BY <1>2, CreateQueues
  <2> QED
    BY <2>1 DEF Queue!Next
<1>3. CASE \E t \in Timers : \E J : Deleted(Order, J, t)
  <2>1. \E t \in Timers : Queue!Delete(t)
    BY <1>3, DeleteQueues
  <2> QED
    BY <2>1 DEF Queue!Next
<1>4. CASE Fired(Order) \/ Passed(Order)
  <2>1. Queue!Tick
    BY <1>4, TickQueues
  <2> QED
    BY <2>1 DEF Queue!Next
<1>5. CASE handler_returns
  <2> DEFINE q == Order
  <2>1. /\ Holds(q) /\ Order' = q /\ Listed = Entries(q, list.node)
        /\ \A i \in 1 .. Len(q) : /\ list'.node[q[i]].priority = list.node[q[i]].priority
                                  /\ list'.node[q[i]].data = list.node[q[i]].data
    BY <1>1, <1>5, ReturnKeeps, ListedIs
  <2>2. Listed' = Entries(q, list'.node)
    BY <2>1, ListedNext
  <2> HIDE DEF q
  <2>3. IsOrder(q)
    BY <2>1 DEF Holds
  <2>4. Entries(q, list'.node) = Entries(q, list.node)
    BY <2>1, <2>3, EntriesSame
  <2> QED
    BY <2>1, <2>2, <2>4
<1>6. CASE UNCHANGED <<build, list, nodes, left, firing>>
  <2>1. Order' = Order
    BY <1>6 DEF Order, InOrder, SkipOrder
  <2> QED
    BY <1>6, <2>1 DEF Listed, Priority
<1> QED
  BY <1>1, <1>2, <1>3, <1>4, <1>5, <1>6 DEF StepShape

-----------------------------------------------------------------------------
(* The theorems.                                                           *)

(* Types: every pointer is null or the address of a cell, every level is   *)
(* one.                                                                    *)
THEOREM ListTimerTypeCorrect == Spec => []TypeOK
BY ListTimerInvariant, InvTypeOK, PTL

(* Through any sequence of creations, deletions and ticks the list stays   *)
(* sorted and its links agree: list.c reads the same from either end, and  *)
(* each level of skip_list.c is the nodes of the one below that reach it.  *)
THEOREM ListsKeepTheirShape == Spec => []ListKeepsShape
BY ListTimerInvariant, InvKeepsShape, PTL

(* Every timer that is allocated is in the list once, with its time, but   *)
(* for the one that a tick has taken off and not freed yet; tasks and      *)
(* ticks leak no block, free none twice and link none that is free, and    *)
(* destroying the list would free every node.                              *)
THEOREM BlocksAreAlwaysListed == Spec => []BlocksAreListed
BY ListTimerInvariant, InvBlocks, PTL

(* skip_list_delete2 succeeds for the nodes of the level of the list, and  *)
(* for no other (skip_list.c:167).                                         *)
THEOREM OnlyTallestAreDeleted == Spec => []OnlyTallestDeleted
BY ListTimerInvariant, InvTallest, PTL

(* skip_list_search and skip_list_delete find the first of the nodes of a  *)
(* priority, and skip_list_insert2 puts it back where it was.              *)
THEOREM FirstOfEqualsIsFound == Spec => []FirstOfEquals
BY ListTimerInvariant, InvFirstOfEquals, PTL

(* Both builds implement the sorted queue of which a tick fires the first  *)
(* timer if it is due: pointer by pointer they are the same to callers.    *)
THEOREM ListsImplementTimerQueue == Spec => ImplementsTimerQueue
<1>1. Init /\ [][Next]_vars /\ []Inv => Queue!Init /\ [][Queue!Next]_Listed
  BY InitQueues, StepQueues, PTL
<1> QED
  BY <1>1, ListTimerInvariant, PTL DEF Spec, ImplementsTimerQueue, Queue!Spec
=============================================================================
