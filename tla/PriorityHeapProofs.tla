------------------------- MODULE PriorityHeapProofs -------------------------
(***************************************************************************)
(* Proofs about the heap of bits/priority_heap.c for every set of job      *)
(* indices and of priorities: the array stays ordered (HeapOrdered) and    *)
(* implements the set of nodes that the schedulers work with (HeapSpec).   *)
(*                                                                         *)
(* The two loops are recursive functions over rounds.  UpLoop and DownLoop *)
(* say of them what one says of a while loop: a set of loop states that    *)
(* contains the first one and is closed under a round contains the last    *)
(* one, and the last one is a state in which the loop stops.  Everything   *)
(* else is a loop invariant: AlmostUp and AlmostDown (ordered except at    *)
(* the moving node), and, for the cleanup, which positions may change.     *)
(***************************************************************************)
EXTENDS PriorityHeap, FiniteSetTheorems, WellFoundedInduction, TLAPS

----------------------------------------------------------------------------
(* Rounds of a loop. *)

LEMMA Smallest ==
    ASSUME NEW S \in SUBSET Nat, S # {}
    PROVE  \E m \in S : \A k \in S : m <= k
  <1> DEFINE R == OpToRel(<, Nat)
  <1>1. IsWellFoundedOn(R, Nat) /\ \A x, y \in Nat : y < x => <<y, x>> \in R
    BY NatLessThanWellFounded DEF OpToRel
  <1> HIDE DEF R
  <1>2. PICK m \in S : \A k \in S : ~(<<k, m>> \in R)
    BY <1>1, WFMin
  <1>3. ASSUME NEW k \in S
        PROVE  m <= k
    <2>1. m \in Nat /\ k \in Nat /\ ~(k < m)
      BY <1>1, <1>2
    <2> QED
      BY <2>1
  <1> QED
    BY <1>3

\* A set that contains 0 and, with each number before n, the next one,
\* contains the numbers up to n.
LEMMA Counting ==
    ASSUME NEW S, NEW n \in Nat,
           0 \in S,
           \A k \in 1 .. n : k - 1 \in S => k \in S
    PROVE  \A k \in 0 .. n : k \in S
  <1> SUFFICES ASSUME NEW j \in 0 .. n, j \notin S
               PROVE  FALSE
    OBVIOUS
  <1> DEFINE missing == {k \in 0 .. n : k \notin S}
  <1>1. missing \in SUBSET Nat /\ missing # {}
    OBVIOUS
  <1> HIDE DEF missing
  <1>2. PICK m \in missing : \A k \in missing : m <= k
    BY <1>1, Smallest
  <1>3. m \in 0 .. n /\ m \notin S
    BY <1>2 DEF missing
  <1>4. m # 0
    BY <1>3
  <1>5. m \in 1 .. n /\ m - 1 \in 0 .. n /\ ~(m <= m - 1)
    BY <1>3, <1>4
  <1>6. m - 1 \in S
    BY <1>2, <1>5 DEF missing
  <1> QED
    BY <1>3, <1>5, <1>6

\* n rounds of a step from x.
HasRounds(D, step, x, n) ==
    \E f \in [0 .. n -> D] : /\ f[0] = x
                             /\ \A k \in 1 .. n : f[k] = step[f[k - 1]]

LEMMA RoundsExist ==
    ASSUME NEW D, NEW step \in [D -> D], NEW x \in D, NEW n \in Nat
    PROVE  HasRounds(D, step, x, n)
  <1> DEFINE Good(m) == \E f \in [0 .. m -> D] :
                           /\ f[0] = x
                           /\ \A k \in 1 .. m : f[k] = step[f[k - 1]]
             S == {m \in 0 .. n : Good(m)}
  <1>1. 0 \in S
    <2> DEFINE f == [k \in 0 .. 0 |-> x]
    <2>1. f \in [0 .. 0 -> D]
      OBVIOUS
    <2>2. f[0] = x
      OBVIOUS
    <2>3. \A k \in 1 .. 0 : f[k] = step[f[k - 1]]
      OBVIOUS
    <2> HIDE DEF f
    <2>4. Good(0)
      BY <2>1, <2>2, <2>3
    <2> QED
      BY <2>4
  <1>2. ASSUME NEW m \in 1 .. n, m - 1 \in S
        PROVE  m \in S
    <2>1. PICK f \in [0 .. m - 1 -> D] :
             f[0] = x /\ \A k \in 1 .. m - 1 : f[k] = step[f[k - 1]]
      BY <1>2
    <2> DEFINE g == [k \in 0 .. m |-> IF k = m THEN step[f[m - 1]] ELSE f[k]]
    <2>2. m - 1 \in 0 .. m - 1 /\ step[f[m - 1]] \in D
      OBVIOUS
    <2>3. g \in [0 .. m -> D]
      <3>1. ASSUME NEW k \in 0 .. m, k # m
            PROVE  f[k] \in D
        <4>1. k \in 0 .. m - 1
          BY <3>1
        <4> QED
          BY <4>1
      <3> QED
        BY <2>2, <3>1
    <2>4. g[0] = x
      BY <2>1
    <2>5. ASSUME NEW k \in 1 .. m
          PROVE  g[k] = step[g[k - 1]]
      <3>1. g[k - 1] = f[k - 1]
        OBVIOUS
      <3>2. CASE k = m
        BY <3>1, <3>2
      <3>3. CASE k # m
        <4>1. k \in 1 .. m - 1
          BY <3>3
        <4>2. g[k] = f[k]
          BY <3>3
        <4> QED
          BY <2>1, <3>1, <4>1, <4>2
      <3> QED
        BY <3>2, <3>3
    <2> HIDE DEF g
    <2>6. Good(m)
      BY <2>3, <2>4, <2>5
    <2> QED
      BY <2>6
  <1> HIDE DEF S
  <1>3. n \in S
    <2>1. \A k \in 0 .. n : k \in S
      BY <1>1, <1>2, Counting
    <2> QED
      BY <2>1
  <1> QED
    BY <1>3 DEF S, HasRounds

----------------------------------------------------------------------------
(* Positions and nodes. *)

\* A node while it is being removed has the greatest priority.
Boosted == [elem : Elems, priority : Priorities \cup {MaxPriority}]

LEMMA PriorityTypes ==
    /\ Priorities \cup {MaxPriority} \subseteq Nat
    /\ Nodes \subseteq Boosted
    /\ \A n \in Boosted : n.priority \in Nat /\ n.priority <= MaxPriority
    /\ \A n \in Nodes : n.priority < MaxPriority
    /\ \A n \in Boosted : n.priority # MaxPriority => n \in Nodes
  <1>1. /\ Priorities \subseteq Nat
        /\ MaxPriority \in Nat
        /\ \A p \in Priorities : p < MaxPriority
    BY PriorityAssumption
  <1>2. Nodes \subseteq Boosted
    BY DEF Nodes, Boosted
  <1>3. ASSUME NEW n \in Boosted
        PROVE  n.priority \in Nat /\ n.priority <= MaxPriority
    <2>1. n.priority \in Priorities \/ n.priority = MaxPriority
      BY DEF Boosted
    <2>2. CASE n.priority \in Priorities
      <3>1. n.priority \in Nat /\ n.priority < MaxPriority
        BY <1>1, <2>2
      <3> QED
        BY <1>1, <3>1
    <2>3. CASE n.priority = MaxPriority
      BY <1>1, <2>3
    <2> QED
      BY <2>1, <2>2, <2>3
  <1>4. ASSUME NEW n \in Nodes
        PROVE  n.priority < MaxPriority
    BY <1>1 DEF Nodes
  <1>5. ASSUME NEW n \in Boosted, n.priority # MaxPriority
        PROVE  n \in Nodes
    BY <1>5 DEF Boosted, Nodes
  <1> QED
    BY <1>1, <1>2, <1>3, <1>4, <1>5

LEMMA ParentFacts ==
    ASSUME NEW p \in Nat, p # 0
    PROVE  /\ Parent(p) \in Nat
           /\ Parent(p) < p
           /\ p = Left(Parent(p)) \/ p = Right(Parent(p))
BY DEF Parent, Left, Right

LEMMA ChildFacts ==
    ASSUME NEW p \in Nat
    PROVE  /\ Left(p) \in Nat /\ Left(p) > p /\ Parent(Left(p)) = p
           /\ Right(p) \in Nat /\ Right(p) > p /\ Parent(Right(p)) = p
BY DEF Parent, Left, Right

LEMMA NodeType ==
    ASSUME NEW h \in Seq(Boosted), NEW p \in 0 .. Len(h) - 1
    PROVE  /\ Node(h, p) \in Boosted
           /\ Node(h, p).priority \in Nat
           /\ Node(h, p).priority <= MaxPriority
  <1>1. p + 1 \in 1 .. Len(h)
    OBVIOUS
  <1>2. Node(h, p) \in Boosted
    BY <1>1 DEF Node
  <1> QED
    BY <1>2, PriorityTypes

\* An exchange, read by positions.
LEMMA SwapFacts ==
    ASSUME NEW N, NEW h \in Seq(N),
           NEW p \in 0 .. Len(h) - 1, NEW q \in 0 .. Len(h) - 1
    PROVE  /\ Swap(h, p, q) \in Seq(N)
           /\ Len(Swap(h, p, q)) = Len(h)
           /\ \A r \in 0 .. Len(h) - 1 :
                 Node(Swap(h, p, q), r) = IF r = p THEN Node(h, q)
                                          ELSE IF r = q THEN Node(h, p)
                                          ELSE Node(h, r)
  <1>1. /\ p + 1 \in 1 .. Len(h) /\ q + 1 \in 1 .. Len(h)
        /\ h \in [1 .. Len(h) -> N] /\ Len(h) \in Nat
    OBVIOUS
  <1>2. h[p + 1] \in N /\ h[q + 1] \in N
    BY <1>1
  <1>3. Swap(h, p, q) \in [1 .. Len(h) -> N]
    BY <1>1, <1>2 DEF Swap, Node
  <1>4. Swap(h, p, q) \in Seq(N) /\ Len(Swap(h, p, q)) = Len(h)
    BY <1>1, <1>3
  <1>5. ASSUME NEW r \in 0 .. Len(h) - 1
        PROVE  Node(Swap(h, p, q), r) = IF r = p THEN Node(h, q)
                                        ELSE IF r = q THEN Node(h, p)
                                        ELSE Node(h, r)
    BY <1>1 DEF Swap, Node
  <1> QED
    BY <1>4, <1>5

Exchanged(h, p, q, g) ==
    /\ g \in Seq(Boosted) /\ Len(g) = Len(h)
    /\ \A k \in 0 .. Len(h) - 1 :
          Node(g, k) = IF k = p THEN Node(h, q)
                       ELSE IF k = q THEN Node(h, p)
                       ELSE Node(h, k)

LEMMA SwapTwo ==
    ASSUME NEW h \in Seq(Boosted),
           NEW p \in 0 .. Len(h) - 1, NEW q \in 0 .. Len(h) - 1
    PROVE  Exchanged(h, p, q, Swap(h, p, q))
BY SwapFacts DEF Exchanged

\* The nodes from a position on, by position.
LEMMA NodesByPosition ==
    ASSUME NEW h, Len(h) \in Nat, NEW p \in Nat
    PROVE  \A n : n \in NodesFrom(h, p) <=> \E r \in p .. Len(h) - 1 : n = Node(h, r)
  <1>1. ASSUME NEW k \in p + 1 .. Len(h)
        PROVE  k - 1 \in p .. Len(h) - 1 /\ h[k] = Node(h, k - 1)
    BY DEF Node
  <1>2. ASSUME NEW r \in p .. Len(h) - 1
        PROVE  r + 1 \in p + 1 .. Len(h) /\ h[r + 1] = Node(h, r)
    BY DEF Node
  <1> QED
    BY <1>1, <1>2 DEF NodesFrom

\* No job index is in the array twice.
Distinct(h) ==
    \A p, q \in 0 .. Len(h) - 1 : Node(h, p).elem = Node(h, q).elem => p = q

\* An exchange of two nodes from a position on keeps the nodes from there on.
LEMMA SwapKeeps ==
    ASSUME NEW N, NEW h \in Seq(N), NEW j \in Nat,
           NEW p \in j .. Len(h) - 1, NEW q \in j .. Len(h) - 1
    PROVE  NodesFrom(Swap(h, p, q), j) = NodesFrom(h, j)
  <1> DEFINE g == Swap(h, p, q)
  <1>1. p \in 0 .. Len(h) - 1 /\ q \in 0 .. Len(h) - 1 /\ Len(h) \in Nat
    OBVIOUS
  <1>2. /\ Len(g) = Len(h)
        /\ \A r \in 0 .. Len(h) - 1 :
              Node(g, r) = IF r = p THEN Node(h, q)
                           ELSE IF r = q THEN Node(h, p)
                           ELSE Node(h, r)
    BY <1>1, SwapFacts
  <1> HIDE DEF g
  <1>3. ASSUME NEW r \in j .. Len(h) - 1
        PROVE  /\ \E s \in j .. Len(h) - 1 : Node(g, r) = Node(h, s)
               /\ \E s \in j .. Len(h) - 1 : Node(h, r) = Node(g, s)
    <2>1. r \in 0 .. Len(h) - 1
      BY <1>1
    <2> QED
      BY <1>1, <1>2, <2>1
  <1>4. \A n : n \in NodesFrom(g, j) <=> \E r \in j .. Len(h) - 1 : n = Node(g, r)
    BY <1>1, <1>2, NodesByPosition
  <1>5. \A n : n \in NodesFrom(h, j) <=> \E r \in j .. Len(h) - 1 : n = Node(h, r)
    BY <1>1, NodesByPosition
  <1>6. \A n : n \in NodesFrom(g, j) <=> n \in NodesFrom(h, j)
    BY <1>3, <1>4, <1>5
  <1> QED
    BY <1>6 DEF g

LEMMA SwapDistinct ==
    ASSUME NEW N, NEW h \in Seq(N), Distinct(h),
           NEW p \in 0 .. Len(h) - 1, NEW q \in 0 .. Len(h) - 1
    PROVE  Distinct(Swap(h, p, q))
  <1> DEFINE g == Swap(h, p, q)
  <1>1. /\ Len(g) = Len(h)
        /\ \A r \in 0 .. Len(h) - 1 :
              Node(g, r) = IF r = p THEN Node(h, q)
                           ELSE IF r = q THEN Node(h, p)
                           ELSE Node(h, r)
    BY SwapFacts
  <1> HIDE DEF g
  <1>2. Distinct(g)
    BY <1>1 DEF Distinct
  <1> QED
    BY <1>2 DEF g

----------------------------------------------------------------------------
(* The loop of shift_up. *)

\* The states of the two loops.
LoopStates == {x \in [heap : Seq(Boosted), pos : Nat] : x.pos < Len(x.heap)}

LEMMA RiseFacts ==
    ASSUME NEW x \in LoopStates, Rise(x) # x
    PROVE  /\ x.heap \in Seq(Boosted) /\ x.pos \in 1 .. Len(x.heap) - 1
           /\ Parent(x.pos) \in 0 .. Len(x.heap) - 1 /\ Parent(x.pos) < x.pos
           /\ Node(x.heap, Parent(x.pos)).priority < Node(x.heap, x.pos).priority
           /\ Rise(x) = [heap |-> Swap(x.heap, x.pos, Parent(x.pos)),
                         pos |-> Parent(x.pos)]
  <1>1. /\ x.heap \in Seq(Boosted) /\ x.pos \in Nat /\ x.pos < Len(x.heap)
        /\ Len(x.heap) \in Nat
    BY DEF LoopStates
  <1>2. /\ x.pos # 0
        /\ ~(Node(x.heap, x.pos).priority <= Node(x.heap, Parent(x.pos)).priority)
        /\ Rise(x) = [heap |-> Swap(x.heap, x.pos, Parent(x.pos)),
                      pos |-> Parent(x.pos)]
    BY DEF Rise
  <1>3. Parent(x.pos) \in Nat /\ Parent(x.pos) < x.pos
    BY <1>1, <1>2, ParentFacts
  <1>4. x.pos \in 0 .. Len(x.heap) - 1 /\ Parent(x.pos) \in 0 .. Len(x.heap) - 1
    BY <1>1, <1>3
  <1>5. /\ Node(x.heap, x.pos).priority \in Nat
        /\ Node(x.heap, Parent(x.pos)).priority \in Nat
    BY <1>1, <1>4, NodeType
  <1>6. Node(x.heap, Parent(x.pos)).priority < Node(x.heap, x.pos).priority
    BY <1>2, <1>5
  <1> QED
    BY <1>1, <1>2, <1>3, <1>4, <1>6

LEMMA RiseType ==
    ASSUME NEW x \in LoopStates
    PROVE  Rise(x) \in LoopStates
  <1>1. CASE Rise(x) = x
    BY <1>1
  <1>2. CASE Rise(x) # x
    <2>1. /\ x.heap \in Seq(Boosted) /\ x.pos \in 0 .. Len(x.heap) - 1
          /\ Parent(x.pos) \in 0 .. Len(x.heap) - 1
          /\ Rise(x) = [heap |-> Swap(x.heap, x.pos, Parent(x.pos)),
                        pos |-> Parent(x.pos)]
      BY <1>2, RiseFacts
    <2>2. /\ Swap(x.heap, x.pos, Parent(x.pos)) \in Seq(Boosted)
          /\ Len(Swap(x.heap, x.pos, Parent(x.pos))) = Len(x.heap)
      BY <2>1, SwapFacts
    <2> QED
      BY <2>1, <2>2 DEF LoopStates
  <1> QED
    BY <1>1, <1>2

\* The rule for the loop of shift_up: an invariant I that holds of the first
\* state holds of the last one, where the loop has stopped.
LEMMA UpLoop ==
    ASSUME NEW h, NEW p \in Nat,
           NEW I \in SUBSET LoopStates,
           [heap |-> h, pos |-> p] \in I,
           \A x \in I : Rise(x) \in I
    PROVE  \E x \in I : ShiftUp(h, p) = x.heap /\ Rise(x) = x
  <1> DEFINE first == [heap |-> h, pos |-> p]
             step == [x \in I |-> Rise(x)]
             Eq(f) == f = [k \in 0 .. p |-> IF k = 0 THEN first ELSE Rise(f[k - 1])]
             round == CHOOSE f : Eq(f)
  <1>1. step \in [I -> I]
    OBVIOUS
  <1>2. PICK f \in [0 .. p -> I] : /\ f[0] = first
                                   /\ \A k \in 1 .. p : f[k] = step[f[k - 1]]
    <2>1. first \in I
      OBVIOUS
    <2> HIDE DEF first, step
    <2>2. HasRounds(I, step, first, p)
      BY <1>1, <2>1, RoundsExist
    <2> QED
      BY <2>2 DEF HasRounds
  <1>3. \A k \in 0 .. p : f[k] = IF k = 0 THEN first ELSE Rise(f[k - 1])
    <2> TAKE k \in 0 .. p
    <2>1. CASE k = 0
      BY <1>2, <2>1
    <2>2. CASE k # 0
      <3>1. k \in 1 .. p /\ k - 1 \in 0 .. p
        BY <2>2
      <3>2. f[k - 1] \in I
        BY <3>1
      <3>3. step[f[k - 1]] = Rise(f[k - 1])
        BY <3>2
      <3> QED
        BY <1>2, <2>2, <3>1, <3>3
    <2> QED
      BY <2>1, <2>2
  <1>4. Eq(f)
    BY <1>3
  <1>5. Eq(round)
    BY <1>4
  <1>6. ShiftUp(h, p) = round[p].heap
    BY DEF ShiftUp
  <1> HIDE DEF step
  <1>7. /\ round[0] = first
        /\ \A k \in 1 .. p : round[k] = Rise(round[k - 1])
    <2>1. \A k \in 0 .. p : round[k] = IF k = 0 THEN first ELSE Rise(round[k - 1])
      BY <1>5
    <2> HIDE DEF round, first
    <2>2. round[0] = first
      BY <2>1
    <2>3. ASSUME NEW k \in 1 .. p
          PROVE  round[k] = Rise(round[k - 1])
      <3>1. k \in 0 .. p /\ k # 0
        OBVIOUS
      <3> QED
        BY <2>1, <3>1
    <2> QED
      BY <2>2, <2>3
  <1> HIDE DEF round
  <1> DEFINE S == {k \in 0 .. p : /\ round[k] \in I
                                  /\ round[k].pos <= p - k \/ Rise(round[k]) = round[k]}
  <1>8. 0 \in S
    BY <1>7
  <1> HIDE DEF first
  <1>9. ASSUME NEW k \in 1 .. p, k - 1 \in S
        PROVE  k \in S
    <2>1. round[k] = Rise(round[k - 1]) /\ round[k - 1] \in I
      BY <1>7, <1>9
    <2>2. round[k] \in I
      BY <2>1
    <2>3. CASE Rise(round[k - 1]) = round[k - 1]
      <3>1. Rise(round[k]) = round[k]
        BY <2>1, <2>3
      <3> QED
        BY <2>2, <3>1
    <2>4. CASE Rise(round[k - 1]) # round[k - 1]
      <3>1. round[k - 1].pos <= p - (k - 1)
        BY <1>9, <2>4
      <3>2. /\ round[k].pos = Parent(round[k - 1].pos)
            /\ Parent(round[k - 1].pos) \in Nat
            /\ round[k - 1].pos \in Nat
            /\ Parent(round[k - 1].pos) < round[k - 1].pos
        <4>1. round[k - 1] \in LoopStates
          BY <2>1
        <4> DEFINE y == round[k - 1]
        <4> HIDE DEF y
        <4>2. /\ y.heap \in Seq(Boosted) /\ y.pos \in 1 .. Len(y.heap) - 1
              /\ Parent(y.pos) \in 0 .. Len(y.heap) - 1 /\ Parent(y.pos) < y.pos
              /\ Rise(y) = [heap |-> Swap(y.heap, y.pos, Parent(y.pos)),
                            pos |-> Parent(y.pos)]
          BY <2>4, <4>1, RiseFacts DEF y
        <4>3. Rise(y).pos = Parent(y.pos) /\ y.pos \in Nat /\ Parent(y.pos) \in Nat
          BY <4>2
        <4> QED
          BY <2>1, <4>2, <4>3 DEF y
      <3>3. round[k].pos <= p - k
        BY <3>1, <3>2
      <3> QED
        BY <2>2, <3>3
    <2> QED
      BY <2>3, <2>4
  <1> HIDE DEF S
  <1>10. p \in S
    <2>1. \A k \in 0 .. p : k \in S
      BY <1>8, <1>9, Counting
    <2> QED
      BY <2>1
  <1>11. round[p] \in I /\ (round[p].pos <= 0 \/ Rise(round[p]) = round[p])
    BY <1>10 DEF S
  <1>12. Rise(round[p]) = round[p]
    <2>1. ASSUME round[p].pos <= 0
          PROVE  Rise(round[p]) = round[p]
      <3>1. round[p].pos = 0
        BY <1>11, <2>1 DEF LoopStates
      <3> QED
        BY <3>1 DEF Rise
    <2> QED
      BY <1>11, <2>1
  <1> QED
    BY <1>6, <1>11, <1>12

----------------------------------------------------------------------------
(* The loop of shift_down. *)

LEMMA NoChild ==
    ASSUME NEW h, h = <<>>, NEW p \in Nat
    PROVE  LargerChild(h, p) = p
  <1>1. ~(Left(p) < Len(h)) /\ ~(Right(p) < Len(h))
    <2>1. Left(p) \in Nat /\ Right(p) \in Nat /\ Len(h) = 0
      BY ChildFacts
    <2> QED
      BY <2>1
  <1> QED
    BY <1>1 DEF LargerChild

LEMMA LargerChildFacts ==
    ASSUME NEW h \in Seq(Boosted), NEW p \in 0 .. Len(h) - 1
    PROVE  /\ LargerChild(h, p) \in 0 .. Len(h) - 1
           /\ LargerChild(h, p) # p =>
                 /\ p < LargerChild(h, p)
                 /\ Parent(LargerChild(h, p)) = p
                 /\ Node(h, p).priority < Node(h, LargerChild(h, p)).priority
           /\ \A q \in 1 .. Len(h) - 1 :
                 Parent(q) = p =>
                    Node(h, q).priority <= Node(h, LargerChild(h, p)).priority
  <1> DEFINE bigger(q, r) ==
                IF r < Len(h) /\ Node(h, r).priority > Node(h, q).priority THEN r ELSE q
             one == bigger(p, Left(p))
             two == bigger(one, Right(p))
             pr(q) == Node(h, q).priority
  <1>1. LargerChild(h, p) = two
    BY DEF LargerChild
  <1>2. /\ p \in Nat /\ Len(h) \in Nat
        /\ Left(p) \in Nat /\ Left(p) > p /\ Parent(Left(p)) = p
        /\ Right(p) \in Nat /\ Right(p) > p /\ Parent(Right(p)) = p
    <2>1. p \in Nat /\ Len(h) \in Nat
      OBVIOUS
    <2> QED
      BY <2>1, ChildFacts
  <1>3. \A q \in 0 .. Len(h) - 1 : pr(q) \in Nat
    BY NodeType
  <1> HIDE DEF pr
  <1>4. /\ one \in 0 .. Len(h) - 1
        /\ one = p \/ (one = Left(p) /\ pr(p) < pr(one))
        /\ Left(p) < Len(h) => pr(Left(p)) <= pr(one)
    BY <1>2, <1>3 DEF pr
  <1>5. pr(p) <= pr(one)
    BY <1>2, <1>3, <1>4
  <1> DEFINE mid == one
  <1> HIDE DEF mid
  <1>6. /\ two \in 0 .. Len(h) - 1
        /\ two = mid \/ (two = Right(p) /\ pr(mid) < pr(two))
        /\ Right(p) < Len(h) => pr(Right(p)) <= pr(two)
    BY <1>2, <1>3, <1>4 DEF pr, mid
  <1> DEFINE c == two
  <1> HIDE DEF c
  <1>7. pr(mid) <= pr(c)
    BY <1>3, <1>4, <1>6 DEF mid, c
  <1> HIDE DEF one, two
  <1>8. /\ mid \in 0 .. Len(h) - 1
        /\ mid = p \/ (mid = Left(p) /\ pr(p) < pr(mid))
        /\ Left(p) < Len(h) => pr(Left(p)) <= pr(mid)
        /\ pr(p) <= pr(mid)
    BY <1>4, <1>5 DEF mid
  <1>9. /\ c \in 0 .. Len(h) - 1
        /\ c = mid \/ (c = Right(p) /\ pr(mid) < pr(c))
        /\ Right(p) < Len(h) => pr(Right(p)) <= pr(c)
    BY <1>6 DEF c
  <1>10. pr(p) \in Nat /\ pr(mid) \in Nat /\ pr(c) \in Nat
    BY <1>3, <1>8, <1>9
  <1>11. c # p => p < c /\ Parent(c) = p /\ pr(p) < pr(c)
    <2>1. CASE c = mid
      BY <1>2, <1>8, <2>1
    <2>2. CASE c = Right(p) /\ pr(mid) < pr(c)
      BY <1>2, <1>8, <1>10, <2>2
    <2> QED
      BY <1>9, <2>1, <2>2
  <1>12. ASSUME NEW q \in 1 .. Len(h) - 1, Parent(q) = p
         PROVE  pr(q) <= pr(c)
    <2>1. q = Left(p) \/ q = Right(p)
      BY <1>12, ParentFacts
    <2>2. CASE q = Left(p)
      <3>1. pr(q) <= pr(mid) /\ pr(q) \in Nat
        BY <1>2, <1>3, <1>8, <2>2
      <3> QED
        BY <1>7, <1>10, <3>1
    <2>3. CASE q = Right(p)
      BY <1>2, <1>9, <2>3
    <2> QED
      BY <2>1, <2>2, <2>3
  <1>13. LargerChild(h, p) = c
    BY <1>1 DEF c
  <1> HIDE DEF c
  <1> QED
    BY <1>9, <1>11, <1>12, <1>13 DEF pr

\* The heap may be empty when its last node has just been taken.
SinkStates ==
    {x \in [heap : Seq(Boosted), pos : Nat] : x.heap = <<>> \/ x.pos < Len(x.heap)}

LEMMA SinkFacts ==
    ASSUME NEW x \in SinkStates, Sink(x) # x
    PROVE  LET c == LargerChild(x.heap, x.pos)
           IN  /\ x.heap \in Seq(Boosted)
               /\ x.pos \in 0 .. Len(x.heap) - 1 /\ c \in 1 .. Len(x.heap) - 1
               /\ x.pos < c /\ Parent(c) = x.pos
               /\ Node(x.heap, x.pos).priority < Node(x.heap, c).priority
               /\ \A q \in 1 .. Len(x.heap) - 1 :
                     Parent(q) = x.pos =>
                        Node(x.heap, q).priority <= Node(x.heap, c).priority
               /\ Sink(x) = [heap |-> Swap(x.heap, x.pos, c), pos |-> c]
               /\ Sink(x).pos \in Nat /\ x.pos < Sink(x).pos
               /\ x.pos \in Nat
               /\ Len(Sink(x).heap) = Len(x.heap)
  <1> DEFINE c == LargerChild(x.heap, x.pos)
  <1>1. /\ x.heap \in Seq(Boosted) /\ x.pos \in Nat /\ Len(x.heap) \in Nat
        /\ x.heap = <<>> \/ x.pos < Len(x.heap)
    BY DEF SinkStates
  <1>2. c # x.pos /\ Sink(x) = [heap |-> Swap(x.heap, x.pos, c), pos |-> c]
    BY DEF Sink
  <1>3. x.heap # <<>>
    <2>1. ASSUME x.heap = <<>>
          PROVE  c = x.pos
      BY <1>1, <2>1, NoChild
    <2> QED
      BY <1>2, <2>1
  <1>4. x.pos \in 0 .. Len(x.heap) - 1
    BY <1>1, <1>3
  <1>5. /\ c \in 0 .. Len(x.heap) - 1 /\ x.pos < c /\ Parent(c) = x.pos
        /\ Node(x.heap, x.pos).priority < Node(x.heap, c).priority
        /\ \A q \in 1 .. Len(x.heap) - 1 :
              Parent(q) = x.pos =>
                 Node(x.heap, q).priority <= Node(x.heap, c).priority
    BY <1>1, <1>2, <1>4, LargerChildFacts
  <1> HIDE DEF c
  <1>6. Len(Swap(x.heap, x.pos, c)) = Len(x.heap)
    BY <1>1, <1>4, <1>5, SwapFacts
  <1>7. Sink(x).pos = c /\ Sink(x).heap = Swap(x.heap, x.pos, c)
    BY <1>2
  <1>8. c \in 1 .. Len(x.heap) - 1 /\ c \in Nat
    BY <1>1, <1>4, <1>5
  <1> QED
    BY <1>1, <1>2, <1>4, <1>5, <1>6, <1>7, <1>8 DEF c

\* The rule for the loop of shift_down: an invariant I that holds of the first
\* state holds of the last one, where the loop has stopped.
LEMMA DownLoop ==
    ASSUME NEW h, NEW p \in Nat,
           NEW I \in SUBSET SinkStates,
           [heap |-> h, pos |-> p] \in I,
           \A x \in I : Sink(x) \in I
    PROVE  \E x \in I : ShiftDown(h, p) = x.heap /\ Sink(x) = x
  <1> DEFINE first == [heap |-> h, pos |-> p]
             step == [x \in I |-> Sink(x)]
             Eq(f) == f = [k \in 0 .. Len(h) |-> IF k = 0 THEN first ELSE Sink(f[k - 1])]
             round == CHOOSE f : Eq(f)
  <1>1. step \in [I -> I]
    OBVIOUS
  <1>2. PICK f \in [0 .. Len(h) -> I] : /\ f[0] = first
                                   /\ \A k \in 1 .. Len(h) : f[k] = step[f[k - 1]]
    <2>1. first \in I
      OBVIOUS
    <2> HIDE DEF first, step
    <2>2. HasRounds(I, step, first, Len(h))
      BY <1>1, <2>1, RoundsExist
    <2> QED
      BY <2>2 DEF HasRounds
  <1>3. \A k \in 0 .. Len(h) : f[k] = IF k = 0 THEN first ELSE Sink(f[k - 1])
    <2> TAKE k \in 0 .. Len(h)
    <2>1. CASE k = 0
      BY <1>2, <2>1
    <2>2. CASE k # 0
      <3>1. k \in 1 .. Len(h) /\ k - 1 \in 0 .. Len(h)
        BY <2>2
      <3>2. f[k - 1] \in I
        BY <3>1
      <3>3. step[f[k - 1]] = Sink(f[k - 1])
        BY <3>2
      <3> QED
        BY <1>2, <2>2, <3>1, <3>3
    <2> QED
      BY <2>1, <2>2
  <1>4. Eq(f)
    BY <1>3
  <1>5. Eq(round)
    BY <1>4
  <1>6. ShiftDown(h, p) = round[Len(h)].heap
    BY DEF ShiftDown
  <1> HIDE DEF step
  <1>7. /\ round[0] = first
        /\ \A k \in 1 .. Len(h) : round[k] = Sink(round[k - 1])
    <2>1. \A k \in 0 .. Len(h) : round[k] = IF k = 0 THEN first ELSE Sink(round[k - 1])
      BY <1>5
    <2> HIDE DEF round, first
    <2>2. round[0] = first
      BY <2>1
    <2>3. ASSUME NEW k \in 1 .. Len(h)
          PROVE  round[k] = Sink(round[k - 1])
      <3>1. k \in 0 .. Len(h) /\ k # 0
        OBVIOUS
      <3> QED
        BY <2>1, <3>1
    <2> QED
      BY <2>2, <2>3
  <1> HIDE DEF round
  <1>8. I \subseteq SinkStates /\ Len(h) \in Nat /\ p \in Nat /\ first \in I
    <2>1. first \in SinkStates /\ first.heap = h
      OBVIOUS
    <2>2. h \in Seq(Boosted)
      BY <2>1 DEF SinkStates
    <2> QED
      BY <2>2
  <1> DEFINE S == {k \in 0 .. Len(h) :
                      /\ round[k] \in I
                      /\ Len(round[k].heap) = Len(h)
                      /\ k <= round[k].pos \/ Sink(round[k]) = round[k]}
  <1>9. 0 \in S
    BY <1>7, <1>8
  <1> HIDE DEF first
  <1>10. ASSUME NEW k \in 1 .. Len(h), k - 1 \in S
         PROVE  k \in S
    <2> DEFINE y == round[k - 1]
    <2>1. /\ round[k] = Sink(y) /\ y \in I /\ y \in SinkStates
          /\ Len(y.heap) = Len(h) /\ (k - 1 <= y.pos \/ Sink(y) = y)
      BY <1>7, <1>8, <1>10
    <2> HIDE DEF y
    <2>2. round[k] \in I
      BY <2>1
    <2>3. CASE Sink(y) = y
      BY <2>1, <2>2, <2>3
    <2>4. CASE Sink(y) # y
      <3>1. /\ y.pos \in Nat /\ Sink(y).pos \in Nat /\ y.pos < Sink(y).pos
            /\ Len(Sink(y).heap) = Len(y.heap)
        BY <2>1, <2>4, SinkFacts
      <3>2. k <= Sink(y).pos
        BY <2>1, <2>4, <3>1
      <3> QED
        BY <2>1, <2>2, <3>1, <3>2
    <2> QED
      BY <2>3, <2>4
  <1> HIDE DEF S
  <1>11. Len(h) \in S
    <2>1. \A k \in 0 .. Len(h) : k \in S
      BY <1>8, <1>9, <1>10, Counting
    <2> QED
      BY <1>8, <2>1
  <1> DEFINE last == round[Len(h)]
  <1>12. /\ last \in I /\ last \in SinkStates /\ Len(last.heap) = Len(h)
         /\ (Len(h) <= last.pos \/ Sink(last) = last)
    BY <1>8, <1>11 DEF S
  <1> HIDE DEF last
  <1>13. Sink(last) = last
    <2>1. ASSUME Len(h) <= last.pos
          PROVE  Sink(last) = last
      <3>1. last.heap = <<>>
        BY <1>8, <1>12, <2>1 DEF SinkStates
      <3>2. LargerChild(last.heap, last.pos) = last.pos
        <4>1. last.pos \in Nat
          BY <1>12 DEF SinkStates
        <4> QED
          BY <3>1, <4>1, NoChild
      <3> QED
        BY <3>2 DEF Sink
    <2> QED
      BY <1>12, <2>1
  <1> QED
    BY <1>6, <1>12, <1>13 DEF last

----------------------------------------------------------------------------
(* Order. *)

\* HeapOrdered of any array.
Ordered(h) ==
    \A p \in 1 .. Len(h) - 1 : Node(h, p).priority <= Node(h, Parent(p)).priority

\* Ordered but for the node at p, which may be too large for its parent.
AlmostUp(h, p) ==
    \A q \in 1 .. Len(h) - 1 :
       /\ q # p => Node(h, q).priority <= Node(h, Parent(q)).priority
       /\ Parent(q) = p /\ p # 0 =>
             Node(h, q).priority <= Node(h, Parent(p)).priority

\* Ordered but for the node at p, which may be too small for its children.
AlmostDown(h, p) ==
    \A q \in 1 .. Len(h) - 1 :
       /\ Parent(q) # p => Node(h, q).priority <= Node(h, Parent(q)).priority
       /\ Parent(q) = p /\ p # 0 =>
             Node(h, q).priority <= Node(h, Parent(p)).priority

LEMMA ParentInside ==
    ASSUME NEW n \in Nat, NEW q \in 1 .. n - 1
    PROVE  /\ q \in Nat /\ q # 0 /\ q \in 0 .. n - 1
           /\ Parent(q) \in 0 .. n - 1 /\ Parent(q) < q
  <1>1. q \in Nat /\ q # 0
    OBVIOUS
  <1>2. Parent(q) \in Nat /\ Parent(q) < q
    BY <1>1, ParentFacts
  <1> QED
    BY <1>1, <1>2

\* The nodes of an ordered array have at most the priority of the first one.
LEMMA RootIsMax ==
    ASSUME NEW h \in Seq(Boosted), Ordered(h), NEW p \in 0 .. Len(h) - 1
    PROVE  Node(h, p).priority <= Node(h, 0).priority
  <1> DEFINE pr(q) == Node(h, q).priority
             larger == {q \in 0 .. Len(h) - 1 : ~(pr(q) <= pr(0))}
  <1>1. \A q \in 0 .. Len(h) - 1 : pr(q) \in Nat
    BY NodeType
  <1> HIDE DEF pr
  <1>2. larger \in SUBSET Nat
    OBVIOUS
  <1> HIDE DEF larger
  <1>3. SUFFICES ASSUME larger # {}
                 PROVE  FALSE
    BY DEF larger, pr
  <1>4. PICK q \in larger : \A k \in larger : q <= k
    BY <1>2, <1>3, Smallest
  <1>5. q \in 0 .. Len(h) - 1 /\ ~(pr(q) <= pr(0))
    BY <1>4 DEF larger
  <1>6. 0 \in 0 .. Len(h) - 1 /\ pr(0) \in Nat /\ pr(q) \in Nat
    BY <1>1, <1>5
  <1>7. q \in 1 .. Len(h) - 1
    BY <1>5, <1>6
  <1>8. Parent(q) \in 0 .. Len(h) - 1 /\ Parent(q) < q
    BY <1>7, ParentInside
  <1>9. pr(Parent(q)) \in Nat /\ pr(q) <= pr(Parent(q))
    BY <1>1, <1>7, <1>8 DEF Ordered, pr
  <1>10. Parent(q) \notin larger
    BY <1>4, <1>5, <1>8
  <1>11. pr(Parent(q)) <= pr(0)
    BY <1>8, <1>10 DEF larger
  <1> QED
    BY <1>5, <1>6, <1>9, <1>11

LEMMA RiseAlmost ==
    ASSUME NEW x \in LoopStates, Rise(x) # x, AlmostUp(x.heap, x.pos)
    PROVE  AlmostUp(Rise(x).heap, Rise(x).pos)
  <1> DEFINE h == x.heap
             p == x.pos
             r == Parent(x.pos)
             g == Swap(h, p, r)
             pr(q) == Node(h, q).priority
  <1>1. /\ h \in Seq(Boosted) /\ p \in 1 .. Len(h) - 1
        /\ r \in 0 .. Len(h) - 1 /\ r < p /\ r = Parent(p)
        /\ pr(r) < pr(p)
        /\ Rise(x) = [heap |-> g, pos |-> r]
    BY RiseFacts
  <1>2. AlmostUp(h, p)
    OBVIOUS
  <1>3. Rise(x).heap = g /\ Rise(x).pos = r
    BY <1>1
  <1> HIDE DEF h, p, r
  <1>4. Len(h) \in Nat /\ p \in 0 .. Len(h) - 1
    BY <1>1
  <1>5. /\ Len(g) = Len(h)
        /\ \A q \in 0 .. Len(h) - 1 :
              Node(g, q) = IF q = p THEN Node(h, r)
                           ELSE IF q = r THEN Node(h, p)
                           ELSE Node(h, q)
    <2>1. h \in Seq(Boosted)
      BY <1>1
    <2>2. p \in 0 .. Len(h) - 1 /\ r \in 0 .. Len(h) - 1
      BY <1>1, <1>4
    <2> QED
      BY <2>1, <2>2, SwapFacts
  <1> HIDE DEF g
  <1>6. /\ \A q \in 0 .. Len(h) - 1 : pr(q) \in Nat
        /\ \A q \in 0 .. Len(h) - 1 :
              Node(g, q).priority = IF q = p THEN pr(r) ELSE IF q = r THEN pr(p) ELSE pr(q)
    BY <1>1, <1>5, NodeType
  <1>7. \A q \in 1 .. Len(h) - 1 :
           /\ q # p => pr(q) <= pr(Parent(q))
           /\ Parent(q) = p /\ p # 0 => pr(q) <= pr(r)
    BY <1>1, <1>2 DEF AlmostUp
  <1> HIDE DEF pr
  <1>8. ASSUME NEW q \in 1 .. Len(h) - 1
        PROVE  /\ q # r => Node(g, q).priority <= Node(g, Parent(q)).priority
               /\ Parent(q) = r /\ r # 0 =>
                     Node(g, q).priority <= Node(g, Parent(r)).priority
    <2>1. /\ q \in 0 .. Len(h) - 1 /\ Parent(q) \in 0 .. Len(h) - 1 /\ Parent(q) < q
      BY <1>4, ParentInside
    <2>2. pr(q) \in Nat /\ pr(r) \in Nat /\ pr(p) \in Nat /\ pr(Parent(q)) \in Nat
      BY <1>1, <1>4, <1>6, <2>1
    <2>3. ASSUME q # r
          PROVE  Node(g, q).priority <= Node(g, Parent(q)).priority
      <3>1. CASE q = p
        BY <1>1, <1>4, <1>6, <2>1, <2>2, <3>1
      <3>2. CASE q # p
        <4>1. Node(g, q).priority = pr(q) /\ pr(q) <= pr(Parent(q))
          BY <1>6, <1>7, <2>1, <2>3, <3>2
        <4>2. CASE Parent(q) = r
          BY <1>1, <1>6, <2>1, <2>2, <4>1, <4>2
        <4>3. CASE Parent(q) = p
          BY <1>1, <1>4, <1>6, <1>7, <2>1, <2>2, <4>1, <4>3
        <4>4. CASE Parent(q) # r /\ Parent(q) # p
          BY <1>6, <2>1, <4>1, <4>4
        <4> QED
          BY <4>2, <4>3, <4>4
      <3> QED
        BY <3>1, <3>2
    <2>4. ASSUME Parent(q) = r, r # 0
          PROVE  Node(g, q).priority <= Node(g, Parent(r)).priority
      <3>1. r \in 1 .. Len(h) - 1
        BY <1>1, <2>4
      <3>2. Parent(r) \in 0 .. Len(h) - 1 /\ Parent(r) < r
        BY <1>4, <3>1, ParentInside
      <3>3. Node(g, Parent(r)).priority = pr(Parent(r)) /\ pr(Parent(r)) \in Nat
        BY <1>1, <1>6, <3>2
      <3>4. pr(r) <= pr(Parent(r))
        BY <1>1, <1>7, <3>1
      <3>5. q # r /\ Node(g, q).priority = IF q = p THEN pr(r) ELSE pr(q)
        BY <1>6, <2>1, <2>4
      <3>6. q # p => pr(q) <= pr(r)
        BY <1>7, <2>4
      <3> QED
        BY <2>2, <3>3, <3>4, <3>5, <3>6
    <2> QED
      BY <2>3, <2>4
  <1>9. AlmostUp(g, r)
    BY <1>5, <1>8 DEF AlmostUp
  <1> QED
    BY <1>3, <1>9

LEMMA RiseEnds ==
    ASSUME NEW x \in LoopStates, Rise(x) = x, AlmostUp(x.heap, x.pos)
    PROVE  /\ x.pos = 0
              \/ Node(x.heap, x.pos).priority <= Node(x.heap, Parent(x.pos)).priority
           /\ Ordered(x.heap)
  <1>1. /\ x.heap \in Seq(Boosted) /\ x.pos \in Nat /\ x.pos < Len(x.heap)
        /\ Len(x.heap) \in Nat
    BY DEF LoopStates
  <1>2. \/ x.pos = 0
        \/ Node(x.heap, x.pos).priority <= Node(x.heap, Parent(x.pos)).priority
    <2> SUFFICES ASSUME x.pos # 0,
                        ~(Node(x.heap, x.pos).priority
                             <= Node(x.heap, Parent(x.pos)).priority)
                 PROVE  FALSE
      OBVIOUS
    <2>1. Rise(x) = [heap |-> Swap(x.heap, x.pos, Parent(x.pos)),
                     pos |-> Parent(x.pos)]
      BY DEF Rise
    <2>2. x.pos = Parent(x.pos)
      BY <2>1
    <2> QED
      BY <1>1, <2>2, ParentFacts
  <1>3. Ordered(x.heap)
    BY <1>1, <1>2 DEF AlmostUp, Ordered
  <1> QED
    BY <1>2, <1>3

LEMMA SinkAlmost ==
    ASSUME NEW x \in SinkStates, Sink(x) # x, AlmostDown(x.heap, x.pos)
    PROVE  AlmostDown(Sink(x).heap, Sink(x).pos)
  <1> DEFINE h == x.heap
             p == x.pos
             c == LargerChild(x.heap, x.pos)
             g == Swap(h, p, c)
             pr(q) == Node(h, q).priority
  <1>1. /\ h \in Seq(Boosted) /\ p \in 0 .. Len(h) - 1
        /\ c \in 1 .. Len(h) - 1 /\ p < c /\ Parent(c) = p
        /\ pr(p) < pr(c)
        /\ \A q \in 1 .. Len(h) - 1 : Parent(q) = p => pr(q) <= pr(c)
        /\ Sink(x) = [heap |-> g, pos |-> c]
    BY SinkFacts
  <1>2. AlmostDown(h, p)
    OBVIOUS
  <1>3. Sink(x).heap = g /\ Sink(x).pos = c
    BY <1>1
  <1> HIDE DEF h, p, c
  <1>4. Len(h) \in Nat /\ c \in 0 .. Len(h) - 1
    BY <1>1
  <1>5. /\ Len(g) = Len(h)
        /\ \A q \in 0 .. Len(h) - 1 :
              Node(g, q) = IF q = p THEN Node(h, c)
                           ELSE IF q = c THEN Node(h, p)
                           ELSE Node(h, q)
    <2>1. h \in Seq(Boosted)
      BY <1>1
    <2>2. p \in 0 .. Len(h) - 1 /\ c \in 0 .. Len(h) - 1
      BY <1>1, <1>4
    <2> QED
      BY <2>1, <2>2, SwapFacts
  <1> HIDE DEF g
  <1>6. /\ \A q \in 0 .. Len(h) - 1 : pr(q) \in Nat
        /\ \A q \in 0 .. Len(h) - 1 :
              Node(g, q).priority = IF q = p THEN pr(c) ELSE IF q = c THEN pr(p) ELSE pr(q)
    BY <1>1, <1>5, NodeType
  <1>7. \A q \in 1 .. Len(h) - 1 :
           /\ Parent(q) # p => pr(q) <= pr(Parent(q))
           /\ Parent(q) = p /\ p # 0 => pr(q) <= pr(Parent(p))
           /\ Parent(q) = p => pr(q) <= pr(c)
    BY <1>1, <1>2 DEF AlmostDown
  <1> HIDE DEF pr
  <1>8. ASSUME NEW q \in 1 .. Len(h) - 1
        PROVE  /\ Parent(q) # c => Node(g, q).priority <= Node(g, Parent(q)).priority
               /\ Parent(q) = c /\ c # 0 =>
                     Node(g, q).priority <= Node(g, Parent(c)).priority
    <2>1. /\ q \in 0 .. Len(h) - 1 /\ Parent(q) \in 0 .. Len(h) - 1 /\ Parent(q) < q
      BY <1>4, ParentInside
    <2>2. pr(q) \in Nat /\ pr(c) \in Nat /\ pr(p) \in Nat /\ pr(Parent(q)) \in Nat
      BY <1>1, <1>4, <1>6, <2>1
    <2>3. ASSUME Parent(q) # c
          PROVE  Node(g, q).priority <= Node(g, Parent(q)).priority
      <3>1. CASE q = c
        BY <1>1, <1>4, <1>6, <2>1, <2>2, <3>1
      <3>2. CASE q = p
        <4>1. q # c /\ Node(g, q).priority = pr(c) /\ p # 0
          BY <1>1, <1>6, <2>1, <3>2
        <4>2. Parent(q) # p /\ Parent(q) # c
          BY <2>1, <2>3, <3>2
        <4>3. Node(g, Parent(q)).priority = pr(Parent(p))
          BY <1>6, <2>1, <3>2, <4>2
        <4>4. pr(c) <= pr(Parent(p))
          BY <1>1, <1>7, <4>1
        <4> QED
          BY <4>1, <4>3, <4>4
      <3>3. CASE q # c /\ q # p
        <4>1. Node(g, q).priority = pr(q)
          BY <1>6, <2>1, <3>3
        <4>2. CASE Parent(q) = p
          BY <1>1, <1>6, <1>7, <2>1, <4>1, <4>2
        <4>3. CASE Parent(q) # p
          BY <1>6, <1>7, <2>1, <2>3, <4>1, <4>3
        <4> QED
          BY <4>2, <4>3
      <3> QED
        BY <3>1, <3>2, <3>3
    <2>4. ASSUME Parent(q) = c
          PROVE  Node(g, q).priority <= Node(g, Parent(c)).priority
      <3>1. Node(g, Parent(c)).priority = pr(c)
        BY <1>1, <1>6
      <3>2. q # c /\ q # p
        BY <1>1, <1>4, <2>1, <2>4
      <3>3. Node(g, q).priority = pr(q)
        BY <1>6, <2>1, <3>2
      <3>4. pr(q) <= pr(c)
        BY <1>1, <1>4, <1>7, <2>4
      <3> QED
        BY <3>1, <3>3, <3>4
    <2> QED
      BY <2>3, <2>4
  <1>9. AlmostDown(g, c)
    BY <1>5, <1>8 DEF AlmostDown
  <1> QED
    BY <1>3, <1>9

LEMMA SinkEnds ==
    ASSUME NEW x \in SinkStates, Sink(x) = x, AlmostDown(x.heap, x.pos)
    PROVE  Ordered(x.heap)
  <1>1. /\ x.heap \in Seq(Boosted) /\ x.pos \in Nat /\ Len(x.heap) \in Nat
        /\ x.heap = <<>> \/ x.pos < Len(x.heap)
    BY DEF SinkStates
  <1>2. CASE x.heap = <<>>
    <2>1. 1 .. Len(x.heap) - 1 = {}
      BY <1>2
    <2> QED
      BY <2>1 DEF Ordered
  <1>3. CASE x.pos < Len(x.heap)
    <2>1. x.pos \in 0 .. Len(x.heap) - 1
      BY <1>1, <1>3
    <2>2. LargerChild(x.heap, x.pos) = x.pos
      <3> SUFFICES ASSUME LargerChild(x.heap, x.pos) # x.pos
                   PROVE  FALSE
        OBVIOUS
      <3>1. Sink(x).pos = LargerChild(x.heap, x.pos)
        BY DEF Sink
      <3> QED
        BY <3>1
    <2>3. \A q \in 1 .. Len(x.heap) - 1 :
             Parent(q) = x.pos => Node(x.heap, q).priority <= Node(x.heap, x.pos).priority
      BY <1>1, <2>1, <2>2, LargerChildFacts
    <2> QED
      BY <2>3 DEF AlmostDown, Ordered
  <1> QED
    BY <1>1, <1>2, <1>3

----------------------------------------------------------------------------
(* What the loops do to the array. *)

\* shift_up of a node at p orders an array that was ordered but for it; it
\* exchanges nodes at p and before, and stops at the root or below a node of
\* no smaller priority.
LEMMA ShiftUpFacts ==
    ASSUME NEW h \in Seq(Boosted), NEW p \in 0 .. Len(h) - 1,
           Distinct(h), AlmostUp(h, p)
    PROVE  LET g == ShiftUp(h, p)
           IN  /\ g \in Seq(Boosted) /\ Len(g) = Len(h)
               /\ Distinct(g) /\ Ordered(g)
               /\ NodesFrom(g, 0) = NodesFrom(h, 0)
               /\ \A k \in p + 1 .. Len(h) - 1 : Node(g, k) = Node(h, k)
               /\ \E r \in 0 .. p :
                     /\ Node(g, r) = Node(h, p)
                     /\ r # 0 => Node(g, r).priority <= Node(g, Parent(r)).priority
  <1> DEFINE Inv(x) == /\ Len(x.heap) = Len(h)
                       /\ Distinct(x.heap)
                       /\ AlmostUp(x.heap, x.pos)
                       /\ NodesFrom(x.heap, 0) = NodesFrom(h, 0)
                       /\ x.pos <= p
                       /\ Node(x.heap, x.pos) = Node(h, p)
                       /\ \A k \in p + 1 .. Len(h) - 1 : Node(x.heap, k) = Node(h, k)
             I == {x \in LoopStates : Inv(x)}
             first == [heap |-> h, pos |-> p]
  <1>1. p \in Nat /\ Len(h) \in Nat
    OBVIOUS
  <1>2. first \in I
    <2>1. first \in LoopStates
      BY <1>1 DEF LoopStates
    <2>2. Inv(first)
      BY <1>1
    <2> QED
      BY <2>1, <2>2
  <1>3. ASSUME NEW x \in I
        PROVE  Rise(x) \in I
    <2>1. CASE Rise(x) = x
      BY <2>1
    <2>2. CASE Rise(x) # x
      <3> DEFINE q == x.pos
                 r == Parent(x.pos)
                 g == Swap(x.heap, q, r)
      <3>1. x \in LoopStates /\ Inv(x)
        OBVIOUS
      <3>2. /\ x.heap \in Seq(Boosted) /\ q \in 1 .. Len(x.heap) - 1
            /\ r \in 0 .. Len(x.heap) - 1 /\ r < q
            /\ Rise(x) = [heap |-> g, pos |-> r]
        BY <2>2, <3>1, RiseFacts
      <3>3. Rise(x).heap = g /\ Rise(x).pos = r
        BY <3>2
      <3>4. Rise(x) \in LoopStates
        BY <3>1, RiseType
      <3>5. AlmostUp(g, r)
        BY <2>2, <3>1, <3>3, RiseAlmost
      <3> HIDE DEF q, r
      <3>6. x.heap \in Seq(Boosted) /\ q \in 0 .. Len(x.heap) - 1 /\ r \in 0 .. Len(x.heap) - 1
        BY <3>2
      <3>7. /\ Len(g) = Len(x.heap)
            /\ \A k \in 0 .. Len(x.heap) - 1 :
                  Node(g, k) = IF k = q THEN Node(x.heap, r)
                               ELSE IF k = r THEN Node(x.heap, q)
                               ELSE Node(x.heap, k)
        <4>1. Exchanged(x.heap, q, r, Swap(x.heap, q, r))
          BY <3>6, SwapTwo
        <4> QED
          BY <4>1 DEF Exchanged
      <3>8. Distinct(g)
        BY <3>1, <3>6, SwapDistinct
      <3>9. NodesFrom(g, 0) = NodesFrom(x.heap, 0)
        BY <3>6, SwapKeeps
      <3> HIDE DEF g, Inv
      <3>10. /\ Len(x.heap) = Len(h) /\ q <= p /\ Node(x.heap, q) = Node(h, p)
             /\ NodesFrom(x.heap, 0) = NodesFrom(h, 0)
             /\ \A k \in p + 1 .. Len(h) - 1 : Node(x.heap, k) = Node(h, k)
        BY <3>1 DEF Inv, q
      <3>11. Node(g, r) = Node(h, p)
        BY <3>2, <3>6, <3>7, <3>10
      <3>12. ASSUME NEW k \in p + 1 .. Len(h) - 1
             PROVE  Node(g, k) = Node(h, k)
        <4>1. k \in 0 .. Len(x.heap) - 1 /\ k # q /\ k # r
          BY <1>1, <3>2, <3>6, <3>10
        <4> QED
          BY <3>7, <3>10, <4>1
      <3>13. r <= p
        BY <1>1, <3>2, <3>6, <3>10
      <3>14. Inv(Rise(x))
        BY <3>3, <3>5, <3>7, <3>8, <3>9, <3>10, <3>11, <3>12, <3>13 DEF Inv
      <3> QED
        BY <3>4, <3>14
    <2> QED
      BY <2>1, <2>2
  <1>4. I \in SUBSET LoopStates
    OBVIOUS
  <1> HIDE DEF I
  <1>5. PICK x \in I : ShiftUp(h, p) = x.heap /\ Rise(x) = x
    BY <1>1, <1>2, <1>3, <1>4, UpLoop
  <1>6. x \in LoopStates /\ Inv(x) /\ x.heap \in Seq(Boosted) /\ x.pos \in Nat
    BY <1>5 DEF I, LoopStates
  <1>7. /\ Ordered(x.heap)
        /\ x.pos # 0 =>
              Node(x.heap, x.pos).priority <= Node(x.heap, Parent(x.pos)).priority
    BY <1>5, <1>6, RiseEnds
  <1>8. x.pos \in 0 .. p
    BY <1>1, <1>6
  <1> QED
    BY <1>5, <1>6, <1>7, <1>8

\* T is S, or differs from S in that n is in T and at most one is not.
ReplacesOne(S, T, n) ==
    \/ T = S
    \/ n \in T /\ T \subseteq S \cup {n} /\ \E z : S \ {z} \subseteq T

\* shift_down of the root orders an array that was ordered but for it; from
\* any position on, at most the root comes in and one node goes out.
LEMMA ShiftDownFacts ==
    ASSUME NEW h \in Seq(Boosted), Distinct(h), AlmostDown(h, 0), NEW j \in Nat
    PROVE  LET g == ShiftDown(h, 0)
           IN  /\ g \in Seq(Boosted) /\ Len(g) = Len(h)
               /\ Distinct(g) /\ Ordered(g)
               /\ NodesFrom(g, 0) = NodesFrom(h, 0)
               /\ ReplacesOne(NodesFrom(h, j), NodesFrom(g, j), Node(h, 0))
  <1> DEFINE Inv(x) == /\ Len(x.heap) = Len(h)
                       /\ Distinct(x.heap)
                       /\ AlmostDown(x.heap, x.pos)
                       /\ NodesFrom(x.heap, 0) = NodesFrom(h, 0)
                       /\ Node(x.heap, x.pos) = Node(h, 0)
                       /\ x.pos < j => NodesFrom(x.heap, j) = NodesFrom(h, j)
                       /\ ReplacesOne(NodesFrom(h, j), NodesFrom(x.heap, j), Node(h, 0))
             I == {x \in SinkStates : Inv(x)}
             first == [heap |-> h, pos |-> 0]
  <1>1. Len(h) \in Nat
    OBVIOUS
  <1>2. first \in I
    <2>1. first \in SinkStates
      <3>1. h = <<>> \/ 0 < Len(h)
        BY <1>1
      <3> QED
        BY <3>1 DEF SinkStates
    <2>2. Inv(first)
      BY <1>1 DEF ReplacesOne
    <2> QED
      BY <2>1, <2>2
  <1>3. ASSUME NEW x \in I
        PROVE  Sink(x) \in I
    <2>1. CASE Sink(x) = x
      BY <2>1
    <2>2. CASE Sink(x) # x
      <3> DEFINE q == x.pos
                 c == LargerChild(x.heap, x.pos)
                 g == Swap(x.heap, q, c)
      <3>1. x \in SinkStates /\ Inv(x)
        OBVIOUS
      <3>2. /\ x.heap \in Seq(Boosted) /\ q \in 0 .. Len(x.heap) - 1
            /\ c \in 1 .. Len(x.heap) - 1 /\ q < c
            /\ Sink(x) = [heap |-> g, pos |-> c]
        BY <2>2, <3>1, SinkFacts
      <3>3. Sink(x).heap = g /\ Sink(x).pos = c
        BY <3>2
      <3>5. AlmostDown(g, c)
        BY <2>2, <3>1, <3>3, SinkAlmost
      <3> HIDE DEF q, c
      <3>6. /\ x.heap \in Seq(Boosted) /\ q \in 0 .. Len(x.heap) - 1
            /\ c \in 0 .. Len(x.heap) - 1 /\ Len(x.heap) \in Nat
        BY <3>2
      <3>7. /\ g \in Seq(Boosted) /\ Len(g) = Len(x.heap)
            /\ \A k \in 0 .. Len(x.heap) - 1 :
                  Node(g, k) = IF k = q THEN Node(x.heap, c)
                               ELSE IF k = c THEN Node(x.heap, q)
                               ELSE Node(x.heap, k)
        <4>1. Exchanged(x.heap, q, c, Swap(x.heap, q, c))
          BY <3>6, SwapTwo
        <4> QED
          BY <4>1 DEF Exchanged
      <3>8. Distinct(g)
        BY <3>1, <3>6, SwapDistinct
      <3>9. NodesFrom(g, 0) = NodesFrom(x.heap, 0)
        BY <3>6, SwapKeeps
      <3>10. q >= j => NodesFrom(g, j) = NodesFrom(x.heap, j)
        <4>1. ASSUME q >= j
              PROVE  q \in j .. Len(x.heap) - 1 /\ c \in j .. Len(x.heap) - 1
          BY <3>2, <3>6, <4>1
        <4> QED
          BY <3>6, <4>1, SwapKeeps
      <3> HIDE DEF g, Inv
      <3>11. /\ Len(x.heap) = Len(h) /\ Node(x.heap, q) = Node(h, 0)
             /\ NodesFrom(x.heap, 0) = NodesFrom(h, 0)
             /\ q < j => NodesFrom(x.heap, j) = NodesFrom(h, j)
             /\ ReplacesOne(NodesFrom(h, j), NodesFrom(x.heap, j), Node(h, 0))
        BY <3>1 DEF Inv, q
      <3>12. Node(g, c) = Node(h, 0)
        BY <3>2, <3>6, <3>7, <3>11
      <3>13. /\ \A n : n \in NodesFrom(g, j) <=>
                          \E k \in j .. Len(x.heap) - 1 : n = Node(g, k)
             /\ \A n : n \in NodesFrom(x.heap, j) <=>
                          \E k \in j .. Len(x.heap) - 1 : n = Node(x.heap, k)
        BY <3>6, <3>7, NodesByPosition
      <3>14. ASSUME q < j, c < j
             PROVE  NodesFrom(g, j) = NodesFrom(x.heap, j)
        <4>1. ASSUME NEW k \in j .. Len(x.heap) - 1
              PROVE  Node(g, k) = Node(x.heap, k)
          BY <3>6, <3>7, <3>14, <4>1
        <4>2. \A n : n \in NodesFrom(g, j) <=> n \in NodesFrom(x.heap, j)
          BY <3>13, <4>1
        <4> QED
          BY <4>2
      <3>15. ASSUME q < j, c >= j
             PROVE  ReplacesOne(NodesFrom(h, j), NodesFrom(g, j), Node(h, 0))
        <4> DEFINE z == Node(x.heap, c)
        <4>1. c \in j .. Len(x.heap) - 1
          BY <3>6, <3>15
        <4>2. Node(h, 0) \in NodesFrom(g, j)
          BY <3>12, <3>13, <4>1
        <4>3. ASSUME NEW k \in j .. Len(x.heap) - 1, k # c
              PROVE  Node(g, k) = Node(x.heap, k)
          BY <3>6, <3>7, <3>15, <4>3
        <4>4. NodesFrom(g, j) \subseteq NodesFrom(x.heap, j) \cup {Node(h, 0)}
          <5>1. ASSUME NEW n \in NodesFrom(g, j)
                PROVE  n \in NodesFrom(x.heap, j) \cup {Node(h, 0)}
            <6>1. PICK k \in j .. Len(x.heap) - 1 : n = Node(g, k)
              BY <3>13
            <6> QED
              BY <3>12, <3>13, <4>3, <6>1
          <5> QED
            BY <5>1
        <4>5. NodesFrom(x.heap, j) \ {z} \subseteq NodesFrom(g, j)
          <5>1. ASSUME NEW n \in NodesFrom(x.heap, j), n # z
                PROVE  n \in NodesFrom(g, j)
            <6>1. PICK k \in j .. Len(x.heap) - 1 : n = Node(x.heap, k)
              BY <3>13
            <6>2. k # c
              BY <5>1, <6>1
            <6> QED
              BY <3>13, <4>3, <6>1, <6>2
          <5> QED
            BY <5>1
        <4> HIDE DEF z
        <4> QED
          BY <3>11, <3>15, <4>2, <4>4, <4>5 DEF ReplacesOne
      <3>16. ReplacesOne(NodesFrom(h, j), NodesFrom(g, j), Node(h, 0))
        <4>1. CASE q >= j
          BY <3>10, <3>11, <4>1
        <4>2. CASE q < j /\ c < j
          BY <3>11, <3>14, <4>2
        <4>3. CASE q < j /\ c >= j
          BY <3>15, <4>3
        <4> QED
          BY <3>6, <4>1, <4>2, <4>3
      <3>17. c < j => NodesFrom(g, j) = NodesFrom(h, j)
        <4>1. c < j => q < j
          BY <3>2, <3>6
        <4> QED
          BY <3>11, <3>14, <4>1
      <3>18. Inv(Sink(x))
        BY <3>3, <3>5, <3>7, <3>8, <3>9, <3>11, <3>12, <3>16, <3>17 DEF Inv
      <3>19. Sink(x) \in SinkStates
        BY <3>2, <3>6, <3>7 DEF SinkStates
      <3> QED
        BY <3>18, <3>19
    <2> QED
      BY <2>1, <2>2
  <1>4. I \in SUBSET SinkStates
    OBVIOUS
  <1> HIDE DEF I
  <1>5. PICK x \in I : ShiftDown(h, 0) = x.heap /\ Sink(x) = x
    BY <1>1, <1>2, <1>3, <1>4, DownLoop
  <1>6. x \in SinkStates /\ Inv(x) /\ x.heap \in Seq(Boosted)
    BY <1>5 DEF I, SinkStates
  <1>7. Ordered(x.heap)
    BY <1>5, <1>6, SinkEnds
  <1> QED
    BY <1>5, <1>6, <1>7

----------------------------------------------------------------------------
(* The operations. *)

LEMMA NodesOnly ==
    ASSUME NEW g \in Seq(Boosted), NodesFrom(g, 0) \subseteq Nodes
    PROVE  g \in Seq(Nodes)
  <1>1. Len(g) \in Nat /\ g = [k \in 1 .. Len(g) |-> g[k]]
    OBVIOUS
  <1>2. \A k \in 1 .. Len(g) : g[k] \in Nodes
    BY <1>1 DEF NodesFrom
  <1> DEFINE n == Len(g)
  <1> HIDE DEF n
  <1>3. n \in Nat /\ g = [k \in 1 .. n |-> g[k]] /\ \A k \in 1 .. n : g[k] \in Nodes
    BY <1>1, <1>2 DEF n
  <1>4. g \in [1 .. n -> Nodes]
    BY <1>3
  <1> QED
    BY <1>3, <1>4

LEMMA NodesWiden ==
    ASSUME NEW h \in Seq(Nodes)
    PROVE  h \in Seq(Boosted) /\ NodesFrom(h, 0) \subseteq Nodes
  <1>1. h \in [1 .. Len(h) -> Nodes] /\ Len(h) \in Nat
    OBVIOUS
  <1>2. \A k \in 1 .. Len(h) : h[k] \in Nodes /\ h[k] \in Boosted
    BY <1>1, PriorityTypes
  <1>3. NodesFrom(h, 0) \subseteq Nodes
    BY <1>1, <1>2 DEF NodesFrom
  <1> DEFINE n == Len(h)
  <1> HIDE DEF n
  <1>4. n \in Nat /\ h = [k \in 1 .. n |-> h[k]] /\ \A k \in 1 .. n : h[k] \in Boosted
    BY <1>1, <1>2 DEF n
  <1>5. h \in [1 .. n -> Boosted]
    BY <1>4
  <1> QED
    BY <1>3, <1>4, <1>5

\* An insertion adds the node and keeps the order.
LEMMA InsertedFacts ==
    ASSUME NEW h \in Seq(Nodes), Distinct(h), Ordered(h),
           NEW n \in Nodes, \A k \in DOMAIN h : h[k].elem # n.elem
    PROVE  LET g == Inserted(h, n)
           IN  /\ g \in Seq(Nodes) /\ Distinct(g) /\ Ordered(g)
               /\ NodesFrom(g, 0) = NodesFrom(h, 0) \cup {n}
  <1> DEFINE len == Len(h)
             a == Append(h, n)
  <1>1. /\ len \in Nat /\ a \in Seq(Nodes) /\ Len(a) = len + 1
        /\ \A k \in 1 .. len : a[k] = h[k]
        /\ a[len + 1] = n
    OBVIOUS
  <1>2. /\ \A k \in 0 .. len - 1 : Node(a, k) = Node(h, k)
        /\ Node(a, len) = n
    BY <1>1 DEF Node
  <1>3. \A k \in 0 .. len - 1 : Node(h, k).elem # n.elem
    BY <1>1 DEF Node
  <1>4. Inserted(h, n) = ShiftUp(a, len)
    BY DEF Inserted
  <1> HIDE DEF a
  <1>5. a \in Seq(Boosted) /\ NodesFrom(a, 0) \subseteq Nodes /\ h \in Seq(Boosted)
    BY <1>1, NodesWiden
  <1>6. Distinct(a)
    <2> SUFFICES ASSUME NEW p \in 0 .. Len(a) - 1, NEW q \in 0 .. Len(a) - 1,
                        Node(a, p).elem = Node(a, q).elem
                 PROVE  p = q
      BY DEF Distinct
    <2>1. (p \in 0 .. len - 1 \/ p = len) /\ (q \in 0 .. len - 1 \/ q = len)
      BY <1>1
    <2> QED
      BY <1>2, <1>3, <2>1 DEF Distinct
  <1>7. AlmostUp(a, len)
    <2> SUFFICES ASSUME NEW q \in 1 .. Len(a) - 1
                 PROVE  /\ q # len => Node(a, q).priority <= Node(a, Parent(q)).priority
                        /\ Parent(q) = len /\ len # 0 =>
                              Node(a, q).priority <= Node(a, Parent(len)).priority
      BY DEF AlmostUp
    <2>0. Len(a) \in Nat
      BY <1>1
    <2>1. q \in 1 .. len /\ Parent(q) \in 0 .. len /\ Parent(q) < q
      <3>1. Parent(q) \in 0 .. Len(a) - 1 /\ Parent(q) < q
        BY <2>0, ParentInside
      <3> QED
        BY <1>1, <3>1
    <2>2. Parent(q) # len /\ Parent(q) \in 0 .. len - 1
      BY <1>1, <2>1
    <2>3. q # len => q \in 1 .. len - 1 /\ q \in 0 .. len - 1
      BY <1>1, <2>1
    <2> QED
      BY <1>2, <2>2, <2>3 DEF Ordered
  <1>8. len \in 0 .. Len(a) - 1
    BY <1>1
  <1> DEFINE g == ShiftUp(a, len)
  <1>9. /\ g \in Seq(Boosted) /\ Len(g) = Len(a) /\ Distinct(g) /\ Ordered(g)
        /\ NodesFrom(g, 0) = NodesFrom(a, 0)
    BY <1>5, <1>6, <1>7, <1>8, ShiftUpFacts
  <1> HIDE DEF g
  <1>10. NodesFrom(a, 0) = NodesFrom(h, 0) \cup {n}
    <2>1. \A m : m \in NodesFrom(a, 0) <=> \E k \in 0 .. len : m = Node(a, k)
      <3>1. Len(a) \in Nat /\ Len(a) - 1 = len
        BY <1>1
      <3> QED
        BY <3>1, NodesByPosition
    <2>2. \A m : m \in NodesFrom(h, 0) <=> \E k \in 0 .. len - 1 : m = Node(h, k)
      BY <1>1, NodesByPosition
    <2>3. /\ \A k \in 0 .. len : k \in 0 .. len - 1 \/ k = len
          /\ \A k \in 0 .. len - 1 : k \in 0 .. len
          /\ len \in 0 .. len
      BY <1>1
    <2>4. \A m : m \in NodesFrom(a, 0) <=> m \in NodesFrom(h, 0) \/ m = n
      BY <1>2, <2>1, <2>2, <2>3
    <2> QED
      BY <2>4
  <1>11. g \in Seq(Nodes)
    BY <1>5, <1>9, NodesOnly
  <1> QED
    BY <1>4, <1>9, <1>10, <1>11 DEF g

\* An extraction removes the root and keeps the order.  From a position j
\* after the root on, the last node may have come back in place of another.
LEMMA ExtractedFacts ==
    ASSUME NEW h \in Seq(Boosted), h # <<>>, Distinct(h), Ordered(h), NEW j \in Nat
    PROVE  LET g == Extracted(h)
               last == Node(h, Len(h) - 1)
           IN  /\ g \in Seq(Boosted) /\ Len(g) = Len(h) - 1
               /\ Distinct(g) /\ Ordered(g)
               /\ NodesFrom(g, 0) = NodesFrom(h, 0) \ {Node(h, 0)}
               /\ j \in 1 .. Len(h) - 2 =>
                     ReplacesOne(NodesFrom(h, j) \ {last}, NodesFrom(g, j), last)
  <1> DEFINE len == Len(h)
             last == Node(h, len - 1)
             s == Swap(h, 0, len - 1)
             t == SubSeq(s, 1, len - 1)
  <1>1. len \in Nat /\ len > 0 /\ 0 \in 0 .. len - 1 /\ len - 1 \in 0 .. len - 1
    OBVIOUS
  <1>2. Exchanged(h, 0, len - 1, s)
    BY <1>1, SwapTwo
  <1>3. /\ s \in Seq(Boosted) /\ Len(s) = len
        /\ \A k \in 0 .. len - 1 : Node(s, k) = IF k = 0 THEN last
                                                ELSE IF k = len - 1 THEN Node(h, 0)
                                                ELSE Node(h, k)
    BY <1>2 DEF Exchanged
  <1> HIDE DEF s
  <1>4. t \in Seq(Boosted) /\ Len(t) = len - 1 /\ \A k \in 1 .. len - 1 : t[k] = s[k]
    <2>1. t \in Seq(Boosted) /\ Len(t) = len - 1
      BY <1>1, <1>3
    <2>2. \A k \in 1 .. len - 1 : t[k] = s[k]
      BY <1>1, <1>3
    <2> QED
      BY <2>1, <2>2
  <1> HIDE DEF t
  <1>5. \A k \in 0 .. len - 2 : Node(t, k) = IF k = 0 THEN last ELSE Node(h, k)
    <2> TAKE k \in 0 .. len - 2
    <2>1. k + 1 \in 1 .. len - 1 /\ k \in 0 .. len - 1 /\ k # len - 1
      BY <1>1
    <2>2. Node(t, k) = Node(s, k)
      BY <1>4, <2>1 DEF Node
    <2> QED
      BY <1>3, <2>1, <2>2
  <1>6. Extracted(h) = ShiftDown(t, 0)
    BY DEF Extracted, t, s
  <1>7. Len(t) - 1 = len - 2 /\ Len(t) \in Nat
    BY <1>1, <1>4
  <1>8. Distinct(t)
    <2> SUFFICES ASSUME NEW p \in 0 .. len - 2, NEW q \in 0 .. len - 2,
                        Node(t, p).elem = Node(t, q).elem
                 PROVE  p = q
      BY <1>7 DEF Distinct
    <2> DEFINE from(k) == IF k = 0 THEN len - 1 ELSE k
    <2>1. /\ from(p) \in 0 .. len - 1 /\ from(q) \in 0 .. len - 1
          /\ Node(t, p) = Node(h, from(p)) /\ Node(t, q) = Node(h, from(q))
      BY <1>1, <1>5
    <2>2. from(p) = from(q)
      BY <2>1 DEF Distinct
    <2> QED
      BY <1>1, <2>2
  <1>9. AlmostDown(t, 0)
    <2> SUFFICES ASSUME NEW q \in 1 .. len - 2, Parent(q) # 0
                 PROVE  Node(t, q).priority <= Node(t, Parent(q)).priority
      BY <1>7 DEF AlmostDown
    <2>1. q \in 1 .. len - 1 /\ q \in 0 .. len - 2 /\ q # 0
      BY <1>1
    <2>2. Parent(q) \in 0 .. len - 1 /\ Parent(q) < q
      BY <1>1, <2>1, ParentInside
    <2>3. Parent(q) \in 0 .. len - 2
      BY <1>1, <2>1, <2>2
    <2> QED
      BY <1>5, <2>1, <2>3 DEF Ordered
  <1> DEFINE g == ShiftDown(t, 0)
  <1>10. /\ g \in Seq(Boosted) /\ Len(g) = Len(t) /\ Distinct(g) /\ Ordered(g)
         /\ NodesFrom(g, 0) = NodesFrom(t, 0)
         /\ ReplacesOne(NodesFrom(t, j), NodesFrom(g, j), Node(t, 0))
    BY <1>4, <1>8, <1>9, ShiftDownFacts
  <1> HIDE DEF g
  <1>11. /\ \A n : n \in NodesFrom(t, 0) <=> \E k \in 0 .. len - 2 : n = Node(t, k)
         /\ \A n : n \in NodesFrom(t, j) <=> \E k \in j .. len - 2 : n = Node(t, k)
         /\ \A n : n \in NodesFrom(h, 0) <=> \E k \in 0 .. len - 1 : n = Node(h, k)
         /\ \A n : n \in NodesFrom(h, j) <=> \E k \in j .. len - 1 : n = Node(h, k)
    BY <1>1, <1>7, NodesByPosition
  <1>12. \A p, q \in 0 .. len - 1 : Node(h, p) = Node(h, q) => p = q
    BY DEF Distinct
  <1> HIDE DEF last
  <1>13. last = Node(h, len - 1)
    BY DEF last
  <1>14. NodesFrom(t, 0) = NodesFrom(h, 0) \ {Node(h, 0)}
    <2>1. ASSUME NEW k \in 0 .. len - 2
          PROVE  \E q \in 0 .. len - 1 : Node(t, k) = Node(h, q) /\ q # 0
      <3>1. CASE k = 0
        <4>1. len - 1 # 0
          <5> DEFINE n == len
          <5>1. n \in Nat /\ 0 \in 0 .. n - 2
            BY <1>1, <3>1
          <5> HIDE DEF n
          <5>2. n - 1 # 0
            BY <5>1
          <5> QED
            BY <5>2 DEF n
        <4>2. Node(t, k) = last
          <5>1. Node(t, k) = IF k = 0 THEN last ELSE Node(h, k)
            BY <1>5
          <5> QED
            BY <3>1, <5>1
        <4> QED
          BY <1>1, <1>13, <4>1, <4>2
      <3>2. CASE k # 0
        <4>1. Node(t, k) = Node(h, k) /\ k \in 0 .. len - 1
          BY <1>1, <1>5, <3>2
        <4> QED
          BY <3>2, <4>1
      <3> QED
        BY <3>1, <3>2
    <2>2. ASSUME NEW q \in 0 .. len - 1, q # 0
          PROVE  \E k \in 0 .. len - 2 : Node(h, q) = Node(t, k)
      <3>1. CASE q = len - 1
        <4>1. 0 \in 0 .. len - 2 /\ Node(t, 0) = Node(h, q)
          BY <1>1, <1>5, <1>13, <2>2, <3>1
        <4> QED
          BY <4>1
      <3>2. CASE q # len - 1
        <4>1. q \in 0 .. len - 2 /\ Node(t, q) = Node(h, q)
          BY <1>1, <1>5, <2>2, <3>2
        <4> QED
          BY <4>1
      <3> QED
        BY <3>1, <3>2
    <2>3. \A n : n \in NodesFrom(t, 0) <=> n \in NodesFrom(h, 0) /\ n # Node(h, 0)
      BY <1>1, <1>11, <1>12, <2>1, <2>2
    <2> QED
      BY <2>3
  <1>15. ASSUME j \in 1 .. len - 2
         PROVE  ReplacesOne(NodesFrom(h, j) \ {last}, NodesFrom(g, j), last)
    <2>1. Node(t, 0) = last
      BY <1>1, <1>5, <1>15
    <2>2. \A k \in j .. len - 2 : Node(t, k) = Node(h, k) /\ k \in j .. len - 1 /\ k # len - 1
                                    /\ k \in 0 .. len - 1
      BY <1>1, <1>5, <1>15
    <2>3. \A k \in j .. len - 1 : k \in j .. len - 2 \/ k = len - 1
      BY <1>1, <1>15
    <2>4. \A n : n \in NodesFrom(t, j) <=> n \in NodesFrom(h, j) /\ n # last
      <3>1. ASSUME NEW n, n \in NodesFrom(t, j)
            PROVE  n \in NodesFrom(h, j) /\ n # last
        <4>1. PICK k \in j .. len - 2 : n = Node(t, k)
          BY <1>11, <3>1
        <4>2. n = Node(h, k) /\ k \in j .. len - 1 /\ k # len - 1 /\ k \in 0 .. len - 1
          BY <2>2, <4>1
        <4>3. n # last
          BY <1>1, <1>12, <1>13, <4>2
        <4> QED
          BY <1>11, <4>2, <4>3
      <3>2. ASSUME NEW n, n \in NodesFrom(h, j), n # last
            PROVE  n \in NodesFrom(t, j)
        <4>1. PICK k \in j .. len - 1 : n = Node(h, k)
          BY <1>11, <3>2
        <4>2. k \in j .. len - 2
          BY <1>13, <2>3, <3>2, <4>1
        <4> QED
          BY <1>11, <2>2, <4>1, <4>2
      <3> QED
        BY <3>1, <3>2
    <2>5. NodesFrom(t, j) = NodesFrom(h, j) \ {last}
      BY <2>4
    <2> QED
      BY <1>10, <2>1, <2>5
  <1> QED
    BY <1>4, <1>6, <1>10, <1>14, <1>15 DEF g, last

\* A removal takes the node away and keeps the order.  From its position on,
\* at most one more node (a) goes out and at most one (b) comes in.
LEMMA RemovedFacts ==
    ASSUME NEW h \in Seq(Nodes), Distinct(h), Ordered(h), NEW p \in 0 .. Len(h) - 1
    PROVE  LET g == Removed(h, p)
               n == Node(h, p)
           IN  /\ g \in Seq(Nodes) /\ Distinct(g) /\ Ordered(g)
               /\ NodesFrom(g, 0) = NodesFrom(h, 0) \ {n}
               /\ \E a, b : /\ NodesFrom(h, p) \ {n, a} \subseteq NodesFrom(g, p)
                            /\ NodesFrom(g, p) \subseteq NodesFrom(h, p) \cup {b}
  <1> DEFINE len == Len(h)
             n == Node(h, p)
             top == [n EXCEPT !.priority = MaxPriority]
             up == [h EXCEPT ![p + 1].priority = MaxPriority]
             s == ShiftUp(up, p)
             g == Extracted(s)
             last == Node(h, len - 1)
  <1>1. /\ len \in Nat /\ p \in Nat /\ p < len /\ p + 1 \in 1 .. len
        /\ h \in Seq(Boosted) /\ NodesFrom(h, 0) \subseteq Nodes
    BY NodesWiden
  <1>2. n \in Nodes
    BY <1>1 DEF Node
  <1>3. /\ top \in Boosted /\ top.elem = n.elem /\ top.priority = MaxPriority
        /\ top \notin Nodes
    <2>1. top \in Boosted /\ top.elem = n.elem /\ top.priority = MaxPriority
      BY <1>2 DEF Nodes, Boosted
    <2>2. MaxPriority \in Nat /\ \A m \in Nodes : m.priority < MaxPriority
      BY PriorityTypes, PriorityAssumption
    <2> HIDE DEF top
    <2>3. top \notin Nodes
      <3> SUFFICES ASSUME top \in Nodes
                   PROVE  FALSE
        OBVIOUS
      <3>1. MaxPriority < MaxPriority
        BY <2>1, <2>2
      <3> QED
        BY <2>2, <3>1
    <2> QED
      BY <2>1, <2>3
  <1>4. up = [h EXCEPT ![p + 1] = top]
    BY DEF Node
  <1>5. /\ up \in Seq(Boosted) /\ Len(up) = len
        /\ \A k \in 0 .. len - 1 : Node(up, k) = IF k = p THEN top ELSE Node(h, k)
    <2> HIDE DEF top, up
    <2>1. h \in [1 .. len -> Boosted]
      BY <1>1
    <2>2. up \in [1 .. len -> Boosted]
      BY <1>3, <1>4, <2>1
    <2>3. up \in Seq(Boosted) /\ Len(up) = len
      BY <1>1, <2>2
    <2>4. \A k \in 0 .. len - 1 : Node(up, k) = IF k = p THEN top ELSE Node(h, k)
      BY <1>1, <1>4, <2>1 DEF Node
    <2> QED
      BY <2>3, <2>4
  <1>6. Removed(h, p) = g
    BY DEF Removed
  <1>7. \A k \in 0 .. len - 1 :
           /\ Node(h, k) \in Nodes /\ Node(h, k).priority \in Nat
           /\ Node(h, k).priority <= MaxPriority
           /\ Node(up, k).elem = Node(h, k).elem
    <2> TAKE k \in 0 .. len - 1
    <2>1. k + 1 \in 1 .. len
      BY <1>1
    <2>2. Node(h, k) \in Nodes
      BY <2>1 DEF Node
    <2>3. Node(h, k).priority \in Nat /\ Node(h, k).priority <= MaxPriority
      BY <1>1, NodeType
    <2>4. Node(up, k).elem = Node(h, k).elem
      BY <1>3, <1>5
    <2> QED
      BY <2>2, <2>3, <2>4
  <1> HIDE DEF top, up, n
  <1>8. Node(h, p) = n
    BY DEF n
  <1>9. Distinct(up)
    BY <1>5, <1>7 DEF Distinct
  <1>10. AlmostUp(up, p)
    <2> SUFFICES ASSUME NEW q \in 1 .. len - 1
                 PROVE  /\ q # p => Node(up, q).priority <= Node(up, Parent(q)).priority
                        /\ Parent(q) = p /\ p # 0 =>
                              Node(up, q).priority <= Node(up, Parent(p)).priority
      BY <1>5 DEF AlmostUp
    <2>1. /\ q \in 0 .. len - 1 /\ Parent(q) \in 0 .. len - 1 /\ Parent(q) < q
      BY <1>1, ParentInside
    <2>2. /\ Node(h, q).priority <= Node(h, Parent(q)).priority
          /\ Node(h, q).priority \in Nat /\ Node(h, Parent(q)).priority \in Nat
          /\ Node(h, q).priority <= MaxPriority
      BY <1>7, <2>1 DEF Ordered
    <2>3. ASSUME q # p
          PROVE  Node(up, q).priority <= Node(up, Parent(q)).priority
      <3>1. Node(up, q) = Node(h, q)
        BY <1>5, <2>1, <2>3
      <3>2. CASE Parent(q) = p
        <4>1. Node(up, Parent(q)) = top
          BY <1>5, <2>1, <3>2
        <4> QED
          BY <1>3, <2>2, <3>1, <4>1
      <3>3. CASE Parent(q) # p
        <4>1. Node(up, Parent(q)) = Node(h, Parent(q))
          BY <1>5, <2>1, <3>3
        <4> QED
          BY <2>2, <3>1, <4>1
      <3> QED
        BY <3>2, <3>3
    <2>4. ASSUME Parent(q) = p, p # 0
          PROVE  Node(up, q).priority <= Node(up, Parent(p)).priority
      <3>1. p \in 1 .. len - 1
        BY <1>1, <2>4
      <3>2. Parent(p) \in 0 .. len - 1 /\ Parent(p) < p
        BY <1>1, <3>1, ParentInside
      <3>3. Node(up, Parent(p)) = Node(h, Parent(p)) /\ Node(up, q) = Node(h, q)
        BY <1>1, <1>5, <2>1, <2>4, <3>2
      <3>4. /\ Node(h, p).priority <= Node(h, Parent(p)).priority
            /\ Node(h, p).priority \in Nat /\ Node(h, Parent(p)).priority \in Nat
        BY <1>1, <1>7, <3>1, <3>2 DEF Ordered
      <3> QED
        BY <2>2, <2>4, <3>3, <3>4
    <2> QED
      BY <2>3, <2>4
  <1>11. /\ s \in Seq(Boosted) /\ Len(s) = len /\ Distinct(s) /\ Ordered(s)
         /\ NodesFrom(s, 0) = NodesFrom(up, 0)
         /\ \A k \in p + 1 .. len - 1 : Node(s, k) = Node(up, k)
         /\ \E r \in 0 .. p :
               /\ Node(s, r) = Node(up, p)
               /\ r # 0 => Node(s, r).priority <= Node(s, Parent(r)).priority
    <2>1. p \in 0 .. Len(up) - 1
      BY <1>1, <1>5
    <2> QED
      BY <1>5, <1>9, <1>10, <2>1, ShiftUpFacts
  <1> HIDE DEF s
  <1>12. \A m : m \in NodesFrom(s, 0) <=> m = top \/ (m \in NodesFrom(h, 0) /\ m # n)
    <2>1. \A m : m \in NodesFrom(up, 0) <=> \E k \in 0 .. len - 1 : m = Node(up, k)
      BY <1>1, <1>5, NodesByPosition
    <2>2. \A m : m \in NodesFrom(h, 0) <=> \E k \in 0 .. len - 1 : m = Node(h, k)
      BY <1>1, NodesByPosition
    <2>3. \A k \in 0 .. len - 1 : Node(h, k) = n => k = p
      BY <1>1, <1>8 DEF Distinct
    <2> QED
      BY <1>1, <1>5, <1>8, <1>11, <2>1, <2>2, <2>3
  <1>13. Node(s, 0) = top
    <2>1. PICK r \in 0 .. p :
             /\ Node(s, r) = Node(up, p)
             /\ r # 0 => Node(s, r).priority <= Node(s, Parent(r)).priority
      BY <1>11
    <2>2. Node(s, r) = top
      BY <1>1, <1>5, <2>1
    <2> SUFFICES ASSUME r # 0
                 PROVE  FALSE
      BY <2>2
    <2>3. r \in 1 .. len - 1
      BY <1>1
    <2>4. Parent(r) \in 0 .. len - 1 /\ r \in 0 .. len - 1 /\ Parent(r) < r
      BY <1>1, <2>3, ParentInside
    <2>5. MaxPriority <= Node(s, Parent(r)).priority
      BY <1>3, <2>1, <2>2
    <2>6. Node(s, Parent(r)) \in NodesFrom(s, 0)
      BY <1>1, <1>11, <2>4, NodesByPosition
    <2>7. Node(s, Parent(r)) \in Nodes \/ Node(s, Parent(r)) = top
      BY <1>1, <1>12, <2>6
    <2>8. CASE Node(s, Parent(r)) \in Nodes
      <3>1. /\ MaxPriority \in Nat /\ Node(s, Parent(r)).priority < MaxPriority
            /\ Node(s, Parent(r)).priority \in Nat
        BY <2>8, PriorityTypes, PriorityAssumption
      <3> QED
        BY <2>5, <3>1
    <2>9. CASE Node(s, Parent(r)) = top
      <3>1. Parent(r) = r
        BY <1>11, <2>2, <2>4, <2>9 DEF Distinct
      <3> QED
        BY <1>1, <2>4, <3>1
    <2> QED
      BY <2>7, <2>8, <2>9
  <1>14. /\ g \in Seq(Boosted) /\ Len(g) = len - 1 /\ Distinct(g) /\ Ordered(g)
         /\ NodesFrom(g, 0) = NodesFrom(s, 0) \ {top}
         /\ p \in 1 .. len - 2 =>
               ReplacesOne(NodesFrom(s, p) \ {Node(s, len - 1)}, NodesFrom(g, p),
                           Node(s, len - 1))
    <2>1. s # <<>>
      BY <1>1, <1>11
    <2> QED
      BY <1>1, <1>11, <1>13, <2>1, ExtractedFacts
  <1> HIDE DEF g
  <1>15. NodesFrom(g, 0) = NodesFrom(h, 0) \ {n}
    <2>1. \A m : m \in NodesFrom(g, 0) <=> m \in NodesFrom(h, 0) /\ m # n
      BY <1>1, <1>3, <1>12, <1>14
    <2> QED
      BY <2>1
  <1>16. g \in Seq(Nodes)
    BY <1>1, <1>14, <1>15, NodesOnly
  <1>17. \E a, b : /\ NodesFrom(h, p) \ {n, a} \subseteq NodesFrom(g, p)
                   /\ NodesFrom(g, p) \subseteq NodesFrom(h, p) \cup {b}
    <2> DEFINE T == NodesFrom(h, p)
               U == NodesFrom(g, p)
    <2>1. CASE p = 0
      <3>1. T \ {n, n} \subseteq U /\ U \subseteq T \cup {n}
        BY <1>15, <2>1
      <3> QED
        BY <3>1
    <2>2. /\ \A m : m \in T <=> \E k \in p .. len - 1 : m = Node(h, k)
          /\ \A m : m \in U <=> \E k \in p .. len - 2 : m = Node(g, k)
      <3>1. Len(g) \in Nat /\ Len(g) - 1 = len - 2
        BY <1>1, <1>14
      <3> QED
        BY <1>1, <3>1, NodesByPosition
    <2>3. CASE p = len - 1
      <3>1. p .. len - 2 = {} /\ p .. len - 1 = {p}
        BY <1>1, <2>3
      <3>2. T \ {n, n} \subseteq U /\ U \subseteq T \cup {n}
        BY <1>8, <2>2, <3>1
      <3> QED
        BY <3>2
    <2>4. CASE p # 0 /\ p # len - 1
      <3> DEFINE V == NodesFrom(s, p)
                 y == Node(s, p)
      <3>1. p \in 1 .. len - 2 /\ p \in p .. len - 1 /\ len - 1 \in p + 1 .. len - 1
        BY <1>1, <2>4
      <3>2. \A k \in p + 1 .. len - 1 : Node(s, k) = Node(h, k) /\ k \in p .. len - 1
        BY <1>1, <1>5, <1>11
      <3>3. Node(s, len - 1) = last /\ last \in T
        BY <2>2, <3>1, <3>2
      <3>4. \A m : m \in V <=> \E k \in p .. len - 1 : m = Node(s, k)
        BY <1>1, <1>11, NodesByPosition
      <3>5. \A k \in p .. len - 1 : k = p \/ k \in p + 1 .. len - 1
        BY <1>1
      <3>6. V \subseteq T \cup {y} /\ T \ {n} \subseteq V
        <4>1. \A m \in V : m \in T \cup {y}
          BY <2>2, <3>2, <3>4, <3>5
        <4>2. \A m \in T \ {n} : m \in V
          BY <1>8, <2>2, <3>2, <3>4, <3>5
        <4> QED
          BY <4>1, <4>2
      <3> HIDE DEF V, T, U, y, last
      <3>7. ReplacesOne(V \ {last}, U, last)
        BY <1>14, <3>1, <3>3 DEF V, U
      <3>8. CASE U = V \ {last}
        <4>1. T \ {n, last} \subseteq U /\ U \subseteq T \cup {y}
          BY <3>6, <3>8
        <4> QED
          BY <4>1 DEF T, U
      <3>9. CASE /\ last \in U /\ U \subseteq (V \ {last}) \cup {last}
                 /\ \E z : (V \ {last}) \ {z} \subseteq U
        <4>1. PICK z : (V \ {last}) \ {z} \subseteq U
          BY <3>9
        <4>2. T \ {n, z} \subseteq U /\ U \subseteq T \cup {y}
          BY <3>3, <3>6, <3>9, <4>1
        <4> QED
          BY <4>2 DEF T, U
      <3> QED
        BY <3>7, <3>8, <3>9 DEF ReplacesOne
    <2> QED
      BY <2>1, <2>3, <2>4
  <1> QED
    BY <1>6, <1>14, <1>15, <1>16, <1>17 DEF n

----------------------------------------------------------------------------
(* The invariant. *)

\* The array holds nodes of jobs, each job once, in the order of a heap.
HeapInv ==
    /\ heap \in Seq(Nodes)
    /\ Distinct(heap)
    /\ Ordered(heap)
    /\ looping \in BOOLEAN
    /\ i \in Nat

LEMMA HeapInit == Init => HeapInv
  <1> SUFFICES ASSUME Init
               PROVE  HeapInv
    OBVIOUS
  <1>1. heap = <<>> /\ Len(heap) = 0 /\ looping = FALSE /\ i = 0
    BY DEF Init
  <1>2. heap \in Seq(Nodes) /\ 0 .. Len(heap) - 1 = {} /\ 1 .. Len(heap) - 1 = {}
    BY <1>1
  <1> QED
    BY <1>1, <1>2 DEF HeapInv, Distinct, Ordered

LEMMA Position ==
    ASSUME HeapInv, i < Len(heap)
    PROVE  i \in 0 .. Len(heap) - 1 /\ Len(heap) \in Nat
BY DEF HeapInv

LEMMA HeapStep == HeapInv /\ [Next]_vars => HeapInv'
  <1> SUFFICES ASSUME HeapInv, [Next]_vars
               PROVE  HeapInv'
    OBVIOUS
  <1>1. /\ heap \in Seq(Nodes) /\ Distinct(heap) /\ Ordered(heap)
        /\ looping \in BOOLEAN /\ i \in Nat
    BY DEF HeapInv
  <1>2. ASSUME heap' \in Seq(Nodes), Distinct(heap'), Ordered(heap'),
               looping' \in BOOLEAN, i' \in Nat
        PROVE  HeapInv'
    BY <1>2 DEF HeapInv, Distinct, Ordered, Node, Parent
  <1>3. ASSUME NEW n \in Nodes, Insert(n)
        PROVE  HeapInv'
    <2>1. heap' = Inserted(heap, n) /\ \A k \in DOMAIN heap : heap[k].elem # n.elem
      BY <1>3 DEF Insert
    <2>2. heap' \in Seq(Nodes) /\ Distinct(heap') /\ Ordered(heap')
      BY <1>1, <2>1, InsertedFacts
    <2> QED
      BY <1>1, <1>2, <1>3, <2>2 DEF Insert
  <1>4. ASSUME ExtractMax
        PROVE  HeapInv'
    <2>1. heap' = Extracted(heap) /\ heap # <<>>
      BY <1>4 DEF ExtractMax
    <2>2. heap \in Seq(Boosted) /\ NodesFrom(heap, 0) \subseteq Nodes
      BY <1>1, NodesWiden
    <2>3. /\ heap' \in Seq(Boosted) /\ Distinct(heap') /\ Ordered(heap')
          /\ NodesFrom(heap', 0) = NodesFrom(heap, 0) \ {Node(heap, 0)}
      BY <1>1, <2>1, <2>2, ExtractedFacts
    <2>4. heap' \in Seq(Nodes)
      BY <2>2, <2>3, NodesOnly
    <2> QED
      BY <1>1, <1>2, <1>4, <2>3, <2>4 DEF ExtractMax
  <1>5. ASSUME CleanupRemove
        PROVE  HeapInv'
    <2>1. heap' = Removed(heap, i) /\ i < Len(heap)
      BY <1>5 DEF CleanupRemove
    <2>2. i \in 0 .. Len(heap) - 1
      BY <2>1, Position
    <2>3. heap' \in Seq(Nodes) /\ Distinct(heap') /\ Ordered(heap')
      BY <1>1, <2>1, <2>2, RemovedFacts
    <2> QED
      BY <1>1, <1>2, <1>5, <2>3 DEF CleanupRemove
  <1>6. CASE \E e \in Elems : Finish(e)
    BY <1>1, <1>2, <1>6 DEF Finish
  <1>7. CASE StartCleanup
    BY <1>1, <1>2, <1>7 DEF StartCleanup
  <1>8. CASE CleanupKeep
    BY <1>1, <1>2, <1>8 DEF CleanupKeep
  <1>9. CASE EndCleanup
    BY <1>1, <1>2, <1>9 DEF EndCleanup
  <1>10. CASE UNCHANGED vars
    BY <1>1, <1>2, <1>10 DEF vars
  <1> QED
    BY <1>3, <1>4, <1>5, <1>6, <1>7, <1>8, <1>9, <1>10 DEF Next

\* After any sequence of insertions, extractions and removals from the middle
\* (priority_heap_insert, _extract_max and _remove in the loop of
\* scheduler_priority_submit) no node of the array is larger than its parent.
THEOREM HeapStaysOrdered == Spec => []HeapOrdered
  <1>1. HeapInv => HeapOrdered
    BY DEF HeapInv, Ordered, HeapOrdered
  <1> QED
    BY <1>1, HeapInit, HeapStep, PTL DEF Spec

----------------------------------------------------------------------------
(* The array implements the set. *)

ASetOfOne == \A S, x : S \subseteq {x} => Cardinality(S) <= 1

LEMMA AtMostOne == ASetOfOne
  <1> SUFFICES ASSUME NEW S, NEW x, S \subseteq {x}
               PROVE  Cardinality(S) <= 1
    BY DEF ASetOfOne
  <1>1. S = {} \/ S = {x}
    OBVIOUS
  <1>2. Cardinality({}) = 0 /\ Cardinality({x}) = 1
    BY FS_EmptySet, FS_Singleton
  <1> QED
    BY <1>1, <1>2

LEMMA NoneAfterTheEnd ==
    ASSUME NEW h, Len(h) \in Nat, NEW p \in Nat, p >= Len(h)
    PROVE  NodesFrom(h, p) = {}
  <1>1. p + 1 .. Len(h) = {}
    OBVIOUS
  <1> QED
    BY <1>1 DEF NodesFrom

\* The nodes the abstract cleanup has yet to visit.
Todo == IF looping THEN NodesFrom(heap, i) ELSE {}

LEMMA HeapRefinesInit == Init => Abstract!Init
  <1> SUFFICES ASSUME Init
               PROVE  Abstract!Init
    OBVIOUS
  <1>1. heap = <<>> /\ looping = FALSE
    BY DEF Init
  <1>2. NodesFrom(heap, 0) = {}
    BY <1>1, NoneAfterTheEnd
  <1> QED
    BY <1>1, <1>2 DEF Abstract!Init

LEMMA HeapRefinesStep ==
    HeapInv /\ HeapInv' /\ [Next]_vars => [Abstract!Next]_(Abstract!heapVars)
  <1> DEFINE content == NodesFrom(heap, 0)
  <1> SUFFICES ASSUME HeapInv, HeapInv', [Next]_vars
               PROVE  [Abstract!Next]_(Abstract!heapVars)
    OBVIOUS
  <1>1. /\ heap \in Seq(Nodes) /\ Distinct(heap) /\ Ordered(heap)
        /\ looping \in BOOLEAN /\ i \in Nat /\ Len(heap) \in Nat
        /\ heap \in Seq(Boosted)
    BY NodesWiden DEF HeapInv
  <1>2. ASSUME NEW n \in Nodes, Insert(n)
        PROVE  Abstract!Insert(n)
    <2>1. /\ ~looping /\ looping' = looping /\ i' = i
          /\ heap' = Inserted(heap, n) /\ \A k \in DOMAIN heap : heap[k].elem # n.elem
      BY <1>2 DEF Insert
    <2>2. NodesFrom(heap', 0) = NodesFrom(heap, 0) \cup {n}
      BY <1>1, <2>1, InsertedFacts
    <2>3. n \notin NodesFrom(heap, 0)
      BY <1>1, <2>1 DEF NodesFrom
    <2> QED
      BY <2>1, <2>2, <2>3 DEF Abstract!Insert, NodesFrom
  <1>3. ASSUME ExtractMax
        PROVE  \E n \in content : Abstract!ExtractMax(n)
    <2> DEFINE n == Node(heap, 0)
    <2>1. /\ ~looping /\ looping' = looping /\ heap # <<>>
          /\ heap' = Extracted(heap)
      BY <1>3 DEF ExtractMax
    <2>2. NodesFrom(heap', 0) = NodesFrom(heap, 0) \ {n}
      BY <1>1, <2>1, ExtractedFacts
    <2>3. 0 \in 0 .. Len(heap) - 1
      BY <1>1, <2>1
    <2>4. \A m : m \in content <=> \E k \in 0 .. Len(heap) - 1 : m = Node(heap, k)
      BY <1>1, NodesByPosition
    <2>5. n \in content
      BY <2>3, <2>4
    <2>6. \A m \in content : m.priority <= n.priority
      BY <1>1, <2>4, RootIsMax
    <2>7. Abstract!ExtractMax(n)
      BY <2>1, <2>2, <2>5, <2>6 DEF Abstract!ExtractMax, NodesFrom
    <2> QED
      BY <2>5, <2>7
  <1>4. ASSUME StartCleanup
        PROVE  Abstract!StartCleanup
    BY <1>4 DEF StartCleanup, Abstract!StartCleanup
  <1>5. ASSUME CleanupKeep
        PROVE  \E n \in Todo : Abstract!Keep(n)
    <2> DEFINE n == Node(heap, i)
    <2>1. /\ looping /\ looping' /\ i < Len(heap) /\ i' = i + 1 /\ heap' = heap
      BY <1>5 DEF CleanupKeep
    <2>2. i \in 0 .. Len(heap) - 1
      BY <2>1, Position
    <2>3. /\ \A m : m \in NodesFrom(heap, i) <=>
                       \E k \in i .. Len(heap) - 1 : m = Node(heap, k)
          /\ \A m : m \in NodesFrom(heap, i + 1) <=>
                       \E k \in i + 1 .. Len(heap) - 1 : m = Node(heap, k)
      BY <1>1, NodesByPosition
    <2>4. \A k \in 0 .. Len(heap) - 1 : Node(heap, k) = n => k = i
      BY <1>1, <2>2 DEF Distinct
    <2>5. NodesFrom(heap, i + 1) = NodesFrom(heap, i) \ {n} /\ n \in NodesFrom(heap, i)
      <3>1. \A k \in i .. Len(heap) - 1 : k = i \/ k \in i + 1 .. Len(heap) - 1
        BY <1>1
      <3>2. \A k \in i + 1 .. Len(heap) - 1 :
               k \in i .. Len(heap) - 1 /\ k \in 0 .. Len(heap) - 1 /\ k # i
        BY <1>1
      <3>3. i \in i .. Len(heap) - 1
        BY <1>1, <2>2
      <3>4. \A m : m \in NodesFrom(heap, i + 1) <=> m \in NodesFrom(heap, i) /\ m # n
        BY <2>3, <2>4, <3>1, <3>2, <3>3
      <3> QED
        BY <2>3, <3>3, <3>4
    <2>6. NodesFrom(heap', i') = NodesFrom(heap, i) \ {n}
      BY <2>1, <2>5
    <2>7. Abstract!Keep(n)
      BY <2>1, <2>5, <2>6 DEF Abstract!Keep, NodesFrom
    <2> QED
      BY <2>1, <2>5, <2>7 DEF Todo
  <1>6. ASSUME CleanupRemove
        PROVE  \E n \in Todo : \E skipped \in SUBSET Todo, again \in SUBSET content :
                  Abstract!Remove(n, skipped, again)
    <2> DEFINE n == Node(heap, i)
               T == NodesFrom(heap, i)
               U == NodesFrom(heap', i')
               skipped == T \ ({n} \cup U)
               again == U \ T
    <2>1. /\ looping /\ looping' /\ i < Len(heap) /\ i' = i /\ heap' = Removed(heap, i)
      BY <1>6 DEF CleanupRemove
    <2>2. i \in 0 .. Len(heap) - 1
      BY <2>1, Position
    <2>3. /\ heap' \in Seq(Nodes) /\ NodesFrom(heap', 0) = content \ {n}
          /\ \E a, b : T \ {n, a} \subseteq U /\ U \subseteq T \cup {b}
      BY <1>1, <2>1, <2>2, RemovedFacts
    <2>4. n \in T
      BY <1>1, <2>2, NodesByPosition
    <2>5. T \subseteq content
      BY <1>1 DEF NodesFrom
    <2>6. U \subseteq NodesFrom(heap', 0)
      BY <1>1, <2>1, <2>3 DEF NodesFrom
    <2> HIDE DEF n, T, U, content
    <2>7. PICK a, b : T \ {n, a} \subseteq U /\ U \subseteq T \cup {b}
      BY <2>3
    <2>8. skipped \subseteq {a} /\ again \subseteq {b}
      BY <2>7
    <2>9. Cardinality(skipped) <= 1 /\ Cardinality(again) <= 1
      BY <2>8, AtMostOne DEF ASetOfOne
    <2>10. /\ skipped \in SUBSET T /\ skipped \subseteq T \ {n}
           /\ again \in SUBSET content /\ again \subseteq content \ T
           /\ U = (T \ ({n} \cup skipped)) \cup again
      BY <2>3, <2>5, <2>6
    <2>11. Todo = T /\ (IF looping THEN T ELSE {}) = T
           /\ (IF looping' THEN U ELSE {}) = U
      BY <2>1 DEF Todo, T
    <2> HIDE DEF skipped, again
    <2>12. Abstract!Remove(n, skipped, again)
      <3>1. /\ n \in T /\ skipped \subseteq T \ {n} /\ again \subseteq content \ T
            /\ Cardinality(skipped) <= 1 /\ Cardinality(again) <= 1
            /\ NodesFrom(heap', 0) = content \ {n}
            /\ U = (T \ ({n} \cup skipped)) \cup again
        BY <2>3, <2>4, <2>9, <2>10
      <3>2. /\ Abstract!Cardinality(skipped) = Cardinality(skipped)
            /\ Abstract!Cardinality(again) = Cardinality(again)
        BY DEF Abstract!Cardinality, Cardinality
      <3> QED
        BY <2>1, <3>1, <3>2 DEF Abstract!Remove, T, U, content, NodesFrom
    <2> QED
      BY <2>4, <2>10, <2>11, <2>12
  <1>7. ASSUME \E e \in Elems : Finish(e)
        PROVE  UNCHANGED Abstract!heapVars
    BY <1>7 DEF Finish, Abstract!heapVars, NodesFrom
  <1>8. ASSUME EndCleanup
        PROVE  UNCHANGED Abstract!heapVars
    <2>1. looping /\ ~looping' /\ i >= Len(heap) /\ heap' = heap
      BY <1>8 DEF EndCleanup
    <2>2. NodesFrom(heap, i) = {}
      BY <1>1, <2>1, NoneAfterTheEnd
    <2> QED
      BY <2>1, <2>2 DEF Abstract!heapVars, NodesFrom
  <1>9. ASSUME UNCHANGED vars
        PROVE  UNCHANGED Abstract!heapVars
    BY <1>9 DEF vars, Abstract!heapVars, NodesFrom
  <1>10. Next => Abstract!Next \/ UNCHANGED Abstract!heapVars
    BY <1>2, <1>3, <1>4, <1>5, <1>6, <1>7, <1>8 DEF Next, Abstract!Next, Todo
  <1> QED
    BY <1>9, <1>10

\* What scheduler_priority_submit and schedule_job rely on of the heap: it is
\* a set of nodes, extract_max takes one of maximal priority, nothing is lost
\* or doubled, and a removal in the cleanup loop makes the loop miss at most
\* one node and see at most one again.
THEOREM HeapRefinesSet == Spec => RefinesHeap
  <1>1. Init => HeapInv /\ Abstract!Init
    BY HeapInit, HeapRefinesInit
  <1>2. HeapInv /\ [Next]_vars => HeapInv'
    BY HeapStep
  <1>3. HeapInv /\ HeapInv' /\ [Next]_vars => [Abstract!Next]_(Abstract!heapVars)
    BY HeapRefinesStep
  <1> QED
    BY <1>1, <1>2, <1>3, PTL DEF Spec, RefinesHeap, Abstract!Spec

=============================================================================
