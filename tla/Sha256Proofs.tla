---------------------------- MODULE Sha256Proofs ----------------------------
(***************************************************************************)
(* Proofs about the SHA-256 versions, for every input and every call.      *)
(*                                                                         *)
(* The first part is the algebra of the words of Sha256Words: a sum is     *)
(* defined by its carries, and the carries are shown to ripple from each   *)
(* position to the next.  From that follows that Add is a commutative      *)
(* group, which is what lets the versions add the same terms in another    *)
(* order and fold constants.  The second part is the inductive invariant:  *)
(* what each version keeps in memory and in its scratch registers is the   *)
(* schedule of sha256_custom, and its working variables are those of       *)
(* sha256_custom.                                                          *)
(***************************************************************************)
EXTENDS Sha256Hash, WellFoundedInduction, TLAPS

----------------------------------------------------------------------------
(* Numbers. *)

LEMMA Smallest ==
    ASSUME NEW S \in SUBSET Nat, S # {}
    PROVE  \E m \in S : \A k \in S : m <= k
  <1> DEFINE R == OpToRel(<, Nat)
  <1>1. IsWellFoundedOn(R, Nat) /\ \A x, y \in Nat : y < x => <<y, x>> \in R
    BY NatLessThanWellFounded DEF OpToRel
  <1> HIDE DEF R
  <1>2. PICK m \in S : \A k \in S : ~(<<k, m>> \in R)
    BY <1>1, WFMin
  <1>3. ASSUME NEW k \in S
        PROVE  m <= k
    <2>1. m \in Nat /\ k \in Nat /\ ~(k < m)
      BY <1>1, <1>2
    <2> QED
      BY <2>1
  <1> QED
    BY <1>3

\* A set that contains 0 and, with each number before m, the next one,
\* contains the numbers up to m.
LEMMA Counting ==
    ASSUME NEW S, NEW m \in Nat,
           0 \in S,
           \A k \in 1 .. m : k - 1 \in S => k \in S
    PROVE  \A k \in 0 .. m : k \in S
  <1> SUFFICES ASSUME NEW j \in 0 .. m, j \notin S
               PROVE  FALSE
    OBVIOUS
  <1> DEFINE missing == {k \in 0 .. m : k \notin S}
  <1>1. missing \in SUBSET Nat /\ missing # {}
    OBVIOUS
  <1> HIDE DEF missing
  <1>2. PICK k \in missing : \A q \in missing : k <= q
    BY <1>1, Smallest
  <1>3. k \in 0 .. m /\ k \notin S
    BY <1>2 DEF missing
  <1>4. k # 0
    BY <1>3
  <1>5. k \in 1 .. m /\ k - 1 \in 0 .. m /\ ~(k <= k - 1)
    BY <1>3, <1>4
  <1>6. k - 1 \in S
    BY <1>2, <1>5 DEF missing
  <1> QED
    BY <1>3, <1>5, <1>6

----------------------------------------------------------------------------
(* Sums of words. *)

\* The carries of a sum ripple: into a position from the one before it, where
\* at least two of the two operands and the carry have a bit.
Ripples(size, x, y, c) ==
    /\ c \subseteq 1 .. size - 1
    /\ \A k \in 1 .. size - 1 :
          k \in c <=> \/ k - 1 \in x /\ k - 1 \in y
                      \/ k - 1 \in c /\ (k - 1 \in x \/ k - 1 \in y)

LEMMA CarriesRipple ==
    ASSUME NEW size \in Nat, NEW x \in SUBSET Nat, NEW y \in SUBSET Nat
    PROVE  Ripples(size, x, y, Carries(size, x, y))
  <1> DEFINE c == Carries(size, x, y)
             from(k, j) == j < k /\ \A m \in (j + 1) .. (k - 1) : m \in x \cup y
  <1>1. \A k : k \in c <=> k \in 1 .. size - 1 /\ \E j \in x \cap y : from(k, j)
    BY DEF Carries
  <1> HIDE DEF c
  <1>2. c \subseteq 1 .. size - 1
    BY <1>1
  <1>3. ASSUME NEW k \in 1 .. size - 1
        PROVE  k \in c <=> \/ k - 1 \in x /\ k - 1 \in y
                           \/ k - 1 \in c /\ (k - 1 \in x \/ k - 1 \in y)
    <2>1. ASSUME k - 1 \in x, k - 1 \in y
          PROVE  k \in c
      <3>1. from(k, k - 1)
        OBVIOUS
      <3> QED
        BY <1>1, <2>1, <3>1
    <2>2. ASSUME k - 1 \in c, k - 1 \in x \/ k - 1 \in y
          PROVE  k \in c
      <3>1. PICK j \in x \cap y : from(k - 1, j)
        BY <1>1, <2>2
      <3>2. j < k
        BY <3>1
      <3>3. ASSUME NEW m \in (j + 1) .. (k - 1)
            PROVE  m \in x \cup y
        <4>1. CASE m = k - 1
          BY <2>2, <4>1
        <4>2. CASE m # k - 1
          <5>1. m \in (j + 1) .. (k - 1 - 1)
            BY <4>2
          <5> QED
            BY <3>1, <5>1
        <4> QED
          BY <4>1, <4>2
      <3> QED
        BY <1>1, <3>2, <3>3
    <2>3. ASSUME k \in c, ~(k - 1 \in x /\ k - 1 \in y)
          PROVE  k - 1 \in c /\ (k - 1 \in x \/ k - 1 \in y)
      <3>1. PICK j \in x \cap y : from(k, j)
        BY <1>1, <2>3
      <3>2. j \in Nat /\ j < k /\ j # k - 1
        BY <2>3, <3>1
      <3>3. k - 1 \in (j + 1) .. (k - 1) /\ k - 1 \in 1 .. size - 1 /\ j < k - 1
        BY <3>2
      <3>4. \A m \in (j + 1) .. (k - 1 - 1) : m \in (j + 1) .. (k - 1)
        BY <3>2
      <3>5. from(k - 1, j)
        BY <3>1, <3>3, <3>4
      <3> QED
        BY <1>1, <3>1, <3>3, <3>5
    <2> QED
      BY <2>1, <2>2, <2>3
  <1> QED
    BY <1>2, <1>3 DEF Ripples, c

\* A machine word of some size.
Wide(size) == SUBSET (0 .. size - 1)

LEMMA WideFacts ==
    ASSUME NEW size \in Nat \ {0}, NEW x \in Wide(size)
    PROVE  x \in SUBSET Nat /\ x \subseteq 0 .. size - 1
BY DEF Wide

LEMMA SameWide ==
    ASSUME NEW size, NEW x \in Wide(size), NEW y \in Wide(size),
           \A k \in 0 .. size - 1 : k \in x <=> k \in y
    PROVE  x = y
BY DEF Wide

\* Of three, one or all.
Odd(a, b, c) == \/ a /\ b /\ c
                \/ a /\ ~b /\ ~c
                \/ ~a /\ b /\ ~c
                \/ ~a /\ ~b /\ c

\* The bits of a sum.
LEMMA SumBits ==
    ASSUME NEW size \in Nat \ {0}, NEW x \in Wide(size), NEW y \in Wide(size)
    PROVE  LET c == Carries(size, x, y)
           IN  /\ AddN(size, x, y) \in Wide(size)
               /\ c \subseteq 1 .. size - 1
               /\ \A k \in 0 .. size - 1 :
                     k \in AddN(size, x, y) <=> Odd(k \in x, k \in y, k \in c)
               /\ \A k \in 1 .. size - 1 :
                     k \in c <=> \/ k - 1 \in x /\ k - 1 \in y
                                 \/ k - 1 \in c /\ (k - 1 \in x \/ k - 1 \in y)
  <1> DEFINE c == Carries(size, x, y)
  <1>1. Ripples(size, x, y, c)
    BY CarriesRipple, WideFacts
  <1>2. c \subseteq 1 .. size - 1 /\ \A k \in 1 .. size - 1 :
           k \in c <=> \/ k - 1 \in x /\ k - 1 \in y
                       \/ k - 1 \in c /\ (k - 1 \in x \/ k - 1 \in y)
    BY <1>1 DEF Ripples
  <1>3. AddN(size, x, y) = Xor(Xor(x, y), c)
    BY DEF AddN
  <1> HIDE DEF c
  <1>4. ASSUME NEW k
        PROVE  k \in AddN(size, x, y) <=> Odd(k \in x, k \in y, k \in c)
    BY <1>3 DEF Xor, Odd
  <1>5. AddN(size, x, y) \in Wide(size)
    BY <1>2, <1>3 DEF Wide, Xor
  <1> QED
    BY <1>2, <1>4, <1>5 DEF c

LEMMA SumType ==
    ASSUME NEW size \in Nat \ {0}, NEW x \in Wide(size), NEW y \in Wide(size)
    PROVE  AddN(size, x, y) \in Wide(size)
BY SumBits

\* A sum is determined by any set that ripples as its carries do.
LEMMA SumFrom ==
    ASSUME NEW size \in Nat \ {0}, NEW x \in Wide(size), NEW y \in Wide(size),
           NEW c, Ripples(size, x, y, c)
    PROVE  AddN(size, x, y) = Xor(Xor(x, y), c)
  <1> DEFINE d == Carries(size, x, y)
             S == {k \in 0 .. size - 1 : k \in c <=> k \in d}
  <1>1. Ripples(size, x, y, d)
    BY CarriesRipple, WideFacts
  <1>2. AddN(size, x, y) = Xor(Xor(x, y), d)
    BY DEF AddN
  <1> HIDE DEF d
  <1>3. 0 \in S
    BY <1>1 DEF Ripples
  <1>4. ASSUME NEW k \in 1 .. size - 1, k - 1 \in S
        PROVE  k \in S
    BY <1>1, <1>4 DEF Ripples
  <1> HIDE DEF S
  <1>5. \A k \in 0 .. size - 1 : k \in S
    BY <1>3, <1>4, Counting
  <1>6. c = d
    <2>1. \A k \in 0 .. size - 1 : k \in c <=> k \in d
      BY <1>5 DEF S
    <2>2. c \subseteq 0 .. size - 1 /\ d \subseteq 0 .. size - 1
      BY <1>1 DEF Ripples
    <2>3. \A k : k \in c <=> k \in d
      BY <2>1, <2>2
    <2> QED
      BY <2>3
  <1> QED
    BY <1>2, <1>6

LEMMA SumComm ==
    ASSUME NEW size \in Nat \ {0}, NEW x \in Wide(size), NEW y \in Wide(size)
    PROVE  AddN(size, x, y) = AddN(size, y, x)
  <1> DEFINE c == Carries(size, y, x)
  <1>1. Ripples(size, y, x, c)
    BY CarriesRipple, WideFacts
  <1>2. AddN(size, y, x) = Xor(Xor(y, x), c)
    BY DEF AddN
  <1> HIDE DEF c
  <1>3. Ripples(size, x, y, c)
    BY <1>1 DEF Ripples
  <1>4. AddN(size, x, y) = Xor(Xor(x, y), c)
    BY <1>3, SumFrom
  <1>5. Xor(x, y) = Xor(y, x)
    BY DEF Xor
  <1> QED
    BY <1>2, <1>4, <1>5

\* Two summands without a common bit: no carries.
LEMMA SumDisjoint ==
    ASSUME NEW size \in Nat \ {0}, NEW x \in Wide(size), NEW y \in Wide(size),
           x \cap y = {}
    PROVE  AddN(size, x, y) = x \cup y
  <1>1. Ripples(size, x, y, {})
    BY DEF Ripples
  <1>2. AddN(size, x, y) = Xor(Xor(x, y), {})
    BY <1>1, SumFrom
  <1> QED
    BY <1>2 DEF Xor

LEMMA SumZero ==
    ASSUME NEW size \in Nat \ {0}, NEW x \in Wide(size)
    PROVE  {} \in Wide(size) /\ AddN(size, x, {}) = x
  <1>1. {} \in Wide(size)
    BY DEF Wide
  <1> DEFINE none == {}
  <1>2. x \cup none = x /\ x \cap none = {} /\ none \in Wide(size)
    BY <1>1
  <1> HIDE DEF none
  <1>3. AddN(size, x, none) = x
    BY <1>2, SumDisjoint
  <1> QED
    BY <1>1, <1>3 DEF none

LEMMA SumAssoc ==
    ASSUME NEW size \in Nat \ {0}, NEW x \in Wide(size), NEW y \in Wide(size),
           NEW z \in Wide(size)
    PROVE  AddN(size, AddN(size, x, y), z) = AddN(size, x, AddN(size, y, z))
  <1> DEFINE p == AddN(size, x, y)
             q == AddN(size, y, z)
             c == Carries(size, x, y)
             d == Carries(size, p, z)
             e == Carries(size, y, z)
             f == Carries(size, x, q)
  <1>1. /\ p \in Wide(size) /\ c \subseteq 1 .. size - 1
        /\ \A k \in 0 .. size - 1 : k \in p <=> Odd(k \in x, k \in y, k \in c)
        /\ \A k \in 1 .. size - 1 :
              k \in c <=> \/ k - 1 \in x /\ k - 1 \in y
                          \/ k - 1 \in c /\ (k - 1 \in x \/ k - 1 \in y)
    BY SumBits
  <1>2. /\ q \in Wide(size) /\ e \subseteq 1 .. size - 1
        /\ \A k \in 0 .. size - 1 : k \in q <=> Odd(k \in y, k \in z, k \in e)
        /\ \A k \in 1 .. size - 1 :
              k \in e <=> \/ k - 1 \in y /\ k - 1 \in z
                          \/ k - 1 \in e /\ (k - 1 \in y \/ k - 1 \in z)
    BY SumBits
  <1> HIDE DEF p, q, c, e
  <1>3. /\ AddN(size, p, z) \in Wide(size) /\ d \subseteq 1 .. size - 1
        /\ \A k \in 0 .. size - 1 : k \in AddN(size, p, z) <=> Odd(k \in p, k \in z, k \in d)
        /\ \A k \in 1 .. size - 1 :
              k \in d <=> \/ k - 1 \in p /\ k - 1 \in z
                          \/ k - 1 \in d /\ (k - 1 \in p \/ k - 1 \in z)
    BY <1>1, SumBits
  <1>4. /\ AddN(size, x, q) \in Wide(size) /\ f \subseteq 1 .. size - 1
        /\ \A k \in 0 .. size - 1 : k \in AddN(size, x, q) <=> Odd(k \in x, k \in q, k \in f)
        /\ \A k \in 1 .. size - 1 :
              k \in f <=> \/ k - 1 \in x /\ k - 1 \in q
                          \/ k - 1 \in f /\ (k - 1 \in x \/ k - 1 \in q)
    BY <1>2, SumBits
  <1> HIDE DEF d, f
  \* As many carries go into a position either way.
  <1> DEFINE Same(k) == /\ (k \in c /\ k \in d) <=> (k \in e /\ k \in f)
                        /\ (k \in c \/ k \in d) <=> (k \in e \/ k \in f)
             S == {k \in 0 .. size - 1 : Same(k)}
  <1>5. 0 \in S
    <2>1. 0 \notin c /\ 0 \notin d /\ 0 \notin e /\ 0 \notin f
      BY <1>1, <1>2, <1>3, <1>4
    <2> QED
      BY <2>1
  <1>6. ASSUME NEW k \in 1 .. size - 1, k - 1 \in S
        PROVE  k \in S
    <2> DEFINE j == k - 1
    <2>1. j \in 0 .. size - 1 /\ Same(j)
      BY <1>6
    <2>2. /\ j \in p <=> Odd(j \in x, j \in y, j \in c)
          /\ j \in q <=> Odd(j \in y, j \in z, j \in e)
      BY <1>1, <1>2, <2>1
    <2>3. /\ k \in c <=> (j \in x /\ j \in y) \/ (j \in c /\ (j \in x \/ j \in y))
          /\ k \in e <=> (j \in y /\ j \in z) \/ (j \in e /\ (j \in y \/ j \in z))
          /\ k \in d <=> (j \in p /\ j \in z) \/ (j \in d /\ (j \in p \/ j \in z))
          /\ k \in f <=> (j \in x /\ j \in q) \/ (j \in f /\ (j \in x \/ j \in q))
      BY <1>1, <1>2, <1>3, <1>4
    <2> HIDE DEF j
    <2>4. (k \in c /\ k \in d) <=> (k \in e /\ k \in f)
      BY <2>1, <2>2, <2>3 DEF Odd
    <2>5. (k \in c \/ k \in d) <=> (k \in e \/ k \in f)
      BY <2>1, <2>2, <2>3 DEF Odd
    <2> QED
      BY <2>4, <2>5
  <1> HIDE DEF S
  <1>7. \A k \in 0 .. size - 1 : k \in S
    BY <1>5, <1>6, Counting
  <1>8. ASSUME NEW k \in 0 .. size - 1
        PROVE  k \in AddN(size, p, z) <=> k \in AddN(size, x, q)
    <2>1. Same(k)
      BY <1>7 DEF S
    <2>2. /\ k \in p <=> Odd(k \in x, k \in y, k \in c)
          /\ k \in q <=> Odd(k \in y, k \in z, k \in e)
          /\ k \in AddN(size, p, z) <=> Odd(k \in p, k \in z, k \in d)
          /\ k \in AddN(size, x, q) <=> Odd(k \in x, k \in q, k \in f)
      BY <1>1, <1>2, <1>3, <1>4
    <2> QED
      BY <2>1, <2>2 DEF Odd
  <1>9. AddN(size, p, z) = AddN(size, x, q)
    BY <1>3, <1>4, <1>8, SameWide
  <1> QED
    BY <1>9 DEF p, q

\* The same terms in another order.
LEMMA SumSwap ==
    ASSUME NEW size \in Nat \ {0}, NEW x \in Wide(size), NEW y \in Wide(size),
           NEW z \in Wide(size)
    PROVE  /\ AddN(size, AddN(size, x, y), z) = AddN(size, AddN(size, x, z), y)
           /\ AddN(size, x, AddN(size, y, z)) = AddN(size, y, AddN(size, x, z))
  <1>1. AddN(size, y, z) = AddN(size, z, y) /\ AddN(size, x, y) = AddN(size, y, x)
    BY SumComm
  <1>2. /\ AddN(size, AddN(size, x, y), z) = AddN(size, x, AddN(size, y, z))
        /\ AddN(size, AddN(size, x, z), y) = AddN(size, x, AddN(size, z, y))
        /\ AddN(size, AddN(size, y, x), z) = AddN(size, y, AddN(size, x, z))
    BY SumAssoc
  <1> QED
    BY <1>1, <1>2

\* Words have 32 bits.
LEMMA WordsAreWide == Words = Wide(32) /\ 32 \in Nat \ {0} /\ 32 - 1 = 31
BY DEF Words, Bits, Wide

LEMMA WordFacts ==
    ASSUME NEW x \in Words
    PROVE  x \in SUBSET Nat /\ x \subseteq 0 .. 31
BY DEF Words, Bits

LEMMA AddType ==
    ASSUME NEW x \in Words, NEW y \in Words
    PROVE  Add(x, y) \in Words
BY WordsAreWide, SumType DEF Add

LEMMA SumIs ==
    ASSUME NEW x \in Words, NEW y \in Words, NEW c, Ripples(32, x, y, c)
    PROVE  Add(x, y) = Xor(Xor(x, y), c)
BY WordsAreWide, SumFrom DEF Add

LEMMA AddComm ==
    ASSUME NEW x \in Words, NEW y \in Words
    PROVE  Add(x, y) = Add(y, x)
BY WordsAreWide, SumComm DEF Add

LEMMA AddDisjoint ==
    ASSUME NEW x \in Words, NEW y \in Words, x \cap y = {}
    PROVE  Add(x, y) = x \cup y
BY WordsAreWide, SumDisjoint DEF Add

LEMMA AddZero ==
    ASSUME NEW x \in Words
    PROVE  {} \in Words /\ Add(x, {}) = x /\ Add({}, x) = x
  <1>1. {} \in Words
    BY DEF Words
  <1>2. x \cap {} = {} /\ {} \cap x = {} /\ x \cup {} = x /\ {} \cup x = x
    OBVIOUS
  <1>3. Add(x, {}) = x \cup {}
    BY <1>1, <1>2, AddDisjoint
  <1>4. Add({}, x) = {} \cup x
    BY <1>1, <1>2, AddDisjoint
  <1> QED
    BY <1>1, <1>2, <1>3, <1>4

LEMMA AddAssoc ==
    ASSUME NEW x \in Words, NEW y \in Words, NEW z \in Words
    PROVE  Add(Add(x, y), z) = Add(x, Add(y, z))
BY WordsAreWide, SumAssoc DEF Add

LEMMA AddSwap ==
    ASSUME NEW x \in Words, NEW y \in Words, NEW z \in Words
    PROVE  /\ Add(Add(x, y), z) = Add(Add(x, z), y)
           /\ Add(x, Add(y, z)) = Add(y, Add(x, z))
BY WordsAreWide, SumSwap DEF Add

LEMMA AddInner ==
    ASSUME NEW u \in Words, NEW x \in Words, NEW y \in Words, NEW z \in Words
    PROVE  Add(Add(u, x), Add(y, z)) = Add(Add(u, y), Add(x, z))
  <1>1. Add(y, z) \in Words /\ Add(x, z) \in Words
    BY AddType
  <1>2. /\ Add(Add(u, x), Add(y, z)) = Add(u, Add(x, Add(y, z)))
        /\ Add(Add(u, y), Add(x, z)) = Add(u, Add(y, Add(x, z)))
    BY <1>1, AddAssoc
  <1>3. Add(x, Add(y, z)) = Add(y, Add(x, z))
    BY AddSwap
  <1> QED
    BY <1>2, <1>3

\* The complement is the inverse, but for one.
LEMMA AddNot ==
    ASSUME NEW x \in Words
    PROVE  Not(x) \in Words /\ Add(x, Not(x)) = Bits
  <1>1. Not(x) \in Words /\ x \cap Not(x) = {} /\ x \cup Not(x) = Bits
    BY DEF Not, Words
  <1> QED
    BY <1>1, AddDisjoint

LEMMA OneBit == {0} \in Words /\ Bits \in Words /\ Add(Bits, {0}) = {}
  <1>1. {0} \in Words /\ Bits \in Words
    BY DEF Words, Bits
  <1> DEFINE c == 1 .. 31
  <1>2. Ripples(32, Bits, {0}, c)
    BY DEF Ripples, Bits
  <1>3. Add(Bits, {0}) = Xor(Xor(Bits, {0}), c)
    BY <1>1, <1>2, SumIs
  <1>4. \A k : k \notin Xor(Xor(Bits, {0}), c)
    BY DEF Xor, Bits
  <1> QED
    BY <1>1, <1>3, <1>4

\* What Sub takes away can be added again.
LEMMA SubInverse ==
    ASSUME NEW x \in Words, NEW y \in Words
    PROVE  /\ Sub(x, y) \in Words
           /\ Add(Sub(x, y), y) = x
           /\ Sub(Add(x, y), y) = x
  <1> DEFINE m == Add(Not(y), {0})
  <1>1. Not(y) \in Words /\ {0} \in Words /\ m \in Words
    BY AddNot, OneBit, AddType
  <1>2. Add(y, m) = {}
    <2>1. Add(Add(y, Not(y)), {0}) = Add(y, m)
      BY <1>1, AddAssoc
    <2> QED
      BY <2>1, AddNot, OneBit
  <1>3. Add(m, y) = {}
    BY <1>1, <1>2, AddComm
  <1>4. \A u \in Words : Sub(u, y) = Add(u, m)
    <2> TAKE u \in Words
    <2>1. Add(Add(u, Not(y)), {0}) = Add(u, m)
      BY <1>1, AddAssoc
    <2> QED
      BY <2>1 DEF Sub
  <1> HIDE DEF m
  <1>5. Add(x, y) \in Words
    BY AddType
  <1>6. Sub(x, y) = Add(x, m) /\ Sub(Add(x, y), y) = Add(Add(x, y), m)
    BY <1>4, <1>5
  <1>7. /\ Add(Add(x, m), y) = Add(x, Add(m, y))
        /\ Add(Add(x, y), m) = Add(x, Add(y, m))
    BY <1>1, AddAssoc
  <1>8. Add(x, {}) = x
    BY AddZero
  <1>9. Add(x, m) \in Words
    BY <1>1, AddType
  <1> QED
    BY <1>2, <1>3, <1>6, <1>7, <1>8, <1>9

LEMMA Cancel ==
    ASSUME NEW x \in Words, NEW y \in Words, NEW z \in Words, Add(x, z) = Add(y, z)
    PROVE  x = y
  <1>1. Sub(Add(x, z), z) = x /\ Sub(Add(y, z), z) = y
    BY SubInverse
  <1> QED
    BY <1>1

----------------------------------------------------------------------------
(* The functions of SHA-256 take words to words. *)

LEMMA RotrType ==
    ASSUME NEW x \in Words, NEW k \in 0 .. 31
    PROVE  rotr(x, k) \in Words /\ Shr(x, k) \in Words
BY DEF rotr, Shr, Words, Bits

LEMMA XorType ==
    ASSUME NEW x \in Words, NEW y \in Words
    PROVE  Xor(x, y) \in Words
BY DEF Xor, Words

LEMMA SigmaTypes ==
    ASSUME NEW x \in Words
    PROVE  s0(x) \in Words /\ s1(x) \in Words /\ S0(x) \in Words /\ S1(x) \in Words
  <1>1. \A k \in 0 .. 31 : rotr(x, k) \in Words /\ Shr(x, k) \in Words
    BY RotrType
  <1>2. s0(x) \in Words
    BY <1>1, XorType DEF s0
  <1>3. s1(x) \in Words
    BY <1>1, XorType DEF s1
  <1>4. S0(x) \in Words
    BY <1>1, XorType DEF S0
  <1>5. S1(x) \in Words
    BY <1>1, XorType DEF S1
  <1> QED
    BY <1>2, <1>3, <1>4, <1>5

LEMMA ChoiceTypes ==
    ASSUME NEW x \in Words, NEW y \in Words, NEW z \in Words
    PROVE  ch(x, y, z) \in Words /\ maj(x, y, z) \in Words
BY DEF ch, maj, Xor, Not, Words

LEMMA SigmaZero == s0({}) = {} /\ s1({}) = {}
  <1>1. \A k : rotr({}, k) = {} /\ Shr({}, k) = {}
    BY DEF rotr, Shr
  <1>2. Xor({}, {}) = {}
    BY DEF Xor
  <1> QED
    BY <1>1, <1>2 DEF s0, s1

LEMMA ConstantWords ==
    /\ c80 \in Words /\ c64 \in Words
    /\ \A hi, lo : W32(hi, lo) \in Words
  <1>1. c80 \in Words /\ c64 \in Words
    BY DEF c80, c64, Words, Bits
  <1>2. \A hi, lo : W32(hi, lo) \in Words
    BY DEF W32, Words, Bits
  <1> QED
    BY <1>1, <1>2

LEMMA TableTypes ==
    /\ \A j \in 0 .. 63 : K(j) \in Words
    /\ H \in [1 .. 8 -> Words]
  <1>1. \A j \in 1 .. 64 : KTable[j] \in Words
    BY ConstantWords DEF KTable
  <1>2. \A j \in 0 .. 63 : K(j) \in Words
    BY <1>1 DEF K
  <1>3. H \in [1 .. 8 -> Words]
    BY ConstantWords DEF H
  <1> QED
    BY <1>2, <1>3

LEMMA BswapType ==
    ASSUME NEW x \in Words
    PROVE  Bswap(x) \in Words /\ Bswap(Bswap(x)) = x
  <1> DEFINE Moved(b) == 8 * (3 - (b \div 8)) + (b % 8)
  <1>1. \A b \in 0 .. 31 : Moved(b) \in 0 .. 31 /\ Moved(Moved(b)) = b
    OBVIOUS
  <1>2. Bswap(x) = {Moved(b) : b \in x}
    BY DEF Bswap
  <1>3. Bswap(Bswap(x)) = {Moved(b) : b \in Bswap(x)}
    BY DEF Bswap
  <1> HIDE DEF Moved
  <1>4. Bswap(x) \in Words
    BY <1>1, <1>2 DEF Words, Bits
  <1>5. \A b : b \in Bswap(Bswap(x)) <=> b \in x
    BY <1>1, <1>2, <1>3, WordFacts
  <1> QED
    BY <1>4, <1>5

LEMMA HalfTypes ==
    ASSUME NEW d \in SUBSET (0 .. 63)
    PROVE  Low(d) \in Words /\ High(d) \in Words
  <1>1. \A b \in d : b \in 0 .. 63
    OBVIOUS
  <1>2. \A b \in Low(d) : b \in 0 .. 31
    <2> TAKE b \in Low(d)
    <2>1. b \in d /\ b < 32
      BY DEF Low
    <2>2. b \in 0 .. 63
      BY <1>1, <2>1
    <2> QED
      BY <2>1, <2>2
  <1>3. \A b \in d \ Bits : b - 32 \in 0 .. 31
    BY <1>1 DEF Bits
  <1>4. High(d) \subseteq 0 .. 31
    BY <1>3 DEF High
  <1> QED
    BY <1>2, <1>4 DEF Words, Bits

\* A round of words is a round of words.
LEMMA CompressType ==
    ASSUME NEW s \in [1 .. 8 -> Words], NEW kw \in Words
    PROVE  /\ Temp1(s, kw) \in Words /\ Temp2(s) \in Words
           /\ Compress(s, kw) \in [1 .. 8 -> Words]
  <1>1. \A v \in 1 .. 8 : s[v] \in Words
    OBVIOUS
  <1>2. S0(s[1]) \in Words /\ S1(s[5]) \in Words
    BY <1>1, SigmaTypes
  <1>3. maj(s[1], s[2], s[3]) \in Words /\ ch(s[5], s[6], s[7]) \in Words
    BY <1>1, ChoiceTypes
  <1>4. Temp2(s) \in Words
    BY <1>2, <1>3, AddType DEF Temp2
  <1>5. Add(s[8], S1(s[5])) \in Words
    BY <1>1, <1>2, AddType
  <1>6. Add(Add(s[8], S1(s[5])), ch(s[5], s[6], s[7])) \in Words
    BY <1>3, <1>5, AddType
  <1>7. Temp1(s, kw) \in Words
    BY <1>6, AddType DEF Temp1
  <1>8. Add(Temp1(s, kw), Temp2(s)) \in Words /\ Add(s[4], Temp1(s, kw)) \in Words
    BY <1>1, <1>4, <1>7, AddType
  <1> QED
    BY <1>1, <1>4, <1>7, <1>8 DEF Compress
----------------------------------------------------------------------------
(* The words of the schedule. *)

\* The first m words of a schedule: the block, zero but for the candidate, the
\* padding bit and the length, and m - 16 words after it.
ScheduleTo(p, m) ==
    /\ p \in [0 .. m - 1 -> Words]
    /\ p[2] = c80
    /\ p[15] = c64
    /\ \A j \in 3 .. 14 : p[j] = {}

\* A version finds the words that the next one is made of, where that one is
\* not made of constants only.
Supplied(l, p) ==
    /\ n = 16 => FirstWord(l, 0) = p[0]
    /\ n \in 16 .. 17 => FirstWord(l, 1) = p[1]
    /\ n \in 18 .. 63 => Two(l) = p[n - 2]
    /\ n \in 23 .. 63 => Mem(l, n - 7) = p[n - 7]
    /\ n \in 31 .. 63 => Mem(l, n - 15) = p[n - 15]
    /\ n \in 32 .. 63 => Mem(l, n - 16) = p[n - 16]

LEMMA ExtendedType ==
    ASSUME NEW p, NEW m \in 16 .. 63, ScheduleTo(p, m)
    PROVE  /\ s1(p[m - 2]) \in Words /\ p[m - 7] \in Words
           /\ s0(p[m - 15]) \in Words /\ p[m - 16] \in Words
           /\ Extended(p, m) \in Words
  <1>1. /\ p[m - 2] \in Words /\ p[m - 7] \in Words
        /\ p[m - 15] \in Words /\ p[m - 16] \in Words
    <2>1. /\ m - 2 \in 0 .. m - 1 /\ m - 7 \in 0 .. m - 1
          /\ m - 15 \in 0 .. m - 1 /\ m - 16 \in 0 .. m - 1
      OBVIOUS
    <2> QED
      BY <2>1 DEF ScheduleTo
  <1>2. s1(p[m - 2]) \in Words /\ s0(p[m - 15]) \in Words
    BY <1>1, SigmaTypes
  <1>3. /\ Add(s1(p[m - 2]), p[m - 7]) \in Words
        /\ Add(s0(p[m - 15]), p[m - 16]) \in Words
    BY <1>1, <1>2, AddType
  <1>4. Extended(p, m) \in Words
    BY <1>3, AddType DEF Extended
  <1> QED
    BY <1>1, <1>2, <1>4

\* The words 16 to 31 without the words of the block that are zero.
LEMMA ShortWords ==
    ASSUME NEW p, NEW m \in 16 .. 31, ScheduleTo(p, m)
    PROVE  /\ m = 16 => Extended(p, m) = Add(p[0], s0(p[1]))
           /\ m = 17 => Extended(p, m) = Add(p[1], Add(s0(c80), s1(c64)))
           /\ m = 18 => Extended(p, m) = Add(c80, s1(p[16]))
           /\ m \in 19 .. 21 => Extended(p, m) = s1(p[m - 2])
           /\ m = 22 => Extended(p, m) = Add(c64, s1(p[20]))
           /\ m \in 23 .. 29 => Extended(p, m) = Add(p[m - 7], s1(p[m - 2]))
           /\ m = 30 => Extended(p, m) = Add(s0(c64), Add(p[23], s1(p[28])))
           /\ m = 31 => Extended(p, m) = Add(Add(c64, s0(p[16])), Add(p[24], s1(p[29])))
  <1> DEFINE two == s1(p[m - 2])
             seven == p[m - 7]
             fifteen == s0(p[m - 15])
             sixteen == p[m - 16]
  <1>1. two \in Words /\ seven \in Words /\ fifteen \in Words /\ sixteen \in Words
    BY ExtendedType
  <1>2. Extended(p, m) = Add(Add(two, seven), Add(fifteen, sixteen))
    BY DEF Extended
  <1>3. /\ m = 16 => two = {}
        /\ m \in 16 .. 21 => seven = {}
        /\ m \in 18 .. 29 => fifteen = {}
        /\ m \in 19 .. 30 => sixteen = {}
        /\ m = 17 => two = s1(c64) /\ fifteen = s0(c80)
        /\ m = 18 => sixteen = c80
        /\ m = 22 => seven = c64
        /\ m = 30 => fifteen = s0(c64)
        /\ m = 31 => sixteen = c64
    <2>1. p[2] = c80 /\ p[15] = c64 /\ \A j \in 3 .. 14 : p[j] = {}
      BY DEF ScheduleTo
    <2>2. m = 16 => two = {}
      BY <2>1, SigmaZero
    <2>3. m \in 16 .. 21 => seven = {}
      BY <2>1
    <2>4. m \in 18 .. 29 => fifteen = {}
      <3> HAVE m \in 18 .. 29
      <3>1. p[m - 15] = {}
        BY <2>1
      <3> QED
        BY <3>1, SigmaZero
    <2>5. m \in 19 .. 30 => sixteen = {}
      BY <2>1
    <2>6. m = 17 => two = s1(c64) /\ fifteen = s0(c80)
      BY <2>1
    <2>7. /\ m = 18 => sixteen = c80
          /\ m = 22 => seven = c64
          /\ m = 30 => fifteen = s0(c64)
          /\ m = 31 => sixteen = c64
      BY <2>1
    <2> QED
      BY <2>2, <2>3, <2>4, <2>5, <2>6, <2>7
  <1>4. /\ m = 16 => sixteen = p[0] /\ fifteen = s0(p[1])
        /\ m = 17 => sixteen = p[1]
        /\ m = 18 => two = s1(p[16])
        /\ m = 22 => two = s1(p[20])
        /\ m = 30 => two = s1(p[28]) /\ seven = p[23]
        /\ m = 31 => two = s1(p[29]) /\ seven = p[24] /\ fifteen = s0(p[16])
    OBVIOUS
  <1> HIDE DEF two, seven, fifteen, sixteen
  <1>5. /\ Add(two, seven) \in Words /\ Add(fifteen, sixteen) \in Words
        /\ {} \in Words
    BY <1>1, AddType, AddZero
  <1>6. \A x \in Words : Add(x, {}) = x /\ Add({}, x) = x
    BY AddZero
  <1>8. m = 16 => Extended(p, m) = Add(p[0], s0(p[1]))
    <2> HAVE m = 16
    <2>1. two = {} /\ seven = {} /\ Add({}, {}) = {}
      BY <1>3, <1>5, <1>6
    <2>2. Extended(p, m) = Add(fifteen, sixteen)
      BY <1>2, <1>5, <1>6, <2>1
    <2>3. Add(fifteen, sixteen) = Add(sixteen, fifteen)
      BY <1>1, AddComm
    <2> QED
      BY <1>4, <2>2, <2>3
  <1>9. m = 17 => Extended(p, m) = Add(p[1], Add(s0(c80), s1(c64)))
    <2> HAVE m = 17
    <2>1. Extended(p, m) = Add(two, Add(fifteen, sixteen))
      BY <1>1, <1>2, <1>3, <1>6
    <2>2. Add(two, Add(fifteen, sixteen)) = Add(fifteen, Add(two, sixteen))
      BY <1>1, AddSwap
    <2>3. Add(two, sixteen) = Add(sixteen, two)
      BY <1>1, AddComm
    <2>4. Add(fifteen, Add(sixteen, two)) = Add(sixteen, Add(fifteen, two))
      BY <1>1, AddSwap
    <2> QED
      BY <1>3, <1>4, <2>1, <2>2, <2>3, <2>4
  <1>10. m = 18 => Extended(p, m) = Add(c80, s1(p[16]))
    <2> HAVE m = 18
    <2>1. Extended(p, m) = Add(two, sixteen)
      BY <1>1, <1>2, <1>3, <1>6
    <2>2. Add(two, sixteen) = Add(sixteen, two)
      BY <1>1, AddComm
    <2> QED
      BY <1>3, <1>4, <2>1, <2>2
  <1>11. m \in 19 .. 21 => Extended(p, m) = two
    <2> HAVE m \in 19 .. 21
    <2>1. seven = {} /\ fifteen = {} /\ sixteen = {}
      BY <1>3
    <2>2. Add(two, {}) = two /\ Add({}, {}) = {}
      BY <1>1, <1>5, <1>6
    <2> QED
      BY <1>2, <2>1, <2>2
  <1>12. m = 22 => Extended(p, m) = Add(c64, s1(p[20]))
    <2> HAVE m = 22
    <2>1. seven = c64 /\ fifteen = {} /\ sixteen = {}
      BY <1>3
    <2>2. Add(Add(two, seven), {}) = Add(two, seven) /\ Add({}, {}) = {}
      BY <1>5, <1>6
    <2>3. Add(two, seven) = Add(seven, two)
      BY <1>1, AddComm
    <2> QED
      BY <1>2, <1>4, <2>1, <2>2, <2>3
  <1>13. m \in 23 .. 29 => Extended(p, m) = Add(seven, two)
    <2> HAVE m \in 23 .. 29
    <2>1. fifteen = {} /\ sixteen = {}
      BY <1>3
    <2>2. Add(Add(two, seven), {}) = Add(two, seven) /\ Add({}, {}) = {}
      BY <1>5, <1>6
    <2>3. Add(two, seven) = Add(seven, two)
      BY <1>1, AddComm
    <2> QED
      BY <1>2, <2>1, <2>2, <2>3
  <1>14. Extended(p, m) = Add(Add(fifteen, sixteen), Add(seven, two))
    <2>1. Add(two, seven) = Add(seven, two)
      BY <1>1, AddComm
    <2>2. Add(Add(two, seven), Add(fifteen, sixteen))
          = Add(Add(fifteen, sixteen), Add(two, seven))
      BY <1>5, AddComm
    <2> QED
      BY <1>2, <2>1, <2>2
  <1>15. m = 30 => Extended(p, m) = Add(s0(c64), Add(p[23], s1(p[28])))
    <2> HAVE m = 30
    <2>1. Add(fifteen, sixteen) = fifteen
      BY <1>1, <1>3, <1>6
    <2> QED
      BY <1>3, <1>4, <1>14, <2>1
  <1>16. m = 31
         => Extended(p, m) = Add(Add(c64, s0(p[16])), Add(p[24], s1(p[29])))
    <2> HAVE m = 31
    <2>1. Add(fifteen, sixteen) = Add(sixteen, fifteen)
      BY <1>1, AddComm
    <2> QED
      BY <1>3, <1>4, <1>14, <2>1
  <1> QED
    BY <1>8, <1>9, <1>10, <1>11, <1>12, <1>13, <1>15, <1>16 DEF two, seven

\* Any version makes the words of the plain schedule.
LEMMA NewWordRight ==
    ASSUME NEW l, NEW p, n \in 16 .. 63, ScheduleTo(p, n), Supplied(l, p)
    PROVE  NewWord(l) = Extended(p, n)
  <1>1. CASE n \in 16 .. 18
    <2>1. NewWord(l) = Word16To18(l)
      BY <1>1 DEF NewWord
    <2>2. CASE n = 16
      BY <2>1, <2>2, ShortWords DEF Word16To18, Supplied
    <2>3. CASE n = 17
      BY <2>1, <2>3, ShortWords DEF Word16To18, Supplied
    <2>4. CASE n = 18
      BY <2>1, <2>4, ShortWords DEF Word16To18, Supplied
    <2> QED
      BY <1>1, <2>2, <2>3, <2>4
  <1>2. CASE n \in 19 .. 22
    <2>1. NewWord(l) = Word19To22(l)
      BY <1>2 DEF NewWord
    <2>2. CASE n = 22
      BY <2>1, <2>2, ShortWords DEF Word19To22, Supplied
    <2>3. CASE n \in 19 .. 21
      BY <2>1, <2>3, ShortWords DEF Word19To22, Supplied
    <2> QED
      BY <1>2, <2>2, <2>3
  <1>3. CASE n \in 23 .. 29
    <2>1. NewWord(l) = Word23To29(l)
      BY <1>3 DEF NewWord
    <2> QED
      BY <1>3, <2>1, ShortWords DEF Word23To29, Supplied
  <1>4. CASE n \in 30 .. 31
    <2>1. NewWord(l) = Word30And31(l)
      BY <1>4 DEF NewWord
    <2>2. CASE n = 30
      BY <2>1, <2>2, ShortWords DEF Word30And31, Supplied
    <2>3. CASE n = 31
      BY <2>1, <2>3, ShortWords DEF Word30And31, Supplied
    <2> QED
      BY <1>4, <2>2, <2>3
  <1>5. CASE n \in 32 .. 63
    <2>1. NewWord(l) = LaterWord(l)
      BY <1>5 DEF NewWord
    <2> DEFINE two == s1(p[n - 2])
               seven == p[n - 7]
               fifteen == s0(p[n - 15])
               sixteen == p[n - 16]
    <2>2. LaterWord(l) = Add(Add(sixteen, seven), Add(fifteen, two))
      BY <1>5 DEF LaterWord, Supplied
    <2>3. two \in Words /\ seven \in Words /\ fifteen \in Words /\ sixteen \in Words
      BY ExtendedType
    <2>4. Extended(p, n) = Add(Add(two, seven), Add(fifteen, sixteen))
      BY DEF Extended
    <2> HIDE DEF two, seven, fifteen, sixteen
    <2>5. Add(sixteen, seven) = Add(seven, sixteen) /\ Add(fifteen, two) = Add(two, fifteen)
      BY <2>3, AddComm
    <2>6. Add(Add(seven, sixteen), Add(two, fifteen))
          = Add(Add(seven, two), Add(sixteen, fifteen))
      BY <2>3, AddInner
    <2>7. Add(seven, two) = Add(two, seven) /\ Add(sixteen, fifteen) = Add(fifteen, sixteen)
      BY <2>3, AddComm
    <2> QED
      BY <2>1, <2>2, <2>4, <2>5, <2>6, <2>7
  <1> QED
    BY <1>1, <1>2, <1>3, <1>4, <1>5
----------------------------------------------------------------------------
(* The constants folded into the assembly versions. *)

\* A partial word and its offset are the word, and with the folded constant
\* they add up to what the word and the round's own constant do.
LEMMA FoldedWordRight ==
    ASSUME NEW l, NEW p, n \in 16 .. 31, ScheduleTo(p, n), Supplied(l, p)
    PROVE  /\ Add(Partial(l), WordOffset) = Extended(p, n)
           /\ Add(Partial(l), FoldedConstant(n)) = Add(K(n), Extended(p, n))
  <1> DEFINE x == Extended(p, n)
  <1>1. NewWord(l) = x
    BY NewWordRight
  <1>2. x \in Words /\ p[n - 2] \in Words /\ s1(p[n - 2]) \in Words /\ K(n) \in Words
    <2>1. n - 2 \in 0 .. n - 1
      OBVIOUS
    <2>2. p[n - 2] \in Words
      BY <2>1 DEF ScheduleTo
    <2>3. x \in Words /\ s1(p[n - 2]) \in Words
      BY ExtendedType
    <2> QED
      BY <2>2, <2>3, TableTypes
  <1>4. CASE n = 17
    <2> DEFINE rest == W32(\h1128, \h2000)
    <2>1. p[1] \in Words /\ rest \in Words
      BY <1>4, ConstantWords DEF ScheduleTo
    <2>2. Partial(l) = p[1]
      BY <1>4 DEF Partial, Supplied
    <2>3. x = Add(p[1], rest)
      BY <1>4, ShortWords, FoldedSums
    <2>4. WordOffset = rest
      BY <1>4 DEF WordOffset
    <2>5. FoldedConstant(n) = Add(K(n), rest)
      BY <1>4, FoldedSums DEF FoldedConstant
    <2> HIDE DEF rest
    <2>6. Add(p[1], Add(K(n), rest)) = Add(K(n), Add(p[1], rest))
      BY <1>2, <2>1, AddSwap
    <2> QED
      BY <2>2, <2>3, <2>4, <2>5, <2>6
  <1>5. CASE n = 18
    <2>1. Partial(l) = s1(p[16])
      BY <1>5 DEF Partial, Supplied
    <2>2. c80 \in Words /\ s1(p[16]) \in Words
      BY <1>2, <1>5, ConstantWords
    <2>3. x = Add(s1(p[16]), c80)
      BY <1>5, <2>2, ShortWords, AddComm
    <2>4. WordOffset = c80
      BY <1>5 DEF WordOffset
    <2>5. FoldedConstant(n) = Add(K(n), c80)
      BY <1>5, FoldedSums DEF FoldedConstant
    <2>6. Add(s1(p[16]), Add(K(n), c80)) = Add(K(n), Add(s1(p[16]), c80))
      BY <1>2, <2>2, AddSwap
    <2> QED
      BY <2>1, <2>3, <2>4, <2>5, <2>6
  <1>6. CASE n = 22
    <2>1. Partial(l) = s1(p[20])
      BY <1>6 DEF Partial, Supplied
    <2>2. c64 \in Words /\ s1(p[20]) \in Words
      BY <1>2, <1>6, ConstantWords
    <2>3. x = Add(s1(p[20]), c64)
      BY <1>6, <2>2, ShortWords, AddComm
    <2>4. WordOffset = c64
      BY <1>6 DEF WordOffset
    <2>5. FoldedConstant(n) = Add(K(n), c64)
      BY <1>6, FoldedSums DEF FoldedConstant
    <2>6. Add(s1(p[20]), Add(K(n), c64)) = Add(K(n), Add(s1(p[20]), c64))
      BY <1>2, <2>2, AddSwap
    <2> QED
      BY <2>1, <2>3, <2>4, <2>5, <2>6
  <1>7. CASE n = 30
    <2> DEFINE rest == W32(\h8010, \h0008)
               part == Add(p[23], s1(p[28]))
    <2>1. Partial(l) = part
      BY <1>7 DEF Partial, Supplied
    <2>2. rest \in Words /\ part \in Words
      <3>1. p[23] \in Words /\ s1(p[28]) \in Words
        BY <1>2, <1>7 DEF ScheduleTo
      <3> QED
        BY <3>1, AddType, ConstantWords
    <2>3. x = Add(rest, part)
      BY <1>7, ShortWords, FoldedSums
    <2>4. WordOffset = rest
      BY <1>7 DEF WordOffset
    <2>5. FoldedConstant(n) = Add(K(n), rest)
      BY <1>7, FoldedSums DEF FoldedConstant
    <2> HIDE DEF rest, part
    <2>6. x = Add(part, rest)
      BY <2>2, <2>3, AddComm
    <2>7. Add(part, Add(K(n), rest)) = Add(K(n), Add(part, rest))
      BY <1>2, <2>2, AddSwap
    <2> QED
      BY <2>1, <2>4, <2>5, <2>6, <2>7
  <1>8. CASE n \notin {17, 18, 22, 30}
    <2>1. Partial(l) = x
      BY <1>1, <1>8 DEF Partial
    <2>2. WordOffset = {}
      BY <1>8 DEF WordOffset
    <2>3. FoldedConstant(n) = K(n)
      <3>1. CASE n = 16
        BY <3>1 DEF FoldedConstant, K, KTable
      <3>2. CASE n # 16
        BY <1>8, <3>2 DEF FoldedConstant
      <3> QED
        BY <3>1, <3>2
    <2>4. Add(x, {}) = x
      BY <1>2, AddZero
    <2>5. Add(x, K(n)) = Add(K(n), x)
      BY <1>2, AddComm
    <2> QED
      BY <2>1, <2>2, <2>3, <2>4, <2>5
  <1> QED
    BY <1>4, <1>5, <1>6, <1>7, <1>8
\* The complement of a sum, as the hash function of sha256x4_fullyfused_asm
\* takes it: from a difference.
LEMMA NotSum ==
    ASSUME NEW x \in Words, NEW y \in Words
    PROVE  Sub(Not(y), x) = Not(Add(x, y))
  <1> DEFINE m == Not(Add(x, y))
  <1>1. /\ Add(x, y) \in Words /\ m \in Words /\ Not(y) \in Words
        /\ Add(Add(x, y), m) = Bits /\ Add(y, Not(y)) = Bits
    BY AddType, AddNot
  <1> HIDE DEF m
  <1>2. Add(m, x) \in Words
    BY <1>1, AddType
  <1>3. Add(Add(m, x), y) = Add(m, Add(x, y))
    BY <1>1, AddAssoc
  <1>4. Add(m, Add(x, y)) = Bits /\ Add(Not(y), y) = Bits
    BY <1>1, AddComm
  <1>5. Add(Add(m, x), y) = Add(Not(y), y)
    BY <1>3, <1>4
  <1>6. Add(m, x) = Not(y)
    BY <1>1, <1>2, <1>5, Cancel
  <1>7. Sub(Add(m, x), x) = m
    BY <1>1, SubInverse
  <1> QED
    BY <1>6, <1>7 DEF m

\* A sum with the highest bit only turns that bit over.
LEMMA NotSumButOneBit ==
    ASSUME NEW x \in Words, NEW y \in Words, NEW z \in Words, 31 \notin z
    PROVE  Sub(Add(Not(y), {31}), x) \cap z = Not(Add(x, y)) \cap z
  <1> DEFINE m == Sub(Not(y), x)
  <1>1. {31} \in Words /\ Not(y) \in Words
    BY AddNot DEF Words, Bits
  <1>2. m \in Words /\ Add(m, x) = Not(y)
    BY <1>1, SubInverse
  <1> HIDE DEF m
  <1>3. Add(m, {31}) \in Words
    BY <1>1, <1>2, AddType
  <1>4. Add(Add(m, {31}), x) = Add(Not(y), {31})
    BY <1>1, <1>2, AddSwap
  <1>5. Sub(Add(Add(m, {31}), x), x) = Add(m, {31})
    BY <1>3, SubInverse
  <1>6. Ripples(32, m, {31}, {})
    BY DEF Ripples
  <1>7. Add(m, {31}) = Xor(Xor(m, {31}), {})
    BY <1>1, <1>2, <1>6, SumIs
  <1>8. Xor(Xor(m, {31}), {}) \cap z = m \cap z
    BY DEF Xor
  <1>9. m = Not(Add(x, y))
    BY NotSum DEF m
  <1> QED
    BY <1>4, <1>5, <1>7, <1>8, <1>9

\* The majority of three in two parts without a common bit.
MajParts(x, y, z, p, q) == p = x \cap Xor(y, z) /\ q = y \cap z

LEMMA MajSplit ==
    ASSUME NEW x \in Words, NEW y \in Words, NEW z \in Words,
           NEW p, NEW q, MajParts(x, y, z, p, q)
    PROVE  p \in Words /\ q \in Words /\ maj(x, y, z) = Add(p, q)
  <1>1. p \in Words /\ q \in Words
    BY DEF Words, MajParts
  <1>2. p \cap q = {}
    BY DEF Xor, MajParts
  <1>3. maj(x, y, z) = p \cup q
    BY DEF maj, Xor, MajParts
  <1>4. Add(p, q) = p \cup q
    BY <1>1, <1>2, AddDisjoint
  <1> QED
    BY <1>1, <1>3, <1>4

\* The three rounds as an assembly version does them, from the first two words
\* and sums of constants.
LEMMA FirstRoundsRight ==
    ASSUME NEW l, NEW w0 \in Words, NEW w1 \in Words, t[l] = <<w0, w1>>
    PROVE  FirstVariables(l)
           = Compress(Compress(Compress(H, Add(K(0), w0)), Add(K(1), w1)), Add(K(2), c80))
  <1> DEFINE C0 == W32(\h98c7, \he2a2)
             A0 == W32(\hfc08, \h884d)
             C1 == W32(\hcd2a, \h11ae)
             A1 == W32(\hbabc, \hc441)
             C2 == W32(\h8c2e, \h12e0)
             A2 == W32(\hd0c6, \h645b)
             D == W32(\hd16e, \h48e2)
             e1 == Add(w0, C0)
             a1 == Add(w0, A0)
             not_e1 == IF V.folded = "negated" THEN Sub(W32(\h6738, \h1d5d), w0) ELSE Not(e1)
             temp1 == Add(Add(w1, S1(e1)), Xor(e1 \cap H[5], not_e1 \cap H[6]))
             e2 == Add(temp1, C1)
             a2 == Add(Add(temp1, Add(S0(a1), a1 \cap D)), A1)
             not_e2 == IF V.folded = "negated" THEN Sub(W32(\hb2d5, \hee51), temp1) ELSE Not(e2)
             temp2 == Add(S1(e2), Xor(e2 \cap e1, not_e2 \cap H[5]))
             e3 == Add(temp2, C2)
             a3 == Add(Add(temp2, Add(S0(a2), maj(a2, a1, H[1]))), A2)
  <1>1. FirstVariables(l) = <<a3, a2, a1, H[1], e3, e2, e1, H[5]>>
    <2>1. t[l][1] = w0 /\ t[l][2] = w1
      OBVIOUS
    <2> QED
      BY <2>1 DEF FirstVariables
  <1>2. /\ C0 \in Words /\ A0 \in Words /\ C1 \in Words /\ A1 \in Words
        /\ C2 \in Words /\ A2 \in Words
    BY ConstantWords
  <1>3. /\ H[1] \in Words /\ H[2] \in Words /\ H[3] \in Words /\ H[4] \in Words
        /\ H[5] \in Words /\ H[6] \in Words /\ H[7] \in Words /\ H[8] \in Words
        /\ K(0) \in Words /\ K(1) \in Words /\ K(2) \in Words /\ c80 \in Words
    BY TableTypes, ConstantWords
  <1>4. e1 \in Words /\ a1 \in Words
    BY <1>2, AddType
  <1> DEFINE ch1 == ch(e1, H[5], H[6])
  <1>5. ch1 \in Words /\ S1(e1) \in Words /\ S0(a1) \in Words
    BY <1>3, <1>4, ChoiceTypes, SigmaTypes
  <1>6. Xor(e1 \cap H[5], not_e1 \cap H[6]) = ch1
    <2>1. not_e1 = Not(e1)
      <3>1. Sub(Not(C0), w0) = Not(e1)
        BY <1>2, NotSum
      <3> QED
        BY <3>1, FoldedSums
    <2> HIDE DEF not_e1, e1
    <2> QED
      BY <2>1 DEF ch
  <1>7. temp1 = Add(Add(w1, S1(e1)), ch1) /\ Add(w1, S1(e1)) \in Words /\ temp1 \in Words
    <2>1. temp1 = Add(Add(w1, S1(e1)), ch1)
      BY <1>6
    <2> HIDE DEF temp1, ch1, e1
    <2>2. Add(w1, S1(e1)) \in Words
      BY <1>5, AddType
    <2> QED
      BY <1>5, <2>1, <2>2, AddType
  <1>8. e2 \in Words
    <2> HIDE DEF temp1
    <2> QED
      BY <1>2, <1>7, AddType
  <1> DEFINE aD == a1 \cap D
  <1>9. /\ aD \in Words /\ H[1] \cap H[2] \in Words
        /\ maj(a1, H[1], H[2]) = Add(aD, H[1] \cap H[2])
    <2>1. D = Xor(H[1], H[2])
      BY FoldedSums
    <2>2. aD = a1 \cap Xor(H[1], H[2])
      BY <2>1
    <2> DEFINE x == a1
               y == H[1]
               z == H[2]
               p == aD
               q == H[1] \cap H[2]
    <2>3. x \in Words /\ y \in Words /\ z \in Words
      BY <1>3, <1>4
    <2>4. MajParts(x, y, z, p, q)
      BY <2>2 DEF MajParts
    <2> HIDE DEF a1, aD, x, y, z, p, q
    <2>5. p \in Words /\ q \in Words /\ maj(x, y, z) = Add(p, q)
      BY <2>3, <2>4, MajSplit
    <2> QED
      BY <2>5 DEF x, y, z, p, q
  <1>10. /\ Add(S0(a1), aD) \in Words /\ Add(temp1, Add(S0(a1), aD)) \in Words
         /\ a2 \in Words
    <2> HIDE DEF temp1, a1, D
    <2>1. Add(S0(a1), aD) \in Words
      BY <1>5, <1>9, AddType
    <2>2. Add(temp1, Add(S0(a1), aD)) \in Words
      BY <1>7, <2>1, AddType
    <2> QED
      BY <1>2, <2>1, <2>2, AddType
  <1> DEFINE ch2 == ch(e2, e1, H[5])
  <1>11. ch2 \in Words /\ S1(e2) \in Words
    <2> HIDE DEF e1, e2
    <2> QED
      BY <1>3, <1>4, <1>8, ChoiceTypes, SigmaTypes
  <1>12. Xor(e2 \cap e1, not_e2 \cap H[5]) = ch2
    <2>1. not_e2 \cap H[5] = Not(e2) \cap H[5]
      <3> HIDE DEF temp1
      <3>1. Sub(Add(Not(C1), {31}), temp1) \cap H[5] = Not(Add(temp1, C1)) \cap H[5]
        BY <1>2, <1>3, <1>7, FoldedSums, NotSumButOneBit
      <3>2. W32(\hb2d5, \hee51) = Add(Not(C1), {31})
        BY FoldedSums
      <3> QED
        BY <3>1, <3>2
    <2> HIDE DEF not_e2, e1, e2
    <2> QED
      BY <2>1 DEF ch
  <1>13. temp2 = Add(S1(e2), ch2) /\ temp2 \in Words
    <2>1. temp2 = Add(S1(e2), ch2)
      BY <1>12
    <2> HIDE DEF temp2, ch2, e2
    <2> QED
      BY <1>11, <2>1, AddType
  <1> DEFINE m2 == Add(S0(a2), maj(a2, a1, H[1]))
  <1>14. m2 \in Words
    <2> HIDE DEF a2, a1
    <2>1. S0(a2) \in Words /\ maj(a2, a1, H[1]) \in Words
      BY <1>3, <1>4, <1>10, ChoiceTypes, SigmaTypes
    <2> QED
      BY <2>1, AddType
  \* Round 0.
  <1>15. Compress(H, Add(K(0), w0)) = <<a1, H[1], H[2], H[3], e1, H[5], H[6], H[7]>>
    <2> DEFINE x == Add(Add(H[8], S1(H[5])), ch(H[5], H[6], H[7]))
               c == Add(x, K(0))
    <2>1. x \in Words /\ c \in Words /\ Temp2(H) \in Words
      <3>1. S1(H[5]) \in Words /\ ch(H[5], H[6], H[7]) \in Words
        BY <1>3, SigmaTypes, ChoiceTypes
      <3>2. Add(H[8], S1(H[5])) \in Words
        BY <1>3, <3>1, AddType
      <3>3. x \in Words
        BY <3>1, <3>2, AddType
      <3> QED
        BY <1>3, <3>3, AddType, CompressType, TableTypes
    <2>2. c = Temp1(H, K(0)) /\ Temp1(H, Add(K(0), w0)) = Add(x, Add(K(0), w0))
      BY DEF Temp1
    <2>3. C0 = Add(H[4], c) /\ A0 = Add(c, Temp2(H))
      BY <2>2, FoldedSums
    <2> HIDE DEF x
    <2>4. Add(x, Add(K(0), w0)) = Add(c, w0)
      BY <1>3, <2>1, AddAssoc
    <2> HIDE DEF c
    <2>5. Add(H[4], Add(c, w0)) = e1
      <3>1. Add(Add(H[4], c), w0) = Add(H[4], Add(c, w0))
        BY <1>3, <2>1, AddAssoc
      <3>2. Add(C0, w0) = Add(w0, C0)
        BY <1>2, AddComm
      <3> QED
        BY <2>3, <3>1, <3>2
    <2>6. Add(Add(c, w0), Temp2(H)) = a1
      <3>1. Add(Add(c, w0), Temp2(H)) = Add(Add(c, Temp2(H)), w0)
        BY <2>1, AddSwap
      <3>2. Add(A0, w0) = Add(w0, A0)
        BY <1>2, AddComm
      <3> QED
        BY <2>3, <3>1, <3>2
    <2> HIDE DEF a1, e1
    <2> QED
      BY <2>2, <2>4, <2>5, <2>6 DEF Compress
  \* Round 1.
  <1>16. Compress(<<a1, H[1], H[2], H[3], e1, H[5], H[6], H[7]>>, Add(K(1), w1))
         = <<a2, a1, H[1], H[2], e2, e1, H[5], H[6]>>
    <2> DEFINE s == <<a1, H[1], H[2], H[3], e1, H[5], H[6], H[7]>>
               kw == Add(K(1), w1)
               c == Add(H[7], K(1))
               y == Add(S1(e1), ch1)
    <2>1. /\ Temp1(s, kw) = Add(Add(Add(H[7], S1(e1)), ch1), kw)
          /\ Temp2(s) = Add(S0(a1), maj(a1, H[1], H[2]))
      BY DEF Temp1, Temp2
    <2>2. Compress(s, kw) = << Add(Temp1(s, kw), Temp2(s)), a1, H[1], H[2],
                               Add(H[3], Temp1(s, kw)), e1, H[5], H[6] >>
      BY DEF Compress
    <2>3. C1 = Add(H[3], c) /\ A1 = Add(c, H[1] \cap H[2])
      BY FoldedSums
    <2> HIDE DEF ch1, e1, a1, s, C1, A1, D
    <2>4. c \in Words /\ y \in Words /\ kw \in Words
      BY <1>3, <1>5, AddType
    <2>5. Temp1(s, kw) = Add(temp1, c)
      <3>1. Add(Add(H[7], S1(e1)), ch1) = Add(H[7], y)
        BY <1>3, <1>5, AddAssoc
      <3>2. Add(Add(H[7], y), Add(K(1), w1)) = Add(Add(H[7], K(1)), Add(y, w1))
        BY <1>3, <2>4, AddInner
      <3>3. Add(y, w1) = Add(w1, y)
        BY <2>4, AddComm
      <3>4. Add(Add(w1, S1(e1)), ch1) = Add(w1, y)
        BY <1>5, AddAssoc
      <3>5. Add(y, w1) = temp1
        BY <1>7, <3>3, <3>4
      <3> HIDE DEF temp1, y, c
      <3>6. Add(c, temp1) = Add(temp1, c)
        BY <1>7, <2>4, AddComm
      <3> QED
        BY <2>1, <3>1, <3>2, <3>5, <3>6 DEF c
    <2> HIDE DEF temp1, y
    <2>6. Add(H[3], Add(temp1, c)) = Add(temp1, C1)
      BY <1>3, <1>7, <2>3, <2>4, AddSwap
    <2>7. Add(Add(temp1, c), Temp2(s)) = a2
      <3>1. Add(S0(a1), Add(aD, H[1] \cap H[2])) = Add(Add(S0(a1), aD), H[1] \cap H[2])
        BY <1>5, <1>9, AddAssoc
      <3>2. Add(Add(temp1, c), Add(Add(S0(a1), aD), H[1] \cap H[2]))
            = Add(Add(temp1, Add(S0(a1), aD)), Add(c, H[1] \cap H[2]))
        BY <1>7, <1>9, <1>10, <2>4, AddInner
      <3> QED
        BY <1>9, <2>1, <2>3, <3>1, <3>2
    <2> HIDE DEF a2
    <2> QED
      BY <2>2, <2>5, <2>6, <2>7 DEF s
  \* Round 2.
  <1>17. Compress(<<a2, a1, H[1], H[2], e2, e1, H[5], H[6]>>, Add(K(2), c80))
         = <<a3, a2, a1, H[1], e3, e2, e1, H[5]>>
    <2> DEFINE s == <<a2, a1, H[1], H[2], e2, e1, H[5], H[6]>>
               kw == Add(K(2), c80)
    <2>1. /\ Temp1(s, kw) = Add(Add(Add(H[6], S1(e2)), ch2), kw)
          /\ Temp2(s) = m2
      BY DEF Temp1, Temp2
    <2>2. Compress(s, kw) = << Add(Temp1(s, kw), Temp2(s)), a2, a1, H[1],
                               Add(H[2], Temp1(s, kw)), e2, e1, H[5] >>
      BY DEF Compress
    <2>3. C2 = Add(H[2], A2) /\ A2 = Add(H[6], kw)
      BY FoldedSums
    <2> HIDE DEF ch2, m2, s, C2, A2, e2, a2, e1, a1
    <2>4. kw \in Words
      BY <1>3, AddType
    <2> HIDE DEF kw
    <2>5. Temp1(s, kw) = Add(temp2, A2)
      <3>1. Add(Add(H[6], S1(e2)), ch2) = Add(H[6], temp2)
        BY <1>3, <1>11, <1>13, AddAssoc
      <3> HIDE DEF temp2
      <3>2. Add(Add(H[6], temp2), kw) = Add(Add(H[6], kw), temp2)
        BY <1>3, <1>13, <2>4, AddSwap
      <3>3. Add(A2, temp2) = Add(temp2, A2)
        BY <1>2, <1>13, AddComm
      <3> QED
        BY <2>1, <2>3, <3>1, <3>2, <3>3
    <2> HIDE DEF temp2
    <2>6. Add(H[2], Add(temp2, A2)) = Add(temp2, C2)
      BY <1>2, <1>3, <1>13, <2>3, AddSwap
    <2>7. Add(Add(temp2, A2), m2) = Add(Add(temp2, m2), A2)
      BY <1>2, <1>13, <1>14, AddSwap
    <2> QED
      BY <2>1, <2>2, <2>5, <2>6, <2>7 DEF s, m2, kw
  <1> HIDE DEF a1, a2, a3, e1, e2, e3
  <1> QED
    BY <1>1, <1>15, <1>16, <1>17
----------------------------------------------------------------------------
(* The versions. *)

\* What the versions have in common: with fewer than 64 slots each word is made
\* in the round that uses it, and only versions with 48 slots fold constants.
Shape(v) ==
    /\ v.lanes \in {1, 4, 8}
    /\ v.first \in {16, 32, 64}
    /\ v.slots \in {16, 48, 64}
    /\ v.two \in {"memory", "moving", "registers"}
    /\ v.slots # 64 => v.first = 16 /\ v.two = "registers"
    /\ v.folded # "none" => v.slots = 48

LEMMA ShapesOfOne ==
    /\ Shape(sha256_optim) /\ Shape(sha256_fused) /\ Shape(sha256_fullyfused)
    /\ Shape(reverse_sha256)
BY DEF Shape, sha256_optim, sha256_fused, sha256_fullyfused, reverse_sha256

LEMMA ShapesOfFour ==
    /\ Shape(sha256x4_optim) /\ Shape(sha256x4_fused) /\ Shape(sha256x4_fullyfused)
    /\ Shape(sha256x4_cyclic) /\ Shape(sha256x4_asm) /\ Shape(sha256x4_fullyfused_asm)
    /\ Shape(reverse_sha256_x4) /\ Shape(reverse_sha256x4_fullyfused)
    /\ Shape(reverse_sha256x4_fullyfused_asm)
    /\ Shape(reverse_sha256x4_fullyfused_asm_2)
BY DEF Shape, sha256x4_optim, sha256x4_fused, sha256x4_fullyfused, sha256x4_cyclic,
       sha256x4_asm, sha256x4_fullyfused_asm, reverse_sha256_x4,
       reverse_sha256x4_fullyfused, reverse_sha256x4_fullyfused_asm,
       reverse_sha256x4_fullyfused_asm_2

LEMMA ShapesOfEight ==
    Shape(sha256x4x2_optim) /\ Shape(sha256x4x2_fused) /\ Shape(reverse_sha256_x4x2orx8)
BY DEF Shape, sha256x4x2_optim, sha256x4x2_fused, reverse_sha256_x4x2orx8

LEMMA Shapes == \A fn \in DOMAIN Versions : Shape(Versions[fn])
BY ShapesOfOne, ShapesOfFour, ShapesOfEight DEF Versions

----------------------------------------------------------------------------
(* Memory and scratch registers. *)

SlotIn(v, j) == IF v.slots = 64 THEN j ELSE (j - 16) % v.slots

\* The words of p that a version v has in memory once m words are made: all of
\* them, or the last sixteen of those that are not in the block.
HeldIn(v, m, mem, p) ==
    \A j \in 0 .. m - 1 :
       v.slots = 64 \/ (j >= 16 /\ j >= m - 16) => mem[SlotIn(v, j)] = p[j]

\* The words of p that it has in its two scratch registers.
ScratchIn(v, m, two, p) ==
    /\ v.two # "memory" /\ m = 16 => two = <<p[0], p[1]>>
    /\ v.two # "memory" /\ m = 17 => two = <<p[16], p[1]>>
    /\ v.two = "registers" /\ m >= 18 =>
          IF m < 32 /\ m % 2 = 1 THEN two = <<p[m - 1], p[m - 2]>>
          ELSE two = <<p[m - 2], p[m - 1]>>
    /\ v.two = "moving" /\ m = 18 => two = <<p[16], p[17]>>
    /\ v.two = "moving" /\ m \in 19 .. 31 => two = <<p[m - 1], p[m - 2]>>

\* Slots of words that are needed at the same time are different.
LEMMA SlotType ==
    ASSUME NEW v, Shape(v), NEW j \in 0 .. 63, v.slots = 64 \/ j >= 16
    PROVE  SlotIn(v, j) \in 0 .. v.slots - 1
  <1>1. CASE v.slots = 64
    BY <1>1 DEF SlotIn
  <1>2. CASE v.slots = 48
    BY <1>2 DEF SlotIn
  <1>3. CASE v.slots = 16
    BY <1>3 DEF SlotIn
  <1> QED
    BY <1>1, <1>2, <1>3 DEF Shape

LEMMA SlotsDiffer ==
    ASSUME NEW v, Shape(v), NEW m \in 16 .. 63, NEW j \in 0 .. m - 1,
           v.slots = 64 \/ (j >= 16 /\ j >= m - 15)
    PROVE  SlotIn(v, m) # SlotIn(v, j)
  <1>1. CASE v.slots = 64
    BY <1>1 DEF SlotIn
  <1>2. CASE v.slots = 48
    <2>1. (m - 16) % 48 = m - 16 /\ (j - 16) % 48 = j - 16
      BY <1>2
    <2> QED
      BY <1>2, <2>1 DEF SlotIn
  <1>3. CASE v.slots = 16
    <2>1. m - j \in 1 .. 15 /\ m - 16 \in 0 .. 47 /\ j - 16 \in 0 .. 47
      BY <1>3
    <2>2. (m - 16) % 16 # (j - 16) % 16
      BY <2>1
    <2> QED
      BY <1>3, <2>2 DEF SlotIn
  <1> QED
    BY <1>1, <1>2, <1>3 DEF Shape

\* Word m, stored in its slot, is held from then on, and no word that is still
\* needed is overwritten.
LEMMA KeepHeld ==
    ASSUME NEW v, Shape(v), NEW m \in 16 .. 63, NEW x, NEW p, NEW mem,
           DOMAIN mem = 0 .. v.slots - 1,
           HeldIn(v, m, mem, p),
           NEW new, new = [mem EXCEPT ![SlotIn(v, m)] = x],
           NEW q, q[m] = x, \A k \in 0 .. m - 1 : q[k] = p[k]
    PROVE  HeldIn(v, m + 1, new, q)
  <1>1. SlotIn(v, m) \in 0 .. v.slots - 1
    <2>1. m \in 0 .. 63 /\ m >= 16
      OBVIOUS
    <2> QED
      BY <2>1, SlotType
  <1>2. new[SlotIn(v, m)] = q[m]
    BY <1>1
  <1>3. ASSUME NEW j \in 0 .. m - 1, v.slots = 64 \/ (j >= 16 /\ j >= m - 15)
        PROVE  new[SlotIn(v, j)] = q[j]
    <2>1. j \in 0 .. 63
      OBVIOUS
    <2>2. SlotIn(v, j) \in 0 .. v.slots - 1
      BY <1>3, <2>1, SlotType
    <2>3. SlotIn(v, m) # SlotIn(v, j)
      BY <1>3, SlotsDiffer
    <2>4. new[SlotIn(v, j)] = mem[SlotIn(v, j)]
      BY <2>2, <2>3
    <2>5. mem[SlotIn(v, j)] = p[j]
      <3>1. j >= m - 15 => j >= m - 16
        OBVIOUS
      <3>2. v.slots = 64 \/ (j >= 16 /\ j >= m - 16)
        BY <1>3, <3>1
      <3> QED
        BY <3>2 DEF HeldIn
    <2> QED
      BY <2>4, <2>5
  <1>4. ASSUME NEW j \in 0 .. m + 1 - 1, v.slots = 64 \/ (j >= 16 /\ j >= m + 1 - 16)
        PROVE  new[SlotIn(v, j)] = q[j]
    <2>1. CASE j = m
      BY <1>2, <2>1
    <2>2. CASE j # m
      <3>1. j \in 0 .. m - 1 /\ (v.slots = 64 \/ (j >= 16 /\ j >= m - 15))
        BY <1>4, <2>2
      <3> QED
        BY <1>3, <3>1
    <2> QED
      BY <2>1, <2>2
  <1> QED
    BY <1>4 DEF HeldIn

----------------------------------------------------------------------------
(* What holds while a version hashes. *)

\* Either all words are made first, or some; then each later one is made in the
\* round that uses it.
CountsRight ==
    /\ n \in 16 .. 64 /\ i \in 0 .. n
    /\ n < V.first => i = 0
    /\ n > V.first => i = n

PlainType(m) == [w : [0 .. m - 1 -> Words], s : [1 .. 8 -> Words]]

\* The plain version has n words of each input and is at the same round.
PlainRight ==
    /\ DOMAIN plain = Lanes
    /\ \A j \in Lanes :
          /\ plain[j] \in PlainType(n)
          /\ ScheduleTo(plain[j].w, n)
          /\ i = 0 => plain[j].s = H

\* A lane has the words of the input whose low word it was given.
LaneRight(l) ==
    /\ DOMAIN w[l] = 0 .. V.slots - 1
    /\ HeldIn(V, n, w[l], plain[LowOf(l)].w)
    /\ ScratchIn(V, n, t[l], plain[LowOf(l)].w)

LanesRight ==
    /\ DOMAIN w = Lanes /\ DOMAIN t = Lanes
    /\ \A l \in Lanes : LaneRight(l)
    /\ reg = [l \in Lanes |-> plain[LowOf(l)].s]

HashInv == Hashing => CountsRight /\ PlainRight /\ LanesRight

\* The call being served is one of the run, on candidates.
CallInv ==
    pc \in {"load", "rounds", "rest", "compare", "done"} =>
       call \in Calls /\ data \in [Lanes -> Candidates]

\* What the x4x2 versions are only used for: eight inputs whose upper words are
\* the same, since a lane may be given the upper word of another one's input.
UpperWordsAgree ==
    pc = "load" /\ V.lanes = 8 => \A j \in Lanes : High(data[j]) = High(data[1])

----------------------------------------------------------------------------
(* A lane finds the words it needs and keeps the new one. *)

\* The scratch registers after word n.
LEMMA KeepScratch ==
    ASSUME NEW l, NEW x, NEW p, Shape(V), n \in 16 .. 63, ScratchIn(V, n, t[l], p),
           NEW q, q[n] = x, \A k \in 0 .. n - 1 : q[k] = p[k]
    PROVE  ScratchIn(V, n + 1, ScratchAfter(l, x), q)
  <1> DEFINE after == ScratchAfter(l, x)
  <1> SUFFICES ScratchIn(V, n + 1, after, q)
    OBVIOUS
  <1>1. q[n] = x /\ q[n - 1] = p[n - 1] /\ q[0] = p[0] /\ q[1] = p[1]
    OBVIOUS
  <1>2. CASE V.two = "memory"
    BY <1>2 DEF ScratchIn
  <1>3. CASE V.two = "moving"
    <2>1. CASE n = 16
      <3>1. after = <<x, p[1]>>
        BY <1>3, <2>1 DEF ScratchAfter, ScratchIn
      <3> HIDE DEF after
      <3> QED
        BY <1>1, <1>3, <2>1, <3>1 DEF ScratchIn
    <2>2. CASE n = 17
      <3>1. after = <<p[16], x>>
        BY <1>3, <2>2 DEF ScratchAfter, ScratchIn
      <3> HIDE DEF after
      <3> QED
        BY <1>1, <1>3, <2>2, <3>1 DEF ScratchIn
    <2>3. CASE n \in 18 .. 30
      <3>1. after = <<x, p[n - 1]>>
        BY <1>3, <2>3 DEF ScratchAfter, ScratchIn
      <3> HIDE DEF after
      <3> QED
        BY <1>1, <1>3, <2>3, <3>1 DEF ScratchIn
    <2>4. CASE n \in 31 .. 63
      <3> HIDE DEF after
      <3> QED
        BY <1>3, <2>4 DEF ScratchIn
    <2> QED
      BY <2>1, <2>2, <2>3, <2>4
  <1>4. CASE V.two = "registers"
    <2>1. CASE n = 16
      <3>1. after = <<x, p[1]>>
        BY <1>4, <2>1 DEF ScratchAfter, ScratchIn
      <3> HIDE DEF after
      <3> QED
        BY <1>1, <1>4, <2>1, <3>1 DEF ScratchIn
    <2>2. CASE n \in 17 .. 31 /\ n % 2 = 1
      <3>1. t[l][1] = p[n - 1] /\ t[l] = <<t[l][1], t[l][2]>>
        BY <1>4, <2>2 DEF ScratchIn
      <3>2. after = <<p[n - 1], x>>
        BY <1>4, <2>2, <3>1 DEF ScratchAfter
      <3>3. (n + 1) % 2 = 0 /\ n + 1 - 2 = n - 1 /\ n + 1 - 1 = n
        BY <2>2
      <3> HIDE DEF after
      <3> QED
        BY <1>1, <1>4, <2>2, <3>2, <3>3 DEF ScratchIn
    <2>3. CASE n \in 18 .. 31 /\ n % 2 = 0
      <3>1. t[l][2] = p[n - 1] /\ t[l] = <<t[l][1], t[l][2]>>
        BY <1>4, <2>3 DEF ScratchIn
      <3>2. after = <<x, p[n - 1]>>
        BY <1>4, <2>3, <3>1 DEF ScratchAfter
      <3>3. (n + 1) % 2 = 1 /\ n + 1 - 2 = n - 1 /\ n + 1 - 1 = n /\ n < 31
        BY <2>3
      <3> HIDE DEF after
      <3> QED
        BY <1>1, <1>4, <2>3, <3>2, <3>3 DEF ScratchIn
    <2>4. CASE n \in 32 .. 63
      <3>1. t[l][2] = p[n - 1]
        BY <1>4, <2>4 DEF ScratchIn
      <3>2. after = <<p[n - 1], x>>
        BY <1>4, <2>4, <3>1 DEF ScratchAfter
      <3> HIDE DEF after
      <3> QED
        BY <1>1, <1>4, <2>4, <3>2 DEF ScratchIn
    <2>5. n % 2 \in 0 .. 1
      OBVIOUS
    <2> QED
      BY <2>1, <2>2, <2>3, <2>4, <2>5
  <1> QED
    BY <1>2, <1>3, <1>4 DEF Shape

\* A lane finds the words that the next one is made of.
LEMMA FindWords ==
    ASSUME NEW l, NEW p, Shape(V), n \in 16 .. 63,
           HeldIn(V, n, w[l], p), ScratchIn(V, n, t[l], p)
    PROVE  Supplied(l, p)
  <1>1. ASSUME NEW j \in 0 .. n - 1, V.slots = 64 \/ (j >= 16 /\ j >= n - 16)
        PROVE  Mem(l, j) = p[j]
    <2>1. w[l][SlotIn(V, j)] = p[j]
      BY <1>1 DEF HeldIn
    <2> QED
      BY <2>1 DEF Mem, Slot, SlotIn
  <1>2. n = 16 => FirstWord(l, 0) = p[0]
    <2>1. CASE V.two = "memory"
      BY <1>1, <2>1 DEF FirstWord, Shape
    <2>2. CASE V.two # "memory"
      BY <2>2 DEF FirstWord, ScratchIn
    <2> QED
      BY <2>1, <2>2
  <1>3. n \in 16 .. 17 => FirstWord(l, 1) = p[1]
    <2>1. CASE V.two = "memory"
      BY <1>1, <2>1 DEF FirstWord, Shape
    <2>2. CASE V.two # "memory"
      BY <2>2 DEF FirstWord, ScratchIn
    <2> QED
      BY <2>1, <2>2
  <1>4. n \in 18 .. 63 => Two(l) = p[n - 2]
    <2> SUFFICES ASSUME n \in 18 .. 63
                 PROVE  Two(l) = p[n - 2]
      OBVIOUS
    <2>1. CASE V.two = "memory" \/ (V.two = "moving" /\ n >= 32)
      <3>1. Two(l) = Mem(l, n - 2)
        BY <2>1 DEF Two
      <3>2. V.slots = 64
        BY <2>1 DEF Shape
      <3>3. n - 2 \in 0 .. n - 1
        OBVIOUS
      <3> QED
        BY <1>1, <3>1, <3>2, <3>3
    <2>2. CASE V.two = "moving" /\ n < 32
      <3>1. Two(l) = IF n = 18 THEN t[l][1] ELSE t[l][2]
        BY <2>2 DEF Two
      <3> QED
        BY <2>2, <3>1 DEF ScratchIn
    <2>3. CASE V.two = "registers"
      <3>1. Two(l) = IF n < 32 THEN t[l][1 + (n % 2)] ELSE t[l][1]
        BY <2>3 DEF Two
      <3>2. n % 2 \in 0 .. 1
        OBVIOUS
      <3> QED
        BY <2>3, <3>1, <3>2 DEF ScratchIn
    <2> QED
      BY <2>1, <2>2, <2>3 DEF Shape
  <1>5. n \in 23 .. 63 => Mem(l, n - 7) = p[n - 7]
    BY <1>1
  <1>6. n \in 31 .. 63 => Mem(l, n - 15) = p[n - 15]
    BY <1>1
  <1>7. n \in 32 .. 63 => Mem(l, n - 16) = p[n - 16]
    BY <1>1
  <1> QED
    BY <1>2, <1>3, <1>4, <1>5, <1>6, <1>7 DEF Supplied

\* A round whose word is there already adds that word and its constant.
LEMMA RoundSumRight ==
    ASSUME NEW l, NEW p, Shape(V), n \in 16 .. 64, i \in 0 .. n - 1,
           V.slots # 64 => n = 16, ScheduleTo(p, n),
           HeldIn(V, n, w[l], p), ScratchIn(V, n, t[l], p)
    PROVE  RoundSum(l) = Add(K(i), p[i])
  <1>1. RoundWord(l) = p[i]
    <2>1. CASE V.slots = 64
      <3>1. w[l][SlotIn(V, i)] = p[i]
        BY <2>1 DEF HeldIn
      <3>2. RoundWord(l) = Mem(l, i)
        BY <2>1 DEF RoundWord
      <3> QED
        BY <3>1, <3>2 DEF Mem, Slot, SlotIn
    <2>2. CASE V.slots # 64
      <3>1. n = 16 /\ i \in 0 .. 15 /\ V.slots < 64 /\ t[l] = <<p[0], p[1]>>
        BY <2>2 DEF Shape, ScratchIn
      <3>2. RoundWord(l) = IF i < 2 THEN t[l][i + 1]
                           ELSE IF i = 2 THEN c80 ELSE IF i = 15 THEN c64 ELSE {}
        BY <2>2, <3>1 DEF RoundWord
      <3> QED
        BY <3>1, <3>2 DEF ScheduleTo
    <2> QED
      BY <2>1, <2>2
  <1>2. CASE V.folded # "none" /\ i = 15
    <2>1. RoundSum(l) = W32(\hc19b, \hf1b4)
      BY <1>2 DEF RoundSum, FoldedConstant
    <2>2. p[15] = c64
      BY DEF ScheduleTo
    <2> QED
      BY <1>2, <2>1, <2>2, FoldedSums
  <1>3. CASE ~(V.folded # "none" /\ i = 15)
    BY <1>1, <1>3 DEF RoundSum
  <1> QED
    BY <1>2, <1>3

----------------------------------------------------------------------------
(* One more word. *)

\* The words of p and the next one.
WithNext(p) == [k \in 0 .. n |-> IF k = n THEN Extended(p, n) ELSE p[k]]

LEMMA ScheduleStep ==
    ASSUME NEW p, n \in 16 .. 63, ScheduleTo(p, n)
    PROVE  ScheduleTo(WithNext(p), n + 1) /\ \A k \in 0 .. n - 1 : WithNext(p)[k] = p[k]
  <1>1. Extended(p, n) \in Words
    BY ExtendedType
  <1>2. \A k \in 0 .. n - 1 : p[k] \in Words
    BY DEF ScheduleTo
  <1>3. \A k \in 0 .. n : (IF k = n THEN Extended(p, n) ELSE p[k]) \in Words
    BY <1>1, <1>2
  <1>4. WithNext(p) \in [0 .. n -> Words]
    BY <1>3 DEF WithNext
  <1>5. \A k \in 0 .. n - 1 : WithNext(p)[k] = p[k]
    BY DEF WithNext
  <1>6. n + 1 - 1 = n
    OBVIOUS
  <1> QED
    BY <1>4, <1>5, <1>6 DEF ScheduleTo

LEMMA LaneStep ==
    ASSUME NEW l, NEW p, NEW x, x = Extended(p, n), Shape(V), n \in 16 .. 63,
           DOMAIN w[l] = 0 .. V.slots - 1,
           HeldIn(V, n, w[l], p), ScratchIn(V, n, t[l], p)
    PROVE  /\ DOMAIN KeepWord(l, x) = 0 .. V.slots - 1
           /\ HeldIn(V, n + 1, KeepWord(l, x), WithNext(p))
           /\ ScratchIn(V, n + 1, ScratchAfter(l, x), WithNext(p))
  <1>1. KeepWord(l, x) = [w[l] EXCEPT ![SlotIn(V, n)] = x]
    BY DEF KeepWord, Slot, SlotIn
  <1>2. WithNext(p)[n] = x /\ \A k \in 0 .. n - 1 : WithNext(p)[k] = p[k]
    BY DEF WithNext
  <1>3. HeldIn(V, n + 1, KeepWord(l, x), WithNext(p))
    BY <1>1, <1>2, KeepHeld
  <1>4. ScratchIn(V, n + 1, ScratchAfter(l, x), WithNext(p))
    BY <1>2, KeepScratch
  <1>5. DOMAIN KeepWord(l, x) = 0 .. V.slots - 1
    BY <1>1
  <1> QED
    BY <1>3, <1>4, <1>5

----------------------------------------------------------------------------
(* The plain version. *)

LEMMA PlainWordStep ==
    ASSUME NEW r \in PlainType(n), n \in 16 .. 63, ScheduleTo(r.w, n)
    PROVE  /\ PlainWord(r) \in PlainType(n + 1)
           /\ PlainWord(r).w = WithNext(r.w)
           /\ PlainWord(r).s = r.s
  <1>1. r = [w |-> r.w, s |-> r.s] /\ r.s \in [1 .. 8 -> Words]
    BY DEF PlainType
  <1>2. PlainWord(r) = [r EXCEPT !.w = WithNext(r.w)]
    BY <1>1 DEF PlainWord, WithNext
  <1>3. PlainWord(r) = [w |-> WithNext(r.w), s |-> r.s]
    BY <1>1, <1>2
  <1>4. WithNext(r.w) \in [0 .. n + 1 - 1 -> Words]
    BY ScheduleStep DEF ScheduleTo
  <1> QED
    BY <1>1, <1>3, <1>4 DEF PlainType

\* q is what round j of the plain version makes of r.
RoundOf(q, r, j, m) ==
    /\ q \in PlainType(m)
    /\ q.w = r.w
    /\ q.s = Compress(r.s, Add(K(j), r.w[j]))

\* A round keeps the types and the words.
LEMMA PlainRoundStep ==
    ASSUME NEW m \in 16 .. 64, NEW r \in PlainType(m), NEW j \in 0 .. 63, j < m,
           NEW q, q = PlainRound(r, j)
    PROVE  RoundOf(q, r, j, m)
  <1> DEFINE s == Compress(r.s, Add(K(j), r.w[j]))
  <1>1. /\ r = [w |-> r.w, s |-> r.s]
        /\ r.w \in [0 .. m - 1 -> Words] /\ r.s \in [1 .. 8 -> Words]
    BY DEF PlainType
  <1>2. PlainRound(r, j) = [w |-> r.w, s |-> s]
    BY <1>1 DEF PlainRound
  <1>3. r.w[j] \in Words /\ K(j) \in Words
    <2>1. j \in 0 .. m - 1
      OBVIOUS
    <2> QED
      BY <1>1, <2>1, TableTypes
  <1>4. Add(K(j), r.w[j]) \in Words
    BY <1>3, AddType
  <1>5. s \in [1 .. 8 -> Words]
    BY <1>1, <1>4, CompressType
  <1>6. PlainRound(r, j).w = r.w /\ PlainRound(r, j).s = s
    BY <1>2
  <1>7. PlainRound(r, j) \in PlainType(m)
    <2> HIDE DEF s
    <2> QED
      BY <1>1, <1>2, <1>5 DEF PlainType
  <1> QED
    BY <1>6, <1>7 DEF RoundOf

\* The block of an input is the start of a schedule.
LEMMA BlockRight ==
    ASSUME NEW w0 \in Words, NEW w1 \in Words
    PROVE  ScheduleTo(Block(w0, w1), 16)
  <1>1. Bswap(w0) \in Words /\ Bswap(w1) \in Words /\ c80 \in Words /\ c64 \in Words
    BY BswapType, ConstantWords
  <1>2. {} \in Words
    BY DEF Words
  <1>3. \A j \in 0 .. 15 : Block(w0, w1)[j] =
           IF j = 0 THEN Bswap(w0) ELSE IF j = 1 THEN Bswap(w1)
           ELSE IF j = 2 THEN c80 ELSE IF j = 15 THEN c64 ELSE {}
    BY DEF Block
  <1>4. \A j \in 0 .. 15 : Block(w0, w1)[j] \in Words
    BY <1>1, <1>2, <1>3
  <1>5. Block(w0, w1) \in [0 .. 15 -> Words]
    BY <1>4 DEF Block
  <1> QED
    BY <1>3, <1>5 DEF ScheduleTo

----------------------------------------------------------------------------
(* The lanes. *)

LEMMA CallShape ==
    ASSUME CallInv, pc \in {"load", "rounds", "rest", "compare", "done"}
    PROVE  Shape(V) /\ call \in Calls /\ data \in [Lanes -> Candidates]
  <1>1. call \in Calls /\ data \in [Lanes -> Candidates]
    BY DEF CallInv
  <1>2. call.fn \in DOMAIN Versions
    BY <1>1, CallAssumption
  <1> QED
    BY <1>1, <1>2, Shapes DEF V

\* Every input has one lane.
LEMMA LaneOrder ==
    ASSUME Shape(V)
    PROVE  /\ \A l \in Lanes : LowOf(l) \in Lanes /\ HighOf(l) \in Lanes
           /\ \A j \in Lanes : \E l \in Lanes : LowOf(l) = j
  <1>1. CASE V.lanes = 8
    <2>1. Lanes = 1 .. 8
      BY <1>1 DEF Lanes
    <2>2. \A l \in 1 .. 8 : LowOf(l) = <<1, 2, 5, 6, 3, 4, 7, 8>>[l]
                            /\ HighOf(l) = <<5, 6, 1, 2, 7, 8, 3, 4>>[l]
      BY <1>1 DEF LowOf, HighOf
    <2>3. /\ LowOf(1) = 1 /\ LowOf(2) = 2 /\ LowOf(3) = 5 /\ LowOf(4) = 6
          /\ LowOf(5) = 3 /\ LowOf(6) = 4 /\ LowOf(7) = 7 /\ LowOf(8) = 8
      BY <2>2
    <2>4. /\ HighOf(1) = 5 /\ HighOf(2) = 6 /\ HighOf(3) = 1 /\ HighOf(4) = 2
          /\ HighOf(5) = 7 /\ HighOf(6) = 8 /\ HighOf(7) = 3 /\ HighOf(8) = 4
      BY <2>2
    <2> QED
      BY <2>1, <2>3, <2>4
  <1>2. CASE V.lanes # 8
    BY <1>2 DEF Shape, LowOf, HighOf, Lanes
  <1> QED
    BY <1>1, <1>2

----------------------------------------------------------------------------
(* The steps of a version keep HashInv. *)

LEMMA LoadStep ==
    ASSUME CallInv, UpperWordsAgree, Load
    PROVE  HashInv'
  <1>1. pc = "load" /\ n' = 16 /\ i' = 0 /\ call' = call /\ data' = data
    BY DEF Load
  <1>2. Shape(V) /\ data \in [Lanes -> Candidates]
    BY <1>1, CallShape
  <1>3. V' = V /\ Lanes' = Lanes /\ \A l : LowOf(l)' = LowOf(l)
    BY <1>1 DEF V, Lanes, LowOf
  <1> DEFINE OwnBlock(j) == Block(Low(data[j]), High(data[j]))
  <1>4. ASSUME NEW j \in Lanes
        PROVE  ScheduleTo(OwnBlock(j), 16)
    <2>1. Low(data[j]) \in Words /\ High(data[j]) \in Words
      BY <1>2, HalfTypes DEF Candidates
    <2> QED
      BY <2>1, BlockRight
  <1>5. ASSUME NEW l \in Lanes
        PROVE  LowOf(l) \in Lanes /\ LaneBlock(l) = OwnBlock(LowOf(l))
    <2>1. LowOf(l) \in Lanes /\ HighOf(l) \in Lanes
      BY <1>2, LaneOrder
    <2>2. CASE V.lanes = 8
      <3>1. \A j \in Lanes : High(data[j]) = High(data[1])
        BY <1>1, <2>2 DEF UpperWordsAgree
      <3>2. High(data[HighOf(l)]) = High(data[LowOf(l)])
        BY <2>1, <3>1
      <3> QED
        BY <2>1, <3>2 DEF LaneBlock
    <2>3. CASE V.lanes # 8
      <3>1. LowOf(l) = HighOf(l)
        BY <2>3 DEF LowOf, HighOf
      <3> QED
        BY <2>1, <3>1 DEF LaneBlock
    <2> QED
      BY <2>2, <2>3
  <1>6. plain' = [j \in Lanes |-> [w |-> OwnBlock(j), s |-> H]]
    BY <1>2 DEF Load
  <1>7. CountsRight'
    <2>1. n' \in 16 .. 64 /\ i' \in 0 .. n'
      BY <1>1
    <2>2. ~(n' > V.first)
      <3>1. V.first \in {16, 32, 64}
        BY <1>2 DEF Shape
      <3> QED
        BY <1>1, <3>1
    <2> QED
      BY <1>1, <1>3, <2>1, <2>2 DEF CountsRight
  <1> HIDE DEF OwnBlock
  <1>8. PlainRight'
    <2>1. DOMAIN plain' = Lanes'
      BY <1>3, <1>6
    <2>2. ASSUME NEW j \in Lanes
          PROVE  /\ plain'[j] \in PlainType(16)
                 /\ ScheduleTo(plain'[j].w, 16)
                 /\ plain'[j].s = H
      <3>1. plain'[j] = [w |-> OwnBlock(j), s |-> H]
        BY <1>6
      <3>2. plain'[j].w = OwnBlock(j) /\ plain'[j].s = H
        BY <3>1
      <3>3. OwnBlock(j) \in [0 .. 16 - 1 -> Words]
        BY <1>4 DEF ScheduleTo
      <3>4. plain'[j] \in PlainType(16)
        BY <3>1, <3>3, TableTypes DEF PlainType
      <3> QED
        BY <1>4, <3>2, <3>4
    <2> QED
      BY <1>1, <1>3, <2>1, <2>2 DEF PlainRight
  <1>9. LanesRight'
    <2>1. /\ DOMAIN w' = Lanes /\ DOMAIN t' = Lanes
          /\ \A l \in Lanes : DOMAIN w'[l] = 0 .. V.slots - 1
          /\ \A l \in Lanes : t'[l] = <<LaneBlock(l)[0], LaneBlock(l)[1]>>
      BY DEF Load
    <2>2. reg' = [l \in Lanes |-> plain'[LowOf(l)].s]
      <3>1. reg' = [l \in Lanes |-> H]
        BY DEF Load
      <3>2. \A l \in Lanes : plain'[LowOf(l)].s = H
        BY <1>5, <1>6
      <3> QED
        BY <3>1, <3>2
    <2>3. ASSUME NEW l \in Lanes
          PROVE  /\ HeldIn(V, 16, w'[l], plain'[LowOf(l)].w)
                 /\ ScratchIn(V, 16, t'[l], plain'[LowOf(l)].w)
      <3> DEFINE p == LaneBlock(l)
      <3>1. plain'[LowOf(l)].w = p
        BY <1>5, <1>6
      <3>2. ASSUME V.slots = 64, NEW j \in 0 .. 15
            PROVE  w'[l][SlotIn(V, j)] = p[j]
        <4>1. SlotIn(V, j) = j /\ j \in 0 .. V.slots - 1 /\ j < 16
          BY <3>2 DEF SlotIn
        <4>2. w'[l][j] = p[j]
          BY <3>2, <4>1 DEF Load
        <4> QED
          BY <4>1, <4>2
      <3>3. t'[l] = <<p[0], p[1]>>
        BY <2>1
      <3> HIDE DEF p
      <3>4. HeldIn(V, 16, w'[l], p)
        BY <3>2 DEF HeldIn
      <3>5. ScratchIn(V, 16, t'[l], p)
        BY <3>3 DEF ScratchIn
      <3> QED
        BY <3>1, <3>4, <3>5
    <2>4. \A l \in Lanes : LaneRight(l)'
      BY <1>1, <1>3, <2>1, <2>3 DEF LaneRight
    <2>5. reg' = [l \in Lanes' |-> plain'[LowOf(l)'].s]
      BY <1>3, <2>2
    <2> QED
      BY <1>3, <2>1, <2>4, <2>5 DEF LanesRight
  <1> QED
    BY <1>7, <1>8, <1>9 DEF HashInv

\* A lane is supplied with the words of its input.
LEMMA LaneFacts ==
    ASSUME Shape(V), Hashing, HashInv, NEW l \in Lanes
    PROVE  /\ LowOf(l) \in Lanes
           /\ plain[LowOf(l)] \in PlainType(n)
           /\ ScheduleTo(plain[LowOf(l)].w, n)
           /\ DOMAIN w[l] = 0 .. V.slots - 1
           /\ HeldIn(V, n, w[l], plain[LowOf(l)].w)
           /\ ScratchIn(V, n, t[l], plain[LowOf(l)].w)
           /\ reg[l] = plain[LowOf(l)].s
           /\ n < 64 => Supplied(l, plain[LowOf(l)].w)
  <1>1. LowOf(l) \in Lanes
    BY LaneOrder
  <1>2. CountsRight /\ PlainRight /\ LanesRight
    BY DEF HashInv
  <1>3. plain[LowOf(l)] \in PlainType(n) /\ ScheduleTo(plain[LowOf(l)].w, n)
    BY <1>1, <1>2 DEF PlainRight
  <1>4. LaneRight(l) /\ reg[l] = plain[LowOf(l)].s
    BY <1>2 DEF LanesRight
  <1>5. n < 64 => n \in 16 .. 63
    BY <1>2 DEF CountsRight
  <1>6. /\ DOMAIN w[l] = 0 .. V.slots - 1
        /\ HeldIn(V, n, w[l], plain[LowOf(l)].w)
        /\ ScratchIn(V, n, t[l], plain[LowOf(l)].w)
    BY <1>4 DEF LaneRight
  <1>7. n < 64 => Supplied(l, plain[LowOf(l)].w)
    BY <1>5, <1>6, FindWords
  <1> QED
    BY <1>1, <1>3, <1>4, <1>6, <1>7

\* The call goes on.
LEMMA SameCall ==
    ASSUME call' = call
    PROVE  V' = V /\ Lanes' = Lanes /\ \A l : LowOf(l)' = LowOf(l)
BY DEF V, Lanes, LowOf

\* Every lane keeps the same new word as the plain version.
LEMMA WordsStep ==
    ASSUME Shape(V), Hashing, HashInv, call' = call, n \in 16 .. 63, n' = n + 1,
           DOMAIN w' = Lanes, DOMAIN t' = Lanes,
           \A l \in Lanes :
              /\ w'[l] = KeepWord(l, Extended(plain[LowOf(l)].w, n))
              /\ t'[l] = ScratchAfter(l, Extended(plain[LowOf(l)].w, n)),
           \A j \in Lanes : plain'[j].w = WithNext(plain[j].w)
    PROVE  \A l \in Lanes' : LaneRight(l)'
  <1>1. ASSUME NEW l \in Lanes
        PROVE  LaneRight(l)'
    <2> DEFINE p == plain[LowOf(l)].w
               x == Extended(p, n)
    <2>1. /\ LowOf(l) \in Lanes
          /\ DOMAIN w[l] = 0 .. V.slots - 1
          /\ HeldIn(V, n, w[l], p) /\ ScratchIn(V, n, t[l], p)
      BY LaneFacts
    <2>2. w'[l] = KeepWord(l, x) /\ t'[l] = ScratchAfter(l, x)
      OBVIOUS
    <2>3. plain'[LowOf(l)].w = WithNext(p)
      BY <2>1
    <2>4. x = Extended(p, n)
      OBVIOUS
    <2> HIDE DEF p, x
    <2>5. /\ DOMAIN KeepWord(l, x) = 0 .. V.slots - 1
          /\ HeldIn(V, n + 1, KeepWord(l, x), WithNext(p))
          /\ ScratchIn(V, n + 1, ScratchAfter(l, x), WithNext(p))
      BY <2>1, <2>4, LaneStep
    <2>6. /\ DOMAIN w'[l] = 0 .. V.slots - 1
          /\ HeldIn(V, n', w'[l], plain'[LowOf(l)].w)
          /\ ScratchIn(V, n', t'[l], plain'[LowOf(l)].w)
      BY <2>2, <2>3, <2>5
    <2> QED
      BY <2>6, SameCall DEF LaneRight
  <1> QED
    BY <1>1, SameCall

\* Nothing is written to memory in a round whose word is there already.
LEMMA WordsStay ==
    ASSUME Shape(V), Hashing, HashInv, call' = call, n' = n, w' = w, t' = t,
           \A j \in Lanes : plain'[j].w = plain[j].w
    PROVE  \A l \in Lanes' : LaneRight(l)'
  <1>1. ASSUME NEW l \in Lanes
        PROVE  LaneRight(l)'
    <2>1. LowOf(l) \in Lanes /\ LaneRight(l)
      BY LaneOrder DEF HashInv, LanesRight
    <2>2. plain'[LowOf(l)].w = plain[LowOf(l)].w
      BY <2>1
    <2> QED
      BY <2>1, <2>2, SameCall DEF LaneRight
  <1> QED
    BY <1>1, SameCall

\* The same for the plain version: a word, a round, or both.
LEMMA PlainWords ==
    ASSUME Hashing, HashInv, n \in 16 .. 63, NEW j \in Lanes
    PROVE  /\ plain[j] \in PlainType(n)
           /\ ScheduleTo(plain[j].w, n) /\ ScheduleTo(WithNext(plain[j].w), n + 1)
           /\ WithNext(plain[j].w)[n] = Extended(plain[j].w, n)
           /\ PlainWord(plain[j]) \in PlainType(n + 1)
           /\ PlainWord(plain[j]).w = WithNext(plain[j].w)
           /\ PlainWord(plain[j]).s = plain[j].s
  <1>1. plain[j] \in PlainType(n) /\ ScheduleTo(plain[j].w, n)
    BY DEF HashInv, PlainRight
  <1>2. ScheduleTo(WithNext(plain[j].w), n + 1)
    BY <1>1, ScheduleStep
  <1>3. WithNext(plain[j].w)[n] = Extended(plain[j].w, n)
    BY DEF WithNext
  <1>4. /\ PlainWord(plain[j]) \in PlainType(n + 1)
        /\ PlainWord(plain[j]).w = WithNext(plain[j].w)
        /\ PlainWord(plain[j]).s = plain[j].s
    BY <1>1, PlainWordStep
  <1> QED
    BY <1>1, <1>2, <1>3, <1>4

LEMMA MakeWordStep ==
    ASSUME Shape(V), HashInv, MakeWord
    PROVE  HashInv'
  <1>1. /\ Hashing /\ n < V.first /\ n' = n + 1 /\ i' = i /\ call' = call /\ reg' = reg
        /\ w' = [l \in Lanes |-> KeepWord(l, NewWord(l))]
        /\ t' = [l \in Lanes |-> ScratchAfter(l, NewWord(l))]
        /\ plain' = [j \in DOMAIN plain |-> PlainWord(plain[j])]
    BY DEF MakeWord
  <1>2. CountsRight /\ PlainRight /\ LanesRight
    BY <1>1 DEF HashInv
  <1>3. n \in 16 .. 63 /\ i = 0 /\ V.first \in 16 .. 64 /\ V.first \in Nat /\ n \in Nat
    <2>1. V.first \in {16, 32, 64}
      BY DEF Shape
    <2> QED
      BY <1>1, <1>2, <2>1 DEF CountsRight
  <1>4. CountsRight'
    <2>1. n' \in 16 .. 64 /\ i' = 0 /\ ~(n' > V.first)
      BY <1>1, <1>3
    <2> QED
      BY <1>1, <2>1, SameCall DEF CountsRight
  <1>5. \A j \in Lanes : plain'[j] = PlainWord(plain[j])
    BY <1>1, <1>2 DEF PlainRight
  <1>6. PlainRight'
    <2>1. DOMAIN plain' = Lanes
      BY <1>1, <1>2 DEF PlainRight
    <2>2. ASSUME NEW j \in Lanes
          PROVE  /\ plain'[j] \in PlainType(n + 1)
                 /\ ScheduleTo(plain'[j].w, n + 1)
                 /\ plain'[j].s = H
      <3>1. plain[j].s = H
        BY <1>2, <1>3 DEF PlainRight
      <3>2. /\ ScheduleTo(WithNext(plain[j].w), n + 1)
            /\ PlainWord(plain[j]) \in PlainType(n + 1)
            /\ PlainWord(plain[j]).w = WithNext(plain[j].w)
            /\ PlainWord(plain[j]).s = plain[j].s
        BY <1>1, <1>3, PlainWords
      <3> QED
        BY <1>5, <3>1, <3>2
    <2> QED
      BY <1>1, <2>1, <2>2, SameCall DEF PlainRight
  <1>7. \A l \in Lanes : NewWord(l) = Extended(plain[LowOf(l)].w, n)
    <2> TAKE l \in Lanes
    <2>1. Hashing /\ n < 64
      BY <1>1, <1>3
    <2>2. ScheduleTo(plain[LowOf(l)].w, n) /\ Supplied(l, plain[LowOf(l)].w)
      BY <2>1, LaneFacts
    <2> QED
      BY <1>3, <2>2, NewWordRight
  <1>8. LanesRight'
    <2>1. \A l \in Lanes' : LaneRight(l)'
      <3>1. \A j \in Lanes : plain'[j].w = WithNext(plain[j].w)
        BY <1>1, <1>3, <1>5, PlainWords
      <3>2. \A l \in Lanes :
               /\ w'[l] = KeepWord(l, Extended(plain[LowOf(l)].w, n))
               /\ t'[l] = ScratchAfter(l, Extended(plain[LowOf(l)].w, n))
        BY <1>1, <1>7
      <3>3. DOMAIN w' = Lanes /\ DOMAIN t' = Lanes
        BY <1>1
      <3> QED
        BY <1>1, <1>3, <3>1, <3>2, <3>3, WordsStep
    <2>2. reg' = [l \in Lanes |-> plain'[LowOf(l)].s]
      <3>1. reg = [l \in Lanes |-> plain[LowOf(l)].s]
        BY <1>2 DEF LanesRight
      <3>2. \A l \in Lanes : plain'[LowOf(l)].s = plain[LowOf(l)].s
        <4> TAKE l \in Lanes
        <4>1. LowOf(l) \in Lanes
          BY LaneOrder
        <4> QED
          BY <1>1, <1>3, <1>5, <4>1, PlainWords
      <3> QED
        BY <1>1, <3>1, <3>2
    <2>3. DOMAIN w' = Lanes /\ DOMAIN t' = Lanes
      BY <1>1
    <2> QED
      BY <1>1, <2>1, <2>2, <2>3, SameCall DEF LanesRight
  <1> QED
    BY <1>4, <1>6, <1>8 DEF HashInv

LEMMA RoundStep ==
    ASSUME Shape(V), HashInv, Round
    PROVE  HashInv'
  <1>1. /\ Hashing /\ n >= V.first /\ i < n /\ i' = i + 1
        /\ n' = n /\ call' = call /\ w' = w /\ t' = t
        /\ reg' = [l \in Lanes |-> Compress(reg[l], RoundSum(l))]
        /\ plain' = [j \in DOMAIN plain |-> PlainRound(plain[j], i)]
    BY DEF Round
  <1>2. CountsRight /\ PlainRight /\ LanesRight
    BY <1>1 DEF HashInv
  <1>3. /\ n \in 16 .. 64 /\ n = V.first /\ i \in 0 .. n - 1 /\ i \in 0 .. 63
        /\ V.slots # 64 => n = 16
    <2>1. V.first \in {16, 32, 64} /\ (V.slots # 64 => V.first = 16)
      BY DEF Shape
    <2> QED
      BY <1>1, <1>2, <2>1 DEF CountsRight
  <1>4. CountsRight'
    <2>1. i' \in 0 .. n /\ ~(n < V.first) /\ ~(n > V.first)
      BY <1>1, <1>3
    <2> QED
      BY <1>1, <1>3, <2>1, SameCall DEF CountsRight
  <1>5. ASSUME NEW j \in Lanes
        PROVE  /\ plain'[j] \in PlainType(n)
               /\ plain'[j].w = plain[j].w
               /\ plain'[j].s = Compress(plain[j].s, Add(K(i), plain[j].w[i]))
    <2>1. plain'[j] = PlainRound(plain[j], i) /\ plain[j] \in PlainType(n)
      BY <1>1, <1>2 DEF PlainRight
    <2>2. n \in 16 .. 64 /\ i \in 0 .. 63 /\ i < n
      BY <1>1, <1>3
    <2>3. RoundOf(plain'[j], plain[j], i, n)
      BY <2>1, <2>2, PlainRoundStep
    <2> QED
      BY <2>3 DEF RoundOf
  <1>6. PlainRight'
    <2>1. DOMAIN plain' = Lanes /\ i' # 0
      BY <1>1, <1>2, <1>3 DEF PlainRight
    <2>2. \A j \in Lanes : plain'[j] \in PlainType(n) /\ ScheduleTo(plain'[j].w, n)
      BY <1>2, <1>5 DEF PlainRight
    <2> QED
      BY <1>1, <2>1, <2>2, SameCall DEF PlainRight
  <1>7. LanesRight'
    <2>1. \A l \in Lanes' : LaneRight(l)'
      <3>1. \A j \in Lanes : plain'[j].w = plain[j].w
        BY <1>5
      <3> QED
        BY <1>1, <3>1, WordsStay
    <2>2. ASSUME NEW l \in Lanes
          PROVE  Compress(reg[l], RoundSum(l)) = plain'[LowOf(l)].s
      <3> DEFINE p == plain[LowOf(l)].w
      <3>1. /\ LowOf(l) \in Lanes /\ ScheduleTo(p, n)
            /\ HeldIn(V, n, w[l], p) /\ ScratchIn(V, n, t[l], p)
            /\ reg[l] = plain[LowOf(l)].s
        BY <1>1, LaneFacts
      <3>2. plain'[LowOf(l)].s = Compress(plain[LowOf(l)].s, Add(K(i), p[i]))
        BY <1>5, <3>1
      <3> HIDE DEF p
      <3>3. RoundSum(l) = Add(K(i), p[i])
        BY <1>3, <3>1, RoundSumRight
      <3> QED
        BY <3>1, <3>2, <3>3
    <2>3. reg' = [l \in Lanes |-> plain'[LowOf(l)].s]
      BY <1>1, <2>2
    <2>4. DOMAIN w' = Lanes /\ DOMAIN t' = Lanes
      BY <1>1, <1>2 DEF LanesRight
    <2> QED
      BY <1>1, <2>1, <2>3, <2>4, SameCall DEF LanesRight
  <1> QED
    BY <1>4, <1>6, <1>7 DEF HashInv

\* A word and the round that uses it, however both are computed.
LEMMA WordAndRound ==
    ASSUME Shape(V), Hashing, HashInv, call' = call,
           n >= V.first, n < 64, i = n, n' = n + 1, i' = i + 1,
           DOMAIN w' = Lanes, DOMAIN t' = Lanes,
           \A l \in Lanes :
              /\ w'[l] = KeepWord(l, Extended(plain[LowOf(l)].w, n))
              /\ t'[l] = ScratchAfter(l, Extended(plain[LowOf(l)].w, n)),
           reg' = [l \in Lanes |->
                     Compress(reg[l], Add(K(n), Extended(plain[LowOf(l)].w, n)))],
           plain' = [j \in DOMAIN plain |-> PlainRound(PlainWord(plain[j]), i)]
    PROVE  HashInv'
  <1>1. CountsRight /\ PlainRight /\ LanesRight
    BY DEF HashInv
  <1>2. n \in 16 .. 63 /\ n + 1 \in 16 .. 64 /\ n \in 0 .. 63 /\ n < n + 1
    BY <1>1 DEF CountsRight
  <1>3. CountsRight'
    <2>1. n' \in 16 .. 64 /\ i' = n' /\ i' \in 0 .. n' /\ ~(n' < V.first)
      <3>1. V.first \in {16, 32, 64}
        BY DEF Shape
      <3> QED
        BY <1>2, <3>1
    <2> QED
      BY <2>1, SameCall DEF CountsRight
  <1>4. ASSUME NEW j \in Lanes
        PROVE  /\ plain'[j] \in PlainType(n + 1)
               /\ plain'[j].w = WithNext(plain[j].w)
               /\ ScheduleTo(plain'[j].w, n + 1)
               /\ plain'[j].s = Compress(plain[j].s, Add(K(n), Extended(plain[j].w, n)))
    <2>1. plain'[j] = PlainRound(PlainWord(plain[j]), n)
      BY <1>1 DEF PlainRight
    <2> DEFINE r == PlainWord(plain[j])
    <2>2. /\ ScheduleTo(WithNext(plain[j].w), n + 1)
          /\ WithNext(plain[j].w)[n] = Extended(plain[j].w, n)
          /\ r \in PlainType(n + 1)
          /\ r.w = WithNext(plain[j].w) /\ r.s = plain[j].s
      BY <1>2, PlainWords
    <2> HIDE DEF r
    <2>3. /\ PlainRound(r, n) \in PlainType(n + 1)
          /\ PlainRound(r, n).w = r.w
          /\ PlainRound(r, n).s = Compress(r.s, Add(K(n), r.w[n]))
      <3>1. n + 1 \in 16 .. 64 /\ n \in 0 .. 63 /\ n < n + 1
        BY <1>2
      <3>2. RoundOf(PlainRound(r, n), r, n, n + 1)
        BY <2>2, <3>1, PlainRoundStep
      <3> QED
        BY <3>2 DEF RoundOf
    <2>4. plain'[j] = PlainRound(r, n)
      BY <2>1 DEF r
    <2> QED
      BY <2>2, <2>3, <2>4
  <1>5. PlainRight'
    <2>1. DOMAIN plain' = Lanes /\ i' # 0
      BY <1>1, <1>2 DEF PlainRight
    <2> QED
      BY <1>4, <2>1, SameCall DEF PlainRight
  <1>6. LanesRight'
    <2>1. \A j \in Lanes : plain'[j].w = WithNext(plain[j].w)
      BY <1>4
    <2>2. \A l \in Lanes' : LaneRight(l)'
      BY <1>2, <2>1, WordsStep
    <2>3. ASSUME NEW l \in Lanes
          PROVE  Compress(reg[l], Add(K(n), Extended(plain[LowOf(l)].w, n)))
                 = plain'[LowOf(l)].s
      <3>1. LowOf(l) \in Lanes /\ reg[l] = plain[LowOf(l)].s
        BY LaneFacts
      <3> QED
        BY <1>4, <3>1
    <2>4. reg' = [l \in Lanes |-> plain'[LowOf(l)].s]
      BY <2>3
    <2> QED
      BY <2>2, <2>4, SameCall DEF LanesRight
  <1> QED
    BY <1>3, <1>5, <1>6 DEF HashInv

LEMMA FusedRoundStep ==
    ASSUME Shape(V), HashInv, FusedRound
    PROVE  HashInv'
  <1>1. /\ Hashing /\ n >= V.first /\ n < 64 /\ i = n
        /\ n' = n + 1 /\ i' = i + 1 /\ call' = call
        /\ w' = [l \in Lanes |-> KeepWord(l, NewWord(l))]
        /\ t' = [l \in Lanes |-> ScratchAfter(l, NewWord(l))]
        /\ reg' = [l \in Lanes |-> Compress(reg[l], Add(K(i), NewWord(l)))]
        /\ plain' = [j \in DOMAIN plain |-> PlainRound(PlainWord(plain[j]), i)]
    BY DEF FusedRound
  <1>2. n \in 16 .. 63
    BY <1>1 DEF HashInv, CountsRight
  <1>3. \A l \in Lanes : NewWord(l) = Extended(plain[LowOf(l)].w, n)
    <2> TAKE l \in Lanes
    <2>1. Hashing /\ n < 64
      BY <1>1
    <2>2. ScheduleTo(plain[LowOf(l)].w, n) /\ Supplied(l, plain[LowOf(l)].w)
      BY <2>1, LaneFacts
    <2> QED
      BY <1>2, <2>2, NewWordRight
  <1>4. /\ DOMAIN w' = Lanes /\ DOMAIN t' = Lanes
        /\ \A l \in Lanes :
              /\ w'[l] = KeepWord(l, Extended(plain[LowOf(l)].w, n))
              /\ t'[l] = ScratchAfter(l, Extended(plain[LowOf(l)].w, n))
    BY <1>1, <1>3
  <1>5. reg' = [l \in Lanes |->
                  Compress(reg[l], Add(K(n), Extended(plain[LowOf(l)].w, n)))]
    BY <1>1, <1>3
  <1> QED
    BY <1>1, <1>4, <1>5, WordAndRound

LEMMA FoldedRoundStep ==
    ASSUME Shape(V), HashInv, FoldedRound
    PROVE  HashInv'
  <1> DEFINE word(l) == Add(Partial(l), WordOffset)
  <1>1. /\ Hashing /\ V.folded # "none" /\ n < 32 /\ i = n
        /\ n' = n + 1 /\ i' = i + 1 /\ call' = call
        /\ w' = [l \in Lanes |-> KeepWord(l, word(l))]
        /\ t' = [l \in Lanes |-> ScratchAfter(l, word(l))]
        /\ reg' = [l \in Lanes |-> Compress(reg[l], Add(Partial(l), FoldedConstant(i)))]
        /\ plain' = [j \in DOMAIN plain |-> PlainRound(PlainWord(plain[j]), i)]
    BY DEF FoldedRound
  <1>2. n \in 16 .. 31 /\ n >= V.first /\ n < 64
    <2>1. n \in 16 .. 64
      BY <1>1 DEF HashInv, CountsRight
    <2>2. V.first = 16
      BY <1>1 DEF Shape
    <2> QED
      BY <1>1, <2>1, <2>2
  <1>3. ASSUME NEW l \in Lanes
        PROVE  /\ word(l) = Extended(plain[LowOf(l)].w, n)
               /\ Add(Partial(l), FoldedConstant(n))
                  = Add(K(n), Extended(plain[LowOf(l)].w, n))
    <2>1. Hashing /\ n < 64
      BY <1>1, <1>2
    <2>2. ScheduleTo(plain[LowOf(l)].w, n) /\ Supplied(l, plain[LowOf(l)].w)
      BY <2>1, LaneFacts
    <2> QED
      BY <1>2, <2>2, FoldedWordRight
  <1> HIDE DEF word
  <1>4. /\ DOMAIN w' = Lanes /\ DOMAIN t' = Lanes
        /\ \A l \in Lanes :
              /\ w'[l] = KeepWord(l, Extended(plain[LowOf(l)].w, n))
              /\ t'[l] = ScratchAfter(l, Extended(plain[LowOf(l)].w, n))
    BY <1>1, <1>3
  <1>5. reg' = [l \in Lanes |->
                  Compress(reg[l], Add(K(n), Extended(plain[LowOf(l)].w, n)))]
    BY <1>1, <1>3
  <1> QED
    BY <1>1, <1>2, <1>4, <1>5, WordAndRound

LEMMA FirstRoundsStep ==
    ASSUME Shape(V), HashInv, FirstRounds
    PROVE  HashInv'
  <1>1. /\ Hashing /\ V.folded # "none" /\ i = 0 /\ i' = 3
        /\ n' = n /\ call' = call /\ w' = w /\ t' = t
        /\ reg' = [l \in Lanes |-> FirstVariables(l)]
        /\ plain' = [j \in DOMAIN plain |->
                       PlainRound(PlainRound(PlainRound(plain[j], 0), 1), 2)]
    BY DEF FirstRounds
  <1>2. CountsRight /\ PlainRight /\ LanesRight
    BY <1>1 DEF HashInv
  <1>3. V.first = 16 /\ V.two = "registers"
    BY <1>1 DEF Shape
  <1>4. n = 16
    BY <1>1, <1>2, <1>3 DEF CountsRight
  <1>5. CountsRight'
    <2>1. n' \in 16 .. 64 /\ i' \in 0 .. n' /\ ~(n' < V.first) /\ ~(n' > V.first)
      BY <1>1, <1>3, <1>4
    <2> QED
      BY <1>1, <2>1, SameCall DEF CountsRight
  <1> DEFINE Three(r) == Compress(Compress(Compress(H, Add(K(0), r.w[0])),
                                           Add(K(1), r.w[1])), Add(K(2), c80))
  <1>6. ASSUME NEW j \in Lanes
        PROVE  /\ plain'[j] \in PlainType(n)
               /\ plain'[j].w = plain[j].w
               /\ plain'[j].s = Three(plain[j])
    <2> DEFINE r0 == plain[j]
               r1 == PlainRound(r0, 0)
               r2 == PlainRound(r1, 1)
               r3 == PlainRound(r2, 2)
    <2>1. r0 \in PlainType(n) /\ r0.s = H /\ r0.w[2] = c80 /\ plain'[j] = r3
      BY <1>1, <1>2 DEF PlainRight, ScheduleTo
    <2>2. n \in 16 .. 64 /\ 0 < n /\ 1 < n /\ 2 < n
      BY <1>4
    <2> HIDE DEF r0
    <2>3. /\ r1 \in PlainType(n) /\ r1.w = r0.w
          /\ r1.s = Compress(r0.s, Add(K(0), r0.w[0]))
      <3>1. RoundOf(r1, r0, 0, n)
        BY <2>1, <2>2, PlainRoundStep
      <3> HIDE DEF r1
      <3> QED
        BY <3>1 DEF RoundOf
    <2> HIDE DEF r1
    <2>4. /\ r2 \in PlainType(n) /\ r2.w = r1.w
          /\ r2.s = Compress(r1.s, Add(K(1), r1.w[1]))
      <3>1. RoundOf(r2, r1, 1, n)
        BY <2>2, <2>3, PlainRoundStep
      <3> HIDE DEF r2
      <3> QED
        BY <3>1 DEF RoundOf
    <2> HIDE DEF r2
    <2>5. /\ r3 \in PlainType(n) /\ r3.w = r2.w
          /\ r3.s = Compress(r2.s, Add(K(2), r2.w[2]))
      <3>1. RoundOf(r3, r2, 2, n)
        BY <2>2, <2>4, PlainRoundStep
      <3> HIDE DEF r3
      <3> QED
        BY <3>1 DEF RoundOf
    <2> HIDE DEF r3
    <2>6. r3.w = r0.w /\ r3.s = Three(r0)
      BY <2>1, <2>3, <2>4, <2>5
    <2> QED
      BY <2>1, <2>5, <2>6 DEF r0
  <1>7. PlainRight'
    <2>1. DOMAIN plain' = Lanes /\ i' # 0
      BY <1>1, <1>2 DEF PlainRight
    <2>2. \A j \in Lanes : plain'[j] \in PlainType(n) /\ ScheduleTo(plain'[j].w, n)
      BY <1>2, <1>6 DEF PlainRight
    <2> QED
      BY <1>1, <2>1, <2>2, SameCall DEF PlainRight
  <1>8. LanesRight'
    <2>1. \A l \in Lanes' : LaneRight(l)'
      <3>1. \A j \in Lanes : plain'[j].w = plain[j].w
        BY <1>6
      <3> QED
        BY <1>1, <3>1, WordsStay
    <2>2. ASSUME NEW l \in Lanes
          PROVE  FirstVariables(l) = plain'[LowOf(l)].s
      <3> DEFINE p == plain[LowOf(l)].w
                 w0 == p[0]
                 w1 == p[1]
      <3>1. LowOf(l) \in Lanes /\ ScheduleTo(p, n) /\ ScratchIn(V, n, t[l], p)
        BY <1>1, LaneFacts
      <3>2. plain'[LowOf(l)].s = Three(plain[LowOf(l)])
        BY <1>6, <3>1
      <3>3. Three(plain[LowOf(l)])
            = Compress(Compress(Compress(H, Add(K(0), w0)), Add(K(1), w1)), Add(K(2), c80))
        OBVIOUS
      <3> HIDE DEF p, Three
      <3>4. t[l] = <<w0, w1>>
        BY <1>3, <1>4, <3>1 DEF ScratchIn
      <3>5. w0 \in Words /\ w1 \in Words
        BY <1>4, <3>1 DEF ScheduleTo
      <3> HIDE DEF w0, w1
      <3>6. FirstVariables(l)
            = Compress(Compress(Compress(H, Add(K(0), w0)), Add(K(1), w1)), Add(K(2), c80))
        BY <3>4, <3>5, FirstRoundsRight
      <3> QED
        BY <3>2, <3>3, <3>6
    <2>3. reg' = [l \in Lanes |-> plain'[LowOf(l)].s]
      BY <1>1, <2>2
    <2>4. DOMAIN w' = Lanes /\ DOMAIN t' = Lanes
      BY <1>1, <1>2 DEF LanesRight
    <2> QED
      BY <1>1, <2>1, <2>3, <2>4, SameCall DEF LanesRight
  <1> QED
    BY <1>5, <1>7, <1>8 DEF HashInv

\* The early test, or no step at all, leaves the working state as it is.
LEMMA WorkStays ==
    ASSUME HashInv, Hashing, UNCHANGED <<call, n, i, reg, w, t, plain>>
    PROVE  HashInv'
  <1>1. CountsRight' /\ PlainRight'
    BY SameCall DEF HashInv, CountsRight, PlainRight
  <1>2. LanesRight'
    <2>1. \A l \in Lanes : LaneRight(l)'
      <3> TAKE l \in Lanes
      <3>1. LaneRight(l)
        BY DEF HashInv, LanesRight
      <3> QED
        BY <3>1, SameCall DEF LaneRight
    <2> QED
      BY <2>1, SameCall DEF HashInv, LanesRight
  <1> QED
    BY <1>1, <1>2 DEF HashInv

----------------------------------------------------------------------------
(* The groups. *)

LEMMA PlusType ==
    ASSUME NEW x \in Candidates, NEW m
    PROVE  Plus(x, m) \in Candidates
  <1> DEFINE y == Numeral(m)
             c == Carries(64, x, y)
  <1>1. y \subseteq 0 .. 63
    BY DEF Numeral
  <1>2. c \subseteq 0 .. 63
    BY DEF Carries
  <1>3. Plus(x, m) = Xor(Xor(x, y), c)
    BY DEF Plus, AddN
  <1> HIDE DEF y, c
  <1> QED
    BY <1>1, <1>2, <1>3 DEF Xor, Candidates

LEMMA NextGroupStep ==
    ASSUME CallInv, NextGroup, call' = call,
           pc \in {"load", "rounds", "rest", "compare", "done"}
    PROVE  CallInv' /\ pc' \in {"load", "done"}
  <1>1. call \in Calls /\ data \in [Lanes -> Candidates]
    BY DEF CallInv
  <1>2. data' = [j \in Lanes |-> Plus(data[j], V.lanes)] /\ pc' \in {"load", "done"}
    BY DEF NextGroup
  <1>3. data' \in [Lanes -> Candidates]
    BY <1>1, <1>2, PlusType
  <1> QED
    BY <1>1, <1>2, <1>3, SameCall DEF CallInv

LEMMA CallStep ==
    ASSUME NEW c \in Calls, Call(c)
    PROVE  CallInv' /\ pc' \in {"load", "done"}
  <1>1. /\ pc' \in {"load", "done"} /\ call' = c
        /\ data' = IF IsSearch(c)
                   THEN [j \in 1 .. Versions[c.fn].lanes |-> Plus(c.start, j - 1)]
                   ELSE c.data
    BY DEF Call
  <1>2. Lanes' = 1 .. Versions[c.fn].lanes
    BY <1>1 DEF Lanes, V
  <1>3. data' \in [1 .. Versions[c.fn].lanes -> Candidates]
    <2>1. CASE IsSearch(c)
      <3>1. c.start \in Candidates
        BY <2>1, CallAssumption
      <3> QED
        BY <1>1, <2>1, <3>1, PlusType
    <2>2. CASE ~IsSearch(c)
      <3>1. c.data \in [1 .. Versions[c.fn].lanes -> {Inputs[j] : j \in DOMAIN Inputs}]
        BY <2>2, CallAssumption
      <3>2. \A j \in DOMAIN Inputs : Inputs[j] \in Candidates
        BY CallAssumption
      <3>3. {Inputs[j] : j \in DOMAIN Inputs} \subseteq Candidates
        BY <3>2
      <3> HIDE DEF Candidates
      <3> QED
        BY <1>1, <2>2, <3>1, <3>3
    <2> QED
      BY <2>1, <2>2
  <1> QED
    BY <1>1, <1>2, <1>3 DEF CallInv

LEMMA HashingStep ==
    ASSUME CallInv, HashInv, [Next]_vars, UpperWordsAgree, pc = "load" \/ Hashing
    PROVE  CallInv' /\ HashInv'
  <1>1. Shape(V) /\ call \in Calls /\ data \in [Lanes -> Candidates]
    BY CallShape DEF Hashing
  <1>2. ASSUME call' = call, data' = data
        PROVE  CallInv'
    BY <1>1, <1>2, SameCall DEF CallInv
  <1>3. CASE Load
    BY <1>2, <1>3, LoadStep DEF Load
  <1>4. CASE MakeWord
    BY <1>1, <1>2, <1>4, MakeWordStep DEF MakeWord
  <1>5. CASE Round
    BY <1>1, <1>2, <1>5, RoundStep DEF Round
  <1>6. CASE FusedRound
    BY <1>1, <1>2, <1>6, FusedRoundStep DEF FusedRound
  <1>7. CASE FoldedRound
    BY <1>1, <1>2, <1>7, FoldedRoundStep DEF FoldedRound
  <1>8. CASE FirstRounds
    BY <1>1, <1>2, <1>8, FirstRoundsStep DEF FirstRounds
  <1>9. CASE Store
    <2>1. pc' \in {"compare", "done"} /\ call' = call /\ data' = data
      BY <1>9 DEF Store
    <2>2. ~Hashing'
      BY <2>1 DEF Hashing
    <2> QED
      BY <1>2, <2>1, <2>2 DEF HashInv
  <1>10. CASE KeepGroup
    BY <1>2, <1>10, WorkStays DEF KeepGroup
  <1>11. CASE DropGroup
    <2>1. CallInv' /\ pc' \in {"load", "done"}
      BY <1>11, NextGroupStep DEF DropGroup, Hashing
    <2>2. ~Hashing'
      BY <2>1 DEF Hashing
    <2> QED
      BY <2>1, <2>2 DEF HashInv
  <1>12. CASE UNCHANGED vars
    <2>1. UNCHANGED <<pc, call, data, n, i, reg, w, t, plain>>
      BY <1>12 DEF vars
    <2>2. CASE Hashing
      BY <1>2, <2>1, <2>2, WorkStays
    <2>3. CASE ~Hashing
      <3>1. ~Hashing'
        BY <2>1, <2>3 DEF Hashing
      <3> QED
        BY <1>2, <2>1, <3>1 DEF HashInv
    <2> QED
      BY <2>2, <2>3
  <1>13. /\ ~CustomWord /\ ~CustomRound /\ ~CustomReturn /\ ~Found /\ ~NotFound
         /\ ~Return /\ \A c \in Calls : ~Call(c)
    BY DEF CustomWord, CustomRound, CustomReturn, Found, NotFound, Return, Call, Hashing
  <1> QED
    BY <1>3, <1>4, <1>5, <1>6, <1>7, <1>8, <1>9, <1>10, <1>11, <1>12, <1>13 DEF Next

LEMMA OtherStep ==
    ASSUME CallInv, [Next]_vars, pc # "load", ~Hashing
    PROVE  CallInv' /\ ~Hashing'
  <1>1. CASE CustomWord \/ CustomRound
    BY <1>1 DEF CustomWord, CustomRound, CallInv, Hashing
  <1>2. CASE CustomReturn \/ Return
    BY <1>2 DEF CustomReturn, Return, Clear, CallInv, Hashing
  <1>3. ASSUME NEW c \in Calls, Call(c)
        PROVE  CallInv' /\ ~Hashing'
    BY <1>3, CallStep DEF Hashing
  <1>4. CASE Found
    <2>1. pc = "compare" /\ pc' = "done" /\ call' = call /\ data' = data
      BY <1>4 DEF Found
    <2> QED
      BY <2>1, SameCall DEF CallInv, Hashing
  <1>5. CASE NotFound
    BY <1>5, NextGroupStep DEF NotFound, Hashing
  <1>6. CASE UNCHANGED vars
    <2>1. UNCHANGED <<pc, call, data>>
      BY <1>6 DEF vars
    <2> QED
      BY <2>1, SameCall DEF CallInv, Hashing
  <1>7. /\ ~Load /\ ~MakeWord /\ ~Round /\ ~FusedRound /\ ~FirstRounds /\ ~FoldedRound
        /\ ~Store /\ ~KeepGroup /\ ~DropGroup
    BY DEF Load, MakeWord, Round, FusedRound, FirstRounds, FoldedRound, Store,
           KeepGroup, DropGroup
  <1> QED
    BY <1>1, <1>2, <1>3, <1>4, <1>5, <1>6, <1>7 DEF Next

\* The invariant.
LEMMA Invariant == Spec /\ []UpperWordsAgree => [](CallInv /\ HashInv)
  <1>1. Init => CallInv /\ HashInv
    BY DEF Init, CallInv, HashInv, Hashing
  <1>2. CallInv /\ HashInv /\ UpperWordsAgree /\ [Next]_vars => CallInv' /\ HashInv'
    <2> SUFFICES ASSUME CallInv, HashInv, UpperWordsAgree, [Next]_vars
                 PROVE  CallInv' /\ HashInv'
      OBVIOUS
    <2>1. CASE pc = "load" \/ Hashing
      BY <2>1, HashingStep
    <2>2. CASE pc # "load" /\ ~Hashing
      BY <2>2, OtherStep DEF HashInv
    <2> QED
      BY <2>1, <2>2
  <1> QED
    BY <1>1, <1>2, PTL DEF Spec

\* Whatever a version leaves out, folds into constants or keeps in scratch
\* registers, each lane has the working variables of the plain version after
\* every round, for all inputs.
THEOREM SameRegisters == Spec /\ []UpperWordsAgree => []RegistersAgree
  <1>1. CallInv /\ HashInv => RegistersAgree
    BY DEF HashInv, LanesRight, RegistersAgree
  <1> QED
    BY <1>1, Invariant, PTL

\* The words that a later one can need are where that one looks for them, in
\* 64, 48 or 16 slots.
THEOREM SameWindow == Spec /\ []UpperWordsAgree => []WindowHeld
  <1>1. CallInv /\ HashInv => WindowHeld
    <2> SUFFICES ASSUME CallInv, HashInv, Hashing, NEW l \in Lanes,
                        NEW j \in n - 16 .. n - 1, j >= 16
                 PROVE  Mem(l, j) = plain[LowOf(l)].w[j]
      BY DEF WindowHeld
    <2>1. Shape(V)
      BY CallShape DEF Hashing
    <2>2. HeldIn(V, n, w[l], plain[LowOf(l)].w) /\ n \in 16 .. 64
      BY <2>1, LaneFacts DEF HashInv, CountsRight
    <2>3. w[l][SlotIn(V, j)] = plain[LowOf(l)].w[j]
      BY <2>2 DEF HeldIn
    <2> QED
      BY <2>3 DEF Mem, Slot, SlotIn
  <1> QED
    BY <1>1, Invariant, PTL

----------------------------------------------------------------------------
(* The hash of an input. *)

\* r is what the plain version has of input d after m words and k rounds: the
\* block, each further word made of the ones before it, and the variables at the
\* end of k rounds that start from H.
Traced(d, r, m, k) ==
    /\ \A j \in 0 .. 15 : r.w[j] = Block(Low(d), High(d))[j]
    /\ \A j \in 16 .. m - 1 : r.w[j] = Extended(r.w, j)
    /\ \E S : /\ S[0] = H /\ S[k] = r.s
              /\ \A q \in 0 .. k - 1 : S[q + 1] = Compress(S[q], Add(K(q), r.w[q]))

IsHashOf(d, h) == \E r : Traced(d, r, 64, 64) /\ r.s = h

LEMMA TraceStart ==
    ASSUME NEW d, NEW r, r = [w |-> Block(Low(d), High(d)), s |-> H]
    PROVE  Traced(d, r, 16, 0)
  <1> DEFINE S == [q \in 0 .. 0 |-> H]
  <1>1. S[0] = H /\ r.s = H /\ r.w = Block(Low(d), High(d))
    OBVIOUS
  <1> HIDE DEF S
  <1> QED
    BY <1>1 DEF Traced

LEMMA TraceWord ==
    ASSUME NEW d, NEW r \in PlainType(n), NEW k \in 0 .. n, n \in 16 .. 63,
           ScheduleTo(r.w, n), Traced(d, r, n, k)
    PROVE  Traced(d, PlainWord(r), n + 1, k)
  <1> DEFINE new == PlainWord(r)
  <1>1. new.w = WithNext(r.w) /\ new.s = r.s
    BY PlainWordStep
  <1> HIDE DEF new
  <1>2. \A j \in 0 .. n - 1 : new.w[j] = r.w[j]
    BY <1>1, ScheduleStep
  <1>3. new.w[n] = Extended(r.w, n)
    <2>1. n \in 0 .. n
      OBVIOUS
    <2>2. WithNext(r.w)[n] = Extended(r.w, n)
      BY <2>1 DEF WithNext
    <2> QED
      BY <1>1, <2>2
  <1>4. ASSUME NEW j \in 16 .. n
        PROVE  Extended(new.w, j) = Extended(r.w, j)
    <2>1. /\ j - 2 \in 0 .. n - 1 /\ j - 7 \in 0 .. n - 1
          /\ j - 15 \in 0 .. n - 1 /\ j - 16 \in 0 .. n - 1
      OBVIOUS
    <2>2. /\ new.w[j - 2] = r.w[j - 2] /\ new.w[j - 7] = r.w[j - 7]
          /\ new.w[j - 15] = r.w[j - 15] /\ new.w[j - 16] = r.w[j - 16]
      BY <1>2, <2>1
    <2> QED
      BY <2>2 DEF Extended
  <1>5. \A j \in 0 .. 15 : new.w[j] = Block(Low(d), High(d))[j]
    <2> TAKE j \in 0 .. 15
    <2>1. r.w[j] = Block(Low(d), High(d))[j]
      BY DEF Traced
    <2>2. new.w[j] = r.w[j]
      BY <1>2
    <2> QED
      BY <2>1, <2>2
  <1>6. \A j \in 16 .. n + 1 - 1 : new.w[j] = Extended(new.w, j)
    <2> TAKE j \in 16 .. n + 1 - 1
    <2>1. j \in 16 .. n
      OBVIOUS
    <2>2. CASE j = n
      BY <1>3, <1>4, <2>1, <2>2
    <2>3. CASE j # n
      <3>1. j \in 16 .. n - 1 /\ j \in 0 .. n - 1
        BY <2>1, <2>3
      <3>2. r.w[j] = Extended(r.w, j)
        BY <3>1 DEF Traced
      <3>3. new.w[j] = r.w[j]
        BY <1>2, <3>1
      <3> QED
        BY <1>4, <2>1, <3>2, <3>3
    <2> QED
      BY <2>2, <2>3
  <1>7. PICK S : /\ S[0] = H /\ S[k] = r.s
                 /\ \A q \in 0 .. k - 1 : S[q + 1] = Compress(S[q], Add(K(q), r.w[q]))
    BY DEF Traced
  <1>8. \A q \in 0 .. k - 1 : S[q + 1] = Compress(S[q], Add(K(q), new.w[q]))
    <2> TAKE q \in 0 .. k - 1
    <2>1. q \in 0 .. n - 1
      OBVIOUS
    <2>2. new.w[q] = r.w[q]
      BY <1>2, <2>1
    <2> QED
      BY <1>7, <2>2
  <1>9. S[0] = H /\ S[k] = new.s
    BY <1>1, <1>7
  <1>10. Traced(d, new, n + 1, k)
    BY <1>5, <1>6, <1>8, <1>9 DEF Traced
  <1> QED
    BY <1>10 DEF new

LEMMA TraceRound ==
    ASSUME NEW d, NEW m \in 16 .. 64, NEW r \in PlainType(m), NEW k \in 0 .. 63, k < m,
           Traced(d, r, m, k)
    PROVE  Traced(d, PlainRound(r, k), m, k + 1)
  <1> DEFINE new == PlainRound(r, k)
  <1>1. new.w = r.w /\ new.s = Compress(r.s, Add(K(k), r.w[k]))
    <2>1. RoundOf(new, r, k, m)
      BY PlainRoundStep
    <2> HIDE DEF new
    <2> QED
      BY <2>1 DEF RoundOf
  <1> HIDE DEF new
  <1>2. PICK S : /\ S[0] = H /\ S[k] = r.s
                 /\ \A q \in 0 .. k - 1 : S[q + 1] = Compress(S[q], Add(K(q), r.w[q]))
    BY DEF Traced
  <1> DEFINE T == [q \in 0 .. k + 1 |-> IF q = k + 1 THEN new.s ELSE S[q]]
  <1>3. T[k + 1] = new.s /\ \A q \in 0 .. k : T[q] = S[q]
    OBVIOUS
  <1> HIDE DEF T
  <1>4. \A q \in 0 .. k : T[q + 1] = Compress(T[q], Add(K(q), new.w[q]))
    <2> TAKE q \in 0 .. k
    <2>1. CASE q = k
      BY <1>1, <1>2, <1>3, <2>1
    <2>2. CASE q # k
      <3>1. q \in 0 .. k - 1 /\ q + 1 \in 0 .. k
        BY <2>2
      <3>2. T[q + 1] = S[q + 1] /\ T[q] = S[q]
        BY <1>3, <3>1
      <3>3. S[q + 1] = Compress(S[q], Add(K(q), r.w[q]))
        BY <1>2, <3>1
      <3> QED
        BY <1>1, <3>2, <3>3
    <2> QED
      BY <2>1, <2>2
  <1>5. T[0] = H
    BY <1>2, <1>3
  <1>6. \A q \in 0 .. k + 1 - 1 : T[q + 1] = Compress(T[q], Add(K(q), new.w[q]))
    BY <1>4
  <1>7. /\ \A j \in 0 .. 15 : new.w[j] = Block(Low(d), High(d))[j]
        /\ \A j \in 16 .. m - 1 : new.w[j] = Extended(new.w, j)
    BY <1>1 DEF Traced
  <1>8. Traced(d, new, m, k + 1)
    BY <1>3, <1>5, <1>6, <1>7 DEF Traced
  <1> QED
    BY <1>8 DEF new

\* The variables on the way to the hash of q, those of x after k rounds among them.
Path(T, x, k, q) ==
    /\ T[0] = H /\ T[k] = x /\ T[64] = q.s
    /\ \A j \in 0 .. 63 : T[j + 1] = Compress(T[j], Add(K(j), q.w[j]))

\* A round of the plain version is the same on every way to the hash.
LEMMA OneTrace ==
    ASSUME NEW d, NEW q, Traced(d, q, 64, 64),
           NEW m \in 16 .. 64, NEW k0 \in 0 .. m, NEW r, Traced(d, r, m, k0)
    PROVE  \E T : Path(T, r.s, k0, q)
  <1>1. \A j \in 0 .. m - 1 : r.w[j] = q.w[j]
    <2> DEFINE odd == {j \in 0 .. m - 1 : r.w[j] # q.w[j]}
    <2> SUFFICES ASSUME odd # {}
                 PROVE  FALSE
      OBVIOUS
    <2>1. odd \in SUBSET Nat
      OBVIOUS
    <2> HIDE DEF odd
    <2>2. PICK j \in odd : \A k \in odd : j <= k
      BY <2>1, Smallest
    <2>3. j \in 0 .. m - 1 /\ r.w[j] # q.w[j]
      BY <2>2 DEF odd
    <2>4. ASSUME NEW k \in 0 .. m - 1, k < j
          PROVE  r.w[k] = q.w[k]
      <3>1. ~(j <= k)
        BY <2>3, <2>4
      <3> QED
        BY <2>2, <3>1 DEF odd
    <2>5. j \in 16 .. m - 1 /\ j \in 16 .. 63
      <3>1. CASE j \in 0 .. 15
        BY <2>3, <3>1 DEF Traced
      <3> QED
        BY <2>3, <3>1
    <2>6. Extended(r.w, j) = Extended(q.w, j)
      <3>1. /\ j - 2 \in 0 .. m - 1 /\ j - 7 \in 0 .. m - 1
            /\ j - 15 \in 0 .. m - 1 /\ j - 16 \in 0 .. m - 1
            /\ j - 2 < j /\ j - 7 < j /\ j - 15 < j /\ j - 16 < j
        BY <2>5
      <3>2. /\ r.w[j - 2] = q.w[j - 2] /\ r.w[j - 7] = q.w[j - 7]
            /\ r.w[j - 15] = q.w[j - 15] /\ r.w[j - 16] = q.w[j - 16]
        BY <2>4, <3>1
      <3> QED
        BY <3>2 DEF Extended
    <2>7. r.w[j] = Extended(r.w, j) /\ q.w[j] = Extended(q.w, j)
      BY <2>5 DEF Traced
    <2> QED
      BY <2>3, <2>6, <2>7
  <1>2. PICK S : /\ S[0] = H /\ S[k0] = r.s
                 /\ \A k \in 0 .. k0 - 1 : S[k + 1] = Compress(S[k], Add(K(k), r.w[k]))
    BY DEF Traced
  <1>3. PICK T : /\ T[0] = H /\ T[64] = q.s
                 /\ \A k \in 0 .. 63 : T[k + 1] = Compress(T[k], Add(K(k), q.w[k]))
    BY DEF Traced
  <1> DEFINE same == {k \in 0 .. k0 : S[k] = T[k]}
  <1>4. 0 \in same
    BY <1>2, <1>3
  <1>5. ASSUME NEW k \in 1 .. k0, k - 1 \in same
        PROVE  k \in same
    <2>1. /\ k - 1 \in 0 .. 63 /\ k - 1 \in 0 .. m - 1 /\ k - 1 \in 0 .. k0 - 1
          /\ S[k - 1] = T[k - 1] /\ k - 1 + 1 = k
      BY <1>5
    <2>2. S[k] = Compress(S[k - 1], Add(K(k - 1), r.w[k - 1]))
      BY <1>2, <2>1
    <2>3. T[k] = Compress(T[k - 1], Add(K(k - 1), q.w[k - 1]))
      BY <1>3, <2>1
    <2>4. S[k] = T[k]
      BY <1>1, <2>1, <2>2, <2>3
    <2> QED
      BY <2>4
  <1>6. S[k0] = T[k0]
    <2>1. k0 \in Nat /\ k0 \in 0 .. k0
      OBVIOUS
    <2> HIDE DEF same
    <2>2. \A k \in 0 .. k0 : k \in same
      BY <1>4, <1>5, <2>1, Counting
    <2>3. k0 \in same
      BY <2>1, <2>2
    <2> QED
      BY <2>3 DEF same
  <1> QED
    BY <1>2, <1>3, <1>6 DEF Path

\* An input has one hash.
LEMMA OneHash ==
    ASSUME NEW d, NEW g, NEW h, IsHashOf(d, g), IsHashOf(d, h)
    PROVE  g = h
  <1>1. PICK r : Traced(d, r, 64, 64) /\ r.s = g
    BY DEF IsHashOf
  <1>2. PICK q : Traced(d, q, 64, 64) /\ q.s = h
    BY DEF IsHashOf
  <1>3. 64 \in 16 .. 64 /\ 64 \in 0 .. 64
    OBVIOUS
  <1>4. PICK T : Path(T, r.s, 64, q)
    BY <1>1, <1>2, <1>3, OneTrace
  <1> QED
    BY <1>1, <1>2, <1>4 DEF Path

----------------------------------------------------------------------------
(* What is written is the hash that sha256_custom computed first. *)

InputSet == {Inputs[j] : j \in DOMAIN Inputs}

\* While sha256_custom runs on all inputs, first the words, then the rounds.
CustomInv ==
    pc = "custom" =>
       /\ n \in 16 .. 64 /\ i \in 0 .. 64 /\ (i > 0 => n = 64)
       /\ DOMAIN plain = DOMAIN Inputs
       /\ \A j \in DOMAIN Inputs :
             /\ plain[j] \in PlainType(n)
             /\ ScheduleTo(plain[j].w, n)
             /\ Traced(Inputs[j], plain[j], n, i)

\* After that raw holds the hash of every input.
RawInv ==
    pc # "custom" =>
       DOMAIN raw = InputSet /\ \A d \in InputSet : IsHashOf(d, raw[d])

\* While a version runs, the plain one is at the same word and round.
TraceInv == Hashing => \A j \in Lanes : Traced(data[j], plain[j], n, i)

\* The output is what the version writes of the hashes of the group; only a
\* search compares, and a hash function is given inputs of the run.
StoredInv ==
    /\ pc = "compare" => IsSearch(call)
    /\ pc = "compare" \/ (pc = "done" /\ ~IsSearch(call)) =>
          /\ DOMAIN hash = Lanes
          /\ \A j \in Lanes : \E s \in [1 .. 8 -> Words] :
                IsHashOf(data[j], s) /\ hash[j] = Written(s)
    /\ pc \in {"load", "rounds", "rest", "done"} /\ ~IsSearch(call) =>
          \A j \in Lanes : data[j] \in InputSet

LEMMA CustomStart == Init => CustomInv /\ RawInv /\ TraceInv /\ StoredInv
  <1> SUFFICES ASSUME Init
               PROVE  CustomInv /\ RawInv /\ TraceInv /\ StoredInv
    OBVIOUS
  <1>1. /\ pc = "custom" /\ n = 16 /\ i = 0
        /\ plain = [j \in DOMAIN Inputs |->
                      [w |-> Block(Low(Inputs[j]), High(Inputs[j])), s |-> H]]
    BY DEF Init
  <1>2. ASSUME NEW j \in DOMAIN Inputs
        PROVE  /\ plain[j] \in PlainType(16)
               /\ ScheduleTo(plain[j].w, 16)
               /\ Traced(Inputs[j], plain[j], 16, 0)
    <2>1. plain[j] = [w |-> Block(Low(Inputs[j]), High(Inputs[j])), s |-> H]
      BY <1>1
    <2>2. Low(Inputs[j]) \in Words /\ High(Inputs[j]) \in Words
      <3>1. Inputs[j] \in Candidates
        BY CallAssumption
      <3> QED
        BY <3>1, HalfTypes DEF Candidates
    <2>3. ScheduleTo(Block(Low(Inputs[j]), High(Inputs[j])), 16)
      BY <2>2, BlockRight
    <2>4. plain[j].w = Block(Low(Inputs[j]), High(Inputs[j])) /\ plain[j].s = H
      BY <2>1
    <2>5. plain[j].w \in [0 .. 16 - 1 -> Words] /\ plain[j].s \in [1 .. 8 -> Words]
      BY <2>3, <2>4, TableTypes DEF ScheduleTo
    <2>6. plain[j] = [w |-> plain[j].w, s |-> plain[j].s]
      BY <2>1, <2>4
    <2>7. plain[j] \in PlainType(16)
      BY <2>5, <2>6 DEF PlainType
    <2> QED
      BY <2>1, <2>3, <2>4, <2>7, TraceStart
  <1>3. CustomInv
    <2>1. DOMAIN plain = DOMAIN Inputs
      BY <1>1
    <2> QED
      BY <1>1, <1>2, <2>1 DEF CustomInv
  <1> QED
    BY <1>1, <1>3 DEF RawInv, TraceInv, StoredInv, Hashing

LEMMA CustomWordStep ==
    ASSUME CustomInv, CustomWord
    PROVE  CustomInv'
  <1>1. /\ pc = "custom" /\ pc' = "custom" /\ n' = n + 1 /\ i' = i
        /\ plain' = [j \in DOMAIN plain |-> PlainWord(plain[j])]
    BY DEF CustomWord
  <1>2. n \in 16 .. 63 /\ i = 0 /\ DOMAIN plain = DOMAIN Inputs
    BY <1>1 DEF CustomInv, CustomWord
  <1>3. ASSUME NEW j \in DOMAIN Inputs
        PROVE  /\ plain'[j] \in PlainType(n + 1)
               /\ ScheduleTo(plain'[j].w, n + 1)
               /\ Traced(Inputs[j], plain'[j], n + 1, 0)
    <2>1. /\ plain[j] \in PlainType(n) /\ ScheduleTo(plain[j].w, n)
          /\ Traced(Inputs[j], plain[j], n, 0)
      BY <1>1, <1>2 DEF CustomInv
    <2>2. 0 \in 0 .. n
      BY <1>2
    <2>3. Traced(Inputs[j], PlainWord(plain[j]), n + 1, 0)
      BY <1>2, <2>1, <2>2, TraceWord
    <2>4. /\ PlainWord(plain[j]) \in PlainType(n + 1)
          /\ PlainWord(plain[j]).w = WithNext(plain[j].w)
      BY <1>2, <2>1, PlainWordStep
    <2>5. ScheduleTo(WithNext(plain[j].w), n + 1)
      BY <1>2, <2>1, ScheduleStep
    <2>6. plain'[j] = PlainWord(plain[j])
      BY <1>1, <1>2
    <2> QED
      BY <2>3, <2>4, <2>5, <2>6
  <1>4. DOMAIN plain' = DOMAIN Inputs
    BY <1>1, <1>2
  <1>5. n' \in 16 .. 64 /\ i' = 0
    BY <1>1, <1>2
  <1> QED
    BY <1>1, <1>3, <1>4, <1>5 DEF CustomInv

LEMMA CustomRoundStep ==
    ASSUME CustomInv, CustomRound
    PROVE  CustomInv'
  <1>1. /\ pc = "custom" /\ pc' = "custom" /\ n = 64 /\ n' = n /\ i < 64 /\ i' = i + 1
        /\ plain' = [j \in DOMAIN plain |-> PlainRound(plain[j], i)]
    BY DEF CustomRound
  <1>2. i \in 0 .. 63 /\ DOMAIN plain = DOMAIN Inputs
    BY <1>1 DEF CustomInv
  <1>3. ASSUME NEW j \in DOMAIN Inputs
        PROVE  /\ plain'[j] \in PlainType(64)
               /\ ScheduleTo(plain'[j].w, 64)
               /\ Traced(Inputs[j], plain'[j], 64, i + 1)
    <2>1. /\ plain[j] \in PlainType(64) /\ ScheduleTo(plain[j].w, 64)
          /\ Traced(Inputs[j], plain[j], 64, i)
      BY <1>1 DEF CustomInv
    <2>2. 64 \in 16 .. 64 /\ i < 64
      BY <1>1
    <2>3. Traced(Inputs[j], PlainRound(plain[j], i), 64, i + 1)
      BY <1>2, <2>1, <2>2, TraceRound
    <2>4. /\ PlainRound(plain[j], i) \in PlainType(64)
          /\ PlainRound(plain[j], i).w = plain[j].w
      <3>1. RoundOf(PlainRound(plain[j], i), plain[j], i, 64)
        BY <1>2, <2>1, <2>2, PlainRoundStep
      <3> QED
        BY <3>1 DEF RoundOf
    <2>5. plain'[j] = PlainRound(plain[j], i)
      BY <1>1, <1>2
    <2> QED
      BY <2>1, <2>3, <2>4, <2>5
  <1>4. DOMAIN plain' = DOMAIN Inputs
    BY <1>1, <1>2
  <1>5. n' = 64 /\ n' \in 16 .. 64 /\ i' \in 0 .. 64
    BY <1>1, <1>2
  <1> QED
    BY <1>1, <1>3, <1>4, <1>5 DEF CustomInv

LEMMA CustomReturnStep ==
    ASSUME CustomInv, CustomReturn
    PROVE  RawInv'
  <1>1. /\ pc = "custom" /\ i = 64
        /\ raw' = [d \in InputSet |-> plain[CHOOSE j \in DOMAIN Inputs : Inputs[j] = d].s]
    BY DEF CustomReturn, InputSet
  <1>2. ASSUME NEW d \in InputSet
        PROVE  IsHashOf(d, raw'[d])
    <2> DEFINE j == CHOOSE q \in DOMAIN Inputs : Inputs[q] = d
    <2>1. j \in DOMAIN Inputs /\ Inputs[j] = d
      <3>1. \E q \in DOMAIN Inputs : Inputs[q] = d
        BY DEF InputSet
      <3> QED
        BY <3>1
    <2>2. raw'[d] = plain[j].s
      BY <1>1
    <2> HIDE DEF j
    <2>3. Traced(Inputs[j], plain[j], 64, 64)
      BY <1>1, <2>1 DEF CustomInv
    <2> QED
      BY <2>1, <2>2, <2>3 DEF IsHashOf
  <1>3. DOMAIN raw' = InputSet
    BY <1>1
  <1> QED
    BY <1>2, <1>3 DEF RawInv, InputSet

LEMMA TraceSteps ==
    ASSUME CallInv, HashInv, TraceInv, [Next]_vars, pc = "load" \/ Hashing
    PROVE  TraceInv'
  <1>1. Shape(V) /\ data \in [Lanes -> Candidates]
    BY CallShape DEF Hashing
  <1>2. Hashing => CountsRight /\ PlainRight
    BY DEF HashInv
  <1>3. ASSUME call' = call, data' = data,
               \A j \in Lanes : Traced(data[j], plain'[j], n', i')
        PROVE  TraceInv'
    BY <1>3, SameCall DEF TraceInv
  <1>4. CASE Load
    <2>1. ASSUME NEW j \in Lanes
          PROVE  Traced(data[j], plain'[j], 16, 0)
      <3>1. plain'[j] = [w |-> Block(Low(data[j]), High(data[j])), s |-> H]
        BY <1>1, <1>4 DEF Load
      <3> QED
        BY <3>1, TraceStart
    <2> QED
      BY <1>3, <1>4, <2>1 DEF Load
  <1>5. ASSUME Hashing, n < 64, NEW j \in Lanes
        PROVE  /\ Traced(data[j], PlainWord(plain[j]), n + 1, i)
               /\ PlainWord(plain[j]) \in PlainType(n + 1)
    <2>1. n \in 16 .. 63 /\ i \in 0 .. n
      BY <1>2, <1>5 DEF CountsRight
    <2>2. plain[j] \in PlainType(n) /\ ScheduleTo(plain[j].w, n)
      BY <1>2, <1>5 DEF PlainRight
    <2>3. Traced(data[j], plain[j], n, i)
      BY <1>5 DEF TraceInv
    <2> QED
      BY <2>1, <2>2, <2>3, TraceWord, PlainWordStep
  <1>6. CASE MakeWord
    <2>1. /\ Hashing /\ n < 64 /\ n' = n + 1 /\ i' = i /\ call' = call /\ data' = data
          /\ plain' = [j \in DOMAIN plain |-> PlainWord(plain[j])]
      <3>1. V.first \in {16, 32, 64} /\ n < V.first /\ n \in 16 .. 64
        BY <1>1, <1>2, <1>6 DEF MakeWord, Shape, CountsRight
      <3>2. n < 64
        BY <3>1
      <3> QED
        BY <1>6, <3>2 DEF MakeWord
    <2>2. \A j \in Lanes : plain'[j] = PlainWord(plain[j])
      BY <1>2, <2>1 DEF PlainRight
    <2> QED
      BY <1>3, <1>5, <2>1, <2>2
  <1>7. CASE Round
    <2>1. /\ Hashing /\ i < n /\ n' = n /\ i' = i + 1 /\ call' = call /\ data' = data
          /\ plain' = [j \in DOMAIN plain |-> PlainRound(plain[j], i)]
      BY <1>7 DEF Round
    <2>2. n \in 16 .. 64 /\ i \in 0 .. 63
      BY <1>2, <2>1 DEF CountsRight
    <2>3. ASSUME NEW j \in Lanes
          PROVE  Traced(data[j], plain'[j], n, i + 1)
      <3>1. plain[j] \in PlainType(n) /\ plain'[j] = PlainRound(plain[j], i)
        BY <1>2, <2>1 DEF PlainRight
      <3>2. Traced(data[j], plain[j], n, i)
        BY <2>1 DEF TraceInv
      <3>3. Traced(data[j], PlainRound(plain[j], i), n, i + 1)
        BY <2>1, <2>2, <3>1, <3>2, TraceRound
      <3> QED
        BY <3>1, <3>3
    <2> QED
      BY <1>3, <2>1, <2>3
  <1>8. CASE FusedRound \/ FoldedRound
    <2>1. /\ Hashing /\ n < 64 /\ i = n
          /\ n' = n + 1 /\ i' = i + 1 /\ call' = call /\ data' = data
          /\ plain' = [j \in DOMAIN plain |-> PlainRound(PlainWord(plain[j]), i)]
      <3>1. CASE FusedRound
        BY <3>1 DEF FusedRound
      <3>2. CASE FoldedRound
        <4>1. n < 32 /\ Hashing
          BY <3>2 DEF FoldedRound
        <4>2. n < 64
          BY <1>2, <4>1 DEF CountsRight
        <4> QED
          BY <3>2, <4>2 DEF FoldedRound
      <3> QED
        BY <1>8, <3>1, <3>2
    <2>2. n + 1 \in 16 .. 64 /\ i \in 0 .. 63 /\ i < n + 1
      BY <1>2, <2>1 DEF CountsRight
    <2>3. ASSUME NEW j \in Lanes
          PROVE  Traced(data[j], plain'[j], n + 1, i + 1)
      <3> DEFINE r == PlainWord(plain[j])
      <3>1. Traced(data[j], r, n + 1, i) /\ r \in PlainType(n + 1)
        BY <1>5, <2>1
      <3>2. plain'[j] = PlainRound(r, i)
        BY <1>2, <2>1 DEF PlainRight
      <3> HIDE DEF r
      <3>3. Traced(data[j], PlainRound(r, i), n + 1, i + 1)
        BY <2>2, <3>1, TraceRound
      <3> QED
        BY <3>2, <3>3
    <2> QED
      BY <1>3, <2>1, <2>3
  <1>9. CASE FirstRounds
    <2>1. /\ Hashing /\ i = 0 /\ n' = n /\ i' = 3 /\ call' = call /\ data' = data
          /\ plain' = [j \in DOMAIN plain |->
                         PlainRound(PlainRound(PlainRound(plain[j], 0), 1), 2)]
      BY <1>9 DEF FirstRounds
    <2>2. n \in 16 .. 64 /\ 0 < n /\ 1 < n /\ 2 < n
      BY <1>2, <2>1 DEF CountsRight
    <2>3. ASSUME NEW j \in Lanes
          PROVE  Traced(data[j], plain'[j], n, 3)
      <3> DEFINE r0 == plain[j]
                 r1 == PlainRound(r0, 0)
                 r2 == PlainRound(r1, 1)
                 r3 == PlainRound(r2, 2)
      <3>1. r0 \in PlainType(n) /\ Traced(data[j], r0, n, 0)
        BY <1>2, <2>1 DEF PlainRight, TraceInv
      <3>2. plain'[j] = r3
        BY <1>2, <2>1 DEF PlainRight
      <3> HIDE DEF r0
      <3>3. r1 \in PlainType(n)
        <4>1. RoundOf(r1, r0, 0, n)
          BY <2>2, <3>1, PlainRoundStep
        <4> QED
          BY <4>1 DEF RoundOf
      <3>4. Traced(data[j], r1, n, 0 + 1)
        BY <2>2, <3>1, TraceRound
      <3> HIDE DEF r1
      <3>5. Traced(data[j], r1, n, 1)
        BY <3>4
      <3>6. r2 \in PlainType(n)
        <4>1. RoundOf(r2, r1, 1, n)
          BY <2>2, <3>3, PlainRoundStep
        <4> QED
          BY <4>1 DEF RoundOf
      <3>7. Traced(data[j], r2, n, 1 + 1)
        BY <2>2, <3>3, <3>5, TraceRound
      <3> HIDE DEF r2
      <3>8. Traced(data[j], r2, n, 2)
        BY <3>7
      <3>9. Traced(data[j], r3, n, 2 + 1)
        BY <2>2, <3>6, <3>8, TraceRound
      <3> HIDE DEF r3
      <3> QED
        BY <3>9, <3>2
    <2> QED
      BY <1>3, <2>1, <2>3
  <1>10. CASE Store \/ DropGroup
    <2>1. CASE Store
      BY <2>1 DEF Store, TraceInv, Hashing
    <2>2. CASE DropGroup
      BY <2>2 DEF DropGroup, NextGroup, TraceInv, Hashing
    <2> QED
      BY <1>10, <2>1, <2>2
  <1>11. CASE KeepGroup
    BY <1>3, <1>11 DEF KeepGroup, TraceInv
  <1>12. CASE UNCHANGED vars
    <2>1. UNCHANGED <<pc, call, data, n, i, plain>>
      BY <1>12 DEF vars
    <2>2. CASE Hashing
      BY <1>3, <2>1, <2>2 DEF TraceInv
    <2>3. CASE ~Hashing
      BY <2>1, <2>3 DEF TraceInv, Hashing
    <2> QED
      BY <2>2, <2>3
  <1>13. /\ ~CustomWord /\ ~CustomRound /\ ~CustomReturn /\ ~Found /\ ~NotFound
         /\ ~Return /\ \A c \in Calls : ~Call(c)
    BY DEF CustomWord, CustomRound, CustomReturn, Found, NotFound, Return, Call, Hashing
  <1> QED
    BY <1>4, <1>6, <1>7, <1>8, <1>9, <1>10, <1>11, <1>12, <1>13 DEF Next

\* The end of a group.
LEMMA StoreStep ==
    ASSUME CallInv, HashInv, TraceInv, StoredInv, Store
    PROVE  StoredInv'
  <1>1. /\ Hashing /\ i = 64 /\ call' = call /\ data' = data
        /\ pc' = IF IsSearch(call) THEN "compare" ELSE "done"
        /\ hash' = [j \in Lanes |-> Written(reg[CHOOSE l \in Lanes : LowOf(l) = j])]
    BY DEF Store
  <1>2. Shape(V) /\ CountsRight /\ PlainRight
    BY <1>1, CallShape DEF Hashing, HashInv
  <1>3. n = 64
    BY <1>1, <1>2 DEF CountsRight
  <1>4. ASSUME NEW j \in Lanes
        PROVE  \E s \in [1 .. 8 -> Words] : IsHashOf(data[j], s) /\ hash'[j] = Written(s)
    <2> DEFINE l == CHOOSE q \in Lanes : LowOf(q) = j
    <2>1. l \in Lanes /\ LowOf(l) = j
      <3>1. \E q \in Lanes : LowOf(q) = j
        BY <1>2, LaneOrder
      <3> QED
        BY <3>1
    <2>2. hash'[j] = Written(reg[l])
      BY <1>1
    <2> HIDE DEF l
    <2>3. reg[l] = plain[j].s
      BY <1>1, <1>2, <2>1, LaneFacts
    <2>4. Traced(data[j], plain[j], 64, 64)
      BY <1>1, <1>3 DEF TraceInv
    <2>5. plain[j].s \in [1 .. 8 -> Words]
      BY <1>2 DEF PlainRight, PlainType
    <2>6. IsHashOf(data[j], plain[j].s)
      BY <2>4 DEF IsHashOf
    <2> QED
      BY <2>2, <2>3, <2>5, <2>6
  <1>5. DOMAIN hash' = Lanes
    BY <1>1
  <1>6. \A s : Written(s)' = Written(s)
    BY <1>1 DEF Written
  <1>7. ~IsSearch(call) => \A j \in Lanes : data[j] \in InputSet
    BY <1>1 DEF StoredInv, Hashing
  <1>8. pc' = "compare" => IsSearch(call)
    BY <1>1
  <1> QED
    BY <1>1, <1>4, <1>5, <1>6, <1>7, <1>8, SameCall DEF StoredInv

\* A search that goes on to the next group serves a search still.
LEMMA OnlySearches ==
    ASSUME CallInv, StoredInv, DropGroup \/ NotFound
    PROVE  IsSearch(call) /\ call' = call
  <1>1. CASE DropGroup
    <2>1. call.fn \in Searches /\ call' = call /\ Hashing
      BY <1>1 DEF DropGroup, TestDue, HasEarlyTest, EarlyTest, Searches
    <2>2. call \in Calls
      BY <2>1 DEF CallInv, Hashing
    <2> QED
      BY <2>1, <2>2, CallAssumption
  <1>2. CASE NotFound
    BY <1>2 DEF NotFound, StoredInv
  <1> QED
    BY <1>1, <1>2

LEMMA StoredSteps ==
    ASSUME CallInv, HashInv, TraceInv, StoredInv, [Next]_vars
    PROVE  StoredInv'
  <1>1. CASE CustomWord \/ CustomRound \/ CustomReturn \/ Return
    BY <1>1 DEF CustomWord, CustomRound, CustomReturn, Return, Clear, StoredInv
  <1>2. ASSUME NEW c \in Calls, Call(c)
        PROVE  StoredInv'
    <2>1. pc' \in {"load", "done"} /\ call' = c /\ (~IsSearch(c) => data' = c.data)
      BY <1>2 DEF Call
    <2>4. pc' = "done" => IsSearch(c)
      <3>1. pc' = "done" => c.fn = "reverse_sha256"
        BY <1>2 DEF Call, EmptyRange
      <3> QED
        BY <3>1, CallAssumption DEF Searches
    <2>2. Lanes' = 1 .. Versions[c.fn].lanes
      BY <2>1 DEF Lanes, V
    <2>3. ASSUME ~IsSearch(c)
          PROVE  \A j \in Lanes' : data'[j] \in InputSet
      <3>1. c.data \in [1 .. Versions[c.fn].lanes -> InputSet]
        BY <2>3, CallAssumption DEF InputSet
      <3> QED
        BY <2>1, <2>2, <2>3, <3>1
    <2> QED
      BY <2>1, <2>3, <2>4 DEF StoredInv, InputSet
  <1>3. CASE Load \/ MakeWord \/ Round \/ FusedRound \/ FirstRounds \/ FoldedRound
             \/ KeepGroup
    <2>1. /\ call' = call /\ data' = data
          /\ pc \in {"load", "rounds", "rest"} /\ pc' \in {"rounds", "rest"}
      BY <1>3 DEF Load, MakeWord, Round, FusedRound, FirstRounds, FoldedRound, KeepGroup,
                  Hashing
    <2> QED
      BY <2>1, SameCall DEF StoredInv
  <1>4. CASE Store
    BY <1>4, StoreStep
  <1>5. CASE DropGroup \/ NotFound
    <2>1. IsSearch(call) /\ call' = call
      BY <1>5, OnlySearches
    <2>2. pc' \in {"load", "done"}
      BY <1>5 DEF DropGroup, NotFound, NextGroup
    <2> QED
      BY <2>1, <2>2 DEF StoredInv
  <1>6. CASE Found
    <2>1. pc = "compare" /\ pc' = "done" /\ call' = call
      BY <1>6 DEF Found
    <2> QED
      BY <2>1 DEF StoredInv
  <1>7. CASE UNCHANGED vars
    <2>1. UNCHANGED <<pc, call, data, hash>>
      BY <1>7 DEF vars
    <2>2. \A s : Written(s)' = Written(s)
      BY <2>1 DEF Written
    <2> QED
      BY <2>1, <2>2, SameCall DEF StoredInv
  <1> QED
    BY <1>1, <1>2, <1>3, <1>4, <1>5, <1>6, <1>7 DEF Next

LEMMA CustomSteps ==
    ASSUME CustomInv, RawInv, [Next]_vars
    PROVE  CustomInv' /\ RawInv'
  <1>1. CASE pc = "custom"
    <2>1. CASE CustomWord
      BY <2>1, CustomWordStep DEF CustomWord, RawInv
    <2>2. CASE CustomRound
      BY <2>2, CustomRoundStep DEF CustomRound, RawInv
    <2>3. CASE CustomReturn
      BY <2>3, CustomReturnStep DEF CustomReturn, Clear, CustomInv
    <2>4. CASE UNCHANGED vars
      BY <2>4 DEF vars, CustomInv, RawInv
    <2>5. /\ ~Load /\ ~MakeWord /\ ~Round /\ ~FusedRound /\ ~FirstRounds /\ ~FoldedRound
          /\ ~Store /\ ~KeepGroup /\ ~DropGroup /\ ~Found /\ ~NotFound /\ ~Return
          /\ \A c \in Calls : ~Call(c)
      BY <1>1 DEF Load, MakeWord, Round, FusedRound, FirstRounds, FoldedRound, Store,
                  KeepGroup, DropGroup, Found, NotFound, Return, Call, Hashing
    <2> QED
      BY <2>1, <2>2, <2>3, <2>4, <2>5 DEF Next
  <1>2. CASE pc # "custom"
    <2>1. raw' = raw /\ pc' # "custom"
      <3>1. CASE Load \/ MakeWord \/ Round \/ FusedRound \/ FirstRounds \/ FoldedRound
        BY <1>2, <3>1 DEF Load, MakeWord, Round, FusedRound, FirstRounds, FoldedRound
      <3>2. CASE Store \/ KeepGroup \/ DropGroup \/ Found \/ NotFound \/ Return
        BY <3>2 DEF Store, KeepGroup, DropGroup, Found, NotFound, Return, Clear, NextGroup
      <3>3. ASSUME NEW c \in Calls, Call(c)
            PROVE  raw' = raw /\ pc' # "custom"
        BY <3>3 DEF Call
      <3>4. CASE UNCHANGED vars
        BY <1>2, <3>4 DEF vars
      <3>5. ~CustomWord /\ ~CustomRound /\ ~CustomReturn
        BY <1>2 DEF CustomWord, CustomRound, CustomReturn
      <3> QED
        BY <3>1, <3>2, <3>3, <3>4, <3>5 DEF Next
    <2> QED
      BY <1>2, <2>1 DEF CustomInv, RawInv
  <1> QED
    BY <1>1, <1>2

LEMMA TraceKept ==
    ASSUME CallInv, HashInv, TraceInv, [Next]_vars
    PROVE  TraceInv'
  <1>1. CASE pc = "load" \/ Hashing
    BY <1>1, TraceSteps
  <1>2. CASE pc # "load" /\ ~Hashing
    BY <1>2, OtherStep DEF TraceInv
  <1> QED
    BY <1>1, <1>2

LEMMA StoredInvariant ==
    Spec /\ []UpperWordsAgree => [](CallInv /\ RawInv /\ StoredInv)
  <1>1. Init => CustomInv /\ RawInv /\ TraceInv /\ StoredInv
    BY CustomStart
  <1>2. CustomInv /\ RawInv /\ [Next]_vars => CustomInv' /\ RawInv'
    BY CustomSteps
  <1>3. CallInv /\ HashInv /\ StoredInv /\ TraceInv /\ [Next]_vars => StoredInv'
    BY StoredSteps
  <1>4. CallInv /\ HashInv /\ TraceInv /\ [Next]_vars => TraceInv'
    BY TraceKept
  <1> QED
    BY <1>1, <1>2, <1>3, <1>4, Invariant, PTL DEF Spec

\* sha256_normalize undoes what sha256x4_asm does to the working variables.
LEMMA NormalizeWritten ==
    ASSUME NEW s \in [1 .. 8 -> Words]
    PROVE  sha256_normalize([v \in 1 .. 8 |-> Bswap(Add(s[v], H[v]))]) = s
  <1> DEFINE h == [v \in 1 .. 8 |-> Bswap(Add(s[v], H[v]))]
  <1>1. ASSUME NEW v \in 1 .. 8
        PROVE  Sub(Bswap(h[v]), H[v]) = s[v]
    <2>1. s[v] \in Words /\ H[v] \in Words
      BY TableTypes
    <2>2. Add(s[v], H[v]) \in Words
      BY <2>1, AddType
    <2>3. Bswap(h[v]) = Add(s[v], H[v])
      BY <2>2, BswapType
    <2> HIDE DEF h
    <2>4. Sub(Add(s[v], H[v]), H[v]) = s[v]
      BY <2>1, SubInverse
    <2> QED
      BY <2>3, <2>4
  <1>2. sha256_normalize(h) = [v \in 1 .. 8 |-> Sub(Bswap(h[v]), H[v])]
    BY DEF sha256_normalize
  <1> HIDE DEF h
  <1>3. sha256_normalize(h) = s
    BY <1>1, <1>2
  <1> QED
    BY <1>3 DEF h

\* Every hash function writes the hash of input j at place j, and what
\* sha256x4_asm writes is the digest of which protocol.c makes the same hash.
THEOREM SameHashes == Spec /\ []UpperWordsAgree => []HashInPlace
  <1>1. CallInv /\ RawInv /\ StoredInv => HashInPlace
    <2> SUFFICES ASSUME CallInv, RawInv, StoredInv, pc = "done", ~IsSearch(call),
                        NEW j \in DOMAIN hash
                 PROVE  raw[data[j]] = IF call.fn = "sha256x4_asm"
                                       THEN sha256_normalize(hash[j]) ELSE hash[j]
      BY DEF HashInPlace
    <2>1. j \in Lanes
      BY DEF StoredInv
    <2>2. PICK s \in [1 .. 8 -> Words] : IsHashOf(data[j], s) /\ hash[j] = Written(s)
      BY <2>1 DEF StoredInv
    <2>3. data[j] \in InputSet
      BY <2>1 DEF StoredInv
    <2>4. IsHashOf(data[j], raw[data[j]])
      BY <2>3 DEF RawInv
    <2>5. raw[data[j]] = s
      BY <2>2, <2>4, OneHash
    <2>6. CASE call.fn = "sha256x4_asm"
      <3>1. hash[j] = [v \in 1 .. 8 |-> Bswap(Add(s[v], H[v]))]
        BY <2>2, <2>6 DEF Written
      <3> QED
        BY <2>5, <2>6, <3>1, NormalizeWritten
    <2>7. CASE call.fn # "sha256x4_asm"
      BY <2>2, <2>5, <2>7 DEF Written
    <2> QED
      BY <2>6, <2>7
  <1> QED
    BY <1>1, StoredInvariant, PTL

----------------------------------------------------------------------------
(* Candidates in order. *)

LEMMA LeqTransitive ==
    ASSUME NEW x \in Candidates, NEW y \in Candidates, NEW z \in Candidates,
           Leq(x, y), Leq(y, z)
    PROVE  Leq(x, z)
  <1>1. x \in SUBSET Nat /\ y \in SUBSET Nat /\ z \in SUBSET Nat
    BY DEF Candidates
  <1>2. CASE x = y \/ y = z
    BY <1>2
  <1>3. CASE x # y /\ y # z
    <2>1. PICK b \in y \ x : \A m \in x \ y : m < b
      BY <1>3 DEF Leq
    <2>2. PICK c \in z \ y : \A m \in y \ z : m < c
      BY <1>3 DEF Leq
    <2>3. b \in Nat /\ c \in Nat /\ b # c
      BY <1>1, <2>1, <2>2
    <2>4. ASSUME b < c
          PROVE  c \in z \ x /\ \A m \in x \ z : m < c
      <3>1. ~(c < b)
        BY <2>3, <2>4
      <3>2. c \notin x
        BY <2>1, <2>2, <3>1
      <3>3. ASSUME NEW m \in x \ z
            PROVE  m < c
        <4>1. m \in Nat
          BY <1>1
        <4>2. CASE m \in y
          BY <2>2, <4>2
        <4>3. CASE m \notin y
          <5>1. m < b
            BY <2>1, <4>3
          <5> QED
            BY <2>3, <2>4, <4>1, <5>1
        <4> QED
          BY <4>2, <4>3
      <3> QED
        BY <2>2, <3>2, <3>3
    <2>5. ASSUME c < b
          PROVE  b \in z \ x /\ \A m \in x \ z : m < b
      <3>1. ~(b < c)
        BY <2>3, <2>5
      <3>2. b \in z
        BY <2>1, <2>2, <3>1
      <3>3. ASSUME NEW m \in x \ z
            PROVE  m < b
        <4>1. m \in Nat
          BY <1>1
        <4>2. CASE m \in y
          <5>1. m < c
            BY <2>2, <4>2
          <5> QED
            BY <2>3, <2>5, <4>1, <5>1
        <4>3. CASE m \notin y
          BY <2>1, <4>3
        <4> QED
          BY <4>2, <4>3
      <3> QED
        BY <2>1, <3>2, <3>3
    <2>6. b < c \/ c < b
      BY <2>3
    <2> QED
      BY <2>4, <2>5, <2>6 DEF Leq
  <1> QED
    BY <1>2, <1>3

\* Only zero is not above zero.
LEMMA LeqZero ==
    ASSUME NEW x, Leq(x, {})
    PROVE  x = {}
BY DEF Leq

\* The sum with one: the ones at the low end give way to the next bit.
LEMMA Successor ==
    ASSUME NEW x \in Candidates, NEW k \in 0 .. 63, k \notin x, \A m \in 0 .. k - 1 : m \in x
    PROVE  AddN(64, x, {0}) = (x \ (0 .. k - 1)) \cup {k}
  <1> DEFINE c == 1 .. k
             one == {0}
  <1>1. x \in Wide(64) /\ one \in Wide(64) /\ 64 \in Nat \ {0} /\ c \subseteq 1 .. 64 - 1
    BY DEF Wide, Candidates
  <1>2. ASSUME NEW q \in 1 .. 64 - 1
        PROVE  q \in c <=> \/ q - 1 \in x /\ q - 1 \in one
                           \/ q - 1 \in c /\ (q - 1 \in x \/ q - 1 \in one)
    <2>1. CASE q = 1
      <3>1. 0 \in x <=> k # 0
        OBVIOUS
      <3> QED
        BY <2>1, <3>1
    <2>2. CASE q # 1 /\ q <= k
      <3>1. q - 1 \in 0 .. k - 1 /\ q - 1 \in 1 .. k
        BY <2>2
      <3> QED
        BY <2>2, <3>1
    <2>3. CASE q # 1 /\ q = k + 1
      <3>1. q - 1 = k /\ q - 1 # 0
        BY <2>3
      <3> QED
        BY <2>3, <3>1
    <2>4. CASE q # 1 /\ q > k + 1
      <3>1. ~(q \in 1 .. k) /\ ~(q - 1 \in 1 .. k) /\ q - 1 # 0
        BY <2>4
      <3> QED
        BY <3>1
    <2> QED
      BY <2>1, <2>2, <2>3, <2>4
  <1> HIDE DEF c, one
  <1>3. Ripples(64, x, one, c)
    BY <1>1, <1>2 DEF Ripples
  <1>4. AddN(64, x, one) = Xor(Xor(x, one), c)
    BY <1>1, <1>3, SumFrom
  <1>5. ASSUME NEW b
        PROVE  b \in Xor(Xor(x, {0}), 1 .. k) <=> b \in (x \ (0 .. k - 1)) \cup {k}
    <2>1. b \in 1 .. k <=> (b = k /\ k # 0) \/ (b \in 0 .. k - 1 /\ b # 0)
      OBVIOUS
    <2>2. b \in 0 .. k - 1 => b \in x
      OBVIOUS
    <2>3. 0 \in 0 .. k - 1 <=> k # 0
      OBVIOUS
    <2>4. k \notin 0 .. k - 1
      OBVIOUS
    <2> QED
      BY <2>1, <2>2, <2>3, <2>4 DEF Xor
  <1> QED
    BY <1>4, <1>5 DEF c, one

\* It is the next one: nothing is between.
LEMMA NextInOrder ==
    ASSUME NEW x \in Candidates, x # 0 .. 63
    PROVE  /\ Leq(x, AddN(64, x, {0}))
           /\ \A d \in Candidates : Leq(x, d) /\ d # x => Leq(AddN(64, x, {0}), d)
  <1> DEFINE gaps == (0 .. 63) \ x
  <1>1. gaps \in SUBSET Nat /\ gaps # {}
    <2>1. x \subseteq 0 .. 63 /\ \E m \in 0 .. 63 : m \notin x
      BY DEF Candidates
    <2> QED
      BY <2>1
  <1>2. PICK k \in gaps : \A m \in gaps : k <= m
    BY <1>1, Smallest
  <1>3. k \in 0 .. 63 /\ k \notin x
    BY <1>2
  <1>4. \A m \in 0 .. k - 1 : m \in x
    <2> TAKE m \in 0 .. k - 1
    <2>1. m \in 0 .. 63 /\ ~(k <= m)
      BY <1>3
    <2> QED
      BY <1>2, <2>1
  <1> HIDE DEF gaps
  <1> DEFINE y == (x \ (0 .. k - 1)) \cup {k}
  <1>5. AddN(64, x, {0}) = y
    BY <1>3, <1>4, Successor
  <1>6. Leq(x, y)
    <2>1. k \in y \ x
      BY <1>3
    <2>2. \A m \in x \ y : m < k
      BY <1>3
    <2> QED
      BY <2>1, <2>2 DEF Leq
  <1>7. ASSUME NEW d \in Candidates, Leq(x, d), d # x
        PROVE  Leq(y, d)
    <2>1. PICK b \in d \ x : \A m \in x \ d : m < b
      BY <1>7 DEF Leq
    <2>2. b \in 0 .. 63 /\ x \subseteq 0 .. 63
      BY DEF Candidates
    <2>3. ~(b < k)
      BY <1>3, <1>4, <2>1, <2>2
    <2>4. CASE b = k
      <3>1. y \subseteq d
        <4> SUFFICES ASSUME NEW m \in y, m \notin d
                     PROVE  FALSE
          OBVIOUS
        <4>1. m # k /\ m \in x /\ m \notin 0 .. k - 1
          BY <2>1, <2>4
        <4>2. m < k /\ m \in Nat
          BY <2>1, <2>2, <2>4, <4>1
        <4> QED
          BY <1>3, <4>1, <4>2
      <3> HIDE DEF y
      <3>2. CASE y = d
        BY <3>2 DEF Leq
      <3>3. CASE y # d
        <4>1. PICK e : e \in d \ y
          BY <3>1, <3>3
        <4>2. y \ d = {}
          BY <3>1
        <4> QED
          BY <4>1, <4>2 DEF Leq
      <3> QED
        BY <3>2, <3>3
    <2>5. CASE b > k
      <3>1. b \in d \ y
        BY <1>3, <2>1, <2>2, <2>5
      <3>2. \A m \in y \ d : m < b
        BY <1>3, <2>1, <2>5
      <3> HIDE DEF y
      <3> QED
        BY <3>1, <3>2 DEF Leq
    <2> QED
      BY <1>3, <2>2, <2>3, <2>4, <2>5
  <1> QED
    BY <1>5, <1>6, <1>7

LEMMA Numerals ==
    /\ Numeral(0) = {} /\ Numeral(1) = {0} /\ Numeral(2) = {1} /\ Numeral(3) = {0, 1}
    /\ Numeral(4) = {2} /\ Numeral(5) = {0, 2} /\ Numeral(6) = {1, 2}
    /\ Numeral(7) = {0, 1, 2} /\ Numeral(8) = {3}
  <1> DEFINE Bit(m, b) == ((m \div <<1, 2, 4, 8>>[b + 1]) % 2) = 1
  <1>1. \A m : Numeral(m) = {b \in 0 .. 3 : Bit(m, b)}
    BY DEF Numeral
  <1>2. \A m \in Nat : /\ Bit(m, 0) <=> m % 2 = 1
                       /\ Bit(m, 1) <=> (m \div 2) % 2 = 1
                       /\ Bit(m, 2) <=> (m \div 4) % 2 = 1
                       /\ Bit(m, 3) <=> (m \div 8) % 2 = 1
    OBVIOUS
  <1> HIDE DEF Bit
  <1>3. \A m \in Nat : \A b : b \in Numeral(m) <=>
           \/ b = 0 /\ m % 2 = 1
           \/ b = 1 /\ (m \div 2) % 2 = 1
           \/ b = 2 /\ (m \div 4) % 2 = 1
           \/ b = 3 /\ (m \div 8) % 2 = 1
    BY <1>1, <1>2
  <1>4. Numeral(0) = {} /\ Numeral(1) = {0} /\ Numeral(2) = {1} /\ Numeral(3) = {0, 1}
    BY <1>3
  <1>5. Numeral(4) = {2} /\ Numeral(5) = {0, 2} /\ Numeral(6) = {1, 2}
    BY <1>3
  <1>6. Numeral(7) = {0, 1, 2} /\ Numeral(8) = {3}
    BY <1>3
  <1> QED
    BY <1>4, <1>5, <1>6

LEMMA NumeralType ==
    ASSUME NEW m
    PROVE  Numeral(m) \in Wide(64)
BY DEF Numeral, Wide

LEMMA NumeralStep ==
    ASSUME NEW m \in 0 .. 7
    PROVE  AddN(64, Numeral(m), {0}) = Numeral(m + 1)
  <1>1. Numeral(m) \in Candidates
    BY NumeralType DEF Wide, Candidates
  <1>2. CASE m \in {0, 2, 4, 6}
    <2>1. 0 \notin Numeral(m) /\ Numeral(m + 1) = Numeral(m) \cup {0}
      BY <1>2, Numerals
    <2>2. AddN(64, Numeral(m), {0}) = (Numeral(m) \ (0 .. 0 - 1)) \cup {0}
      BY <1>1, <2>1, Successor
    <2> QED
      BY <2>1, <2>2
  <1>3. CASE m \in {1, 5}
    <2>1. 0 \in Numeral(m) /\ 1 \notin Numeral(m)
          /\ Numeral(m + 1) = (Numeral(m) \ {0}) \cup {1}
      BY <1>3, Numerals
    <2>2. AddN(64, Numeral(m), {0}) = (Numeral(m) \ (0 .. 1 - 1)) \cup {1}
      BY <1>1, <2>1, Successor
    <2> QED
      BY <2>1, <2>2
  <1>4. CASE m = 3
    <2>1. AddN(64, Numeral(3), {0}) = (Numeral(3) \ (0 .. 2 - 1)) \cup {2}
      BY <1>1, <1>4, Numerals, Successor
    <2> QED
      BY <1>4, <2>1, Numerals
  <1>5. CASE m = 7
    <2>1. AddN(64, Numeral(7), {0}) = (Numeral(7) \ (0 .. 3 - 1)) \cup {3}
      BY <1>1, <1>5, Numerals, Successor
    <2> QED
      BY <1>5, <2>1, Numerals
  <1> QED
    BY <1>2, <1>3, <1>4, <1>5

LEMMA PlusFacts ==
    ASSUME NEW x \in Candidates
    PROVE  /\ Plus(x, 0) = x
           /\ \A m \in 0 .. 7 : Plus(x, m + 1) = AddN(64, Plus(x, m), {0})
           /\ \A m, q : Plus(Plus(x, m), q) = Plus(Plus(x, q), m)
  <1>1. x \in Wide(64) /\ 64 \in Nat \ {0} /\ {0} \in Wide(64)
    BY DEF Candidates, Wide
  <1>2. Plus(x, 0) = x
    BY <1>1, SumZero, Numerals DEF Plus
  <1>3. ASSUME NEW m \in 0 .. 7
        PROVE  Plus(x, m + 1) = AddN(64, Plus(x, m), {0})
    <2>1. AddN(64, AddN(64, x, Numeral(m)), {0}) = AddN(64, x, AddN(64, Numeral(m), {0}))
      BY <1>1, NumeralType, SumAssoc
    <2> QED
      BY <2>1, NumeralStep DEF Plus
  <1>4. ASSUME NEW m, NEW q
        PROVE  Plus(Plus(x, m), q) = Plus(Plus(x, q), m)
    <2>1. AddN(64, AddN(64, x, Numeral(m)), Numeral(q))
          = AddN(64, AddN(64, x, Numeral(q)), Numeral(m))
      BY <1>1, NumeralType, SumSwap
    <2> QED
      BY <2>1 DEF Plus
  <1> QED
    BY <1>2, <1>3, <1>4

----------------------------------------------------------------------------
(* Rounds taken back. *)

\* All the words and variables on the way to a hash are words.
LEMMA TraceTyped ==
    ASSUME NEW d \in Candidates, NEW q, Traced(d, q, 64, 64), NEW T, T[0] = H,
           \A k \in 0 .. 63 : T[k + 1] = Compress(T[k], Add(K(k), q.w[k]))
    PROVE  \A k \in 0 .. 64 : /\ T[k] \in [1 .. 8 -> Words]
                              /\ k < 64 => q.w[k] \in Words
  <1>1. \A j \in 0 .. 63 : q.w[j] \in Words
    <2> DEFINE odd == {j \in 0 .. 63 : q.w[j] \notin Words}
    <2> SUFFICES ASSUME odd # {}
                 PROVE  FALSE
      OBVIOUS
    <2>1. odd \in SUBSET Nat
      OBVIOUS
    <2> HIDE DEF odd
    <2>2. PICK j \in odd : \A k \in odd : j <= k
      BY <2>1, Smallest
    <2>3. j \in 0 .. 63 /\ q.w[j] \notin Words
      BY <2>2 DEF odd
    <2>4. ASSUME NEW k \in 0 .. 63, k < j
          PROVE  q.w[k] \in Words
      <3>1. ~(j <= k)
        BY <2>3, <2>4
      <3> QED
        BY <2>2, <3>1 DEF odd
    <2>5. CASE j \in 0 .. 15
      <3>1. q.w[j] = Block(Low(d), High(d))[j]
        BY <2>5 DEF Traced
      <3>2. Low(d) \in Words /\ High(d) \in Words
        BY HalfTypes DEF Candidates
      <3>3. Block(Low(d), High(d)) \in [0 .. 16 - 1 -> Words]
        BY <3>2, BlockRight DEF ScheduleTo
      <3>4. j \in 0 .. 16 - 1
        BY <2>5
      <3> QED
        BY <2>3, <3>1, <3>3, <3>4
    <2>6. CASE j \in 16 .. 63
      <3>1. q.w[j] = Extended(q.w, j)
        BY <2>6 DEF Traced
      <3>2. /\ j - 2 \in 0 .. 63 /\ j - 7 \in 0 .. 63
            /\ j - 15 \in 0 .. 63 /\ j - 16 \in 0 .. 63
            /\ j - 2 < j /\ j - 7 < j /\ j - 15 < j /\ j - 16 < j
        BY <2>6
      <3>3. /\ q.w[j - 2] \in Words /\ q.w[j - 7] \in Words
            /\ q.w[j - 15] \in Words /\ q.w[j - 16] \in Words
        BY <2>4, <3>2
      <3>4. s1(q.w[j - 2]) \in Words /\ s0(q.w[j - 15]) \in Words
        BY <3>3, SigmaTypes
      <3>5. /\ Add(s1(q.w[j - 2]), q.w[j - 7]) \in Words
            /\ Add(s0(q.w[j - 15]), q.w[j - 16]) \in Words
        BY <3>3, <3>4, AddType
      <3>6. Extended(q.w, j) \in Words
        BY <3>5, AddType DEF Extended
      <3> QED
        BY <2>3, <3>1, <3>6
    <2> QED
      BY <2>3, <2>5, <2>6
  <1> DEFINE typed == {k \in 0 .. 64 : T[k] \in [1 .. 8 -> Words]}
  <1>2. 0 \in typed
    BY TableTypes
  <1>3. ASSUME NEW k \in 1 .. 64, k - 1 \in typed
        PROVE  k \in typed
    <2>1. k - 1 \in 0 .. 63 /\ T[k - 1] \in [1 .. 8 -> Words] /\ k - 1 + 1 = k
      BY <1>3
    <2>2. Add(K(k - 1), q.w[k - 1]) \in Words
      BY <1>1, <2>1, TableTypes, AddType
    <2>3. Compress(T[k - 1], Add(K(k - 1), q.w[k - 1])) \in [1 .. 8 -> Words]
      BY <2>1, <2>2, CompressType
    <2>4. T[k - 1 + 1] = Compress(T[k - 1], Add(K(k - 1), q.w[k - 1]))
      BY <2>1
    <2> QED
      BY <2>1, <2>3, <2>4
  <1>4. \A k \in 0 .. 64 : k \in typed
    <2>1. 64 \in Nat
      OBVIOUS
    <2> HIDE DEF typed
    <2> QED
      BY <1>2, <1>3, <2>1, Counting
  <1>5. ASSUME NEW k \in 0 .. 64
        PROVE  T[k] \in [1 .. 8 -> Words]
    BY <1>4
  <1>6. ASSUME NEW k \in 0 .. 64, k < 64
        PROVE  q.w[k] \in Words
    <2>1. k \in 0 .. 63
      BY <1>6
    <2> QED
      BY <1>1, <2>1
  <1> HIDE DEF typed
  <1> QED
    BY <1>5, <1>6

\* What Back finds is d before the round; the other variables have moved on.
LEMMA BackRight ==
    ASSUME NEW s \in [1 .. 8 -> Words], NEW kw \in Words, NEW u, u = Compress(s, kw)
    PROVE  /\ u[2] = s[1] /\ u[3] = s[2] /\ u[4] = s[3]
           /\ u[6] = s[5] /\ u[7] = s[6] /\ u[8] = s[7]
           /\ Back(u[5], u[1], u[2], u[3], u[4]) = s[4]
  <1> DEFINE x == Temp1(s, kw)
             y == Temp2(s)
  <1>1. u = <<Add(x, y), s[1], s[2], s[3], Add(s[4], x), s[5], s[6], s[7]>>
    BY DEF Compress
  <1>2. x \in Words /\ y \in Words /\ s[4] \in Words
    BY CompressType
  <1>3. y = Add(S0(s[1]), maj(s[1], s[2], s[3]))
    BY DEF Temp2
  <1> HIDE DEF x, y
  <1>4. /\ u[1] = Add(x, y) /\ u[5] = Add(s[4], x)
        /\ u[2] = s[1] /\ u[3] = s[2] /\ u[4] = s[3]
        /\ u[6] = s[5] /\ u[7] = s[6] /\ u[8] = s[7]
    BY <1>1
  <1>5. Sub(Add(x, y), y) = x /\ Sub(Add(s[4], x), x) = s[4]
    BY <1>2, SubInverse
  <1>6. Back(u[5], u[1], u[2], u[3], u[4]) = Sub(u[5], Sub(u[1], y))
    BY <1>3, <1>4 DEF Back
  <1> QED
    BY <1>4, <1>5, <1>6

\* e after round 60 is h in the end, and a after round 56 is what Predicted
\* computes from the end.
LEMMA LastRounds ==
    ASSUME NEW T, NEW p,
           \A k \in 57 .. 63 : T[k] \in [1 .. 8 -> Words] /\ p[k] \in Words,
           \A k \in 57 .. 63 : T[k + 1] = Compress(T[k], p[k])
    PROVE  T[61][5] = T[64][8] /\ T[57][1] = Predicted(T[64])
  <1>1. ASSUME NEW k \in 57 .. 63
        PROVE  /\ T[k + 1][2] = T[k][1] /\ T[k + 1][3] = T[k][2] /\ T[k + 1][4] = T[k][3]
               /\ T[k + 1][6] = T[k][5] /\ T[k + 1][7] = T[k][6] /\ T[k + 1][8] = T[k][7]
               /\ Back(T[k + 1][5], T[k + 1][1], T[k + 1][2], T[k + 1][3], T[k + 1][4])
                  = T[k][4]
    <2> DEFINE s == T[k]
               x == p[k]
               u == T[k + 1]
    <2>1. s \in [1 .. 8 -> Words] /\ x \in Words /\ u = Compress(s, x)
      OBVIOUS
    <2> HIDE DEF s, x, u
    <2>2. /\ u[2] = s[1] /\ u[3] = s[2] /\ u[4] = s[3]
          /\ u[6] = s[5] /\ u[7] = s[6] /\ u[8] = s[7]
          /\ Back(u[5], u[1], u[2], u[3], u[4]) = s[4]
      BY <2>1, BackRight, ZenonT(60)
    <2> QED
      BY <2>2 DEF s, u
  <1>2. /\ 57 \in 57 .. 63 /\ 58 \in 57 .. 63 /\ 59 \in 57 .. 63 /\ 60 \in 57 .. 63
        /\ 61 \in 57 .. 63 /\ 62 \in 57 .. 63 /\ 63 \in 57 .. 63
        /\ 57 + 1 = 58 /\ 58 + 1 = 59 /\ 59 + 1 = 60 /\ 60 + 1 = 61
        /\ 61 + 1 = 62 /\ 62 + 1 = 63 /\ 63 + 1 = 64
    OBVIOUS
  <1>3. /\ T[64][2] = T[63][1] /\ T[64][3] = T[63][2] /\ T[64][4] = T[63][3]
        /\ T[64][6] = T[63][5] /\ T[64][7] = T[63][6] /\ T[64][8] = T[63][7]
        /\ Back(T[64][5], T[64][1], T[64][2], T[64][3], T[64][4]) = T[63][4]
    BY <1>1, <1>2
  <1>4. /\ T[63][2] = T[62][1] /\ T[63][3] = T[62][2] /\ T[63][4] = T[62][3]
        /\ T[63][6] = T[62][5] /\ T[63][7] = T[62][6]
        /\ Back(T[63][5], T[63][1], T[63][2], T[63][3], T[63][4]) = T[62][4]
    BY <1>1, <1>2
  <1>5. /\ T[62][2] = T[61][1] /\ T[62][3] = T[61][2] /\ T[62][4] = T[61][3]
        /\ T[62][6] = T[61][5]
        /\ Back(T[62][5], T[62][1], T[62][2], T[62][3], T[62][4]) = T[61][4]
    BY <1>1, <1>2
  <1>6. Back(T[61][5], T[61][1], T[61][2], T[61][3], T[61][4]) = T[60][4]
    BY <1>1, <1>2
  <1>7. T[60][4] = T[59][3] /\ T[59][3] = T[58][2] /\ T[58][2] = T[57][1]
    BY <1>1, <1>2
  <1> DEFINE u == T[64]
             d63 == Back(u[5], u[1], u[2], u[3], u[4])
             d62 == Back(u[6], u[2], u[3], u[4], d63)
             d61 == Back(u[7], u[3], u[4], d63, d62)
  <1>8. Predicted(T[64]) = Back(u[8], u[4], d63, d62, d61)
    BY DEF Predicted
  <1>9. d63 = T[63][4]
    BY <1>3
  <1>10. d62 = T[62][4]
    BY <1>3, <1>4, <1>9
  <1>11. d61 = T[61][4]
    BY <1>3, <1>4, <1>5, <1>9, <1>10
  <1> HIDE DEF u, d63, d62, d61
  <1>12. Back(u[8], u[4], d63, d62, d61)
         = Back(T[61][5], T[61][1], T[61][2], T[61][3], T[61][4])
    BY <1>3, <1>4, <1>5, <1>9, <1>10, <1>11 DEF u
  <1> QED
    BY <1>3, <1>4, <1>5, <1>6, <1>7, <1>8, <1>12

----------------------------------------------------------------------------
(* The searches. *)

\* A search starts only groups of inputs of the run, so that raw knows the hash
\* of every candidate it tries; and neither zero, which stands for no answer,
\* nor the largest number, after which the count starts over, is one of them.
GroupsKnown ==
    pc = "load" /\ IsSearch(call) =>
       \A j \in Lanes : data[j] \in InputSet /\ data[j] \notin {{}, 0 .. 63}

\* A group is consecutive candidates from the start of the range on, and no
\* input before it has the hash that is looked for.
SearchInv ==
    pc \in {"load", "rounds", "rest", "compare"} /\ IsSearch(call) =>
       /\ \A j \in Lanes : data[j] = Plus(data[1], j - 1)
       /\ Leq(call.start, data[1])
       /\ \A d \in InputSet :
             Leq(call.start, d) /\ raw[d] = Target(call) => Leq(data[1], d)
       /\ pc # "load" =>
             \A j \in Lanes : data[j] \in InputSet /\ data[j] \notin {{}, 0 .. 63}

\* The candidates from x on are in order until the count starts over.
LEMMA PlusAbove ==
    ASSUME NEW x \in Candidates, NEW m \in 0 .. 8,
           \A k \in 0 .. m - 1 : Plus(x, k) # 0 .. 63
    PROVE  Leq(x, Plus(x, m))
  <1> DEFINE above == {k \in 0 .. m : Leq(x, Plus(x, k))}
  <1>1. 0 \in above
    BY PlusFacts DEF Leq
  <1>2. ASSUME NEW k \in 1 .. m, k - 1 \in above
        PROVE  k \in above
    <2>1. k - 1 \in 0 .. 7 /\ k - 1 \in 0 .. m - 1 /\ k - 1 + 1 = k /\ k \in 0 .. m
      OBVIOUS
    <2>2. Plus(x, k - 1) # 0 .. 63 /\ Leq(x, Plus(x, k - 1))
      BY <1>2, <2>1
    <2>3. Plus(x, k - 1) \in Candidates /\ Plus(x, k) \in Candidates
      BY PlusType
    <2>4. Plus(x, k) = AddN(64, Plus(x, k - 1), {0})
      <3>1. Plus(x, k - 1 + 1) = AddN(64, Plus(x, k - 1), {0})
        BY <2>1, PlusFacts
      <3> QED
        BY <2>1, <3>1
    <2>5. Leq(Plus(x, k - 1), Plus(x, k))
      BY <2>2, <2>3, <2>4, NextInOrder
    <2>6. Leq(x, Plus(x, k))
      BY <2>2, <2>3, <2>5, LeqTransitive
    <2> QED
      BY <2>1, <2>6
  <1>3. m \in Nat /\ m \in 0 .. m
    OBVIOUS
  <1>4. m \in above
    <2> HIDE DEF above
    <2>1. \A k \in 0 .. m : k \in above
      BY <1>1, <1>2, <1>3, Counting
    <2> QED
      BY <1>3, <2>1
  <1> QED
    BY <1>4

\* What is at or after x and none of the m candidates from x on is after them.
LEMMA PlusBelow ==
    ASSUME NEW x \in Candidates, NEW m \in 0 .. 8, NEW d \in Candidates, Leq(x, d),
           \A k \in 0 .. m - 1 : Plus(x, k) # 0 .. 63 /\ Plus(x, k) # d
    PROVE  Leq(Plus(x, m), d)
  <1> DEFINE below == {k \in 0 .. m : Leq(Plus(x, k), d)}
  <1>1. 0 \in below
    BY PlusFacts
  <1>2. ASSUME NEW k \in 1 .. m, k - 1 \in below
        PROVE  k \in below
    <2>1. k - 1 \in 0 .. 7 /\ k - 1 \in 0 .. m - 1 /\ k - 1 + 1 = k /\ k \in 0 .. m
      OBVIOUS
    <2>2. Plus(x, k - 1) # 0 .. 63 /\ Plus(x, k - 1) # d /\ Leq(Plus(x, k - 1), d)
      BY <1>2, <2>1
    <2>3. Plus(x, k - 1) \in Candidates
      BY PlusType
    <2>4. Plus(x, k) = AddN(64, Plus(x, k - 1), {0})
      <3>1. Plus(x, k - 1 + 1) = AddN(64, Plus(x, k - 1), {0})
        BY <2>1, PlusFacts
      <3> QED
        BY <2>1, <3>1
    <2>5. Leq(Plus(x, k), d)
      BY <2>2, <2>3, <2>4, NextInOrder
    <2> QED
      BY <2>1, <2>5
  <1>3. m \in Nat /\ m \in 0 .. m
    OBVIOUS
  <1>4. m \in below
    <2> HIDE DEF below
    <2>1. \A k \in 0 .. m : k \in below
      BY <1>1, <1>2, <1>3, Counting
    <2> QED
      BY <1>3, <2>1
  <1> QED
    BY <1>4

\* A candidate of the group whose hash is the target is in a lane that passes
\* the early test.
LEMMA TestPassed ==
    ASSUME CallInv, HashInv, RawInv, TraceInv, Hashing, TestDue,
           NEW j \in Lanes, data[j] \in InputSet, raw[data[j]] = Target(call)
    PROVE  \E l \in Lanes : reg[l][EarlyTest[call.fn].var] = Expected
  <1>1. Shape(V) /\ CountsRight /\ data[j] \in Candidates
    BY CallShape DEF Hashing, HashInv
  <1>2. PICK l \in Lanes : LowOf(l) = j
    BY <1>1, LaneOrder
  <1>3. reg[l] = plain[j].s
    BY <1>1, <1>2, LaneFacts
  <1>4. Traced(data[j], plain[j], n, i) /\ n \in 16 .. 64 /\ i \in 0 .. n
    BY <1>1 DEF TraceInv, CountsRight
  <1>5. pc # "custom"
    BY DEF Hashing
  <1>6. PICK q : Traced(data[j], q, 64, 64) /\ q.s = Target(call)
    BY <1>5 DEF RawInv, IsHashOf
  <1>7. PICK T : Path(T, plain[j].s, i, q)
    BY <1>4, <1>6, OneTrace
  <1> DEFINE p == [k \in 57 .. 63 |-> Add(K(k), q.w[k])]
  <1>8. \A k \in 0 .. 64 : T[k] \in [1 .. 8 -> Words] /\ (k < 64 => q.w[k] \in Words)
    BY <1>1, <1>6, <1>7, TraceTyped DEF Path
  <1>9. \A k \in 57 .. 63 : p[k] = Add(K(k), q.w[k])
    OBVIOUS
  <1> HIDE DEF p
  <1>10. \A k \in 57 .. 63 : T[k] \in [1 .. 8 -> Words] /\ p[k] \in Words
    <2> TAKE k \in 57 .. 63
    <2>1. k \in 0 .. 63 /\ k \in 0 .. 64 /\ k < 64
      OBVIOUS
    <2>2. T[k] \in [1 .. 8 -> Words] /\ q.w[k] \in Words /\ K(k) \in Words
      BY <1>8, <2>1, TableTypes
    <2>3. p[k] \in Words
      BY <1>9, <2>2, AddType
    <2> QED
      BY <2>2, <2>3
  <1>11. \A k \in 57 .. 63 : T[k + 1] = Compress(T[k], p[k])
    <2> TAKE k \in 57 .. 63
    <2>1. k \in 0 .. 63
      OBVIOUS
    <2>2. T[k + 1] = Compress(T[k], Add(K(k), q.w[k]))
      BY <1>7, <2>1 DEF Path
    <2> QED
      BY <1>9, <2>2
  <1>12. T[61][5] = T[64][8] /\ T[57][1] = Predicted(T[64])
    BY <1>10, <1>11, LastRounds
  <1>13. T[64] = Target(call) /\ T[i] = plain[j].s
    BY <1>6, <1>7 DEF Path
  <1>14. /\ i = EarlyTest[call.fn].at
         /\ call.fn \in DOMAIN EarlyTest
    BY DEF TestDue, HasEarlyTest
  <1>15. \/ i = 57 /\ EarlyTest[call.fn].var = 1
         \/ i = 61 /\ EarlyTest[call.fn].var = 5
    BY <1>14 DEF EarlyTest
  <1>16. reg[l][EarlyTest[call.fn].var] = Expected
    BY <1>3, <1>12, <1>13, <1>15 DEF Expected
  <1> QED
    BY <1>16

\* The next group, when the hash of no candidate of this one is the target.
LEMMA SearchGoesOn ==
    ASSUME CallInv, RawInv, SearchInv, IsSearch(call), pc \in {"rounds", "rest", "compare"},
           NextGroup, call' = call, raw' = raw,
           \A j \in Lanes : raw[data[j]] # Target(call)
    PROVE  SearchInv' /\ SearchRight'
  <1> DEFINE x == data[1]
             m == V.lanes
             nextx == Plus(data[1], V.lanes)
  <1>1. Shape(V) /\ call \in Calls /\ data \in [Lanes -> Candidates]
    BY CallShape
  <1>2. m \in 1 .. 8 /\ m \in 0 .. 8 /\ 1 \in Lanes /\ Lanes = 1 .. m
    BY <1>1 DEF Shape, Lanes
  <1>3. x \in Candidates /\ call.start \in Candidates /\ call.end \in Candidates
    BY <1>1, <1>2, CallAssumption
  <1>4. /\ \A j \in Lanes : data[j] = Plus(x, j - 1)
        /\ Leq(call.start, x)
        /\ \A d \in InputSet : Leq(call.start, d) /\ raw[d] = Target(call) => Leq(x, d)
        /\ \A j \in Lanes : data[j] \in InputSet /\ data[j] # 0 .. 63
    BY DEF SearchInv
  <1>5. data' = [j \in Lanes |-> Plus(data[j], m)]
    BY DEF NextGroup
  <1>6. data'[1] = nextx /\ \A j \in Lanes : data'[j] = Plus(data[j], m)
    BY <1>2, <1>5
  <1>7. InputSet \in SUBSET Candidates
    BY CallAssumption DEF InputSet
  <1>8. InputSet' = InputSet /\ Target(call)' = Target(call) /\ call' = call /\ raw' = raw
    BY DEF InputSet, Target
  <1>9. nextx = Plus(x, m)
    OBVIOUS
  <1> HIDE DEF x, m, nextx
  <1>10. ASSUME NEW k \in 0 .. m - 1
         PROVE  Plus(x, k) # 0 .. 63 /\ Plus(x, k) = data[k + 1] /\ k + 1 \in Lanes
    <2>1. k + 1 \in Lanes /\ k + 1 - 1 = k
      BY <1>2
    <2> QED
      BY <1>4, <2>1
  <1>11. Leq(call.start, nextx) /\ nextx \in Candidates
    <2>1. nextx \in Candidates
      BY <1>3, <1>9, PlusType
    <2>2. Leq(x, nextx)
      BY <1>2, <1>3, <1>9, <1>10, PlusAbove
    <2> QED
      BY <1>3, <1>4, <2>1, <2>2, LeqTransitive
  <1>12. ASSUME NEW d \in InputSet, Leq(call.start, d), raw[d] = Target(call)
         PROVE  Leq(nextx, d)
    <2>1. d \in Candidates /\ Leq(x, d)
      BY <1>4, <1>7, <1>12
    <2>2. \A k \in 0 .. m - 1 : Plus(x, k) # 0 .. 63 /\ Plus(x, k) # d
      BY <1>10, <1>12
    <2>3. Leq(Plus(x, m), d)
      BY <1>2, <1>3, <2>1, <2>2, PlusBelow
    <2> QED
      BY <1>9, <2>3
  <1>13. CASE Leq(data'[1], call.end)
    <2>1. pc' = "load"
      BY <1>13 DEF NextGroup
    <2>2. \A j \in Lanes : data'[j] = Plus(data'[1], j - 1)
      <3> TAKE j \in Lanes
      <3>1. data[j] = Plus(x, j - 1)
        BY <1>4
      <3>2. Plus(Plus(x, j - 1), m) = Plus(Plus(x, m), j - 1)
        BY <1>3, PlusFacts
      <3> QED
        BY <1>6, <1>9, <3>1, <3>2
    <2>3. SearchInv'
      BY <1>6, <1>8, <1>11, <1>12, <2>1, <2>2, SameCall DEF SearchInv
    <2> QED
      BY <2>1, <2>3 DEF SearchRight
  <1>14. CASE ~Leq(data'[1], call.end)
    <2>1. pc' = "done" /\ answer' = {}
      BY <1>14 DEF NextGroup
    <2>2. ASSUME NEW d \in InputSet, Leq(call.start, d), raw[d] = Target(call)
          PROVE  ~Leq(d, call.end)
      <3>1. Leq(nextx, d) /\ d \in Candidates
        BY <1>7, <1>12, <2>2
      <3>2. ~Leq(nextx, call.end)
        BY <1>6, <1>14
      <3> QED
        BY <1>3, <1>11, <3>1, <3>2, LeqTransitive
    <2>3. DOMAIN raw = InputSet
      BY DEF RawInv
    <2> QED
      BY <1>8, <2>1, <2>2, <2>3 DEF SearchInv, SearchRight
  <1> QED
    BY <1>13, <1>14

\* What a search compares is the hash of each candidate of the group.
LEMMA Compared ==
    ASSUME CallInv, RawInv, StoredInv, SearchInv, pc = "compare"
    PROVE  /\ IsSearch(call)
           /\ \A j \in Lanes : hash[j] = raw[data[j]] /\ data[j] \in InputSet
  <1>1. IsSearch(call) /\ call \in Calls
    BY DEF StoredInv, CallInv
  <1>2. call.fn # "sha256x4_asm"
    BY <1>1, CallAssumption DEF Searches
  <1>3. ASSUME NEW j \in Lanes
        PROVE  hash[j] = raw[data[j]] /\ data[j] \in InputSet
    <2>1. data[j] \in InputSet
      BY <1>1 DEF SearchInv
    <2>2. PICK s \in [1 .. 8 -> Words] : IsHashOf(data[j], s) /\ hash[j] = Written(s)
      BY DEF StoredInv
    <2>3. IsHashOf(data[j], raw[data[j]])
      BY <2>1 DEF RawInv
    <2>4. raw[data[j]] = s
      BY <2>2, <2>3, OneHash
    <2>5. hash[j] = s
      BY <1>2, <2>2 DEF Written
    <2> QED
      BY <2>1, <2>4, <2>5
  <1> QED
    BY <1>1, <1>3

\* The answer is the first match of the group.
LEMMA FoundStep ==
    ASSUME CallInv, RawInv, StoredInv, SearchInv, Found
    PROVE  SearchInv' /\ SearchRight'
  <1>1. /\ pc = "compare" /\ pc' = "done" /\ call' = call /\ raw' = raw /\ data' = data
        /\ \E j \in Matches : (\A m \in Matches : j <= m) /\ answer' = data[j]
    BY DEF Found
  <1>2. /\ IsSearch(call)
        /\ \A j \in Lanes : hash[j] = raw[data[j]] /\ data[j] \in InputSet
    BY <1>1, Compared
  <1>3. PICK j \in Matches : (\A m \in Matches : j <= m) /\ answer' = data[j]
    BY <1>1
  <1>4. j \in Lanes /\ raw[data[j]] = Target(call)
    BY <1>2, <1>3 DEF Matches
  <1>5. ASSUME NEW m \in Lanes, m < j
        PROVE  raw[data[m]] # Target(call)
    <2>1. m \in Nat /\ j \in Nat
      BY <1>4 DEF Lanes
    <2>2. m \notin Matches
      BY <1>3, <1>5, <2>1
    <2> QED
      BY <1>2, <2>2 DEF Matches
  <1>6. Shape(V) /\ call \in Calls /\ data \in [Lanes -> Candidates]
    BY <1>1, CallShape
  <1>7. V.lanes \in 1 .. 8 /\ Lanes = 1 .. V.lanes
    BY <1>6 DEF Shape, Lanes
  <1>8. /\ \A m \in Lanes : data[m] = Plus(data[1], m - 1)
        /\ Leq(call.start, data[1])
        /\ \A d \in InputSet :
              Leq(call.start, d) /\ raw[d] = Target(call) => Leq(data[1], d)
        /\ \A m \in Lanes : data[m] \notin {{}, 0 .. 63}
    BY <1>1, <1>2 DEF SearchInv
  <1>9. j - 1 \in 0 .. 8 /\ 1 \in Lanes
    BY <1>4, <1>7
  <1>10. data[1] \in Candidates /\ call.start \in Candidates /\ data[j] \in Candidates
    BY <1>2, <1>4, <1>6, <1>9, CallAssumption
  <1>11. ASSUME NEW k \in 0 .. j - 1 - 1
         PROVE  /\ Plus(data[1], k) # 0 .. 63
                /\ k + 1 \in Lanes /\ k + 1 < j /\ Plus(data[1], k) = data[k + 1]
    <2>1. k + 1 \in Lanes /\ k + 1 < j /\ k + 1 - 1 = k
      BY <1>4, <1>7
    <2> QED
      BY <1>8, <2>1
  <1>12. data[j] = Plus(data[1], j - 1)
    BY <1>4, <1>8
  <1>13. Leq(call.start, data[j])
    <2>1. Leq(data[1], data[j])
      BY <1>9, <1>10, <1>11, <1>12, PlusAbove
    <2> QED
      BY <1>8, <1>10, <2>1, LeqTransitive
  <1>14. ASSUME NEW d \in InputSet, Leq(call.start, d), raw[d] = Target(call)
         PROVE  Leq(data[j], d)
    <2>1. d \in Candidates
      BY CallAssumption DEF InputSet
    <2>2. Leq(data[1], d)
      BY <1>8, <1>14
    <2>3. \A k \in 0 .. j - 1 - 1 : Plus(data[1], k) # 0 .. 63 /\ Plus(data[1], k) # d
      BY <1>5, <1>11, <1>14
    <2> QED
      BY <1>9, <1>10, <1>12, <2>1, <2>2, <2>3, PlusBelow
  <1>15. Target(call)' = Target(call)
    BY <1>1 DEF Target
  <1>16. DOMAIN raw = InputSet
    BY <1>1 DEF RawInv
  <1>17. SearchRight'
    <2>1. answer' # {} /\ data[j] \in InputSet /\ answer' = data[j]
      BY <1>2, <1>3, <1>4, <1>8
    <2> QED
      BY <1>1, <1>4, <1>13, <1>14, <1>15, <1>16, <2>1 DEF SearchRight
  <1> QED
    BY <1>1, <1>17 DEF SearchInv

LEMMA SearchSteps ==
    ASSUME CallInv, HashInv, RawInv, TraceInv, StoredInv, GroupsKnown,
           SearchInv, SearchRight, [Next]_vars
    PROVE  SearchInv' /\ SearchRight'
  <1>1. CASE CustomWord \/ CustomRound \/ CustomReturn \/ Return
    BY <1>1 DEF CustomWord, CustomRound, CustomReturn, Return, Clear, SearchInv, SearchRight
  <1>2. ASSUME NEW c \in Calls, Call(c)
        PROVE  SearchInv' /\ SearchRight'
    <2>1. pc' \in {"load", "done"} /\ call' = c /\ answer' = {}
      BY <1>2 DEF Call
    <2>2. Lanes' = 1 .. Versions[c.fn].lanes
      BY <2>1 DEF Lanes, V
    <2>3. ASSUME IsSearch(c)
          PROVE  /\ \A j \in Lanes' : data'[j] = Plus(data'[1], j - 1)
                 /\ data'[1] = c.start
      <3>1. data' = [j \in 1 .. Versions[c.fn].lanes |-> Plus(c.start, j - 1)]
        BY <1>2, <2>3 DEF Call
      <3>2. c.start \in Candidates /\ Shape(Versions[c.fn])
        BY <2>3, CallAssumption, Shapes
      <3>3. 1 \in 1 .. Versions[c.fn].lanes
        BY <3>2 DEF Shape
      <3>4. Plus(c.start, 0) = c.start
        BY <3>2, PlusFacts
      <3>5. data'[1] = c.start
        BY <3>1, <3>3, <3>4
      <3> QED
        BY <2>2, <3>1, <3>5
    <2>4. IsSearch(c) => Leq(c.start, data'[1])
      BY <2>3 DEF Leq
    <2>5. SearchInv'
      BY <2>1, <2>3, <2>4 DEF SearchInv, InputSet, Target
    <2>6. ASSUME pc' = "done", NEW d \in InputSet, Leq(c.start, d)
          PROVE  ~Leq(d, c.end)
      <3>1. c.fn = "reverse_sha256" /\ ~Leq(c.start, c.end)
        BY <1>2, <2>6 DEF Call, EmptyRange
      <3>2. c.start \in Candidates /\ c.end \in Candidates
        BY <3>1, CallAssumption DEF Searches
      <3>3. d \in Candidates
        BY CallAssumption DEF InputSet
      <3> QED
        BY <2>6, <3>1, <3>2, <3>3, LeqTransitive
    <2>7. raw' = raw /\ pc # "custom"
      BY <1>2 DEF Call
    <2>8. DOMAIN raw = InputSet
      BY <2>7 DEF RawInv
    <2>9. SearchRight'
      BY <2>1, <2>6, <2>7, <2>8 DEF SearchRight
    <2> QED
      BY <2>5, <2>9
  <1>3. CASE Load \/ MakeWord \/ Round \/ FusedRound \/ FirstRounds \/ FoldedRound
             \/ KeepGroup \/ Store
    <2>1. /\ call' = call /\ data' = data /\ raw' = raw
          /\ pc \in {"load", "rounds", "rest"}
          /\ pc' \in {"rounds", "rest", "compare", "done"}
          /\ pc' = "done" => ~IsSearch(call)
      BY <1>3 DEF Load, MakeWord, Round, FusedRound, FirstRounds, FoldedRound, KeepGroup,
                  Store, Hashing
    <2>2. InputSet' = InputSet /\ Target(call)' = Target(call)
      BY <2>1 DEF InputSet, Target
    <2>3. IsSearch(call) =>
             /\ \A j \in Lanes : data[j] \in InputSet /\ data[j] \notin {{}, 0 .. 63}
             /\ \A j \in Lanes : data[j] = Plus(data[1], j - 1)
             /\ Leq(call.start, data[1])
             /\ \A d \in InputSet :
                   Leq(call.start, d) /\ raw[d] = Target(call) => Leq(data[1], d)
      BY <2>1 DEF SearchInv, GroupsKnown
    <2> QED
      BY <2>1, <2>2, <2>3, SameCall DEF SearchInv, SearchRight
  <1>4. CASE DropGroup
    <2>1. /\ IsSearch(call) /\ call' = call /\ raw' = raw /\ NextGroup
          /\ Hashing /\ TestDue
          /\ \A l \in Lanes : reg[l][EarlyTest[call.fn].var] # Expected
      BY <1>4, OnlySearches DEF DropGroup
    <2>2. pc \in {"rounds", "rest", "compare"}
      BY <2>1 DEF Hashing
    <2>3. \A j \in Lanes : raw[data[j]] # Target(call)
      <3> TAKE j \in Lanes
      <3>1. data[j] \in InputSet
        BY <2>1, <2>2 DEF SearchInv
      <3> QED
        BY <2>1, <3>1, TestPassed
    <2> QED
      BY <2>1, <2>2, <2>3, SearchGoesOn
  <1>5. CASE Found
    BY <1>5, FoundStep
  <1>6. CASE NotFound
    <2>1. /\ pc = "compare" /\ call' = call /\ raw' = raw /\ NextGroup /\ Matches = {}
      BY <1>6 DEF NotFound
    <2>2. /\ IsSearch(call)
          /\ \A j \in Lanes : hash[j] = raw[data[j]]
      BY <2>1, Compared
    <2>3. \A j \in Lanes : raw[data[j]] # Target(call)
      BY <2>1, <2>2 DEF Matches
    <2> QED
      BY <2>1, <2>2, <2>3, SearchGoesOn
  <1>7. CASE UNCHANGED vars
    <2>1. UNCHANGED <<pc, call, data, raw, answer>>
      BY <1>7 DEF vars
    <2>2. InputSet' = InputSet /\ Target(call)' = Target(call)
      BY <2>1 DEF InputSet, Target
    <2> QED
      BY <2>1, <2>2, SameCall DEF SearchInv, SearchRight
  <1> QED
    BY <1>1, <1>2, <1>3, <1>4, <1>5, <1>6, <1>7 DEF Next

\* A search returns the first candidate with the hash that is looked for and,
\* if there is none in the range, says so: no early test, on a prediction of a
\* or of e, drops a group with an answer, and nothing else is taken for one.
THEOREM SearchesRight == Spec /\ []UpperWordsAgree /\ []GroupsKnown => []SearchRight
  <1>1. Init => CustomInv /\ RawInv /\ TraceInv /\ StoredInv
    BY CustomStart
  <1>2. Init => SearchInv /\ SearchRight
    BY DEF Init, SearchInv, SearchRight
  <1>3. CallInv /\ HashInv /\ RawInv /\ TraceInv /\ StoredInv /\ GroupsKnown
        /\ SearchInv /\ SearchRight /\ [Next]_vars => SearchInv' /\ SearchRight'
    BY SearchSteps
  <1>4. CallInv /\ HashInv /\ TraceInv /\ [Next]_vars => TraceInv'
    BY TraceKept
  <1> QED
    BY <1>1, <1>2, <1>3, <1>4, Invariant, StoredInvariant, PTL DEF Spec
=============================================================================
