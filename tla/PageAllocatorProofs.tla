------------------------- MODULE PageAllocatorProofs -------------------------
(***************************************************************************)
(* What holds of page_allocator.c for any threads and pages: destruction   *)
(* unmaps every page that was mapped, and a page is nobody's or owned by   *)
(* two threads only after an exchange succeeded on a stale link.           *)
(*                                                                         *)
(* A list of the allocator is a sequence of pages, each linked to the      *)
(* next; the invariant says which pages are on which list.                 *)
(***************************************************************************)
EXTENDS PageAllocator, Sequences, FiniteSetTheorems, WellFoundedInduction, TLAPS

----------------------------------------------------------------------------
(* Linked lists. *)

Elements(q) == {q[i] : i \in 1 .. Len(q)}

\* The links lead from page p through the sequence q and end after it.
IsList(next, p, q) ==
    /\ q \in Seq(Pages)
    /\ \A i, j \in 1 .. Len(q) : q[i] = q[j] => i = j
    /\ p = IF q = <<>> THEN Null ELSE q[1]
    /\ \A i \in 1 .. Len(q) : next[q[i]] = IF i = Len(q) THEN Null ELSE q[i + 1]

\* The pages of the list from p on are those of S.
ListOf(next, p, S) == \E q : IsList(next, p, q) /\ Elements(q) = S

\* The least of some numbers.
LEMMA Least ==
    ASSUME NEW S \in SUBSET Nat, S # {}
    PROVE  \E m \in S : \A k \in S : m <= k
  <1> DEFINE R == OpToRel(<, Nat)
  <1>1. IsWellFoundedOn(R, Nat) /\ \A x, y \in Nat : y < x => <<y, x>> \in R
    BY NatLessThanWellFounded DEF OpToRel
  <1> HIDE DEF R
  <1>2. PICK m \in S : \A k \in S : ~(<<k, m>> \in R)
    BY <1>1, WFMin
  <1>3. \A k \in S : m <= k
    <2> TAKE k \in S
    <2>1. m \in Nat /\ k \in Nat /\ ~(k < m)
      BY <1>1, <1>2
    <2> QED
      BY <2>1
  <1> QED
    BY <1>3

\* A list is no longer than there are pages.
LEMMA ListLength ==
    ASSUME NEW next, NEW p, NEW q, IsList(next, p, q)
    PROVE  Len(q) \in 0 .. MaxPages
  <1>1. Len(q) \in Nat /\ q \in Injection(1 .. Len(q), Pages)
    BY DEF IsList, Injection, IsInjective
  <1>2. IsFiniteSet(Pages) /\ Cardinality(Pages) = MaxPages
    BY PagesAssumption, FS_Interval DEF Pages
  <1>3. Cardinality(1 .. Len(q)) <= Cardinality(Pages)
    BY <1>1, <1>2, FS_Injection
  <1>4. Cardinality(1 .. Len(q)) = Len(q)
    <2>1. Cardinality(1 .. Len(q)) = IF 1 > Len(q) THEN 0 ELSE Len(q) - 1 + 1
      BY <1>1, FS_Interval
    <2> QED
      BY <1>1, <2>1
  <1> QED
    BY <1>1, <1>2, <1>3, <1>4, PagesAssumption

\* What Reached computes is what is on the list.
LEMMA ReachedList ==
    ASSUME NEW next, NEW p, NEW q, IsList(next, p, q)
    PROVE  Reached(next, p) = Elements(q)
  <1> DEFINE N == MaxPages
             n == Len(q)
             Grow(S) == S \cup ({next[x] : x \in S} \ {Null})
             Eq(f) == f = [k \in 0 .. N |-> IF k = 0 THEN {p} \ {Null}
                             ELSE f[k - 1] \cup ({next[x] : x \in f[k - 1]} \ {Null})]
             chosen == CHOOSE f : Eq(f)
             First(k) == {q[i] : i \in {j \in 1 .. n : j <= k + 1}}
             f0 == [k \in 0 .. N |-> First(k)]
  <1>1. n \in 0 .. N /\ n \in Nat /\ N \in Nat
    BY ListLength, PagesAssumption
  <1>2. Reached(next, p) = chosen[N]
    BY DEF Reached
  <1>3. /\ q \in Seq(Pages) /\ q \in [1 .. n -> Pages]
        /\ p = IF q = <<>> THEN Null ELSE q[1]
        /\ \A i \in 1 .. n : next[q[i]] = IF i = n THEN Null ELSE q[i + 1]
    BY DEF IsList
  <1>4. \A i \in 1 .. n : q[i] # Null
    <2>1. \A x \in Pages : x # Null
      BY PagesAssumption DEF Pages, Null
    <2> QED
      BY <1>3, <2>1
  <1>5. First(0) = {p} \ {Null}
    <2>1. CASE n = 0
      <3>1. p = Null
        BY <1>3, <2>1
      <3>2. \A x : x \notin First(0)
        BY <2>1
      <3> HIDE DEF First
      <3> QED
        BY <3>1, <3>2
    <2>2. CASE n # 0
      <3>1. 1 \in 1 .. n /\ \A j \in 1 .. n : j <= 0 + 1 <=> j = 1
        BY <1>1, <2>2
      <3>2. p = q[1] /\ q[1] # Null
        <4>1. q # <<>>
          BY <2>2
        <4>2. p = q[1]
          BY <1>3, <4>1
        <4> QED
          BY <1>4, <3>1, <4>2
      <3>3. q[1] \in First(0) /\ \A x \in First(0) : x = q[1]
        <4>1. 1 \in {j \in 1 .. n : j <= 0 + 1}
          BY <3>1
        <4>2. \A j \in {k \in 1 .. n : k <= 0 + 1} : j = 1
          BY <3>1
        <4> QED
          BY <4>1, <4>2
      <3> HIDE DEF First
      <3> QED
        BY <3>2, <3>3
    <2> QED
      BY <2>1, <2>2
  <1>6. ASSUME NEW k \in 1 .. N
        PROVE  First(k) = First(k - 1) \cup ({next[x] : x \in First(k - 1)} \ {Null})
    <2>1. k \in Nat /\ k >= 1 /\ k - 1 + 1 = k
      OBVIOUS
    <2> HIDE DEF n, N
    <2>2. ASSUME NEW x \in First(k)
          PROVE  x \in First(k - 1) \cup ({next[y] : y \in First(k - 1)} \ {Null})
      <3>1. PICK i \in 1 .. n : i <= k + 1 /\ x = q[i]
        OBVIOUS
      <3>2. CASE i <= k
        BY <2>1, <3>1, <3>2
      <3>3. CASE i = k + 1
        <4>1. i - 1 \in 1 .. n /\ i - 1 <= k - 1 + 1 /\ i - 1 # n /\ i - 1 + 1 = i
          BY <1>1, <2>1, <3>1, <3>3
        <4>2. next[q[i - 1]] = x /\ x # Null
          BY <1>3, <1>4, <3>1, <4>1
        <4>3. q[i - 1] \in First(k - 1)
          BY <4>1
        <4> QED
          BY <4>2, <4>3
      <3> QED
        BY <2>1, <3>1, <3>2, <3>3
    <2>3. First(k - 1) \subseteq First(k)
      BY <2>1
    <2>4. ASSUME NEW y \in First(k - 1), next[y] # Null
          PROVE  next[y] \in First(k)
      <3>1. PICK i \in 1 .. n : i <= k /\ y = q[i]
        BY <2>1
      <3>2. i # n /\ next[y] = q[i + 1]
        BY <1>3, <2>4, <3>1
      <3>3. i + 1 \in 1 .. n /\ i + 1 <= k + 1
        BY <1>1, <2>1, <3>1, <3>2
      <3> QED
        BY <3>2, <3>3
    <2> HIDE DEF First
    <2> QED
      BY <2>2, <2>3, <2>4
  <1> HIDE DEF n, N, First
  <1>7. Eq(f0)
    <2>1. \A k \in 0 .. N : f0[k] = IF k = 0 THEN {p} \ {Null}
             ELSE f0[k - 1] \cup ({next[x] : x \in f0[k - 1]} \ {Null})
      <3> SUFFICES ASSUME NEW k \in 0 .. N
                   PROVE  f0[k] = IF k = 0 THEN {p} \ {Null}
             ELSE f0[k - 1] \cup ({next[x] : x \in f0[k - 1]} \ {Null})
        OBVIOUS
      <3>1. CASE k = 0
        BY <1>5, <3>1
      <3>2. CASE k # 0
        <4>1. k \in 1 .. N /\ k - 1 \in 0 .. N
          BY <1>1, <3>2
        <4>2. f0[k] = First(k) /\ f0[k - 1] = First(k - 1)
          BY <4>1
        <4> QED
          BY <1>6, <3>2, <4>1, <4>2
      <3> QED
        BY <3>1, <3>2
    <2>2. f0 = [k \in 0 .. N |-> f0[k]]
      OBVIOUS
    <2> HIDE DEF f0
    <2> QED
      BY <2>1, <2>2
  <1>8. Eq(chosen)
    BY <1>7
  <1>9. ASSUME NEW f, Eq(f) PROVE \A k \in 0 .. N : f[k] = f0[k]
    <2> HIDE DEF f0
    <2>1. \A k \in 0 .. N : f[k] = IF k = 0 THEN {p} \ {Null} ELSE Grow(f[k - 1])
      BY <1>9
    <2>2. \A k \in 0 .. N : f0[k] = IF k = 0 THEN {p} \ {Null} ELSE Grow(f0[k - 1])
      BY <1>7
    <2> HIDE DEF Eq, Grow
    <2> DEFINE S == {k \in 0 .. N : f[k] # f0[k]}
    <2> SUFFICES ASSUME S # {} PROVE FALSE
      OBVIOUS
    <2>3. S \in SUBSET Nat
      BY <1>1
    <2>4. PICK m \in S : \A k \in S : m <= k
      BY <2>3, Least
    <2>5. m \in 0 .. N /\ m # 0
      BY <2>1, <2>2
    <2>6. m - 1 \in 0 .. N /\ ~(m <= m - 1)
      BY <1>1, <2>5
    <2>7. f[m - 1] = f0[m - 1]
      BY <2>4, <2>6
    <2> QED
      BY <2>1, <2>2, <2>5, <2>7
  <1>10. f0[N] = Elements(q)
    <2>1. \A j \in 1 .. n : j <= N + 1
      BY <1>1
    <2>2. First(N) = Elements(q)
      BY <2>1 DEF First, Elements, n
    <2> QED
      BY <1>1, <2>2
  <1> HIDE DEF f0, Eq, chosen
  <1> QED
    BY <1>1, <1>2, <1>8, <1>9, <1>10

LEMMA EmptyList ==
    ASSUME NEW next
    PROVE  ListOf(next, Null, {})
  <1>1. IsList(next, Null, <<>>) /\ Elements(<<>>) = {}
    BY DEF IsList, Elements
  <1> QED
    BY <1>1 DEF ListOf

\* A list has pages on it, the one it begins at among them.
LEMMA OnList ==
    ASSUME NEW next, NEW p, NEW S, ListOf(next, p, S)
    PROVE  /\ S \subseteq Pages
           /\ Reached(next, p) = S
           /\ IF p = Null THEN S = {} ELSE p \in S
  <1>1. PICK q : IsList(next, p, q) /\ Elements(q) = S
    BY DEF ListOf
  <1>2. /\ q \in Seq(Pages) /\ Len(q) \in Nat
        /\ p = IF q = <<>> THEN Null ELSE q[1]
    BY <1>1 DEF IsList
  <1>3. S \subseteq Pages
    BY <1>1, <1>2 DEF Elements
  <1>4. Null \notin Pages
    BY PagesAssumption DEF Null, Pages
  <1>5. CASE q = <<>>
    BY <1>1, <1>2, <1>3, <1>5, ReachedList DEF Elements
  <1>6. CASE q # <<>>
    <2>1. 1 \in 1 .. Len(q) /\ p = q[1]
      BY <1>2, <1>6
    <2>2. p \in S
      BY <1>1, <2>1 DEF Elements
    <2> QED
      BY <1>1, <1>3, <1>4, <2>2, ReachedList
  <1> QED
    BY <1>5, <1>6

\* Only the links of its pages matter to a list.
LEMMA KeepList ==
    ASSUME NEW next, NEW p, NEW S, ListOf(next, p, S),
           NEW after, \A x \in S : after[x] = next[x]
    PROVE  ListOf(after, p, S)
  <1>1. PICK q : IsList(next, p, q) /\ Elements(q) = S
    BY DEF ListOf
  <1>2. \A i \in 1 .. Len(q) : after[q[i]] = next[q[i]]
    BY <1>1 DEF Elements
  <1>3. IsList(after, p, q)
    BY <1>1, <1>2 DEF IsList
  <1> QED
    BY <1>1, <1>3 DEF ListOf

\* The exchange of a push: a page linked to the head becomes the head.
LEMMA PushList ==
    ASSUME NEW next, NEW p, NEW S, ListOf(next, p, S),
           NEW x \in Pages \ S, next[x] = p
    PROVE  ListOf(next, x, S \cup {x})
  <1>1. PICK q : IsList(next, p, q) /\ Elements(q) = S
    BY DEF ListOf
  <1> DEFINE n == Len(q)
             r == <<x>> \o q
  <1>2. /\ q \in Seq(Pages) /\ n \in Nat
        /\ \A i, j \in 1 .. n : q[i] = q[j] => i = j
        /\ p = IF q = <<>> THEN Null ELSE q[1]
        /\ \A i \in 1 .. n : next[q[i]] = IF i = n THEN Null ELSE q[i + 1]
        /\ \A i \in 1 .. n : q[i] # x
    BY <1>1 DEF IsList, Elements
  <1>3. r \in Seq(Pages) /\ Len(r) = n + 1 /\ r # <<>> /\ r[1] = x
    BY <1>2
  <1>4. \A i \in 2 .. n + 1 : i - 1 \in 1 .. n /\ r[i] = q[i - 1]
    BY <1>2
  <1>5. p = IF n = 0 THEN Null ELSE q[1]
    BY <1>2
  <1> HIDE DEF n, r
  <1>6. \A i, j \in 1 .. n + 1 : r[i] = r[j] => i = j
    <2> SUFFICES ASSUME NEW i \in 1 .. n + 1, NEW j \in 1 .. n + 1, r[i] = r[j]
                 PROVE  i = j
      OBVIOUS
    <2>1. /\ i = 1 \/ i \in 2 .. n + 1
          /\ j = 1 \/ j \in 2 .. n + 1
      BY <1>2
    <2>2. CASE i \in 2 .. n + 1 /\ j \in 2 .. n + 1
      <3>1. q[i - 1] = q[j - 1] /\ i - 1 \in 1 .. n /\ j - 1 \in 1 .. n
        BY <1>4, <2>2
      <3>2. i - 1 = j - 1
        BY <1>2, <3>1
      <3> QED
        BY <2>2, <3>2
    <2>3. \A k \in 2 .. n + 1 : r[k] # x
      BY <1>2, <1>4
    <2> QED
      BY <1>3, <2>1, <2>2, <2>3
  <1>7. ASSUME NEW i \in 1 .. n + 1
        PROVE  next[r[i]] = IF i = n + 1 THEN Null ELSE r[i + 1]
    <2>1. CASE i = 1
      <3>1. next[r[i]] = p
        BY <1>3, <2>1
      <3>2. CASE n = 0
        BY <1>5, <2>1, <3>1, <3>2
      <3>3. CASE n # 0
        <4>1. 2 \in 2 .. n + 1 /\ i # n + 1 /\ i + 1 = 2 /\ 2 - 1 = 1
          BY <1>2, <2>1, <3>3
        <4>2. r[2] = q[1]
          BY <1>4, <4>1
        <4> QED
          BY <1>5, <3>1, <3>3, <4>1, <4>2
      <3> QED
        BY <3>2, <3>3
    <2>2. CASE i # 1
      <3>1. i \in 2 .. n + 1 /\ i - 1 \in 1 .. n /\ r[i] = q[i - 1] /\ i \in Nat
        BY <1>2, <1>4, <2>2
      <3>2. next[r[i]] = IF i - 1 = n THEN Null ELSE q[i - 1 + 1]
        BY <1>2, <3>1
      <3>3. CASE i = n + 1
        BY <1>2, <3>2, <3>3
      <3>4. CASE i # n + 1
        <4>1. i + 1 \in 2 .. n + 1 /\ i + 1 - 1 = i /\ i - 1 + 1 = i /\ i - 1 # n
          BY <1>2, <3>1, <3>4
        <4>2. r[i + 1] = q[i]
          BY <1>4, <4>1
        <4> QED
          BY <3>2, <3>4, <4>1, <4>2
      <3> QED
        BY <3>3, <3>4
    <2> QED
      BY <2>1, <2>2
  <1>8. IsList(next, x, r)
    BY <1>3, <1>6, <1>7 DEF IsList
  <1>9. Elements(r) = S \cup {x}
    <2>1. \A k \in 1 .. n + 1 : k = 1 \/ k \in 2 .. n + 1
      BY <1>2
    <2>2. \A k \in 1 .. n : k + 1 \in 2 .. n + 1 /\ k + 1 - 1 = k /\ k + 1 \in 1 .. n + 1
      BY <1>2
    <2>3. 1 \in 1 .. n + 1
      BY <1>2
    <2>4. \A k \in 1 .. n : r[k + 1] = q[k]
      BY <1>4, <2>2
    <2>5. S = {q[k] : k \in 1 .. n} /\ Elements(r) = {r[k] : k \in 1 .. n + 1}
      BY <1>1, <1>3 DEF Elements, n
    <2>6. \A y \in Elements(r) : y \in S \cup {x}
      BY <1>3, <1>4, <2>1, <2>5
    <2>7. \A y \in S : y \in Elements(r)
      BY <2>2, <2>4, <2>5
    <2>8. x \in Elements(r)
      BY <1>3, <2>3, <2>5
    <2> QED
      BY <2>6, <2>7, <2>8
  <1> QED
    BY <1>8, <1>9 DEF ListOf

\* The exchange of a pop: the head's link becomes the head.
LEMMA PopList ==
    ASSUME NEW next, NEW p, NEW S, ListOf(next, p, S), p # Null
    PROVE  ListOf(next, next[p], S \ {p})
  <1>1. PICK q : IsList(next, p, q) /\ Elements(q) = S
    BY DEF ListOf
  <1> DEFINE n == Len(q)
             r == Tail(q)
  <1>2. /\ q \in Seq(Pages) /\ q # <<>> /\ n \in Nat
        /\ \A i, j \in 1 .. n : q[i] = q[j] => i = j
        /\ p = q[1]
        /\ \A i \in 1 .. n : next[q[i]] = IF i = n THEN Null ELSE q[i + 1]
    BY <1>1 DEF IsList
  <1>3. n \in Nat \ {0} /\ 1 \in 1 .. n
    BY <1>2
  <1>4. r \in Seq(Pages) /\ Len(r) = n - 1 /\ \A i \in 1 .. n - 1 : r[i] = q[i + 1]
    BY <1>2
  <1> HIDE DEF n, r
  <1>5. r = <<>> <=> n = 1
    BY <1>3, <1>4
  <1>6. \A i \in 1 .. n - 1 : i + 1 \in 1 .. n /\ i + 1 # 1
    BY <1>3
  <1>7. next[p] = IF r = <<>> THEN Null ELSE r[1]
    <2>1. next[p] = IF n = 1 THEN Null ELSE q[2]
      BY <1>2, <1>3
    <2>2. n # 1 => r[1] = q[2]
      <3>1. n # 1 => 1 \in 1 .. n - 1 /\ 1 + 1 = 2
        BY <1>3
      <3> QED
        BY <1>4, <3>1
    <2> QED
      BY <1>5, <2>1, <2>2
  <1>8. \A i, j \in 1 .. n - 1 : r[i] = r[j] => i = j
    <2> SUFFICES ASSUME NEW i \in 1 .. n - 1, NEW j \in 1 .. n - 1, r[i] = r[j]
                 PROVE  i = j
      OBVIOUS
    <2>1. i + 1 = j + 1
      BY <1>2, <1>4, <1>6
    <2> QED
      BY <1>3, <2>1
  <1>9. ASSUME NEW i \in 1 .. n - 1
        PROVE  next[r[i]] = IF i = n - 1 THEN Null ELSE r[i + 1]
    <2>1. next[q[i + 1]] = IF i + 1 = n THEN Null ELSE q[i + 1 + 1]
      BY <1>2, <1>6
    <2>2. /\ i + 1 = n <=> i = n - 1
          /\ i # n - 1 => i + 1 \in 1 .. n - 1
      BY <1>3
    <2> QED
      BY <1>4, <2>1, <2>2
  <1>10. IsList(next, next[p], r)
    BY <1>4, <1>7, <1>8, <1>9 DEF IsList
  <1>11. Elements(r) = S \ {p}
    <2>1. S = {q[k] : k \in 1 .. n} /\ Elements(r) = {r[k] : k \in 1 .. n - 1}
      BY <1>1, <1>4 DEF Elements, n
    <2>2. \A k \in 1 .. n : k # 1 => k - 1 \in 1 .. n - 1 /\ k - 1 + 1 = k
      BY <1>3
    <2>3. \A y \in Elements(r) : y \in S /\ y # p
      BY <1>2, <1>3, <1>4, <1>6, <2>1
    <2>4. ASSUME NEW y \in S, y # p PROVE y \in Elements(r)
      <3>1. PICK k \in 1 .. n : y = q[k]
        BY <2>1
      <3>2. k # 1
        BY <1>2, <2>4, <3>1
      <3>3. y = r[k - 1] /\ k - 1 \in 1 .. n - 1
        BY <1>4, <2>2, <3>1, <3>2
      <3> QED
        BY <2>1, <3>3
    <2> QED
      BY <2>3, <2>4
  <1> QED
    BY <1>10, <1>11 DEF ListOf

----------------------------------------------------------------------------
(* The invariant. *)

Labels == {"idle", "load", "map", "link", "pop", "unlink", "record", "relink",
           "push", "ended"}

\* Where a thread is the only one that touches the page in its header.
Holding == {"unlink", "relink", "push", "record"}

\* The types: nothing but mapped pages is linked, and destruction ends all
\* threads at once.
Types ==
    /\ mapped \in 0 .. MaxPages
    /\ free_list \in 0 .. mapped
    /\ all_pages \in 0 .. mapped
    /\ next_free \in [Pages -> 0 .. mapped]
    /\ next_any \in [Pages -> Links]
    /\ pc \in [Threads -> Labels]
    /\ header \in [Threads -> 0 .. mapped]
    /\ seen \in [Threads -> 0 .. mapped]
    /\ held \in [Threads -> SUBSET (1 .. mapped)]
    /\ aba \in BOOLEAN
    /\ \A t \in Threads : pc[t] \in Holding \cup {"link", "pop"} => header[t] # Null
    /\ (\E t \in Threads : pc[t] = "ended") => Ending

\* The list of all pages: every mapped page but those that a thread is about
\* to record, each by a thread of its own.
Recording == {t \in Threads : pc[t] = "record"}
Recorded == (1 .. mapped) \ {header[t] : t \in Recording}

AnyInv ==
    /\ \A s, t \in Recording : header[s] = header[t] => s = t
    /\ IF Ending THEN unmapped = 1 .. mapped
       ELSE ListOf(next_any, all_pages, Recorded)

\* The free list: every mapped page that no thread owns.
Free == (1 .. mapped) \ UNION {Owned(t) : t \in Threads}

FreeInv ==
    /\ \A s, t \in Threads : s # t => Owned(s) \cap Owned(t) = {}
    /\ \A t \in Threads : pc[t] \in Holding => header[t] \notin held[t]
    /\ \A t \in Threads : pc[t] = "push" => next_free[header[t]] = seen[t]
    /\ ListOf(next_free, free_list, Free)

LEMMA InitTypes == Init => Types /\ AnyInv /\ (~aba => FreeInv)
  <1> SUFFICES ASSUME Init PROVE Types /\ AnyInv /\ FreeInv
    OBVIOUS
  <1> USE PagesAssumption
  <1>1. /\ \A t \in Threads : pc[t] = "idle" /\ held[t] = {} /\ header[t] = Null
        /\ free_list = Null /\ all_pages = Null /\ mapped = 0 /\ 1 .. mapped = {}
        /\ ~Ending
    BY DEF Init, Ending
  <1>2. Types
    <2>1. 0 \in 0 .. mapped /\ 0 \in Links /\ mapped \in 0 .. MaxPages
      BY <1>1 DEF Links
    <2> HIDE DEF Pages
    <2>2. /\ next_free \in [Pages -> 0 .. mapped] /\ next_any \in [Pages -> Links]
          /\ header \in [Threads -> 0 .. mapped] /\ seen \in [Threads -> 0 .. mapped]
          /\ pc \in [Threads -> Labels] /\ held \in [Threads -> SUBSET (1 .. mapped)]
      BY <2>1 DEF Init, Null, Labels
    <2>3. free_list \in 0 .. mapped /\ all_pages \in 0 .. mapped /\ aba \in BOOLEAN
      BY <1>1, <2>1 DEF Init, Null
    <2> QED
      BY <1>1, <2>1, <2>2, <2>3 DEF Types, Holding
  <1>3. Recorded = {} /\ Free = {} /\ Recording = {}
    BY <1>1 DEF Recorded, Free, Recording
  <1>4. AnyInv
    BY <1>1, <1>3, EmptyList DEF AnyInv
  <1>5. \A t \in Threads : Owned(t) = {}
    BY <1>1 DEF Owned
  <1>6. FreeInv
    BY <1>1, <1>3, <1>5, EmptyList DEF FreeInv, Holding
  <1> QED
    BY <1>2, <1>4, <1>6

\* What all steps of a thread have in common.
LEMMA StepOf ==
    ASSUME Types, NEW t \in Threads, Step(t)
    PROVE  /\ ~Ending /\ ~Ending'
           /\ \A u \in Threads : pc'[u] \in Labels \ {"ended"}
           /\ \A u \in Threads \ {t} :
                 /\ pc'[u] = pc[u] /\ header'[u] = header[u]
                 /\ held'[u] = held[u] /\ seen'[u] = seen[u]
           /\ mapped' \in Nat /\ mapped' >= mapped /\ mapped \in Nat
  <1>1. \A u \in Threads : pc[u] \in Labels \ {"ended"}
    <2>1. pc[t] \in Labels \ {"ended"}
      BY DEF Step, AllocLoad, AllocReadLink, AllocPop, AllocPopFail,
             AllocReturn, AllocMap, AllocMapFails, AllocRecord,
             AllocRecordFail, FreeLoad, FreeLink, FreePush, FreePushFail, Labels
    <2> QED
      BY <2>1 DEF Types, Ending
  <1>2. \E l \in Labels \ {"ended"} : pc' = [pc EXCEPT ![t] = l]
    BY DEF Types, Step, AllocLoad, AllocReadLink, AllocPop, AllocPopFail,
           AllocReturn, AllocMap, AllocMapFails, AllocRecord,
           AllocRecordFail, FreeLoad, FreeLink, FreePush, FreePushFail,
           Goto, Labels
  <1>3. /\ \E x : header' = [header EXCEPT ![t] = x]
        /\ \E x : held' = [held EXCEPT ![t] = x]
        /\ \E x : seen' = [seen EXCEPT ![t] = x]
    BY DEF Types, Step, AllocLoad, AllocReadLink, AllocPop, AllocPopFail,
           AllocReturn, AllocMap, AllocMapFails, AllocRecord,
           AllocRecordFail, FreeLoad, FreeLink, FreePush, FreePushFail
  <1>4. mapped' \in Nat /\ mapped' >= mapped /\ mapped \in Nat
    BY DEF Types, Step, AllocLoad, AllocReadLink, AllocPop, AllocPopFail,
           AllocReturn, AllocMap, AllocMapFails, AllocRecord,
           AllocRecordFail, FreeLoad, FreeLink, FreePush, FreePushFail
  <1>5. \A u \in Threads : pc'[u] \in Labels \ {"ended"}
    BY <1>1, <1>2 DEF Types
  <1>6. ~Ending /\ ~Ending'
    BY <1>1, <1>5 DEF Ending
  <1> QED
    BY <1>2, <1>3, <1>4, <1>5, <1>6 DEF Types

LEMMA StepTypes == Types /\ [Next]_vars => Types'
  <1> SUFFICES ASSUME Types, [Next]_vars PROVE Types'
    OBVIOUS
  <1> USE DEF Types, Labels, Holding, Null, Links
  <1> USE PagesAssumption
  <1>1. ASSUME NEW t \in Threads, Step(t) PROVE Types'
    <2>0. ~\E u \in Threads : pc'[u] = "ended"
      BY <1>1, StepOf
    <2>a. pc[t] \in Holding \cup {"link", "pop"} => header[t] \in Pages /\ header[t] \in 1 .. mapped
      BY DEF Pages
    <2>1. CASE AllocLoad(t)
      BY <2>0, <2>1 DEF AllocLoad, Goto
    <2>2. CASE AllocReadLink(t)
      BY <2>0, <2>a, <2>2 DEF AllocReadLink, Goto
    <2>3. CASE AllocPop(t)
      BY <2>0, <2>3 DEF AllocPop, Goto
    <2>4. CASE AllocPopFail(t)
      BY <2>0, <2>4 DEF AllocPopFail, Goto
    <2>5. CASE AllocReturn(t)
      <3>1. 0 \in 0 .. mapped /\ held[t] \cup {header[t]} \in SUBSET (1 .. mapped)
        BY <2>a, <2>5 DEF AllocReturn
      <3> QED
        BY <2>0, <2>5, <3>1 DEF AllocReturn, Goto
    <2>6. CASE AllocMap(t)
      BY <2>0, <2>6 DEF AllocMap, Goto
    <2>7. CASE AllocMapFails(t)
      BY <2>0, <2>7 DEF AllocMapFails, Goto
    <2>8. CASE AllocRecord(t)
      <3>1. /\ 0 \in 0 .. mapped /\ held[t] \cup {header[t]} \in SUBSET (1 .. mapped)
            /\ header[t] \in 0 .. mapped /\ seen[t] \in 0 .. MaxPages
        BY <2>a, <2>8 DEF AllocRecord
      <3> QED
        BY <2>0, <2>8, <3>1 DEF AllocRecord, Goto
    <2>9. CASE AllocRecordFail(t)
      BY <2>0, <2>9 DEF AllocRecordFail
    <2>10. ASSUME NEW p \in held[t], FreeLoad(t, p) PROVE Types'
      BY <2>0, <2>10 DEF FreeLoad, Goto
    <2>11. CASE FreeLink(t)
      BY <2>0, <2>11 DEF FreeLink, Goto
    <2>12. CASE FreePush(t)
      BY <2>0, <2>12 DEF FreePush, Goto
    <2>13. CASE FreePushFail(t)
      BY <2>0, <2>13 DEF FreePushFail, Goto
    <2> QED
      BY <1>1, <2>1, <2>2, <2>3, <2>4, <2>5, <2>6, <2>7, <2>8, <2>9, <2>10,
         <2>11, <2>12, <2>13 DEF Step
  <1>2. CASE Destroy
    BY <1>2 DEF Destroy, Ending
  <1>3. CASE Ended \/ UNCHANGED vars
    BY <1>3 DEF Ended, vars, Ending
  <1> QED
    BY <1>1, <1>2, <1>3 DEF Next

----------------------------------------------------------------------------
(* The list of all pages. *)

LEMMA StepAnyInv == Types /\ AnyInv /\ [Next]_vars => AnyInv'
  <1> SUFFICES ASSUME Types, AnyInv, [Next]_vars PROVE AnyInv'
    OBVIOUS
  <1> USE PagesAssumption
  <1>1. ASSUME NEW t \in Threads, Step(t) PROVE AnyInv'
    <2>1. /\ ~Ending /\ ~Ending'
          /\ \A u \in Threads \ {t} : pc'[u] = pc[u] /\ header'[u] = header[u]
      BY <1>1, StepOf
    <2>2. /\ mapped \in Nat /\ mapped <= MaxPages /\ 1 .. mapped \subseteq Pages
          /\ \A u \in Recording : u \in Threads /\ header[u] \in 1 .. mapped
      BY DEF Types, Recording, Holding, Null, Pages
    <2>3. ListOf(next_any, all_pages, Recorded)
      BY <2>1 DEF AnyInv
    <2>4. \A s, u \in Recording : header[s] = header[u] => s = u
      BY DEF AnyInv
    <2>5. CASE AllocMap(t)
      <3>1. /\ pc[t] = "map" /\ mapped' = mapped + 1
            /\ header'[t] = mapped + 1 /\ pc'[t] = "record"
            /\ UNCHANGED <<all_pages, next_any>>
        BY <2>5 DEF AllocMap, Goto, Types
      <3>2. Recording' = Recording \cup {t} /\ t \notin Recording
        BY <2>1, <3>1 DEF Recording
      <3>3. \A u \in Recording : header'[u] = header[u]
        BY <2>1, <2>2, <3>2
      <3>4. {header'[u] : u \in Recording'} = {header[u] : u \in Recording} \cup {mapped + 1}
        BY <3>1, <3>2, <3>3
      <3>5. 1 .. mapped' = (1 .. mapped) \cup {mapped + 1} /\ mapped + 1 \notin 1 .. mapped
        BY <2>2, <3>1
      <3>6. Recorded' = Recorded
        BY <2>2, <3>4, <3>5 DEF Recorded
      <3>7. \A s, u \in Recording' : header'[s] = header'[u] => s = u
        BY <2>2, <2>4, <3>1, <3>2, <3>3, <3>5
      <3> QED
        BY <2>1, <2>3, <3>1, <3>6, <3>7 DEF AnyInv
    <2>6. CASE AllocRecord(t)
      <3>1. /\ pc[t] = "record" /\ pc'[t] = "idle"
            /\ all_pages = seen[t] /\ all_pages' = header[t]
            /\ next_any' = [next_any EXCEPT ![header[t]] = seen[t]]
            /\ UNCHANGED mapped
        BY <2>6 DEF AllocRecord, Goto, Types
      <3>2. Recording' = Recording \ {t} /\ t \in Recording
        BY <2>1, <3>1 DEF Recording
      <3>3. \A u \in Recording' : header'[u] = header[u] /\ header[u] # header[t]
        BY <2>1, <2>2, <2>4, <3>2
      <3>4. {header'[u] : u \in Recording'} = {header[u] : u \in Recording} \ {header[t]}
        BY <3>2, <3>3
      <3>5. Recorded' = Recorded \cup {header[t]} /\ header[t] \notin Recorded
        BY <2>2, <3>1, <3>2, <3>4 DEF Recorded
      <3>6. header[t] \in Pages
        BY <2>2, <3>2
      <3>7. /\ next_any'[header[t]] = all_pages
            /\ \A x \in Recorded : next_any'[x] = next_any[x]
        BY <3>1, <3>5, <3>6 DEF Types
      <3>8. ListOf(next_any', all_pages, Recorded)
        BY <2>3, <3>7, KeepList
      <3>9. ListOf(next_any', header[t], Recorded \cup {header[t]})
        BY <3>5, <3>6, <3>7, <3>8, PushList
      <3>10. \A s, u \in Recording' : header'[s] = header'[u] => s = u
        BY <2>4, <3>2, <3>3
      <3> QED
        BY <2>1, <3>1, <3>5, <3>9, <3>10 DEF AnyInv
    <2>7. CASE ~AllocMap(t) /\ ~AllocRecord(t)
      <3>1. /\ UNCHANGED <<mapped, all_pages, next_any>>
            /\ pc[t] = "record" <=> pc'[t] = "record"
            /\ pc[t] = "record" => header'[t] = header[t]
        BY <1>1, <2>7
           DEF Types, Step, AllocLoad, AllocReadLink, AllocPop, AllocPopFail,
               AllocReturn, AllocMapFails, AllocRecordFail, FreeLoad,
               FreeLink, FreePush, FreePushFail, Goto
      <3>2. Recording' = Recording /\ \A u \in Recording : header'[u] = header[u]
        BY <2>1, <3>1 DEF Recording
      <3>3. {header'[u] : u \in Recording'} = {header[u] : u \in Recording}
        BY <3>2
      <3>4. Recorded' = Recorded
        BY <3>1, <3>3 DEF Recorded
      <3>5. \A s, u \in Recording' : header'[s] = header'[u] => s = u
        BY <2>4, <3>2
      <3> QED
        BY <2>1, <2>3, <3>1, <3>4, <3>5 DEF AnyInv
    <2> QED
      BY <2>5, <2>6, <2>7
  <1>2. CASE Destroy
    <2>1. /\ \A t \in Threads : pc[t] = "idle"
          /\ unmapped' = Reached(next_any, all_pages)
          /\ \A t \in Threads : pc'[t] = "ended"
          /\ UNCHANGED mapped
      BY <1>2 DEF Destroy
    <2>2. ~Ending /\ Ending'
      BY <2>1 DEF Ending
    <2>3. Recording = {} /\ Recording' = {}
      BY <2>1 DEF Recording
    <2>4. Recorded = 1 .. mapped
      BY <2>3 DEF Recorded
    <2>5. unmapped' = 1 .. mapped'
      BY <2>1, <2>2, <2>4, OnList DEF AnyInv
    <2> QED
      BY <2>2, <2>3, <2>5 DEF AnyInv
  <1>3. CASE Ended \/ UNCHANGED vars
    <2>1. UNCHANGED vars
      BY <1>3 DEF Ended
    <2> QED
      BY <2>1 DEF vars, AnyInv, Recording, Recorded, Ending
  <1> QED
    BY <1>1, <1>2, <1>3 DEF Next

\* Every page that was mapped is on the list of all pages from the exchange in
\* page_allocator_alloc that records it on, whatever the threads interleave,
\* so page_allocator_destroy unmaps every one of them.
THEOREM DestroyUnmapsAll == Spec => []AllPagesComplete
  <1> DEFINE Inv == Types /\ AnyInv
  <1>1. Init => Inv
    BY InitTypes
  <1>2. Inv /\ [Next]_vars => Inv'
    BY StepTypes, StepAnyInv
  <1>3. Inv => AllPagesComplete
    <2> SUFFICES ASSUME Inv PROVE AllPagesComplete
      OBVIOUS
    <2>1. Recording = {u \in Threads : pc[u] = "record"}
      BY DEF Recording
    <2> QED
      BY <2>1, OnList DEF AllPagesComplete, AnyInv, Recorded
  <1> QED
    BY <1>1, <1>2, <1>3, PTL DEF Spec

----------------------------------------------------------------------------
(* The free list. *)

\* How a step changes what its thread owns: a pop and a new page add to it,
\* the exchange of a push takes from it.
LEMMA OwnedChanges ==
    ASSUME Types, FreeInv, NEW t \in Threads, Step(t)
    PROVE  /\ \A u \in Threads \ {t} : Owned(u)' = Owned(u)
           /\ AllocPop(t) => Owned(t)' = Owned(t) \cup {header[t]}
           /\ AllocMap(t) => Owned(t)' = Owned(t) \cup {mapped + 1}
           /\ FreePush(t) => Owned(t)' = Owned(t) \ {header[t]} /\ header[t] \in Owned(t)
           /\ \/ AllocPop(t) \/ AllocMap(t) \/ FreePush(t)
              \/ Owned(t)' = Owned(t)
  <1>1. ASSUME NEW u \in Threads \ {t} PROVE Owned(u)' = Owned(u)
    BY StepOf DEF Owned
  <1>2. pc[t] \in Holding => header[t] \notin held[t]
    BY DEF FreeInv
  <1>3. AllocPop(t) => Owned(t)' = Owned(t) \cup {header[t]}
    BY DEF Types, AllocPop, Goto, Owned
  <1>4. AllocMap(t) => Owned(t)' = Owned(t) \cup {mapped + 1}
    BY DEF Types, AllocMap, Goto, Owned
  <1>5. FreePush(t) => Owned(t)' = Owned(t) \ {header[t]} /\ header[t] \in Owned(t)
    BY <1>2 DEF Types, FreePush, Goto, Owned, Holding
  <1>6. CASE AllocReturn(t) \/ AllocRecord(t)
    BY <1>1, <1>3, <1>4, <1>5, <1>6 DEF Types, AllocReturn, AllocRecord, Goto, Owned
  <1>7. CASE \E p \in held[t] : FreeLoad(t, p)
    BY <1>1, <1>3, <1>4, <1>5, <1>7 DEF Types, FreeLoad, Goto, Owned
  <1>8. CASE \/ AllocLoad(t) \/ AllocReadLink(t) \/ AllocPopFail(t)
             \/ AllocMapFails(t) \/ AllocRecordFail(t) \/ FreeLink(t)
             \/ FreePushFail(t)
    BY <1>1, <1>3, <1>4, <1>5, <1>8
       DEF Types, AllocLoad, AllocReadLink, AllocPopFail, AllocMapFails,
           AllocRecordFail, FreeLink, FreePushFail, Goto, Owned
  <1> QED
    BY <1>1, <1>3, <1>4, <1>5, <1>6, <1>7, <1>8 DEF Step

\* A page that no other thread owns and that is not free.
LEMMA OwnPage ==
    ASSUME Types, FreeInv, NEW t \in Threads, pc[t] \in Holding
    PROVE  /\ header[t] \in Owned(t) /\ header[t] \in 1 .. mapped
           /\ header[t] \in Pages
           /\ header[t] \notin Free
           /\ \A u \in Threads \ {t} :
                 /\ header[t] \notin Owned(u)
                 /\ pc[u] \in Holding => header[u] # header[t]
  <1>1. \A u \in Threads : pc[u] \in Holding => header[u] \in Owned(u)
    BY DEF Owned, Holding
  <1>2. header[t] \in 1 .. mapped /\ header[t] \in Pages
    BY PagesAssumption DEF Types, Pages, Null
  <1>3. \A u \in Threads \ {t} : Owned(t) \cap Owned(u) = {}
    BY DEF FreeInv
  <1> QED
    BY <1>1, <1>2, <1>3 DEF Free

LEMMA StepFreeInv ==
    Types /\ (~aba => FreeInv) /\ [Next]_vars => (~aba' => FreeInv')
  <1> SUFFICES ASSUME Types, ~aba => FreeInv, [Next]_vars, ~aba' PROVE FreeInv'
    OBVIOUS
  <1> USE PagesAssumption
  <1>0. ~aba
    BY DEF Next, Step, Destroy, Ended, AllocLoad, AllocReadLink, AllocPop,
           AllocPopFail, AllocReturn, AllocMap, AllocMapFails, AllocRecord,
           AllocRecordFail, FreeLoad, FreeLink, FreePush, FreePushFail, vars
  <1>1. FreeInv
    BY <1>0
  <1>2. ASSUME NEW t \in Threads, Step(t) PROVE FreeInv'
    <2> DEFINE All  == UNION {Owned(u) : u \in Threads}
               Lent == UNION {Owned(u) : u \in Threads \ {t}}
    <2>1. \A u \in Threads \ {t} :
             /\ Owned(u)' = Owned(u) /\ pc'[u] = pc[u] /\ header'[u] = header[u]
             /\ held'[u] = held[u] /\ seen'[u] = seen[u]
      BY <1>1, <1>2, StepOf, OwnedChanges
    <2>2. \A u, v \in Threads : u # v => Owned(u) \cap Owned(v) = {}
      BY <1>1 DEF FreeInv
    <2>3. /\ \A u \in Threads : pc[u] \in Holding => header[u] \notin held[u]
          /\ \A u \in Threads : pc[u] = "push" => next_free[header[u]] = seen[u]
          /\ ListOf(next_free, free_list, Free)
      BY <1>1 DEF FreeInv
    <2>4. /\ mapped \in Nat /\ mapped <= MaxPages
          /\ \A u \in Threads : Owned(u) \subseteq 1 .. mapped
      BY DEF Types, Owned, Holding, Null
    <2>5. CASE AllocPop(t)
      <3>1. /\ pc[t] = "pop" /\ pc'[t] = "unlink"
            /\ free_list = header[t] /\ free_list' = seen[t]
            /\ next_free[header[t]] = seen[t]
            /\ UNCHANGED <<next_free, mapped, header, held>>
        BY <2>5 DEF AllocPop, Goto, Types
      <3>2. free_list # Null /\ free_list \in Free
        BY <2>3, <3>1, OnList DEF Types, Holding
      <3>3. Owned(t)' = Owned(t) \cup {header[t]}
        BY <1>1, <1>2, <2>5, OwnedChanges
      <3>4. \A u \in Threads : header[t] \notin Owned(u)
        BY <3>1, <3>2 DEF Free
      <3>5. Free' = Free \ {header[t]}
        BY <2>1, <3>1, <3>3 DEF Free
      <3>6. ListOf(next_free', free_list', Free')
        BY <2>3, <3>1, <3>2, <3>5, PopList
      <3>7. \A u, v \in Threads : u # v => Owned(u)' \cap Owned(v)' = {}
        BY <2>1, <2>2, <3>3, <3>4
      <3>8. header[t] \notin held[t]
        BY <3>4 DEF Owned
      <3>9. \A u \in Threads : pc'[u] \in Holding => header'[u] \notin held'[u]
        BY <2>1, <2>3, <3>1, <3>8
      <3>10. \A u \in Threads : pc'[u] = "push" => next_free'[header'[u]] = seen'[u]
        BY <2>1, <2>3, <3>1
      <3> QED
        BY <3>6, <3>7, <3>9, <3>10 DEF FreeInv
    <2>6. CASE AllocMap(t)
      <3>1. /\ pc'[t] = "record" /\ header'[t] = mapped + 1
            /\ mapped' = mapped + 1
            /\ UNCHANGED <<next_free, free_list, held>>
        BY <2>6 DEF AllocMap, Goto, Types
      <3>2. Owned(t)' = Owned(t) \cup {mapped + 1}
        BY <1>1, <1>2, <2>6, OwnedChanges
      <3>3. 1 .. mapped' = (1 .. mapped) \cup {mapped + 1} /\ mapped + 1 \notin 1 .. mapped
        BY <2>4, <3>1
      <3>4. \A u \in Threads : mapped + 1 \notin Owned(u)
        BY <2>4, <3>3
      <3>5. Free' = Free
        BY <2>1, <2>4, <3>2, <3>3 DEF Free
      <3>6. \A u, v \in Threads : u # v => Owned(u)' \cap Owned(v)' = {}
        BY <2>1, <2>2, <3>2, <3>4
      <3>7. mapped + 1 \notin held[t]
        BY <3>4 DEF Owned
      <3>8. \A u \in Threads : pc'[u] \in Holding => header'[u] \notin held'[u]
        BY <2>1, <2>3, <3>1, <3>7
      <3>9. \A u \in Threads : pc'[u] = "push" => next_free'[header'[u]] = seen'[u]
        BY <2>1, <2>3, <3>1
      <3> QED
        BY <2>3, <3>1, <3>5, <3>6, <3>8, <3>9 DEF FreeInv
    <2>7. CASE FreePush(t)
      <3>1. /\ pc[t] = "push" /\ pc'[t] = "idle"
            /\ free_list = seen[t] /\ free_list' = header[t]
            /\ UNCHANGED <<next_free, mapped, held>>
        BY <2>7 DEF FreePush, Goto, Types
      <3>2. Owned(t)' = Owned(t) \ {header[t]}
        BY <1>1, <1>2, <2>7, OwnedChanges
      <3>3. /\ header[t] \in 1 .. mapped /\ header[t] \in Pages \ Free
            /\ \A u \in Threads \ {t} : header[t] \notin Owned(u)
        BY <1>1, <3>1, OwnPage DEF Holding
      <3>4. Free' = Free \cup {header[t]}
        BY <2>1, <3>1, <3>2, <3>3 DEF Free
      <3>5. next_free[header[t]] = free_list
        BY <2>3, <3>1
      <3>6. ListOf(next_free', free_list', Free')
        BY <2>3, <3>1, <3>3, <3>4, <3>5, PushList
      <3>7. \A u, v \in Threads : u # v => Owned(u)' \cap Owned(v)' = {}
        BY <2>1, <2>2, <3>2
      <3>8. \A u \in Threads : pc'[u] \in Holding => header'[u] \notin held'[u]
        BY <2>1, <2>3, <3>1 DEF Holding
      <3>9. \A u \in Threads : pc'[u] = "push" => next_free'[header'[u]] = seen'[u]
        BY <2>1, <2>3, <3>1
      <3> QED
        BY <3>6, <3>7, <3>8, <3>9 DEF FreeInv
    <2>8. CASE ~AllocPop(t) /\ ~AllocMap(t) /\ ~FreePush(t)
      <3>1. Owned(t)' = Owned(t) /\ UNCHANGED <<mapped, free_list>>
        <4>1. Owned(t)' = Owned(t)
          BY <1>1, <1>2, <2>8, OwnedChanges
        <4>2. UNCHANGED <<mapped, free_list>>
          BY <1>2, <2>8
             DEF Step, AllocLoad, AllocReadLink, AllocPopFail, AllocReturn,
                 AllocMapFails, AllocRecord, AllocRecordFail, FreeLoad,
                 FreeLink, FreePushFail
        <4> QED
          BY <4>1, <4>2
      <3>2. Free' = Free
        BY <2>1, <3>1 DEF Free
      <3>3. \A u, v \in Threads : u # v => Owned(u)' \cap Owned(v)' = {}
        BY <2>1, <2>2, <3>1
      <3>4. pc'[t] \in Holding => header'[t] \notin held'[t]
        BY <1>2, <2>3, <2>8
           DEF Types, Step, AllocLoad, AllocReadLink, AllocPopFail,
               AllocReturn, AllocMapFails, AllocRecord, AllocRecordFail,
               FreeLoad, FreeLink, FreePushFail, Goto, Holding
      <3>5. \A u \in Threads : pc'[u] \in Holding => header'[u] \notin held'[u]
        BY <2>1, <2>3, <3>4
      <3>6. CASE AllocReturn(t) \/ FreeLink(t)
        <4>1. /\ pc[t] \in Holding
              /\ \A x \in Pages \ {header[t]} : next_free'[x] = next_free[x]
          BY <3>6 DEF AllocReturn, FreeLink, Types, Holding
        <4>2. /\ header[t] \notin Free /\ header[t] \in Pages
              /\ \A u \in Threads \ {t} : pc[u] \in Holding => header[u] # header[t]
          BY <1>1, <4>1, OwnPage
        <4>3. \A x \in Free : next_free'[x] = next_free[x]
          BY <2>3, <4>1, <4>2, OnList
        <4>4. ListOf(next_free', free_list', Free')
          BY <2>3, <3>1, <3>2, <4>3, KeepList
        <4>5. \A u \in Threads \ {t} : pc[u] = "push" => header[u] \in Pages
          BY <1>1, OwnPage DEF Holding
        <4>6. pc'[t] = "push" => next_free'[header'[t]] = seen'[t]
          BY <3>6, <4>2 DEF AllocReturn, FreeLink, Goto, Types
        <4>7. \A u \in Threads : pc'[u] = "push" => next_free'[header'[u]] = seen'[u]
          BY <2>1, <2>3, <4>1, <4>2, <4>5, <4>6 DEF Holding
        <4> QED
          BY <3>3, <3>5, <4>4, <4>7 DEF FreeInv
      <3>7. CASE ~AllocReturn(t) /\ ~FreeLink(t)
        <4>1. /\ UNCHANGED next_free
              /\ pc'[t] # "push"
          BY <1>2, <2>8, <3>7
             DEF Types, Step, AllocLoad, AllocReadLink, AllocPopFail,
                 AllocMapFails, AllocRecord, AllocRecordFail, FreeLoad,
                 FreePushFail, Goto
        <4>2. \A u \in Threads : pc'[u] = "push" => next_free'[header'[u]] = seen'[u]
          BY <2>1, <2>3, <4>1
        <4> QED
          BY <2>3, <3>1, <3>2, <3>3, <3>5, <4>1, <4>2 DEF FreeInv
      <3> QED
        BY <3>6, <3>7
    <2> QED
      BY <2>5, <2>6, <2>7, <2>8
  <1>3. CASE Destroy
    <2>1. /\ \A t \in Threads : pc[t] = "idle"
          /\ \A t \in Threads : pc'[t] = "ended"
          /\ UNCHANGED <<free_list, next_free, mapped, header, seen, held>>
      BY <1>3 DEF Destroy
    <2>2. \A t \in Threads : Owned(t)' = Owned(t)
      BY <2>1 DEF Owned
    <2>3. Free' = Free
      BY <2>1, <2>2 DEF Free
    <2> QED
      BY <1>1, <2>1, <2>2, <2>3 DEF FreeInv, Holding
  <1>4. CASE Ended \/ UNCHANGED vars
    <2>1. UNCHANGED vars
      BY <1>4 DEF Ended
    <2>2. \A t \in Threads : Owned(t)' = Owned(t)
      BY <2>1 DEF vars, Owned
    <2>3. Free' = Free
      BY <2>1, <2>2 DEF Free, vars
    <2> QED
      BY <1>1, <2>1, <2>2, <2>3 DEF FreeInv, vars
  <1> QED
    BY <1>2, <1>3, <1>4 DEF Next

\* What FreeInv says of the pages.
LEMMA PagesPlaced ==
    ASSUME FreeInv
    PROVE  /\ PagesExclusive
           /\ 1 .. mapped \subseteq
                 Reached(next_free, free_list) \cup UNION {Owned(t) : t \in Threads}
  <1>1. Reached(next_free, free_list) = Free
    BY OnList DEF FreeInv
  <1>2. \A t \in Threads : Owned(t) \cap Free = {}
    BY DEF Free
  <1> QED
    BY <1>1, <1>2 DEF FreeInv, PagesExclusive, Free

\* As long as no exchange of page_allocator_alloc succeeds on a link that was
\* changed since it was read, no page is owned by two threads and none that is
\* owned is free: failed and retried exchanges alone do no harm.
THEOREM ExclusiveBeforeStale == Spec => []ExclusiveUnlessStale
  <1> DEFINE Inv == Types /\ (~aba => FreeInv)
  <1>1. Init => Inv
    BY InitTypes
  <1>2. Inv /\ [Next]_vars => Inv'
    BY StepTypes, StepFreeInv
  <1>3. Inv => ExclusiveUnlessStale
    BY PagesPlaced DEF ExclusiveUnlessStale
  <1> QED
    BY <1>1, <1>2, <1>3, PTL DEF Spec

\* Nor is a page lost: each mapped one is free or owned.
THEOREM NoneLostBeforeStale == Spec => []NoPageLost
  <1> DEFINE Inv == Types /\ (~aba => FreeInv)
  <1>1. Init => Inv
    BY InitTypes
  <1>2. Inv /\ [Next]_vars => Inv'
    BY StepTypes, StepFreeInv
  <1>3. Inv => NoPageLost
    BY PagesPlaced DEF NoPageLost
  <1> QED
    BY <1>1, <1>2, <1>3, PTL DEF Spec

=============================================================================
