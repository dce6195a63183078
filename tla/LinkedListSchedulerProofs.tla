---------------------- MODULE LinkedListSchedulerProofs ----------------------
(***************************************************************************)
(* What holds of the list of sched_linked_list.c for any workers and       *)
(* requests: main keeps it sorted and loses no job when it puts one in.    *)
(*                                                                         *)
(* The list is a sequence of jobs, each linked to the next.  The invariant *)
(* says which sequence it is while main walks it, cuts its front off and   *)
(* puts a job in; the workers only read the links.                         *)
(***************************************************************************)
EXTENDS LinkedListScheduler, FiniteSetTheorems, WellFoundedInduction, TLAPS

----------------------------------------------------------------------------
(* Linked lists. *)

Elements(q) == {q[i] : i \in 1 .. Len(q)}

\* The links lead from job p through the sequence q and end after it.
IsList(link, p, q) ==
    /\ q \in Seq(Clients)
    /\ \A i, j \in 1 .. Len(q) : q[i] = q[j] => i = j
    /\ p = IF q = <<>> THEN NoClient ELSE q[1]
    /\ \A i \in 1 .. Len(q) : link[q[i]] = IF i = Len(q) THEN NoClient ELSE q[i + 1]

\* The least of some numbers.
LEMMA Least ==
    ASSUME NEW S \in SUBSET Nat, S # {}
    PROVE  \E m \in S : \A k \in S : m <= k
  <1> DEFINE R == OpToRel(<, Nat)
  <1>1. IsWellFoundedOn(R, Nat) /\ \A x, y \in Nat : y < x => <<y, x>> \in R
    BY NatLessThanWellFounded DEF OpToRel
  <1> HIDE DEF R
  <1>2. PICK m \in S : \A k \in S : ~(<<k, m>> \in R)
    BY <1>1, WFMin
  <1>3. \A k \in S : m <= k
    <2> TAKE k \in S
    <2>1. m \in Nat /\ k \in Nat /\ ~(k < m)
      BY <1>1, <1>2
    <2> QED
      BY <2>1
  <1> QED
    BY <1>3

\* A list is no longer than there are clients.
LEMMA ListLength ==
    ASSUME NEW link, NEW p, NEW q, IsList(link, p, q)
    PROVE  Len(q) \in Nat /\ Cardinality(Clients) \in Nat /\ Len(q) <= Cardinality(Clients)
  <1>1. Len(q) \in Nat /\ q \in Injection(1 .. Len(q), Clients)
    BY DEF IsList, Injection, IsInjective
  <1>2. Cardinality(1 .. Len(q)) <= Cardinality(Clients)
    BY <1>1, ClientsAssumption, FS_Injection
  <1>3. Cardinality(1 .. Len(q)) = Len(q)
    <2>1. Cardinality(1 .. Len(q)) = IF 1 > Len(q) THEN 0 ELSE Len(q) - 1 + 1
      BY <1>1, FS_Interval
    <2> QED
      BY <1>1, <2>1
  <1>4. Cardinality(Clients) \in Nat
    BY ClientsAssumption, FS_CardinalityType
  <1> QED
    BY <1>1, <1>2, <1>3, <1>4

\* What ListFrom computes is that sequence.
LEMMA ListFromIs ==
    ASSUME NEW p, NEW q, IsList(next, p, q)
    PROVE  /\ DOMAIN ListFrom(p) = 1 .. Len(q)
           /\ \A i \in 1 .. Len(q) : ListFrom(p)[i] = q[i]
           /\ Listed(p) = Elements(q)
  <1> DEFINE N == Cardinality(Clients) + 1
             n == Len(q)
             Eq(f) == f = [i \in 1 .. N |->
                             IF i = 1 THEN p
                             ELSE IF f[i - 1] = NoClient THEN NoClient
                                  ELSE next[f[i - 1]]]
             chosen == CHOOSE f : Eq(f)
             f0 == [i \in 1 .. N |-> IF i <= n THEN q[i] ELSE NoClient]
             last(f) == Cardinality({i \in DOMAIN f : f[i] # NoClient})
  <1>1. n \in Nat /\ N \in Nat /\ n < N
    BY ListLength
  <1>2. ListFrom(p) = [i \in 1 .. last(chosen) |-> chosen[i]]
    BY DEF ListFrom
  <1>3. /\ \A i \in 1 .. n : q[i] \in Clients /\ q[i] # NoClient
        /\ p = IF n = 0 THEN NoClient ELSE q[1]
        /\ \A i \in 1 .. n : next[q[i]] = IF i = n THEN NoClient ELSE q[i + 1]
    BY RequestAssumption DEF IsList
  <1> HIDE DEF n, N
  <1>4. Eq(f0)
    <2>1. \A i \in 1 .. N : f0[i] = IF i <= n THEN q[i] ELSE NoClient
      OBVIOUS
    <2>2. DOMAIN f0 = 1 .. N /\ f0 = [i \in 1 .. N |-> f0[i]]
      OBVIOUS
    <2> HIDE DEF f0
    <2>3. ASSUME NEW i \in 1 .. N
          PROVE  f0[i] = IF i = 1 THEN p
                         ELSE IF f0[i - 1] = NoClient THEN NoClient
                              ELSE next[f0[i - 1]]
      <3>1. CASE i = 1
        BY <1>1, <1>3, <2>1, <3>1
      <3>2. CASE i # 1 /\ i - 1 <= n
        <4>1. i - 1 \in 1 .. N /\ i - 1 \in 1 .. n /\ i - 1 + 1 = i
          BY <1>1, <3>2
        <4>2. f0[i - 1] = q[i - 1] /\ q[i - 1] # NoClient
          BY <1>3, <2>1, <4>1, <3>2
        <4>3. next[q[i - 1]] = IF i - 1 = n THEN NoClient ELSE q[i]
          BY <1>3, <4>1
        <4>4. f0[i] = IF i - 1 = n THEN NoClient ELSE q[i]
          BY <1>1, <2>1, <3>2
        <4> QED
          BY <3>2, <4>2, <4>3, <4>4
      <3>3. CASE i # 1 /\ ~(i - 1 <= n)
        <4>1. i - 1 \in 1 .. N /\ ~(i <= n)
          BY <1>1, <3>3
        <4> QED
          BY <2>1, <3>3, <4>1
      <3> QED
        BY <3>1, <3>2, <3>3
    <2> QED
      BY <2>2, <2>3
  <1>5. Eq(chosen)
    BY <1>4
  <1>6. ASSUME NEW f, Eq(f) PROVE DOMAIN f = 1 .. N /\ \A i \in 1 .. N : f[i] = f0[i]
    <2> HIDE DEF f0
    <2>1. DOMAIN f = 1 .. N /\
          \A i \in 1 .. N : f[i] = IF i = 1 THEN p
                                   ELSE IF f[i - 1] = NoClient THEN NoClient
                                        ELSE next[f[i - 1]]
      BY <1>6
    <2>2. \A i \in 1 .. N : f0[i] = IF i = 1 THEN p
                                    ELSE IF f0[i - 1] = NoClient THEN NoClient
                                         ELSE next[f0[i - 1]]
      BY <1>4
    <2> HIDE DEF Eq
    <2> DEFINE S == {i \in 1 .. N : f[i] # f0[i]}
    <2> SUFFICES ASSUME S # {} PROVE FALSE
      BY <2>1
    <2>3. S \in SUBSET Nat
      BY <1>1
    <2>4. PICK m \in S : \A k \in S : m <= k
      BY <2>3, Least
    <2>5. m \in 1 .. N /\ m # 1
      BY <2>1, <2>2
    <2>6. m - 1 \in 1 .. N /\ ~(m <= m - 1)
      BY <1>1, <2>5
    <2>7. f[m - 1] = f0[m - 1]
      BY <2>4, <2>6
    <2> QED
      BY <2>1, <2>2, <2>5, <2>7
  <1>7. DOMAIN chosen = 1 .. N /\ \A i \in 1 .. N : chosen[i] = f0[i]
    BY <1>5, <1>6
  <1> HIDE DEF chosen, Eq
  <1>8. {i \in DOMAIN chosen : chosen[i] # NoClient} = 1 .. n
    <2>1. \A i \in 1 .. N : chosen[i] = IF i <= n THEN q[i] ELSE NoClient
      BY <1>7
    <2>2. \A i \in 1 .. n : i \in 1 .. N
      BY <1>1
    <2>3. \A i \in 1 .. N : i <= n => i \in 1 .. n
      BY <1>1
    <2>4. \A i \in 1 .. n : i <= n
      BY <1>1
    <2>5. \A i \in 1 .. N : chosen[i] # NoClient <=> i \in 1 .. n
      BY <1>3, <2>1, <2>2, <2>3, <2>4
    <2>6. DOMAIN chosen = 1 .. N
      BY <1>7
    <2> QED
      BY <2>2, <2>5, <2>6
  <1>9. last(chosen) = n
    <2>1. Cardinality(1 .. n) = IF 1 > n THEN 0 ELSE n - 1 + 1
      BY <1>1, FS_Interval
    <2>2. last(chosen) = Cardinality(1 .. n)
      BY <1>8, Zenon
    <2> QED
      BY <1>1, <2>1, <2>2
  <1>10. ListFrom(p) = [i \in 1 .. n |-> chosen[i]]
    BY <1>2, <1>9
  <1>11. \A i \in 1 .. n : chosen[i] = q[i]
    BY <1>1, <1>7
  <1>12. DOMAIN ListFrom(p) = 1 .. n /\ \A i \in 1 .. n : ListFrom(p)[i] = q[i]
    BY <1>10, <1>11
  <1>13. Listed(p) = {q[i] : i \in 1 .. n}
    BY <1>12 DEF Listed
  <1> QED
    BY <1>12, <1>13 DEF Elements, n

----------------------------------------------------------------------------
(* The invariant: what main is doing with the list. *)

\* A job of the list, or the end of it.
Place(q, j) == IF j > Len(q) THEN NoClient ELSE q[j]

\* Jobs come in the order of their priorities.
Sorted(q) ==
    \A i, k \in 1 .. Len(q) :
        i < k => Request[q[i]].priority <= Request[q[k]].priority

\* Main has a job that is not on the list yet.
Inserting(c) == mpc \in {"skip", "link"} /\ cur = c

Holds(q) ==
    /\ IsList(next, current_job, q)
    /\ Sorted(q)
    /\ mpc = "skip" => \E j \in 1 .. Len(q) + 1 : walk = Place(q, j)
    /\ mpc = "link" => walk = current_job
    /\ mpc \in {"skip", "link"} => cur \in Clients /\ recipient[cur] # "none"
    /\ \A c \in Elements(q) : recipient[c] # "none" /\ ~Inserting(c)
    /\ \A c \in Clients :
          recipient[c] = "live" => c \in lost \cup Elements(q) \/ Inserting(c)

Domains == DOMAIN next = Clients /\ DOMAIN recipient = Clients

Inv == Domains /\ \E q \in Seq(Clients) : Holds(q)

\* What is on a list are clients, and it has a first one or is empty.
LEMMA OnList ==
    ASSUME NEW link, NEW p, NEW q, IsList(link, p, q)
    PROVE  /\ q \in Seq(Clients) /\ Len(q) \in Nat
           /\ Elements(q) \subseteq Clients
           /\ \A i \in 1 .. Len(q) : q[i] \in Elements(q) /\ q[i] \in Clients
           /\ p = IF Len(q) = 0 THEN NoClient ELSE q[1]
  BY DEF IsList, Elements

\* Only the links of its jobs matter to a list.
LEMMA KeepList ==
    ASSUME NEW link, NEW p, NEW q, IsList(link, p, q),
           NEW after, \A x \in Elements(q) : after[x] = link[x]
    PROVE  IsList(after, p, q)
  <1>1. \A i \in 1 .. Len(q) : after[q[i]] = link[q[i]]
    BY DEF Elements
  <1> QED
    BY <1>1 DEF IsList

\* From a job on it is a list as well, without what was before.
LEMMA RestOfList ==
    ASSUME NEW link, NEW p, NEW q, IsList(link, p, q), Sorted(q),
           NEW j \in 1 .. Len(q) + 1
    PROVE  \E r : /\ IsList(link, Place(q, j), r) /\ Sorted(r)
                  /\ Elements(r) \subseteq Elements(q)
                  /\ \A i \in 1 .. Len(r) : r[i] = q[i + j - 1]
                  /\ Len(r) = Len(q) + 1 - j
  <1> DEFINE n == Len(q)
             m == n + 1 - j
             r == [i \in 1 .. m |-> q[i + j - 1]]
  <1>1. /\ q \in Seq(Clients) /\ n \in Nat /\ q \in [1 .. n -> Clients]
        /\ \A i, k \in 1 .. n : q[i] = q[k] => i = k
        /\ \A i \in 1 .. n : link[q[i]] = IF i = n THEN NoClient ELSE q[i + 1]
    BY DEF IsList
  <1> HIDE DEF n
  <1>2. m \in Nat /\ j \in Nat /\ j <= n + 1 /\ 1 <= j /\ m = n + 1 - j
    <2>1. j \in 1 .. n + 1
      BY DEF n
    <2> QED
      BY <1>1, <2>1
  <1> HIDE DEF m
  <1>3. \A i \in 1 .. m : i + j - 1 \in 1 .. n
    BY <1>1, <1>2
  <1>4. r \in [1 .. m -> Clients] /\ \A i \in 1 .. m : r[i] = q[i + j - 1]
    BY <1>1, <1>3
  <1> HIDE DEF r
  <1>5. r \in Seq(Clients) /\ Len(r) = m
    BY <1>2, <1>4
  <1>6. r = <<>> <=> m = 0
    BY <1>2, <1>5
  <1>7. \A i, k \in 1 .. m : r[i] = r[k] => i = k
    <2> SUFFICES ASSUME NEW i \in 1 .. m, NEW k \in 1 .. m, r[i] = r[k]
                 PROVE  i = k
      OBVIOUS
    <2>1. i + j - 1 = k + j - 1
      BY <1>1, <1>3, <1>4
    <2> QED
      BY <1>2, <2>1
  <1>8. Place(q, j) = IF r = <<>> THEN NoClient ELSE r[1]
    <2>1. m = 0 <=> j > n
      BY <1>1, <1>2
    <2>2. m # 0 => 1 \in 1 .. m /\ 1 + j - 1 = j
      BY <1>2
    <2> QED
      BY <1>4, <1>6, <2>1, <2>2 DEF Place, n
  <1>9. ASSUME NEW i \in 1 .. m
        PROVE  link[r[i]] = IF i = m THEN NoClient ELSE r[i + 1]
    <2>1. link[r[i]] = IF i + j - 1 = n THEN NoClient ELSE q[i + j - 1 + 1]
      BY <1>1, <1>3, <1>4
    <2>2. /\ i + j - 1 = n <=> i = m
          /\ i # m => i + 1 \in 1 .. m
          /\ i + j - 1 + 1 = i + 1 + j - 1
      BY <1>1, <1>2
    <2> QED
      BY <1>4, <2>1, <2>2
  <1>10. IsList(link, Place(q, j), r)
    BY <1>5, <1>7, <1>8, <1>9 DEF IsList
  <1>11. Elements(r) \subseteq Elements(q)
    BY <1>3, <1>4, <1>5 DEF Elements, n
  <1>12. Sorted(r)
    <2> SUFFICES ASSUME NEW i \in 1 .. m, NEW k \in 1 .. m, i < k
                 PROVE  Request[r[i]].priority <= Request[r[k]].priority
      BY <1>5 DEF Sorted
    <2>1. i + j - 1 < k + j - 1
      BY <1>2
    <2>2. Request[q[i + j - 1]].priority <= Request[q[k + j - 1]].priority
      BY <1>3, <2>1 DEF Sorted, n
    <2> QED
      BY <1>4, <2>2
  <1> QED
    BY <1>4, <1>5, <1>10, <1>11, <1>12 DEF m, n

\* A job that is put in behind the first m ones, which is no longer in its place.
LEMMA InsertInList ==
    ASSUME NEW link, NEW p, NEW q, IsList(link, p, q), Sorted(q),
           NEW x \in Clients \ Elements(q), NEW m \in 0 .. Len(q),
           \A k \in 1 .. m : Request[q[k]].priority <= Request[x].priority,
           m < Len(q) => Request[x].priority < Request[q[m + 1]].priority,
           NEW after,
           after[x] = IF m = 0 THEN p ELSE link[q[m]],
           m # 0 => after[q[m]] = x,
           \A y \in Elements(q) : (m # 0 /\ y = q[m]) \/ after[y] = link[y]
    PROVE  \E r : /\ IsList(after, IF m = 0 THEN x ELSE p, r) /\ Sorted(r)
                  /\ Elements(r) = Elements(q) \cup {x}
  <1> DEFINE n == Len(q)
             r == [i \in 1 .. n + 1 |-> IF i <= m THEN q[i]
                                        ELSE IF i = m + 1 THEN x ELSE q[i - 1]]
  <1>1. /\ q \in Seq(Clients) /\ n \in Nat /\ q \in [1 .. n -> Clients]
        /\ \A i, k \in 1 .. n : q[i] = q[k] => i = k
        /\ \A i \in 1 .. n : link[q[i]] = IF i = n THEN NoClient ELSE q[i + 1]
        /\ p = IF n = 0 THEN NoClient ELSE q[1]
    BY DEF IsList
  <1>2. \A i \in 1 .. n : q[i] # x /\ q[i] \in Elements(q)
    BY DEF Elements
  <1>3. m \in Nat /\ m <= n
    BY <1>1
  <1>4. Elements(q) = {q[i] : i \in 1 .. n}
    BY DEF Elements
  <1> HIDE DEF n
  <1>5. \A i \in 1 .. n + 1 :
           r[i] = IF i <= m THEN q[i] ELSE IF i = m + 1 THEN x ELSE q[i - 1]
    OBVIOUS
  <1>6. r \in [1 .. n + 1 -> Clients]
    <2> SUFFICES ASSUME NEW i \in 1 .. n + 1
                 PROVE  (IF i <= m THEN q[i]
                         ELSE IF i = m + 1 THEN x ELSE q[i - 1]) \in Clients
      OBVIOUS
    <2>1. /\ i <= m => i \in 1 .. n
          /\ ~(i <= m) /\ i # m + 1 => i - 1 \in 1 .. n
      BY <1>1, <1>3
    <2> QED
      BY <1>1, <2>1
  <1> HIDE DEF r
  <1>7. r \in Seq(Clients) /\ Len(r) = n + 1 /\ r # <<>>
    BY <1>1, <1>6
  \* The places of the jobs that were there, and that of the new one.
  <1> DEFINE Old(i) == IF i <= m THEN i ELSE i - 1
  <1>8. /\ m + 1 \in 1 .. n + 1 /\ r[m + 1] = x
        /\ \A i \in 1 .. n + 1 : i # m + 1 => Old(i) \in 1 .. n /\ r[i] = q[Old(i)]
        /\ \A i, k \in 1 .. n + 1 :
              i # m + 1 /\ k # m + 1 => /\ Old(i) = Old(k) => i = k
                                        /\ i < k => Old(i) < Old(k)
    <2>1. m + 1 \in 1 .. n + 1 /\ ~(m + 1 <= m)
      BY <1>1, <1>3
    <2>2. \A i \in 1 .. n + 1 : i # m + 1 => Old(i) \in 1 .. n /\ r[i] = q[Old(i)]
      BY <1>1, <1>3, <1>5
    <2>3. \A i, k \in 1 .. n + 1 :
              i # m + 1 /\ k # m + 1 => /\ Old(i) = Old(k) => i = k
                                        /\ i < k => Old(i) < Old(k)
      BY <1>1, <1>3
    <2> QED
      BY <1>5, <2>1, <2>2, <2>3
  <1>9. \A i, k \in 1 .. n + 1 : r[i] = r[k] => i = k
    BY <1>1, <1>2, <1>8
  <1>10. (IF m = 0 THEN x ELSE p) = IF r = <<>> THEN NoClient ELSE r[1]
    <2>1. CASE m = 0
      BY <1>7, <1>8, <2>1
    <2>2. CASE m # 0
      <3>1. 1 \in 1 .. n + 1 /\ 1 <= m /\ n # 0
        BY <1>1, <1>3, <2>2
      <3> QED
        BY <1>1, <1>5, <1>7, <2>2, <3>1
    <2> QED
      BY <2>1, <2>2
  <1>11. ASSUME NEW i \in 1 .. n + 1
         PROVE  after[r[i]] = IF i = n + 1 THEN NoClient ELSE r[i + 1]
    <2>1. CASE i = m + 1
      <3>1. after[r[i]] = IF m = 0 THEN p ELSE link[q[m]]
        BY <1>8, <2>1
      <3>2. after[r[i]] = IF m = n THEN NoClient ELSE q[m + 1]
        <4>1. CASE m = 0
          BY <1>1, <3>1, <4>1
        <4>2. CASE m # 0
          <5>1. m \in 1 .. n
            BY <1>1, <1>3, <4>2
          <5> QED
            BY <1>1, <3>1, <4>2, <5>1
        <4> QED
          BY <4>1, <4>2
      <3>3. CASE m # n
        <4>1. m + 2 \in 1 .. n + 1 /\ ~(m + 2 <= m) /\ m + 2 # m + 1 /\ m + 2 - 1 = m + 1
          BY <1>1, <1>3, <3>3
        <4>2. r[m + 2] = q[m + 1]
          BY <1>5, <4>1
        <4>3. i # n + 1 /\ i + 1 = m + 2
          BY <1>1, <1>3, <2>1, <3>3
        <4> QED
          BY <3>2, <3>3, <4>2, <4>3
      <3>4. CASE m = n
        BY <2>1, <3>2, <3>4
      <3> QED
        BY <3>3, <3>4
    <2>2. CASE i = m /\ i # m + 1
      <3>1. r[i] = q[m] /\ m # 0 /\ i + 1 = m + 1 /\ i # n + 1
        BY <1>1, <1>3, <1>5, <2>2
      <3> QED
        BY <1>8, <3>1
    <2>3. CASE i < m
      <3>1. /\ i \in 1 .. n /\ i + 1 \in 1 .. n + 1 /\ i <= m /\ i + 1 <= m
            /\ i # n /\ i # n + 1 /\ m \in 1 .. n /\ i # m
        BY <1>1, <1>3, <2>3
      <3>2. r[i] = q[i] /\ r[i + 1] = q[i + 1]
        BY <1>5, <3>1
      <3>3. q[i] # q[m]
        BY <1>1, <3>1
      <3>4. after[q[i]] = link[q[i]]
        BY <1>2, <3>1, <3>3
      <3> QED
        BY <1>1, <3>1, <3>2, <3>4
    <2>4. CASE i > m + 1
      <3>1. /\ i - 1 \in 1 .. n /\ ~(i <= m) /\ i # m + 1 /\ ~(i + 1 <= m)
            /\ i + 1 # m + 1 /\ i + 1 - 1 = i /\ i - 1 + 1 = i /\ i - 1 # m
            /\ i # n + 1 => i + 1 \in 1 .. n + 1
            /\ i - 1 = n <=> i = n + 1
        BY <1>1, <1>3, <2>4
      <3>2. r[i] = q[i - 1] /\ (i # n + 1 => r[i + 1] = q[i])
        BY <1>5, <3>1
      <3>3. m # 0 => q[i - 1] # q[m]
        <4>1. m # 0 => m \in 1 .. n
          BY <1>1, <1>3
        <4> QED
          BY <1>1, <3>1, <4>1
      <3>4. after[q[i - 1]] = link[q[i - 1]]
        BY <1>2, <3>1, <3>3
      <3> QED
        BY <1>1, <3>1, <3>2, <3>4
    <2> QED
      BY <1>1, <1>3, <2>1, <2>2, <2>3, <2>4
  <1>12. IsList(after, IF m = 0 THEN x ELSE p, r)
    BY <1>7, <1>9, <1>10, <1>11 DEF IsList
  <1>13. Elements(r) = Elements(q) \cup {x}
    <2>1. Elements(r) = {r[i] : i \in 1 .. n + 1}
      BY <1>7 DEF Elements
    <2>2. \A y \in Elements(r) : y \in Elements(q) \cup {x}
      BY <1>4, <1>8, <2>1
    <2>3. \A i \in 1 .. n : \E k \in 1 .. n + 1 : r[k] = q[i]
      <3> SUFFICES ASSUME NEW i \in 1 .. n PROVE \E k \in 1 .. n + 1 : r[k] = q[i]
        OBVIOUS
      <3>1. CASE i <= m
        <4>1. i \in 1 .. n + 1
          BY <1>1
        <4> QED
          BY <1>5, <3>1, <4>1
      <3>2. CASE ~(i <= m)
        <4>1. i + 1 \in 1 .. n + 1 /\ ~(i + 1 <= m) /\ i + 1 # m + 1 /\ i + 1 - 1 = i
          BY <1>1, <1>3, <3>2
        <4>2. r[i + 1] = q[i]
          BY <1>5, <4>1
        <4> QED
          BY <4>1, <4>2
      <3> QED
        BY <3>1, <3>2
    <2>4. \A y \in Elements(q) : y \in Elements(r)
      BY <1>4, <2>1, <2>3
    <2>5. x \in Elements(r)
      BY <1>8, <2>1
    <2> QED
      BY <2>2, <2>4, <2>5
  <1>14. Sorted(r)
    <2> SUFFICES ASSUME NEW i \in 1 .. n + 1, NEW k \in 1 .. n + 1, i < k
                 PROVE  Request[r[i]].priority <= Request[r[k]].priority
      BY <1>7 DEF Sorted
    <2>1. \A a, b \in 1 .. n : a < b => Request[q[a]].priority <= Request[q[b]].priority
      BY DEF Sorted, n
    <2>2. /\ Request[x].priority \in Nat
          /\ \A a \in 1 .. n : Request[q[a]].priority \in Nat
      BY <1>1, RequestAssumption DEF Requests
    <2>3. CASE i # m + 1 /\ k # m + 1
      BY <1>8, <2>1, <2>3
    <2>4. CASE k = m + 1
      <3>1. i \in 1 .. m /\ i <= m /\ r[i] = q[i]
        BY <1>3, <1>5, <2>4
      <3> QED
        BY <1>8, <2>4, <3>1
    <2>5. CASE i = m + 1
      <3>1. k - 1 \in 1 .. n /\ r[k] = q[k - 1] /\ m < n /\ m + 1 \in 1 .. n
        BY <1>1, <1>3, <1>5, <2>5
      <3>2. Request[x].priority < Request[q[m + 1]].priority
        BY <3>1 DEF n
      <3>3. k - 1 = m + 1 \/ m + 1 < k - 1
        BY <1>3, <2>5, <3>1
      <3>4. Request[q[m + 1]].priority <= Request[q[k - 1]].priority
        BY <2>1, <2>2, <3>1, <3>3
      <3> QED
        BY <1>8, <2>2, <2>5, <3>1, <3>2, <3>4
    <2> QED
      BY <2>3, <2>4, <2>5
  <1> QED
    BY <1>12, <1>13, <1>14


\* The loop that looks for the place of a new job stops at the first job with a
\* larger priority, or at the end.
LEMMA BeforeIs ==
    ASSUME NEW q, IsList(next, walk, q), NEW c \in Clients
    PROVE  \E m \in 0 .. Len(q) :
              /\ Cardinality(Before(c)) = m
              /\ \A k \in 1 .. m : Request[q[k]].priority <= Request[c].priority
              /\ m < Len(q) => Request[c].priority < Request[q[m + 1]].priority
  <1> DEFINE n == Len(q)
             Passed(k) == Request[q[k]].priority <= Request[c].priority
             S == {k \in 1 .. n : ~Passed(k)}
  <1>1. /\ n \in Nat
        /\ DOMAIN ListFrom(walk) = 1 .. n
        /\ \A k \in 1 .. n : ListFrom(walk)[k] = q[k]
    BY ListFromIs, OnList
  <1>2. \A k \in 1 .. n : ~Passed(k) => Request[c].priority < Request[q[k]].priority
    <2>1. \A k \in 1 .. n : Request[q[k]].priority \in Nat
      BY RequestAssumption, OnList DEF Requests
    <2>2. Request[c].priority \in Nat
      BY RequestAssumption DEF Requests
    <2> QED
      BY <2>1, <2>2
  <1>3. \A i \in 1 .. n : \A k \in 1 .. i : k \in 1 .. n
    BY <1>1
  <1> HIDE DEF n
  <1>4. Before(c) = {i \in 1 .. n : \A k \in 1 .. i : Passed(k)}
    <2>1. Before(c) = {i \in 1 .. n : \A k \in 1 .. i :
                          Request[ListFrom(walk)[k]].priority <= Request[c].priority}
      BY <1>1 DEF Before
    <2>2. \A i \in 1 .. n : (\A k \in 1 .. i : Passed(k)) <=>
             \A k \in 1 .. i :
                Request[ListFrom(walk)[k]].priority <= Request[c].priority
      BY <1>1, <1>3
    <2> QED
      BY <2>1, <2>2
  <1> HIDE DEF Passed
  <1>5. \E m \in 0 .. n : /\ \A k \in 1 .. m : Passed(k)
                          /\ m < n => m + 1 \in 1 .. n /\ ~Passed(m + 1)
    <2>1. CASE S = {}
      BY <1>1, <2>1
    <2>2. CASE S # {}
      <3>1. S \in SUBSET Nat
        BY <1>1
      <3>2. PICK j \in S : \A k \in S : j <= k
        BY <2>2, <3>1, Least
      <3>3. j \in 1 .. n /\ ~Passed(j) /\ j - 1 \in 0 .. n /\ j - 1 + 1 = j
        BY <1>1, <3>2
      <3>4. \A k \in 1 .. j - 1 : k \in 1 .. n /\ ~(j <= k)
        BY <1>1, <3>3
      <3>5. \A k \in 1 .. j - 1 : Passed(k)
        BY <3>2, <3>4
      <3> QED
        BY <3>3, <3>5
    <2> QED
      BY <2>1, <2>2
  <1>6. PICK m \in 0 .. n : /\ \A k \in 1 .. m : Passed(k)
                            /\ m < n => m + 1 \in 1 .. n /\ ~Passed(m + 1)
    BY <1>5
  <1>7. Before(c) = 1 .. m
    <2>1. \A i \in 1 .. m : i \in 1 .. n /\ \A k \in 1 .. i : k \in 1 .. m
      BY <1>1
    <2>2. \A i \in 1 .. m : i \in Before(c)
      BY <1>4, <1>6, <2>1
    <2>3. \A i \in 1 .. n : i \notin 1 .. m => m < n /\ m + 1 \in 1 .. i
      BY <1>1
    <2>4. \A i \in Before(c) : i \in 1 .. m
      BY <1>4, <1>6, <2>3
    <2> QED
      BY <2>2, <2>4
  <1>8. Cardinality(Before(c)) = m
    <2>1. Cardinality(1 .. m) = IF 1 > m THEN 0 ELSE m - 1 + 1
      BY <1>1, FS_Interval
    <2> QED
      BY <1>1, <1>7, <2>1
  <1> QED
    BY <1>2, <1>6, <1>8 DEF n, Passed


----------------------------------------------------------------------------
(* The steps. *)

listPlace == <<current_job, next, mpc, cur, walk, lost>>

LEMMA InitInv == Init => Inv
  <1> SUFFICES ASSUME Init PROVE Inv
    OBVIOUS
  <1>1. Domains
    BY DEF Init, BaseInit, Domains
  <1>2. <<>> \in Seq(Clients) /\ Len(<<>>) = 0
    OBVIOUS
  <1>3. IsList(next, current_job, <<>>) /\ Sorted(<<>>) /\ Elements(<<>>) = {}
    BY <1>2 DEF Init, IsList, Sorted, Elements
  <1>4. Holds(<<>>)
    BY <1>3 DEF Init, BaseInit, Holds, Inserting
  <1> QED
    BY <1>1, <1>2, <1>4 DEF Inv

\* A list that nobody has changed is still there.
LEMMA SameList ==
    ASSUME NEW q, Holds(q), UNCHANGED <<current_job, next>>
    PROVE  IsList(next, current_job, q)' /\ Sorted(q)' /\ Elements(q)' = Elements(q)
  BY DEF Holds, IsList, Sorted, Elements

\* Steps of the workers, except that of telling the recipient.
LEMMA QuietStep ==
    ASSUME Inv, UNCHANGED <<listPlace, recipient>>
    PROVE  Inv'
  <1>1. Domains'
    BY DEF Inv, Domains, listPlace
  <1>2. PICK q \in Seq(Clients) : Holds(q)
    BY DEF Inv
  <1>3. IsList(next, current_job, q)' /\ Sorted(q)' /\ Elements(q)' = Elements(q)
    BY <1>2, SameList DEF listPlace
  <1>4. Holds(q)'
    BY <1>2, <1>3 DEF Holds, Inserting, Place, listPlace
  <1> QED
    BY <1>1, <1>4 DEF Inv

\* Steps of main that leave the list and its new job alone.
LEMMA MainStep ==
    ASSUME Inv, UNCHANGED <<current_job, next, lost, recipient>>,
           mpc \notin {"skip", "link"}, mpc' \notin {"skip", "link"}
    PROVE  Inv'
  <1>1. Domains'
    BY DEF Inv, Domains
  <1>2. PICK q \in Seq(Clients) : Holds(q)
    BY DEF Inv
  <1>3. IsList(next, current_job, q)' /\ Sorted(q)' /\ Elements(q)' = Elements(q)
    BY <1>2, SameList
  <1>4. Holds(q)'
    BY <1>2, <1>3 DEF Holds, Inserting
  <1> QED
    BY <1>1, <1>4 DEF Inv

\* A recipient that was used is not live, but was not none either.
LEMMA RecipientStep ==
    ASSUME Inv, UNCHANGED listPlace, DOMAIN recipient' = Clients,
           \A c \in Clients : recipient'[c] \in {recipient[c], "freed"}
    PROVE  Inv'
  <1>1. Domains'
    BY DEF Inv, Domains, listPlace
  <1>2. PICK q \in Seq(Clients) : Holds(q)
    BY DEF Inv
  <1>3. IsList(next, current_job, q)' /\ Sorted(q)' /\ Elements(q)' = Elements(q)
    BY <1>2, SameList DEF listPlace
  <1>4. Elements(q) \subseteq Clients
    BY <1>2, OnList DEF Holds
  <1>5. Holds(q)'
    BY <1>2, <1>3, <1>4 DEF Holds, Inserting, Place, listPlace
  <1> QED
    BY <1>1, <1>5 DEF Inv

LEMMA SubmitMissStep ==
    ASSUME Inv, NEW c \in Clients, SubmitMiss(c)
    PROVE  Inv'
  <1>1. /\ mpc = "idle" /\ mpc' = "skip" /\ cur' = c /\ walk' = current_job
        /\ UNCHANGED <<current_job, next, lost>>
        /\ recipient[c] = "none" /\ recipient' = [recipient EXCEPT ![c] = "live"]
    BY DEF SubmitMiss, MissCache, listVars
  <1>2. Domains'
    BY <1>1 DEF Inv, Domains
  <1>3. PICK q \in Seq(Clients) : Holds(q)
    BY DEF Inv
  <1>4. IsList(next, current_job, q)' /\ Sorted(q)' /\ Elements(q)' = Elements(q)
    BY <1>1, <1>3, SameList
  <1>5. /\ Elements(q) \subseteq Clients /\ Len(q) \in Nat
        /\ current_job = IF Len(q) = 0 THEN NoClient ELSE q[1]
    BY <1>3, OnList DEF Holds
  <1>6. /\ recipient'[c] = "live"
        /\ \A d \in Clients : d # c => recipient'[d] = recipient[d]
    BY <1>1 DEF Inv, Domains
  <1>7. 1 \in 1 .. Len(q) + 1 /\ walk' = Place(q, 1)
    BY <1>1, <1>5 DEF Place
  <1>8. c \notin Elements(q)
    BY <1>1, <1>3 DEF Holds
  <1>9. Holds(q)'
    <2>1. mpc' = "skip" => \E j \in 1 .. Len(q) + 1 : walk' = Place(q, j)
      BY <1>7
    <2>2. \A d \in Elements(q) : recipient'[d] # "none" /\ ~Inserting(d)'
      BY <1>1, <1>3, <1>5, <1>6, <1>8 DEF Holds, Inserting
    <2>3. \A d \in Clients :
             recipient'[d] = "live" => d \in lost' \cup Elements(q) \/ Inserting(d)'
      BY <1>1, <1>3, <1>6 DEF Holds, Inserting
    <2> QED
      BY <1>1, <1>4, <1>6, <2>1, <2>2, <2>3 DEF Holds, Place
  <1> QED
    BY <1>2, <1>9 DEF Inv

LEMMA PassUnfinishedStep ==
    ASSUME Inv, PassUnfinished
    PROVE  Inv'
  <1>1. /\ mpc = "skip" /\ walk # NoClient /\ walk' = next[walk]
        /\ UNCHANGED <<current_job, next, lost, mpc, cur, recipient>>
    BY DEF PassUnfinished, Unfinished, listVars, clientVars
  <1>2. Domains'
    BY <1>1 DEF Inv, Domains
  <1>3. PICK q \in Seq(Clients) : Holds(q)
    BY DEF Inv
  <1>4. IsList(next, current_job, q)' /\ Sorted(q)' /\ Elements(q)' = Elements(q)
    BY <1>1, <1>3, SameList
  <1>5. PICK j \in 1 .. Len(q) + 1 : walk = Place(q, j)
    BY <1>1, <1>3 DEF Holds
  <1>6. Len(q) \in Nat /\ \A i \in 1 .. Len(q) :
           next[q[i]] = IF i = Len(q) THEN NoClient ELSE q[i + 1]
    BY <1>3, OnList DEF Holds, IsList
  <1>7. j \in 1 .. Len(q) /\ walk = q[j]
    BY <1>1, <1>5, <1>6 DEF Place
  <1>8. j + 1 \in 1 .. Len(q) + 1 /\ walk' = Place(q, j + 1)
    BY <1>1, <1>6, <1>7 DEF Place
  <1>9. Holds(q)'
    BY <1>1, <1>3, <1>4, <1>8 DEF Holds, Inserting, Place
  <1> QED
    BY <1>2, <1>9 DEF Inv

\* The front of the list is cut off.
LEMMA SetCurrentStep ==
    ASSUME Inv, SetCurrent
    PROVE  Inv'
  <1>1. /\ mpc = "skip" /\ mpc' = "link" /\ current_job' = walk
        /\ lost' = lost \cup (Listed(current_job) \ Listed(walk))
        /\ UNCHANGED <<next, walk, cur, recipient>>
    BY DEF SetCurrent, clientVars
  <1>2. Domains'
    BY <1>1 DEF Inv, Domains
  <1>3. PICK q \in Seq(Clients) : Holds(q)
    BY DEF Inv
  <1>4. PICK j \in 1 .. Len(q) + 1 : walk = Place(q, j)
    BY <1>1, <1>3 DEF Holds
  <1>5. PICK r : IsList(next, Place(q, j), r) /\ Sorted(r) /\ Elements(r) \subseteq Elements(q)
    BY <1>3, RestOfList DEF Holds
  <1>6. IsList(next, walk, r) /\ r \in Seq(Clients)
    BY <1>4, <1>5, OnList
  <1>7. Listed(walk) = Elements(r) /\ Listed(current_job) = Elements(q)
    BY <1>3, <1>6, ListFromIs DEF Holds
  <1>8. Holds(r)'
    <2>1. IsList(next, current_job, r)' /\ Sorted(r)' /\ Elements(r)' = Elements(r)
      BY <1>1, <1>5, <1>6 DEF IsList, Sorted, Elements
    <2>2. \A d : Inserting(d)' <=> Inserting(d)
      BY <1>1 DEF Inserting
    <2>3. \A d \in Elements(r) : recipient'[d] # "none" /\ ~Inserting(d)'
      BY <1>1, <1>3, <1>5, <2>2 DEF Holds
    <2>4. \A d \in Clients :
             recipient'[d] = "live" => d \in lost' \cup Elements(r) \/ Inserting(d)'
      BY <1>1, <1>3, <1>7, <2>2 DEF Holds
    <2> QED
      BY <1>1, <1>3, <2>1, <2>3, <2>4 DEF Holds
  <1> QED
    BY <1>2, <1>6, <1>8 DEF Inv

\* The new job is put in.
LEMMA LinkStep ==
    ASSUME Inv, Link
    PROVE  Inv'
  <1>1. PICK q \in Seq(Clients) : Holds(q)
    BY DEF Inv
  <1>2. /\ mpc = "link" /\ mpc' = "wake" /\ walk = current_job
        /\ UNCHANGED <<lost, cur, recipient>>
        /\ cur \in Clients /\ recipient[cur] # "none"
    BY <1>1 DEF Link, clientVars, Holds
  <1>3. IsList(next, walk, q) /\ Sorted(q) /\ cur \notin Elements(q)
    BY <1>1, <1>2 DEF Holds, Inserting
  <1>4. /\ Len(q) \in Nat /\ Elements(q) \subseteq Clients
        /\ \A i \in 1 .. Len(q) : q[i] \in Clients /\ q[i] \in Elements(q)
    BY <1>3, OnList
  <1>5. PICK m \in 0 .. Len(q) :
              /\ Cardinality(Before(cur)) = m
              /\ \A k \in 1 .. m : Request[q[k]].priority <= Request[cur].priority
              /\ m < Len(q) => Request[cur].priority < Request[q[m + 1]].priority
    BY <1>2, <1>3, BeforeIs
  <1>6. m # 0 => m \in 1 .. Len(q) /\ ListFrom(walk)[m] = q[m]
    BY <1>3, <1>4, ListFromIs
  <1>7. /\ DOMAIN next' = Clients
        /\ current_job' = IF m = 0 THEN cur ELSE walk
        /\ next'[cur] = IF m = 0 THEN walk ELSE next[q[m]]
        /\ m # 0 => next'[q[m]] = cur
        /\ \A y \in Elements(q) : (m # 0 /\ y = q[m]) \/ next'[y] = next[y]
    <2>1. DOMAIN next = Clients
      BY DEF Inv, Domains
    <2>2. CASE m = 0
      <3>1. current_job' = cur /\ next' = [next EXCEPT ![cur] = walk]
        BY <1>5, <2>2 DEF Link
      <3> QED
        BY <1>2, <1>3, <1>4, <2>1, <2>2, <3>1
    <2>3. CASE m # 0
      <3>1. /\ next' = [next EXCEPT ![cur] = next[q[m]], ![q[m]] = cur]
            /\ current_job' = current_job
        BY <1>5, <1>6, <2>3 DEF Link
      <3>2. q[m] \in Clients /\ q[m] # cur
        BY <1>3, <1>4, <1>6, <2>3
      <3> QED
        BY <1>2, <1>3, <1>4, <2>1, <2>3, <3>1, <3>2
    <2> QED
      BY <2>2, <2>3
  <1>8. Domains'
    BY <1>2, <1>7 DEF Inv, Domains
  <1>9. \E r : /\ IsList(next', IF m = 0 THEN cur ELSE walk, r) /\ Sorted(r)
               /\ Elements(r) = Elements(q) \cup {cur}
    <2>1. cur \in Clients \ Elements(q)
      BY <1>2, <1>3
    <2> QED
      BY <1>3, <1>5, <1>7, <2>1, InsertInList
  <1>10. PICK r : /\ IsList(next', IF m = 0 THEN cur ELSE walk, r) /\ Sorted(r)
                  /\ Elements(r) = Elements(q) \cup {cur}
    BY <1>9
  <1>11. IsList(next', current_job', r) /\ r \in Seq(Clients)
    BY <1>7, <1>10, OnList
  <1>12. Holds(r)'
    <2>1. IsList(next, current_job, r)' /\ Sorted(r)' /\ Elements(r)' = Elements(r)
      BY <1>10, <1>11 DEF IsList, Sorted, Elements
    <2>2. \A d \in Elements(r) : recipient'[d] # "none" /\ ~Inserting(d)'
      BY <1>1, <1>2, <1>10 DEF Holds, Inserting
    <2>3. \A d \in Clients :
             recipient'[d] = "live" => d \in lost' \cup Elements(r) \/ Inserting(d)'
      BY <1>1, <1>2, <1>10 DEF Holds, Inserting
    <2> QED
      BY <1>2, <2>1, <2>2, <2>3 DEF Holds
  <1> QED
    BY <1>8, <1>11, <1>12 DEF Inv

LEMMA StepInv ==
    ASSUME Inv, [Next]_vars
    PROVE  Inv'
  <1> USE DEF listPlace, listVars, mainVars, clientVars
  <1>1. ASSUME NEW c \in Clients, NEW entry \in tree \cup pending, SubmitHit(c, entry)
        PROVE  Inv'
    <2>1. UNCHANGED listPlace /\ recipient' = [recipient EXCEPT ![c] = "freed"]
      BY <1>1 DEF SubmitHit, AnswerFromCache
    <2>2. DOMAIN recipient' = Clients
          /\ \A d \in Clients : recipient'[d] \in {recipient[d], "freed"}
      BY <2>1 DEF Inv, Domains
    <2> QED
      BY <2>1, <2>2, RecipientStep
  <1>2. ASSUME NEW c \in Clients, SubmitMiss(c) PROVE Inv'
    BY <1>2, SubmitMissStep
  <1>3. CASE PassUnfinished
    BY <1>3, PassUnfinishedStep
  <1>4. CASE SetCurrent
    BY <1>4, SetCurrentStep
  <1>5. CASE Link
    BY <1>5, LinkStep
  <1>6. CASE Wake
    BY <1>6, MainStep DEF Wake
  <1>7. CASE Close
    BY <1>7, MainStep DEF Close
  <1>8. CASE CloseWake
    BY <1>8, MainStep DEF CloseWake
  <1>9. CASE JoinAndDestroy
    BY <1>9, MainStep DEF JoinAndDestroy
  <1>10. ASSUME NEW w \in Workers, NotifyRecipient(w) PROVE Inv'
    <2>1. UNCHANGED listPlace
          /\ \/ recipient' = recipient
             \/ recipient' = [recipient EXCEPT ![job[w]] = "freed"]
      BY <1>10 DEF NotifyRecipient, Notify
    <2>2. DOMAIN recipient' = Clients
          /\ \A d \in Clients : recipient'[d] \in {recipient[d], "freed"}
      BY <2>1 DEF Inv, Domains
    <2> QED
      BY <2>1, <2>2, RecipientStep
  <1>11. ASSUME NEW w \in Workers, WorkerStep(w) \/ SpuriousWake(w),
                ~NotifyRecipient(w)
         PROVE  Inv'
    <2>1. UNCHANGED <<listPlace, recipient>>
      BY <1>11 DEF WorkerStep, SpuriousWake, Exit, Start, SkipDone, EndOfList,
                   Yield, Awake, ClaimBlock, Circle, SearchFailed, MarkDone,
                   CachePush
    <2> QED
      BY <2>1, QuietStep
  <1>12. CASE UNCHANGED vars
    BY <1>12, QuietStep DEF vars
  <1> QED
    BY <1>1, <1>2, <1>3, <1>4, <1>5, <1>6, <1>7, <1>8, <1>9, <1>10, <1>11, <1>12
       DEF Next, Arrival, Submit, Shutdown, Stopped, WorkerStep

----------------------------------------------------------------------------
LEMMA InvWhole == Inv => ListWhole
  <1> SUFFICES ASSUME Inv PROVE ListWhole
    OBVIOUS
  <1>1. PICK q \in Seq(Clients) : Holds(q)
    BY DEF Inv
  <1>2. IsList(next, current_job, q) /\ Sorted(q)
    BY <1>1 DEF Holds
  <1>3. /\ DOMAIN ListFrom(current_job) = 1 .. Len(q)
        /\ \A i \in 1 .. Len(q) : ListFrom(current_job)[i] = q[i]
        /\ Listed(current_job) = Elements(q)
    BY <1>2, ListFromIs
  <1>4. ASSUME NEW i \in 1 .. Len(q), NEW k \in 1 .. Len(q), i < k
        PROVE  q[i] # q[k] /\ Request[q[i]].priority <= Request[q[k]].priority
    <2>1. i # k
      BY <1>2, <1>4, OnList
    <2> QED
      BY <1>2, <1>4, <2>1 DEF IsList, Sorted
  <1>5. \A c \in Clients : mpc = "idle" /\ recipient[c] = "live" /\ c \notin lost
                              => c \in Listed(current_job)
    BY <1>1, <1>3 DEF Holds, Inserting
  <1> QED
    BY <1>3, <1>4, <1>5 DEF ListWhole

\* The list the workers walk is sorted by priority and has no job twice at every
\* moment of a submission, and between two submissions it holds every job that
\* still waits and was not taken off by scheduler_linked_list_submit.
THEOREM ListStaysWhole == Spec => []ListWhole
  <1>1. Inv /\ [Next]_vars => Inv'
    BY StepInv
  <1> QED
    BY InitInv, InvWhole, <1>1, PTL DEF Spec
=============================================================================
