-------------------------- MODULE RadixTreeProofs --------------------------
(***************************************************************************)
(* What radix_tree.c keeps true whatever is inserted, for all keys, values *)
(* and branch sizes.                                                       *)
(*                                                                         *)
(* The inductive invariant, Inv, says that there are a labelling P of the  *)
(* nodes by the nibbles that lead to them and a map M from keys to values  *)
(* such that the store is a tree with these labels whose leaves hold M.    *)
(* Within a call the tree is in pieces, a forest: X are the nodes taken    *)
(* out and about to be removed, R those that nothing refers to yet, and H  *)
(* the pointers about to be overwritten.  Each creation, removal and       *)
(* assignment turns one forest into another, each way in which             *)
(* _radix_tree_insert ends is a sequence of these that leaves X, R and H   *)
(* empty again, and its loop leads to the place where the key belongs.     *)
(***************************************************************************)
EXTENDS RadixTree, FiniteSetTheorems, SequenceTheorems, WellFoundedInduction,
        NaturalsInduction, TLAPS

-----------------------------------------------------------------------------
(* Natural numbers. *)

\* A set of natural numbers has a least element.
LEMMA Smallest ==
    ASSUME NEW S \in SUBSET Nat, S # {}
    PROVE  \E m \in S : \A k \in S : m <= k
  <1> DEFINE R == OpToRel(<, Nat)
  <1>1. IsWellFoundedOn(R, Nat) /\ \A x, y \in Nat : y < x => <<y, x>> \in R
    BY NatLessThanWellFounded DEF OpToRel
  <1> HIDE DEF R
  <1>2. PICK m \in S : \A k \in S : ~(<<k, m>> \in R)
    BY <1>1, WFMin
  <1>3. ASSUME NEW k \in S
        PROVE  m <= k
    <2>1. m \in Nat /\ k \in Nat /\ ~(k < m)
      BY <1>1, <1>2
    <2> QED
      BY <2>1
  <1> QED
    BY <1>3

\* A set that contains 0 and, with each number before n, the next one,
\* contains the numbers up to n.
LEMMA Counting ==
    ASSUME NEW S, NEW n \in Nat,
           0 \in S,
           \A k \in 1 .. n : k - 1 \in S => k \in S
    PROVE  \A k \in 0 .. n : k \in S
  <1> SUFFICES ASSUME NEW j \in 0 .. n, j \notin S
               PROVE  FALSE
    OBVIOUS
  <1> DEFINE missing == {k \in 0 .. n : k \notin S}
  <1>1. missing \in SUBSET Nat /\ missing # {}
    OBVIOUS
  <1> HIDE DEF missing
  <1>2. PICK m \in missing : \A k \in missing : m <= k
    BY <1>1, Smallest
  <1>3. m \in 0 .. n /\ m \notin S
    BY <1>2 DEF missing
  <1>4. m # 0
    BY <1>3
  <1>5. m \in 1 .. n /\ m - 1 \in 0 .. n /\ ~(m <= m - 1)
    BY <1>3, <1>4
  <1>6. m - 1 \in S
    BY <1>2, <1>5 DEF missing
  <1> QED
    BY <1>3, <1>5, <1>6

\* n rounds of a step from x.
HasRounds(D, step, x, n) ==
    \E f \in [0 .. n -> D] : /\ f[0] = x
                             /\ \A k \in 1 .. n : f[k] = step[f[k - 1]]

\* A step can be repeated any number of times.
LEMMA RoundsExist ==
    ASSUME NEW D, NEW step \in [D -> D], NEW x \in D, NEW n \in Nat
    PROVE  HasRounds(D, step, x, n)
  <1> DEFINE Good(m) == \E f \in [0 .. m -> D] :
                           /\ f[0] = x
                           /\ \A k \in 1 .. m : f[k] = step[f[k - 1]]
             S == {m \in 0 .. n : Good(m)}
  <1>1. 0 \in S
    <2> DEFINE f == [k \in 0 .. 0 |-> x]
    <2>1. f \in [0 .. 0 -> D]
      OBVIOUS
    <2>2. f[0] = x
      OBVIOUS
    <2>3. \A k \in 1 .. 0 : f[k] = step[f[k - 1]]
      OBVIOUS
    <2> HIDE DEF f
    <2>4. Good(0)
      BY <2>1, <2>2, <2>3
    <2> QED
      BY <2>4
  <1>2. ASSUME NEW m \in 1 .. n, m - 1 \in S
        PROVE  m \in S
    <2>1. PICK f \in [0 .. m - 1 -> D] :
             f[0] = x /\ \A k \in 1 .. m - 1 : f[k] = step[f[k - 1]]
      BY <1>2
    <2> DEFINE g == [k \in 0 .. m |-> IF k = m THEN step[f[m - 1]] ELSE f[k]]
    <2>2. m - 1 \in 0 .. m - 1 /\ step[f[m - 1]] \in D
      OBVIOUS
    <2>3. g \in [0 .. m -> D]
      <3>1. ASSUME NEW k \in 0 .. m, k # m
            PROVE  f[k] \in D
        <4>1. k \in 0 .. m - 1
          BY <3>1
        <4> QED
          BY <4>1
      <3> QED
        BY <2>2, <3>1
    <2>4. g[0] = x
      BY <2>1
    <2>5. ASSUME NEW k \in 1 .. m
          PROVE  g[k] = step[g[k - 1]]
      <3>1. g[k - 1] = f[k - 1]
        OBVIOUS
      <3>2. CASE k = m
        BY <3>1, <3>2
      <3>3. CASE k # m
        <4>1. k \in 1 .. m - 1
          BY <3>3
        <4>2. g[k] = f[k]
          BY <3>3
        <4> QED
          BY <2>1, <3>1, <4>1, <4>2
      <3> QED
        BY <3>2, <3>3
    <2> HIDE DEF g
    <2>6. Good(m)
      BY <2>3, <2>4, <2>5
    <2> QED
      BY <2>6
  <1> HIDE DEF S
  <1>3. n \in S
    <2>1. \A k \in 0 .. n : k \in S
      BY <1>1, <1>2, Counting
    <2> QED
      BY <2>1
  <1> QED
    BY <1>3 DEF S, HasRounds

-----------------------------------------------------------------------------
(* Labels.  The label of a node is the nibbles on the way to it. *)

Label == Seq(Nibble)

\* c is p followed by s.
Extends(c, p, s) ==
    /\ Len(c) = Len(p) + Len(s)
    /\ \A j \in 1 .. Len(p) : c[j] = p[j]
    /\ \A j \in 1 .. Len(s) : c[Len(p) + j] = s[j]

First(s, m) == SubSeq(s, 1, m)

\* The first m nibbles of a label and the rest of it.
LEMMA Parts ==
    ASSUME NEW s \in Label, NEW m \in 0 .. Len(s)
    PROVE  /\ First(s, m) \in Label /\ Len(First(s, m)) = m
           /\ \A j \in 1 .. m : First(s, m)[j] = s[j]
           /\ Rest(s, m) \in Label /\ Len(Rest(s, m)) = Len(s) - m
           /\ \A j \in 1 .. Len(s) - m : Rest(s, m)[j] = s[m + j]
  <1>1. \A j \in 1 .. Len(s) : s[j] \in Nibble
    BY DEF Label
  <1>2. Len(s) \in Nat
    BY DEF Label
  <1>3. /\ SubSeq(s, 1, m) \in Seq(Nibble)
        /\ Len(SubSeq(s, 1, m)) = IF 1 <= m THEN m - 1 + 1 ELSE 0
        /\ \A j \in 1 .. m - 1 + 1 : SubSeq(s, 1, m)[j] = s[1 + j - 1]
    BY <1>1, <1>2, SubSeqProperties
  <1>4. /\ SubSeq(s, m + 1, Len(s)) \in Seq(Nibble)
        /\ Len(SubSeq(s, m + 1, Len(s))) = IF m + 1 <= Len(s) THEN Len(s) - (m + 1) + 1 ELSE 0
        /\ \A j \in 1 .. Len(s) - (m + 1) + 1 : SubSeq(s, m + 1, Len(s))[j] = s[m + 1 + j - 1]
    BY <1>1, <1>2, SubSeqProperties
  <1>5. /\ First(s, m) \in Label /\ Len(First(s, m)) = m
        /\ \A j \in 1 .. m : First(s, m)[j] = s[j]
    BY <1>2, <1>3 DEF First, Label
  <1>6. /\ Rest(s, m) \in Label /\ Len(Rest(s, m)) = Len(s) - m
    BY <1>2, <1>4 DEF Rest, Label
  <1>7. ASSUME NEW j \in 1 .. Len(s) - m
        PROVE  Rest(s, m)[j] = s[m + j]
    <2>1. j \in 1 .. Len(s) - (m + 1) + 1 /\ m + 1 + j - 1 = m + j
      BY <1>2
    <2> QED
      BY <1>4, <2>1 DEF Rest
  <1> QED
    BY <1>5, <1>6, <1>7

\* Labels are equal when their nibbles are.
LEMMA SameLabel ==
    ASSUME NEW s \in Label, NEW r \in Label, Len(s) = Len(r),
           \A j \in 1 .. Len(s) : s[j] = r[j]
    PROVE  s = r
  BY SeqEqual DEF Label

\* A path goes on in one way only.
LEMMA SameExtension ==
    ASSUME NEW c \in Label, NEW e \in Label, NEW p \in Label, NEW s \in Label,
           Extends(c, p, s), Extends(e, p, s)
    PROVE  c = e
  <1>1. Len(c) = Len(e) /\ Len(c) = Len(p) + Len(s) /\ Len(p) \in Nat /\ Len(s) \in Nat
    BY DEF Extends, Label
  <1>2. ASSUME NEW j \in 1 .. Len(c)
        PROVE  c[j] = e[j]
    <2>1. CASE j <= Len(p)
      BY <1>1, <2>1 DEF Extends
    <2>2. CASE j > Len(p)
      <3>1. j - Len(p) \in 1 .. Len(s) /\ Len(p) + (j - Len(p)) = j
        BY <1>1, <2>2
      <3>2. c[j] = s[j - Len(p)] /\ e[j] = s[j - Len(p)]
        BY <3>1 DEF Extends
      <3> QED
        BY <3>2
    <2> QED
      BY <1>1, <2>1, <2>2
  <1> QED
    BY <1>1, <1>2, SameLabel

\* The part of c up to a place within s, and the part after it.
LEMMA Cut ==
    ASSUME NEW c \in Label, NEW p \in Label, NEW s \in Label,
           Extends(c, p, s), NEW m \in 0 .. Len(s)
    PROVE  /\ Len(p) + m \in 0 .. Len(c)
           /\ First(c, Len(p) + m) \in Label
           /\ Extends(First(c, Len(p) + m), p, First(s, m))
           /\ Extends(c, First(c, Len(p) + m), Rest(s, m))
  <1>1. Len(c) = Len(p) + Len(s) /\ Len(p) \in Nat /\ Len(s) \in Nat
    BY DEF Extends, Label
  <1> DEFINE n == Len(p) + m
             b == First(c, n)
  <1>2. n \in 0 .. Len(c) /\ n \in Nat /\ m \in Nat
    BY <1>1
  <1>3. b \in Label /\ Len(b) = n /\ \A j \in 1 .. n : b[j] = c[j]
    BY <1>2, Parts
  <1>4. /\ First(s, m) \in Label /\ Len(First(s, m)) = m
        /\ \A j \in 1 .. m : First(s, m)[j] = s[j]
        /\ Rest(s, m) \in Label /\ Len(Rest(s, m)) = Len(s) - m
        /\ \A j \in 1 .. Len(s) - m : Rest(s, m)[j] = s[m + j]
    BY Parts
  <1> HIDE DEF b
  <1>5. Extends(b, p, First(s, m))
    <2>1. \A j \in 1 .. Len(p) : b[j] = p[j]
      BY <1>1, <1>3 DEF Extends
    <2>2. ASSUME NEW j \in 1 .. m
          PROVE  b[Len(p) + j] = First(s, m)[j]
      <3>1. j \in 1 .. Len(s) /\ Len(p) + j \in 1 .. n
        BY <1>1
      <3>2. c[Len(p) + j] = s[j]
        BY <3>1 DEF Extends
      <3> QED
        BY <1>3, <1>4, <3>1, <3>2
    <2> QED
      BY <1>3, <1>4, <2>1, <2>2 DEF Extends
  <1>6. Extends(c, b, Rest(s, m))
    <2>1. Len(c) = Len(b) + Len(Rest(s, m))
      BY <1>1, <1>3, <1>4
    <2>2. ASSUME NEW j \in 1 .. Len(s) - m
          PROVE  c[n + j] = Rest(s, m)[j]
      <3>1. m + j \in 1 .. Len(s) /\ n + j = Len(p) + (m + j)
        BY <1>1
      <3>2. c[Len(p) + (m + j)] = s[m + j]
        BY <3>1 DEF Extends
      <3> QED
        BY <1>4, <3>1, <3>2
    <2> QED
      BY <1>3, <1>4, <2>1, <2>2 DEF Extends
  <1> QED
    BY <1>2, <1>3, <1>5, <1>6 DEF b

\* A label is the whole of itself and starts with the empty one.
LEMMA Whole ==
    ASSUME NEW s \in Label
    PROVE  /\ Len(s) \in Nat
           /\ <<>> \in Label /\ First(s, 0) = <<>>
           /\ First(s, Len(s)) = s
           /\ Extends(s, s, <<>>)
  <1>1. Len(s) \in Nat /\ <<>> \in Label /\ Len(<<>>) = 0
    BY DEF Label
  <1>2. First(s, Len(s)) = s
    <2>0. Len(s) \in 0 .. Len(s)
      BY <1>1
    <2>1. /\ First(s, Len(s)) \in Label /\ Len(First(s, Len(s))) = Len(s)
          /\ \A j \in 1 .. Len(s) : First(s, Len(s))[j] = s[j]
      BY <2>0, Parts
    <2> QED
      BY <2>1, SameLabel
  <1>3. First(s, 0) = <<>>
    <2>0. 0 \in 0 .. Len(s)
      BY <1>1
    <2>1. First(s, 0) \in Label /\ Len(First(s, 0)) = 0
      BY <2>0, Parts
    <2> QED
      BY <1>1, <2>1, SameLabel
  <1> QED
    BY <1>1, <1>2, <1>3 DEF Extends

\* A key is any of its beginnings with the rest; a beginning that is one
\* nibble longer extends the one before by that nibble.
LEMMA OneMore ==
    ASSUME NEW c \in Label, NEW i \in 0 .. Len(c)
    PROVE  /\ First(c, i) \in Label /\ Len(First(c, i)) = i
           /\ Extends(c, First(c, i), Rest(c, i))
           /\ i < Len(c) => /\ c[i + 1] \in Nibble
                            /\ <<c[i + 1]>> \in Label
                            /\ Extends(First(c, i + 1), First(c, i), <<c[i + 1]>>)
  <1>1. Len(c) \in Nat /\ \A j \in 1 .. Len(c) : c[j] \in Nibble
    BY DEF Label
  <1>2. /\ First(c, i) \in Label /\ Len(First(c, i)) = i
        /\ \A j \in 1 .. i : First(c, i)[j] = c[j]
        /\ Rest(c, i) \in Label /\ Len(Rest(c, i)) = Len(c) - i
        /\ \A j \in 1 .. Len(c) - i : Rest(c, i)[j] = c[i + j]
    BY Parts
  <1>3. Extends(c, First(c, i), Rest(c, i))
    BY <1>1, <1>2 DEF Extends
  <1>4. ASSUME i < Len(c)
        PROVE  /\ c[i + 1] \in Nibble
               /\ <<c[i + 1]>> \in Label
               /\ Extends(First(c, i + 1), First(c, i), <<c[i + 1]>>)
    <2>1. i + 1 \in 0 .. Len(c) /\ i + 1 \in 1 .. Len(c)
      BY <1>1, <1>4
    <2>2. /\ Len(First(c, i + 1)) = i + 1
          /\ \A j \in 1 .. i + 1 : First(c, i + 1)[j] = c[j]
      BY <2>1, Parts
    <2>3. c[i + 1] \in Nibble
      BY <1>1, <2>1
    <2>4. <<c[i + 1]>> \in Label /\ Len(<<c[i + 1]>>) = 1 /\ <<c[i + 1]>>[1] = c[i + 1]
      BY <2>3 DEF Label
    <2>5. \A j \in 1 .. i : First(c, i + 1)[j] = First(c, i)[j]
      BY <1>2, <2>2
    <2>6. \A j \in 1 .. 1 : First(c, i + 1)[i + j] = <<c[i + 1]>>[j]
      <3>1. First(c, i + 1)[i + 1] = c[i + 1]
        BY <2>1, <2>2
      <3> QED
        BY <2>4, <3>1
    <2>7. Extends(First(c, i + 1), First(c, i), <<c[i + 1]>>)
      BY <1>2, <2>2, <2>4, <2>5, <2>6 DEF Extends
    <2> QED
      BY <2>3, <2>4, <2>7
  <1> QED
    BY <1>2, <1>3, <1>4

-----------------------------------------------------------------------------
(* The forest.  While a call replaces nodes the store is a forest: X are   *)
(* the nodes that are given up but not removed yet, R those that nothing   *)
(* refers to, H the pointers about to be overwritten.  P labels the nodes. *)

\* The pointers of a node: which it has, where they lead, what they stand for
\* and which kinds they may lead to.
Has(node, d) ==
    \/ node.kind = "edge" /\ d = Immediate
    \/ node.kind \in Branch /\ d \in DOMAIN node.entries

To(node, d) == IF node.kind = "edge" THEN node.next ELSE node.entries[d]

Over(node, d) ==
    IF node.kind = "edge" THEN node.str ELSE IF d = Immediate THEN <<>> ELSE <<d>>

Suits(node, d, kind) ==
    /\ node.kind = "edge" => kind \in Branch \cup {"leaf"}
    /\ node.kind \in Branch /\ d = Immediate => kind = "leaf"

Arc(t, X, H, n, d) ==
    /\ n \notin X /\ <<n, d>> \notin H
    /\ \/ n = NIL /\ d = Immediate /\ t.root # NIL
       \/ n \in DOMAIN t.mem /\ Has(t.mem[n], d)

Target(t, n, d) == IF n = NIL THEN t.root ELSE To(t.mem[n], d)

Leads(t, P, n, d, c) ==
    /\ c \in DOMAIN t.mem
    /\ n # NIL => Suits(t.mem[n], d, t.mem[c].kind)
    /\ Extends(P[c], P[n], IF n = NIL THEN <<>> ELSE Over(t.mem[n], d))

Tied(t, P, X, R, H) ==
    /\ \A n, d : Arc(t, X, H, n, d) =>
          /\ Leads(t, P, n, d, Target(t, n, d))
          /\ Target(t, n, d) \notin X \cup R
    /\ \A c \in DOMAIN t.mem : c \notin X \cup R =>
          \E n, d : Arc(t, X, H, n, d) /\ Target(t, n, d) = c
    /\ \A n, d, m, e :
          Arc(t, X, H, n, d) /\ Arc(t, X, H, m, e) /\ Target(t, n, d) = Target(t, m, e)
             => n = m /\ d = e

\* A pointer about to be overwritten leaves its node without a reference.
LEMMA Detached ==
    ASSUME NEW t, NEW P, NEW X, NEW R, NEW H, Tied(t, P, X, R, H),
           NEW n, NEW d, Arc(t, X, H, n, d)
    PROVE  /\ Tied(t, P, X, R \cup {Target(t, n, d)}, H \cup {<<n, d>>})
           /\ Target(t, n, d) \in DOMAIN t.mem
           /\ Target(t, n, d) \notin X \cup R
           /\ Leads(t, P, n, d, Target(t, n, d))
  <1> DEFINE c == Target(t, n, d)
             G == H \cup {<<n, d>>}
  <1>1. \A m, e : Arc(t, X, G, m, e) <=> Arc(t, X, H, m, e) /\ ~(m = n /\ e = d)
    BY DEF Arc
  <1>2. Leads(t, P, n, d, c) /\ c \notin X \cup R /\ c \in DOMAIN t.mem
    BY DEF Tied, Leads
  <1>3. \A m, e : Arc(t, X, G, m, e) => Target(t, m, e) # c
    BY <1>1 DEF Tied
  <1> HIDE DEF c, G
  <1>4. \A m, e : Arc(t, X, G, m, e) =>
           /\ Leads(t, P, m, e, Target(t, m, e))
           /\ Target(t, m, e) \notin X \cup (R \cup {c})
    BY <1>1, <1>3 DEF Tied
  <1>5. ASSUME NEW b \in DOMAIN t.mem, b \notin X \cup (R \cup {c})
        PROVE  \E m, e : Arc(t, X, G, m, e) /\ Target(t, m, e) = b
    <2>1. PICK m, e : Arc(t, X, H, m, e) /\ Target(t, m, e) = b
      BY <1>5 DEF Tied
    <2>2. ~(m = n /\ e = d)
      BY <1>5, <2>1 DEF c
    <2> QED
      BY <1>1, <2>1, <2>2
  <1>6. \A m, e, k, f :
          Arc(t, X, G, m, e) /\ Arc(t, X, G, k, f) /\ Target(t, m, e) = Target(t, k, f)
             => m = k /\ e = f
    BY <1>1 DEF Tied
  <1>7. Tied(t, P, X, R \cup {c}, G)
    BY <1>4, <1>5, <1>6 DEF Tied
  <1> QED
    BY <1>2, <1>7 DEF c, G

\* A node that nothing refers to is given up; what it refers to is left.
Heirs(t, n) == {Target(t, n, d) : d \in {d \in Nibble \cup {Immediate} : Has(t.mem[n], d)}}

\* A node that nothing refers to is put aside: what it referred to is then
\* without a reference.
LEMMA GivenUp ==
    ASSUME NEW t, NEW P, NEW X, NEW R, NEW H, Tied(t, P, X, R, H),
           NEW n \in R, n # NIL, n \in DOMAIN t.mem, n \notin X,
           \A d : Has(t.mem[n], d) => d \in Nibble \cup {Immediate} /\ <<n, d>> \notin H
    PROVE  /\ Tied(t, P, X \cup {n}, (R \ {n}) \cup Heirs(t, n), H)
           /\ \A d : Has(t.mem[n], d) =>
                 /\ Leads(t, P, n, d, Target(t, n, d))
                 /\ Target(t, n, d) \notin X \cup R
           /\ \A d, e : Has(t.mem[n], d) /\ Has(t.mem[n], e)
                           /\ Target(t, n, d) = Target(t, n, e) => d = e
  <1> DEFINE Y == X \cup {n}
             S == (R \ {n}) \cup Heirs(t, n)
  <1>1. \A m, e : Arc(t, Y, H, m, e) <=> Arc(t, X, H, m, e) /\ m # n
    BY DEF Arc
  <1>2. \A d : Has(t.mem[n], d) => Arc(t, X, H, n, d)
    BY DEF Arc
  <1>3. \A c : c \in Heirs(t, n) <=> \E d : Has(t.mem[n], d) /\ c = Target(t, n, d)
    BY DEF Heirs
  <1>4. \A m, e : Arc(t, X, H, m, e) => Target(t, m, e) # n
    BY DEF Tied
  <1>5. \A m, e : Arc(t, Y, H, m, e) => Target(t, m, e) \notin Heirs(t, n)
    BY <1>1, <1>2, <1>3 DEF Tied
  <1>6. \A c \in Heirs(t, n) : c \notin X \cup R /\ c # n
    BY <1>2, <1>3, <1>4 DEF Tied
  <1> HIDE DEF Y
  <1>7. \A m, e : Arc(t, Y, H, m, e) =>
           /\ Leads(t, P, m, e, Target(t, m, e))
           /\ Target(t, m, e) \notin Y \cup S
    BY <1>1, <1>4, <1>5 DEF Tied, Y
  <1>8. ASSUME NEW b \in DOMAIN t.mem, b \notin Y \cup S
        PROVE  \E m, e : Arc(t, Y, H, m, e) /\ Target(t, m, e) = b
    <2>1. b \notin X \cup R
      BY <1>8 DEF Y
    <2>2. PICK m, e : Arc(t, X, H, m, e) /\ Target(t, m, e) = b
      BY <2>1 DEF Tied
    <2>3. m # n
      <3>1. ASSUME m = n PROVE FALSE
        <4>1. Has(t.mem[n], e)
          BY <2>2, <3>1 DEF Arc
        <4> QED
          BY <1>3, <1>8, <2>2, <3>1, <4>1
      <3> QED
        BY <3>1
    <2> QED
      BY <1>1, <2>2, <2>3
  <1>9. \A m, e, k, f :
          Arc(t, Y, H, m, e) /\ Arc(t, Y, H, k, f) /\ Target(t, m, e) = Target(t, k, f)
             => m = k /\ e = f
    BY <1>1 DEF Tied
  <1> HIDE DEF S
  <1>10. Tied(t, P, Y, S, H)
    BY <1>7, <1>8, <1>9 DEF Tied
  <1> QED
    BY <1>2, <1>10 DEF Tied, Y, S

\* The labels with one more node.
Named(P, id, L) == [P EXCEPT ![id] = L]

\* Giving a node its label changes the label of no other.
LEMMA Naming ==
    ASSUME NEW P \in [Nat -> Label], NEW id \in Nat, NEW L \in Label
    PROVE  /\ Named(P, id, L) \in [Nat -> Label]
           /\ Named(P, id, L)[id] = L
           /\ \A m \in Nat : m # id => Named(P, id, L)[m] = P[m]
  BY DEF Named

\* A new node takes up nodes that nothing refers to and is itself such a node.
LEMMA TiedCreate ==
    ASSUME NEW t, NEW P \in [Nat -> Label], NEW X, NEW R, NEW H, Tied(t, P, X, R, H),
           DOMAIN t.mem \subseteq Nat, X \subseteq DOMAIN t.mem,
           NEW id \in Nat \ {NIL}, id \notin DOMAIN t.mem, \A d : <<id, d>> \notin H,
           NEW node, NEW L \in Label, NEW u, NEW S, NEW Q,
           u.mem = With(t.mem, id, node), u.root = t.root,
           Q = Named(P, id, L),
           \A d : Has(node, d) =>
              /\ To(node, d) \in R \cap DOMAIN t.mem
              /\ To(node, d) \notin X
              /\ Suits(node, d, t.mem[To(node, d)].kind)
              /\ Extends(P[To(node, d)], L, Over(node, d)),
           \A d, e : Has(node, d) /\ Has(node, e) /\ To(node, d) = To(node, e) => d = e,
           \A c : c \in S <=> c = id \/ (c \in R /\ ~ \E d : Has(node, d) /\ To(node, d) = c)
    PROVE  Tied(u, Q, X, S, H)
  <1>1. /\ DOMAIN u.mem = DOMAIN t.mem \cup {id}
        /\ u.mem[id] = node
        /\ \A m \in DOMAIN t.mem : m # id /\ u.mem[m] = t.mem[m]
    BY DEF With
  <1>2. Q[id] = L /\ \A m \in Nat : m # id => Q[m] = P[m]
    <2>1. id \in Nat
      OBVIOUS
    <2>2. Q[id] = L
      BY <2>1, Naming
    <2>3. \A m \in Nat : m # id => Q[m] = P[m]
      BY <2>1 DEF Named
    <2> QED
      BY <2>2, <2>3
  <1>3. NIL \in Nat /\ NIL # id
    BY DEF NIL
  <1>4. \A m, e : m # id => (Arc(u, X, H, m, e) <=> Arc(t, X, H, m, e))
    BY <1>1 DEF Arc
  <1>5. \A e : Arc(u, X, H, id, e) <=> Has(node, e)
    BY <1>1, <1>3 DEF Arc
  <1>6. \A m, e : Arc(t, X, H, m, e) =>
           /\ m # id /\ m \in Nat
           /\ Target(u, m, e) = Target(t, m, e)
           /\ Target(t, m, e) # id /\ Target(t, m, e) \in DOMAIN t.mem \ (X \cup R)
    <2> SUFFICES ASSUME NEW m, NEW e, Arc(t, X, H, m, e)
                 PROVE  /\ m # id /\ m \in Nat
                        /\ Target(u, m, e) = Target(t, m, e)
                        /\ Target(t, m, e) # id /\ Target(t, m, e) \in DOMAIN t.mem \ (X \cup R)
      OBVIOUS
    <2>1. m = NIL \/ m \in DOMAIN t.mem
      BY DEF Arc
    <2>2. m # id /\ m \in Nat
      BY <1>3, <2>1
    <2>3. Target(u, m, e) = Target(t, m, e)
      BY <1>1, <2>1 DEF Target
    <2>4. Target(t, m, e) \in DOMAIN t.mem \ (X \cup R)
      BY DEF Tied, Leads
    <2> QED
      BY <2>2, <2>3, <2>4
  <1>7. \A e : Target(u, id, e) = To(node, e)
    BY <1>1, <1>3 DEF Target
  <1>8. ASSUME NEW m, NEW e, Arc(u, X, H, m, e)
        PROVE  Leads(u, Q, m, e, Target(u, m, e)) /\ Target(u, m, e) \notin X \cup S
    <2>1. CASE m = id
      <3> DEFINE c == To(node, e)
      <3>1. Has(node, e) /\ Target(u, m, e) = c
        BY <1>5, <1>7, <1>8, <2>1
      <3>2. /\ c \in R /\ c \in DOMAIN t.mem /\ c \notin X
            /\ Suits(node, e, t.mem[c].kind)
            /\ Extends(P[c], L, Over(node, e))
        BY <3>1
      <3>3. c # id /\ Q[c] = P[c] /\ u.mem[c] = t.mem[c] /\ c \in DOMAIN u.mem
        BY <1>1, <1>2, <3>2
      <3>4. c \notin S
        BY <3>1, <3>3
      <3> HIDE DEF c
      <3>5. Leads(u, Q, id, e, c)
        BY <1>1, <1>2, <1>3, <3>2, <3>3 DEF Leads
      <3> QED
        BY <2>1, <3>1, <3>2, <3>4, <3>5
    <2>2. CASE m # id
      <3> DEFINE c == Target(t, m, e)
      <3>1. Arc(t, X, H, m, e)
        BY <1>4, <1>8, <2>2
      <3>2. /\ m \in Nat /\ Target(u, m, e) = c
            /\ c # id /\ c \in DOMAIN t.mem /\ c \notin X \cup R
        BY <1>6, <3>1
      <3>3. Leads(t, P, m, e, c)
        BY <3>1 DEF Tied
      <3>4. m = NIL \/ m \in DOMAIN t.mem
        BY <3>1 DEF Arc
      <3> HIDE DEF c
      <3>5. Q[c] = P[c] /\ Q[m] = P[m] /\ u.mem[c] = t.mem[c] /\ c \in DOMAIN u.mem
        BY <1>1, <1>2, <2>2, <3>2
      <3>6. m # NIL => u.mem[m] = t.mem[m]
        BY <1>1, <3>4
      <3>7. Leads(u, Q, m, e, c)
        BY <3>3, <3>5, <3>6 DEF Leads
      <3>8. c \notin S
        BY <3>2
      <3> QED
        BY <3>2, <3>7, <3>8
    <2> QED
      BY <2>1, <2>2
  <1>9. ASSUME NEW b \in DOMAIN u.mem, b \notin X \cup S
        PROVE  \E m, e : Arc(u, X, H, m, e) /\ Target(u, m, e) = b
    <2>1. b # id /\ b \in DOMAIN t.mem
      BY <1>1, <1>9
    <2>2. CASE b \in R
      <3>1. PICK e : Has(node, e) /\ To(node, e) = b
        BY <1>9, <2>2
      <3> QED
        BY <1>5, <1>7, <3>1
    <2>3. CASE b \notin R
      <3>1. PICK m, e : Arc(t, X, H, m, e) /\ Target(t, m, e) = b
        BY <1>9, <2>1, <2>3 DEF Tied
      <3> QED
        BY <1>4, <1>6, <3>1
    <2> QED
      BY <2>2, <2>3
  <1>10. ASSUME NEW m, NEW e, NEW k, NEW f,
                Arc(u, X, H, m, e), Arc(u, X, H, k, f), Target(u, m, e) = Target(u, k, f)
         PROVE  m = k /\ e = f
    <2>1. CASE m = id /\ k = id
      BY <1>5, <1>7, <1>10, <2>1
    <2>2. CASE m # id /\ k # id
      <3>1. Arc(t, X, H, m, e) /\ Arc(t, X, H, k, f)
        BY <1>4, <1>10, <2>2
      <3>2. Target(t, m, e) = Target(t, k, f)
        BY <1>6, <1>10, <3>1
      <3> QED
        BY <3>1, <3>2 DEF Tied
    <2>3. CASE m = id /\ k # id
      <3>1. Arc(t, X, H, k, f) /\ Has(node, e)
        BY <1>4, <1>5, <1>10, <2>3
      <3>2. Target(u, k, f) \notin R /\ Target(u, m, e) \in R
        BY <1>6, <1>7, <2>3, <3>1
      <3> QED
        BY <1>10, <3>2
    <2>4. CASE m # id /\ k = id
      <3>1. Arc(t, X, H, m, e) /\ Has(node, f)
        BY <1>4, <1>5, <1>10, <2>4
      <3>2. Target(u, m, e) \notin R /\ Target(u, k, f) \in R
        BY <1>6, <1>7, <2>4, <3>1
      <3> QED
        BY <1>10, <3>2
    <2> QED
      BY <2>1, <2>2, <2>3, <2>4
  <1> QED
    BY <1>8, <1>9, <1>10 DEF Tied

\* A node that was given up is removed.
LEMMA TiedRemove ==
    ASSUME NEW t, NEW P, NEW X, NEW R, NEW H, Tied(t, P, X, R, H),
           NEW x \in X, NEW u, x # NIL,
           u.mem = [m \in DOMAIN t.mem \ {x} |-> t.mem[m]], u.root = t.root
    PROVE  Tied(u, P, X \ {x}, R, H)
  <1>1. DOMAIN u.mem = DOMAIN t.mem \ {x} /\ \A m \in DOMAIN u.mem : u.mem[m] = t.mem[m]
    OBVIOUS
  <1>2. \A m, e : Arc(u, X \ {x}, H, m, e) <=> Arc(t, X, H, m, e)
    BY <1>1 DEF Arc
  <1>3. \A m, e : Arc(t, X, H, m, e) =>
           /\ m = NIL \/ m \in DOMAIN u.mem
           /\ Target(u, m, e) = Target(t, m, e)
           /\ Target(t, m, e) \in DOMAIN u.mem
    <2> SUFFICES ASSUME NEW m, NEW e, Arc(t, X, H, m, e)
                 PROVE  /\ m = NIL \/ m \in DOMAIN u.mem
                        /\ Target(u, m, e) = Target(t, m, e)
                        /\ Target(t, m, e) \in DOMAIN u.mem
      OBVIOUS
    <2>1. m = NIL \/ m \in DOMAIN u.mem
      BY <1>1 DEF Arc
    <2>2. Target(u, m, e) = Target(t, m, e)
      BY <1>1, <2>1 DEF Target
    <2>3. Target(t, m, e) \in DOMAIN t.mem /\ Target(t, m, e) \notin X
      BY DEF Tied, Leads
    <2> QED
      BY <1>1, <2>1, <2>2, <2>3
  <1>4. \A m, e, c : Leads(t, P, m, e, c) /\ c \in DOMAIN u.mem /\ (m = NIL \/ m \in DOMAIN u.mem)
           => Leads(u, P, m, e, c)
    BY <1>1 DEF Leads
  <1>5. ASSUME NEW m, NEW e, Arc(u, X \ {x}, H, m, e)
        PROVE  /\ Leads(u, P, m, e, Target(u, m, e))
               /\ Target(u, m, e) \notin (X \ {x}) \cup R
    <2>1. Arc(t, X, H, m, e)
      BY <1>2, <1>5
    <2>2. Leads(t, P, m, e, Target(t, m, e)) /\ Target(t, m, e) \notin X \cup R
      BY <2>1 DEF Tied
    <2> QED
      BY <1>3, <1>4, <2>1, <2>2
  <1>6. ASSUME NEW b \in DOMAIN u.mem, b \notin (X \ {x}) \cup R
        PROVE  \E m, e : Arc(u, X \ {x}, H, m, e) /\ Target(u, m, e) = b
    <2>1. b \in DOMAIN t.mem /\ b \notin X \cup R
      BY <1>1, <1>6
    <2>2. PICK m, e : Arc(t, X, H, m, e) /\ Target(t, m, e) = b
      BY <2>1 DEF Tied
    <2> QED
      BY <1>2, <1>3, <2>2
  <1>7. ASSUME NEW m, NEW e, NEW k, NEW f,
               Arc(u, X \ {x}, H, m, e), Arc(u, X \ {x}, H, k, f),
               Target(u, m, e) = Target(u, k, f)
        PROVE  m = k /\ e = f
    <2>1. Arc(t, X, H, m, e) /\ Arc(t, X, H, k, f)
      BY <1>2, <1>7
    <2>2. Target(t, m, e) = Target(t, k, f)
      BY <1>3, <1>7, <2>1
    <2> QED
      BY <2>1, <2>2 DEF Tied
  <1> QED
    BY <1>5, <1>6, <1>7 DEF Tied

\* A pointer is written: it leads to a node that nothing referred to.
LEMMA TiedLink ==
    ASSUME NEW t, NEW P, NEW X, NEW R, NEW H, Tied(t, P, X, R, H),
           NEW u, NEW G, NEW n, NEW d, NEW c \in R, c \notin X,
           DOMAIN u.mem = DOMAIN t.mem,
           \A m, e : Arc(u, X, G, m, e) <=> Arc(t, X, H, m, e) \/ (m = n /\ e = d),
           ~Arc(t, X, H, n, d),
           Target(u, n, d) = c, Leads(u, P, n, d, c),
           \A m, e : Arc(t, X, H, m, e) =>
              /\ Target(u, m, e) = Target(t, m, e)
              /\ Leads(t, P, m, e, Target(t, m, e)) => Leads(u, P, m, e, Target(t, m, e))
    PROVE  Tied(u, P, X, R \ {c}, G)
  <1>1. ASSUME NEW m, NEW e, Arc(u, X, G, m, e)
        PROVE  /\ Leads(u, P, m, e, Target(u, m, e))
               /\ Target(u, m, e) \notin X \cup (R \ {c})
    <2>1. CASE Arc(t, X, H, m, e)
      <3>1. Leads(t, P, m, e, Target(t, m, e)) /\ Target(t, m, e) \notin X \cup R
        BY <2>1 DEF Tied
      <3> QED
        BY <2>1, <3>1
    <2>2. CASE m = n /\ e = d
      BY <2>2
    <2> QED
      BY <1>1, <2>1, <2>2
  <1>2. ASSUME NEW b \in DOMAIN u.mem, b \notin X \cup (R \ {c})
        PROVE  \E m, e : Arc(u, X, G, m, e) /\ Target(u, m, e) = b
    <2>1. CASE b = c
      BY <2>1
    <2>2. CASE b # c
      <3>1. PICK m, e : Arc(t, X, H, m, e) /\ Target(t, m, e) = b
        BY <1>2, <2>2 DEF Tied
      <3> QED
        BY <3>1
    <2> QED
      BY <2>1, <2>2
  <1>3. \A m, e : Arc(t, X, H, m, e) => Target(u, m, e) # c
    BY DEF Tied
  <1>4. ASSUME NEW m, NEW e, NEW k, NEW f,
               Arc(u, X, G, m, e), Arc(u, X, G, k, f),
               Target(u, m, e) = Target(u, k, f)
        PROVE  m = k /\ e = f
    <2>1. CASE Arc(t, X, H, m, e) /\ Arc(t, X, H, k, f)
      <3>1. Target(t, m, e) = Target(t, k, f)
        BY <1>4, <2>1
      <3> QED
        BY <2>1, <3>1 DEF Tied
    <2>2. CASE (m = n /\ e = d) /\ Arc(t, X, H, k, f)
      BY <1>3, <1>4, <2>2
    <2>3. CASE Arc(t, X, H, m, e) /\ (k = n /\ f = d)
      BY <1>3, <1>4, <2>3
    <2>4. CASE (m = n /\ e = d) /\ (k = n /\ f = d)
      BY <2>4
    <2> QED
      BY <1>4, <2>1, <2>2, <2>3, <2>4
  <1> QED
    BY <1>1, <1>2, <1>4 DEF Tied

\* What the branches of each size hold.
Holding(kind, entries) ==
    /\ entries = [d \in DOMAIN entries |-> entries[d]]
    /\ DOMAIN entries \subseteq Nibble \cup {Immediate}
    /\ Cardinality(DOMAIN entries) >= 2
    /\ kind = "branch4" => Cardinality(DOMAIN entries) <= Cap4
    /\ kind = "branch8" => Cardinality(DOMAIN entries) <= Cap8
    /\ kind = "branch16" => Immediate \notin DOMAIN entries

Sound(node) ==
    \/ /\ node.kind = "leaf"
       /\ node = [kind |-> "leaf", value |-> node.value]
       /\ node.value \in Values
    \/ /\ node.kind = "edge"
       /\ node = [kind |-> "edge", str |-> node.str, next |-> node.next]
       /\ node.str \in Label \ {<<>>}
    \/ /\ node.kind \in Branch
       /\ node = [kind |-> node.kind, entries |-> node.entries]
       /\ Holding(node.kind, node.entries)

IsTree(t) == t = [x \in {"mem", "strings", "root", "out"} |-> t[x]]

Stock(t, P, X, R, H) ==
    /\ IsTree(t)
    /\ t.mem = [n \in DOMAIN t.mem |-> t.mem[n]]
    /\ IsFiniteSet(DOMAIN t.mem) /\ DOMAIN t.mem \subseteq Nat \ {NIL}
    /\ X \subseteq DOMAIN t.mem /\ R \subseteq DOMAIN t.mem /\ X \cap R = {}
    /\ \A n \in X : t.mem[n].kind # "leaf"
    /\ \A n, d : <<n, d>> \in H => n \in (DOMAIN t.mem \ X) \cup {NIL}
    /\ P \in [Nat -> Label] /\ P[NIL] = <<>>
    /\ \A n \in DOMAIN t.mem : Sound(t.mem[n])

\* The buffer of an edge whose string is too long for the node.
Weight(node) == IF node.kind = "edge" THEN Buffers(node.str) ELSE 0

Long(t) == {n \in DOMAIN t.mem : Weight(t.mem[n]) = 1}

Counted(t) == t.strings = Cardinality(Long(t))

\* The leaves hold the map M, from labels to values.
Leafy(t, P, M) ==
    /\ M = [k \in DOMAIN M |-> M[k]]
    /\ \A n \in DOMAIN t.mem : t.mem[n].kind = "leaf" =>
          P[n] \in DOMAIN M /\ M[P[n]] = t.mem[n].value
    /\ \A k \in DOMAIN M : \E n \in DOMAIN t.mem : t.mem[n].kind = "leaf" /\ P[n] = k
    /\ \A m, n \in DOMAIN t.mem :
          t.mem[m].kind = "leaf" /\ t.mem[n].kind = "leaf" /\ P[m] = P[n] => m = n

Forest(t, P, X, R, H, M) ==
    /\ Stock(t, P, X, R, H)
    /\ Tied(t, P, X, R, H)
    /\ Counted(t)
    /\ Leafy(t, P, M)

\* A free index is found.
LEMMA FreshIsFree ==
    ASSUME NEW t, IsFiniteSet(DOMAIN t.mem)
    PROVE  Fresh(t) \in Nat \ {NIL} /\ Fresh(t) \notin DOMAIN t.mem
  <1> DEFINE k == Cardinality(DOMAIN t.mem)
             S == (1 .. k + 1) \ DOMAIN t.mem
  <1>1. k \in Nat
    BY FS_CardinalityType
  <1>2. S # {}
    <2> SUFFICES ASSUME S = {} PROVE FALSE
      OBVIOUS
    <2>1. 1 .. k + 1 \in SUBSET (DOMAIN t.mem)
      OBVIOUS
    <2>2. Cardinality(1 .. k + 1) <= k
      BY <2>1, FS_Subset
    <2> DEFINE b == k + 1
    <2>3. 1 \in Int /\ b \in Int /\ b > k /\ b >= 1 /\ Cardinality(1 .. b) <= k
      BY <1>1, <2>2
    <2> HIDE DEF b, k, S
    <2>4. Cardinality(1 .. b) = IF 1 > b THEN 0 ELSE b - 1 + 1
      BY <2>3, FS_Interval
    <2> QED
      BY <1>1, <2>3, <2>4
  <1>3. S \in SUBSET Nat
    OBVIOUS
  <1>4. Fresh(t) = Min(S)
    BY DEF Fresh
  <1> HIDE DEF S
  <1>5. \E m \in S : \A j \in S : m <= j
    BY <1>2, <1>3, Smallest
  <1>6. Min(S) \in S
    BY <1>5 DEF Min
  <1> QED
    BY <1>4, <1>6 DEF S, NIL

\* u is t with one more node.
Adds(t, u, node) ==
    /\ IsTree(u)
    /\ u.mem = With(t.mem, Fresh(t), node)
    /\ u.strings = t.strings + Weight(node)
    /\ u.root = t.root
    /\ u.out = Fresh(t)

\* What the creating functions do to the store.
LEMMA Creations ==
    ASSUME NEW t, IsTree(t), t.strings \in Nat
    PROVE  /\ \A v : Adds(t, CreateLeaf(t, v), [kind |-> "leaf", value |-> v])
           /\ \A s, c : Adds(t, CreateEdge(t, s, c), [kind |-> "edge", str |-> s, next |-> c])
           /\ \A entries, kind : kind \in Branch =>
                 Adds(t, Create(t, [kind |-> kind, entries |-> entries]),
                      [kind |-> kind, entries |-> entries])
  <1> DEFINE id == Fresh(t)
             D == {"mem", "strings", "root", "out"}
  <1>1. ASSUME NEW node
        PROVE  /\ IsTree(Create(t, node))
               /\ Create(t, node).mem = With(t.mem, id, node)
               /\ Create(t, node).strings = t.strings
               /\ Create(t, node).root = t.root
               /\ Create(t, node).out = id
    <2> DEFINE w == With(t.mem, id, node)
               u == [t EXCEPT !.mem = w, !.out = id]
    <2>1. Create(t, node) = u
      BY DEF Create
    <2>2. DOMAIN t = D
      BY DEF IsTree
    <2> HIDE DEF w, id
    <2>3. IsTree(u)
      BY <2>2 DEF IsTree
    <2>4. u.mem = w /\ u.strings = t.strings /\ u.root = t.root /\ u.out = id
      BY <2>2
    <2> HIDE DEF u
    <2> QED
      BY <2>1, <2>3, <2>4 DEF w
  <1>2. \A node : Weight(node) = 0 => Adds(t, Create(t, node), node)
    BY <1>1 DEF Adds
  <1>3. \A v : Weight([kind |-> "leaf", value |-> v]) = 0
    BY DEF Weight
  <1>4. \A entries, kind : kind \in Branch => Weight([kind |-> kind, entries |-> entries]) = 0
    BY DEF Weight, Branch
  <1>5. ASSUME NEW s, NEW c
        PROVE  Adds(t, CreateEdge(t, s, c), [kind |-> "edge", str |-> s, next |-> c])
    <2> DEFINE node == [kind |-> "edge", str |-> s, next |-> c]
               v == Create(t, node)
               u == [v EXCEPT !.strings = @ + Buffers(s)]
    <2>1. Weight(node) = Buffers(s)
      BY DEF Weight
    <2>2. CreateEdge(t, s, c) = u
      BY DEF CreateEdge
    <2> HIDE DEF node
    <2>3. /\ IsTree(v) /\ v.mem = With(t.mem, id, node) /\ v.strings = t.strings
          /\ v.root = t.root /\ v.out = id
      BY <1>1
    <2> HIDE DEF v, id
    <2>4. DOMAIN v = D
      BY <2>3 DEF IsTree
    <2>5. IsTree(u)
      BY <2>4 DEF IsTree
    <2>6. /\ u.mem = v.mem /\ u.strings = v.strings + Buffers(s)
          /\ u.root = v.root /\ u.out = v.out
      BY <2>4
    <2> HIDE DEF u
    <2>7. Adds(t, u, node)
      BY <2>1, <2>3, <2>5, <2>6 DEF Adds, id
    <2> QED
      BY <2>2, <2>7 DEF node
  <1> QED
    BY <1>2, <1>3, <1>4, <1>5 DEF CreateLeaf

\* The long edges are finitely many.
LEMMA Strings ==
    ASSUME NEW t, IsFiniteSet(DOMAIN t.mem), Counted(t)
    PROVE  IsFiniteSet(Long(t)) /\ t.strings = Cardinality(Long(t)) /\ t.strings \in Nat
  <1>1. Long(t) \in SUBSET (DOMAIN t.mem)
    BY DEF Long
  <1>2. IsFiniteSet(Long(t))
    BY <1>1, FS_Subset
  <1> QED
    BY <1>2, FS_CardinalityType DEF Counted

\* The count of string buffers when a node is added,
LEMMA CountedAdd ==
    ASSUME NEW t, IsFiniteSet(DOMAIN t.mem), Counted(t),
           NEW id, id \notin DOMAIN t.mem, NEW node, NEW u,
           u.mem = With(t.mem, id, node), u.strings = t.strings + Weight(node)
    PROVE  Counted(u)
  <1>1. IsFiniteSet(Long(t)) /\ t.strings = Cardinality(Long(t)) /\ t.strings \in Nat
    BY Strings
  <1>2. /\ DOMAIN u.mem = DOMAIN t.mem \cup {id}
        /\ u.mem[id] = node
        /\ \A m \in DOMAIN t.mem : m # id /\ u.mem[m] = t.mem[m]
    BY DEF With
  <1>3. Weight(node) \in {0, 1}
    BY DEF Weight, Buffers
  <1>4. id \notin Long(t)
    BY DEF Long
  <1>5. CASE Weight(node) = 0
    <2>1. Long(u) = Long(t)
      BY <1>2, <1>5 DEF Long
    <2> QED
      BY <1>1, <1>5, <2>1 DEF Counted
  <1>6. CASE Weight(node) = 1
    <2>1. Long(u) = Long(t) \cup {id}
      BY <1>2, <1>6 DEF Long
    <2>2. Cardinality(Long(t) \cup {id}) = Cardinality(Long(t)) + 1
      BY <1>1, <1>4, FS_AddElement
    <2> QED
      BY <1>1, <1>6, <2>1, <2>2 DEF Counted
  <1> QED
    BY <1>3, <1>5, <1>6

\* the store,
LEMMA StockAdd ==
    ASSUME NEW t, NEW P, NEW X, NEW R, NEW H, Stock(t, P, X, R, H),
           NEW id \in Nat \ {NIL}, id \notin DOMAIN t.mem, NEW node, Sound(node),
           NEW L \in Label, NEW u, NEW S,
           IsTree(u), u.mem = With(t.mem, id, node), S \subseteq R \cup {id}
    PROVE  /\ Stock(u, Named(P, id, L), X, S, H)
           /\ \A d : <<id, d>> \notin H
  <1>1. /\ DOMAIN u.mem = DOMAIN t.mem \cup {id}
        /\ u.mem[id] = node
        /\ \A m \in DOMAIN t.mem : m # id /\ u.mem[m] = t.mem[m]
        /\ u.mem = [m \in DOMAIN u.mem |-> u.mem[m]]
    BY DEF With
  <1>2. IsFiniteSet(DOMAIN u.mem)
    BY <1>1, FS_AddElement DEF Stock
  <1>3. DOMAIN u.mem \subseteq Nat \ {NIL} /\ X \subseteq DOMAIN u.mem /\ S \subseteq DOMAIN u.mem
    BY <1>1 DEF Stock
  <1>4. X \cap S = {} /\ \A n \in X : u.mem[n].kind # "leaf"
    BY <1>1 DEF Stock
  <1>5. \A n, d : <<n, d>> \in H => n \in (DOMAIN u.mem \ X) \cup {NIL}
    BY <1>1 DEF Stock
  <1>6. \A n \in DOMAIN u.mem : Sound(u.mem[n])
    BY <1>1 DEF Stock
  <1>7. Named(P, id, L) \in [Nat -> Label] /\ Named(P, id, L)[NIL] = <<>>
    <2>1. P \in [Nat -> Label] /\ P[NIL] = <<>> /\ NIL \in Nat /\ NIL # id /\ id \in Nat
      BY DEF Stock, NIL
    <2>2. \A m \in Nat : m # id => Named(P, id, L)[m] = P[m]
      BY <2>1 DEF Named
    <2>3. Named(P, id, L) \in [Nat -> Label]
      BY <2>1 DEF Named
    <2> QED
      BY <2>1, <2>2, <2>3
  <1>8. \A d : <<id, d>> \notin H
    BY DEF Stock
  <1> HIDE DEF Sound
  <1> QED
    BY <1>1, <1>2, <1>3, <1>4, <1>5, <1>6, <1>7, <1>8 DEF Stock

\* and the map that the leaves hold.
LEMMA LeafyAdd ==
    ASSUME NEW t, NEW P \in [Nat -> Label], NEW M, Leafy(t, P, M), DOMAIN t.mem \subseteq Nat,
           NEW id \in Nat, id \notin DOMAIN t.mem, NEW node, NEW L, NEW u, NEW Q,
           u.mem = With(t.mem, id, node), Q = Named(P, id, L)
    PROVE  /\ node.kind # "leaf" => Leafy(u, Q, M)
           /\ node.kind = "leaf" /\ L \notin DOMAIN M => Leafy(u, Q, With(M, L, node.value))
  <1>1. /\ DOMAIN u.mem = DOMAIN t.mem \cup {id}
        /\ u.mem[id] = node
        /\ \A m \in DOMAIN t.mem : m # id /\ u.mem[m] = t.mem[m]
    BY DEF With
  <1>2. Q[id] = L /\ \A m \in Nat : m # id => Q[m] = P[m]
    BY DEF Named
  <1>3. \A m \in DOMAIN t.mem : m # id /\ u.mem[m] = t.mem[m] /\ Q[m] = P[m]
    BY <1>1, <1>2
  <1>4. ASSUME node.kind # "leaf"
        PROVE  Leafy(u, Q, M)
    BY <1>1, <1>3, <1>4 DEF Leafy
  <1>5. ASSUME node.kind = "leaf", L \notin DOMAIN M
        PROVE  Leafy(u, Q, With(M, L, node.value))
    <2> DEFINE N == With(M, L, node.value)
    <2>1. /\ DOMAIN N = DOMAIN M \cup {L}
          /\ N[L] = node.value
          /\ \A k \in DOMAIN M : k # L /\ N[k] = M[k]
          /\ N = [k \in DOMAIN N |-> N[k]]
      BY <1>5 DEF With
    <2> HIDE DEF N
    <2>2. \A n \in DOMAIN u.mem : u.mem[n].kind = "leaf" =>
             Q[n] \in DOMAIN N /\ N[Q[n]] = u.mem[n].value
      BY <1>1, <1>2, <1>3, <2>1 DEF Leafy
    <2>3. \A k \in DOMAIN N : \E n \in DOMAIN u.mem : u.mem[n].kind = "leaf" /\ Q[n] = k
      BY <1>1, <1>2, <1>3, <1>5, <2>1 DEF Leafy
    <2>4. \A m, n \in DOMAIN u.mem :
             u.mem[m].kind = "leaf" /\ u.mem[n].kind = "leaf" /\ Q[m] = Q[n] => m = n
      <3>1. \A m \in DOMAIN t.mem : t.mem[m].kind = "leaf" => Q[m] # L
        BY <1>3, <1>5 DEF Leafy
      <3>2. \A m, n \in DOMAIN t.mem :
               u.mem[m].kind = "leaf" /\ u.mem[n].kind = "leaf" /\ Q[m] = Q[n] => m = n
        BY <1>3 DEF Leafy
      <3> QED
        BY <1>1, <1>2, <1>3, <3>1, <3>2
    <2>5. Leafy(u, Q, N)
      BY <2>1, <2>2, <2>3, <2>4 DEF Leafy
    <2> QED
      BY <2>5 DEF N
  <1> QED
    BY <1>4, <1>5

\* u, Q has all that t, P has.
Onto(t, P, u, Q) ==
    /\ u.root = t.root
    /\ \A m \in DOMAIN t.mem : m \in DOMAIN u.mem /\ u.mem[m] = t.mem[m] /\ Q[m] = P[m]

\* Additions follow each other.
LEMMA OntoChain ==
    ASSUME NEW t, NEW P, NEW u, NEW Q, NEW w, NEW S, Onto(t, P, u, Q), Onto(u, Q, w, S)
    PROVE  Onto(t, P, w, S)
  BY DEF Onto

\* A node over nodes that nothing refers to, labelled L.
Covers(t, P, R, node, L) ==
    /\ \A d : Has(node, d) =>
          /\ To(node, d) \in R
          /\ Suits(node, d, t.mem[To(node, d)].kind)
          /\ Extends(P[To(node, d)], L, Over(node, d))
    /\ \A d, e : Has(node, d) /\ Has(node, e) /\ To(node, d) = To(node, e) => d = e

Uncovered(R, node, id) == {c \in R : ~ \E d : Has(node, d) /\ To(node, d) = c} \cup {id}

\* A new edge or branch.
LEMMA ForestAdd ==
    ASSUME NEW t, NEW P, NEW X, NEW R, NEW H, NEW M, Forest(t, P, X, R, H, M),
           NEW node, Sound(node), node.kind # "leaf", NEW L \in Label, NEW u, Adds(t, u, node),
           Covers(t, P, R, node, L),
           NEW S, S = Uncovered(R, node, u.out), NEW Q, Q = Named(P, u.out, L)
    PROVE  /\ Forest(u, Q, X, S, H, M)
           /\ Q[u.out] = L /\ Onto(t, P, u, Q)
           /\ u.out \in Nat \ {NIL} /\ u.out \notin DOMAIN t.mem
           /\ DOMAIN u.mem = DOMAIN t.mem \cup {u.out} /\ u.mem[u.out] = node
  <1> DEFINE id == Fresh(t)
  <1>1. /\ IsTree(u) /\ u.mem = With(t.mem, id, node) /\ u.root = t.root /\ u.out = id
        /\ u.strings = t.strings + Weight(node)
    BY DEF Adds
  <1>2. Stock(t, P, X, R, H) /\ Tied(t, P, X, R, H) /\ Counted(t) /\ Leafy(t, P, M)
    BY DEF Forest
  <1>3. /\ IsFiniteSet(DOMAIN t.mem) /\ DOMAIN t.mem \subseteq Nat \ {NIL} /\ P \in [Nat -> Label]
        /\ X \subseteq DOMAIN t.mem /\ R \subseteq DOMAIN t.mem /\ X \cap R = {}
    BY <1>2 DEF Stock
  <1>4. id \in Nat \ {NIL} /\ id \notin DOMAIN t.mem
    BY <1>3, FreshIsFree
  <1> HIDE DEF id
  <1>5. \A c : c \in S <=> c = id \/ (c \in R /\ ~ \E d : Has(node, d) /\ To(node, d) = c)
    BY <1>1 DEF Uncovered
  <1>6. S \subseteq R \cup {id}
    BY <1>5
  <1>q. Q = Named(P, id, L)
    BY <1>1
  <1>7. Stock(u, Q, X, S, H) /\ \A d : <<id, d>> \notin H
    BY <1>1, <1>2, <1>4, <1>6, <1>q, StockAdd
  <1>8. Counted(u)
    BY <1>1, <1>2, <1>3, <1>4, CountedAdd
  <1>9. DOMAIN t.mem \subseteq Nat /\ id \in Nat
    BY <1>3, <1>4
  <1>10. Leafy(u, Q, M)
    BY <1>1, <1>2, <1>3, <1>4, <1>9, <1>q, LeafyAdd
  <1>11. Tied(u, Q, X, S, H)
    <2>1. \A d : Has(node, d) =>
              /\ To(node, d) \in R \cap DOMAIN t.mem
              /\ To(node, d) \notin X
              /\ Suits(node, d, t.mem[To(node, d)].kind)
              /\ Extends(P[To(node, d)], L, Over(node, d))
      BY <1>3 DEF Covers
    <2>2. \A d, e : Has(node, d) /\ Has(node, e) /\ To(node, d) = To(node, e) => d = e
      BY DEF Covers
    <2> QED
      BY <1>1, <1>2, <1>3, <1>4, <1>5, <1>7, <1>9, <1>q, <2>1, <2>2, TiedCreate
  <1>12. /\ DOMAIN u.mem = DOMAIN t.mem \cup {id} /\ u.mem[id] = node
         /\ \A m \in DOMAIN t.mem : m # id /\ u.mem[m] = t.mem[m]
    BY <1>1, <1>4 DEF With
  <1>13. Forest(u, Q, X, S, H, M)
    BY <1>7, <1>8, <1>10, <1>11 DEF Forest
  <1>14. Q[id] = L /\ \A m \in DOMAIN t.mem : Q[m] = P[m]
    <2>1. Q[id] = L /\ \A m \in Nat : m # id => Q[m] = P[m]
      BY <1>3, <1>4, <1>q DEF Named
    <2> QED
      BY <1>3, <1>4, <2>1
  <1>15. Onto(t, P, u, Q)
    BY <1>1, <1>12, <1>14 DEF Onto
  <1> QED
    BY <1>1, <1>4, <1>12, <1>13, <1>14, <1>15

\* What a forest is known to have, for citing.
LEMMA ForestFacts ==
    ASSUME NEW t, NEW P, NEW X, NEW R, NEW H, NEW M, Forest(t, P, X, R, H, M)
    PROVE  /\ IsTree(t) /\ t.strings \in Nat
           /\ t.mem = [n \in DOMAIN t.mem |-> t.mem[n]]
           /\ IsFiniteSet(DOMAIN t.mem) /\ DOMAIN t.mem \subseteq Nat \ {NIL}
           /\ X \subseteq DOMAIN t.mem /\ R \subseteq DOMAIN t.mem /\ X \cap R = {}
           /\ \A n, d : <<n, d>> \in H => n \in (DOMAIN t.mem \ X) \cup {NIL}
           /\ P \in [Nat -> Label] /\ P[NIL] = <<>>
           /\ \A n \in DOMAIN t.mem : Sound(t.mem[n])
  <1>1. Stock(t, P, X, R, H) /\ Counted(t)
    BY DEF Forest
  <1>2. IsFiniteSet(DOMAIN t.mem)
    BY <1>1 DEF Stock
  <1>3. t.strings \in Nat
    BY <1>1, <1>2, Strings
  <1> QED
    BY <1>1, <1>3 DEF Stock

\* The result of a call is not part of the forest.
LEMMA ForestOut ==
    ASSUME NEW t, NEW P, NEW X, NEW R, NEW H, NEW M, Forest(t, P, X, R, H, M),
           NEW u, IsTree(u), u.mem = t.mem, u.strings = t.strings, u.root = t.root
    PROVE  Forest(u, P, X, R, H, M)
  <1>1. Stock(u, P, X, R, H)
    BY DEF Forest, Stock
  <1>2. Tied(u, P, X, R, H)
    <2>1. Tied(t, P, X, R, H)
      BY DEF Forest
    <2>2. \A n, d : Arc(u, X, H, n, d) <=> Arc(t, X, H, n, d)
      BY DEF Arc
    <2>3. \A n, d : Target(u, n, d) = Target(t, n, d)
      BY DEF Target
    <2>4. \A n, d, c : Leads(u, P, n, d, c) <=> Leads(t, P, n, d, c)
      BY DEF Leads
    <2> QED
      BY <2>1, <2>2, <2>3, <2>4 DEF Tied
  <1>3. Counted(u)
    BY DEF Forest, Counted, Long
  <1>4. Leafy(u, P, M)
    BY DEF Forest, Leafy
  <1> QED
    BY <1>1, <1>2, <1>3, <1>4 DEF Forest

\* u has one more leaf, of the key, that nothing refers to.
LeafIn(t, P, X, R, H, N, key, u) ==
    \E Q : /\ Forest(u, Q, X, R \cup {u.out}, H, N)
           /\ Q[u.out] = key /\ Onto(t, P, u, Q)
           /\ u.out \notin DOMAIN t.mem /\ u.mem[u.out].kind = "leaf"

\* radix_tree_create_leaf adds the key to the map.
LEMMA ForestLeaf ==
    ASSUME NEW t, NEW P, NEW X, NEW R, NEW H, NEW M, Forest(t, P, X, R, H, M),
           NEW key \in Label, key \notin DOMAIN M, NEW v \in Values, NEW u, u = CreateLeaf(t, v)
    PROVE  LeafIn(t, P, X, R, H, With(M, key, v), key, u)
  <1> DEFINE id == Fresh(t)
             Q == Named(P, id, key)
             node == [kind |-> "leaf", value |-> v]
             S == R \cup {id}
  <1>0. /\ IsTree(t) /\ t.strings \in Nat
        /\ IsFiniteSet(DOMAIN t.mem) /\ DOMAIN t.mem \subseteq Nat \ {NIL} /\ P \in [Nat -> Label]
        /\ X \subseteq DOMAIN t.mem /\ R \subseteq DOMAIN t.mem /\ X \cap R = {}
    BY ForestFacts
  <1>a. node.kind = "leaf" /\ node.value = v /\ \A d : ~Has(node, d)
    BY DEF Has, Branch
  <1>b. Sound(node)
    BY DEF Sound
  <1>c. Adds(t, u, node)
    BY <1>0, Creations
  <1> HIDE DEF node
  <1>1. /\ IsTree(u) /\ u.mem = With(t.mem, id, node) /\ u.root = t.root /\ u.out = id
        /\ u.strings = t.strings + Weight(node)
    BY <1>c DEF Adds
  <1>2. Stock(t, P, X, R, H) /\ Tied(t, P, X, R, H) /\ Counted(t) /\ Leafy(t, P, M)
    BY DEF Forest
  <1>4. id \in Nat \ {NIL} /\ id \notin DOMAIN t.mem
    BY <1>0, FreshIsFree
  <1> HIDE DEF id
  <1>6. S \subseteq R \cup {id} /\ \A c : c \in S <=> c = id \/ (c \in R /\ ~ \E d : Has(node, d) /\ To(node, d) = c)
    BY <1>a
  <1> HIDE DEF S
  <1>7. Stock(u, Q, X, S, H) /\ \A d : <<id, d>> \notin H
    BY <1>1, <1>2, <1>4, <1>6, <1>b, StockAdd
  <1>8. Counted(u)
    BY <1>0, <1>1, <1>2, <1>4, CountedAdd
  <1>9. Q = Named(P, id, key) /\ DOMAIN t.mem \subseteq Nat /\ id \in Nat
    BY <1>0, <1>4
  <1>9a. Q[id] = key /\ \A m \in DOMAIN t.mem : Q[m] = P[m]
    <2>1. Q[id] = key /\ \A m \in Nat : m # id => Q[m] = P[m]
      BY <1>0, <1>4 DEF Named
    <2> QED
      BY <1>0, <1>4, <2>1
  <1> HIDE DEF Q
  <1>10. Leafy(u, Q, With(M, key, node.value))
    BY <1>0, <1>1, <1>2, <1>4, <1>9, <1>a, LeafyAdd
  <1>11. Tied(u, Q, X, S, H)
    <2>1. \A d : Has(node, d) =>
              /\ To(node, d) \in R \cap DOMAIN t.mem
              /\ To(node, d) \notin X
              /\ Suits(node, d, t.mem[To(node, d)].kind)
              /\ Extends(P[To(node, d)], key, Over(node, d))
      BY <1>a
    <2>2. \A d, e : Has(node, d) /\ Has(node, e) /\ To(node, d) = To(node, e) => d = e
      BY <1>a
    <2> QED
      BY <1>0, <1>1, <1>2, <1>4, <1>6, <1>7, <1>9, <2>1, <2>2, TiedCreate
  <1>12. /\ DOMAIN u.mem = DOMAIN t.mem \cup {id} /\ u.mem[id] = node
         /\ \A m \in DOMAIN t.mem : u.mem[m] = t.mem[m]
    BY <1>1, <1>4 DEF With
  <1>13. Forest(u, Q, X, S, H, With(M, key, v))
    BY <1>7, <1>8, <1>10, <1>11, <1>a DEF Forest
  <1>14. Onto(t, P, u, Q)
    BY <1>1, <1>9a, <1>12 DEF Onto
  <1> QED
    <2>1. Forest(u, Q, X, R \cup {u.out}, H, With(M, key, v))
      BY <1>1, <1>4, <1>13 DEF S
    <2>2. Q[u.out] = key /\ u.out \notin DOMAIN t.mem /\ u.mem[u.out].kind = "leaf"
      BY <1>1, <1>4, <1>9a, <1>12, <1>a
    <2> QED
      BY <1>14, <2>1, <2>2 DEF LeafIn

\* u.out is before the node c, or is c; its label is L.
InFront(t, P, X, R, H, M, L, s, c, u) ==
    \E Q : /\ Forest(u, Q, X, (R \ {c}) \cup {u.out}, H, M)
           /\ Q[u.out] = L /\ Onto(t, P, u, Q)
           /\ u.out \notin R \ {c} /\ u.out \in DOMAIN u.mem
           /\ s = <<>> => u.out = c

\* An edge in front of a node, when there is something to put on it.
LEMMA ForestPrepend ==
    ASSUME NEW t, NEW P, NEW X, NEW R, NEW H, NEW M, Forest(t, P, X, R, H, M),
           NEW s \in Label, NEW L \in Label, NEW c \in R, Extends(P[c], L, s),
           s # <<>> => t.mem[c].kind \in Branch \cup {"leaf"},
           NEW u, u = Prepend(t, s, c)
    PROVE  InFront(t, P, X, R, H, M, L, s, c, u)
  <1>0. /\ IsTree(t) /\ t.strings \in Nat
        /\ DOMAIN t.mem \subseteq Nat \ {NIL} /\ P \in [Nat -> Label]
        /\ R \subseteq DOMAIN t.mem
    BY ForestFacts
  <1>1. Len(s) \in Nat /\ (Len(s) > 0 <=> s # <<>>)
    BY DEF Label
  <1>2. CASE s = <<>>
    <2>1. u = [t EXCEPT !.out = c]
      BY <1>1, <1>2 DEF Prepend
    <2>2. /\ IsTree(u) /\ u.mem = t.mem /\ u.strings = t.strings /\ u.root = t.root /\ u.out = c
      BY <1>0, <2>1 DEF IsTree
    <2>3. Forest(u, P, X, R, H, M)
      BY <2>2, ForestOut
    <2>4. (R \ {c}) \cup {u.out} = R
      BY <2>2
    <2>5. P[c] = L
      <3>1. P[c] \in Label
        BY <1>0
      <3>2. Extends(L, L, <<>>) /\ <<>> \in Label
        BY Whole
      <3> QED
        BY <1>2, <3>1, <3>2, SameExtension
    <2>6. Onto(t, P, u, P)
      BY <2>2 DEF Onto
    <2> QED
      BY <1>0, <1>2, <2>2, <2>3, <2>4, <2>5, <2>6 DEF InFront
  <1>3. CASE s # <<>>
    <2> DEFINE node == [kind |-> "edge", str |-> s, next |-> c]
               Q == Named(P, u.out, L)
               S == (R \ {c}) \cup {u.out}
    <2>1. u = CreateEdge(t, s, c)
      BY <1>1, <1>3 DEF Prepend
    <2>2. Adds(t, u, node)
      BY <1>0, <2>1, Creations
    <2>3. /\ \A d : Has(node, d) <=> d = Immediate
          /\ \A d : To(node, d) = c /\ Over(node, d) = s
          /\ node.kind = "edge"
      BY DEF Has, To, Over, Branch
    <2>4. \A d : Suits(node, d, t.mem[c].kind)
      BY <1>3 DEF Suits, Branch
    <2>5. Sound(node)
      BY <1>3 DEF Sound
    <2> HIDE DEF node
    <2>6. S = Uncovered(R, node, u.out)
      BY <2>3 DEF Uncovered
    <2>7. Covers(t, P, R, node, L)
      BY <2>3, <2>4 DEF Covers
    <2>8. node.kind # "leaf"
      BY <2>3
    <2> HIDE DEF S
    <2>9. Q = Named(P, u.out, L)
      OBVIOUS
    <2> HIDE DEF Q
    <2>10. /\ Forest(u, Q, X, S, H, M)
           /\ Q[u.out] = L /\ Onto(t, P, u, Q)
           /\ u.out \in Nat \ {NIL} /\ u.out \notin DOMAIN t.mem
           /\ DOMAIN u.mem = DOMAIN t.mem \cup {u.out} /\ u.mem[u.out] = node
      BY <2>2, <2>5, <2>6, <2>7, <2>8, <2>9, ForestAdd
    <2> QED
      <3>1. Forest(u, Q, X, (R \ {c}) \cup {u.out}, H, M)
        BY <2>10 DEF S
      <3>2. u.out \notin R \ {c} /\ u.out \in DOMAIN u.mem
        BY <1>0, <2>10
      <3> QED
        BY <1>3, <2>10, <3>1, <3>2 DEF InFront
  <1> QED
    BY <1>2, <1>3

\* u.out is a branch over the nodes a and b; its label is L.
Joined(t, P, X, R, H, M, L, a, b, u) ==
    \E Q : /\ Forest(u, Q, X, (R \ {a, b}) \cup {u.out}, H, M)
           /\ Q[u.out] = L /\ Onto(t, P, u, Q)
           /\ u.out \notin DOMAIN t.mem /\ u.mem[u.out].kind \in Branch

\* A new branch over two nodes.
LEMMA ForestPair ==
    ASSUME NEW t, NEW P, NEW X, NEW R, NEW H, NEW M, Forest(t, P, X, R, H, M),
           NEW L \in Label, NEW a \in R, NEW b \in R, a # b,
           NEW d \in Nibble \cup {Immediate}, NEW e \in Nibble, d # e,
           d = Immediate => t.mem[a].kind = "leaf",
           Extends(P[a], L, IF d = Immediate THEN <<>> ELSE <<d>>), Extends(P[b], L, <<e>>),
           NEW entries, \/ entries = Pair(d, a, e, b)
                        \/ d # Immediate /\ entries = Pair(e, b, d, a),
           NEW u, u = CreateBranch4(t, entries)
    PROVE  Joined(t, P, X, R, H, M, L, a, b, u)
  <1>0. /\ IsTree(t) /\ t.strings \in Nat
        /\ DOMAIN t.mem \subseteq Nat \ {NIL} /\ P \in [Nat -> Label]
        /\ R \subseteq DOMAIN t.mem
    BY ForestFacts
  <1> DEFINE node == [kind |-> "branch4", entries |-> entries]
             Q == Named(P, u.out, L)
             S == (R \ {a, b}) \cup {u.out}
  <1>1. e # Immediate
    BY KeyAssumption DEF Nibble, Immediate
  <1>2. /\ entries = [x \in DOMAIN entries |-> entries[x]]
        /\ DOMAIN entries = {d, e} /\ entries[d] = a /\ entries[e] = b
    BY DEF Pair
  <1>3. Cardinality(DOMAIN entries) = 2
    <2>1. IsFiniteSet({d}) /\ Cardinality({d}) = 1
      BY FS_Singleton
    <2>2. Cardinality({d} \cup {e}) = Cardinality({d}) + 1
      BY <2>1, FS_AddElement
    <2>3. DOMAIN entries = {d} \cup {e}
      BY <1>2
    <2>4. Cardinality(DOMAIN entries) = Cardinality({d} \cup {e})
      BY <2>3, Zenon
    <2>5. Cardinality({d} \cup {e}) = 2
      BY <2>1, <2>2
    <2> QED
      BY <2>4, <2>5, Zenon
  <1>4. Holding("branch4", entries)
    BY <1>2, <1>3, CapAssumption DEF Holding
  <1>5. /\ \A x : Has(node, x) <=> x \in {d, e}
        /\ \A x : To(node, x) = entries[x]
        /\ \A x : Over(node, x) = IF x = Immediate THEN <<>> ELSE <<x>>
        /\ node.kind = "branch4" /\ node.kind \in Branch /\ node.kind # "leaf"
    BY <1>2 DEF Has, To, Over, Branch
  <1>6. Sound(node)
    BY <1>4, <1>5 DEF Sound
  <1>7. Adds(t, u, node)
    BY <1>0, <1>5, Creations DEF CreateBranch4
  <1>8. Suits(node, d, t.mem[a].kind) /\ Suits(node, e, t.mem[b].kind)
    BY <1>1, <1>5 DEF Suits
  <1> HIDE DEF node
  <1>9. S = Uncovered(R, node, u.out)
    BY <1>2, <1>5 DEF Uncovered
  <1> HIDE DEF S
  <1>10. \A x : Has(node, x) =>
              /\ To(node, x) \in R
              /\ Suits(node, x, t.mem[To(node, x)].kind)
              /\ Extends(P[To(node, x)], L, Over(node, x))
    <2>1. /\ To(node, d) \in R
          /\ Suits(node, d, t.mem[To(node, d)].kind)
          /\ Extends(P[To(node, d)], L, Over(node, d))
      BY <1>2, <1>5, <1>8
    <2>2. /\ To(node, e) \in R
          /\ Suits(node, e, t.mem[To(node, e)].kind)
          /\ Extends(P[To(node, e)], L, Over(node, e))
      BY <1>1, <1>2, <1>5, <1>8
    <2> QED
      BY <1>5, <2>1, <2>2
  <1>11. \A x, y : Has(node, x) /\ Has(node, y) /\ To(node, x) = To(node, y) => x = y
    BY <1>2, <1>5
  <1>12. node.kind # "leaf"
    BY <1>5
  <1>13. Covers(t, P, R, node, L)
    BY <1>10, <1>11 DEF Covers
  <1>14. Q = Named(P, u.out, L)
    OBVIOUS
  <1> HIDE DEF Q
  <1>15. /\ Forest(u, Q, X, S, H, M)
         /\ Q[u.out] = L /\ Onto(t, P, u, Q)
         /\ u.out \in Nat \ {NIL} /\ u.out \notin DOMAIN t.mem
         /\ DOMAIN u.mem = DOMAIN t.mem \cup {u.out} /\ u.mem[u.out] = node
    BY <1>6, <1>7, <1>9, <1>12, <1>13, <1>14, ForestAdd
  <1> QED
    BY <1>5, <1>15 DEF S, Joined

\* The pointers of a node that is sound.
LEMMA SoundHas ==
    ASSUME NEW node, Sound(node), NEW d, Has(node, d)
    PROVE  d \in Nibble \cup {Immediate}
  BY DEF Sound, Has, Holding, Branch

\* A pointer about to be overwritten.
LEMMA ForestDetach ==
    ASSUME NEW t, NEW P, NEW X, NEW R, NEW H, NEW M, Forest(t, P, X, R, H, M),
           NEW n, NEW d, Arc(t, X, H, n, d), NEW c, c = Target(t, n, d)
    PROVE  /\ Forest(t, P, X, R \cup {c}, H \cup {<<n, d>>}, M)
           /\ c \in DOMAIN t.mem /\ c \notin X \cup R
           /\ Leads(t, P, n, d, c)
  <1>1. Stock(t, P, X, R, H) /\ Tied(t, P, X, R, H) /\ Counted(t) /\ Leafy(t, P, M)
    BY DEF Forest
  <1>2. /\ Tied(t, P, X, R \cup {c}, H \cup {<<n, d>>})
        /\ c \in DOMAIN t.mem /\ c \notin X \cup R
        /\ Leads(t, P, n, d, c)
    BY <1>1, Detached
  <1>3. n \in (DOMAIN t.mem \ X) \cup {NIL}
    BY DEF Arc
  <1>4. \A m, e : <<m, e>> \in H \cup {<<n, d>>} => m \in (DOMAIN t.mem \ X) \cup {NIL}
    BY <1>1, <1>3 DEF Stock
  <1>5. R \cup {c} \subseteq DOMAIN t.mem /\ X \cap (R \cup {c}) = {}
    BY <1>1, <1>2 DEF Stock
  <1>6. Stock(t, P, X, R \cup {c}, H \cup {<<n, d>>})
    BY <1>1, <1>4, <1>5 DEF Stock
  <1> QED
    BY <1>1, <1>2, <1>6 DEF Forest

\* A node that nothing refers to is given up.
LEMMA ForestGiveUp ==
    ASSUME NEW t, NEW P, NEW X, NEW R, NEW H, NEW M, Forest(t, P, X, R, H, M),
           NEW n \in R, t.mem[n].kind # "leaf", \A d : <<n, d>> \notin H
    PROVE  /\ Forest(t, P, X \cup {n}, (R \ {n}) \cup Heirs(t, n), H, M)
           /\ \A d : Has(t.mem[n], d) =>
                 /\ Leads(t, P, n, d, Target(t, n, d))
                 /\ Target(t, n, d) \notin X \cup R
           /\ \A d, e : Has(t.mem[n], d) /\ Has(t.mem[n], e)
                           /\ Target(t, n, d) = Target(t, n, e) => d = e
  <1>1. Stock(t, P, X, R, H) /\ Tied(t, P, X, R, H) /\ Counted(t) /\ Leafy(t, P, M)
    BY DEF Forest
  <1>2. n \in DOMAIN t.mem /\ n # NIL /\ n \notin X /\ Sound(t.mem[n])
    BY <1>1 DEF Stock
  <1>3. \A d : Has(t.mem[n], d) => d \in Nibble \cup {Immediate} /\ <<n, d>> \notin H
    BY <1>2, SoundHas
  <1>4. /\ Tied(t, P, X \cup {n}, (R \ {n}) \cup Heirs(t, n), H)
        /\ \A d : Has(t.mem[n], d) =>
              /\ Leads(t, P, n, d, Target(t, n, d))
              /\ Target(t, n, d) \notin X \cup R
        /\ \A d, e : Has(t.mem[n], d) /\ Has(t.mem[n], e)
                        /\ Target(t, n, d) = Target(t, n, e) => d = e
    BY <1>1, <1>2, <1>3, GivenUp
  <1>5. \A c \in Heirs(t, n) : c \in DOMAIN t.mem /\ c \notin X \cup R
    BY <1>4 DEF Heirs, Leads
  <1> DEFINE S == (R \ {n}) \cup Heirs(t, n)
  <1>6. S \subseteq DOMAIN t.mem /\ (X \cup {n}) \cap S = {}
    BY <1>1, <1>5 DEF Stock
  <1> HIDE DEF S
  <1>7. \A m, e : <<m, e>> \in H => m \in (DOMAIN t.mem \ (X \cup {n})) \cup {NIL}
    BY <1>1 DEF Stock
  <1>8. Stock(t, P, X \cup {n}, S, H)
    BY <1>1, <1>2, <1>6, <1>7 DEF Stock
  <1>9. Forest(t, P, X \cup {n}, S, H, M)
    BY <1>1, <1>4, <1>8 DEF Forest, S
  <1> QED
    BY <1>4, <1>9 DEF S

\* A node that was given up is removed.
LEMMA ForestRemove ==
    ASSUME NEW t, NEW P, NEW X, NEW R, NEW H, NEW M, Forest(t, P, X, R, H, M),
           NEW x \in X, NEW u, IsTree(u),
           u.mem = [m \in DOMAIN t.mem \ {x} |-> t.mem[m]], u.root = t.root,
           u.strings = t.strings - Weight(t.mem[x])
    PROVE  Forest(u, P, X \ {x}, R, H, M)
  <1>1. Stock(t, P, X, R, H) /\ Tied(t, P, X, R, H) /\ Counted(t) /\ Leafy(t, P, M)
    BY DEF Forest
  <1>2. /\ DOMAIN u.mem = DOMAIN t.mem \ {x} /\ \A m \in DOMAIN u.mem : u.mem[m] = t.mem[m]
        /\ u.mem = [m \in DOMAIN u.mem |-> u.mem[m]]
    OBVIOUS
  <1>3. x # NIL /\ x \in DOMAIN t.mem /\ t.mem[x].kind # "leaf" /\ x \notin R
    BY <1>1 DEF Stock
  <1>4. Tied(u, P, X \ {x}, R, H)
    BY <1>1, <1>3, TiedRemove
  <1>5. Stock(u, P, X \ {x}, R, H)
    <2>1. IsFiniteSet(DOMAIN u.mem)
      BY <1>1, <1>2, FS_RemoveElement DEF Stock
    <2>2. /\ DOMAIN u.mem \subseteq Nat \ {NIL} /\ X \ {x} \subseteq DOMAIN u.mem
          /\ R \subseteq DOMAIN u.mem /\ (X \ {x}) \cap R = {}
          /\ \A n \in X \ {x} : u.mem[n].kind # "leaf"
      BY <1>1, <1>2, <1>3 DEF Stock
    <2>3. \A n, d : <<n, d>> \in H => n \in (DOMAIN u.mem \ (X \ {x})) \cup {NIL}
      BY <1>1, <1>2 DEF Stock
    <2>4. \A n \in DOMAIN u.mem : Sound(u.mem[n])
      BY <1>1, <1>2 DEF Stock
    <2>5. P \in [Nat -> Label] /\ P[NIL] = <<>>
      BY <1>1 DEF Stock
    <2> QED
      BY <1>2, <2>1, <2>2, <2>3, <2>4, <2>5 DEF Stock
  <1>6. Counted(u)
    <2>1. IsFiniteSet(Long(t)) /\ t.strings = Cardinality(Long(t)) /\ t.strings \in Nat
      BY <1>1, Strings DEF Stock
    <2>2. Long(u) = Long(t) \ {x}
      BY <1>2 DEF Long
    <2>3. Cardinality(Long(t) \ {x}) = IF x \in Long(t) THEN Cardinality(Long(t)) - 1
                                                         ELSE Cardinality(Long(t))
      BY <2>1, FS_RemoveElement
    <2>4. Weight(t.mem[x]) \in {0, 1}
      BY DEF Weight, Buffers
    <2>5. x \in Long(t) <=> Weight(t.mem[x]) = 1
      BY <1>3 DEF Long
    <2>6. u.strings = Cardinality(Long(t) \ {x})
      BY <2>1, <2>3, <2>4, <2>5
    <2> QED
      BY <2>2, <2>6 DEF Counted
  <1>7. Leafy(u, P, M)
    BY <1>1, <1>2, <1>3 DEF Leafy
  <1> QED
    BY <1>4, <1>5, <1>6, <1>7 DEF Forest

\* u is t with the node n rewritten; all but its root and its count of strings.
Alters(t, u, n, node) ==
    /\ IsTree(u) /\ DOMAIN u.mem = DOMAIN t.mem /\ u.mem[n] = node
    /\ u.mem = [m \in DOMAIN u.mem |-> u.mem[m]]
    /\ \A m \in DOMAIN t.mem : m # n => u.mem[m] = t.mem[m]

\* node is old with the pointer d, which now leads to c.
Repoints(old, node, d, c) ==
    /\ node.kind = old.kind /\ node.kind # "leaf"
    /\ Has(node, d) /\ To(node, d) = c
    /\ \A e : e # d =>
          /\ Has(node, e) <=> Has(old, e)
          /\ Has(node, e) => To(node, e) = To(old, e) /\ Over(node, e) = Over(old, e)

\* A pointer of a node is written, with what else of the node changes.
LEMMA ForestLink ==
    ASSUME NEW t, NEW P, NEW X, NEW R, NEW H, NEW M, Forest(t, P, X, R, H, M),
           NEW n \in DOMAIN t.mem, n \notin X, NEW node, Sound(node),
           NEW d, NEW c \in R, Repoints(t.mem[n], node, d, c),
           <<n, d>> \in H \/ ~Has(t.mem[n], d),
           Suits(node, d, t.mem[c].kind), Extends(P[c], P[n], Over(node, d)),
           NEW u, Alters(t, u, n, node),
           u.root = t.root, u.strings = t.strings - (Weight(t.mem[n]) - Weight(node))
    PROVE  Forest(u, P, X, R \ {c}, H \ {<<n, d>>}, M)
  <1>a. /\ IsTree(u) /\ DOMAIN u.mem = DOMAIN t.mem /\ u.mem[n] = node
        /\ u.mem = [m \in DOMAIN u.mem |-> u.mem[m]]
        /\ \A m \in DOMAIN t.mem : m # n => u.mem[m] = t.mem[m]
    BY DEF Alters
  <1>b. /\ node.kind = t.mem[n].kind /\ node.kind # "leaf"
        /\ Has(node, d) /\ To(node, d) = c
        /\ \A e : e # d =>
              /\ Has(node, e) <=> Has(t.mem[n], e)
              /\ Has(node, e) =>
                    To(node, e) = To(t.mem[n], e) /\ Over(node, e) = Over(t.mem[n], e)
    BY DEF Repoints
  <1> USE <1>a, <1>b
  <1> DEFINE G == H \ {<<n, d>>}
             S == R \ {c}
  <1>1. Stock(t, P, X, R, H) /\ Tied(t, P, X, R, H) /\ Counted(t) /\ Leafy(t, P, M)
    BY DEF Forest
  <1>2. /\ n # NIL /\ R \subseteq DOMAIN t.mem /\ X \subseteq DOMAIN t.mem /\ X \cap R = {}
        /\ \A m \in DOMAIN t.mem : Sound(t.mem[m])
        /\ DOMAIN t.mem \subseteq Nat \ {NIL}
    BY <1>1 DEF Stock
  <1>3. \A m \in DOMAIN t.mem : u.mem[m].kind = t.mem[m].kind
    OBVIOUS
  <1>4. Stock(u, P, X, S, G)
    <2>1. \A m \in DOMAIN u.mem : Sound(u.mem[m])
      BY <1>2
    <2>2. \A m, e : <<m, e>> \in G => m \in (DOMAIN u.mem \ X) \cup {NIL}
      BY <1>1 DEF Stock
    <2>3. \A m \in X : u.mem[m].kind # "leaf"
      BY <1>1, <1>3 DEF Stock
    <2>4. IsFiniteSet(DOMAIN u.mem) /\ P \in [Nat -> Label] /\ P[NIL] = <<>>
      BY <1>1 DEF Stock
    <2> HIDE DEF G
    <2> QED
      BY <1>2, <2>1, <2>2, <2>3, <2>4 DEF Stock
  <1>5. Tied(u, P, X, S, G)
    <2>1. \A m, e : Arc(u, X, G, m, e) <=> Arc(t, X, H, m, e) \/ (m = n /\ e = d)
      <3>1. \A m, e : m # n => (Arc(u, X, G, m, e) <=> Arc(t, X, H, m, e))
        BY DEF Arc
      <3>2. \A e : e # d => (Arc(u, X, G, n, e) <=> Arc(t, X, H, n, e))
        BY <1>2 DEF Arc
      <3>3. Arc(u, X, G, n, d)
        BY <1>2 DEF Arc
      <3> QED
        BY <3>1, <3>2, <3>3
    <2>2. ~Arc(t, X, H, n, d)
      BY <1>2 DEF Arc
    <2>3. Target(u, n, d) = c
      BY <1>2 DEF Target
    <2>4. Leads(u, P, n, d, c)
      BY <1>2, <1>3 DEF Leads
    <2>5. ASSUME NEW m, NEW e, Arc(t, X, H, m, e)
          PROVE  /\ Target(u, m, e) = Target(t, m, e)
                 /\ Leads(t, P, m, e, Target(t, m, e)) => Leads(u, P, m, e, Target(t, m, e))
      <3>1. CASE m = NIL
        BY <1>2, <1>3, <3>1 DEF Target, Leads
      <3>2. CASE m # NIL /\ m # n
        <4>1. m \in DOMAIN t.mem /\ u.mem[m] = t.mem[m]
          BY <2>5, <3>2 DEF Arc
        <4>2. Target(u, m, e) = Target(t, m, e)
          BY <3>2, <4>1 DEF Target
        <4> QED
          BY <1>3, <3>2, <4>1, <4>2 DEF Leads
      <3>3. CASE m = n
        <4>1. e # d /\ Has(t.mem[n], e)
          BY <1>2, <2>2, <2>5, <3>3 DEF Arc
        <4>2. To(node, e) = To(t.mem[n], e) /\ Over(node, e) = Over(t.mem[n], e)
          BY <4>1
        <4>3. Target(u, m, e) = Target(t, m, e)
          BY <1>2, <3>3, <4>2 DEF Target
        <4>4. \A k : Suits(node, e, k) <=> Suits(t.mem[n], e, k)
          BY DEF Suits
        <4> QED
          BY <1>2, <1>3, <3>3, <4>2, <4>3, <4>4 DEF Leads
      <3> QED
        BY <3>1, <3>2, <3>3
    <2>6. c \notin X
      BY <1>2
    <2> HIDE DEF G
    <2> QED
      BY <1>1, <2>1, <2>2, <2>3, <2>4, <2>5, <2>6, TiedLink
  <1>6. Counted(u)
    <2>1. IsFiniteSet(Long(t)) /\ t.strings = Cardinality(Long(t)) /\ t.strings \in Nat
      BY <1>1, Strings DEF Stock
    <2>2. /\ Cardinality(Long(t) \cup {n}) = IF n \in Long(t) THEN Cardinality(Long(t))
                                                             ELSE Cardinality(Long(t)) + 1
          /\ Cardinality(Long(t) \ {n}) = IF n \in Long(t) THEN Cardinality(Long(t)) - 1
                                                          ELSE Cardinality(Long(t))
      BY <2>1, FS_RemoveElement, FS_AddElement
    <2>3. Weight(t.mem[n]) \in {0, 1} /\ Weight(node) \in {0, 1}
      BY DEF Weight, Buffers
    <2>4. n \in Long(t) <=> Weight(t.mem[n]) = 1
      BY DEF Long
    <2>5. CASE Weight(node) = 1
      <3>1. Long(u) = Long(t) \cup {n}
        BY <2>5 DEF Long
      <3>2. u.strings = Cardinality(Long(t) \cup {n})
        BY <2>1, <2>2, <2>3, <2>4, <2>5
      <3> QED
        BY <3>1, <3>2 DEF Counted
    <2>6. CASE Weight(node) = 0
      <3>1. Long(u) = Long(t) \ {n}
        BY <2>6 DEF Long
      <3>2. u.strings = Cardinality(Long(t) \ {n})
        BY <2>1, <2>2, <2>3, <2>4, <2>6
      <3> QED
        BY <3>1, <3>2 DEF Counted
    <2> QED
      BY <2>3, <2>5, <2>6
  <1>7. Leafy(u, P, M)
    <2>1. \A m \in DOMAIN t.mem : t.mem[m].kind = "leaf" => u.mem[m] = t.mem[m]
      OBVIOUS
    <2> QED
      BY <1>1, <1>3, <2>1 DEF Leafy
  <1> QED
    BY <1>4, <1>5, <1>6, <1>7 DEF Forest

-----------------------------------------------------------------------------
(* The calls that write pointers. *)

\* The root is set.
LEMMA LinkRoot ==
    ASSUME NEW t, NEW P, NEW X, NEW R, NEW H, NEW M, Forest(t, P, X, R, H, M),
           <<NIL, Immediate>> \in H \/ t.root = NIL,
           NEW c \in R, P[c] = <<>>, NEW u, u = [t EXCEPT !.root = c]
    PROVE  Forest(u, P, X, R \ {c}, H \ {<<NIL, Immediate>>}, M)
  <1> DEFINE G == H \ {<<NIL, Immediate>>}
             S == R \ {c}
  <1>1. Stock(t, P, X, R, H) /\ Tied(t, P, X, R, H) /\ Counted(t) /\ Leafy(t, P, M)
    BY DEF Forest
  <1>2. /\ R \subseteq DOMAIN t.mem /\ X \subseteq DOMAIN t.mem /\ X \cap R = {}
        /\ DOMAIN t.mem \subseteq Nat \ {NIL}
        /\ IsTree(t) /\ P[NIL] = <<>>
    BY <1>1 DEF Stock
  <1>3. /\ IsTree(u) /\ u.mem = t.mem /\ u.root = c /\ u.strings = t.strings
        /\ c # NIL /\ c \in DOMAIN t.mem /\ c \notin X
    BY <1>2 DEF IsTree
  <1>4. Stock(u, P, X, S, G)
    BY <1>1, <1>3 DEF Stock
  <1>5. Tied(u, P, X, S, G)
    <2>1. \A m, e : Arc(u, X, G, m, e) <=> Arc(t, X, H, m, e) \/ (m = NIL /\ e = Immediate)
      <3>1. \A m, e : m # NIL => (Arc(u, X, G, m, e) <=> Arc(t, X, H, m, e))
        BY <1>3 DEF Arc
      <3>2. \A e : e # Immediate => ~Arc(u, X, G, NIL, e) /\ ~Arc(t, X, H, NIL, e)
        BY <1>2, <1>3 DEF Arc
      <3>3. Arc(u, X, G, NIL, Immediate)
        BY <1>2, <1>3 DEF Arc
      <3> QED
        BY <3>1, <3>2, <3>3
    <2>2. ~Arc(t, X, H, NIL, Immediate)
      BY <1>2 DEF Arc
    <2>3. Target(u, NIL, Immediate) = c
      BY <1>3 DEF Target
    <2>4. Leads(u, P, NIL, Immediate, c)
      <3>1. <<>> \in Label /\ Extends(<<>>, <<>>, <<>>)
        <4>1. <<>> \in Label /\ Len(<<>>) = 0
          BY DEF Label
        <4> QED
          BY <4>1 DEF Extends
      <3> QED
        BY <1>2, <1>3, <3>1 DEF Leads
    <2>5. ASSUME NEW m, NEW e, Arc(t, X, H, m, e)
          PROVE  /\ Target(u, m, e) = Target(t, m, e)
                 /\ Leads(t, P, m, e, Target(t, m, e)) => Leads(u, P, m, e, Target(t, m, e))
      <3>1. m # NIL
        BY <1>2, <2>2, <2>5 DEF Arc
      <3> QED
        BY <1>3, <3>1 DEF Target, Leads
    <2>6. DOMAIN u.mem = DOMAIN t.mem
      BY <1>3
    <2> HIDE DEF G
    <2> QED
      BY <1>1, <1>3, <2>1, <2>2, <2>3, <2>4, <2>5, <2>6, TiedLink
  <1>6. Counted(u)
    BY <1>1, <1>3 DEF Counted, Long
  <1>7. Leafy(u, P, M)
    BY <1>1, <1>3 DEF Leafy
  <1> QED
    BY <1>4, <1>5, <1>6, <1>7 DEF Forest

\* The parts of a tree in which one node is rewritten.
Rewrite(t, n, node) == [t EXCEPT !.mem = [t.mem EXCEPT ![n] = node]]

\* A node is written anew, in place.
LEMMA Rewritten ==
    ASSUME NEW t, NEW P, NEW X, NEW R, NEW H, NEW M, Forest(t, P, X, R, H, M),
           NEW n \in DOMAIN t.mem, NEW node,
           NEW u, u = Rewrite(t, n, node)
    PROVE  /\ Alters(t, u, n, node)
           /\ u.root = t.root /\ u.strings = t.strings /\ u.out = t.out
  <1>1. IsTree(t)
    BY ForestFacts
  <1> DEFINE w == [t.mem EXCEPT ![n] = node]
  <1>2. /\ DOMAIN w = DOMAIN t.mem /\ w[n] = node /\ w = [m \in DOMAIN w |-> w[m]]
        /\ \A m \in DOMAIN t.mem : m # n => w[m] = t.mem[m]
    OBVIOUS
  <1>3. u = [t EXCEPT !.mem = w]
    BY DEF Rewrite
  <1> HIDE DEF w
  <1>4. IsTree(u) /\ u.mem = w /\ u.root = t.root /\ u.strings = t.strings /\ u.out = t.out
    BY <1>1, <1>3 DEF IsTree
  <1> QED
    BY <1>2, <1>4 DEF Alters

\* The next of an edge is set.
LEMMA LinkEdge ==
    ASSUME NEW t, NEW P, NEW X, NEW R, NEW H, NEW M, Forest(t, P, X, R, H, M),
           NEW n \in DOMAIN t.mem, n \notin X, t.mem[n].kind = "edge",
           <<n, Immediate>> \in H,
           NEW c \in R, t.mem[c].kind \in Branch \cup {"leaf"}, Extends(P[c], P[n], t.mem[n].str),
           NEW u, u = [t EXCEPT !.mem[n].next = c]
    PROVE  Forest(u, P, X, R \ {c}, H \ {<<n, Immediate>>}, M)
  <1> DEFINE old == t.mem[n]
             node == [old EXCEPT !.next = c]
  <1>1. Sound(old) /\ old.kind = "edge"
    BY ForestFacts
  <1>2. old = [kind |-> "edge", str |-> old.str, next |-> old.next] /\ old.str \in Label \ {<<>>}
    BY <1>1 DEF Sound, Branch
  <1>3. node = [kind |-> "edge", str |-> old.str, next |-> c]
    BY <1>2
  <1>4. u = Rewrite(t, n, node)
    BY DEF Rewrite
  <1> HIDE DEF old, node
  <1>5. node.kind = "edge" /\ node.str = old.str /\ node.next = c
    BY <1>3
  <1>6. Sound(node)
    BY <1>2, <1>3, <1>5 DEF Sound
  <1>7. Has(node, Immediate) /\ To(node, Immediate) = c /\ Over(node, Immediate) = old.str
    BY <1>5 DEF Has, To, Over
  <1>8. \A e : e # Immediate => ~Has(node, e) /\ ~Has(old, e)
    BY <1>1, <1>5 DEF Has, Branch
  <1>9. Suits(node, Immediate, t.mem[c].kind)
    BY <1>5 DEF Suits, Branch
  <1>10. Weight(node) = Weight(old) /\ Weight(old) \in Nat
    BY <1>1, <1>5 DEF Weight, Buffers
  <1>11. Alters(t, u, n, node) /\ u.root = t.root /\ u.strings = t.strings
    BY <1>4, Rewritten
  <1>12. t.strings \in Nat
    BY ForestFacts
  <1>13. u.strings = t.strings - (Weight(t.mem[n]) - Weight(node))
    BY <1>10, <1>11, <1>12 DEF old
  <1>14. \A e : e # Immediate =>
              /\ Has(node, e) <=> Has(t.mem[n], e)
              /\ Has(node, e) =>
                    To(node, e) = To(t.mem[n], e) /\ Over(node, e) = Over(t.mem[n], e)
    BY <1>8 DEF old
  <1>15. Extends(P[c], P[n], Over(node, Immediate))
    BY <1>7 DEF old
  <1>16. Repoints(t.mem[n], node, Immediate, c)
    BY <1>1, <1>5, <1>7, <1>14 DEF Repoints, old
  <1> QED
    BY <1>6, <1>9, <1>11, <1>13, <1>15, <1>16, ForestLink

\* An edge is cut short and its next set.
LEMMA LinkShort ==
    ASSUME NEW t, NEW P, NEW X, NEW R, NEW H, NEW M, Forest(t, P, X, R, H, M),
           NEW n \in DOMAIN t.mem, n \notin X, t.mem[n].kind = "edge",
           <<n, Immediate>> \in H, NEW m \in 1 .. Len(t.mem[n].str),
           NEW c \in R, t.mem[c].kind \in Branch \cup {"leaf"},
           Extends(P[c], P[n], First(t.mem[n].str, m)),
           NEW u, u = Shorten(t, n, m, c)
    PROVE  Forest(u, P, X, R \ {c}, H \ {<<n, Immediate>>}, M)
  <1> DEFINE old == t.mem[n]
             kept == First(old.str, m)
             node == [kind |-> "edge", str |-> kept, next |-> c]
             w == [t.mem EXCEPT ![n] = node]
             strings == t.strings - (Buffers(old.str) - Buffers(kept))
  <1>1. Sound(old) /\ old.kind = "edge"
    BY ForestFacts
  <1>2. old = [kind |-> "edge", str |-> old.str, next |-> old.next] /\ old.str \in Label \ {<<>>}
    BY <1>1 DEF Sound, Branch
  <1>3. kept \in Label /\ kept # <<>>
    <2>1. m \in 0 .. Len(old.str) /\ m # 0
      BY <1>2, Whole
    <2>2. kept \in Label /\ Len(kept) = m
      BY <1>2, <2>1, Parts
    <2> QED
      BY <2>1, <2>2 DEF Label
  <1>a. IsTree(t) /\ t.strings \in Nat /\ t.mem = [x \in DOMAIN t.mem |-> t.mem[x]]
    BY ForestFacts
  <1>4. IsTree(u) /\ u.mem = w /\ u.root = t.root /\ u.strings = strings
    <2> DEFINE mem == t.mem
    <2>0. u = [t EXCEPT !.mem[n].str = kept, !.mem[n].next = c,
                        !.strings = @ - (Buffers(old.str) - Buffers(kept))]
      BY DEF Shorten, First
    <2> HIDE DEF kept
    <2>1. IsTree(u) /\ u.root = t.root /\ u.strings = strings
      BY <1>a, <2>0 DEF IsTree
    <2>2. u.mem = [[mem EXCEPT ![n].str = kept] EXCEPT ![n].next = c]
      BY <1>a, <2>0 DEF IsTree
    <2>3. \A x \in DOMAIN mem : u.mem[x] = IF x = n THEN [[old EXCEPT !.str = kept] EXCEPT !.next = c]
                                                    ELSE mem[x]
      BY <2>2
    <2>4. [[old EXCEPT !.str = kept] EXCEPT !.next = c] = node
      <3> DEFINE a == [old EXCEPT !.str = kept]
      <3>1. a = [kind |-> "edge", str |-> kept, next |-> old.next]
        BY <1>2
      <3> HIDE DEF a
      <3>2. [a EXCEPT !.next = c] = node
        BY <3>1
      <3> QED
        BY <3>2 DEF a
    <2>5. DOMAIN u.mem = DOMAIN mem /\ u.mem = [x \in DOMAIN mem |-> u.mem[x]]
      BY <2>2
    <2> HIDE DEF node
    <2>6. u.mem = w
      BY <1>a, <2>3, <2>4, <2>5
    <2> QED
      BY <2>1, <2>6
  <1>5. node.kind = "edge" /\ node.str = kept /\ node.next = c
    OBVIOUS
  <1>6. Sound(node)
    BY <1>3 DEF Sound
  <1> HIDE DEF node, kept
  <1>7. Has(node, Immediate) /\ To(node, Immediate) = c /\ Over(node, Immediate) = kept
    BY <1>5 DEF Has, To, Over
  <1>8. \A e : e # Immediate => ~Has(node, e) /\ ~Has(old, e)
    BY <1>1, <1>5 DEF Has, Branch
  <1>9. Suits(node, Immediate, t.mem[c].kind)
    BY <1>5 DEF Suits, Branch
  <1>10. Weight(node) = Buffers(kept) /\ Weight(old) = Buffers(old.str)
    BY <1>1, <1>5 DEF Weight
  <1>11. Alters(t, u, n, node)
    BY <1>4 DEF Alters
  <1>13. u.strings = t.strings - (Weight(t.mem[n]) - Weight(node))
    BY <1>4, <1>10
  <1>14. \A e : e # Immediate =>
              /\ Has(node, e) <=> Has(t.mem[n], e)
              /\ Has(node, e) =>
                    To(node, e) = To(t.mem[n], e) /\ Over(node, e) = Over(t.mem[n], e)
    BY <1>8
  <1>15. Extends(P[c], P[n], Over(node, Immediate))
    BY <1>7 DEF kept
  <1>16. Repoints(t.mem[n], node, Immediate, c)
    BY <1>1, <1>5, <1>7, <1>14 DEF Repoints
  <1> HIDE DEF w, strings
  <1> QED
    BY <1>4, <1>6, <1>9, <1>11, <1>13, <1>15, <1>16, ForestLink

\* The entries of a branch are finitely many; one more is counted.
LEMMA EntriesFinite ==
    ASSUME NEW S, S \subseteq Nibble \cup {Immediate}
    PROVE  /\ IsFiniteSet(S) /\ Cardinality(S) \in Nat
           /\ \A d : Cardinality(S \cup {d}) = IF d \in S THEN Cardinality(S) ELSE Cardinality(S) + 1
  <1>1. Branches \in Nat /\ 0 \in Int /\ Branches \in Int
    BY KeyAssumption
  <1>2. IsFiniteSet(0 .. Branches)
    BY <1>1, FS_Interval
  <1>3. S \in SUBSET (0 .. Branches)
    BY <1>1 DEF Nibble, Immediate
  <1>4. IsFiniteSet(S)
    BY <1>2, <1>3, FS_Subset
  <1> QED
    BY <1>4, FS_CardinalityType, FS_AddElement

\* A branch with one more entry, or with one entry changed, when it fits.
LEMMA HoldsMore ==
    ASSUME NEW b, Sound(b), b.kind \in Branch, NEW d \in Nibble \cup {Immediate}, NEW c
    PROVE  /\ Fits(b, d) => Holding(b.kind, With(b.entries, d, c))
           /\ ~Fits(b, d) => /\ Holding(Larger(b, d), With(b.entries, d, c))
                             /\ Larger(b, d) \in Branch
                             /\ d \notin DOMAIN b.entries
  <1> DEFINE S == DOMAIN b.entries
             f == With(b.entries, d, c)
             k == Cardinality(S)
  <1>1. Holding(b.kind, b.entries)
    BY DEF Sound, Branch
  <1>2. S \subseteq Nibble \cup {Immediate} /\ k >= 2
    BY <1>1 DEF Holding
  <1>3. /\ k \in Nat
        /\ Cardinality(S \cup {d}) = IF d \in S THEN k ELSE k + 1
    BY <1>2, EntriesFinite
  <1>4. DOMAIN f = S \cup {d} /\ f = [x \in DOMAIN f |-> f[x]]
    BY DEF With
  <1>5. Cardinality(DOMAIN f) = IF d \in S THEN k ELSE k + 1
    BY <1>3, <1>4
  <1>6. /\ b.kind = "branch4" => k <= Cap4
        /\ b.kind = "branch8" => k <= Cap8
        /\ b.kind = "branch16" => Immediate \notin S
    BY <1>1 DEF Holding
  <1>7. Cap4 \in Nat /\ Cap8 \in Nat /\ Cap4 < Cap8
    BY CapAssumption
  <1>8. DOMAIN f \subseteq Nibble \cup {Immediate} /\ Cardinality(DOMAIN f) >= 2
    BY <1>2, <1>3, <1>4, <1>5
  <1>9. Fits(b, d) <=> \/ d \in S
                       \/ b.kind = "branch4" /\ k < Cap4
                       \/ b.kind = "branch8" /\ k < Cap8
                       \/ b.kind = "branch16" /\ d # Immediate
                       \/ b.kind = "full"
    BY DEF Fits
  <1>10. Larger(b, d) = CASE b.kind = "branch4" -> "branch8"
                          [] b.kind = "branch8" /\ Immediate \notin S \cup {d} -> "branch16"
                          [] OTHER -> "full"
    BY DEF Larger
  <1>a. /\ b.kind # "branch4" /\ ~(b.kind = "branch8" /\ Immediate \notin S \cup {d}) => Larger(b, d) = "full"
        /\ b.kind = "branch4" => Larger(b, d) = "branch8"
        /\ b.kind = "branch8" /\ Immediate \notin S \cup {d} => Larger(b, d) = "branch16"
    BY <1>10
  <1> HIDE DEF f, S, k
  <1>11. ASSUME Fits(b, d)
         PROVE  Holding(b.kind, f)
    BY <1>3, <1>4, <1>5, <1>6, <1>7, <1>8, <1>9, <1>11 DEF Holding
  <1>12. ASSUME ~Fits(b, d)
         PROVE  Holding(Larger(b, d), f) /\ Larger(b, d) \in Branch /\ d \notin S
    <2>1. d \notin S
      BY <1>9, <1>12
    <2>2. CASE b.kind = "branch4"
      BY <1>3, <1>4, <1>5, <1>6, <1>7, <1>8, <1>a, <2>1, <2>2 DEF Holding, Branch
    <2>3. CASE b.kind = "branch8" /\ Immediate \notin S \cup {d}
      BY <1>4, <1>8, <1>a, <2>1, <2>3 DEF Holding, Branch
    <2>4. CASE b.kind # "branch4" /\ ~(b.kind = "branch8" /\ Immediate \notin S \cup {d})
      BY <1>4, <1>8, <1>a, <2>1, <2>4 DEF Holding, Branch
    <2> QED
      BY <2>2, <2>3, <2>4
  <1> QED
    BY <1>11, <1>12 DEF f, S

\* The pointers of a branch.
LEMMA BranchPointers ==
    ASSUME NEW b, b.kind \in Branch
    PROVE  /\ \A x : Has(b, x) <=> x \in DOMAIN b.entries
           /\ \A x : To(b, x) = b.entries[x]
           /\ \A x : Over(b, x) = IF x = Immediate THEN <<>> ELSE <<x>>
           /\ \A x, kind : (x = Immediate => kind = "leaf") => Suits(b, x, kind)
           /\ b.kind # "leaf" /\ b.kind # "edge" /\ Weight(b) = 0
  BY DEF Has, To, Over, Suits, Branch, Weight

\* An entry of a branch that has a slot for it is set.
LEMMA LinkBranch ==
    ASSUME NEW t, NEW P, NEW X, NEW R, NEW H, NEW M, Forest(t, P, X, R, H, M),
           NEW n \in DOMAIN t.mem, n \notin X, t.mem[n].kind \in Branch,
           NEW d \in Nibble \cup {Immediate}, Fits(t.mem[n], d),
           <<n, d>> \in H \/ d \notin DOMAIN t.mem[n].entries,
           NEW c \in R, d = Immediate => t.mem[c].kind = "leaf",
           Extends(P[c], P[n], IF d = Immediate THEN <<>> ELSE <<d>>),
           NEW u, u = InsertIntoBranchOrGrow(t, n, d, c)
    PROVE  /\ Forest(u, P, X, R \ {c}, H \ {<<n, d>>}, M)
           /\ u.out = NIL
  <1> DEFINE old == t.mem[n]
             entries == With(old.entries, d, c)
             node == [kind |-> old.kind, entries |-> entries]
             w == [t.mem EXCEPT ![n] = node]
  <1>1. Sound(old) /\ IsTree(t) /\ t.mem = [x \in DOMAIN t.mem |-> t.mem[x]] /\ t.strings \in Nat
    BY ForestFacts
  <1>2. old = [kind |-> old.kind, entries |-> old.entries]
    BY <1>1 DEF Sound, Branch
  <1>3. Holding(old.kind, entries)
    BY <1>1, HoldsMore
  <1>4. /\ DOMAIN entries = DOMAIN old.entries \cup {d} /\ entries[d] = c
        /\ \A x \in DOMAIN old.entries : x # d => entries[x] = old.entries[x]
    BY DEF With
  <1>5. u = [t EXCEPT !.mem[n].entries = entries, !.out = NIL]
    BY DEF InsertIntoBranchOrGrow
  <1> HIDE DEF entries
  <1>6. IsTree(u) /\ u.mem = w /\ u.root = t.root /\ u.strings = t.strings /\ u.out = NIL
    <2> DEFINE mem == t.mem
    <2>1. IsTree(u) /\ u.root = t.root /\ u.strings = t.strings /\ u.out = NIL
      BY <1>1, <1>5 DEF IsTree
    <2>2. u.mem = [mem EXCEPT ![n].entries = entries]
      BY <1>1, <1>5 DEF IsTree
    <2>3. \A x \in DOMAIN mem : u.mem[x] = IF x = n THEN [old EXCEPT !.entries = entries] ELSE mem[x]
      BY <2>2
    <2>4. [old EXCEPT !.entries = entries] = node
      BY <1>2
    <2>5. DOMAIN u.mem = DOMAIN mem /\ u.mem = [x \in DOMAIN mem |-> u.mem[x]]
      BY <2>2
    <2> HIDE DEF node
    <2>6. u.mem = w
      BY <1>1, <2>3, <2>4, <2>5
    <2> QED
      BY <2>1, <2>6
  <1>7. node.kind = old.kind /\ node.kind \in Branch /\ node.entries = entries
    OBVIOUS
  <1>8. Sound(node)
    BY <1>3 DEF Sound
  <1> HIDE DEF node
  <1>9. /\ \A x : Has(node, x) <=> x \in DOMAIN entries
        /\ \A x : To(node, x) = entries[x]
        /\ \A x : Over(node, x) = IF x = Immediate THEN <<>> ELSE <<x>>
        /\ \A x, kind : (x = Immediate => kind = "leaf") => Suits(node, x, kind)
        /\ node.kind # "leaf" /\ Weight(node) = 0
    BY <1>7, BranchPointers
  <1>10. /\ \A x : Has(old, x) <=> x \in DOMAIN old.entries
         /\ \A x : To(old, x) = old.entries[x]
         /\ \A x : Over(old, x) = IF x = Immediate THEN <<>> ELSE <<x>>
         /\ Weight(old) = 0
    BY BranchPointers
  <1> HIDE DEF old
  <1>11. Repoints(old, node, d, c)
    <2>1. \A e : e # d => (Has(node, e) <=> Has(old, e))
      BY <1>4, <1>9, <1>10
    <2>2. \A e : e # d /\ Has(node, e) => To(node, e) = To(old, e)
      BY <1>4, <1>9, <1>10
    <2>3. \A e : Over(node, e) = Over(old, e)
      BY <1>9, <1>10
    <2>4. Has(node, d) /\ To(node, d) = c
      BY <1>4, <1>9
    <2> QED
      BY <1>7, <1>9, <2>1, <2>2, <2>3, <2>4 DEF Repoints
  <1>12. Alters(t, u, n, node)
    BY <1>6 DEF Alters, old
  <1>13. u.strings = t.strings - (Weight(old) - Weight(node))
    BY <1>1, <1>6, <1>9, <1>10
  <1>14. Suits(node, d, t.mem[c].kind) /\ Extends(P[c], P[n], Over(node, d))
    BY <1>9
  <1>15. <<n, d>> \in H \/ ~Has(old, d)
    BY <1>10 DEF old
  <1> HIDE DEF w
  <1>16. Forest(u, P, X, R \ {c}, H \ {<<n, d>>}, M)
    BY <1>6, <1>8, <1>11, <1>12, <1>13, <1>14, <1>15, ForestLink DEF old
  <1> QED
    BY <1>6, <1>16

\* u is t with one node less.
Sheds(t, u, x) ==
    /\ u.out = t.out /\ u.root = t.root
    /\ DOMAIN u.mem = DOMAIN t.mem \ {x} /\ \A m \in DOMAIN u.mem : u.mem[m] = t.mem[m]

\* A node that was given up is removed, by the calls that remove one.
LEMMA Removals ==
    ASSUME NEW t, NEW P, NEW X, NEW R, NEW H, NEW M, Forest(t, P, X, R, H, M), NEW x \in X,
           NEW u, \/ t.mem[x].kind \in Branch /\ u = Remove(t, x)
                  \/ t.mem[x].kind = "edge" /\ u = RemoveEdge(t, x)
    PROVE  /\ Forest(u, P, X \ {x}, R, H, M)
           /\ Sheds(t, u, x)
  <1> DEFINE w == [m \in DOMAIN t.mem \ {x} |-> t.mem[m]]
             v == Remove(t, x)
  <1>1. IsTree(t) /\ t.strings \in Nat
    BY ForestFacts
  <1>2. v = [t EXCEPT !.mem = w]
    BY DEF Remove
  <1>3. DOMAIN w = DOMAIN t.mem \ {x} /\ \A m \in DOMAIN w : w[m] = t.mem[m]
    OBVIOUS
  <1> HIDE DEF w
  <1>4. IsTree(v) /\ v.mem = w /\ v.root = t.root /\ v.strings = t.strings /\ v.out = t.out
    BY <1>1, <1>2 DEF IsTree
  <1> HIDE DEF v
  <1>5. /\ IsTree(u) /\ u.mem = w /\ u.root = t.root /\ u.out = t.out
        /\ u.strings = t.strings - Weight(t.mem[x])
    <2>1. CASE t.mem[x].kind \in Branch /\ u = v
      <3>1. Weight(t.mem[x]) = 0
        BY <2>1 DEF Weight, Branch
      <3> QED
        BY <1>1, <1>4, <2>1, <3>1
    <2>2. CASE t.mem[x].kind = "edge" /\ u = RemoveEdge(t, x)
      <3>1. Weight(t.mem[x]) = Buffers(t.mem[x].str)
        BY <2>2 DEF Weight
      <3>2. u = [v EXCEPT !.strings = @ - Buffers(t.mem[x].str)]
        BY <2>2 DEF RemoveEdge, v
      <3> QED
        BY <1>4, <3>1, <3>2 DEF IsTree
    <2> QED
      BY <2>1, <2>2 DEF v
  <1>6. Forest(u, P, X \ {x}, R, H, M)
    BY <1>5, ForestRemove DEF w
  <1> QED
    BY <1>3, <1>5, <1>6 DEF Sheds

\* The branch that u.out is takes the place of n.
Grown(t, P, n, u, Q) ==
    /\ Q[u.out] = P[n] /\ u.root = t.root
    /\ u.out \notin DOMAIN t.mem /\ u.out # NIL
    /\ u.mem[u.out].kind \in Branch
    /\ DOMAIN u.mem = (DOMAIN t.mem \ {n}) \cup {u.out}
    /\ \A m \in DOMAIN t.mem \ {n} : u.mem[m] = t.mem[m] /\ Q[m] = P[m]

\* A full branch is replaced by a larger one with the new entry.
LEMMA ForestGrow ==
    ASSUME NEW t, NEW P, NEW X, NEW R, NEW H, NEW M, Forest(t, P, X, R, H, M),
           NEW n \in R, t.mem[n].kind \in Branch, \A d : <<n, d>> \notin H,
           NEW d \in Nibble \cup {Immediate}, ~Fits(t.mem[n], d),
           NEW c \in R, c # n, d = Immediate => t.mem[c].kind = "leaf",
           Extends(P[c], P[n], IF d = Immediate THEN <<>> ELSE <<d>>),
           NEW u, u = InsertIntoBranchOrGrow(t, n, d, c)
    PROVE  \E Q : /\ Forest(u, Q, X, (R \ {n, c}) \cup {u.out}, H, M)
                  /\ Grown(t, P, n, u, Q)
  <1> DEFINE old == t.mem[n]
             entries == With(old.entries, d, c)
             kind == Larger(old, d)
             node == [kind |-> kind, entries |-> entries]
             v == Create(t, node)
             Q == Named(P, v.out, P[n])
             Y == X \cup {n}
             R1 == (R \ {n}) \cup Heirs(t, n)
             S == (R \ {n, c}) \cup {v.out}
  <1>1. /\ IsTree(t) /\ t.strings \in Nat /\ R \subseteq DOMAIN t.mem /\ X \cap R = {}
        /\ DOMAIN t.mem \subseteq Nat \ {NIL} /\ P \in [Nat -> Label]
        /\ \A m \in DOMAIN t.mem : Sound(t.mem[m])
    BY ForestFacts
  <1>2. Sound(old) /\ old.kind # "leaf" /\ P[n] \in Label
    BY <1>1 DEF Branch
  <1>3. /\ Forest(t, P, Y, R1, H, M)
        /\ \A x : Has(old, x) =>
              Leads(t, P, n, x, Target(t, n, x)) /\ Target(t, n, x) \notin X \cup R
        /\ \A x, y : Has(old, x) /\ Has(old, y) /\ Target(t, n, x) = Target(t, n, y) => x = y
    BY <1>2, ForestGiveUp
  <1>4. Holding(kind, entries) /\ kind \in Branch /\ d \notin DOMAIN old.entries
    BY <1>2, HoldsMore
  <1>5. u = Remove(v, n)
    BY DEF InsertIntoBranchOrGrow
  <1>6. Adds(t, v, node)
    BY <1>1, <1>4, Creations
  <1>7. /\ DOMAIN entries = DOMAIN old.entries \cup {d} /\ entries[d] = c
        /\ \A x \in DOMAIN old.entries : x # d /\ entries[x] = old.entries[x]
    BY <1>4 DEF With
  <1>8. node.kind = kind /\ node.kind \in Branch /\ node.entries = entries
    BY <1>4
  <1> HIDE DEF entries, kind
  <1>9. Sound(node)
    BY <1>4, <1>8 DEF Sound
  <1> HIDE DEF node, v
  <1>10. /\ \A x : Has(node, x) <=> x \in DOMAIN entries
         /\ \A x : To(node, x) = entries[x]
         /\ \A x : Over(node, x) = IF x = Immediate THEN <<>> ELSE <<x>>
         /\ \A x, k : (x = Immediate => k = "leaf") => Suits(node, x, k)
         /\ node.kind # "leaf"
    BY <1>8, BranchPointers
  <1>11. /\ \A x : Has(old, x) <=> x \in DOMAIN old.entries
         /\ \A x : To(old, x) = old.entries[x]
         /\ \A x : Over(old, x) = IF x = Immediate THEN <<>> ELSE <<x>>
    BY BranchPointers
  <1>12. n # NIL /\ n \in DOMAIN t.mem
    BY <1>1
  <1>13. \A x : Target(t, n, x) = old.entries[x]
    BY <1>11, <1>12 DEF Target
  <1>14. Heirs(t, n) = {old.entries[x] : x \in DOMAIN old.entries}
    <2>1. DOMAIN old.entries \subseteq Nibble \cup {Immediate}
      BY <1>2, <1>11, SoundHas
    <2>2. \A x : x \in {y \in Nibble \cup {Immediate} : Has(t.mem[n], y)} <=> x \in DOMAIN old.entries
      BY <1>11, <2>1
    <2> QED
      BY <1>13, <2>2 DEF Heirs
  <1>15. Covers(t, P, R1, node, P[n])
    <2>1. ASSUME NEW x, Has(node, x)
          PROVE  /\ To(node, x) \in R1
                 /\ Suits(node, x, t.mem[To(node, x)].kind)
                 /\ Extends(P[To(node, x)], P[n], Over(node, x))
      <3>1. CASE x = d
        <4>1. To(node, x) = c /\ c \in R1
          BY <1>7, <1>10, <3>1
        <4>2. Suits(node, x, t.mem[c].kind)
          BY <1>10, <3>1
        <4> QED
          BY <1>10, <3>1, <4>1, <4>2
      <3>2. CASE x \in DOMAIN old.entries
        <4>1. To(node, x) = old.entries[x] /\ To(node, x) = Target(t, n, x)
          BY <1>7, <1>10, <1>13, <3>2
        <4>2. Leads(t, P, n, x, Target(t, n, x))
          BY <1>3, <1>11, <3>2
        <4>3. /\ x = Immediate => t.mem[Target(t, n, x)].kind = "leaf"
              /\ Extends(P[Target(t, n, x)], P[n], Over(old, x))
          BY <1>12, <4>2 DEF Leads, Suits
        <4>4. Suits(node, x, t.mem[To(node, x)].kind)
          BY <1>10, <4>1, <4>3
        <4>5. Over(node, x) = Over(old, x)
          BY <1>10, <1>11
        <4>6. To(node, x) \in R1
          BY <1>14, <3>2, <4>1
        <4> QED
          BY <4>1, <4>3, <4>4, <4>5, <4>6
      <3> QED
        BY <1>7, <1>10, <2>1, <3>1, <3>2
    <2>2. ASSUME NEW x, NEW y, Has(node, x), Has(node, y), To(node, x) = To(node, y)
          PROVE  x = y
      <3>1. \A z \in DOMAIN old.entries : To(node, z) = Target(t, n, z) /\ To(node, z) # c
        BY <1>3, <1>7, <1>10, <1>11, <1>13
      <3>2. To(node, d) = c
        BY <1>7, <1>10
      <3>3. CASE x \in DOMAIN old.entries /\ y \in DOMAIN old.entries
        BY <1>3, <1>11, <2>2, <3>1, <3>3
      <3> QED
        BY <1>7, <1>10, <2>2, <3>1, <3>2, <3>3
    <2> QED
      BY <2>1, <2>2 DEF Covers
  <1>16. S = Uncovered(R1, node, v.out)
    <2>1. \A z : (\E x : Has(node, x) /\ To(node, x) = z) <=> z = c \/ z \in Heirs(t, n)
      BY <1>7, <1>10, <1>14
    <2>2. \A z \in Heirs(t, n) : z \notin R
      BY <1>3, <1>11, <1>13, <1>14
    <2> QED
      BY <2>1, <2>2 DEF Uncovered
  <1>17. Q = Named(P, v.out, P[n])
    OBVIOUS
  <1> HIDE DEF S, R1, Q
  <1>18. /\ Forest(v, Q, Y, S, H, M)
         /\ Q[v.out] = P[n] /\ Onto(t, P, v, Q)
         /\ v.out \in Nat \ {NIL} /\ v.out \notin DOMAIN t.mem
         /\ DOMAIN v.mem = DOMAIN t.mem \cup {v.out} /\ v.mem[v.out] = node
    BY <1>2, <1>3, <1>6, <1>9, <1>10, <1>15, <1>16, <1>17, ForestAdd
  <1>19. n \in Y /\ v.mem[n].kind \in Branch
    BY <1>12, <1>18 DEF Onto
  <1> HIDE DEF Y
  <1>20. /\ Forest(u, Q, Y \ {n}, S, H, M)
         /\ u.out = v.out /\ u.root = v.root
         /\ DOMAIN u.mem = DOMAIN v.mem \ {n} /\ \A m \in DOMAIN u.mem : u.mem[m] = v.mem[m]
    <2>1. Forest(v, Q, Y, S, H, M)
      BY <1>18
    <2>2. n \in Y /\ v.mem[n].kind \in Branch /\ u = Remove(v, n)
      BY <1>5, <1>19
    <2>3. Forest(u, Q, Y \ {n}, S, H, M)
      BY <2>1, <2>2, Removals
    <2>4. Sheds(v, u, n)
      BY <2>1, <2>2, Removals
    <2> QED
      BY <2>3, <2>4 DEF Sheds
  <1>21. Y \ {n} = X
    BY <1>1 DEF Y
  <1>22. Forest(u, Q, X, (R \ {n, c}) \cup {u.out}, H, M)
    BY <1>20, <1>21 DEF S
  <1>23. DOMAIN u.mem = (DOMAIN t.mem \ {n}) \cup {u.out} /\ u.out # n
    BY <1>12, <1>18, <1>20
  <1>24. \A m \in DOMAIN t.mem \ {n} : u.mem[m] = t.mem[m] /\ Q[m] = P[m]
    BY <1>18, <1>20, <1>23 DEF Onto
  <1>25. u.mem[u.out].kind \in Branch
    BY <1>8, <1>18, <1>20, <1>23
  <1>26. u.root = t.root
    BY <1>18, <1>20 DEF Onto
  <1> QED
    <2>1. Grown(t, P, n, u, Q)
      BY <1>18, <1>20, <1>23, <1>24, <1>25, <1>26 DEF Grown
    <2> QED
      BY <1>22, <2>1

\* The value of a leaf is replaced.
LEMMA ForestReplace ==
    ASSUME NEW t, NEW P, NEW M, Forest(t, P, {}, {}, {}, M),
           NEW n \in DOMAIN t.mem, t.mem[n].kind = "leaf", NEW v \in Values,
           NEW u, u = ReplaceLeaf(t, n, v)
    PROVE  Forest(u, P, {}, {}, {}, With(M, P[n], v)) /\ P[n] \in DOMAIN M
  <1> DEFINE old == t.mem[n]
             node == [kind |-> "leaf", value |-> v]
             w == [t.mem EXCEPT ![n] = node]
             N == With(M, P[n], v)
  <1>1. Stock(t, P, {}, {}, {}) /\ Tied(t, P, {}, {}, {}) /\ Counted(t) /\ Leafy(t, P, M)
    BY DEF Forest
  <1>2. /\ IsTree(t) /\ Sound(old) /\ n # NIL
        /\ \A m \in DOMAIN t.mem : Sound(t.mem[m]) /\ m # NIL
        /\ t.mem = [m \in DOMAIN t.mem |-> t.mem[m]]
    BY <1>1 DEF Stock
  <1>3. old = [kind |-> "leaf", value |-> old.value]
    BY <1>2 DEF Sound, Branch
  <1>4. u = [t EXCEPT !.mem[n].value = v]
    BY DEF ReplaceLeaf
  <1>5. IsTree(u) /\ u.mem = w /\ u.root = t.root /\ u.strings = t.strings
    <2> DEFINE mem == t.mem
    <2>1. IsTree(u) /\ u.root = t.root /\ u.strings = t.strings
      BY <1>2, <1>4 DEF IsTree
    <2>2. u.mem = [mem EXCEPT ![n].value = v]
      BY <1>2, <1>4 DEF IsTree
    <2>3. \A x \in DOMAIN mem : u.mem[x] = IF x = n THEN [old EXCEPT !.value = v] ELSE mem[x]
      BY <2>2
    <2>4. [old EXCEPT !.value = v] = node
      BY <1>3
    <2>5. DOMAIN u.mem = DOMAIN mem /\ u.mem = [x \in DOMAIN mem |-> u.mem[x]]
      BY <2>2
    <2> HIDE DEF node
    <2>6. u.mem = w
      BY <1>2, <2>3, <2>4, <2>5
    <2> QED
      BY <2>1, <2>6
  <1>6. /\ DOMAIN u.mem = DOMAIN t.mem /\ u.mem[n] = node
        /\ \A m \in DOMAIN t.mem : m # n => u.mem[m] = t.mem[m]
        /\ u.mem = [m \in DOMAIN u.mem |-> u.mem[m]]
    BY <1>5
  <1>7. node.kind = "leaf" /\ node.value = v
    OBVIOUS
  <1>8. Sound(node)
    BY DEF Sound
  <1> HIDE DEF node, w
  <1>9. Stock(u, P, {}, {}, {})
    <2>1. \A m \in DOMAIN u.mem : Sound(u.mem[m])
      BY <1>2, <1>6, <1>8
    <2> QED
      BY <1>1, <1>5, <1>6, <2>1 DEF Stock
  <1>10. Tied(u, P, {}, {}, {})
    <2>1. \A x : ~Has(old, x) /\ ~Has(node, x)
      BY <1>7 DEF Has, Branch
    <2>2. \A m \in DOMAIN t.mem : u.mem[m].kind = t.mem[m].kind
      BY <1>6, <1>7
    <2>3. \A m, e : Arc(u, {}, {}, m, e) <=> Arc(t, {}, {}, m, e)
      BY <1>5, <1>6, <2>1 DEF Arc
    <2>4. \A m, e : Arc(t, {}, {}, m, e) => m # n /\ (m = NIL \/ m \in DOMAIN t.mem)
      BY <1>2, <2>1 DEF Arc
    <2>5. \A m, e : Arc(t, {}, {}, m, e) =>
             /\ Target(u, m, e) = Target(t, m, e)
             /\ \A c : Leads(t, P, m, e, c) => Leads(u, P, m, e, c)
      BY <1>5, <1>6, <2>2, <2>4 DEF Target, Leads
    <2> QED
      BY <1>1, <1>6, <2>3, <2>5 DEF Tied
  <1>11. Counted(u)
    <2>1. Weight(node) = 0 /\ Weight(old) = 0
      BY <1>7 DEF Weight
    <2>2. Long(u) = Long(t)
      BY <1>6, <2>1 DEF Long
    <2> QED
      BY <1>1, <1>5, <2>2 DEF Counted
  <1>12. P[n] \in DOMAIN M
    BY <1>1 DEF Leafy
  <1>13. Leafy(u, P, N)
    <2>1. /\ DOMAIN N = DOMAIN M /\ N[P[n]] = v /\ N = [k \in DOMAIN N |-> N[k]]
          /\ \A k \in DOMAIN M : k # P[n] => N[k] = M[k]
      BY <1>12 DEF With
    <2> HIDE DEF N
    <2>2. \A m \in DOMAIN t.mem : t.mem[m].kind = "leaf" /\ m # n => P[m] # P[n]
      BY <1>1 DEF Leafy
    <2>3. \A m \in DOMAIN t.mem : u.mem[m].kind = t.mem[m].kind
      BY <1>6, <1>7
    <2> QED
      BY <1>1, <1>6, <1>7, <2>1, <2>2, <2>3 DEF Leafy
  <1> QED
    BY <1>9, <1>10, <1>11, <1>12, <1>13 DEF Forest

-----------------------------------------------------------------------------
(* Writing a place, radix_tree_set_prev. *)

\* What a pointer of the forest is.
LEMMA ArcFacts ==
    ASSUME NEW t, NEW P, NEW X, NEW R, NEW H, NEW M, Forest(t, P, X, R, H, M),
           NEW n, NEW d, Arc(t, X, H, n, d), NEW c, c = Target(t, n, d)
    PROVE  /\ c \in DOMAIN t.mem /\ c \notin X \cup R /\ Leads(t, P, n, d, c)
           /\ n = NIL => d = Immediate /\ P[c] = <<>>
           /\ n # NIL => /\ n \in DOMAIN t.mem /\ Has(t.mem[n], d)
                         /\ t.mem[n].kind \in Branch \cup {"edge"}
                         /\ d \in Nibble \cup {Immediate}
                         /\ Len(P[n]) <= Len(P[c])
                         /\ Len(P[n]) < Len(P[c]) \/ t.mem[c].kind = "leaf"
                         /\ n # c
  <1>1. /\ c \in DOMAIN t.mem /\ c \notin X \cup R /\ Leads(t, P, n, d, c)
    BY ForestDetach
  <1>2. /\ DOMAIN t.mem \subseteq Nat \ {NIL} /\ P \in [Nat -> Label] /\ P[NIL] = <<>>
        /\ \A m \in DOMAIN t.mem : Sound(t.mem[m])
    BY ForestFacts
  <1>3. P[c] \in Label /\ Len(P[c]) \in Nat
    BY <1>1, <1>2, Whole
  <1>4. ASSUME n = NIL
        PROVE  d = Immediate /\ P[c] = <<>>
    <2>1. d = Immediate
      BY <1>2, <1>4 DEF Arc
    <2>2. Extends(P[c], <<>>, <<>>)
      BY <1>1, <1>2, <1>4 DEF Leads
    <2>3. Len(P[c]) = 0
      BY <1>3, <2>2 DEF Extends
    <2>4. P[c] = <<>>
      BY <1>3, <2>3 DEF Label
    <2> QED
      BY <2>1, <2>4
  <1>5. ASSUME n # NIL
        PROVE  /\ n \in DOMAIN t.mem /\ Has(t.mem[n], d)
               /\ t.mem[n].kind \in Branch \cup {"edge"}
               /\ d \in Nibble \cup {Immediate}
               /\ Len(P[n]) <= Len(P[c])
               /\ Len(P[n]) < Len(P[c]) \/ t.mem[c].kind = "leaf"
               /\ n # c
    <2>1. n \in DOMAIN t.mem /\ Has(t.mem[n], d)
      BY <1>5 DEF Arc
    <2>2. t.mem[n].kind \in Branch \cup {"edge"}
      BY <2>1 DEF Has
    <2>3. d \in Nibble \cup {Immediate}
      BY <1>2, <2>1, SoundHas
    <2>4. P[n] \in Label /\ Len(P[n]) \in Nat
      BY <1>2, <2>1, Whole
    <2>5. Extends(P[c], P[n], Over(t.mem[n], d)) /\ Suits(t.mem[n], d, t.mem[c].kind)
      BY <1>1, <1>5 DEF Leads
    <2>6. CASE t.mem[n].kind = "edge"
      <3>1. Over(t.mem[n], d) \in Label \ {<<>>}
        BY <1>2, <2>1, <2>6 DEF Sound, Over, Branch
      <3>2. Len(Over(t.mem[n], d)) \in Nat \ {0}
        <4> DEFINE s == Over(t.mem[n], d)
        <4> HIDE DEF s
        <4>1. s \in Seq(Nibble) /\ s # <<>>
          BY <3>1 DEF Label, s
        <4>2. Len(s) \in Nat \ {0}
          BY <4>1
        <4> QED
          BY <4>2 DEF s
      <3>3. Len(P[c]) = Len(P[n]) + Len(Over(t.mem[n], d))
        BY <2>5 DEF Extends
      <3> DEFINE x == Len(Over(t.mem[n], d))
      <3> HIDE DEF x
      <3>4. x \in Nat \ {0} /\ Len(P[c]) = Len(P[n]) + x
        BY <3>2, <3>3 DEF x
      <3>5. Len(P[n]) < Len(P[c])
        BY <1>3, <2>4, <3>4
      <3>6. n # c
        BY <1>3, <3>5
      <3> QED
        BY <1>3, <2>1, <2>2, <2>3, <2>4, <3>5, <3>6
    <2>7. CASE t.mem[n].kind \in Branch /\ d # Immediate
      <3>1. Over(t.mem[n], d) = <<d>>
        BY <2>7 DEF Over, Branch
      <3>2. Len(P[n]) < Len(P[c])
        BY <1>3, <2>4, <2>5, <3>1 DEF Extends
      <3> QED
        BY <1>3, <2>1, <2>2, <2>3, <2>4, <3>2
    <2>8. CASE t.mem[n].kind \in Branch /\ d = Immediate
      <3>1. Over(t.mem[n], d) = <<>>
        BY <2>8 DEF Over, Branch
      <3>2. Len(P[n]) = Len(P[c])
        BY <1>3, <2>4, <2>5, <3>1 DEF Extends
      <3>3. t.mem[c].kind = "leaf"
        BY <2>5, <2>8 DEF Suits
      <3>4. n # c
        BY <2>8, <3>3 DEF Branch
      <3> QED
        BY <1>3, <2>1, <2>2, <2>3, <2>4, <3>2, <3>3, <3>4
    <2> QED
      BY <2>2, <2>6, <2>7, <2>8
  <1> QED
    BY <1>1, <1>4, <1>5

\* The place <<n, d>> leads nowhere, or is about to be overwritten.
Vacant(t, H, n, d) ==
    \/ n = NIL /\ d = Immediate /\ (<<n, d>> \in H \/ t.root = NIL)
    \/ n \in DOMAIN t.mem /\ t.mem[n].kind = "edge" /\ d = Immediate /\ <<n, d>> \in H
    \/ /\ n \in DOMAIN t.mem /\ t.mem[n].kind \in Branch /\ d \in Nibble \cup {Immediate}
       /\ <<n, d>> \in H \/ d \notin DOMAIN t.mem[n].entries

Full(t, n, d) ==
    n \in DOMAIN t.mem /\ t.mem[n].kind \in Branch /\ ~Fits(t.mem[n], d)

\* A round of radix_tree_set_prev at a place that is not in a full branch.
LEMMA RoundLinks ==
    ASSUME NEW t, NEW P, NEW H, NEW M, NEW c, Forest(t, P, {}, {c}, H, M),
           NEW n, NEW d, H \subseteq {<<n, d>>}, Vacant(t, H, n, d), ~Full(t, n, d),
           Leads(t, P, n, d, c),
           NEW prev, NEW at, prev[at] = [node |-> n, val |-> d],
           NEW w, w = Climb(prev, [tree |-> t, at |-> at, node |-> c])
    PROVE  Forest(w.tree, P, {}, {}, {}, M) /\ w.node = NIL
  <1> DEFINE k == [tree |-> t, at |-> at, node |-> c]
  <1>1. k.tree = t /\ k.at = at /\ k.node = c /\ prev[k.at].node = n /\ prev[k.at].val = d
    OBVIOUS
  <1>2. /\ c \in DOMAIN t.mem /\ c # NIL /\ IsTree(t)
        /\ DOMAIN t.mem \subseteq Nat \ {NIL} /\ P \in [Nat -> Label] /\ P[NIL] = <<>>
    BY ForestFacts
  <1>3. {c} \ {c} = {} /\ H \ {<<n, d>>} = {}
    OBVIOUS
  <1> HIDE DEF k
  <1>4. CASE n = NIL
    <2>1. w = [k EXCEPT !.tree.root = c, !.node = NIL]
      BY <1>1, <1>2, <1>4 DEF Climb, k
    <2>2. w.node = NIL /\ w.tree = [t EXCEPT !.root = c]
      BY <2>1 DEF k
    <2>3. P[c] = <<>>
      <3>1. Extends(P[c], <<>>, <<>>)
        BY <1>2, <1>4 DEF Leads
      <3>2. P[c] \in Label /\ Len(P[c]) = 0
        BY <1>2, <3>1 DEF Extends
      <3> QED
        BY <3>2 DEF Label
    <2>4. d = Immediate /\ (<<NIL, Immediate>> \in H \/ t.root = NIL)
      BY <1>2, <1>4 DEF Vacant
    <2>5. Forest(w.tree, P, {}, {c} \ {c}, H \ {<<NIL, Immediate>>}, M)
      BY <2>2, <2>3, <2>4, LinkRoot
    <2> QED
      BY <1>3, <1>4, <2>2, <2>4, <2>5
  <1>5. CASE n \in DOMAIN t.mem /\ t.mem[n].kind = "edge"
    <2>1. n # NIL /\ Kind(t, n) = "edge"
      BY <1>2, <1>5 DEF Kind
    <2>2. w = [k EXCEPT !.tree.mem[n].next = c, !.node = NIL]
      BY <1>1, <1>2, <2>1 DEF Climb, k
    <2>3. w.node = NIL /\ w.tree = [t EXCEPT !.mem[n].next = c]
      BY <2>2 DEF k
    <2>4. d = Immediate /\ <<n, Immediate>> \in H
      BY <1>2, <1>5 DEF Vacant, Branch
    <2>5. t.mem[c].kind \in Branch \cup {"leaf"} /\ Extends(P[c], P[n], t.mem[n].str)
      BY <1>5, <2>1 DEF Leads, Suits, Over
    <2>6. Forest(w.tree, P, {}, {c} \ {c}, H \ {<<n, Immediate>>}, M)
      BY <1>5, <2>3, <2>4, <2>5, LinkEdge
    <2> QED
      BY <1>3, <2>3, <2>4, <2>6
  <1>6. CASE n \in DOMAIN t.mem /\ t.mem[n].kind \in Branch
    <2> DEFINE grown == InsertIntoBranchOrGrow(t, n, d, c)
    <2>1. n # NIL /\ Kind(t, n) # "edge"
      BY <1>2, <1>6 DEF Kind, Branch
    <2>2. w = [tree |-> grown, at |-> k.at - 1, node |-> grown.out]
      BY <1>1, <1>2, <2>1 DEF Climb, k
    <2>3. w.node = grown.out /\ w.tree = grown
      BY <2>2
    <2>4. /\ d \in Nibble \cup {Immediate} /\ Fits(t.mem[n], d)
          /\ <<n, d>> \in H \/ d \notin DOMAIN t.mem[n].entries
      BY <1>2, <1>6 DEF Vacant, Full, Branch
    <2>5. /\ d = Immediate => t.mem[c].kind = "leaf"
          /\ Extends(P[c], P[n], IF d = Immediate THEN <<>> ELSE <<d>>)
      BY <1>6, <2>1 DEF Leads, Suits, Over, Branch
    <2> HIDE DEF grown
    <2>6. grown = InsertIntoBranchOrGrow(t, n, d, c)
      BY DEF grown
    <2>7. c \in {c} /\ n \notin {} /\ n \in DOMAIN t.mem
      BY <1>6
    <2>8. Forest(grown, P, {}, {c} \ {c}, H \ {<<n, d>>}, M)
      BY <1>6, <2>4, <2>5, <2>6, <2>7, LinkBranch
    <2>9. grown.out = NIL
      BY <1>2, <2>4, <2>6 DEF InsertIntoBranchOrGrow, IsTree
    <2> QED
      BY <1>3, <2>3, <2>8, <2>9
  <1> QED
    BY <1>4, <1>5, <1>6 DEF Vacant

\* The node of w has to be written at the place <<m, e>>.
Regrown(w, M, m, e) ==
    \E Q : /\ Forest(w.tree, Q, {}, {w.node}, {<<m, e>>}, M)
           /\ Vacant(w.tree, {<<m, e>>}, m, e)
           /\ ~Full(w.tree, m, e)
           /\ Leads(w.tree, Q, m, e, w.node)

\* A round of radix_tree_set_prev at a place in a full branch, which the round
\* replaces: the next round has to write the place that leads to it.
LEMMA RoundGrows ==
    ASSUME NEW t, NEW P, NEW M, NEW c, Forest(t, P, {}, {c}, {}, M),
           NEW n, NEW d, Vacant(t, {}, n, d), Full(t, n, d), Leads(t, P, n, d, c),
           NEW m, NEW e, Arc(t, {}, {}, m, e), Target(t, m, e) = n,
           NEW prev, NEW at, prev[at] = [node |-> n, val |-> d],
           NEW w, w = Climb(prev, [tree |-> t, at |-> at, node |-> c])
    PROVE  /\ w = [tree |-> w.tree, at |-> at - 1, node |-> w.node]
           /\ Regrown(w, M, m, e)
  <1> DEFINE k == [tree |-> t, at |-> at, node |-> c]
             u == InsertIntoBranchOrGrow(t, n, d, c)
             G == {<<m, e>>}
  <1>1. k.tree = t /\ k.at = at /\ k.node = c /\ prev[k.at].node = n /\ prev[k.at].val = d
    OBVIOUS
  <1>2. /\ c \in DOMAIN t.mem /\ c # NIL
        /\ DOMAIN t.mem \subseteq Nat \ {NIL} /\ P \in [Nat -> Label] /\ P[NIL] = <<>>
    BY ForestFacts
  <1>3. /\ n \in DOMAIN t.mem /\ t.mem[n].kind \in Branch /\ n # NIL /\ ~Fits(t.mem[n], d)
        /\ Kind(t, n) # "edge"
    BY <1>2 DEF Full, Kind, Branch
  <1> HIDE DEF k
  <1>4. w = [tree |-> u, at |-> at - 1, node |-> u.out]
    BY <1>1, <1>2, <1>3 DEF Climb
  <1> HIDE DEF u
  <1>5. w.tree = u /\ w.node = u.out
    BY <1>4
  <1>6. /\ n \notin {c} /\ Leads(t, P, m, e, n)
        /\ m = NIL => e = Immediate /\ P[n] = <<>>
        /\ m # NIL => /\ m \in DOMAIN t.mem /\ Has(t.mem[m], e)
                      /\ t.mem[m].kind \in Branch \cup {"edge"}
                      /\ e \in Nibble \cup {Immediate} /\ m # n
    BY ArcFacts
  <1>7. Forest(t, P, {}, {c} \cup {n}, {} \cup G, M)
    BY ForestDetach
  <1>8. {c} \cup {n} = {c, n} /\ {} \cup G = G /\ {c, n} \ {n, c} = {}
    OBVIOUS
  <1>9. Forest(t, P, {}, {c, n}, G, M)
    BY <1>7, <1>8
  <1>10. \A x : <<n, x>> \notin G
    BY <1>3, <1>6
  <1>11. /\ d \in Nibble \cup {Immediate}
         /\ d = Immediate => t.mem[c].kind = "leaf"
         /\ Extends(P[c], P[n], IF d = Immediate THEN <<>> ELSE <<d>>)
    BY <1>2, <1>3 DEF Vacant, Leads, Suits, Over, Branch
  <1>12. n \in {c, n} /\ c \in {c, n} /\ c # n /\ u = InsertIntoBranchOrGrow(t, n, d, c)
    BY <1>6 DEF u
  <1> HIDE DEF G
  <1>13. \E Q : /\ Forest(u, Q, {}, ({c, n} \ {n, c}) \cup {u.out}, G, M)
                /\ Grown(t, P, n, u, Q)
    BY <1>3, <1>9, <1>10, <1>11, <1>12, ForestGrow
  <1>14. PICK Q : /\ Forest(u, Q, {}, {u.out}, G, M)
                  /\ Q[u.out] = P[n] /\ u.root = t.root
                  /\ u.out \notin DOMAIN t.mem /\ u.out # NIL
                  /\ u.mem[u.out].kind \in Branch
                  /\ DOMAIN u.mem = (DOMAIN t.mem \ {n}) \cup {u.out}
                  /\ \A x \in DOMAIN t.mem \ {n} : u.mem[x] = t.mem[x] /\ Q[x] = P[x]
    BY <1>8, <1>13 DEF Grown
  <1>15. /\ NIL \notin DOMAIN u.mem /\ Q \in [Nat -> Label] /\ Q[NIL] = <<>>
         /\ u.out \in DOMAIN u.mem
    <2>1. Forest(u, Q, {}, {u.out}, G, M)
      BY <1>14
    <2>2. DOMAIN u.mem \subseteq Nat \ {NIL} /\ {u.out} \subseteq DOMAIN u.mem
      BY <2>1 DEF Forest, Stock
    <2>3. Q \in [Nat -> Label] /\ Q[NIL] = <<>>
      BY <2>1 DEF Forest, Stock
    <2> QED
      BY <2>2, <2>3
  <1>16. CASE m = NIL
    <2>1. Q[u.out] = <<>> /\ e = Immediate
      BY <1>6, <1>14, <1>16
    <2>2. Extends(<<>>, <<>>, <<>>)
      BY DEF Extends
    <2>3. Leads(u, Q, m, e, u.out)
      BY <1>14, <1>15, <1>16, <2>1, <2>2 DEF Leads
    <2>4. Vacant(u, G, m, e)
      BY <1>16, <2>1 DEF Vacant, G
    <2>5. ~Full(u, m, e)
      BY <1>15, <1>16 DEF Full
    <2> QED
      BY <1>4, <1>5, <1>14, <2>3, <2>4, <2>5 DEF G, Regrown
  <1>17. CASE m # NIL
    <2>1. /\ m \in DOMAIN u.mem /\ u.mem[m] = t.mem[m] /\ Q[m] = P[m]
      BY <1>6, <1>14, <1>17
    <2>2. Suits(t.mem[m], e, u.mem[u.out].kind)
      <3>1. Suits(t.mem[m], e, t.mem[n].kind)
        BY <1>6, <1>17 DEF Leads
      <3> QED
        BY <1>3, <1>14, <3>1 DEF Suits, Branch
    <2>3. Leads(u, Q, m, e, u.out)
      BY <1>6, <1>14, <1>15, <1>17, <2>1, <2>2 DEF Leads
    <2>4. t.mem[m].kind \in Branch => e \in DOMAIN t.mem[m].entries
      BY <1>6, <1>17 DEF Has, Branch
    <2>5. t.mem[m].kind = "edge" => e = Immediate
      BY <1>6, <1>17 DEF Has, Branch
    <2>6. Vacant(u, G, m, e)
      BY <1>6, <1>17, <2>1, <2>4, <2>5 DEF Vacant, G
    <2>7. ~Full(u, m, e)
      BY <2>1, <2>4 DEF Full, Fits
    <2> QED
      BY <1>4, <1>5, <1>14, <2>3, <2>6, <2>7 DEF G, Regrown
  <1> QED
    BY <1>16, <1>17

\* The rounds of radix_tree_set_prev, whose states stay in a set I.
LEMMA ClimbLoop ==
    ASSUME NEW t, NEW prev, NEW c, Len(prev) \in Nat, NEW I,
           NEW first, first = [tree |-> t, at |-> Len(prev), node |-> c], first \in I,
           \A x \in I : Climb(prev, x) \in I
    PROVE  \E f : /\ f[0] = first
                  /\ \A k \in 1 .. Len(prev) : f[k] = Climb(prev, f[k - 1])
                  /\ SetPrev(t, prev, c) = f[Len(prev)].tree
  <1> DEFINE p == Len(prev)
             step == [x \in I |-> Climb(prev, x)]
             Eq(f) == f = [k \in 0 .. Len(prev) |->
                              IF k = 0 THEN [tree |-> t, at |-> Len(prev), node |-> c]
                                       ELSE Climb(prev, f[k - 1])]
             round == CHOOSE f : Eq(f)
  <1>1. step \in [I -> I]
    OBVIOUS
  <1>2. PICK f \in [0 .. p -> I] : /\ f[0] = first
                                   /\ \A k \in 1 .. p : f[k] = step[f[k - 1]]
    <2> HIDE DEF step
    <2>2. HasRounds(I, step, first, p)
      BY <1>1, RoundsExist
    <2> QED
      BY <2>2 DEF HasRounds
  <1>3. \A k \in 0 .. p : f[k] = IF k = 0 THEN first ELSE Climb(prev, f[k - 1])
    <2> TAKE k \in 0 .. p
    <2>1. CASE k = 0
      BY <1>2, <2>1
    <2>2. CASE k # 0
      <3>1. k \in 1 .. p /\ k - 1 \in 0 .. p
        BY <2>2
      <3>2. f[k - 1] \in I
        BY <3>1
      <3>3. step[f[k - 1]] = Climb(prev, f[k - 1])
        BY <3>2
      <3> QED
        BY <1>2, <2>2, <3>1, <3>3
    <2> QED
      BY <2>1, <2>2
  <1>4. Eq(f)
    BY <1>3
  <1>5. Eq(round)
    BY <1>4
  <1>6. SetPrev(t, prev, c) = round[p].tree
    BY DEF SetPrev
  <1> HIDE DEF step
  <1>7. /\ round[0] = first
        /\ \A k \in 1 .. p : round[k] = Climb(prev, round[k - 1])
    <2>1. \A k \in 0 .. p : round[k] = IF k = 0 THEN first ELSE Climb(prev, round[k - 1])
      BY <1>5
    <2> HIDE DEF round
    <2>2. round[0] = first
      BY <2>1
    <2>3. ASSUME NEW k \in 1 .. p
          PROVE  round[k] = Climb(prev, round[k - 1])
      <3>1. k \in 0 .. p /\ k # 0
        OBVIOUS
      <3> QED
        BY <2>1, <3>1
    <2> QED
      BY <2>2, <2>3
  <1> HIDE DEF round
  <1> QED
    BY <1>6, <1>7

\* The path prev ends in the place <<n, d>>, which can be written; when the
\* branch n is full the entry before leads to it.
Writable(t, H, prev, n, d) ==
    /\ Len(prev) \in Nat \ {0}
    /\ prev[Len(prev)] = [node |-> n, val |-> d]
    /\ H \subseteq {<<n, d>>}
    /\ Vacant(t, H, n, d)
    /\ Full(t, n, d) =>
          /\ H = {} /\ Len(prev) >= 2
          /\ \E m, e : /\ prev[Len(prev) - 1] = [node |-> m, val |-> e]
                       /\ Arc(t, {}, {}, m, e) /\ Target(t, m, e) = n

\* radix_tree_set_prev writes the place at the end of the path.
LEMMA PathLinks ==
    ASSUME NEW t, NEW P, NEW H, NEW M, NEW c, Forest(t, P, {}, {c}, H, M),
           NEW prev, NEW n, NEW d, Writable(t, H, prev, n, d), Leads(t, P, n, d, c),
           NEW u, u = SetPrev(t, prev, c)
    PROVE  \E Q : Forest(u, Q, {}, {}, {}, M)
  <1> DEFINE z == Len(prev)
             c0 == [tree |-> t, at |-> z, node |-> c]
             c1 == Climb(prev, c0)
             c2 == Climb(prev, c1)
             I == {c0, c1, c2}
  <1>1. z \in Nat \ {0} /\ prev[z] = [node |-> n, val |-> d] /\ H \subseteq {<<n, d>>} /\ Vacant(t, H, n, d)
    BY DEF Writable
  <1>2. c0.tree = t /\ c0.at = z /\ c0.node = c
    OBVIOUS
  <1>3. \A x : x.node = NIL => Climb(prev, x) = x
    BY DEF Climb
  <1>4. CASE ~Full(t, n, d)
    <2>1. Forest(c1.tree, P, {}, {}, {}, M) /\ c1.node = NIL
      <3> HIDE DEF c1
      <3>1. c1 = Climb(prev, [tree |-> t, at |-> z, node |-> c])
        BY DEF c1
      <3> QED
        BY <1>1, <1>4, <3>1, RoundLinks
    <2> HIDE DEF c0, c1, z
    <2>2. Climb(prev, c1) = c1
      BY <1>3, <2>1
    <2>3. \A x \in {c0, c1} : Climb(prev, x) \in {c0, c1}
      BY <2>2 DEF c1
    <2>4. PICK f : /\ f[0] = c0
                   /\ \A k \in 1 .. Len(prev) : f[k] = Climb(prev, f[k - 1])
                   /\ SetPrev(t, prev, c) = f[Len(prev)].tree
      <3> DEFINE J == {c0, c1}
      <3>1. c0 \in J /\ \A x \in J : Climb(prev, x) \in J
        BY <2>3
      <3>2. c0 = [tree |-> t, at |-> Len(prev), node |-> c] /\ Len(prev) \in Nat
        BY <1>1 DEF c0, z
      <3> HIDE DEF J
      <3> QED
        BY <3>1, <3>2, ClimbLoop
    <2> DEFINE S == {k \in 0 .. z : k = 0 \/ f[k] = c1}
    <2>5. 0 \in S
      BY <1>1
    <2>6. ASSUME NEW k \in 1 .. z, k - 1 \in S
          PROVE  k \in S
      <3>1. f[k] = Climb(prev, f[k - 1]) /\ k \in 0 .. z
        BY <1>1, <2>4 DEF z
      <3>2. CASE k - 1 = 0
        <4>1. f[k] = c1
          BY <2>4, <3>1, <3>2 DEF c1
        <4> QED
          BY <3>1, <4>1
      <3>3. CASE f[k - 1] = c1
        <4>1. f[k] = c1
          BY <2>2, <3>1, <3>3
        <4> QED
          BY <3>1, <4>1
      <3> QED
        BY <2>6, <3>2, <3>3
    <2> HIDE DEF S
    <2>7. \A k \in 0 .. z : k \in S
      BY <1>1, <2>5, <2>6, Counting
    <2>8. z \in 0 .. z /\ z # 0
      BY <1>1
    <2>9. f[z] = c1
      BY <2>7, <2>8 DEF S
    <2>10. u = c1.tree
      BY <2>4, <2>9 DEF z
    <2> QED
      BY <2>1, <2>10
  <1>5. CASE Full(t, n, d)
    <2>1. PICK m, e : /\ H = {} /\ z >= 2
                      /\ prev[z - 1] = [node |-> m, val |-> e]
                      /\ Arc(t, {}, {}, m, e) /\ Target(t, m, e) = n
      BY <1>5 DEF Writable
    <2> DEFINE G == {<<m, e>>}
    <2>2. /\ c1 = [tree |-> c1.tree, at |-> z - 1, node |-> c1.node]
          /\ Regrown(c1, M, m, e)
      <3> HIDE DEF c1
      <3>1. c1 = Climb(prev, [tree |-> t, at |-> z, node |-> c])
        BY DEF c1
      <3>2. Forest(t, P, {}, {c}, {}, M) /\ Vacant(t, {}, n, d)
        BY <1>1, <2>1
      <3> HIDE DEF z
      <3> QED
        BY <1>1, <1>5, <2>1, <3>1, <3>2, RoundGrows
    <2> HIDE DEF c0, c1, c2, z, G
    <2>3. PICK Q : /\ Forest(c1.tree, Q, {}, {c1.node}, G, M)
                   /\ Vacant(c1.tree, G, m, e)
                   /\ ~Full(c1.tree, m, e)
                   /\ Leads(c1.tree, Q, m, e, c1.node)
      BY <2>2 DEF G, Regrown
    <2>4. Forest(c2.tree, Q, {}, {}, {}, M) /\ c2.node = NIL
      <3> DEFINE at == z - 1
                 w == c1.tree
                 x == c1.node
      <3>1. c2 = Climb(prev, [tree |-> w, at |-> at, node |-> x])
        BY <2>2 DEF c2
      <3>2. G \subseteq {<<m, e>>} /\ prev[at] = [node |-> m, val |-> e]
        BY <2>1 DEF G
      <3> HIDE DEF at, w, x
      <3>3. /\ Forest(w, Q, {}, {x}, G, M) /\ Vacant(w, G, m, e)
            /\ ~Full(w, m, e) /\ Leads(w, Q, m, e, x)
        BY <2>3 DEF w, x
      <3> QED
        BY <3>1, <3>2, <3>3, RoundLinks
    <2>5. Climb(prev, c2) = c2
      BY <1>3, <2>4
    <2>6. \A x \in {c0, c1, c2} : Climb(prev, x) \in {c0, c1, c2}
      BY <2>5 DEF c1, c2
    <2>7. PICK f : /\ f[0] = c0
                   /\ \A k \in 1 .. Len(prev) : f[k] = Climb(prev, f[k - 1])
                   /\ SetPrev(t, prev, c) = f[Len(prev)].tree
      <3> DEFINE J == {c0, c1, c2}
      <3>1. c0 \in J /\ \A x \in J : Climb(prev, x) \in J
        BY <2>6
      <3>2. c0 = [tree |-> t, at |-> Len(prev), node |-> c] /\ Len(prev) \in Nat
        BY <1>1 DEF c0, z
      <3> HIDE DEF J
      <3> QED
        BY <3>1, <3>2, ClimbLoop
    <2> DEFINE S == {k \in 0 .. z : /\ k = 1 => f[k] = c1
                                    /\ k >= 2 => f[k] = c2}
    <2>8. 0 \in S
      BY <1>1
    <2>9. ASSUME NEW k \in 1 .. z, k - 1 \in S
          PROVE  k \in S
      <3>1. f[k] = Climb(prev, f[k - 1]) /\ k \in 0 .. z
        BY <1>1, <2>7 DEF z
      <3>2. CASE k = 1
        <4>1. f[k] = c1
          BY <2>7, <3>1, <3>2 DEF c1
        <4> QED
          BY <3>1, <3>2, <4>1
      <3>3. CASE k = 2
        <4>1. f[k - 1] = c1
          BY <2>9, <3>3
        <4>2. f[k] = c2
          BY <3>1, <4>1 DEF c2
        <4> QED
          BY <3>1, <3>3, <4>2
      <3>4. CASE k >= 3
        <4>1. f[k - 1] = c2
          BY <2>9, <3>4
        <4>2. f[k] = c2
          BY <2>5, <3>1, <4>1
        <4> QED
          BY <3>1, <3>4, <4>2
      <3> QED
        BY <1>1, <2>9, <3>2, <3>3, <3>4
    <2> HIDE DEF S
    <2>10. \A k \in 0 .. z : k \in S
      BY <1>1, <2>8, <2>9, Counting
    <2>11. z \in 0 .. z /\ z >= 2
      BY <1>1, <2>1
    <2>12. f[z] = c2
      BY <2>10, <2>11 DEF S
    <2>13. u = c2.tree
      BY <2>7, <2>12 DEF z
    <2> QED
      BY <2>4, <2>13
  <1> QED
    BY <1>4, <1>5

-----------------------------------------------------------------------------
(* The nodes an insertion adds. *)

\* u has a leaf for the key, below First(key, i), that nothing refers to yet.
HasNew(t, P, X, R, H, N, key, i, u) ==
    \E Q : /\ Forest(u, Q, X, R \cup {u.out}, H, N)
           /\ Q[u.out] = First(key, i) /\ Onto(t, P, u, Q)
           /\ u.out \notin R /\ u.out \in DOMAIN u.mem
           /\ i = Len(key) => u.mem[u.out].kind = "leaf"

\* The leaf of a new key, with an edge in front when nibbles are left.
LEMMA NewLeaf ==
    ASSUME NEW t, NEW P, NEW X, NEW R, NEW H, NEW M, Forest(t, P, X, R, H, M),
           NEW key \in Label, key \notin DOMAIN M, NEW v \in Values,
           NEW i \in 0 .. Len(key),
           NEW leaf, leaf = CreateLeaf(t, v),
           NEW u, u = Prepend(leaf, Rest(key, i), leaf.out)
    PROVE  HasNew(t, P, X, R, H, With(M, key, v), key, i, u)
  <1> DEFINE N == With(M, key, v)
             c == leaf.out
             s == Rest(key, i)
             L == First(key, i)
             S == R \cup {c}
  <1>1. R \subseteq DOMAIN t.mem
    BY ForestFacts
  <1>2. PICK Q : /\ Forest(leaf, Q, X, S, H, N)
                 /\ Q[c] = key /\ Onto(t, P, leaf, Q)
                 /\ c \notin DOMAIN t.mem /\ leaf.mem[c].kind = "leaf"
    <2>1. LeafIn(t, P, X, R, H, With(M, key, v), key, leaf)
      BY ForestLeaf
    <2> QED
      BY <2>1 DEF LeafIn
  <1>3. L \in Label /\ Extends(key, L, s) /\ s \in Label /\ Len(s) = Len(key) - i /\ Len(key) \in Nat
    BY OneMore, Parts, Whole
  <1>4. u = Prepend(leaf, s, c) /\ c \in S
    OBVIOUS
  <1> HIDE DEF N, c, s, L, S
  <1>5. PICK W : /\ Forest(u, W, X, (S \ {c}) \cup {u.out}, H, N)
                 /\ W[u.out] = L /\ Onto(leaf, Q, u, W)
                 /\ u.out \notin S \ {c} /\ u.out \in DOMAIN u.mem
                 /\ s = <<>> => u.out = c
    <2>1. InFront(leaf, Q, X, S, H, N, L, s, c, u)
      <3>1. leaf.mem[c].kind \in Branch \cup {"leaf"} /\ Extends(Q[c], L, s)
        BY <1>2, <1>3 DEF c
      <3> QED
        BY <1>2, <1>3, <1>4, <3>1, ForestPrepend
    <2> QED
      BY <2>1 DEF InFront
  <1>6. S \ {c} = R
    BY <1>1, <1>2 DEF S
  <1>7. Onto(t, P, u, W)
    BY <1>2, <1>5, OntoChain
  <1>8. ASSUME i = Len(key)
        PROVE  u.mem[u.out].kind = "leaf"
    <2>1. s = <<>>
      <3>1. s \in Seq(Nibble) /\ Len(s) = 0
        BY <1>3, <1>8 DEF Label
      <3> QED
        BY <3>1
    <2>2. c \in DOMAIN leaf.mem
      <3>1. S \subseteq DOMAIN leaf.mem
        BY <1>2, ForestFacts
      <3> QED
        BY <1>4, <3>1
    <2> QED
      BY <1>2, <1>5, <2>1, <2>2 DEF Onto
  <1>9. HasNew(t, P, X, R, H, N, key, i, u)
    BY <1>5, <1>6, <1>7, <1>8 DEF HasNew, L
  <1> QED
    BY <1>9 DEF N

\* u has the leaf y of the key, and u.out before the old node c, with label L.
HasOld(t, P, X, R, H, N, key, L, c, y, u) ==
    \E Q : /\ Forest(u, Q, X, (R \ {c}) \cup {y, u.out}, H, N)
           /\ Q[y] = key /\ Q[u.out] = L /\ Onto(t, P, u, Q)
           /\ y \notin R /\ u.out \notin R \ {c} /\ u.out # y
           /\ {y, u.out} \subseteq DOMAIN u.mem
           /\ u.mem[y].kind = "leaf"

\* And with it the node that was there, behind what is left of its edge.
LEMMA OldNode ==
    ASSUME NEW t, NEW P, NEW X, NEW R, NEW H, NEW M, Forest(t, P, X, R, H, M),
           NEW key \in Label, key \notin DOMAIN M, NEW v \in Values,
           NEW s \in Label, NEW L \in Label, NEW c \in R, Extends(P[c], L, s),
           t.mem[c].kind \in Branch \cup {"leaf"},
           NEW leaf, leaf = CreateLeaf(t, v), NEW y, y = leaf.out,
           NEW u, u = Prepend(leaf, s, c)
    PROVE  HasOld(t, P, X, R, H, With(M, key, v), key, L, c, y, u)
  <1> DEFINE N == With(M, key, v)
             S == R \cup {y}
  <1>1. R \subseteq DOMAIN t.mem
    BY ForestFacts
  <1>2. PICK Q : /\ Forest(leaf, Q, X, S, H, N)
                 /\ Q[y] = key /\ Onto(t, P, leaf, Q)
                 /\ y \notin DOMAIN t.mem /\ leaf.mem[y].kind = "leaf"
    <2>1. LeafIn(t, P, X, R, H, With(M, key, v), key, leaf)
      BY ForestLeaf
    <2> QED
      BY <2>1 DEF LeafIn
  <1>3. c \in S /\ y \in S /\ y # c
    BY <1>1, <1>2
  <1>4. leaf.mem[c] = t.mem[c] /\ Q[c] = P[c]
    BY <1>1, <1>2 DEF Onto
  <1>5. Extends(Q[c], L, s) /\ leaf.mem[c].kind \in Branch \cup {"leaf"}
    BY <1>4
  <1> HIDE DEF N, S
  <1>6. PICK W : /\ Forest(u, W, X, (S \ {c}) \cup {u.out}, H, N)
                 /\ W[u.out] = L /\ Onto(leaf, Q, u, W)
                 /\ u.out \notin S \ {c} /\ u.out \in DOMAIN u.mem
                 /\ s = <<>> => u.out = c
    <2>1. InFront(leaf, Q, X, S, H, N, L, s, c, u)
      BY <1>2, <1>3, <1>5, ForestPrepend
    <2> QED
      BY <2>1 DEF InFront
  <1>7. (S \ {c}) \cup {u.out} = (R \ {c}) \cup {y, u.out}
    BY <1>1, <1>2, <1>3 DEF S
  <1>8. Onto(t, P, u, W)
    BY <1>2, <1>6, OntoChain
  <1>9. S \subseteq DOMAIN leaf.mem
    BY <1>2 DEF Forest, Stock
  <1>10. /\ y \in DOMAIN u.mem /\ u.mem[y].kind = "leaf" /\ W[y] = key
    BY <1>2, <1>3, <1>6, <1>9 DEF Onto
  <1>11. u.out # y /\ u.out \notin R \ {c} /\ y \notin R
    BY <1>1, <1>2, <1>3, <1>6 DEF S
  <1>12. HasOld(t, P, X, R, H, N, key, L, c, y, u)
    BY <1>6, <1>7, <1>8, <1>10, <1>11 DEF HasOld
  <1> QED
    BY <1>12 DEF N

\* w has the leaf of the key below First(key, i), at w.out, and x before the
\* old node c, with label L.
HasBoth(t, P, X, R, H, N, key, i, L, c, x, w) ==
    \E Q : /\ Forest(w, Q, X, (R \ {c}) \cup {x, w.out}, H, N)
           /\ Q[x] = L /\ Q[w.out] = First(key, i) /\ Onto(t, P, w, Q)
           /\ x \notin R \ {c} /\ w.out \notin R \ {c} /\ w.out # x

\* Both, each behind what is left of its own string.
LEMMA BothNodes ==
    ASSUME NEW t, NEW P, NEW X, NEW R, NEW H, NEW M, Forest(t, P, X, R, H, M),
           NEW key \in Label, key \notin DOMAIN M, NEW v \in Values,
           NEW s \in Label, NEW L \in Label, NEW c \in R, Extends(P[c], L, s),
           t.mem[c].kind \in Branch \cup {"leaf"},
           NEW leaf, leaf = CreateLeaf(t, v),
           NEW u, u = Prepend(leaf, s, c), NEW x, x = u.out,
           NEW i \in 0 .. Len(key), NEW w, w = Prepend(u, Rest(key, i), leaf.out)
    PROVE  HasBoth(t, P, X, R, H, With(M, key, v), key, i, L, c, x, w)
  <1> DEFINE N == With(M, key, v)
             y == leaf.out
             S == (R \ {c}) \cup {y, x}
             r == Rest(key, i)
             K == First(key, i)
  <1> HIDE DEF N, y, r, K
  <1>1. HasOld(t, P, X, R, H, N, key, L, c, y, u)
    BY OldNode DEF N, y
  <1>2. PICK Q : /\ Forest(u, Q, X, S, H, N)
                 /\ Q[y] = key /\ Q[x] = L /\ Onto(t, P, u, Q)
                 /\ y \notin R /\ x \notin R \ {c} /\ x # y
                 /\ {y, x} \subseteq DOMAIN u.mem
                 /\ u.mem[y].kind = "leaf"
    BY <1>1 DEF HasOld
  <1>3. K \in Label /\ Extends(key, K, r) /\ r \in Label
    BY OneMore, Parts DEF K, r
  <1>4. w = Prepend(u, r, y)
    BY DEF r, y
  <1>5. y \in S /\ x \in S
    OBVIOUS
  <1>6. Extends(Q[y], K, r) /\ u.mem[y].kind \in Branch \cup {"leaf"}
    BY <1>2, <1>3
  <1>7. R \subseteq DOMAIN t.mem /\ S \subseteq DOMAIN u.mem
    BY <1>2 DEF Forest, Stock
  <1>8. S \ {y} = (R \ {c}) \cup {x}
    BY <1>2
  <1> HIDE DEF S
  <1>9. PICK W : /\ Forest(w, W, X, (S \ {y}) \cup {w.out}, H, N)
                 /\ W[w.out] = K /\ Onto(u, Q, w, W)
                 /\ w.out \notin S \ {y} /\ w.out \in DOMAIN w.mem
                 /\ r = <<>> => w.out = y
    <2>1. InFront(u, Q, X, S, H, N, K, r, y, w)
      BY <1>2, <1>3, <1>4, <1>5, <1>6, ForestPrepend
    <2> QED
      BY <2>1 DEF InFront
  <1>10. (S \ {y}) \cup {w.out} = (R \ {c}) \cup {x, w.out}
    BY <1>8
  <1>11. Onto(t, P, w, W)
    BY <1>2, <1>9, OntoChain
  <1>12. W[x] = L
    BY <1>2, <1>9 DEF Onto
  <1>13. w.out \notin R \ {c} /\ w.out # x /\ x \notin R \ {c}
    BY <1>2, <1>8, <1>9
  <1>14. HasBoth(t, P, X, R, H, N, key, i, L, c, x, w)
    BY <1>9, <1>10, <1>11, <1>12, <1>13 DEF HasBoth, K
  <1> QED
    BY <1>14 DEF N

-----------------------------------------------------------------------------
(* The ways in which an insertion ends. *)

\* The tree u holds the map N.
Holds(u, N) == \E Q : Forest(u, Q, {}, {}, {}, N)

\* Where the nibbles of the key up to i lead into the place <<a, d>>.
Awaits(t, P, a, d, key, i) ==
    /\ a # NIL => /\ a \in DOMAIN t.mem /\ t.mem[a].kind \in Branch
                  /\ d = Immediate => i = Len(key)
    /\ Extends(First(key, i), P[a], IF a = NIL THEN <<>> ELSE Over(t.mem[a], d))

\* New nodes do not disturb a path.
LEMMA PathKept ==
    ASSUME NEW t, NEW P, NEW u, NEW Q, Onto(t, P, u, Q), NIL \notin DOMAIN u.mem,
           NEW prev, NEW n, NEW d, Writable(t, {}, prev, n, d)
    PROVE  Writable(u, {}, prev, n, d)
  <1>1. Vacant(u, {}, n, d)
    BY DEF Writable, Vacant, Onto
  <1>2. Full(u, n, d) => Full(t, n, d)
    BY DEF Writable, Vacant, Onto, Full
  <1>3. \A m, e : Arc(t, {}, {}, m, e) => Arc(u, {}, {}, m, e)
    BY DEF Arc, Onto
  <1>4. ASSUME NEW m, NEW e, Arc(t, {}, {}, m, e), Target(t, m, e) = n
        PROVE  Target(u, m, e) = n
    <2>1. m = NIL \/ (m \in DOMAIN t.mem /\ m # NIL)
      BY <1>4 DEF Arc
    <2> QED
      BY <1>4, <2>1 DEF Target, Onto
  <1> QED
    BY <1>1, <1>2, <1>3, <1>4 DEF Writable

\* The walk ends at a place without a node.
LEMMA EndHere ==
    ASSUME NEW t, NEW P, NEW M, Forest(t, P, {}, {}, {}, M),
           NEW key \in Label, key \notin DOMAIN M, NEW v \in Values, NEW i \in 0 .. Len(key),
           NEW prev, NEW a, NEW d, Writable(t, {}, prev, a, d), Awaits(t, P, a, d, key, i),
           NEW u, u = InsertHere(t, key, i, v, prev)
    PROVE  Holds(u, With(M, key, v))
  <1> DEFINE leaf == CreateLeaf(t, v)
             w == Prepend(leaf, Rest(key, i), leaf.out)
             c == w.out
             N == With(M, key, v)
  <1>1. u = SetPrev(w, prev, c)
    BY DEF InsertHere
  <1> HIDE DEF c, N
  <1>2. HasNew(t, P, {}, {}, {}, N, key, i, w)
    <2> HIDE DEF leaf, w
    <2>1. leaf = CreateLeaf(t, v) /\ w = Prepend(leaf, Rest(key, i), leaf.out)
      BY DEF leaf, w
    <2> QED
      BY <2>1, NewLeaf DEF N
  <1> HIDE DEF w
  <1>3. PICK Q : /\ Forest(w, Q, {}, {} \cup {c}, {}, N)
                 /\ Q[c] = First(key, i) /\ Onto(t, P, w, Q)
                 /\ i = Len(key) => w.mem[c].kind = "leaf"
    BY <1>2 DEF HasNew, c
  <1>4. {} \cup {c} = {c}
    OBVIOUS
  <1>5. Forest(w, Q, {}, {c}, {}, N)
    BY <1>3, <1>4
  <1>6. /\ NIL \notin DOMAIN w.mem /\ Q[NIL] = <<>> /\ P[NIL] = <<>>
        /\ c \in DOMAIN w.mem
    BY <1>5 DEF Forest, Stock
  <1>7. Writable(w, {}, prev, a, d)
    BY <1>3, <1>6, PathKept
  <1>8. Leads(w, Q, a, d, c)
    <2>1. CASE a = NIL
      BY <1>3, <1>6, <2>1 DEF Awaits, Leads
    <2>2. CASE a # NIL
      <3>1. /\ a \in DOMAIN t.mem /\ t.mem[a].kind \in Branch
            /\ d = Immediate => i = Len(key)
            /\ Extends(First(key, i), P[a], Over(t.mem[a], d))
        BY <2>2 DEF Awaits
      <3>2. w.mem[a] = t.mem[a] /\ Q[a] = P[a]
        BY <1>3, <3>1 DEF Onto
      <3>3. Suits(t.mem[a], d, w.mem[c].kind)
        BY <1>3, <3>1 DEF Suits, Branch
      <3> QED
        BY <1>3, <1>6, <2>2, <3>1, <3>2, <3>3 DEF Leads
    <2> QED
      BY <2>1, <2>2
  <1>9. \E W : Forest(u, W, {}, {}, {}, N)
    BY <1>1, <1>5, <1>7, <1>8, PathLinks
  <1> QED
    BY <1>9 DEF Holds, N

\* A branch takes the place of a node that is not a leaf.
LEMMA TakesPlace ==
    ASSUME NEW t, NEW P, NEW M, Forest(t, P, {}, {}, {}, M),
           NEW a, NEW d, Arc(t, {}, {}, a, d), t.mem[Target(t, a, d)].kind # "leaf",
           NEW u, NEW Q, NIL \notin DOMAIN u.mem, Q[NIL] = <<>>,
           a # NIL => a \in DOMAIN u.mem /\ u.mem[a] = t.mem[a] /\ Q[a] = P[a],
           NEW c \in DOMAIN u.mem, u.mem[c].kind \in Branch, Q[c] = P[Target(t, a, d)],
           NEW prev, Len(prev) \in Nat \ {0}, prev[Len(prev)] = [node |-> a, val |-> d]
    PROVE  Writable(u, {<<a, d>>}, prev, a, d) /\ Leads(u, Q, a, d, c)
  <1> DEFINE n == Target(t, a, d)
             G == {<<a, d>>}
  <1>1. n = Target(t, a, d)
    OBVIOUS
  <1> HIDE DEF n
  <1>2. /\ Leads(t, P, a, d, n)
        /\ a = NIL => d = Immediate /\ P[n] = <<>>
        /\ a # NIL => /\ a \in DOMAIN t.mem /\ Has(t.mem[a], d)
                      /\ t.mem[a].kind \in Branch \cup {"edge"}
                      /\ d \in Nibble \cup {Immediate}
    BY <1>1, ArcFacts
  <1>3. t.mem[n].kind # "leaf" /\ Q[c] = P[n]
    BY <1>1
  <1>4. CASE a = NIL
    <2>1. Q[c] = <<>> /\ d = Immediate
      BY <1>2, <1>3, <1>4
    <2>2. Extends(<<>>, <<>>, <<>>)
      BY DEF Extends
    <2>3. Leads(u, Q, a, d, c)
      BY <1>4, <2>1, <2>2 DEF Leads
    <2>4. Vacant(u, G, a, d)
      BY <1>4, <2>1 DEF Vacant
    <2>5. ~Full(u, a, d)
      BY <1>4 DEF Full
    <2> QED
      BY <2>3, <2>4, <2>5 DEF Writable
  <1>5. CASE a # NIL
    <2>1. u.mem[a] = t.mem[a] /\ Q[a] = P[a] /\ a \in DOMAIN u.mem
      BY <1>5
    <2>2. Suits(t.mem[a], d, u.mem[c].kind)
      <3>1. Suits(t.mem[a], d, t.mem[n].kind)
        BY <1>2, <1>5 DEF Leads
      <3> QED
        BY <1>3, <3>1 DEF Suits, Branch
    <2>3. Leads(u, Q, a, d, c)
      BY <1>2, <1>3, <1>5, <2>1, <2>2 DEF Leads
    <2>4. t.mem[a].kind \in Branch => d \in DOMAIN t.mem[a].entries
      BY <1>2, <1>5 DEF Has, Branch
    <2>5. t.mem[a].kind = "edge" => d = Immediate
      BY <1>2, <1>5 DEF Has, Branch
    <2>6. Vacant(u, G, a, d)
      BY <1>2, <1>5, <2>1, <2>4, <2>5 DEF Vacant
    <2>7. ~Full(u, a, d)
      BY <2>1, <2>4 DEF Full, Fits
    <2> QED
      BY <2>3, <2>6, <2>7 DEF Writable
  <1> QED
    BY <1>4, <1>5

\* The label c, which is p and s, with a cut K in front of the nibble of s behind
\* the first m, and a cut L behind it.
Parted(c, p, s, m, K, L) ==
    /\ K \in Label /\ L \in Label /\ s[m + 1] \in Nibble
    /\ Extends(K, p, First(s, m)) /\ Extends(L, K, <<s[m + 1]>>)
    /\ Extends(c, L, Rest(s, m + 1))
    /\ m = 0 => K = p

\* A path cut at a nibble within its last part.
LEMMA CutAt ==
    ASSUME NEW c \in Label, NEW p \in Label, NEW s \in Label, Extends(c, p, s),
           NEW m \in Nat, m < Len(s),
           NEW K, K = First(c, Len(p) + m), NEW L, L = First(c, Len(p) + m + 1)
    PROVE  Parted(c, p, s, m, K, L)
  <1>1. Len(p) \in Nat /\ Len(s) \in Nat /\ Len(c) \in Nat
    BY Whole
  <1>2. m \in 0 .. Len(s) /\ m + 1 \in 0 .. Len(s) /\ m + 1 \in 1 .. Len(s)
    BY <1>1
  <1>3. K \in Label /\ Extends(K, p, First(s, m))
    BY <1>2, Cut
  <1>4. Len(p) + (m + 1) = Len(p) + m + 1
    BY <1>1
  <1>5. L = First(c, Len(p) + (m + 1))
    BY <1>4
  <1>6. L \in Label /\ Extends(c, L, Rest(s, m + 1))
    BY <1>2, <1>5, Cut
  <1>7. s[m + 1] \in Nibble /\ c[Len(p) + (m + 1)] = s[m + 1]
    BY <1>2 DEF Extends, Label
  <1>8. Extends(L, K, <<s[m + 1]>>)
    <2> DEFINE j == Len(p) + m
    <2>1. j \in 0 .. Len(c) /\ j < Len(c)
      BY <1>1 DEF Extends
    <2>2. K = First(c, j) /\ L = First(c, j + 1)
      OBVIOUS
    <2>3. c[j + 1] = s[m + 1]
      BY <1>4, <1>7
    <2> HIDE DEF j
    <2> QED
      BY <2>1, <2>2, <2>3, OneMore
  <1>9. ASSUME m = 0
        PROVE  K = p
    <2>1. First(s, m) = <<>> /\ <<>> \in Label /\ Extends(p, p, <<>>)
      BY <1>9, Whole
    <2>2. Extends(K, p, <<>>)
      BY <1>3, <2>1
    <2> QED
      BY <1>3, <2>1, <2>2, SameExtension
  <1> QED
    BY <1>3, <1>6, <1>7, <1>8, <1>9 DEF Parted

\* A new branch u.out, labelled K, over what R left.
Forked(t, P, X, H, N, K, u) ==
    \E W : /\ Forest(u, W, X, {u.out}, H, N)
           /\ W[u.out] = K /\ Onto(t, P, u, W)
           /\ u.out \notin DOMAIN t.mem /\ u.mem[u.out].kind \in Branch

\* An old node and the leaf of the key, after nibbles that differ.
LEMMA ForkBoth ==
    ASSUME NEW t, NEW P, NEW X, NEW c, NEW H, NEW M, Forest(t, P, X, {c}, H, M),
           NEW key \in Label, key \notin DOMAIN M, NEW v \in Values,
           NEW i \in Nat, i < Len(key),
           NEW s \in Label, NEW L \in Label, NEW K \in Label, NEW e \in Nibble,
           Extends(P[c], L, s), Extends(L, K, <<e>>), K = First(key, i), e # key[i + 1],
           t.mem[c].kind \in Branch \cup {"leaf"},
           NEW leaf, leaf = CreateLeaf(t, v),
           NEW old, old = Prepend(leaf, s, c),
           NEW new, new = Prepend(old, Rest(key, i + 1), leaf.out),
           NEW u, u = CreateBranch4(new, Pair(e, old.out, key[i + 1], new.out))
    PROVE  Forked(t, P, X, H, With(M, key, v), K, u)
  <1> DEFINE N == With(M, key, v)
             x == old.out
             y == new.out
             R == {c}
             S == {x, y}
             b == key[i + 1]
             entries == Pair(e, x, b, y)
  <1>1. Len(key) \in Nat /\ i \in 0 .. Len(key) /\ i + 1 \in 0 .. Len(key)
    BY Whole
  <1>2. HasBoth(t, P, X, R, H, N, key, i + 1, L, c, x, new)
    <2> DEFINE j == i + 1
    <2>1. j \in 0 .. Len(key) /\ new = Prepend(old, Rest(key, j), leaf.out) /\ x = old.out
      BY <1>1
    <2>2. c \in R /\ Forest(t, P, X, R, H, M)
      OBVIOUS
    <2> HIDE DEF j, x, R, N
    <2>3. HasBoth(t, P, X, R, H, With(M, key, v), key, j, L, c, x, new)
      BY <2>1, <2>2, BothNodes
    <2> QED
      BY <2>3 DEF j, N
  <1> HIDE DEF N
  <1>3. PICK Q : /\ Forest(new, Q, X, (R \ {c}) \cup {x, y}, H, N)
                 /\ Q[x] = L /\ Q[y] = First(key, i + 1) /\ Onto(t, P, new, Q) /\ y # x
    BY <1>2 DEF HasBoth
  <1>4. (R \ {c}) \cup {x, y} = S
    OBVIOUS
  <1>5. Forest(new, Q, X, S, H, N)
    BY <1>3, <1>4
  <1>6. /\ b \in Nibble /\ Extends(First(key, i + 1), K, <<b>>)
    BY <1>1, OneMore
  <1>7. e # Immediate
    <2>1. Branches \in Nat
      BY KeyAssumption
    <2> QED
      BY <2>1 DEF Nibble, Immediate
  <1>8. u = CreateBranch4(new, entries) /\ x \in S /\ y \in S /\ x # y /\ e # b
    BY <1>3
  <1>9. /\ Extends(Q[x], K, IF e = Immediate THEN <<>> ELSE <<e>>)
        /\ Extends(Q[y], K, <<b>>) /\ e \in Nibble \cup {Immediate}
        /\ e = Immediate => new.mem[x].kind = "leaf"
    BY <1>3, <1>6, <1>7
  <1>10. entries = Pair(e, x, b, y)
    OBVIOUS
  <1> HIDE DEF entries, S, x, y, b
  <1>11. Joined(new, Q, X, S, H, N, K, x, y, u)
    BY <1>5, <1>6, <1>8, <1>9, <1>10, ForestPair
  <1>12. PICK W : /\ Forest(u, W, X, (S \ {x, y}) \cup {u.out}, H, N)
                  /\ W[u.out] = K /\ Onto(new, Q, u, W)
                  /\ u.out \notin DOMAIN new.mem /\ u.mem[u.out].kind \in Branch
    BY <1>11 DEF Joined
  <1>13. (S \ {x, y}) \cup {u.out} = {u.out}
    BY DEF S
  <1>14. Onto(t, P, u, W)
    BY <1>3, <1>12, OntoChain
  <1>15. u.out \notin DOMAIN t.mem
    BY <1>3, <1>12 DEF Onto
  <1> QED
    BY <1>12, <1>13, <1>14, <1>15 DEF Forked, N

\* The leaf of the key at the branch, an old node below it.
LEMMA ForkOld ==
    ASSUME NEW t, NEW P, NEW X, NEW c, NEW H, NEW M, Forest(t, P, X, {c}, H, M),
           NEW key \in Label, key \notin DOMAIN M, NEW v \in Values,
           NEW s \in Label, NEW L \in Label, NEW e \in Nibble,
           Extends(P[c], L, s), Extends(L, key, <<e>>),
           t.mem[c].kind \in Branch \cup {"leaf"},
           NEW leaf, leaf = CreateLeaf(t, v),
           NEW old, old = Prepend(leaf, s, c),
           NEW u, u = CreateBranch4(old, Pair(Immediate, leaf.out, e, old.out))
    PROVE  Forked(t, P, X, H, With(M, key, v), key, u)
  <1> DEFINE N == With(M, key, v)
             x == leaf.out
             y == old.out
             R == {c}
             S == {x, y}
             entries == Pair(Immediate, x, e, y)
  <1>1. HasOld(t, P, X, R, H, N, key, L, c, x, old)
    <2>2. c \in R /\ Forest(t, P, X, R, H, M) /\ x = leaf.out
      OBVIOUS
    <2> HIDE DEF x, R, N
    <2>3. HasOld(t, P, X, R, H, With(M, key, v), key, L, c, x, old)
      BY <2>2, OldNode
    <2> QED
      BY <2>3 DEF N
  <1> HIDE DEF N
  <1>2. PICK Q : /\ Forest(old, Q, X, (R \ {c}) \cup {x, y}, H, N)
                 /\ Q[x] = key /\ Q[y] = L /\ Onto(t, P, old, Q) /\ y # x
                 /\ old.mem[x].kind = "leaf"
    BY <1>1 DEF HasOld
  <1>3. (R \ {c}) \cup {x, y} = S
    OBVIOUS
  <1>4. Forest(old, Q, X, S, H, N)
    BY <1>2, <1>3
  <1>5. Extends(key, key, <<>>)
    BY Whole
  <1>6. e # Immediate
    <2>1. Branches \in Nat
      BY KeyAssumption
    <2> QED
      BY <2>1 DEF Nibble, Immediate
  <1> DEFINE d == Immediate
  <1>7. u = CreateBranch4(old, entries) /\ x \in S /\ y \in S /\ x # y /\ d # e
    BY <1>2, <1>6
  <1>8. /\ Extends(Q[x], key, IF d = Immediate THEN <<>> ELSE <<d>>)
        /\ Extends(Q[y], key, <<e>>) /\ d \in Nibble \cup {Immediate}
        /\ d = Immediate => old.mem[x].kind = "leaf"
    BY <1>2, <1>5
  <1>9. entries = Pair(d, x, e, y)
    OBVIOUS
  <1> HIDE DEF entries, S, x, y, d
  <1>10. Joined(old, Q, X, S, H, N, key, x, y, u)
    BY <1>4, <1>7, <1>8, <1>9, ForestPair
  <1>11. PICK W : /\ Forest(u, W, X, (S \ {x, y}) \cup {u.out}, H, N)
                  /\ W[u.out] = key /\ Onto(old, Q, u, W)
                  /\ u.out \notin DOMAIN old.mem /\ u.mem[u.out].kind \in Branch
    BY <1>10 DEF Joined
  <1>12. (S \ {x, y}) \cup {u.out} = {u.out}
    BY DEF S
  <1>13. Onto(t, P, u, W)
    BY <1>2, <1>11, OntoChain
  <1>14. u.out \notin DOMAIN t.mem
    BY <1>2, <1>11 DEF Onto
  <1> QED
    BY <1>11, <1>12, <1>13, <1>14 DEF Forked, N

\* An old leaf at the branch, the leaf of the key below it.
LEMMA ForkNew ==
    ASSUME NEW t, NEW P, NEW X, NEW c, NEW H, NEW M, Forest(t, P, X, {c}, H, M),
           NEW key \in Label, key \notin DOMAIN M, NEW v \in Values,
           NEW i \in Nat, i < Len(key), NEW K \in Label, K = First(key, i),
           P[c] = K, t.mem[c].kind = "leaf",
           NEW leaf, leaf = CreateLeaf(t, v),
           NEW new, new = Prepend(leaf, Rest(key, i + 1), leaf.out),
           NEW u, u = CreateBranch4(new, Pair(Immediate, c, key[i + 1], new.out))
    PROVE  Forked(t, P, X, H, With(M, key, v), K, u)
  <1> DEFINE N == With(M, key, v)
             y == new.out
             R == {c}
             S == {c, y}
             b == key[i + 1]
             entries == Pair(Immediate, c, b, y)
  <1>1. Len(key) \in Nat /\ i \in 0 .. Len(key) /\ i + 1 \in 0 .. Len(key)
    BY Whole
  <1>2. HasNew(t, P, X, R, H, N, key, i + 1, new)
    <2> DEFINE j == i + 1
    <2>1. j \in 0 .. Len(key) /\ new = Prepend(leaf, Rest(key, j), leaf.out)
      BY <1>1
    <2>2. Forest(t, P, X, R, H, M)
      OBVIOUS
    <2> HIDE DEF j, R, N
    <2>3. HasNew(t, P, X, R, H, With(M, key, v), key, j, new)
      BY <2>1, <2>2, NewLeaf
    <2> QED
      BY <2>3 DEF j, N
  <1> HIDE DEF N
  <1>3. PICK Q : /\ Forest(new, Q, X, R \cup {y}, H, N)
                 /\ Q[y] = First(key, i + 1) /\ Onto(t, P, new, Q) /\ y \notin R
    BY <1>2 DEF HasNew
  <1>4. R \cup {y} = S
    OBVIOUS
  <1>5. Forest(new, Q, X, S, H, N)
    BY <1>3, <1>4
  <1>6. b \in Nibble /\ Extends(First(key, i + 1), K, <<b>>) /\ Extends(K, K, <<>>)
    BY <1>1, OneMore, Whole
  <1>7. b # Immediate
    <2>1. Branches \in Nat
      BY KeyAssumption
    <2> QED
      BY <1>6, <2>1 DEF Nibble, Immediate
  <1>8. c \in DOMAIN t.mem
    BY DEF Forest, Stock
  <1>9. Q[c] = K /\ new.mem[c].kind = "leaf"
    BY <1>3, <1>8 DEF Onto
  <1> DEFINE d == Immediate
  <1>10. u = CreateBranch4(new, entries) /\ c \in S /\ y \in S /\ c # y /\ d # b
    BY <1>3, <1>7
  <1>11. /\ Extends(Q[c], K, IF d = Immediate THEN <<>> ELSE <<d>>)
         /\ Extends(Q[y], K, <<b>>) /\ d \in Nibble \cup {Immediate}
         /\ d = Immediate => new.mem[c].kind = "leaf"
    BY <1>3, <1>6, <1>9
  <1>12. entries = Pair(d, c, b, y)
    OBVIOUS
  <1> HIDE DEF entries, S, y, b, d
  <1>13. Joined(new, Q, X, S, H, N, K, c, y, u)
    <2>1. c \in S /\ y \in S /\ c # y /\ d # b /\ b \in Nibble /\ d \in Nibble \cup {Immediate}
      BY <1>6, <1>10, <1>11
    <2>2. u = CreateBranch4(new, entries)
      BY <1>10
    <2> QED
      BY <1>5, <1>11, <1>12, <2>1, <2>2, ForestPair
  <1>14. PICK W : /\ Forest(u, W, X, (S \ {c, y}) \cup {u.out}, H, N)
                  /\ W[u.out] = K /\ Onto(new, Q, u, W)
                  /\ u.out \notin DOMAIN new.mem /\ u.mem[u.out].kind \in Branch
    BY <1>13 DEF Joined
  <1>15. (S \ {c, y}) \cup {u.out} = {u.out}
    BY DEF S
  <1>16. Onto(t, P, u, W)
    BY <1>3, <1>14, OntoChain
  <1>17. u.out \notin DOMAIN t.mem
    BY <1>3, <1>14 DEF Onto
  <1> QED
    BY <1>14, <1>15, <1>16, <1>17 DEF Forked, N

\* An edge and what it leads to.
LEMMA EdgeFacts ==
    ASSUME NEW t, NEW P, NEW M, Forest(t, P, {}, {}, {}, M),
           NEW n \in DOMAIN t.mem, t.mem[n].kind = "edge",
           NEW c, c = t.mem[n].next, NEW s, s = t.mem[n].str
    PROVE  /\ s \in Label /\ s # <<>> /\ P[n] \in Label /\ P[c] \in Label
           /\ Arc(t, {}, {}, n, Immediate) /\ Target(t, n, Immediate) = c
           /\ c \in DOMAIN t.mem /\ t.mem[c].kind \in Branch \cup {"leaf"}
           /\ Extends(P[c], P[n], s) /\ c # n
           /\ \A x : Has(t.mem[n], x) <=> x = Immediate
  <1>1. /\ DOMAIN t.mem \subseteq Nat \ {NIL} /\ P \in [Nat -> Label]
        /\ Sound(t.mem[n])
    BY DEF Forest, Stock
  <1>2. s \in Label /\ s # <<>>
    BY <1>1 DEF Sound, Branch
  <1>3. \A x : Has(t.mem[n], x) <=> x = Immediate
    BY DEF Has, Branch
  <1>4. n # NIL /\ To(t.mem[n], Immediate) = c /\ Over(t.mem[n], Immediate) = s
    BY <1>1 DEF To, Over
  <1>5. Arc(t, {}, {}, n, Immediate) /\ Target(t, n, Immediate) = c
    BY <1>3, <1>4 DEF Arc, Target
  <1>6. c \in DOMAIN t.mem /\ Leads(t, P, n, Immediate, c) /\ c # n
    BY <1>4, <1>5, ArcFacts
  <1>7. t.mem[c].kind \in Branch \cup {"leaf"} /\ Extends(P[c], P[n], s)
    BY <1>4, <1>6 DEF Leads, Suits
  <1>8. P[n] \in Label /\ P[c] \in Label
    BY <1>1, <1>6
  <1> QED
    BY <1>2, <1>3, <1>5, <1>6, <1>7, <1>8

\* The place of an edge is about to be overwritten; the edge is given up.
LEMMA EdgeLoose ==
    ASSUME NEW t, NEW P, NEW M, Forest(t, P, {}, {}, {}, M),
           NEW a, NEW d, Arc(t, {}, {}, a, d), NEW n, n = Target(t, a, d),
           t.mem[n].kind = "edge", NEW c, c = t.mem[n].next,
           NEW G, G = {<<a, d>>}, NEW X, X = {n}, NEW R, R = {c}
    PROVE  Forest(t, P, X, R, G, M)
  <1>0. DOMAIN t.mem \subseteq Nat \ {NIL}
    BY DEF Forest, Stock
  <1>1. /\ n \in DOMAIN t.mem /\ DOMAIN t.mem \subseteq Nat \ {NIL}
        /\ a # NIL => a # n
    BY <1>0, ArcFacts
  <1>2. n # a
    BY <1>1
  <1>3. Forest(t, P, {}, {} \cup {n}, {} \cup {<<a, d>>}, M)
    BY ForestDetach
  <1>4. {} \cup {n} = {n} /\ {} \cup {<<a, d>>} = G
    OBVIOUS
  <1>5. Forest(t, P, {}, {n}, G, M)
    BY <1>3, <1>4
  <1>6. \A x : <<n, x>> \notin G
    BY <1>2
  <1>7. n \in {n} /\ t.mem[n].kind # "leaf"
    OBVIOUS
  <1>8. Forest(t, P, {} \cup {n}, ({n} \ {n}) \cup Heirs(t, n), G, M)
    BY <1>5, <1>6, <1>7, ForestGiveUp
  <1>9. \A x : Has(t.mem[n], x) <=> x = Immediate
    BY DEF Has, Branch
  <1>10. n # NIL /\ Target(t, n, Immediate) = c
    BY <1>1 DEF Target, To
  <1>11. {x \in Nibble \cup {Immediate} : Has(t.mem[n], x)} = {Immediate}
    BY <1>9
  <1>12. Heirs(t, n) = {c}
    BY <1>10, <1>11 DEF Heirs
  <1>13. {} \cup {n} = X /\ ({n} \ {n}) \cup {c} = R
    OBVIOUS
  <1> QED
    BY <1>8, <1>12, <1>13

\* The walk ends at an edge whose first nibble is not the key's.
LEMMA EndFirst ==
    ASSUME NEW t, NEW P, NEW M, Forest(t, P, {}, {}, {}, M),
           NEW key \in Label, key \notin DOMAIN M, NEW v \in Values,
           NEW i \in Nat, i < Len(key),
           NEW a, NEW d, Arc(t, {}, {}, a, d), NEW n, n = Target(t, a, d),
           t.mem[n].kind = "edge", P[n] = First(key, i), t.mem[n].str[1] # key[i + 1],
           NEW prev, Len(prev) \in Nat \ {0}, prev[Len(prev)] = [node |-> a, val |-> d],
           NEW u, u = SplitFirst(t, n, key, i, v, prev)
    PROVE  Holds(u, With(M, key, v))
  <1> DEFINE s == t.mem[n].str
             next == t.mem[n].next
             leaf == CreateLeaf(t, v)
             old == Prepend(leaf, Rest(s, 1), next)
             new == Prepend(old, Rest(key, i + 1), leaf.out)
             both == CreateBranch4(new, Pair(s[1], old.out, key[i + 1], new.out))
             w == RemoveEdge(both, n)
             N == With(M, key, v)
             K == P[n]
             L == First(P[next], Len(K) + 1)
             G == {<<a, d>>}
             X == {n}
  <1>1. u = SetPrev(w, prev, both.out)
    BY DEF SplitFirst
  <1>2. /\ n \in DOMAIN t.mem /\ (a # NIL => a \in DOMAIN t.mem /\ a # n)
    BY ArcFacts
  <1>3. /\ s \in Label /\ s # <<>> /\ K \in Label /\ P[next] \in Label
        /\ t.mem[next].kind \in Branch \cup {"leaf"} /\ Extends(P[next], K, s)
    BY <1>2, EdgeFacts
  <1>4. Len(s) \in Nat /\ 0 < Len(s)
    <2> HIDE DEF s
    <2>1. s \in Seq(Nibble) /\ s # <<>>
      BY <1>3 DEF Label
    <2> QED
      BY <2>1
  <1>5. /\ L \in Label /\ s[1] \in Nibble /\ Extends(L, K, <<s[1]>>)
        /\ Extends(P[next], L, Rest(s, 1))
    <2> DEFINE m == 0
               Z == First(P[next], Len(K) + m)
    <2>1. Len(K) \in Nat
      BY <1>3, Whole
    <2>2. m \in Nat /\ m < Len(s) /\ Z = First(P[next], Len(K) + m)
          /\ L = First(P[next], Len(K) + m + 1) /\ m + 1 = 1 /\ m = 0
      BY <1>4, <2>1
    <2> HIDE DEF m, Z, L, K, s, next
    <2>3. Parted(P[next], K, s, m, Z, L)
      BY <1>3, <2>2, CutAt
    <2>4. /\ L \in Label /\ s[m + 1] \in Nibble /\ Extends(L, Z, <<s[m + 1]>>)
          /\ Extends(P[next], L, Rest(s, m + 1)) /\ Z = K
      BY <2>2, <2>3 DEF Parted
    <2> QED
      BY <2>2, <2>4
  <1>6. Forest(t, P, X, {next}, G, M)
    BY EdgeLoose
  <1>7. Forked(t, P, X, G, N, K, both)
    <2> DEFINE e == s[1]
               r == Rest(s, 1)
    <2>1. r \in Label
      <3>1. 1 \in 0 .. Len(s)
        BY <1>4
      <3> QED
        BY <1>3, <3>1, Parts
    <2>2. /\ leaf = CreateLeaf(t, v) /\ old = Prepend(leaf, r, next)
          /\ new = Prepend(old, Rest(key, i + 1), leaf.out)
          /\ both = CreateBranch4(new, Pair(e, old.out, key[i + 1], new.out))
      OBVIOUS
    <2>3. e \in Nibble /\ e # key[i + 1] /\ Extends(L, K, <<e>>) /\ Extends(P[next], L, r) /\ K = First(key, i)
      BY <1>5
    <2>4. K \in Label /\ L \in Label /\ t.mem[next].kind \in Branch \cup {"leaf"}
      BY <1>3, <1>5
    <2> HIDE DEF e, r, leaf, old, new, both, K, L, s, next, X, G
    <2>5. Forked(t, P, X, G, With(M, key, v), K, both)
      BY <1>6, <2>1, <2>2, <2>3, <2>4, ForkBoth
    <2> QED
      BY <2>5
  <1> HIDE DEF both, N, G
  <1>8. PICK W : /\ Forest(both, W, X, {both.out}, G, N)
                 /\ W[both.out] = K /\ Onto(t, P, both, W)
                 /\ both.out \notin DOMAIN t.mem /\ both.mem[both.out].kind \in Branch
    BY <1>7 DEF Forked
  <1>9. n \in X /\ n \in DOMAIN both.mem /\ both.mem[n].kind = "edge" /\ w = RemoveEdge(both, n)
    BY <1>2, <1>8 DEF Onto
  <1> DEFINE c == both.out
  <1> HIDE DEF w, X
  <1>10. Forest(w, W, X \ {n}, {c}, G, N) /\ Sheds(both, w, n)
    BY <1>8, <1>9, Removals
  <1>11. X \ {n} = {}
    BY DEF X
  <1> HIDE DEF c
  <1>12. Forest(w, W, {}, {c}, G, N)
    BY <1>10, <1>11
  <1>13. NIL \notin DOMAIN w.mem /\ W[NIL] = <<>> /\ c \in DOMAIN w.mem
    BY <1>12 DEF Forest, Stock
  <1>14. a # NIL => a \in DOMAIN w.mem /\ w.mem[a] = t.mem[a] /\ W[a] = P[a]
    BY <1>2, <1>8, <1>10 DEF Onto, Sheds
  <1>15. w.mem[c].kind \in Branch /\ W[c] = P[Target(t, a, d)] /\ t.mem[Target(t, a, d)].kind # "leaf"
    BY <1>8, <1>10, <1>13 DEF Sheds, c
  <1>16. Writable(w, {<<a, d>>}, prev, a, d) /\ Leads(w, W, a, d, c)
    BY <1>13, <1>14, <1>15, TakesPlace
  <1>17. u = SetPrev(w, prev, c)
    BY <1>1 DEF c, w, both
  <1>18. Writable(w, G, prev, a, d)
    BY <1>16 DEF G
  <1>19. \E Q : Forest(u, Q, {}, {}, {}, N)
    BY <1>12, <1>16, <1>17, <1>18, PathLinks
  <1> QED
    BY <1>19 DEF Holds, N

\* The walk ends within an edge, both sides go on.
LEMMA EndBoth ==
    ASSUME NEW t, NEW P, NEW M, Forest(t, P, {}, {}, {}, M),
           NEW key \in Label, key \notin DOMAIN M, NEW v \in Values,
           NEW i \in Nat, i < Len(key),
           NEW n \in DOMAIN t.mem, t.mem[n].kind = "edge",
           NEW m \in Nat, 0 < m, m < Len(t.mem[n].str),
           Extends(First(key, i), P[n], First(t.mem[n].str, m)), t.mem[n].str[m + 1] # key[i + 1],
           NEW u, u = SplitBoth(t, n, m, key, i, v)
    PROVE  Holds(u, With(M, key, v))
  <1> DEFINE s == t.mem[n].str
             next == t.mem[n].next
             leaf == CreateLeaf(t, v)
             old == Prepend(leaf, Rest(s, m + 1), next)
             new == Prepend(old, Rest(key, i + 1), leaf.out)
             both == CreateBranch4(new, Pair(s[m + 1], old.out, key[i + 1], new.out))
             N == With(M, key, v)
             K == First(P[next], Len(P[n]) + m)
             L == First(P[next], Len(P[n]) + m + 1)
             G == {<<n, Immediate>>}
  <1>1. u = Shorten(both, n, m, both.out)
    BY DEF SplitBoth
  <1>2. /\ s \in Label /\ s # <<>> /\ P[n] \in Label /\ P[next] \in Label
        /\ next \in DOMAIN t.mem
        /\ t.mem[next].kind \in Branch \cup {"leaf"} /\ Extends(P[next], P[n], s)
        /\ Arc(t, {}, {}, n, Immediate) /\ Target(t, n, Immediate) = next
    BY EdgeFacts
  <1>3. Len(s) \in Nat /\ m + 1 \in 0 .. Len(s) /\ m \in 0 .. Len(s) /\ m \in 1 .. Len(s)
    <2>1. Len(s) \in Nat
      BY <1>2, Whole
    <2> QED
      BY <2>1
  <1>4. /\ K \in Label /\ L \in Label /\ s[m + 1] \in Nibble /\ Extends(L, K, <<s[m + 1]>>)
        /\ Extends(K, P[n], First(s, m)) /\ Extends(P[next], L, Rest(s, m + 1))
    <2> DEFINE x == P[next]
               p == P[n]
    <2>1. K = First(x, Len(p) + m) /\ L = First(x, Len(p) + m + 1) /\ m < Len(s)
      OBVIOUS
    <2>2. x \in Label /\ p \in Label /\ s \in Label /\ Extends(x, p, s)
      BY <1>2
    <2> HIDE DEF K, L, s, x, p
    <2>3. Parted(x, p, s, m, K, L)
      BY <2>1, <2>2, CutAt
    <2> QED
      BY <2>3 DEF Parted, x, p
  <1>5. K = First(key, i)
    <2>1. First(s, m) \in Label
      BY <1>2, <1>3, Parts
    <2>2. First(key, i) \in Label
      <3>1. Len(key) \in Nat
        BY Whole
      <3>2. i \in 0 .. Len(key)
        BY <3>1
      <3> QED
        BY <3>2, Parts
    <2> QED
      BY <1>2, <1>4, <2>1, <2>2, SameExtension
  <1>6. Forest(t, P, {}, {next}, G, M)
    <2>1. Forest(t, P, {}, {} \cup {next}, {} \cup {<<n, Immediate>>}, M)
      BY <1>2, ForestDetach
    <2>2. {} \cup {next} = {next} /\ {} \cup {<<n, Immediate>>} = G
      OBVIOUS
    <2> QED
      BY <2>1, <2>2
  <1>7. Forked(t, P, {}, G, N, K, both)
    <2> DEFINE e == s[m + 1]
               r == Rest(s, m + 1)
    <2>1. r \in Label
      BY <1>2, <1>3, Parts
    <2>2. /\ leaf = CreateLeaf(t, v) /\ old = Prepend(leaf, r, next)
          /\ new = Prepend(old, Rest(key, i + 1), leaf.out)
          /\ both = CreateBranch4(new, Pair(e, old.out, key[i + 1], new.out))
      OBVIOUS
    <2>3. e \in Nibble /\ e # key[i + 1] /\ Extends(L, K, <<e>>) /\ Extends(P[next], L, r)
      BY <1>4
    <2>4. K \in Label /\ L \in Label /\ t.mem[next].kind \in Branch \cup {"leaf"}
      BY <1>2, <1>4
    <2> HIDE DEF e, r, leaf, old, new, both, K, L, s, next, G
    <2>5. Forked(t, P, {}, G, With(M, key, v), K, both)
      BY <1>5, <1>6, <2>1, <2>2, <2>3, <2>4, ForkBoth
    <2> QED
      BY <2>5
  <1> HIDE DEF both, N, G
  <1>8. PICK W : /\ Forest(both, W, {}, {both.out}, G, N)
                 /\ W[both.out] = K /\ Onto(t, P, both, W)
                 /\ both.out \notin DOMAIN t.mem /\ both.mem[both.out].kind \in Branch
    BY <1>7 DEF Forked
  <1> DEFINE c == both.out
             R == {c}
  <1>9. n \in DOMAIN both.mem /\ both.mem[n] = t.mem[n] /\ W[n] = P[n]
    BY <1>8 DEF Onto
  <1>10. <<n, Immediate>> \in G /\ c \in R /\ R \ {c} = {} /\ G \ {<<n, Immediate>>} = {} /\ n \notin {}
    BY DEF G
  <1>11. both.mem[n].kind = "edge" /\ m \in 1 .. Len(both.mem[n].str)
         /\ Extends(W[c], W[n], First(both.mem[n].str, m))
         /\ both.mem[c].kind \in Branch \cup {"leaf"}
    BY <1>3, <1>4, <1>8, <1>9
  <1>12. Forest(both, W, {}, R, G, N) /\ u = Shorten(both, n, m, c)
    BY <1>1, <1>8 DEF both
  <1> HIDE DEF c, R
  <1>13. Forest(u, W, {}, R \ {c}, G \ {<<n, Immediate>>}, N)
    BY <1>9, <1>10, <1>11, <1>12, LinkShort
  <1> QED
    BY <1>10, <1>13 DEF Holds, N

\* The key ends within an edge.
LEMMA EndOld ==
    ASSUME NEW t, NEW P, NEW M, Forest(t, P, {}, {}, {}, M),
           NEW key \in Label, key \notin DOMAIN M, NEW v \in Values,
           NEW n \in DOMAIN t.mem, t.mem[n].kind = "edge",
           NEW m \in Nat, 0 < m, m < Len(t.mem[n].str),
           Extends(key, P[n], First(t.mem[n].str, m)),
           NEW u, u = SplitOld(t, n, m, v)
    PROVE  Holds(u, With(M, key, v))
  <1> DEFINE s == t.mem[n].str
             next == t.mem[n].next
             leaf == CreateLeaf(t, v)
             old == Prepend(leaf, Rest(s, m + 1), next)
             both == CreateBranch4(old, Pair(Immediate, leaf.out, s[m + 1], old.out))
             N == With(M, key, v)
             K == First(P[next], Len(P[n]) + m)
             L == First(P[next], Len(P[n]) + m + 1)
             G == {<<n, Immediate>>}
  <1>1. u = Shorten(both, n, m, both.out)
    BY DEF SplitOld
  <1>2. /\ s \in Label /\ s # <<>> /\ P[n] \in Label /\ P[next] \in Label
        /\ next \in DOMAIN t.mem
        /\ t.mem[next].kind \in Branch \cup {"leaf"} /\ Extends(P[next], P[n], s)
        /\ Arc(t, {}, {}, n, Immediate) /\ Target(t, n, Immediate) = next
    BY EdgeFacts
  <1>3. Len(s) \in Nat /\ m + 1 \in 0 .. Len(s) /\ m \in 0 .. Len(s) /\ m \in 1 .. Len(s)
    <2>1. Len(s) \in Nat
      BY <1>2, Whole
    <2> QED
      BY <2>1
  <1>4. /\ K \in Label /\ L \in Label /\ s[m + 1] \in Nibble /\ Extends(L, K, <<s[m + 1]>>)
        /\ Extends(K, P[n], First(s, m)) /\ Extends(P[next], L, Rest(s, m + 1))
    <2> DEFINE x == P[next]
               p == P[n]
    <2>1. K = First(x, Len(p) + m) /\ L = First(x, Len(p) + m + 1) /\ m < Len(s)
      OBVIOUS
    <2>2. x \in Label /\ p \in Label /\ s \in Label /\ Extends(x, p, s)
      BY <1>2
    <2> HIDE DEF K, L, s, x, p
    <2>3. Parted(x, p, s, m, K, L)
      BY <2>1, <2>2, CutAt
    <2> QED
      BY <2>3 DEF Parted, x, p
  <1>5. K = key
    <2>1. First(s, m) \in Label
      BY <1>2, <1>3, Parts
    <2> QED
      BY <1>2, <1>4, <2>1, SameExtension
  <1>6. Forest(t, P, {}, {next}, G, M)
    <2>1. Forest(t, P, {}, {} \cup {next}, {} \cup {<<n, Immediate>>}, M)
      BY <1>2, ForestDetach
    <2>2. {} \cup {next} = {next} /\ {} \cup {<<n, Immediate>>} = G
      OBVIOUS
    <2> QED
      BY <2>1, <2>2
  <1>7. Forked(t, P, {}, G, N, key, both)
    <2> DEFINE e == s[m + 1]
               r == Rest(s, m + 1)
    <2>1. r \in Label
      BY <1>2, <1>3, Parts
    <2>2. /\ leaf = CreateLeaf(t, v) /\ old = Prepend(leaf, r, next)
          /\ both = CreateBranch4(old, Pair(Immediate, leaf.out, e, old.out))
      OBVIOUS
    <2>3. e \in Nibble /\ Extends(L, key, <<e>>) /\ Extends(P[next], L, r)
      BY <1>4, <1>5
    <2>4. L \in Label /\ t.mem[next].kind \in Branch \cup {"leaf"}
      BY <1>2, <1>4
    <2> HIDE DEF e, r, leaf, old, both, K, L, s, next, G
    <2>5. Forked(t, P, {}, G, With(M, key, v), key, both)
      BY <1>6, <2>1, <2>2, <2>3, <2>4, ForkOld
    <2> QED
      BY <2>5
  <1> HIDE DEF both, N, G
  <1>8. PICK W : /\ Forest(both, W, {}, {both.out}, G, N)
                 /\ W[both.out] = key /\ Onto(t, P, both, W)
                 /\ both.out \notin DOMAIN t.mem /\ both.mem[both.out].kind \in Branch
    BY <1>7 DEF Forked
  <1> DEFINE c == both.out
             R == {c}
  <1>9. n \in DOMAIN both.mem /\ both.mem[n] = t.mem[n] /\ W[n] = P[n]
    BY <1>8 DEF Onto
  <1>10. <<n, Immediate>> \in G /\ c \in R /\ R \ {c} = {} /\ G \ {<<n, Immediate>>} = {} /\ n \notin {}
    BY DEF G
  <1>11. both.mem[n].kind = "edge" /\ m \in 1 .. Len(both.mem[n].str)
         /\ Extends(W[c], W[n], First(both.mem[n].str, m))
         /\ both.mem[c].kind \in Branch \cup {"leaf"}
    BY <1>3, <1>8, <1>9
  <1>12. Forest(both, W, {}, R, G, N) /\ u = Shorten(both, n, m, c)
    BY <1>1, <1>8 DEF both
  <1> HIDE DEF c, R
  <1>13. Forest(u, W, {}, R \ {c}, G \ {<<n, Immediate>>}, N)
    BY <1>9, <1>10, <1>11, <1>12, LinkShort
  <1> QED
    BY <1>10, <1>13 DEF Holds, N

\* The edge ends in a leaf and the key goes on.
LEMMA EndNew ==
    ASSUME NEW t, NEW P, NEW M, Forest(t, P, {}, {}, {}, M),
           NEW key \in Label, key \notin DOMAIN M, NEW v \in Values,
           NEW i \in Nat, i < Len(key),
           NEW n \in DOMAIN t.mem, t.mem[n].kind = "edge",
           Extends(First(key, i), P[n], t.mem[n].str),
           t.mem[t.mem[n].next].kind = "leaf",
           NEW u, u = SplitNew(t, n, key, i, v)
    PROVE  Holds(u, With(M, key, v))
  <1> DEFINE s == t.mem[n].str
             next == t.mem[n].next
             leaf == CreateLeaf(t, v)
             new == Prepend(leaf, Rest(key, i + 1), leaf.out)
             both == CreateBranch4(new, Pair(Immediate, next, key[i + 1], new.out))
             N == With(M, key, v)
             K == First(key, i)
             G == {<<n, Immediate>>}
  <1>1. u = [both EXCEPT !.mem[n].next = both.out]
    BY DEF SplitNew
  <1>2. /\ s \in Label /\ s # <<>> /\ P[n] \in Label /\ P[next] \in Label
        /\ next \in DOMAIN t.mem
        /\ t.mem[next].kind \in Branch \cup {"leaf"} /\ Extends(P[next], P[n], s)
        /\ Arc(t, {}, {}, n, Immediate) /\ Target(t, n, Immediate) = next
    BY EdgeFacts
  <1>3. K \in Label
    <2>1. Len(key) \in Nat
      BY Whole
    <2>2. i \in 0 .. Len(key)
      BY <2>1
    <2> QED
      BY <2>2, Parts
  <1>4. P[next] = K
    BY <1>2, <1>3, SameExtension
  <1>5. Forest(t, P, {}, {next}, G, M)
    <2>1. Forest(t, P, {}, {} \cup {next}, {} \cup {<<n, Immediate>>}, M)
      BY <1>2, ForestDetach
    <2>2. {} \cup {next} = {next} /\ {} \cup {<<n, Immediate>>} = G
      OBVIOUS
    <2> QED
      BY <2>1, <2>2
  <1>6. Forked(t, P, {}, G, N, K, both)
    <2>1. /\ leaf = CreateLeaf(t, v)
          /\ new = Prepend(leaf, Rest(key, i + 1), leaf.out)
          /\ both = CreateBranch4(new, Pair(Immediate, next, key[i + 1], new.out))
      OBVIOUS
    <2>2. K = First(key, i) /\ t.mem[next].kind = "leaf"
      OBVIOUS
    <2> HIDE DEF leaf, new, both, K, s, next, G
    <2>3. Forked(t, P, {}, G, With(M, key, v), K, both)
      BY <1>3, <1>4, <1>5, <2>1, <2>2, ForkNew
    <2> QED
      BY <2>3
  <1> HIDE DEF both, N, G
  <1>7. PICK W : /\ Forest(both, W, {}, {both.out}, G, N)
                 /\ W[both.out] = K /\ Onto(t, P, both, W)
                 /\ both.out \notin DOMAIN t.mem /\ both.mem[both.out].kind \in Branch
    BY <1>6 DEF Forked
  <1> DEFINE c == both.out
             R == {c}
  <1>8. n \in DOMAIN both.mem /\ both.mem[n] = t.mem[n] /\ W[n] = P[n]
    BY <1>7 DEF Onto
  <1>9. <<n, Immediate>> \in G /\ c \in R /\ R \ {c} = {} /\ G \ {<<n, Immediate>>} = {} /\ n \notin {}
    BY DEF G
  <1>10. both.mem[n].kind = "edge"
         /\ Extends(W[c], W[n], both.mem[n].str)
         /\ both.mem[c].kind \in Branch \cup {"leaf"}
    BY <1>7, <1>8
  <1>11. Forest(both, W, {}, R, G, N) /\ u = [both EXCEPT !.mem[n].next = c]
    BY <1>1, <1>7 DEF both
  <1> HIDE DEF c, R
  <1>12. Forest(u, W, {}, R \ {c}, G \ {<<n, Immediate>>}, N)
    BY <1>8, <1>9, <1>10, <1>11, LinkEdge
  <1> QED
    BY <1>9, <1>12 DEF Holds, N

\* A branch and what one of its nibbles leads to.
LEMMA BranchFacts ==
    ASSUME NEW t, NEW P, NEW M, Forest(t, P, {}, {}, {}, M),
           NEW n \in DOMAIN t.mem, t.mem[n].kind \in Branch,
           NEW d \in DOMAIN t.mem[n].entries, NEW c, c = t.mem[n].entries[d]
    PROVE  /\ P[n] \in Label /\ P[c] \in Label /\ n # NIL /\ d \in Nibble \cup {Immediate}
           /\ Arc(t, {}, {}, n, d) /\ Target(t, n, d) = c
           /\ c \in DOMAIN t.mem /\ c # n
           /\ Extends(P[c], P[n], IF d = Immediate THEN <<>> ELSE <<d>>)
           /\ d = Immediate => t.mem[c].kind = "leaf"
  <1>1. /\ DOMAIN t.mem \subseteq Nat \ {NIL} /\ P \in [Nat -> Label]
    BY DEF Forest, Stock
  <1>2. Has(t.mem[n], d) /\ To(t.mem[n], d) = c /\ n # NIL
        /\ Over(t.mem[n], d) = IF d = Immediate THEN <<>> ELSE <<d>>
    BY <1>1 DEF Has, To, Over, Branch
  <1>3. Arc(t, {}, {}, n, d) /\ Target(t, n, d) = c
    BY <1>2 DEF Arc, Target
  <1>4. c \in DOMAIN t.mem /\ Leads(t, P, n, d, c) /\ c # n /\ d \in Nibble \cup {Immediate}
    BY <1>2, <1>3, ArcFacts
  <1>5. Extends(P[c], P[n], Over(t.mem[n], d)) /\ (d = Immediate => t.mem[c].kind = "leaf")
    BY <1>2, <1>4 DEF Leads, Suits
  <1>6. P[n] \in Label /\ P[c] \in Label
    BY <1>1, <1>4
  <1> QED
    BY <1>2, <1>3, <1>4, <1>5, <1>6

\* An entry of a branch is overwritten.
LEMMA EndPut ==
    ASSUME NEW w, NEW W, NEW n, NEW d \in Nibble, NEW c, NEW N,
           Forest(w, W, {}, {c}, {<<n, d>>}, N),
           n \in DOMAIN w.mem, w.mem[n].kind \in Branch, d \in DOMAIN w.mem[n].entries,
           Extends(W[c], W[n], <<d>>),
           NEW prev, NEW u, u = Put(w, n, d, c, prev)
    PROVE  Holds(u, N)
  <1> DEFINE grown == InsertIntoBranchOrGrow(w, n, d, c)
             R == {c}
             H == {<<n, d>>}
  <1>1. grown = InsertIntoBranchOrGrow(w, n, d, c)
    OBVIOUS
  <1>2. R \ {c} = {} /\ H \ {<<n, d>>} = {} /\ n \notin {} /\ c \in R /\ <<n, d>> \in H
    OBVIOUS
  <1>3. d # Immediate /\ d \in Nibble \cup {Immediate}
    <2>1. Branches \in Nat
      BY KeyAssumption
    <2> QED
      BY <2>1 DEF Nibble, Immediate
  <1>4. Fits(w.mem[n], d)
    BY DEF Fits
  <1>5. /\ d = Immediate => w.mem[c].kind = "leaf"
        /\ Extends(W[c], W[n], IF d = Immediate THEN <<>> ELSE <<d>>)
    BY <1>3
  <1>6. Forest(w, W, {}, R, H, N)
    OBVIOUS
  <1> HIDE DEF grown, R, H
  <1>7. Forest(grown, W, {}, R \ {c}, H \ {<<n, d>>}, N)
    BY <1>1, <1>2, <1>3, <1>4, <1>5, <1>6, LinkBranch
  <1>8. grown.out = NIL
    <2>1. IsTree(w)
      BY DEF Forest, Stock
    <2> QED
      BY <1>1, <1>4, <2>1 DEF InsertIntoBranchOrGrow, IsTree
  <1>9. u = grown
    BY <1>1, <1>8 DEF Put
  <1> QED
    BY <1>2, <1>7, <1>9 DEF Holds

\* Special case 1: the key ends in front of an edge below a branch.
LEMMA EndBranchEdge ==
    ASSUME NEW t, NEW P, NEW M, Forest(t, P, {}, {}, {}, M),
           NEW key \in Label, key \notin DOMAIN M, NEW v \in Values,
           NEW n \in DOMAIN t.mem, t.mem[n].kind \in Branch,
           NEW d \in Nibble, d \in DOMAIN t.mem[n].entries,
           NEW next, next = t.mem[n].entries[d], t.mem[next].kind = "edge", P[next] = key,
           NEW prev, NEW u, u = BranchBeforeEdge(t, n, d, next, v, prev)
    PROVE  Holds(u, With(M, key, v))
  <1> DEFINE s == t.mem[next].str
             c == t.mem[next].next
             leaf == CreateLeaf(t, v)
             old == Prepend(leaf, Rest(s, 1), c)
             both == CreateBranch4(old, Pair(Immediate, leaf.out, s[1], old.out))
             w == RemoveEdge(both, next)
             N == With(M, key, v)
             L == First(P[c], Len(key) + 1)
             G == {<<n, d>>}
             X == {next}
  <1>1. u = Put(w, n, d, both.out, prev)
    BY DEF BranchBeforeEdge
  <1>2. /\ next \in DOMAIN t.mem /\ next # n
        /\ Arc(t, {}, {}, n, d) /\ Target(t, n, d) = next
        /\ Extends(P[next], P[n], IF d = Immediate THEN <<>> ELSE <<d>>)
    BY BranchFacts
  <1>3. d # Immediate
    <2>1. Branches \in Nat
      BY KeyAssumption
    <2> QED
      BY <2>1 DEF Nibble, Immediate
  <1>4. Extends(key, P[n], <<d>>)
    BY <1>2, <1>3
  <1>5. /\ s \in Label /\ s # <<>> /\ P[c] \in Label
        /\ t.mem[c].kind \in Branch \cup {"leaf"} /\ Extends(P[c], key, s)
    <2>1. /\ s \in Label /\ s # <<>> /\ P[c] \in Label
          /\ t.mem[c].kind \in Branch \cup {"leaf"} /\ Extends(P[c], P[next], s)
      BY <1>2, EdgeFacts
    <2> QED
      BY <2>1
  <1>6. Len(s) \in Nat /\ 0 < Len(s)
    <2> HIDE DEF s
    <2>1. s \in Seq(Nibble) /\ s # <<>>
      BY <1>5 DEF Label
    <2> QED
      BY <2>1
  <1>7. /\ L \in Label /\ s[1] \in Nibble /\ Extends(L, key, <<s[1]>>)
        /\ Extends(P[c], L, Rest(s, 1))
    <2> DEFINE m == 0
               x == P[c]
               Z == First(x, Len(key) + m)
    <2>1. Len(key) \in Nat
      BY Whole
    <2>2. m \in Nat /\ m < Len(s) /\ Z = First(x, Len(key) + m)
          /\ L = First(x, Len(key) + m + 1) /\ m + 1 = 1 /\ m = 0
      BY <1>6, <2>1
    <2>3. x \in Label /\ s \in Label /\ Extends(x, key, s)
      BY <1>5
    <2> HIDE DEF m, Z, L, s, x
    <2>4. Parted(x, key, s, m, Z, L)
      BY <2>2, <2>3, CutAt
    <2>5. /\ L \in Label /\ s[m + 1] \in Nibble /\ Extends(L, Z, <<s[m + 1]>>)
          /\ Extends(x, L, Rest(s, m + 1)) /\ Z = key
      BY <2>2, <2>4 DEF Parted
    <2> QED
      BY <2>2, <2>5 DEF x
  <1>8. Forest(t, P, X, {c}, G, M)
    BY <1>2, EdgeLoose
  <1>9. Forked(t, P, X, G, N, key, both)
    <2> DEFINE e == s[1]
               r == Rest(s, 1)
    <2>1. r \in Label
      <3>1. 1 \in 0 .. Len(s)
        BY <1>6
      <3> QED
        BY <1>5, <3>1, Parts
    <2>2. /\ leaf = CreateLeaf(t, v) /\ old = Prepend(leaf, r, c)
          /\ both = CreateBranch4(old, Pair(Immediate, leaf.out, e, old.out))
      OBVIOUS
    <2>3. e \in Nibble /\ Extends(L, key, <<e>>) /\ Extends(P[c], L, r)
      BY <1>7
    <2>4. L \in Label /\ t.mem[c].kind \in Branch \cup {"leaf"}
      BY <1>5, <1>7
    <2> HIDE DEF e, r, leaf, old, both, L, s, c, X, G
    <2>5. Forked(t, P, X, G, With(M, key, v), key, both)
      BY <1>8, <2>1, <2>2, <2>3, <2>4, ForkOld
    <2> QED
      BY <2>5
  <1> HIDE DEF both, N, G
  <1>10. PICK W : /\ Forest(both, W, X, {both.out}, G, N)
                  /\ W[both.out] = key /\ Onto(t, P, both, W)
                  /\ both.out \notin DOMAIN t.mem /\ both.mem[both.out].kind \in Branch
    BY <1>9 DEF Forked
  <1>11. next \in X /\ both.mem[next].kind = "edge" /\ w = RemoveEdge(both, next)
    BY <1>2, <1>10 DEF Onto
  <1> DEFINE y == both.out
  <1> HIDE DEF w, X
  <1>12. Forest(w, W, X \ {next}, {y}, G, N) /\ Sheds(both, w, next)
    BY <1>10, <1>11, Removals
  <1>13. X \ {next} = {}
    BY DEF X
  <1> HIDE DEF y
  <1>14. Forest(w, W, {}, {y}, {<<n, d>>}, N)
    BY <1>12, <1>13 DEF G
  <1>15. n \in DOMAIN w.mem /\ w.mem[n] = t.mem[n] /\ W[n] = P[n]
    BY <1>2, <1>10, <1>12 DEF Onto, Sheds
  <1>16. w.mem[n].kind \in Branch /\ d \in DOMAIN w.mem[n].entries /\ Extends(W[y], W[n], <<d>>)
    BY <1>4, <1>10, <1>15 DEF y
  <1>17. u = Put(w, n, d, y, prev)
    BY <1>1 DEF y, w, both
  <1>18. Holds(u, N)
    BY <1>14, <1>15, <1>16, <1>17, EndPut
  <1> QED
    BY <1>18 DEF N

\* Special case 3: the key goes on where a leaf hangs below a branch.
LEMMA EndBranchLeaf ==
    ASSUME NEW t, NEW P, NEW M, Forest(t, P, {}, {}, {}, M),
           NEW key \in Label, key \notin DOMAIN M, NEW v \in Values,
           NEW i \in Nat, i < Len(key),
           NEW n \in DOMAIN t.mem, t.mem[n].kind \in Branch,
           NEW d \in Nibble, d \in DOMAIN t.mem[n].entries,
           NEW next, next = t.mem[n].entries[d], t.mem[next].kind = "leaf",
           P[next] = First(key, i),
           NEW prev, NEW u, u = BranchAtLeaf(t, n, d, next, key, i, v, prev)
    PROVE  Holds(u, With(M, key, v))
  <1> DEFINE leaf == CreateLeaf(t, v)
             new == Prepend(leaf, Rest(key, i + 1), leaf.out)
             both == CreateBranch4(new, Pair(Immediate, next, key[i + 1], new.out))
             N == With(M, key, v)
             K == First(key, i)
             G == {<<n, d>>}
  <1>1. u = Put(both, n, d, both.out, prev)
    BY DEF BranchAtLeaf
  <1>2. /\ next \in DOMAIN t.mem /\ next # n
        /\ Arc(t, {}, {}, n, d) /\ Target(t, n, d) = next
        /\ Extends(P[next], P[n], IF d = Immediate THEN <<>> ELSE <<d>>)
    BY BranchFacts
  <1>3. d # Immediate
    <2>1. Branches \in Nat
      BY KeyAssumption
    <2> QED
      BY <2>1 DEF Nibble, Immediate
  <1>4. Extends(K, P[n], <<d>>)
    BY <1>2, <1>3
  <1>5. K \in Label
    <2>1. Len(key) \in Nat
      BY Whole
    <2>2. i \in 0 .. Len(key)
      BY <2>1
    <2> QED
      BY <2>2, Parts
  <1>6. Forest(t, P, {}, {next}, G, M)
    <2>1. Forest(t, P, {}, {} \cup {next}, {} \cup {<<n, d>>}, M)
      BY <1>2, ForestDetach
    <2>2. {} \cup {next} = {next} /\ {} \cup {<<n, d>>} = G
      OBVIOUS
    <2> QED
      BY <2>1, <2>2
  <1>7. Forked(t, P, {}, G, N, K, both)
    <2>1. /\ leaf = CreateLeaf(t, v)
          /\ new = Prepend(leaf, Rest(key, i + 1), leaf.out)
          /\ both = CreateBranch4(new, Pair(Immediate, next, key[i + 1], new.out))
      OBVIOUS
    <2>2. K = First(key, i) /\ t.mem[next].kind = "leaf" /\ P[next] = K
      OBVIOUS
    <2> HIDE DEF leaf, new, both, K, G
    <2>3. Forked(t, P, {}, G, With(M, key, v), K, both)
      BY <1>5, <1>6, <2>1, <2>2, ForkNew
    <2> QED
      BY <2>3
  <1> HIDE DEF both, N, G
  <1>8. PICK W : /\ Forest(both, W, {}, {both.out}, G, N)
                 /\ W[both.out] = K /\ Onto(t, P, both, W)
                 /\ both.out \notin DOMAIN t.mem /\ both.mem[both.out].kind \in Branch
    BY <1>7 DEF Forked
  <1> DEFINE y == both.out
  <1>9. n \in DOMAIN both.mem /\ both.mem[n] = t.mem[n] /\ W[n] = P[n]
    BY <1>8 DEF Onto
  <1>10. both.mem[n].kind \in Branch /\ d \in DOMAIN both.mem[n].entries /\ Extends(W[y], W[n], <<d>>)
    BY <1>4, <1>8, <1>9
  <1>11. u = Put(both, n, d, y, prev) /\ Forest(both, W, {}, {y}, {<<n, d>>}, N)
    BY <1>1, <1>8 DEF both, G
  <1> HIDE DEF y
  <1>12. Holds(u, N)
    BY <1>9, <1>10, <1>11, EndPut
  <1> QED
    BY <1>12 DEF N

-----------------------------------------------------------------------------
(* How far a key and an edge agree. *)

\* A bounded set of natural numbers has a greatest element.
LEMMA Largest ==
    ASSUME NEW S \in SUBSET Nat, S # {}, NEW b \in Nat, \A k \in S : k <= b
    PROVE  Max(S) \in S /\ \A k \in S : k <= Max(S)
  <1> DEFINE T == {b - k : k \in S}
  <1>1. T \in SUBSET Nat /\ T # {}
    <2>1. \A k \in S : b - k \in Nat
      OBVIOUS
    <2>2. T \subseteq Nat
      BY <2>1
    <2>3. PICK k \in S : TRUE
      OBVIOUS
    <2>4. b - k \in T
      OBVIOUS
    <2> QED
      BY <2>2, <2>4
  <1>2. PICK x \in T : \A y \in T : x <= y
    BY <1>1, Smallest
  <1>3. PICK m \in S : x = b - m
    OBVIOUS
  <1>4. ASSUME NEW k \in S
        PROVE  m >= k
    <2>1. x <= b - k
      BY <1>2
    <2> QED
      BY <1>3, <2>1
  <1>5. \E z \in S : \A k \in S : z >= k
    BY <1>4
  <1>6. Max(S) \in S /\ \A k \in S : Max(S) >= k
    BY <1>5 DEF Max
  <1> QED
    BY <1>6

\* The smaller of two numbers.
LEMMA SmallerOfTwo ==
    ASSUME NEW a \in Nat, NEW b \in Nat
    PROVE  Min({a, b}) = IF a <= b THEN a ELSE b
  <1> DEFINE z == IF a <= b THEN a ELSE b
  <1>1. z \in {a, b} /\ \A y \in {a, b} : z <= y
    OBVIOUS
  <1> HIDE DEF z
  <1>2. Min({a, b}) \in {a, b} /\ \A y \in {a, b} : Min({a, b}) <= y
    BY <1>1 DEF Min
  <1>3. Min({a, b}) <= z /\ z <= Min({a, b}) /\ Min({a, b}) \in Nat /\ z \in Nat
    BY <1>1, <1>2
  <1>4. Min({a, b}) = z
    BY <1>3
  <1> QED
    BY <1>4 DEF z

\* s goes on as the key does behind its first i nibbles.
Follows(s, key, i) ==
    /\ i + Len(s) <= Len(key)
    /\ \A j \in 1 .. Len(s) : s[j] = key[i + j]

\* The nibbles of s and of the key behind the first m do not agree.
Differs(s, key, i, m) ==
    m < Len(s) /\ i + m < Len(key) => s[m + 1] # key[i + m + 1]

\* The first m nibbles of s and the next m of the key are the same.
Agrees(s, key, i, m) == \A j \in 1 .. m : s[j] = key[i + j]

\* How many nibbles of an edge match those of the key.
LEMMA Matches ==
    ASSUME NEW s \in Label, NEW key \in Label, NEW i \in 0 .. Len(key),
           NEW m, m = Matching(s, key, i)
    PROVE  /\ m \in 0 .. Len(s) /\ i + m \in 0 .. Len(key)
           /\ Agrees(s, key, i, m)
           /\ Differs(s, key, i, m)
           /\ Follows(s, key, i) => m = Len(s)
  <1> DEFINE a == Len(s)
             b == Len(key) - i
             z == Min({a, b})
             S == {k \in 0 .. z : SubSeq(s, 1, k) = SubSeq(key, i + 1, i + k)}
  <1>1. a \in Nat /\ b \in Nat /\ Len(key) \in Nat /\ i \in Nat
    <2>1. Len(s) \in Nat /\ Len(key) \in Nat
      BY Whole
    <2> QED
      BY <2>1
  <1>2. z \in Nat /\ z <= a /\ z <= b /\ (z = a \/ z = b)
    BY <1>1, SmallerOfTwo
  <1>3. m = Max(S)
    BY DEF Matching
  <1> HIDE DEF z
  <1>4. ASSUME NEW k \in 0 .. z
        PROVE  k \in S <=> \A j \in 1 .. k : s[j] = key[i + j]
    <2> DEFINE x == SubSeq(s, 1, k)
               y == SubSeq(key, i + 1, i + k)
    <2>1. k \in 0 .. Len(s) /\ i + k \in 0 .. Len(key) /\ k \in Nat
      BY <1>1, <1>2
    <2>2. s \in Seq(Nibble) /\ key \in Seq(Nibble)
      BY DEF Label
    <2>3. /\ x \in Seq(Nibble) /\ Len(x) = k /\ \A j \in 1 .. k : x[j] = s[j]
      BY <2>1, <2>2, <1>1
    <2>4. /\ y \in Seq(Nibble) /\ Len(y) = k
      BY <1>1, <2>1, <2>2
    <2>5. \A j \in 1 .. k : y[j] = key[i + j]
      <3> TAKE j \in 1 .. k
      <3>1. y[j] = key[(i + 1) + j - 1]
        BY <1>1, <2>1, <2>2
      <3>2. (i + 1) + j - 1 = i + j
        BY <1>1
      <3> QED
        BY <3>1, <3>2
    <2> HIDE DEF x, y
    <2>6. x = y <=> \A j \in 1 .. k : x[j] = y[j]
      <3>1. ASSUME \A j \in 1 .. k : x[j] = y[j]
            PROVE  x = y
        BY <2>3, <2>4, <3>1, SameLabel DEF Label
      <3> QED
        BY <3>1
    <2>7. x = y <=> \A j \in 1 .. k : s[j] = key[i + j]
      BY <2>3, <2>5, <2>6
    <2> QED
      BY <2>7 DEF x, y
  <1>5. 0 \in 0 .. z /\ 0 \in S
    <2>1. 0 \in 0 .. z
      BY <1>2
    <2>2. \A j \in 1 .. 0 : s[j] = key[i + j]
      OBVIOUS
    <2> QED
      BY <1>4, <2>1, <2>2
  <1>6. S \in SUBSET Nat /\ S # {} /\ \A k \in S : k <= z /\ k \in 0 .. z
    BY <1>2, <1>5
  <1> HIDE DEF S
  <1>7. m \in S /\ \A k \in S : k <= m
    BY <1>2, <1>3, <1>6, Largest
  <1>8. m \in 0 .. z /\ \A j \in 1 .. m : s[j] = key[i + j]
    BY <1>4, <1>6, <1>7
  <1>9. m \in 0 .. Len(s) /\ i + m \in 0 .. Len(key)
    BY <1>1, <1>2, <1>8
  <1>10. ASSUME m < Len(s), i + m < Len(key), s[m + 1] = key[i + m + 1]
         PROVE  FALSE
    <2>1. m + 1 \in 0 .. z
      BY <1>1, <1>2, <1>8, <1>10
    <2>2. i + (m + 1) = i + m + 1
      BY <1>1, <1>8
    <2>3. \A j \in 1 .. m + 1 : s[j] = key[i + j]
      <3> TAKE j \in 1 .. m + 1
      <3>1. j \in 1 .. m \/ j = m + 1
        BY <1>8
      <3> QED
        BY <1>8, <1>10, <2>2, <3>1
    <2>4. m + 1 \in S
      BY <1>4, <2>1, <2>3
    <2>5. m + 1 <= m
      BY <1>7, <2>4
    <2> QED
      BY <1>8, <2>5
  <1>11. ASSUME Follows(s, key, i)
         PROVE  m = Len(s)
    <2>1. a <= b /\ \A j \in 1 .. a : s[j] = key[i + j]
      BY <1>1, <1>11 DEF Follows
    <2>2. z = a /\ a \in 0 .. z
      BY <1>1, <1>2, <2>1
    <2>3. a \in S
      BY <1>4, <2>1, <2>2
    <2>4. a <= m /\ m <= a
      BY <1>7, <1>8, <2>2, <2>3
    <2> QED
      BY <1>1, <1>8, <2>4
  <1>12. Differs(s, key, i, m)
    BY <1>10 DEF Differs
  <1>13. Agrees(s, key, i, m)
    BY <1>8 DEF Agrees
  <1> QED
    BY <1>9, <1>11, <1>12, <1>13

\* The label on an edge, as far as the key agrees with it.
LEMMA MatchedPart ==
    ASSUME NEW s \in Label, NEW key \in Label, NEW i \in 0 .. Len(key),
           NEW m \in 0 .. Len(s), i + m \in 0 .. Len(key),
           \A j \in 1 .. m : s[j] = key[i + j]
    PROVE  Extends(First(key, i + m), First(key, i), First(s, m))
  <1> DEFINE c == First(key, i + m)
             p == First(key, i)
             r == First(s, m)
  <1>1. /\ Len(c) = i + m /\ \A j \in 1 .. i + m : c[j] = key[j]
    <2> DEFINE k == i + m
    <2>1. k \in 0 .. Len(key)
      OBVIOUS
    <2> HIDE DEF k
    <2>2. Len(First(key, k)) = k /\ \A j \in 1 .. k : First(key, k)[j] = key[j]
      BY <2>1, Parts
    <2> QED
      BY <2>2 DEF k
  <1>2. /\ Len(p) = i /\ \A j \in 1 .. i : p[j] = key[j]
    BY Parts
  <1>3. /\ Len(r) = m /\ \A j \in 1 .. m : r[j] = s[j]
    BY Parts
  <1>4. Len(key) \in Nat /\ Len(s) \in Nat
    BY Whole
  <1>5. i \in Nat /\ m \in Nat
    BY <1>4
  <1> HIDE DEF c, p, r
  <1>6. Extends(c, p, r)
    <2>1. Len(c) = Len(p) + Len(r)
      BY <1>1, <1>2, <1>3
    <2>2. \A j \in 1 .. Len(p) : c[j] = p[j]
      BY <1>1, <1>2, <1>5
    <2>3. \A j \in 1 .. Len(r) : c[Len(p) + j] = r[j]
      BY <1>1, <1>2, <1>3, <1>5
    <2> QED
      BY <2>1, <2>2, <2>3 DEF Extends
  <1> QED
    BY <1>6 DEF c, p, r

-----------------------------------------------------------------------------
(* The positions of the loop of _radix_tree_insert. *)

Places == [node : Nat, val : Nibble \cup {Immediate}]

Positions(key) == [node : Nat, i : 0 .. Len(key), prev : Seq(Places)]

\* The path of p ends in the place <<a, d>>, which leads to the node of p, or
\* can be written when p has none.
Stands(t, P, key, p, a, d) ==
    /\ p.prev # <<>> /\ p.prev[Len(p.prev)] = [node |-> a, val |-> d]
    /\ p.node # NIL =>
          /\ Arc(t, {}, {}, a, d) /\ Target(t, a, d) = p.node
          /\ P[p.node] = First(key, p.i)
          /\ t.mem[p.node].kind = "edge" => p.i < Len(key)
          /\ t.mem[p.node].kind = "leaf" => p.i = Len(key)
    /\ p.node = NIL => Writable(t, {}, p.prev, a, d) /\ Awaits(t, P, a, d, key, p.i)

Standing(t, P, key, p) == p \in Positions(key) /\ \E a, d : Stands(t, P, key, p, a, d)

\* The path `prev' with one more place.
LEMMA PathGrows ==
    ASSUME NEW t, NEW prev \in Seq(Places), NEW n \in Nat, NEW d \in Nibble \cup {Immediate},
           NEW path, path = PushPrev(t, prev, n, d)
    PROVE  /\ path \in Seq(Places) /\ path # <<>>
           /\ Len(path) \in Nat \ {0} /\ path[Len(path)] = [node |-> n, val |-> d]
           /\ Kind(t, n) # "edge" /\ prev # <<>> =>
                 Len(path) >= 2 /\ path[Len(path) - 1] = prev[Len(prev)]
  <1> DEFINE x == [node |-> n, val |-> d]
  <1>1. x \in Places
    BY DEF Places
  <1>2. (path = <<x>> /\ Kind(t, n) = "edge") \/ path = Append(prev, x)
    BY DEF PushPrev
  <1> HIDE DEF x
  <1>3. /\ path \in Seq(Places) /\ path # <<>>
        /\ Len(path) \in Nat \ {0} /\ path[Len(path)] = x
    <2>1. CASE path = <<x>>
      BY <1>1, <2>1
    <2>2. CASE path = Append(prev, x)
      BY <1>1, <2>2
    <2> QED
      BY <1>2, <2>1, <2>2
  <1>4. ASSUME Kind(t, n) # "edge", prev # <<>>
        PROVE  Len(path) >= 2 /\ path[Len(path) - 1] = prev[Len(prev)]
    <2>1. path = Append(prev, x) /\ Len(prev) \in Nat \ {0}
      BY <1>2, <1>4
    <2> QED
      BY <1>1, <2>1
  <1> QED
    BY <1>3, <1>4 DEF x

\* An edge all of which matches is passed.
LEMMA EdgeStands ==
    ASSUME NEW t, NEW P, NEW M, Forest(t, P, {}, {}, {}, M), NEW key \in Label,
           NEW p, Standing(t, P, key, p), Kind(t, p.node) = "edge", EdgePassed(t, key, p),
           NEW q, q = OverEdge(t, key, p)
    PROVE  Standing(t, P, key, q) /\ q.i > p.i
  <1> DEFINE n == p.node
             i == p.i
             s == t.mem[n].str
             c == t.mem[n].next
             m == Matching(s, key, i)
             k == i + m
  <1>1. n \in DOMAIN t.mem /\ t.mem[n].kind = "edge" /\ n \in Nat /\ n # NIL
    <2>1. DOMAIN t.mem \subseteq Nat \ {NIL}
      BY DEF Forest, Stock
    <2> QED
      BY <2>1 DEF Kind
  <1>2. /\ s \in Label /\ s # <<>> /\ P[n] \in Label /\ P[c] \in Label
        /\ Arc(t, {}, {}, n, Immediate) /\ Target(t, n, Immediate) = c
        /\ c \in DOMAIN t.mem /\ t.mem[c].kind \in Branch \cup {"leaf"}
        /\ Extends(P[c], P[n], s)
    BY <1>1, EdgeFacts
  <1>3. i \in 0 .. Len(key) /\ P[n] = First(key, i) /\ p.prev \in Seq(Places)
    BY <1>1 DEF Standing, Stands, Positions
  <1>4. m = Len(s) /\ ~(k < Len(key) /\ t.mem[c].kind = "leaf")
    BY <1>2 DEF EdgePassed, Kind
  <1>5. q = [node |-> c, i |-> i + Len(s), prev |-> PushPrev(t, p.prev, n, Immediate)]
    BY DEF OverEdge
  <1>6. /\ m \in 0 .. Len(s) /\ k \in 0 .. Len(key)
        /\ \A j \in 1 .. m : s[j] = key[i + j]
    <2>1. m = Matching(s, key, i)
      OBVIOUS
    <2> HIDE DEF s, i, m
    <2>2. m \in 0 .. Len(s)
      BY <1>2, <1>3, <2>1, Matches
    <2>3. i + m \in 0 .. Len(key)
      BY <1>2, <1>3, <2>1, Matches
    <2>4. Agrees(s, key, i, m)
      BY <1>2, <1>3, <2>1, Matches
    <2> QED
      BY <2>2, <2>3, <2>4 DEF Agrees
  <1>7. Len(s) \in Nat /\ Len(s) > 0 /\ i \in Nat /\ Len(key) \in Nat
    <2>1. s \in Seq(Nibble) /\ s # <<>> /\ key \in Seq(Nibble)
      BY <1>2 DEF Label
    <2> HIDE DEF s
    <2> QED
      BY <1>3, <2>1
  <1> HIDE DEF s, c, m, n, i
  <1>8. Extends(First(key, k), First(key, i), First(s, m))
    BY <1>2, <1>3, <1>6, MatchedPart
  <1>9. First(s, m) = s
    BY <1>2, <1>4, Whole
  <1>10. First(key, k) \in Label
    BY <1>6, Parts
  <1>11. P[c] = First(key, k)
    BY <1>2, <1>3, <1>8, <1>9, <1>10, SameExtension
  <1> DEFINE path == PushPrev(t, p.prev, n, Immediate)
  <1>12. path = PushPrev(t, p.prev, n, Immediate)
    OBVIOUS
  <1> HIDE DEF path
  <1>13. /\ path \in Seq(Places) /\ path # <<>>
         /\ path[Len(path)] = [node |-> n, val |-> Immediate]
    BY <1>1, <1>3, <1>12, PathGrows
  <1>14. c \in Nat \ {NIL}
    <2>1. DOMAIN t.mem \subseteq Nat \ {NIL}
      BY DEF Forest, Stock
    <2> QED
      BY <1>2, <2>1
  <1>15. q.node = c /\ q.i = k /\ q.prev = path /\ q \in Positions(key)
    BY <1>4, <1>5, <1>6, <1>12, <1>13, <1>14 DEF Positions
  <1>16. Stands(t, P, key, q, n, Immediate)
    <2>1. t.mem[c].kind # "edge"
      BY <1>2 DEF Branch
    <2>2. t.mem[c].kind = "leaf" => k = Len(key)
      BY <1>4, <1>6, <1>7
    <2> QED
      BY <1>2, <1>11, <1>13, <1>14, <1>15, <2>1, <2>2 DEF Stands
  <1>17. q.i > p.i
    BY <1>4, <1>7, <1>15 DEF i
  <1> QED
    BY <1>15, <1>16, <1>17 DEF Standing

\* The nibbles up to i lead to a branch; with d they are those up to j.
Consumes(key, i, d, j) ==
    \/ d = Immediate /\ i = Len(key) /\ j = i
    \/ i < Len(key) /\ d = key[i + 1] /\ j = i + 1

\* An entry of a branch, whether there or not.
LEMMA EntryStands ==
    ASSUME NEW t, NEW P, NEW M, Forest(t, P, {}, {}, {}, M), NEW key \in Label,
           NEW n \in DOMAIN t.mem, t.mem[n].kind \in Branch,
           NEW i \in 0 .. Len(key), P[n] = First(key, i),
           NEW d, NEW j, Consumes(key, i, d, j),
           NEW prev \in Seq(Places), prev # <<>>,
           NEW a, NEW e, prev[Len(prev)] = [node |-> a, val |-> e],
           Arc(t, {}, {}, a, e), Target(t, a, e) = n,
           NEW c, c = GetBranch(t, n, d),
           c # NIL /\ t.mem[c].kind = "edge" => j < Len(key),
           c # NIL /\ t.mem[c].kind = "leaf" => j = Len(key),
           NEW path, path = PushPrev(t, prev, n, d),
           NEW q, q = [node |-> c, i |-> j, prev |-> path]
    PROVE  Standing(t, P, key, q)
  <1>1. Len(key) \in Nat /\ Branches \in Nat
    BY Whole, KeyAssumption
  <1>2. j \in 0 .. Len(key) /\ (d = Immediate => j = Len(key)) /\ d \in Nibble \cup {Immediate}
    <2>1. CASE d = Immediate /\ i = Len(key) /\ j = i
      BY <1>1, <2>1
    <2>2. CASE i < Len(key) /\ d = key[i + 1] /\ j = i + 1
      <3>1. d \in Nibble
        BY <2>2, OneMore
      <3>2. d # Immediate
        BY <1>1, <3>1 DEF Nibble, Immediate
      <3>3. j \in 0 .. Len(key)
        BY <1>1, <2>2
      <3> QED
        BY <3>1, <3>2, <3>3
    <2> QED
      BY <2>1, <2>2 DEF Consumes
  <1>3. DOMAIN t.mem \subseteq Nat \ {NIL} /\ n \in Nat /\ n # NIL
    BY DEF Forest, Stock
  <1>4. Kind(t, n) # "edge"
    BY DEF Kind, Branch
  <1>5. /\ path \in Seq(Places) /\ path # <<>> /\ Len(path) \in Nat \ {0}
        /\ path[Len(path)] = [node |-> n, val |-> d]
        /\ Len(path) >= 2 /\ path[Len(path) - 1] = prev[Len(prev)]
    BY <1>2, <1>3, <1>4, PathGrows
  <1> DEFINE part == IF d = Immediate THEN <<>> ELSE <<d>>
  <1>6. part \in Label /\ First(key, j) \in Label /\ Extends(First(key, j), First(key, i), part)
    <2>1. CASE d = Immediate /\ i = Len(key) /\ j = i
      <3>1. First(key, i) \in Label
        BY Parts
      <3>2. <<>> \in Label /\ Extends(First(key, i), First(key, i), <<>>)
        BY <3>1, Whole
      <3> QED
        BY <2>1, <3>1, <3>2
    <2>2. CASE i < Len(key) /\ d = key[i + 1] /\ j = i + 1
      <3>1. d # Immediate
        <4>1. d \in Nibble
          BY <2>2, OneMore
        <4> QED
          BY <1>1, <4>1 DEF Nibble, Immediate
      <3>2. /\ <<d>> \in Label /\ Extends(First(key, j), First(key, i), <<d>>)
        BY <2>2, OneMore
      <3>3. First(key, j) \in Label
        BY <1>2, Parts
      <3> QED
        BY <3>1, <3>2, <3>3
    <2> QED
      BY <2>1, <2>2 DEF Consumes
  <1>7. Over(t.mem[n], d) = part
    BY DEF Over, Branch
  <1>8. q.node = c /\ q.i = j /\ q.prev = path
    OBVIOUS
  <1>9. CASE d \in DOMAIN t.mem[n].entries
    <2>1. c = t.mem[n].entries[d]
      BY <1>9 DEF GetBranch
    <2>2. /\ P[n] \in Label /\ P[c] \in Label
          /\ Arc(t, {}, {}, n, d) /\ Target(t, n, d) = c
          /\ c \in DOMAIN t.mem
          /\ Extends(P[c], P[n], part)
      BY <1>9, <2>1, BranchFacts
    <2>3. P[c] = First(key, j)
      <3> HIDE DEF part
      <3>1. Extends(First(key, j), P[n], part)
        BY <1>6
      <3> QED
        BY <1>6, <2>2, <3>1, SameExtension
    <2>4. c \in Nat /\ c # NIL
      BY <1>3, <2>2
    <2>5. q \in Positions(key)
      BY <1>2, <1>5, <2>4 DEF Positions
    <2>6. Stands(t, P, key, q, n, d)
      BY <1>5, <1>8, <2>2, <2>3, <2>4 DEF Stands
    <2> QED
      BY <2>5, <2>6 DEF Standing
  <1>10. CASE d \notin DOMAIN t.mem[n].entries
    <2>1. c = NIL
      BY <1>10 DEF GetBranch
    <2>2. q \in Positions(key)
      BY <1>2, <1>5, <2>1 DEF Positions, NIL
    <2>3. Vacant(t, {}, n, d)
      BY <1>2, <1>10 DEF Vacant
    <2>4. Writable(t, {}, path, n, d)
      BY <1>5, <2>3 DEF Writable
    <2>5. Awaits(t, P, n, d, key, j)
      BY <1>2, <1>3, <1>6, <1>7 DEF Awaits
    <2>6. Stands(t, P, key, q, n, d)
      BY <1>5, <1>8, <2>1, <2>4, <2>5 DEF Stands
    <2> QED
      BY <2>2, <2>6 DEF Standing
  <1> QED
    BY <1>9, <1>10

\* A path that ends in the place <<a, e>> has come to the branch n with i
\* nibbles of the key.
Enters(t, P, key, prev, a, e, n, i) ==
    /\ n \in DOMAIN t.mem /\ t.mem[n].kind \in Branch
    /\ i \in 0 .. Len(key) /\ P[n] = First(key, i)
    /\ prev \in Seq(Places) /\ prev # <<>>
    /\ prev[Len(prev)] = [node |-> a, val |-> e]
    /\ Arc(t, {}, {}, a, e) /\ Target(t, a, e) = n

\* The key may go on at c with j nibbles consumed.
GoesOn(t, key, c, j) ==
    /\ c # NIL /\ t.mem[c].kind = "edge" => j < Len(key)
    /\ c # NIL /\ t.mem[c].kind = "leaf" => j = Len(key)

\* From the branch the path goes on to any entry.
LEMMA EntryFollows ==
    ASSUME NEW t, NEW P, NEW M, Forest(t, P, {}, {}, {}, M), NEW key \in Label,
           NEW n, NEW i, NEW prev, NEW a, NEW e, Enters(t, P, key, prev, a, e, n, i),
           NEW d, NEW j, Consumes(key, i, d, j),
           NEW c, c = GetBranch(t, n, d), GoesOn(t, key, c, j),
           NEW path, path = PushPrev(t, prev, n, d),
           NEW q, q = [node |-> c, i |-> j, prev |-> path]
    PROVE  Standing(t, P, key, q)
  <1>1. /\ n \in DOMAIN t.mem /\ t.mem[n].kind \in Branch
        /\ i \in 0 .. Len(key) /\ P[n] = First(key, i)
        /\ prev \in Seq(Places) /\ prev # <<>>
        /\ prev[Len(prev)] = [node |-> a, val |-> e]
        /\ Arc(t, {}, {}, a, e) /\ Target(t, a, e) = n
    BY DEF Enters
  <1>2. /\ c # NIL /\ t.mem[c].kind = "edge" => j < Len(key)
        /\ c # NIL /\ t.mem[c].kind = "leaf" => j = Len(key)
    BY DEF GoesOn
  <1> QED
    BY <1>1, <1>2, EntryStands

\* A branch that need not change is passed.
LEMMA BranchStands ==
    ASSUME NEW t, NEW P, NEW M, Forest(t, P, {}, {}, {}, M), NEW key \in Label,
           NEW p, Standing(t, P, key, p), Kind(t, p.node) \in Branch, BranchPassed(t, key, p),
           NEW q, q = OverBranch(t, key, p)
    PROVE  /\ Standing(t, P, key, q)
           /\ p.i < Len(key) => q.i > p.i
           /\ p.i = Len(key) => q.i = p.i /\ Kind(t, q.node) \in {"leaf", "none"}
           /\ q # p
  <1> DEFINE n == p.node
             i == p.i
             d == IF i < Len(key) THEN key[i + 1] ELSE Immediate
             j == IF i < Len(key) THEN i + 1 ELSE i
             next == GetBranch(t, n, d)
             path == PushPrev(t, p.prev, n, d)
  <1>1. DOMAIN t.mem \subseteq Nat \ {NIL}
    BY DEF Forest, Stock
  <1>2. n \in DOMAIN t.mem /\ t.mem[n].kind \in Branch /\ n \in Nat /\ n # NIL
    BY <1>1 DEF Kind, Branch
  <1>3. PICK a, e : Stands(t, P, key, p, a, e)
    BY DEF Standing
  <1>4. /\ i \in 0 .. Len(key) /\ p.prev \in Seq(Places) /\ p.prev # <<>>
        /\ p.prev[Len(p.prev)] = [node |-> a, val |-> e]
        /\ Arc(t, {}, {}, a, e) /\ Target(t, a, e) = n /\ P[n] = First(key, i)
        /\ Len(key) \in Nat
    BY <1>2, <1>3, Whole DEF Standing, Stands, Positions
  <1>5. Consumes(key, i, d, j) /\ j \in 0 .. Len(key) /\ j = Min({i + 1, Len(key)})
    <2>1. Min({i + 1, Len(key)}) = IF i + 1 <= Len(key) THEN i + 1 ELSE Len(key)
      BY <1>4, SmallerOfTwo
    <2> QED
      BY <1>4, <2>1 DEF Consumes
  <1>6. ASSUME next # NIL
        PROVE  /\ d \in DOMAIN t.mem[n].entries /\ next = t.mem[n].entries[d]
               /\ next \in DOMAIN t.mem /\ next # n
               /\ Arc(t, {}, {}, n, d) /\ Target(t, n, d) = next
               /\ P[n] \in Label /\ P[next] \in Label
               /\ Extends(P[next], P[n], IF d = Immediate THEN <<>> ELSE <<d>>)
               /\ d = Immediate => t.mem[next].kind = "leaf"
    <2>1. d \in DOMAIN t.mem[n].entries /\ next = t.mem[n].entries[d]
      BY <1>6 DEF GetBranch
    <2> HIDE DEF n, d, next
    <2> QED
      BY <1>2, <2>1, BranchFacts
  <1>7. next # NIL => Kind(t, next) = t.mem[next].kind
    BY <1>6 DEF Kind
  <1>8. next = NIL => Kind(t, next) = "none"
    BY <1>1 DEF Kind
  <1>9. /\ next # NIL /\ t.mem[next].kind = "edge" => j < Len(key)
        /\ next # NIL /\ t.mem[next].kind = "leaf" => j = Len(key)
    <2>1. CASE i < Len(key)
      <3>1. /\ ~ (Kind(t, next) = "edge" /\ ~ (i + 1 < Len(key)))
            /\ ~ (Kind(t, next) = "leaf" /\ i + 1 < Len(key))
        BY <2>1 DEF BranchPassed
      <3> QED
        BY <1>4, <1>7, <2>1, <3>1
    <2>2. CASE ~(i < Len(key))
      BY <1>4, <1>6, <2>2
    <2> QED
      BY <2>1, <2>2
  <1> DEFINE r == [node |-> next, i |-> j, prev |-> path]
             special == i + 1 = Len(key) /\ Kind(t, next) \in Branch
  <1>10. Standing(t, P, key, r)
    <2>1. next = GetBranch(t, n, d) /\ path = PushPrev(t, p.prev, n, d)
          /\ r = [node |-> next, i |-> j, prev |-> path]
      OBVIOUS
    <2> DEFINE prev == p.prev
    <2>2. path = PushPrev(t, prev, n, d)
          /\ prev \in Seq(Places) /\ prev # <<>> /\ prev[Len(prev)] = [node |-> a, val |-> e]
      BY <1>4
    <2> HIDE DEF n, i, d, j, next, path, r
    <2>3. Enters(t, P, key, prev, a, e, n, i)
      BY <1>2, <1>4, <2>2 DEF Enters
    <2>4. GoesOn(t, key, next, j)
      BY <1>9 DEF GoesOn
    <2> HIDE DEF prev
    <2> QED
      BY <1>5, <2>1, <2>2, <2>3, <2>4, EntryFollows
  <1>11. CASE ~special
    <2>1. q = r
      BY <1>5, <1>11 DEF OverBranch
    <2>2. q.i = j /\ q.node = next
      BY <2>1
    <2>3. i < Len(key) => q.i > p.i
      BY <1>4, <2>2
    <2>4. ASSUME i = Len(key)
          PROVE  q.i = p.i /\ Kind(t, q.node) \in {"leaf", "none"}
      BY <1>4, <1>6, <1>7, <1>8, <2>2, <2>4
    <2>5. q # p
      <3>1. i < Len(key) \/ i = Len(key)
        BY <1>4
      <3>2. q.i # p.i \/ Kind(t, q.node) # Kind(t, p.node)
        BY <1>4, <2>2, <2>3, <2>4, <3>1 DEF Branch
      <3> QED
        BY <3>2
    <2> QED
      BY <1>10, <2>1, <2>3, <2>4, <2>5
  <1>12. CASE special
    <2> DEFINE z == GetBranch(t, next, Immediate)
               way == PushPrev(t, path, next, Immediate)
    <2>1. next # NIL /\ t.mem[next].kind \in Branch /\ i < Len(key) /\ j = i + 1 /\ j = Len(key)
      BY <1>4, <1>7, <1>8, <1>12 DEF Branch
    <2>2. q = [node |-> z, i |-> j, prev |-> way]
      BY <1>12, <2>1 DEF OverBranch
    <2>3. /\ path \in Seq(Places) /\ path # <<>> /\ path[Len(path)] = [node |-> n, val |-> d]
          /\ P[next] = First(key, j)
      <3>1. \E x, y : Stands(t, P, key, r, x, y)
        BY <1>10 DEF Standing
      <3>2. r.prev = path /\ r.node = next /\ r.i = j
        OBVIOUS
      <3>3. P[next] = First(key, j)
        BY <2>1, <3>1, <3>2 DEF Stands
      <3>4. d \in Nibble \cup {Immediate}
        <4>1. d = key[i + 1]
          BY <2>1
        <4> HIDE DEF d, i
        <4> QED
          BY <1>4, <2>1, <4>1, OneMore
      <3>5. path = PushPrev(t, p.prev, n, d)
        OBVIOUS
      <3> HIDE DEF path, n, d
      <3>6. path \in Seq(Places) /\ path # <<>> /\ path[Len(path)] = [node |-> n, val |-> d]
        BY <1>2, <1>4, <3>4, <3>5, PathGrows
      <3> QED
        BY <3>3, <3>6
    <2>4. Consumes(key, j, Immediate, j)
      BY <2>1 DEF Consumes
    <2>5. ASSUME z # NIL
          PROVE  z \in DOMAIN t.mem /\ t.mem[z].kind = "leaf"
      <3>1. Immediate \in DOMAIN t.mem[next].entries /\ z = t.mem[next].entries[Immediate]
        BY <2>5 DEF GetBranch
      <3>2. next \in DOMAIN t.mem
        BY <1>6, <2>1
      <3> DEFINE x == Immediate
      <3>3. x \in DOMAIN t.mem[next].entries /\ z = t.mem[next].entries[x] /\ x = Immediate
        BY <3>1
      <3>4. t.mem[next].kind \in Branch
        BY <2>1
      <3> HIDE DEF n, i, d, j, next, path, z, x
      <3>5. z \in DOMAIN t.mem /\ (x = Immediate => t.mem[z].kind = "leaf")
        BY <3>2, <3>3, <3>4, BranchFacts
      <3> QED
        BY <3>3, <3>5
    <2>6. /\ z # NIL /\ t.mem[z].kind = "edge" => j < Len(key)
          /\ z # NIL /\ t.mem[z].kind = "leaf" => j = Len(key)
      BY <2>1, <2>5
    <2>7. /\ next \in DOMAIN t.mem /\ Arc(t, {}, {}, n, d) /\ Target(t, n, d) = next
      BY <1>6, <2>1
    <2>8. z = GetBranch(t, next, Immediate) /\ way = PushPrev(t, path, next, Immediate)
      OBVIOUS
    <2> HIDE DEF n, i, d, next, path, z, way
    <2>9. j \in 0 .. Len(key)
      BY <1>5
    <2> HIDE DEF j
    <2>10. Standing(t, P, key, q)
      <3>1. Enters(t, P, key, path, n, d, next, j)
        BY <2>1, <2>3, <2>7, <2>9 DEF Enters
      <3>2. GoesOn(t, key, z, j)
        BY <2>6 DEF GoesOn
      <3> DEFINE x == Immediate
      <3>3. Consumes(key, j, x, j) /\ z = GetBranch(t, next, x) /\ way = PushPrev(t, path, next, x)
        BY <2>4, <2>8
      <3> HIDE DEF x
      <3> QED
        BY <2>2, <3>1, <3>2, <3>3, EntryFollows
    <2>11. q.i > p.i /\ p.i < Len(key)
      BY <1>4, <2>1, <2>2 DEF i
    <2> QED
      BY <1>4, <2>10, <2>11 DEF i
  <1> QED
    BY <1>11, <1>12

\* The loop starts at the root.
Start(t) == [node |-> t.root, i |-> 0, prev |-> PushPrev(t, <<>>, NIL, Immediate)]

\* The loop starts at the root,
LEMMA FirstStands ==
    ASSUME NEW t, NEW P, NEW M, Forest(t, P, {}, {}, {}, M), <<>> \notin DOMAIN M,
           NEW key \in Label, key # <<>>, NEW p, p = Start(t)
    PROVE  Standing(t, P, key, p)
  <1> DEFINE path == PushPrev(t, <<>>, NIL, Immediate)
             r == t.root
  <1>1. /\ DOMAIN t.mem \subseteq Nat \ {NIL} /\ P[NIL] = <<>>
        /\ \A n \in DOMAIN t.mem : t.mem[n].kind = "leaf" => P[n] \in DOMAIN M
    BY DEF Forest, Stock, Leafy
  <1>2. /\ path \in Seq(Places) /\ path # <<>>
        /\ Len(path) \in Nat \ {0} /\ path[Len(path)] = [node |-> NIL, val |-> Immediate]
    <2> DEFINE none == <<>>
    <2>1. path = PushPrev(t, none, NIL, Immediate) /\ none \in Seq(Places) /\ NIL \in Nat
          /\ Immediate \in Nibble \cup {Immediate}
      BY DEF NIL
    <2> HIDE DEF path, none
    <2> QED
      BY <2>1, PathGrows
  <1>3. p.node = r /\ p.i = 0 /\ p.prev = path /\ p = [node |-> r, i |-> 0, prev |-> path]
    BY DEF Start
  <1>4. First(key, 0) = <<>> /\ Len(key) \in Nat /\ Len(key) # 0
    <2>1. key \in Seq(Nibble)
      BY DEF Label
    <2> QED
      BY <2>1, Whole
  <1> HIDE DEF path
  <1>5. CASE r = NIL
    <2>1. p \in Positions(key)
      BY <1>2, <1>3, <1>4, <1>5 DEF Positions, NIL
    <2>2. Vacant(t, {}, NIL, Immediate) /\ ~Full(t, NIL, Immediate)
      BY <1>1, <1>5 DEF Vacant, Full
    <2>3. Writable(t, {}, path, NIL, Immediate)
      BY <1>2, <2>2 DEF Writable
    <2>4. Awaits(t, P, NIL, Immediate, key, 0)
      <3>1. Extends(<<>>, <<>>, <<>>)
        <4> DEFINE none == <<>>
        <4>1. none \in Label
          BY Whole
        <4> HIDE DEF none
        <4>2. Extends(none, none, <<>>)
          BY <4>1, Whole
        <4> QED
          BY <4>2 DEF none
      <3> QED
        BY <1>1, <1>4, <3>1 DEF Awaits
    <2>5. Stands(t, P, key, p, NIL, Immediate)
      BY <1>2, <1>3, <1>5, <2>3, <2>4 DEF Stands
    <2> QED
      BY <2>1, <2>5 DEF Standing
  <1>6. CASE r # NIL
    <2>1. Arc(t, {}, {}, NIL, Immediate) /\ Target(t, NIL, Immediate) = r
      BY <1>6 DEF Arc, Target
    <2> HIDE DEF r
    <2>2. r \in DOMAIN t.mem /\ P[r] = <<>>
      BY <2>1, ArcFacts
    <2>3. t.mem[r].kind # "leaf"
      BY <1>1, <2>2
    <2>4. r \in Nat /\ r # NIL
      BY <1>1, <2>2
    <2>5. p \in Positions(key)
      BY <1>2, <1>3, <1>4, <2>4 DEF Positions
    <2>6. Stands(t, P, key, p, NIL, Immediate)
      BY <1>2, <1>3, <1>4, <2>1, <2>2, <2>3, <2>4 DEF Stands
    <2> QED
      BY <2>5, <2>6 DEF Standing
  <1> QED
    BY <1>5, <1>6

\* The loop goes no further.
Ends(t, key, p) ==
    /\ ~ (Kind(t, p.node) = "edge" /\ EdgePassed(t, key, p))
    /\ ~ (Kind(t, p.node) \in Branch /\ BranchPassed(t, key, p))

\* and each round leads to a place on the way of the key, or ends it.
LEMMA OnwardStands ==
    ASSUME NEW t, NEW P, NEW M, Forest(t, P, {}, {}, {}, M), NEW key \in Label,
           NEW p, Standing(t, P, key, p), NEW q, q = Onward(t, key, p)
    PROVE  /\ Standing(t, P, key, q)
           /\ Ends(t, key, p) => q = p
           /\ ~Ends(t, key, p) => q.i > p.i \/ Ends(t, key, q)
  <1>1. CASE Kind(t, p.node) = "edge" /\ EdgePassed(t, key, p)
    <2>1. q = OverEdge(t, key, p)
      BY <1>1 DEF Onward, Branch
    <2>2. Standing(t, P, key, q) /\ q.i > p.i
      BY <1>1, <2>1, EdgeStands
    <2>3. ~Ends(t, key, p)
      BY <1>1 DEF Ends
    <2> QED
      BY <2>2, <2>3
  <1>2. CASE Kind(t, p.node) \in Branch /\ BranchPassed(t, key, p)
    <2>1. q = OverBranch(t, key, p)
      BY <1>2 DEF Onward, Branch
    <2>2. /\ Standing(t, P, key, q)
          /\ p.i < Len(key) => q.i > p.i
          /\ p.i = Len(key) => q.i = p.i /\ Kind(t, q.node) \in {"leaf", "none"}
      BY <1>2, <2>1, BranchStands
    <2>3. ~Ends(t, key, p)
      BY <1>2 DEF Ends
    <2>4. p.i < Len(key) \/ p.i = Len(key)
      <3>1. p.i \in 0 .. Len(key) /\ Len(key) \in Nat
        BY Whole DEF Standing, Positions
      <3> QED
        BY <3>1
    <2>5. p.i = Len(key) => Ends(t, key, q)
      BY <2>2 DEF Ends, Branch
    <2> QED
      BY <2>2, <2>3, <2>4, <2>5
  <1>3. CASE Ends(t, key, p)
    <2>1. q = p
      BY <1>3 DEF Ends, Onward
    <2> QED
      BY <1>3, <2>1
  <1> QED
    BY <1>1, <1>2, <1>3 DEF Ends

\* The rounds of the loop, whose states stay in a set I.
LEMMA WalkLoop ==
    ASSUME NEW t, NEW key, Len(key) \in Nat, NEW I, Start(t) \in I,
           \A x \in I : Onward(t, key, x) \in I
    PROVE  \E f : /\ f[0] = Start(t)
                  /\ \A k \in 1 .. Len(key) + 1 : f[k] = Onward(t, key, f[k - 1])
                  /\ Walk(t, key) = f[Len(key) + 1]
  <1> DEFINE last_round == Len(key) + 1
             step == [x \in I |-> Onward(t, key, x)]
             Eq(f) == f = [k \in 0 .. Len(key) + 1 |->
                              IF k = 0
                              THEN [node |-> t.root, i |-> 0,
                                    prev |-> PushPrev(t, <<>>, NIL, Immediate)]
                              ELSE Onward(t, key, f[k - 1])]
             round == CHOOSE f : Eq(f)
  <1>1. step \in [I -> I] /\ last_round \in Nat
    OBVIOUS
  <1>2. PICK f \in [0 .. last_round -> I] :
           /\ f[0] = Start(t)
           /\ \A k \in 1 .. last_round : f[k] = step[f[k - 1]]
    <2> DEFINE x == Start(t)
    <2>1. x \in I
      OBVIOUS
    <2> HIDE DEF step, last_round, x
    <2>2. HasRounds(I, step, x, last_round)
      BY <1>1, <2>1, RoundsExist
    <2> QED
      BY <2>2 DEF HasRounds, x
  <1>3. \A k \in 0 .. last_round :
           f[k] = IF k = 0 THEN Start(t) ELSE Onward(t, key, f[k - 1])
    <2> TAKE k \in 0 .. last_round
    <2>1. CASE k = 0
      BY <1>2, <2>1
    <2>2. CASE k # 0
      <3>1. k \in 1 .. last_round /\ k - 1 \in 0 .. last_round
        BY <2>2
      <3>2. f[k - 1] \in I
        BY <3>1
      <3>3. step[f[k - 1]] = Onward(t, key, f[k - 1])
        BY <3>2
      <3> QED
        BY <1>2, <2>2, <3>1, <3>3
    <2> QED
      BY <2>1, <2>2
  <1>4. Eq(f)
    BY <1>3 DEF Start
  <1>5. Eq(round)
    BY <1>4
  <1>6. Walk(t, key) = round[last_round]
    BY DEF Walk
  <1> HIDE DEF step
  <1>7. /\ round[0] = Start(t)
        /\ \A k \in 1 .. last_round : round[k] = Onward(t, key, round[k - 1])
    <2>1. \A k \in 0 .. last_round :
             round[k] = IF k = 0 THEN Start(t) ELSE Onward(t, key, round[k - 1])
      BY <1>5 DEF Start
    <2> HIDE DEF round
    <2>2. round[0] = Start(t)
      BY <1>1, <2>1
    <2>3. ASSUME NEW k \in 1 .. last_round
          PROVE  round[k] = Onward(t, key, round[k - 1])
      <3>1. k \in 0 .. last_round /\ k # 0
        OBVIOUS
      <3> QED
        BY <2>1, <3>1
    <2> QED
      BY <2>2, <2>3
  <1> HIDE DEF round
  <1> QED
    BY <1>6, <1>7

\* The walk ends, and the place where it ends is where the key belongs.
LEMMA WalkEnds ==
    ASSUME NEW t, NEW P, NEW M, Forest(t, P, {}, {}, {}, M), <<>> \notin DOMAIN M,
           NEW key \in Label, key # <<>>, NEW p, p = Walk(t, key)
    PROVE  Standing(t, P, key, p) /\ Ends(t, key, p)
  <1> DEFINE I == {x \in Positions(key) : Standing(t, P, key, x)}
             n == Len(key) + 1
  <1>1. Len(key) \in Nat
    BY Whole
  <1>2. Start(t) \in I
    <2>1. Standing(t, P, key, Start(t))
      BY FirstStands
    <2> QED
      BY <2>1 DEF Standing
  <1>3. ASSUME NEW x \in I
        PROVE  Onward(t, key, x) \in I
    <2>1. Standing(t, P, key, Onward(t, key, x))
      BY OnwardStands
    <2> QED
      BY <2>1 DEF Standing
  <1>4. \A x \in I : Standing(t, P, key, x) /\ x.i \in 0 .. Len(key)
    BY DEF Positions
  <1> HIDE DEF I
  <1>5. PICK f : /\ f[0] = Start(t)
                 /\ \A k \in 1 .. n : f[k] = Onward(t, key, f[k - 1])
                 /\ Walk(t, key) = f[n]
    BY <1>1, <1>2, <1>3, WalkLoop
  <1> DEFINE S == {k \in 0 .. n : f[k] \in I /\ (f[k].i >= k \/ Ends(t, key, f[k]))}
  <1>6. 0 \in S
    <2>1. f[0] \in I /\ f[0].i = 0
      BY <1>2, <1>5 DEF Start
    <2> QED
      BY <1>1, <2>1
  <1>7. ASSUME NEW k \in 1 .. n, k - 1 \in S
        PROVE  k \in S
    <2> DEFINE x == f[k - 1]
               y == f[k]
    <2>1. x \in I /\ y = Onward(t, key, x) /\ (x.i >= k - 1 \/ Ends(t, key, x))
      BY <1>5, <1>7
    <2>2. y \in I /\ Standing(t, P, key, x) /\ x.i \in Nat /\ y.i \in Nat
      BY <1>3, <1>4, <2>1
    <2> HIDE DEF x, y
    <2>3. /\ Ends(t, key, x) => y = x
          /\ ~Ends(t, key, x) => y.i > x.i \/ Ends(t, key, y)
      BY <2>1, <2>2, OnwardStands
    <2>4. y.i >= k \/ Ends(t, key, y)
      BY <2>1, <2>2, <2>3
    <2> QED
      BY <2>2, <2>4 DEF y
  <1> HIDE DEF S
  <1>8. n \in S
    <2>1. n \in Nat /\ n \in 0 .. n
      BY <1>1
    <2> HIDE DEF n
    <2>2. \A k \in 0 .. n : k \in S
      BY <1>6, <1>7, <2>1, Counting
    <2> QED
      BY <2>1, <2>2
  <1>9. p \in I /\ (p.i >= n \/ Ends(t, key, p))
    BY <1>5, <1>8 DEF S
  <1> QED
    BY <1>1, <1>4, <1>9
-----------------------------------------------------------------------------
(* The nodes below a node. *)

\* A set of nodes that contains those its nodes refer to.
Closed(t, S) ==
    \A n \in S, d \in Nibble \cup {Immediate} :
        n \in DOMAIN t.mem /\ Has(t.mem[n], d) => To(t.mem[n], d) \in S

Reach(t, n, z) == \A S \in SUBSET DOMAIN t.mem : n \in S /\ Closed(t, S) => z \in S

\* The label of c is longer than that of n, unless c is a leaf.
Deeper(t, P, n, c) == Len(P[n]) < Len(P[c]) \/ t.mem[c].kind = "leaf"

\* What a node refers to, apart from the rest of the forest.
LEMMA PointerFacts ==
    ASSUME NEW t, NEW P, NEW M, Forest(t, P, {}, {}, {}, M),
           NEW n \in DOMAIN t.mem, NEW d, Has(t.mem[n], d), NEW c, c = To(t.mem[n], d)
    PROVE  /\ c \in DOMAIN t.mem /\ d \in Nibble \cup {Immediate}
           /\ P[n] \in Label /\ P[c] \in Label
           /\ Arc(t, {}, {}, n, d) /\ Target(t, n, d) = c
           /\ Extends(P[c], P[n], Over(t.mem[n], d))
           /\ Suits(t.mem[n], d, t.mem[c].kind)
           /\ Len(P[n]) <= Len(P[c])
           /\ Deeper(t, P, n, c)
           /\ t.mem[n].kind # "leaf"
  <1>1. DOMAIN t.mem \subseteq Nat \ {NIL} /\ P \in [Nat -> Label]
    BY DEF Forest, Stock
  <1>2. Arc(t, {}, {}, n, d) /\ Target(t, n, d) = c /\ n # NIL
    BY <1>1 DEF Arc, Target
  <1>3. /\ c \in DOMAIN t.mem /\ Leads(t, P, n, d, c)
        /\ d \in Nibble \cup {Immediate}
        /\ Len(P[n]) <= Len(P[c])
        /\ Len(P[n]) < Len(P[c]) \/ t.mem[c].kind = "leaf"
        /\ t.mem[n].kind \in Branch \cup {"edge"}
    BY <1>2, ArcFacts
  <1> QED
    BY <1>1, <1>2, <1>3 DEF Leads, Branch, Deeper

\* A node is below itself.
LEMMA ReachSelf ==
    ASSUME NEW t, NEW n
    PROVE  Reach(t, n, n)
  BY DEF Reach

\* The way to a node below n starts with one of the pointers of n.
LEMMA ReachOn ==
    ASSUME NEW t, NEW P, NEW M, Forest(t, P, {}, {}, {}, M),
           NEW n \in DOMAIN t.mem, NEW z, Reach(t, n, z), n # z
    PROVE  \E d \in Nibble \cup {Immediate} :
              Has(t.mem[n], d) /\ Reach(t, To(t.mem[n], d), z)
  <1> SUFFICES ASSUME \A d \in Nibble \cup {Immediate} :
                         Has(t.mem[n], d) => ~Reach(t, To(t.mem[n], d), z)
               PROVE  FALSE
    OBVIOUS
  <1> DEFINE below == {x \in DOMAIN t.mem : \E d \in Nibble \cup {Immediate} :
                          Has(t.mem[n], d) /\ Reach(t, To(t.mem[n], d), x)}
             S == below \cup {n}
  <1>1. S \in SUBSET DOMAIN t.mem /\ n \in S /\ z \notin S
    OBVIOUS
  <1>2. ASSUME NEW x \in S, NEW e \in Nibble \cup {Immediate}, Has(t.mem[x], e)
        PROVE  To(t.mem[x], e) \in S
    <2> DEFINE y == To(t.mem[x], e)
    <2>1. x \in DOMAIN t.mem
      BY <1>1
    <2>2. y \in DOMAIN t.mem
      BY <1>2, <2>1, PointerFacts
    <2>3. CASE x = n
      <3>1. Reach(t, y, y)
        BY ReachSelf
      <3> QED
        BY <1>2, <2>2, <2>3, <3>1
    <2>4. CASE x # n
      <3>1. PICK d \in Nibble \cup {Immediate} :
               Has(t.mem[n], d) /\ Reach(t, To(t.mem[n], d), x)
        BY <2>4
      <3> DEFINE c == To(t.mem[n], d)
      <3>2. Reach(t, c, x)
        BY <3>1
      <3> HIDE DEF c
      <3>3. Reach(t, c, y)
        <4> SUFFICES ASSUME NEW T \in SUBSET DOMAIN t.mem, c \in T, Closed(t, T)
                     PROVE  y \in T
          BY DEF Reach
        <4>1. x \in T
          BY <3>2 DEF Reach
        <4> QED
          BY <1>2, <2>1, <4>1 DEF Closed
      <3> HIDE DEF y
      <3>4. y \in below
        BY <2>2, <3>1, <3>3 DEF c
      <3> QED
        BY <3>4 DEF y
    <2> QED
      BY <2>3, <2>4
  <1> HIDE DEF S
  <1>3. Closed(t, S)
    BY <1>2 DEF Closed
  <1> QED
    BY <1>1, <1>3 DEF Reach

\* The label of a node begins with that of each node above it.
LEMMA ReachLabel ==
    ASSUME NEW t, NEW P, NEW M, Forest(t, P, {}, {}, {}, M),
           NEW n \in DOMAIN t.mem, NEW z, Reach(t, n, z)
    PROVE  /\ z \in DOMAIN t.mem /\ P[n] \in Label /\ P[z] \in Label
           /\ Len(P[n]) <= Len(P[z])
           /\ \A j \in 1 .. Len(P[n]) : P[z][j] = P[n][j]
           /\ P[n] = First(P[z], Len(P[n]))
  <1> DEFINE Below(x) == /\ Len(P[n]) <= Len(P[x])
                         /\ \A j \in 1 .. Len(P[n]) : P[x][j] = P[n][j]
             S == {x \in DOMAIN t.mem : Below(x)}
  <1>1. \A x \in DOMAIN t.mem : P[x] \in Label /\ Len(P[x]) \in Nat
    <2>1. DOMAIN t.mem \subseteq Nat \ {NIL} /\ P \in [Nat -> Label]
      BY DEF Forest, Stock
    <2>2. \A x \in DOMAIN t.mem : P[x] \in Label
      BY <2>1
    <2> QED
      BY <2>2, Whole
  <1>2. S \in SUBSET DOMAIN t.mem /\ n \in S
    BY <1>1
  <1>3. ASSUME NEW x \in S, NEW e \in Nibble \cup {Immediate}, Has(t.mem[x], e)
        PROVE  To(t.mem[x], e) \in S
    <2> DEFINE y == To(t.mem[x], e)
    <2>1. x \in DOMAIN t.mem /\ Below(x)
      OBVIOUS
    <2>2. y \in DOMAIN t.mem /\ Extends(P[y], P[x], Over(t.mem[x], e)) /\ Len(P[x]) <= Len(P[y])
      BY <1>3, <2>1, PointerFacts
    <2> HIDE DEF y
    <2>3. Len(P[n]) <= Len(P[y])
      BY <1>1, <2>1, <2>2
    <2>4. ASSUME NEW j \in 1 .. Len(P[n])
          PROVE  P[y][j] = P[n][j]
      <3>1. j \in 1 .. Len(P[x])
        BY <1>1, <2>1
      <3>2. P[y][j] = P[x][j]
        BY <2>2, <3>1 DEF Extends
      <3> QED
        BY <2>1, <3>2
    <2>5. y \in S
      BY <2>2, <2>3, <2>4
    <2> QED
      BY <2>5 DEF y
  <1> HIDE DEF S
  <1>4. Closed(t, S)
    BY <1>3 DEF Closed
  <1>5. z \in S
    BY <1>2, <1>4 DEF Reach
  <1>6. z \in DOMAIN t.mem /\ Below(z)
    BY <1>5 DEF S
  <1>7. P[n] = First(P[z], Len(P[n]))
    <2> DEFINE m == Len(P[n])
               a == P[n]
               b == P[z]
    <2>1. m \in 0 .. Len(b) /\ a \in Label /\ b \in Label /\ Len(a) = m
          /\ \A j \in 1 .. m : b[j] = a[j]
      BY <1>1, <1>6
    <2> HIDE DEF m, a, b
    <2>2. First(b, m) \in Label /\ Len(First(b, m)) = m /\ \A j \in 1 .. m : First(b, m)[j] = b[j]
      BY <2>1, Parts
    <2>3. a = First(b, m)
      BY <2>1, <2>2, SameLabel
    <2> QED
      BY <2>3 DEF m, a, b
  <1> QED
    BY <1>1, <1>6, <1>7

\* Every node is below the root.
LEMMA RootReaches ==
    ASSUME NEW t, NEW P, NEW M, Forest(t, P, {}, {}, {}, M), NEW z \in DOMAIN t.mem
    PROVE  t.root \in DOMAIN t.mem /\ Reach(t, t.root, z)
  <1>1. \A c \in DOMAIN t.mem : \E n, d : Arc(t, {}, {}, n, d) /\ Target(t, n, d) = c
    BY DEF Forest, Tied
  <1>2. \A x \in DOMAIN t.mem : P[x] \in Label /\ Len(P[x]) \in Nat
    <2>1. DOMAIN t.mem \subseteq Nat \ {NIL} /\ P \in [Nat -> Label]
      BY DEF Forest, Stock
    <2>2. \A x \in DOMAIN t.mem : P[x] \in Label
      BY <2>1
    <2> QED
      BY <2>2, Whole
  <1>3. ASSUME NEW x \in DOMAIN t.mem, x # t.root
        PROVE  \E n \in DOMAIN t.mem, d \in Nibble \cup {Immediate} :
                  /\ Has(t.mem[n], d) /\ To(t.mem[n], d) = x
                  /\ Len(P[n]) <= Len(P[x]) /\ t.mem[n].kind # "leaf"
                  /\ t.mem[x].kind # "leaf" => Len(P[n]) < Len(P[x])
    <2>1. PICK n, d : Arc(t, {}, {}, n, d) /\ Target(t, n, d) = x
      BY <1>1
    <2>2. n # NIL
      BY <1>3, <2>1 DEF Target
    <2>3. n \in DOMAIN t.mem /\ Has(t.mem[n], d) /\ To(t.mem[n], d) = x
      BY <2>1, <2>2 DEF Arc, Target
    <2>4. /\ d \in Nibble \cup {Immediate} /\ Len(P[n]) <= Len(P[x]) /\ t.mem[n].kind # "leaf"
          /\ Len(P[n]) < Len(P[x]) \/ t.mem[x].kind = "leaf"
      <3> DEFINE c == To(t.mem[n], d)
      <3>1. c = To(t.mem[n], d) /\ c = x
        BY <2>3
      <3> HIDE DEF c
      <3>2. d \in Nibble \cup {Immediate}
        BY <2>3, <3>1, PointerFacts
      <3>3. Len(P[n]) <= Len(P[c])
        BY <1>2, <2>3, <3>1, <3>2, PointerFacts
      <3>4. t.mem[n].kind # "leaf"
        BY <2>3, <3>1, PointerFacts
      <3>5. Deeper(t, P, n, c)
        BY <2>3, <3>1, PointerFacts
      <3> QED
        BY <3>1, <3>2, <3>3, <3>4, <3>5 DEF Deeper
    <2> QED
      BY <2>3, <2>4
  <1>4. ASSUME NEW S \in SUBSET DOMAIN t.mem, Closed(t, S), t.root \notin DOMAIN t.mem \ S
        PROVE  z \in S
    <2> SUFFICES ASSUME z \notin S
                 PROVE  FALSE
      OBVIOUS
    <2> DEFINE out == DOMAIN t.mem \ S
               lengths == {Len(P[x]) : x \in out}
    <2>1. lengths \in SUBSET Nat /\ lengths # {}
      BY <1>2
    <2> HIDE DEF lengths
    <2>2. PICK l \in lengths : \A k \in lengths : l <= k
      BY <2>1, Smallest
    <2>3. PICK x \in out : Len(P[x]) = l
      BY <2>2 DEF lengths
    <2>4. \A y \in out : Len(P[x]) <= Len(P[y])
      BY <2>2, <2>3 DEF lengths
    <2>5. \A y \in out : y # t.root
      BY <1>4
    <2>6. ASSUME NEW y \in out, NEW n \in DOMAIN t.mem, NEW d \in Nibble \cup {Immediate},
                 Has(t.mem[n], d), To(t.mem[n], d) = y
          PROVE  n \in out
      BY <1>4, <2>6 DEF Closed
    <2>7. PICK n \in DOMAIN t.mem, d \in Nibble \cup {Immediate} :
             /\ Has(t.mem[n], d) /\ To(t.mem[n], d) = x
             /\ Len(P[n]) <= Len(P[x]) /\ t.mem[n].kind # "leaf"
      BY <1>3, <2>5
    <2>8. n \in out
      BY <2>6, <2>7
    <2>9. PICK m \in DOMAIN t.mem, e \in Nibble \cup {Immediate} :
             /\ Has(t.mem[m], e) /\ To(t.mem[m], e) = n
             /\ Len(P[m]) < Len(P[n])
      BY <1>3, <2>5, <2>7, <2>8
    <2>10. m \in out
      BY <2>6, <2>8, <2>9
    <2>11. Len(P[x]) <= Len(P[m])
      BY <2>4, <2>10
    <2> QED
      BY <1>2, <2>3, <2>7, <2>9, <2>11
  <1>5. t.root \in DOMAIN t.mem
    <2> SUFFICES ASSUME t.root \notin DOMAIN t.mem
                 PROVE  FALSE
      OBVIOUS
    <2> DEFINE none == {}
    <2>1. /\ none \in SUBSET DOMAIN t.mem /\ Closed(t, none)
          /\ t.root \notin DOMAIN t.mem \ none /\ z \notin none
      BY DEF Closed
    <2> HIDE DEF none
    <2> QED
      BY <1>4, <2>1
  <1> QED
    BY <1>4, <1>5 DEF Reach
\* From the node n, at First(key, i), the way to the leaf z of the key goes
\* over its pointer d to c, at First(key, j).
Heads(t, P, key, z, n, i, d, c, j) ==
    /\ d \in Nibble \cup {Immediate} /\ Has(t.mem[n], d) /\ c = To(t.mem[n], d)
    /\ c \in DOMAIN t.mem /\ Reach(t, c, z)
    /\ j \in i .. Len(key) /\ P[c] = First(key, j)
    /\ j = i + Len(Over(t.mem[n], d)) /\ Follows(Over(t.mem[n], d), key, i)
    /\ t.mem[c].kind = "leaf" => c = z /\ j = Len(key)
    /\ t.mem[c].kind = "edge" => j < Len(key)
    /\ Suits(t.mem[n], d, t.mem[c].kind)

\* The next node on the way to a leaf.
LEMMA Heading ==
    ASSUME NEW t, NEW P, NEW M, Forest(t, P, {}, {}, {}, M), NEW key \in Label,
           NEW z \in DOMAIN t.mem, t.mem[z].kind = "leaf", P[z] = key,
           NEW n \in DOMAIN t.mem, Reach(t, n, z), n # z,
           NEW i \in 0 .. Len(key), P[n] = First(key, i)
    PROVE  \E d, c, j : Heads(t, P, key, z, n, i, d, c, j)
  <1>1. PICK d \in Nibble \cup {Immediate} :
           Has(t.mem[n], d) /\ Reach(t, To(t.mem[n], d), z)
    BY ReachOn
  <1> DEFINE c == To(t.mem[n], d)
             s == Over(t.mem[n], d)
             j == Len(P[c])
  <1>2. \A x \in DOMAIN t.mem : P[x] \in Label /\ Len(P[x]) \in Nat
    <2>1. DOMAIN t.mem \subseteq Nat \ {NIL} /\ P \in [Nat -> Label]
      BY DEF Forest, Stock
    <2>2. \A x \in DOMAIN t.mem : P[x] \in Label
      BY <2>1
    <2> QED
      BY <2>2, Whole
  <1>3. Len(First(key, i)) = i /\ Len(key) \in Nat
    BY Parts, Whole
  <1>4. Has(t.mem[n], d) /\ Reach(t, c, z) /\ c = To(t.mem[n], d) /\ s = Over(t.mem[n], d)
        /\ j = Len(P[c])
    BY <1>1
  <1> HIDE DEF c, s, j
  <1>5. /\ c \in DOMAIN t.mem /\ Extends(P[c], P[n], s) /\ Suits(t.mem[n], d, t.mem[c].kind)
    BY <1>4, PointerFacts
  <1>6. /\ Len(P[c]) <= Len(P[z])
        /\ \A k \in 1 .. Len(P[c]) : P[z][k] = P[c][k]
        /\ P[c] = First(P[z], Len(P[c]))
    BY <1>2, <1>4, <1>5, ReachLabel
  <1>7. Len(s) \in Nat /\ s \in Seq(Nibble) /\ (t.mem[n].kind = "edge" => s # <<>>)
    <2>1. Sound(t.mem[n])
      BY DEF Forest, Stock
    <2>2. CASE t.mem[n].kind = "edge"
      BY <1>4, <2>1, <2>2 DEF Over, Sound, Branch, Label
    <2>3. CASE t.mem[n].kind # "edge" /\ d = Immediate
      <3>1. s = <<>>
        BY <1>4, <2>3 DEF Over
      <3> QED
        BY <2>3, <3>1
    <2>4. CASE t.mem[n].kind # "edge" /\ d # Immediate
      <3>1. s = <<d>> /\ d \in Nibble
        BY <1>4, <2>4 DEF Over
      <3> QED
        BY <2>4, <3>1
    <2> QED
      BY <2>2, <2>3, <2>4
  <1>8. j \in i .. Len(key) /\ P[c] = First(key, j) /\ j = i + Len(s)
    <2>1. Len(P[c]) = Len(P[n]) + Len(s)
      BY <1>5 DEF Extends
    <2> QED
      BY <1>2, <1>3, <1>4, <1>5, <1>6, <1>7, <2>1
  <1>9. Follows(s, key, i)
    <2>1. ASSUME NEW k \in 1 .. Len(s)
          PROVE  s[k] = key[i + k]
      <3>1. i + k \in 1 .. Len(P[c])
        BY <1>4, <1>7, <1>8
      <3>2. P[c][i + k] = s[k]
        BY <1>3, <1>5 DEF Extends
      <3> QED
        BY <1>6, <3>1, <3>2
    <2> QED
      BY <1>3, <1>7, <1>8, <2>1 DEF Follows
  <1>10. t.mem[c].kind = "leaf" => c = z /\ j = Len(key)
    <2>1. ASSUME t.mem[c].kind = "leaf"
          PROVE  c = z
      <3> SUFFICES ASSUME c # z
                   PROVE  FALSE
        OBVIOUS
      <3>1. PICK e \in Nibble \cup {Immediate} : Has(t.mem[c], e)
        BY <1>4, <1>5, ReachOn
      <3> QED
        BY <2>1, <3>1 DEF Has, Branch
    <2> QED
      BY <1>4, <2>1
  <1>11. t.mem[c].kind = "edge" => j < Len(key)
    <2> SUFFICES ASSUME t.mem[c].kind = "edge"
                 PROVE  j < Len(key)
      OBVIOUS
    <2>1. c # z
      OBVIOUS
    <2>2. PICK e \in Nibble \cup {Immediate} :
             Has(t.mem[c], e) /\ Reach(t, To(t.mem[c], e), z)
      BY <1>4, <1>5, <2>1, ReachOn
    <2> DEFINE y == To(t.mem[c], e)
               r == t.mem[c].str
    <2>3. e = Immediate /\ y = t.mem[c].next /\ r = t.mem[c].str
      BY <2>2 DEF Has, To, Branch
    <2>4. Reach(t, y, z)
      BY <2>2
    <2> HIDE DEF y, r
    <2>5. y \in DOMAIN t.mem /\ Extends(P[y], P[c], r) /\ r \in Label /\ r # <<>>
      BY <1>5, <2>3, EdgeFacts
    <2>6. Len(P[y]) <= Len(P[z])
      BY <1>2, <2>4, <2>5, ReachLabel
    <2>7. Len(r) \in Nat /\ Len(r) > 0
      <3>1. r \in Seq(Nibble)
        BY <2>5 DEF Label
      <3> QED
        BY <2>5, <3>1
    <2>8. Len(P[y]) = Len(P[c]) + Len(r)
      BY <2>5 DEF Extends
    <2> QED
      BY <1>2, <1>3, <1>4, <1>5, <2>5, <2>6, <2>7, <2>8
  <1>12. Heads(t, P, key, z, n, i, d, c, j)
    BY <1>4, <1>5, <1>8, <1>9, <1>10, <1>11 DEF Heads
  <1> QED
    BY <1>12

\* The way of the loop over an edge is the one to the key's leaf,
LEMMA EdgeReaches ==
    ASSUME NEW t, NEW P, NEW M, Forest(t, P, {}, {}, {}, M), NEW key \in Label,
           NEW z \in DOMAIN t.mem, t.mem[z].kind = "leaf", P[z] = key,
           NEW p, p.node \in DOMAIN t.mem, t.mem[p.node].kind = "edge", Reach(t, p.node, z),
           p.i \in 0 .. Len(key), P[p.node] = First(key, p.i)
    PROVE  /\ EdgePassed(t, key, p)
           /\ t.mem[p.node].next \in DOMAIN t.mem /\ Reach(t, t.mem[p.node].next, z)
  <1> DEFINE n == p.node
             i == p.i
  <1>1. /\ n \in DOMAIN t.mem /\ i \in 0 .. Len(key) /\ P[n] = First(key, i)
        /\ Reach(t, n, z) /\ n # z /\ t.mem[n].kind = "edge"
    OBVIOUS
  <1>2. PICK d, c, j : Heads(t, P, key, z, n, i, d, c, j)
    <2> HIDE DEF n, i
    <2> QED
      BY <1>1, Heading
  <1> DEFINE s == t.mem[n].str
  <1>3. /\ c = t.mem[n].next /\ Over(t.mem[n], d) = s
        /\ c \in DOMAIN t.mem /\ Reach(t, c, z)
        /\ j = i + Len(s) /\ Follows(s, key, i)
        /\ t.mem[c].kind = "leaf" => j = Len(key)
    <2> HIDE DEF n, i
    <2>1. To(t.mem[n], d) = t.mem[n].next /\ Over(t.mem[n], d) = t.mem[n].str
      BY <1>1 DEF To, Over
    <2> QED
      BY <1>2, <2>1 DEF Heads
  <1>4. Matching(s, key, i) = Len(s)
    <2> DEFINE m == Matching(s, key, i)
    <2>1. m = Matching(s, key, i) /\ s \in Label
      BY <1>1, EdgeFacts
    <2> HIDE DEF m, s, i
    <2>2. m = Len(s)
      BY <1>1, <1>3, <2>1, Matches
    <2> QED
      BY <2>2 DEF m
  <1>5. EdgePassed(t, key, p)
    <2>1. ~ (i + Len(s) < Len(key) /\ Kind(t, t.mem[n].next) = "leaf")
      <3>1. Len(key) \in Nat
        BY Whole
      <3>2. Kind(t, t.mem[n].next) = "leaf" => i + Len(s) = Len(key)
        BY <1>3 DEF Kind
      <3> QED
        BY <3>1, <3>2
    <2> QED
      BY <1>4, <2>1 DEF EdgePassed
  <1> QED
    BY <1>3, <1>5
\* The entry of a branch on the way to the leaf z of the key.
LEMMA BranchHeads ==
    ASSUME NEW t, NEW P, NEW M, Forest(t, P, {}, {}, {}, M), NEW key \in Label,
           NEW z \in DOMAIN t.mem, t.mem[z].kind = "leaf", P[z] = key,
           NEW n \in DOMAIN t.mem, t.mem[n].kind \in Branch, Reach(t, n, z),
           NEW i \in 0 .. Len(key), P[n] = First(key, i),
           NEW e, e = IF i < Len(key) THEN key[i + 1] ELSE Immediate,
           NEW j, j = IF i < Len(key) THEN i + 1 ELSE i,
           NEW c, c = GetBranch(t, n, e)
    PROVE  /\ e \in DOMAIN t.mem[n].entries
           /\ c \in DOMAIN t.mem /\ Reach(t, c, z) /\ P[c] = First(key, j)
           /\ t.mem[c].kind = "leaf" => c = z /\ j = Len(key)
           /\ t.mem[c].kind = "edge" => j < Len(key)
  <1>1. n # z /\ Len(key) \in Nat /\ i \in Nat
    BY Whole DEF Branch
  <1>2. PICK d, y, k : Heads(t, P, key, z, n, i, d, y, k)
    BY <1>1, Heading
  <1>3. /\ d \in Nibble \cup {Immediate} /\ d \in DOMAIN t.mem[n].entries
        /\ y = t.mem[n].entries[d]
        /\ y \in DOMAIN t.mem /\ Reach(t, y, z)
        /\ k \in i .. Len(key) /\ P[y] = First(key, k)
        /\ t.mem[y].kind = "leaf" => y = z /\ k = Len(key)
        /\ t.mem[y].kind = "edge" => k < Len(key)
        /\ d = Immediate => t.mem[y].kind = "leaf"
    BY <1>2, BranchPointers DEF Heads, Suits
  <1>4. /\ k = i + Len(Over(t.mem[n], d)) /\ Follows(Over(t.mem[n], d), key, i)
        /\ Over(t.mem[n], d) = IF d = Immediate THEN <<>> ELSE <<d>>
    BY <1>2, BranchPointers DEF Heads
  <1>5. /\ d = Immediate => k = i
        /\ d # Immediate => k = i + 1 /\ d = key[i + 1]
    <2>1. CASE d = Immediate
      BY <1>1, <1>4, <2>1
    <2>2. CASE d # Immediate
      <3>1. Len(<<d>>) = 1 /\ <<d>>[1] = d
        OBVIOUS
      <3>2. k = i + 1 /\ Follows(<<d>>, key, i)
        BY <1>4, <2>2, <3>1
      <3>3. d = key[i + 1]
        BY <3>1, <3>2 DEF Follows
      <3> QED
        BY <2>2, <3>2, <3>3
    <2> QED
      BY <2>1, <2>2
  <1>6. d = e /\ k = j
    <2>1. CASE i < Len(key)
      <3>1. d # Immediate
        BY <1>1, <1>3, <1>5, <2>1
      <3> QED
        BY <1>5, <2>1, <3>1
    <2>2. CASE ~(i < Len(key))
      <3>1. d = Immediate
        BY <1>1, <1>3, <1>5, <2>2
      <3> QED
        BY <1>5, <2>2, <3>1
    <2> QED
      BY <2>1, <2>2
  <1>7. y = c
    BY <1>3, <1>6 DEF GetBranch
  <1> QED
    BY <1>3, <1>6, <1>7

\* and so is the one over a branch.
LEMMA BranchReaches ==
    ASSUME NEW t, NEW P, NEW M, Forest(t, P, {}, {}, {}, M), NEW key \in Label,
           NEW z \in DOMAIN t.mem, t.mem[z].kind = "leaf", P[z] = key,
           NEW p, p.node \in DOMAIN t.mem, t.mem[p.node].kind \in Branch, Reach(t, p.node, z),
           p.i \in 0 .. Len(key), P[p.node] = First(key, p.i),
           NEW q, q = OverBranch(t, key, p)
    PROVE  /\ BranchPassed(t, key, p)
           /\ q.node \in DOMAIN t.mem /\ Reach(t, q.node, z)
  <1> DEFINE n == p.node
             i == p.i
             e == IF i < Len(key) THEN key[i + 1] ELSE Immediate
             j == IF i < Len(key) THEN i + 1 ELSE i
             c == GetBranch(t, n, e)
  <1>1. Len(key) \in Nat
    BY Whole
  <1>2. /\ c \in DOMAIN t.mem /\ Reach(t, c, z) /\ P[c] = First(key, j)
        /\ t.mem[c].kind = "leaf" => c = z /\ j = Len(key)
        /\ t.mem[c].kind = "edge" => j < Len(key)
    <2>1. /\ n \in DOMAIN t.mem /\ t.mem[n].kind \in Branch /\ Reach(t, n, z)
          /\ i \in 0 .. Len(key) /\ P[n] = First(key, i)
          /\ e = IF i < Len(key) THEN key[i + 1] ELSE Immediate
          /\ j = IF i < Len(key) THEN i + 1 ELSE i
          /\ c = GetBranch(t, n, e)
      OBVIOUS
    <2> HIDE DEF n, i, e, j, c
    <2> QED
      BY <2>1, BranchHeads
  <1>3. Kind(t, c) = t.mem[c].kind /\ i \in Nat
    BY <1>2 DEF Kind
  <1>4. BranchPassed(t, key, p)
    <2> SUFFICES ASSUME i < Len(key)
                 PROVE  LET key_has_remainder == i + 1 < Len(key)
                        IN  /\ ~ (Kind(t, c) = "edge" /\ ~ key_has_remainder)
                            /\ ~ (Kind(t, c) = "leaf" /\ key_has_remainder)
      BY DEF BranchPassed
    <2>1. j = i + 1
      OBVIOUS
    <2> HIDE DEF c, j
    <2> QED
      BY <1>1, <1>2, <1>3, <2>1
  <1>5. CASE i + 1 = Len(key) /\ Kind(t, c) \in Branch
    <2> DEFINE y == GetBranch(t, c, Immediate)
    <2>1. q.node = y
      BY <1>1, <1>5 DEF OverBranch
    <2>2. j = Len(key) /\ t.mem[c].kind \in Branch /\ j \in 0 .. Len(key)
          /\ j = IF j < Len(key) THEN j + 1 ELSE j
      BY <1>1, <1>3, <1>5
    <2>3. Immediate = IF j < Len(key) THEN key[j + 1] ELSE Immediate
      BY <1>1, <2>2
    <2>4. y = GetBranch(t, c, Immediate)
      OBVIOUS
    <2> HIDE DEF c, y, j
    <2> DEFINE x == Immediate
    <2>5. x = IF j < Len(key) THEN key[j + 1] ELSE Immediate
      BY <2>3
    <2>6. y = GetBranch(t, c, x)
      BY <2>4
    <2> HIDE DEF x
    <2>7. y \in DOMAIN t.mem /\ Reach(t, y, z)
      BY <1>2, <2>2, <2>5, <2>6, BranchHeads
    <2> QED
      BY <1>4, <2>1, <2>7
  <1>6. CASE ~(i + 1 = Len(key) /\ Kind(t, c) \in Branch)
    <2>1. q.node = c
      BY <1>6 DEF OverBranch
    <2> QED
      BY <1>2, <1>4, <2>1
  <1> QED
    BY <1>5, <1>6

\* The walk goes to the leaf of the key when the tree has one.
LEMMA WalkReaches ==
    ASSUME NEW t, NEW P, NEW M, Forest(t, P, {}, {}, {}, M), <<>> \notin DOMAIN M,
           NEW key \in DOMAIN M, key \in Label, key # <<>>, NEW p, p = Walk(t, key)
    PROVE  Kind(t, p.node) = "leaf"
  <1>1. PICK z \in DOMAIN t.mem : t.mem[z].kind = "leaf" /\ P[z] = key
    BY DEF Forest, Leafy
  <1>2. Len(key) \in Nat /\ DOMAIN t.mem \subseteq Nat \ {NIL}
    BY Whole DEF Forest, Stock
  <1> DEFINE Toward(x) == /\ Standing(t, P, key, x)
                          /\ x.node \in DOMAIN t.mem /\ Reach(t, x.node, z)
             I == {x \in Positions(key) : Toward(x)}
  <1>3. Start(t) \in I
    <2>1. Standing(t, P, key, Start(t))
      BY FirstStands
    <2>2. t.root \in DOMAIN t.mem /\ Reach(t, t.root, z)
      BY <1>1, RootReaches
    <2> QED
      BY <2>1, <2>2 DEF Standing, Start
  <1>4. ASSUME NEW x \in I
        PROVE  /\ Onward(t, key, x) \in I
               /\ Ends(t, key, x) => Kind(t, x.node) = "leaf"
    <2> DEFINE y == Onward(t, key, x)
    <2>1. /\ Standing(t, P, key, x) /\ x \in Positions(key)
          /\ x.node \in DOMAIN t.mem /\ Reach(t, x.node, z)
      OBVIOUS
    <2>2. x.i \in 0 .. Len(key) /\ x.node # NIL /\ P[x.node] = First(key, x.i)
      BY <1>2, <2>1 DEF Standing, Stands, Positions
    <2>3. Standing(t, P, key, y) /\ y \in Positions(key)
      <3>1. y = Onward(t, key, x)
        OBVIOUS
      <3> HIDE DEF y
      <3>2. Standing(t, P, key, y)
        BY <2>1, <3>1, OnwardStands
      <3> QED
        BY <3>2 DEF Standing
    <2> HIDE DEF I
    <2>4. CASE t.mem[x.node].kind = "edge"
      <3>1. /\ EdgePassed(t, key, x)
            /\ t.mem[x.node].next \in DOMAIN t.mem /\ Reach(t, t.mem[x.node].next, z)
        BY <1>1, <2>1, <2>2, <2>4, EdgeReaches
      <3>2. y = OverEdge(t, key, x) /\ ~Ends(t, key, x)
        BY <2>1, <2>4, <3>1 DEF Onward, Ends, Kind, Branch
      <3>3. y.node = t.mem[x.node].next
        BY <3>2 DEF OverEdge
      <3> HIDE DEF y
      <3>4. Toward(y)
        BY <2>3, <3>1, <3>3
      <3> QED
        BY <2>3, <3>2, <3>4 DEF I, y
    <2>5. CASE t.mem[x.node].kind \in Branch
      <3> DEFINE w == OverBranch(t, key, x)
      <3>1. w = OverBranch(t, key, x)
        OBVIOUS
      <3> HIDE DEF w
      <3>2. /\ BranchPassed(t, key, x)
            /\ w.node \in DOMAIN t.mem /\ Reach(t, w.node, z)
        BY <1>1, <2>1, <2>2, <2>5, <3>1, BranchReaches
      <3>3. y = w /\ ~Ends(t, key, x)
        BY <2>1, <2>5, <3>1, <3>2 DEF Onward, Ends, Kind, Branch
      <3> HIDE DEF y
      <3>4. Toward(y)
        BY <2>3, <3>2, <3>3
      <3> QED
        BY <2>3, <3>3, <3>4 DEF I, y
    <2>6. CASE t.mem[x.node].kind = "leaf"
      <3>1. Kind(t, x.node) = "leaf"
        BY <2>1, <2>6 DEF Kind
      <3>2. y = x
        BY <3>1 DEF Onward, Branch
      <3> QED
        BY <2>1, <3>1, <3>2 DEF I
    <2>7. t.mem[x.node].kind \in Branch \cup {"edge", "leaf"}
      <3>1. Sound(t.mem[x.node])
        BY <2>1 DEF Forest, Stock
      <3> QED
        BY <3>1 DEF Sound
    <2> QED
      BY <2>4, <2>5, <2>6, <2>7
  <1> HIDE DEF I
  <1>5. PICK f : /\ f[0] = Start(t)
                 /\ \A k \in 1 .. Len(key) + 1 : f[k] = Onward(t, key, f[k - 1])
                 /\ p = f[Len(key) + 1]
    BY <1>2, <1>3, <1>4, WalkLoop
  <1> DEFINE n == Len(key) + 1
             S == {k \in 0 .. n : f[k] \in I}
  <1>6. 0 \in S
    BY <1>2, <1>3, <1>5
  <1>7. ASSUME NEW k \in 1 .. n, k - 1 \in S
        PROVE  k \in S
    <2>1. f[k - 1] \in I /\ f[k] = Onward(t, key, f[k - 1])
      BY <1>5, <1>7
    <2> QED
      BY <1>4, <2>1
  <1>8. p \in I
    <2>1. n \in Nat /\ n \in 0 .. n
      BY <1>2
    <2> HIDE DEF n, S
    <2>2. \A k \in 0 .. n : k \in S
      BY <1>6, <1>7, <2>1, Counting
    <2>3. n \in S
      BY <2>1, <2>2
    <2> QED
      BY <1>5, <2>3 DEF S, n
  <1>9. Ends(t, key, p)
    BY WalkEnds
  <1> QED
    BY <1>4, <1>8, <1>9
-----------------------------------------------------------------------------
(* An insertion. *)

\* What the insertion does at an edge adds the key to the map,
LEMMA EdgeHolds ==
    ASSUME NEW t, NEW P, NEW M, Forest(t, P, {}, {}, {}, M),
           NEW key \in Label, key \notin DOMAIN M, NEW v \in Values,
           NEW p, Standing(t, P, key, p), p.node \in DOMAIN t.mem,
           t.mem[p.node].kind = "edge", ~EdgePassed(t, key, p),
           NEW u, u = AtEdge(t, key, v, p)
    PROVE  Holds(u, With(M, key, v))
  <1> DEFINE n == p.node
             i == p.i
             prev == p.prev
             s == t.mem[n].str
             m == Matching(s, key, i)
             k == i + m
  <1>1. PICK a, d : Stands(t, P, key, p, a, d)
    BY DEF Standing
  <1>2. /\ i \in Nat /\ i < Len(key) /\ Len(key) \in Nat
        /\ Len(prev) \in Nat \ {0} /\ prev[Len(prev)] = [node |-> a, val |-> d]
        /\ Arc(t, {}, {}, a, d) /\ n = Target(t, a, d) /\ P[n] = First(key, i)
    <2>1. p \in Positions(key) /\ Len(key) \in Nat
      BY Whole DEF Standing
    <2>2. n # NIL
      BY DEF Forest, Stock
    <2>3. prev \in Seq(Places) /\ prev # <<>> /\ i \in Nat
      BY <1>1, <2>1 DEF Positions, Stands
    <2> HIDE DEF prev
    <2>4. Len(prev) \in Nat \ {0}
      BY <2>3
    <2> QED
      BY <1>1, <2>1, <2>2, <2>3, <2>4 DEF Stands, prev
  <1>3. /\ n \in DOMAIN t.mem /\ t.mem[n].kind = "edge" /\ s = t.mem[n].str
        /\ m = Matching(s, key, i) /\ k = i + m
    OBVIOUS
  <1>4. ~(m = Len(s) /\ ~(k < Len(key) /\ Kind(t, t.mem[n].next) = "leaf"))
    BY DEF EdgePassed
  <1>5. u = CASE m = 0 -> SplitFirst(t, n, key, i, v, prev)
              [] m > 0 /\ m < Len(s) /\ k < Len(key) -> SplitBoth(t, n, m, key, k, v)
              [] m > 0 /\ m < Len(s) /\ ~(k < Len(key)) -> SplitOld(t, n, m, v)
              [] m > 0 /\ ~(m < Len(s)) -> SplitNew(t, n, key, k, v)
    BY DEF AtEdge
  <1> HIDE DEF n, i, prev, s, m, k
  <1>6. s \in Label /\ s # <<>> /\ t.mem[n].next \in DOMAIN t.mem
    BY <1>3, EdgeFacts
  <1>7. /\ m \in 0 .. Len(s) /\ k \in 0 .. Len(key)
        /\ \A j \in 1 .. m : s[j] = key[i + j]
        /\ m < Len(s) /\ i + m < Len(key) => s[m + 1] # key[i + m + 1]
    <2>1. i \in 0 .. Len(key) /\ m = Matching(s, key, i)
      BY <1>2, <1>3
    <2>2. m \in 0 .. Len(s)
      BY <1>6, <2>1, Matches
    <2>3. i + m \in 0 .. Len(key)
      BY <1>6, <2>1, Matches
    <2>4. Agrees(s, key, i, m)
      BY <1>6, <2>1, Matches
    <2>5. Differs(s, key, i, m)
      BY <1>6, <2>1, Matches
    <2> QED
      BY <1>3, <2>2, <2>3, <2>4, <2>5 DEF Agrees, Differs
  <1>8. Len(s) \in Nat /\ Len(s) > 0 /\ m \in Nat
    <2>1. s \in Seq(Nibble)
      BY <1>6 DEF Label
    <2>2. Len(s) \in Nat /\ Len(s) > 0
      BY <1>6, <2>1
    <2> QED
      BY <1>7, <2>2
  <1>9. Extends(First(key, k), P[n], First(s, m))
    <2>1. i \in 0 .. Len(key) /\ i + m \in 0 .. Len(key)
      BY <1>2, <1>3, <1>7
    <2>2. Extends(First(key, i + m), First(key, i), First(s, m))
      BY <1>6, <1>7, <2>1, MatchedPart
    <2> QED
      BY <1>2, <1>3, <2>2
  <1>10. CASE m = 0
    <2>1. u = SplitFirst(t, n, key, i, v, prev)
      BY <1>5, <1>10
    <2>2. s[1] # key[i + 1]
      <3>1. m < Len(s) /\ i + m < Len(key) /\ m + 1 = 1 /\ i + m + 1 = i + 1
        BY <1>2, <1>8, <1>10
      <3> QED
        BY <1>7, <3>1
    <2>3. t.mem[n].str[1] # key[i + 1]
      BY <1>3, <2>2
    <2> QED
      BY <1>2, <1>3, <2>1, <2>3, EndFirst
  <1>11. CASE m > 0 /\ m < Len(s) /\ k < Len(key)
    <2>1. u = SplitBoth(t, n, m, key, k, v)
      BY <1>5, <1>8, <1>11
    <2>2. s[m + 1] # key[k + 1]
      BY <1>3, <1>7, <1>11
    <2>3. /\ k \in Nat /\ 0 < m /\ m < Len(t.mem[n].str)
          /\ t.mem[n].str[m + 1] # key[k + 1]
          /\ Extends(First(key, k), P[n], First(t.mem[n].str, m))
      BY <1>3, <1>7, <1>9, <1>11, <2>2
    <2> QED
      BY <1>3, <1>8, <1>11, <2>1, <2>3, EndBoth
  <1>12. CASE m > 0 /\ m < Len(s) /\ ~(k < Len(key))
    <2>1. u = SplitOld(t, n, m, v)
      BY <1>5, <1>8, <1>12
    <2>2. k = Len(key)
      BY <1>2, <1>7, <1>12
    <2>3. First(key, k) = key
      BY <2>2, Whole
    <2>4. /\ 0 < m /\ m < Len(t.mem[n].str)
          /\ Extends(key, P[n], First(t.mem[n].str, m))
      BY <1>3, <1>9, <1>12, <2>3
    <2> QED
      BY <1>3, <1>8, <2>1, <2>4, EndOld
  <1>13. CASE m > 0 /\ ~(m < Len(s))
    <2>1. u = SplitNew(t, n, key, k, v)
      BY <1>5, <1>8, <1>13
    <2>2. m = Len(s)
      BY <1>7, <1>8, <1>13
    <2>3. k < Len(key) /\ t.mem[t.mem[n].next].kind = "leaf"
      BY <1>4, <1>6, <2>2 DEF Kind
    <2>4. First(s, m) = s
      BY <1>6, <2>2, Whole
    <2>5. Extends(First(key, k), P[n], t.mem[n].str) /\ k \in Nat
      BY <1>3, <1>7, <1>9, <2>4
    <2> QED
      BY <1>3, <2>1, <2>3, <2>5, EndNew
  <1> QED
    BY <1>8, <1>10, <1>11, <1>12, <1>13

\* and so does what it does at a branch.
LEMMA BranchHolds ==
    ASSUME NEW t, NEW P, NEW M, Forest(t, P, {}, {}, {}, M),
           NEW key \in Label, key \notin DOMAIN M, NEW v \in Values,
           NEW p, Standing(t, P, key, p), p.node \in DOMAIN t.mem,
           t.mem[p.node].kind \in Branch, ~BranchPassed(t, key, p),
           NEW u, u = AtBranch(t, key, v, p)
    PROVE  Holds(u, With(M, key, v))
  <1> DEFINE n == p.node
             i == p.i
             k == i + 1
             prev == p.prev
             d == key[i + 1]
             next == GetBranch(t, n, d)
  <1>1. /\ i < Len(key)
        /\ \/ Kind(t, next) = "edge" /\ ~(i + 1 < Len(key))
           \/ Kind(t, next) = "leaf" /\ i + 1 < Len(key)
    BY DEF BranchPassed
  <1>2. i \in 0 .. Len(key) /\ Len(key) \in Nat /\ P[n] = First(key, i)
    <2>1. p \in Positions(key) /\ Len(key) \in Nat
      BY Whole DEF Standing
    <2>2. n # NIL
      BY DEF Forest, Stock
    <2> QED
      BY <2>1, <2>2 DEF Standing, Stands, Positions
  <1>3. /\ n \in DOMAIN t.mem /\ t.mem[n].kind \in Branch /\ k = i + 1 /\ d = key[i + 1]
        /\ next = GetBranch(t, n, d)
    OBVIOUS
  <1>4. u = IF Kind(t, next) = "edge"
            THEN BranchBeforeEdge(t, n, d, next, v, prev)
            ELSE BranchAtLeaf(t, n, d, next, key, k, v, prev)
    BY DEF AtBranch
  <1> HIDE DEF n, i, k, prev, d, next
  <1>5. /\ d \in Nibble
        /\ <<d>> \in Label /\ Extends(First(key, k), First(key, i), <<d>>)
    BY <1>1, <1>2, <1>3, OneMore
  <1>6. next \in DOMAIN t.mem /\ Kind(t, next) = t.mem[next].kind
    <2>1. next \in DOMAIN t.mem
      BY <1>1 DEF Kind
    <2> QED
      BY <2>1 DEF Kind
  <1>7. d \in DOMAIN t.mem[n].entries /\ next = t.mem[n].entries[d]
    <2>1. next # NIL
      BY <1>6 DEF Forest, Stock
    <2> QED
      BY <1>3, <2>1 DEF GetBranch
  <1>8. d # Immediate
    <2>1. Branches \in Nat
      BY KeyAssumption
    <2> QED
      BY <1>5, <2>1 DEF Nibble, Immediate
  <1>9. P[next] = First(key, k)
    <2>1. P[n] \in Label /\ P[next] \in Label /\ Extends(P[next], P[n], IF d = Immediate THEN <<>> ELSE <<d>>)
      BY <1>3, <1>7, BranchFacts
    <2>2. Extends(P[next], P[n], <<d>>)
      BY <1>8, <2>1
    <2>3. k \in 0 .. Len(key)
      BY <1>1, <1>2, <1>3
    <2>4. First(key, k) \in Label
      BY <2>3, Parts
    <2>5. Extends(First(key, k), P[n], <<d>>)
      BY <1>2, <1>5
    <2> QED
      BY <1>5, <2>1, <2>2, <2>4, <2>5, SameExtension
  <1>10. CASE Kind(t, next) = "edge"
    <2>1. u = BranchBeforeEdge(t, n, d, next, v, prev)
      BY <1>4, <1>10
    <2>2. k = Len(key)
      BY <1>1, <1>2, <1>3, <1>10
    <2>3. P[next] = key /\ t.mem[next].kind = "edge"
      BY <1>6, <1>9, <1>10, <2>2, Whole
    <2> QED
      BY <1>3, <1>5, <1>7, <2>1, <2>3, EndBranchEdge
  <1>11. CASE Kind(t, next) = "leaf"
    <2>1. u = BranchAtLeaf(t, n, d, next, key, k, v, prev)
      BY <1>4, <1>11
    <2>2. k \in Nat /\ k < Len(key) /\ t.mem[next].kind = "leaf"
      BY <1>1, <1>2, <1>3, <1>6, <1>11
    <2> QED
      BY <1>3, <1>5, <1>7, <1>9, <2>1, <2>2, EndBranchLeaf
  <1> QED
    BY <1>1, <1>10, <1>11

\* An insertion changes the map that the tree holds in the key, and leaves a
\* tree.
LEMMA InsertedHolds ==
    ASSUME NEW t, NEW P, NEW M, Forest(t, P, {}, {}, {}, M), <<>> \notin DOMAIN M,
           NEW key \in Label, key # <<>>, NEW v \in Values,
           NEW u, u = Inserted(t, key, v)
    PROVE  Holds(u, With(M, key, v)) /\ u.out = NIL
  <1> DEFINE p == Walk(t, key)
             w == At(t, key, v, p)
             N == With(M, key, v)
  <1>1. p = Walk(t, key) /\ w = At(t, key, v, p) /\ u = [w EXCEPT !.out = NIL]
    BY DEF Inserted
  <1> HIDE DEF p
  <1>2. Standing(t, P, key, p) /\ Ends(t, key, p)
    BY <1>1, WalkEnds
  <1>3. ASSUME Kind(t, p.node) # "leaf"
        PROVE  key \notin DOMAIN M
    <2> SUFFICES ASSUME key \in DOMAIN M
                 PROVE  FALSE
      OBVIOUS
    <2> QED
      BY <1>1, <1>3, WalkReaches
  <1>4. PICK a, d : Stands(t, P, key, p, a, d)
    BY <1>2 DEF Standing
  <1>5. p \in Positions(key) /\ Len(key) \in Nat
    BY <1>2, Whole DEF Standing
  <1>6. Holds(w, N)
    <2>1. CASE p.node = NIL
      <3>1. Kind(t, p.node) = "none"
        BY <2>1 DEF Kind, Forest, Stock
      <3>2. w = InsertHere(t, key, p.i, v, p.prev)
        BY <3>1 DEF At, Branch
      <3>3. key \notin DOMAIN M
        BY <1>3, <3>1
      <3>4. Writable(t, {}, p.prev, a, d) /\ Awaits(t, P, a, d, key, p.i)
        BY <1>4, <2>1 DEF Stands
      <3> DEFINE i == p.i
                 prev == p.prev
      <3>5. i \in 0 .. Len(key)
        BY <1>5 DEF Positions
      <3>6. Writable(t, {}, prev, a, d) /\ Awaits(t, P, a, d, key, i)
            /\ w = InsertHere(t, key, i, v, prev)
        BY <3>2, <3>4
      <3> HIDE DEF i, prev, w
      <3> QED
        BY <3>3, <3>5, <3>6, EndHere
    <2>2. CASE p.node # NIL
      <3> DEFINE n == p.node
      <3>1. Arc(t, {}, {}, a, d) /\ n = Target(t, a, d)
            /\ P[n] = First(key, p.i) /\ (t.mem[n].kind = "leaf" => p.i = Len(key))
        BY <1>4, <2>2 DEF Stands
      <3>2. n \in DOMAIN t.mem
        <4> HIDE DEF n
        <4> QED
          BY <3>1, ArcFacts
      <3>3. Kind(t, n) = t.mem[n].kind
        BY <3>2 DEF Kind
      <3>4. t.mem[n].kind \in Branch \cup {"edge", "leaf"}
        <4>1. Sound(t.mem[n])
          BY <3>2 DEF Forest, Stock
        <4> QED
          BY <4>1 DEF Sound
      <3>5. CASE t.mem[n].kind = "edge"
        <4>1. key \notin DOMAIN M /\ ~EdgePassed(t, key, p)
          BY <1>2, <1>3, <3>3, <3>5 DEF Ends
        <4>2. w = AtEdge(t, key, v, p)
          BY <3>3, <3>5 DEF At, Branch
        <4> HIDE DEF w
        <4> QED
          BY <1>2, <3>2, <3>5, <4>1, <4>2, EdgeHolds
      <3>6. CASE t.mem[n].kind \in Branch
        <4>1. key \notin DOMAIN M /\ ~BranchPassed(t, key, p)
          BY <1>2, <1>3, <3>3, <3>6 DEF Ends, Branch
        <4>2. w = AtBranch(t, key, v, p)
          BY <3>3, <3>6 DEF At, Branch
        <4> HIDE DEF w
        <4> QED
          BY <1>2, <3>2, <3>6, <4>1, <4>2, BranchHolds
      <3>7. CASE t.mem[n].kind = "leaf"
        <4>1. w = ReplaceLeaf(t, n, v)
          BY <3>3, <3>7 DEF At, Branch
        <4>2. P[n] = key
          BY <3>1, <3>7, Whole
        <4> HIDE DEF w, n
        <4>3. Forest(w, P, {}, {}, {}, With(M, P[n], v))
          BY <3>2, <3>7, <4>1, ForestReplace
        <4> QED
          BY <4>2, <4>3 DEF Holds
      <3> QED
        BY <3>4, <3>5, <3>6, <3>7
    <2> QED
      BY <2>1, <2>2
  <1> HIDE DEF w, N
  <1>7. PICK Q : Forest(w, Q, {}, {}, {}, N)
    BY <1>6 DEF Holds
  <1>8. IsTree(w)
    BY <1>7 DEF Forest, Stock
  <1>9. IsTree(u) /\ u.mem = w.mem /\ u.strings = w.strings /\ u.root = w.root /\ u.out = NIL
    <2>1. w = [x \in {"mem", "strings", "root", "out"} |-> w[x]]
      BY <1>8 DEF IsTree
    <2> QED
      BY <1>1, <2>1 DEF IsTree
  <1>10. Forest(u, Q, {}, {}, {}, N)
    BY <1>7, <1>9, ForestOut
  <1> QED
    BY <1>9, <1>10 DEF Holds, N
-----------------------------------------------------------------------------
(* The inductive invariant: between calls the store is one tree, which     *)
(* holds a map from keys.                                                  *)

Keeps(t, P, M) ==
    /\ Forest(t, P, {}, {}, {}, M)
    /\ DOMAIN M \subseteq Keys
    /\ \A k \in DOMAIN M : M[k] \in Values
    /\ t.out = NIL

Inv == \E P, M : Keeps(tree, P, M)

\* No key is empty, and keys are labels.
LEMMA KeyFacts ==
    /\ \A key \in Keys : key \in Label /\ key # <<>> /\ Len(key) \in Nat /\ Len(key) <= KeySize
    /\ KeySize \in Nat
  BY KeyAssumption DEF Label

\* The empty tree holds the empty map.
LEMMA EmptyTree ==
    ASSUME NEW t, t = [mem |-> <<>>, strings |-> 0, root |-> NIL, out |-> NIL],
           NEW P, P = [n \in Nat |-> <<>>], NEW M, M = [k \in {} |-> NIL]
    PROVE  Keeps(t, P, M)
  <1>1. /\ IsTree(t) /\ t.mem = <<>> /\ t.strings = 0 /\ t.root = NIL /\ t.out = NIL
    BY DEF IsTree
  <1>2. DOMAIN t.mem = {} /\ t.mem = [n \in DOMAIN t.mem |-> t.mem[n]]
    <2>1. DOMAIN <<>> = {} /\ <<>> = [n \in {} |-> <<>>[n]]
      OBVIOUS
    <2> QED
      BY <1>1, <2>1
  <1>3. P \in [Nat -> Label] /\ P[NIL] = <<>>
    BY DEF Label, NIL
  <1>4. Stock(t, P, {}, {}, {})
    <2>1. IsFiniteSet(DOMAIN t.mem)
      BY <1>2, FS_EmptySet
    <2> QED
      BY <1>1, <1>2, <1>3, <2>1 DEF Stock
  <1>5. \A n, d : ~Arc(t, {}, {}, n, d)
    BY <1>1, <1>2 DEF Arc
  <1>6. Tied(t, P, {}, {}, {})
    BY <1>2, <1>5 DEF Tied
  <1>7. Counted(t)
    <2>1. Long(t) = {}
      BY <1>2 DEF Long
    <2> QED
      BY <1>1, <2>1, FS_EmptySet DEF Counted
  <1>8. Leafy(t, P, M)
    BY <1>2 DEF Leafy
  <1> QED
    BY <1>1, <1>4, <1>6, <1>7, <1>8 DEF Keeps, Forest

\* The invariant holds at the start
LEMMA TreeInit == Init => Inv
  <1> SUFFICES ASSUME Init
               PROVE  Inv
    OBVIOUS
  <1> DEFINE P == [n \in Nat |-> <<>>]
             M == [k \in {} |-> NIL]
  <1>1. tree = [mem |-> <<>>, strings |-> 0, root |-> NIL, out |-> NIL]
        /\ P = [n \in Nat |-> <<>>] /\ M = [k \in {} |-> NIL]
    BY DEF Init
  <1> HIDE DEF P, M
  <1>2. Keeps(tree, P, M)
    BY <1>1, EmptyTree
  <1> QED
    BY <1>2 DEF Inv

\* An insertion gives a tree that holds the map with the value of the key set.
LEMMA TreeInsert ==
    ASSUME NEW t, NEW P, NEW M, Keeps(t, P, M), NEW key \in Keys, NEW v \in Values,
           NEW u, u = Inserted(t, key, v), NEW N, N = With(M, key, v)
    PROVE  \E Q : Keeps(u, Q, N)
  <1>1. key \in Label /\ key # <<>> /\ <<>> \notin DOMAIN M
    BY KeyFacts DEF Keeps
  <1>2. Forest(t, P, {}, {}, {}, M)
    BY DEF Keeps
  <1>3. Holds(u, N) /\ u.out = NIL
    <2>1. Holds(u, With(M, key, v)) /\ u.out = NIL
      BY <1>1, <1>2, InsertedHolds
    <2> QED
      BY <2>1
  <1>4. PICK Q : Forest(u, Q, {}, {}, {}, N)
    BY <1>3 DEF Holds
  <1>5. DOMAIN N \subseteq Keys /\ \A k \in DOMAIN N : N[k] \in Values
    BY DEF Keeps, With
  <1> QED
    BY <1>3, <1>4, <1>5 DEF Keeps

\* and every insertion keeps it.
LEMMA TreeStep == Inv /\ [Next]_vars => Inv'
  <1> SUFFICES ASSUME Inv, [Next]_vars
               PROVE  Inv'
    OBVIOUS
  <1>1. PICK P, M : Keeps(tree, P, M)
    BY DEF Inv
  <1>2. ASSUME NEW key \in Keys, NEW v \in Values, Insert(key, v)
        PROVE  Inv'
    <2> DEFINE N == With(M, key, v)
               u == Inserted(tree, key, v)
    <2>1. u = Inserted(tree, key, v) /\ N = With(M, key, v)
      OBVIOUS
    <2>2. tree' = u
      BY <1>2 DEF Insert
    <2> HIDE DEF N, u
    <2>3. PICK Q : Keeps(u, Q, N)
      BY <1>1, <2>1, TreeInsert
    <2>4. Keeps(tree', Q, N)
      BY <2>2, <2>3
    <2> QED
      BY <2>4 DEF Inv
  <1>3. CASE UNCHANGED vars
    <2>1. tree' = tree
      BY <1>3 DEF vars
    <2> QED
      BY <2>1 DEF Inv
  <1> QED
    BY <1>2, <1>3 DEF Next

\* The branch and the edge have what the insertion relies on.
LEMMA TreeShape == Inv => Shape
  <1> SUFFICES ASSUME Inv
               PROVE  Shape
    OBVIOUS
  <1>1. PICK P, M : Keeps(tree, P, M)
    BY DEF Inv
  <1>2. Forest(tree, P, {}, {}, {}, M)
    BY <1>1 DEF Keeps
  <1> SUFFICES ASSUME NEW n \in DOMAIN tree.mem
               PROVE  LET node == tree.mem[n] IN
                      /\ node.kind = "edge" =>
                            /\ node.str # <<>>
                            /\ Kind(tree, node.next) \in Branch \cup {"leaf"}
                      /\ node.kind \in Branch =>
                            /\ Cardinality(DOMAIN node.entries) >= 2
                            /\ Immediate \in DOMAIN node.entries =>
                                  Kind(tree, node.entries[Immediate]) = "leaf"
                      /\ node.kind = "branch4" => Cardinality(DOMAIN node.entries) <= Cap4
                      /\ node.kind = "branch8" => Cardinality(DOMAIN node.entries) <= Cap8
                      /\ node.kind = "branch16" => Immediate \notin DOMAIN node.entries
    BY DEF Shape
  <1> DEFINE t == tree
             node == t.mem[n]
  <1>3. Forest(t, P, {}, {}, {}, M) /\ n \in DOMAIN t.mem /\ node = t.mem[n]
    BY <1>2
  <1>4. Sound(node)
    BY <1>2 DEF Forest, Stock
  <1> HIDE DEF t
  <1>5. ASSUME node.kind = "edge"
        PROVE  node.str # <<>> /\ Kind(t, node.next) \in Branch \cup {"leaf"}
    <2> DEFINE c == node.next
               s == node.str
    <2>1. t.mem[n].kind = "edge" /\ c = t.mem[n].next /\ s = t.mem[n].str
      BY <1>5
    <2> HIDE DEF c, s
    <2>2. s # <<>> /\ c \in DOMAIN t.mem /\ t.mem[c].kind \in Branch \cup {"leaf"}
      BY <1>3, <2>1, EdgeFacts
    <2> QED
      BY <2>2 DEF Kind, c, s
  <1>6. ASSUME node.kind \in Branch, Immediate \in DOMAIN node.entries
        PROVE  Kind(t, node.entries[Immediate]) = "leaf"
    <2> DEFINE d == Immediate
               c == node.entries[d]
    <2>1. t.mem[n].kind \in Branch /\ d \in DOMAIN t.mem[n].entries /\ c = t.mem[n].entries[d]
          /\ d = Immediate
      BY <1>6
    <2> HIDE DEF c, d, node
    <2>2. c \in DOMAIN t.mem /\ (d = Immediate => t.mem[c].kind = "leaf")
      BY <1>3, <2>1, BranchFacts
    <2>3. Kind(t, c) = "leaf"
      BY <2>1, <2>2 DEF Kind
    <2> QED
      BY <2>3 DEF c, d
  <1>7. node.kind \in Branch => Holding(node.kind, node.entries)
    <2> HIDE DEF node
    <2> QED
      BY <1>4 DEF Sound, Branch
  <1>8. /\ node.kind \in Branch => Cardinality(DOMAIN node.entries) >= 2
        /\ node.kind = "branch4" => Cardinality(DOMAIN node.entries) <= Cap4
        /\ node.kind = "branch8" => Cardinality(DOMAIN node.entries) <= Cap8
        /\ node.kind = "branch16" => Immediate \notin DOMAIN node.entries
    <2> HIDE DEF node
    <2> QED
      BY <1>7 DEF Holding, Branch
  <1> QED
    BY <1>5, <1>6, <1>8 DEF t

\* The pointers of a node, as the places where its references are.
LEMMA ChildrenAre ==
    ASSUME NEW t, NEW P, NEW M, Forest(t, P, {}, {}, {}, M)
    PROVE  /\ \A n \in DOMAIN t.mem : n # NIL /\ n \in Nat /\ Kind(t, n) = t.mem[n].kind
           /\ \A n \in DOMAIN t.mem : \A c : c \in Children(t, n) <=>
                 \E d : Has(t.mem[n], d) /\ c = [val |-> d, node |-> To(t.mem[n], d)]
           /\ \A n \in DOMAIN t.mem : \A d : Step(t, n, d) = Over(t.mem[n], d)
           /\ \A n : n \notin DOMAIN t.mem => Children(t, n) = {} /\ Kind(t, n) = "none"
  <1>1. Stock(t, P, {}, {}, {})
    BY DEF Forest
  <1>2. ASSUME NEW n \in DOMAIN t.mem
        PROVE  /\ n # NIL
               /\ \A c : c \in Children(t, n) <=>
                      \E d : Has(t.mem[n], d) /\ c = [val |-> d, node |-> To(t.mem[n], d)]
    <2>1. n # NIL /\ Kind(t, n) = t.mem[n].kind /\ Sound(t.mem[n])
      BY <1>1 DEF Stock, Kind
    <2> DEFINE node == t.mem[n]
    <2>2. Children(t, n) =
             CASE node.kind = "edge" -> {[val |-> Immediate, node |-> node.next]}
               [] node.kind \in Branch ->
                     {[val |-> d, node |-> node.entries[d]] : d \in DOMAIN node.entries}
               [] OTHER -> {}
      BY <2>1 DEF Children
    <2> HIDE DEF node
    <2>3. CASE node.kind = "edge"
      <3>1. Children(t, n) = {[val |-> Immediate, node |-> node.next]}
        BY <2>2, <2>3 DEF Branch
      <3>2. \A d : Has(node, d) <=> d = Immediate
        BY <2>3 DEF Has, Branch
      <3>3. \A d : To(node, d) = node.next
        BY <2>3 DEF To
      <3> QED
        BY <2>1, <3>1, <3>2, <3>3 DEF node
    <2>4. CASE node.kind \in Branch
      <3>1. Children(t, n) = {[val |-> d, node |-> node.entries[d]] : d \in DOMAIN node.entries}
        BY <2>2, <2>4 DEF Branch
      <3>2. /\ \A d : Has(node, d) <=> d \in DOMAIN node.entries
            /\ \A d : To(node, d) = node.entries[d]
        BY <2>4, BranchPointers
      <3> QED
        BY <2>1, <3>1, <3>2 DEF node
    <2>5. CASE node.kind = "leaf"
      <3>1. Children(t, n) = {}
        BY <2>2, <2>5 DEF Branch
      <3>2. \A d : ~Has(node, d)
        BY <2>5 DEF Has, Branch
      <3> QED
        BY <2>1, <3>1, <3>2 DEF node
    <2> QED
      BY <2>1, <2>3, <2>4, <2>5 DEF Sound, node
  <1>3. \A n \in DOMAIN t.mem : n # NIL /\ n \in Nat /\ Kind(t, n) = t.mem[n].kind
    BY <1>1 DEF Stock, Kind
  <1>4. \A n \in DOMAIN t.mem : \A d : Step(t, n, d) = Over(t.mem[n], d)
    BY <1>3 DEF Step, Over
  <1>5. \A n : n \notin DOMAIN t.mem => Children(t, n) = {} /\ Kind(t, n) = "none"
    BY DEF Children, Kind, Branch
  <1> QED
    BY <1>2, <1>3, <1>4, <1>5

\* The invariant gives each node one owner.
LEMMA TreeOwned == Inv => OwnedOnce
  <1> SUFFICES ASSUME Inv
               PROVE  OwnedOnce
    OBVIOUS
  <1>1. PICK P, M : Keeps(tree, P, M)
    BY DEF Inv
  <1>2. Forest(tree, P, {}, {}, {}, M)
    BY <1>1 DEF Keeps
  <1>3. Stock(tree, P, {}, {}, {}) /\ Tied(tree, P, {}, {}, {}) /\ Counted(tree)
    BY <1>2 DEF Forest
  <1>4. ASSUME NEW n \in DOMAIN tree.mem
        PROVE  /\ n # NIL
               /\ \A c : c \in Children(tree, n) <=>
                      \E d : Has(tree.mem[n], d) /\ c = [val |-> d, node |-> To(tree.mem[n], d)]
    <2> DEFINE t == tree
    <2>1. Forest(t, P, {}, {}, {}, M) /\ n \in DOMAIN t.mem
      BY <1>2
    <2> HIDE DEF t
    <2>2. /\ n # NIL
          /\ \A c : c \in Children(t, n) <=>
                 \E d : Has(t.mem[n], d) /\ c = [val |-> d, node |-> To(t.mem[n], d)]
      BY <2>1, ChildrenAre
    <2> QED
      BY <2>2 DEF t
  <1>5. \A r : r \in References <=>
           \E n, d : Arc(tree, {}, {}, n, d) /\ r = <<n, d, Target(tree, n, d)>>
    <2> TAKE r
    <2>1. r \in References <=>
             \/ \E n \in DOMAIN tree.mem : \E c \in Children(tree, n) : r = <<n, c.val, c.node>>
             \/ tree.root # NIL /\ r = <<NIL, Immediate, tree.root>>
      <3> DEFINE Out(n) == {<<n, c.val, c.node>> : c \in Children(tree, n)}
                 Root == IF tree.root = NIL THEN {} ELSE {<<NIL, Immediate, tree.root>>}
                 All == UNION {Out(n) : n \in DOMAIN tree.mem}
      <3>1. References = All \cup Root
        BY DEF References
      <3>2. \A n : r \in Out(n) <=> \E c \in Children(tree, n) : r = <<n, c.val, c.node>>
        OBVIOUS
      <3>3. r \in Root <=> tree.root # NIL /\ r = <<NIL, Immediate, tree.root>>
        OBVIOUS
      <3> HIDE DEF Out, Root
      <3>4. r \in All <=> \E n \in DOMAIN tree.mem : r \in Out(n)
        OBVIOUS
      <3> HIDE DEF All
      <3>5. r \in References <=> r \in All \/ r \in Root
        BY <3>1
      <3>6. (\E n \in DOMAIN tree.mem : r \in Out(n)) <=>
               \E n \in DOMAIN tree.mem : \E c \in Children(tree, n) : r = <<n, c.val, c.node>>
        BY <3>2
      <3> QED
        BY <3>3, <3>4, <3>5, <3>6
    <2>2. (\E n \in DOMAIN tree.mem : \E c \in Children(tree, n) : r = <<n, c.val, c.node>>)
          <=> \E n \in DOMAIN tree.mem : \E d :
                 Has(tree.mem[n], d) /\ r = <<n, d, To(tree.mem[n], d)>>
      <3>1. ASSUME NEW n \in DOMAIN tree.mem, NEW c \in Children(tree, n),
                   r = <<n, c.val, c.node>>
            PROVE  \E d : Has(tree.mem[n], d) /\ r = <<n, d, To(tree.mem[n], d)>>
        <4>1. PICK d : Has(tree.mem[n], d) /\ c = [val |-> d, node |-> To(tree.mem[n], d)]
          BY <1>4
        <4>2. c.val = d /\ c.node = To(tree.mem[n], d)
          BY <4>1
        <4> QED
          BY <3>1, <4>1, <4>2
      <3>2. ASSUME NEW n \in DOMAIN tree.mem, NEW d, Has(tree.mem[n], d),
                   r = <<n, d, To(tree.mem[n], d)>>
            PROVE  \E c \in Children(tree, n) : r = <<n, c.val, c.node>>
        <4> DEFINE c == [val |-> d, node |-> To(tree.mem[n], d)]
        <4>1. c \in Children(tree, n)
          BY <1>4, <3>2
        <4>2. c.val = d /\ c.node = To(tree.mem[n], d)
          OBVIOUS
        <4> HIDE DEF c
        <4> QED
          BY <3>2, <4>1, <4>2
      <3> QED
        BY <3>1, <3>2
    <2>3. ASSUME NEW n \in DOMAIN tree.mem, NEW d
          PROVE  /\ Arc(tree, {}, {}, n, d) <=> Has(tree.mem[n], d)
                 /\ Target(tree, n, d) = To(tree.mem[n], d)
      BY <1>4 DEF Arc, Target
    <2>4. ASSUME NEW n, n \notin DOMAIN tree.mem, NEW d
          PROVE  /\ Arc(tree, {}, {}, n, d) <=> n = NIL /\ d = Immediate /\ tree.root # NIL
                 /\ n = NIL => Target(tree, n, d) = tree.root
      BY <2>4 DEF Arc, Target
    <2>5. NIL \notin DOMAIN tree.mem
      BY <1>3 DEF Stock
    <2>6. (\E n, d : Arc(tree, {}, {}, n, d) /\ r = <<n, d, Target(tree, n, d)>>) <=>
             \/ \E n \in DOMAIN tree.mem : \E d :
                   Has(tree.mem[n], d) /\ r = <<n, d, To(tree.mem[n], d)>>
             \/ tree.root # NIL /\ r = <<NIL, Immediate, tree.root>>
      BY <2>3, <2>4, <2>5
    <2> QED
      BY <2>1, <2>2, <2>6
  <1>6. {r[3] : r \in References} = DOMAIN tree.mem
    <2>1. ASSUME NEW r \in References
          PROVE  r[3] \in DOMAIN tree.mem
      BY <1>3, <1>5 DEF Tied, Leads
    <2>2. ASSUME NEW c \in DOMAIN tree.mem
          PROVE  \E r \in References : r[3] = c
      <3>1. PICK n, d : Arc(tree, {}, {}, n, d) /\ Target(tree, n, d) = c
        BY <1>3 DEF Tied
      <3>2. <<n, d, c>> \in References
        BY <1>5, <3>1
      <3> QED
        BY <3>2
    <2> QED
      BY <2>1, <2>2
  <1>7. ASSUME NEW q \in References, NEW r \in References, q[3] = r[3]
        PROVE  q = r
    <2>1. PICK n, d : Arc(tree, {}, {}, n, d) /\ q = <<n, d, Target(tree, n, d)>>
      BY <1>5
    <2>2. PICK m, e : Arc(tree, {}, {}, m, e) /\ r = <<m, e, Target(tree, m, e)>>
      BY <1>5
    <2>3. Target(tree, n, d) = Target(tree, m, e)
      BY <1>7, <2>1, <2>2
    <2> QED
      BY <1>3, <2>1, <2>2, <2>3 DEF Tied
  <1>8. tree.strings = Cardinality({n \in Edges : Buffers(tree.mem[n].str) = 1})
    <2>1. {n \in Edges : Buffers(tree.mem[n].str) = 1} = Long(tree)
      <3>1. \A n \in DOMAIN tree.mem : Kind(tree, n) = tree.mem[n].kind
        BY DEF Kind
      <3> QED
        BY <3>1 DEF Edges, Long, Weight
    <2> QED
      BY <1>3, <2>1 DEF Counted
  <1> QED
    BY <1>6, <1>7, <1>8 DEF OwnedOnce

\* The invariant gives the types.
LEMMA TreeTyped == Inv => TypeOK
  <1> SUFFICES ASSUME Inv
               PROVE  TypeOK
    OBVIOUS
  <1>1. PICK P, M : Keeps(tree, P, M)
    BY DEF Inv
  <1>2. Forest(tree, P, {}, {}, {}, M) /\ tree.out = NIL
    BY <1>1 DEF Keeps
  <1>3. DOMAIN tree.mem \subseteq Nat \ {NIL} /\ \A n \in DOMAIN tree.mem : Sound(tree.mem[n])
    BY <1>2 DEF Forest, Stock
  <1>4. tree.strings \in Nat
    BY <1>2, ForestFacts
  <1>5. tree.root \in DOMAIN tree.mem \cup {NIL}
    <2>1. tree.root # NIL => Arc(tree, {}, {}, NIL, Immediate) /\ Target(tree, NIL, Immediate) = tree.root
      BY DEF Arc, Target
    <2>2. \A n, d : Arc(tree, {}, {}, n, d) => Target(tree, n, d) \in DOMAIN tree.mem
      BY <1>2 DEF Forest, Tied, Leads
    <2> QED
      BY <2>1, <2>2
  <1>6. ASSUME NEW n \in DOMAIN tree.mem
        PROVE  LET node == tree.mem[n] IN
               \/ node \in [kind : {"leaf"}, value : Values]
               \/ node \in [kind : {"edge"}, str : Seq(Nibble), next : Nat]
               \/ /\ node.kind \in Branch
                  /\ DOMAIN node.entries \subseteq Nibble \cup {Immediate}
    <2> DEFINE node == tree.mem[n]
    <2>1. Sound(node)
      BY <1>3
    <2>2. CASE node.kind = "leaf"
      <3> HIDE DEF node
      <3>1. node = [kind |-> "leaf", value |-> node.value] /\ node.value \in Values
        BY <2>1, <2>2 DEF Sound, Branch
      <3>2. node \in [kind : {"leaf"}, value : Values]
        BY <3>1
      <3> QED
        BY <3>2 DEF node
    <2>3. CASE node.kind = "edge"
      <3> DEFINE t == tree
                 c == node.next
                 s == node.str
      <3>1. n \in DOMAIN t.mem /\ t.mem[n].kind = "edge" /\ c = t.mem[n].next
            /\ Forest(t, P, {}, {}, {}, M) /\ DOMAIN t.mem \subseteq Nat
        BY <1>2, <1>3, <2>3
      <3>2. node = [kind |-> "edge", str |-> s, next |-> c] /\ s \in Label
        <4> HIDE DEF node
        <4> QED
          BY <2>1, <2>3 DEF Sound, Branch
      <3> HIDE DEF t, c, s
      <3>3. c \in DOMAIN t.mem
        BY <3>1, EdgeFacts
      <3>4. c \in Nat
        BY <3>1, <3>3
      <3> HIDE DEF node
      <3>5. node \in [kind : {"edge"}, str : Seq(Nibble), next : Nat]
        BY <3>2, <3>4 DEF Label
      <3> QED
        BY <3>5 DEF node
    <2>4. CASE node.kind \in Branch
      <3> HIDE DEF node
      <3>1. DOMAIN node.entries \subseteq Nibble \cup {Immediate}
        BY <2>1, <2>4 DEF Sound, Branch, Holding
      <3> QED
        BY <2>4, <3>1 DEF node
    <2> QED
      BY <2>1, <2>2, <2>3, <2>4 DEF Sound
  <1> QED
    BY <1>2, <1>4, <1>5, <1>6 DEF TypeOK

\* Every node in the store is a leaf, an edge or a branch with fields of its
\* kind, whatever sequence of calls to radix_tree_insert made it.
THEOREM TreeTypeOK == Spec => []TypeOK
  <1> QED
    BY TreeInit, TreeStep, TreeTyped, PTL DEF Spec

\* What _radix_tree_insert relies on without testing it holds in every tree it
\* builds: no edge is empty or leads to an edge, every branch has two entries
\* or more and no more than its kind holds, and an immediate entry is a leaf.
THEOREM ShapeKept == Spec => []Shape
  <1> QED
    BY TreeInit, TreeStep, TreeShape, PTL DEF Spec

\* Whatever is inserted, every allocated node is referred to from one place,
\* nothing refers to a removed node, and the string buffers in use are those
\* of the long edges: splits and growth free what they replace, exactly once.
THEOREM NodesOwnedOnce == Spec => []OwnedOnce
  <1> QED
    BY TreeInit, TreeStep, TreeOwned, PTL DEF Spec
-----------------------------------------------------------------------------
(* What the tree holds. *)

\* A path followed by the nibbles of a pointer.
LEMMA Joins ==
    ASSUME NEW c \in Label, NEW p \in Label, NEW s \in Label, Extends(c, p, s)
    PROVE  c = p \o s
  <1> DEFINE q == p \o s
  <1>1. /\ q \in Label /\ Len(q) = Len(p) + Len(s)
        /\ \A j \in 1 .. Len(p) + Len(s) : q[j] = IF j <= Len(p) THEN p[j] ELSE s[j - Len(p)]
    BY ConcatProperties DEF Label
  <1>2. Len(p) \in Nat /\ Len(s) \in Nat
    BY Whole
  <1> HIDE DEF q
  <1>3. Extends(q, p, s)
    <2>1. ASSUME NEW j \in 1 .. Len(p)
          PROVE  q[j] = p[j]
      BY <1>1, <1>2
    <2>2. ASSUME NEW j \in 1 .. Len(s)
          PROVE  q[Len(p) + j] = s[j]
      <3>1. Len(p) + j \in 1 .. Len(p) + Len(s) /\ ~(Len(p) + j <= Len(p)) /\ Len(p) + j - Len(p) = j
        BY <1>2
      <3> QED
        BY <1>1, <3>1
    <2> QED
      BY <1>1, <2>1, <2>2 DEF Extends
  <1>4. c = q
    BY <1>1, <1>3, SameExtension
  <1> QED
    BY <1>4 DEF q

\* The labels of nodes are labels.
LEMMA LabelFacts ==
    ASSUME NEW t, NEW P, NEW M, Forest(t, P, {}, {}, {}, M)
    PROVE  \A x \in DOMAIN t.mem : P[x] \in Label /\ Len(P[x]) \in Nat
  <1>1. DOMAIN t.mem \subseteq Nat \ {NIL} /\ P \in [Nat -> Label]
    BY DEF Forest, Stock
  <1>2. \A x \in DOMAIN t.mem : P[x] \in Label
    BY <1>1
  <1> QED
    BY <1>2, Whole

\* A node that is not the root is referred to from another.
LEMMA ParentFacts ==
    ASSUME NEW t, NEW P, NEW M, Forest(t, P, {}, {}, {}, M),
           NEW c \in DOMAIN t.mem, c # t.root
    PROVE  \E n \in DOMAIN t.mem, d \in Nibble \cup {Immediate} :
              /\ Has(t.mem[n], d) /\ To(t.mem[n], d) = c
              /\ t.mem[n].kind # "leaf" /\ Len(P[n]) <= Len(P[c])
              /\ t.mem[c].kind # "leaf" => Len(P[n]) < Len(P[c])
  <1>1. \E n, d : Arc(t, {}, {}, n, d) /\ Target(t, n, d) = c
    BY DEF Forest, Tied
  <1>2. PICK n, d : Arc(t, {}, {}, n, d) /\ Target(t, n, d) = c
    BY <1>1
  <1>3. n # NIL
    BY <1>2 DEF Target
  <1>4. n \in DOMAIN t.mem /\ Has(t.mem[n], d) /\ c = To(t.mem[n], d)
    BY <1>2, <1>3 DEF Arc, Target
  <1>5. /\ d \in Nibble \cup {Immediate} /\ t.mem[n].kind # "leaf"
    BY <1>4, PointerFacts
  <1>8. \A x \in DOMAIN t.mem : P[x] \in Label /\ Len(P[x]) \in Nat
    BY LabelFacts
  <1>6. Len(P[n]) <= Len(P[c])
    BY <1>4, <1>5, <1>8, PointerFacts
  <1>7. Deeper(t, P, n, c)
    BY <1>4, PointerFacts
  <1> QED
    BY <1>4, <1>5, <1>6, <1>7 DEF Deeper

\* The nodes with their paths.
Paths(t, P) == {[path |-> P[n], node |-> n] : n \in DOMAIN t.mem \cup {NIL}}

\* What lies below the entries of a level.
Lower(t, S) ==
    UNION {{[path |-> e.path \o Step(t, e.node, c.val), node |-> c.node] :
               c \in Children(t, e.node)} : e \in S}

\* The entries of one level lead to the labelled nodes of the next.
LEMMA LowerPaths ==
    ASSUME NEW t, NEW P, NEW M, Forest(t, P, {}, {}, {}, M), NEW S \in SUBSET Paths(t, P)
    PROVE  /\ Lower(t, S) \in SUBSET Paths(t, P)
           /\ \A n \in DOMAIN t.mem, d \in Nibble \cup {Immediate} :
                 [path |-> P[n], node |-> n] \in S /\ Has(t.mem[n], d) =>
                    [path |-> P[To(t.mem[n], d)], node |-> To(t.mem[n], d)] \in Lower(t, S)
  <1> DEFINE Below(e) == {[path |-> e.path \o Step(t, e.node, c.val), node |-> c.node] :
                             c \in Children(t, e.node)}
  <1>1. ASSUME NEW n \in DOMAIN t.mem, NEW d, Has(t.mem[n], d), NEW c, c = To(t.mem[n], d)
        PROVE  c \in DOMAIN t.mem /\ P[c] = P[n] \o Step(t, n, d)
    <2> DEFINE s == Over(t.mem[n], d)
    <2>1. s = Over(t.mem[n], d)
      OBVIOUS
    <2>2. c \in DOMAIN t.mem /\ P[n] \in Label /\ P[c] \in Label /\ Extends(P[c], P[n], s)
          /\ d \in Nibble \cup {Immediate}
      BY <1>1, PointerFacts
    <2>3. s \in Label
      <3>1. Sound(t.mem[n])
        BY DEF Forest, Stock
      <3>2. CASE t.mem[n].kind = "edge"
        BY <3>1, <3>2 DEF Sound, Over, Branch, Label
      <3>3. CASE t.mem[n].kind # "edge" /\ d = Immediate
        BY <3>3 DEF Over, Label
      <3>4. CASE t.mem[n].kind # "edge" /\ d # Immediate
        <4>1. d \in Nibble
          BY <2>2, <3>4
        <4> QED
          BY <3>4, <4>1 DEF Over, Label
      <3> QED
        BY <3>2, <3>3, <3>4
    <2>4. Step(t, n, d) = s
      BY ChildrenAre
    <2> HIDE DEF s
    <2>5. P[c] = P[n] \o s
      BY <2>2, <2>3, Joins
    <2> QED
      BY <2>2, <2>4, <2>5
  <1>2. ASSUME NEW e \in S, NEW x \in Below(e)
        PROVE  x \in Paths(t, P)
    <2>1. PICK n \in DOMAIN t.mem \cup {NIL} : e = [path |-> P[n], node |-> n]
      BY DEF Paths
    <2>2. e.path = P[n] /\ e.node = n
      BY <2>1
    <2>3. PICK y \in Children(t, n) :
             x = [path |-> P[n] \o Step(t, n, y.val), node |-> y.node]
      BY <1>2, <2>2
    <2>4. n \in DOMAIN t.mem
      BY <2>3, ChildrenAre
    <2>5. PICK d : Has(t.mem[n], d) /\ y = [val |-> d, node |-> To(t.mem[n], d)]
      BY <2>3, <2>4, ChildrenAre
    <2> DEFINE c == To(t.mem[n], d)
    <2>6. c \in DOMAIN t.mem /\ P[c] = P[n] \o Step(t, n, d)
      BY <1>1, <2>4, <2>5
    <2>7. y.val = d /\ y.node = c
      BY <2>5
    <2> HIDE DEF c
    <2>8. x = [path |-> P[c], node |-> c]
      BY <2>3, <2>6, <2>7
    <2> QED
      BY <2>6, <2>8 DEF Paths
  <1>3. ASSUME NEW n \in DOMAIN t.mem, NEW d, Has(t.mem[n], d), NEW c, c = To(t.mem[n], d),
               NEW e, e = [path |-> P[n], node |-> n]
        PROVE  [path |-> P[c], node |-> c] \in Below(e)
    <2> DEFINE y == [val |-> d, node |-> c]
    <2>1. y \in Children(t, n)
      BY <1>3, ChildrenAre
    <2>2. e.path = P[n] /\ e.node = n /\ y.val = d /\ y.node = c
      BY <1>3
    <2>3. P[c] = P[n] \o Step(t, n, d)
      BY <1>1, <1>3
    <2>4. [path |-> e.path \o Step(t, e.node, y.val), node |-> y.node] = [path |-> P[c], node |-> c]
      BY <2>2, <2>3
    <2> HIDE DEF y
    <2>5. y \in Children(t, e.node)
      BY <2>1, <2>2
    <2>6. [path |-> e.path \o Step(t, e.node, y.val), node |-> y.node] \in Below(e)
      BY <2>5
    <2> QED
      BY <2>4, <2>6
  <1>4. Lower(t, S) = UNION {Below(e) : e \in S}
    BY DEF Lower
  <1> HIDE DEF Below
  <1>5. Lower(t, S) \in SUBSET Paths(t, P)
    BY <1>2, <1>4
  <1>6. ASSUME NEW n \in DOMAIN t.mem, NEW d \in Nibble \cup {Immediate},
               [path |-> P[n], node |-> n] \in S, Has(t.mem[n], d)
        PROVE  [path |-> P[To(t.mem[n], d)], node |-> To(t.mem[n], d)] \in Lower(t, S)
    <2> DEFINE c == To(t.mem[n], d)
               e == [path |-> P[n], node |-> n]
               x == [path |-> P[c], node |-> c]
    <2>1. x \in Below(e)
      BY <1>3, <1>6
    <2>2. e \in S
      BY <1>6
    <2> HIDE DEF e, x
    <2>3. x \in UNION {Below(f) : f \in S}
      BY <2>1, <2>2
    <2> QED
      BY <1>4, <2>3 DEF x
  <1> QED
    BY <1>5, <1>6

Leaves(t, S) ==
    {[key |-> e.path, value |-> t.mem[e.node].value] :
        e \in {e \in S : Kind(t, e.node) = "leaf"}}

Top(t) == {[path |-> <<>>, node |-> t.root]}

\* The levels that the contents are gathered from.
LEMMA Levels ==
    ASSUME NEW t, NEW P, NEW M, Forest(t, P, {}, {}, {}, M)
    PROVE  \E f : /\ f[0] = Top(t)
                  /\ \A k \in 1 .. KeySize + 1 : f[k] = Lower(t, f[k - 1])
                  /\ \A k \in 0 .. KeySize + 1 : f[k] \in SUBSET Paths(t, P)
                  /\ Contents(t) = Leaves(t, UNION {f[k] : k \in 0 .. KeySize + 1})
  <1> DEFINE n == KeySize + 1
             D == SUBSET Paths(t, P)
             step == [S \in D |-> Lower(t, S)]
             Eq(f) == f = [k \in 0 .. KeySize + 1 |->
                              IF k = 0 THEN {[path |-> <<>>, node |-> t.root]}
                              ELSE UNION {{[path |-> e.path \o Step(t, e.node, c.val), node |-> c.node] :
                                              c \in Children(t, e.node)} : e \in f[k - 1]}]
             level == CHOOSE f : Eq(f)
  <1>1. n \in Nat
    BY KeyFacts
  <1>2. step \in [D -> D]
    <2>1. \A S \in D : Lower(t, S) \in D
      BY LowerPaths
    <2> HIDE DEF D
    <2> QED
      BY <2>1
  <1>3. Top(t) \in D
    <2> DEFINE r == t.root
    <2>1. P[NIL] = <<>>
      BY DEF Forest, Stock
    <2>2. r \in DOMAIN t.mem \cup {NIL} /\ P[r] = <<>>
      <3>1. CASE r = NIL
        BY <2>1, <3>1
      <3>2. CASE r # NIL
        <4>1. Arc(t, {}, {}, NIL, Immediate) /\ Target(t, NIL, Immediate) = r
          BY <3>2 DEF Arc, Target
        <4> HIDE DEF r
        <4>2. r \in DOMAIN t.mem /\ P[r] = <<>>
          BY <4>1, ArcFacts
        <4> QED
          BY <4>2
      <3> QED
        BY <3>1, <3>2
    <2>3. [path |-> <<>>, node |-> r] = [path |-> P[r], node |-> r]
      BY <2>2
    <2>4. [path |-> <<>>, node |-> r] \in Paths(t, P)
      BY <2>2, <2>3 DEF Paths
    <2> QED
      BY <2>4 DEF Top
  <1>4. PICK f \in [0 .. n -> D] :
           f[0] = Top(t) /\ \A k \in 1 .. n : f[k] = step[f[k - 1]]
    <2> DEFINE x == Top(t)
    <2>1. x \in D
      BY <1>3
    <2> HIDE DEF step, n, x, D
    <2>2. HasRounds(D, step, x, n)
      BY <1>1, <1>2, <2>1, RoundsExist
    <2> QED
      BY <2>2 DEF HasRounds, x
  <1>5. \A k \in 0 .. n : f[k] = IF k = 0 THEN Top(t) ELSE Lower(t, f[k - 1])
    <2> TAKE k \in 0 .. n
    <2>1. CASE k = 0
      BY <1>4, <2>1
    <2>2. CASE k # 0
      <3>1. k \in 1 .. n /\ k - 1 \in 0 .. n
        BY <1>1, <2>2
      <3> HIDE DEF D, n
      <3>2. f[k - 1] \in D
        BY <3>1
      <3>3. step[f[k - 1]] = Lower(t, f[k - 1])
        BY <3>2
      <3> HIDE DEF step
      <3> QED
        BY <1>4, <2>2, <3>1, <3>3
    <2> QED
      BY <2>1, <2>2
  <1>6. Eq(f)
    <2>1. f = [k \in 0 .. n |-> IF k = 0 THEN Top(t) ELSE Lower(t, f[k - 1])]
      <3> HIDE DEF n, D
      <3> QED
        BY <1>5
    <2> QED
      BY <2>1 DEF Top, Lower
  <1>7. Eq(level)
    BY <1>6
  <1>8. Contents(t) = Leaves(t, UNION {level[k] : k \in 0 .. KeySize + 1})
    BY DEF Contents, Leaves
  <1>9. level = [k \in 0 .. n |-> IF k = 0 THEN Top(t) ELSE Lower(t, level[k - 1])]
    <2>1. Eq(level) => level = [k \in 0 .. n |-> IF k = 0 THEN Top(t) ELSE Lower(t, level[k - 1])]
      <3> HIDE DEF level
      <3> QED
        BY DEF Top, Lower
    <2> QED
      BY <1>7, <2>1
  <1> HIDE DEF level, Eq, step
  <1>10. level[0] = Top(t) /\ \A k \in 1 .. n : level[k] = Lower(t, level[k - 1])
    <2>1. 0 \in 0 .. n
      BY <1>1
    <2>2. level[0] = Top(t)
      <3> HIDE DEF n
      <3> QED
        BY <1>9, <2>1
    <2>3. ASSUME NEW k \in 1 .. n
          PROVE  level[k] = Lower(t, level[k - 1])
      <3>1. k \in 0 .. n /\ k # 0
        BY <1>1
      <3> HIDE DEF n
      <3> QED
        BY <1>9, <3>1
    <2> QED
      BY <2>2, <2>3
  <1> DEFINE K == {k \in 0 .. n : level[k] \in D}
  <1>11. 0 \in K
    BY <1>1, <1>3, <1>10
  <1>12. ASSUME NEW k \in 1 .. n, k - 1 \in K
         PROVE  k \in K
    <2>1. level[k] = Lower(t, level[k - 1]) /\ level[k - 1] \in D
      BY <1>10, <1>12
    <2>2. level[k] \in D
      BY <2>1, LowerPaths
    <2> QED
      BY <2>2
  <1>13. \A k \in 0 .. n : level[k] \in D
    <2> HIDE DEF n, K, D
    <2>1. \A k \in 0 .. n : k \in K
      BY <1>1, <1>11, <1>12, Counting
    <2> QED
      BY <2>1 DEF K
  <1> QED
    BY <1>8, <1>10, <1>13

\* The contents of a tree are the map that it holds.
LEMMA ContentsAre ==
    ASSUME NEW t, NEW P, NEW M, Keeps(t, P, M)
    PROVE  \A k, v : [key |-> k, value |-> v] \in Contents(t) <=> k \in DOMAIN M /\ M[k] = v
  <1>1. Forest(t, P, {}, {}, {}, M) /\ DOMAIN M \subseteq Keys
    BY DEF Keeps
  <1>2. PICK f : /\ f[0] = Top(t)
                 /\ \A k \in 1 .. KeySize + 1 : f[k] = Lower(t, f[k - 1])
                 /\ \A k \in 0 .. KeySize + 1 : f[k] \in SUBSET Paths(t, P)
                 /\ Contents(t) = Leaves(t, UNION {f[k] : k \in 0 .. KeySize + 1})
    BY <1>1, Levels
  <1>3. KeySize \in Nat /\ \A x \in DOMAIN t.mem : P[x] \in Label /\ Len(P[x]) \in Nat
    BY <1>1, KeyFacts, LabelFacts
  <1>4. /\ \A n \in DOMAIN t.mem : t.mem[n].kind = "leaf" =>
              P[n] \in DOMAIN M /\ M[P[n]] = t.mem[n].value
        /\ \A k \in DOMAIN M : \E n \in DOMAIN t.mem : t.mem[n].kind = "leaf" /\ P[n] = k
        /\ P[NIL] = <<>> /\ NIL \notin DOMAIN t.mem
    BY <1>1 DEF Forest, Leafy, Stock
  <1> DEFINE Entry(n) == [path |-> P[n], node |-> n]
             all == UNION {f[k] : k \in 0 .. KeySize + 1}
  <1>5. t.root \in DOMAIN t.mem => Entry(t.root) \in f[0]
    <2>1. ASSUME t.root \in DOMAIN t.mem
          PROVE  P[t.root] = <<>>
      <3> DEFINE r == t.root
      <3>1. Arc(t, {}, {}, NIL, Immediate) /\ Target(t, NIL, Immediate) = r
        BY <1>4, <2>1 DEF Arc, Target
      <3> HIDE DEF r
      <3>2. P[r] = <<>>
        BY <1>1, <3>1, ArcFacts
      <3> QED
        BY <3>2 DEF r
    <2> QED
      BY <1>2, <2>1 DEF Top
  <1>6. ASSUME NEW k \in 0 .. KeySize, NEW n \in DOMAIN t.mem, Entry(n) \in f[k],
               NEW d \in Nibble \cup {Immediate}, Has(t.mem[n], d),
               NEW c, c = To(t.mem[n], d)
        PROVE  Entry(c) \in f[k + 1]
    <2>1. k + 1 \in 1 .. KeySize + 1 /\ k \in 0 .. KeySize + 1 /\ k + 1 - 1 = k
      BY <1>3
    <2>2. f[k] \in SUBSET Paths(t, P) /\ f[k + 1] = Lower(t, f[k])
      BY <1>2, <2>1
    <2>3. [path |-> P[To(t.mem[n], d)], node |-> To(t.mem[n], d)] \in Lower(t, f[k])
      BY <1>1, <1>6, <2>2, LowerPaths
    <2> QED
      BY <1>6, <2>2, <2>3
  <1> DEFINE Placed(n) == \E k \in 0 .. Len(P[n]) : Entry(n) \in f[k]
             lost == {n \in DOMAIN t.mem : t.mem[n].kind # "leaf" /\ Len(P[n]) <= KeySize /\ ~Placed(n)}
  <1>7. lost = {}
    <2> SUFFICES ASSUME lost # {}
                 PROVE  FALSE
      OBVIOUS
    <2> DEFINE lengths == {Len(P[n]) : n \in lost}
    <2>1. lengths \in SUBSET Nat /\ lengths # {}
      BY <1>3
    <2> HIDE DEF lengths
    <2>2. PICK l \in lengths : \A m \in lengths : l <= m
      BY <2>1, Smallest
    <2>3. PICK n \in lost : Len(P[n]) = l
      BY <2>2 DEF lengths
    <2>4. \A m \in lost : Len(P[n]) <= Len(P[m])
      BY <2>2, <2>3 DEF lengths
    <2>5. n \in DOMAIN t.mem /\ t.mem[n].kind # "leaf" /\ Len(P[n]) <= KeySize /\ ~Placed(n)
      BY <2>3
    <2>6. n # t.root
      <3>1. ASSUME n = t.root PROVE FALSE
        <4>1. 0 \in 0 .. Len(P[n])
          BY <1>3, <2>5
        <4> QED
          BY <1>5, <2>5, <3>1, <4>1
      <3> QED
        BY <3>1
    <2>7. PICK m \in DOMAIN t.mem, d \in Nibble \cup {Immediate} :
             /\ Has(t.mem[m], d) /\ To(t.mem[m], d) = n
             /\ t.mem[m].kind # "leaf" /\ Len(P[m]) < Len(P[n])
      BY <1>1, <2>5, <2>6, ParentFacts
    <2>8. Len(P[m]) \in Nat /\ Len(P[n]) \in Nat
      BY <1>3, <2>5
    <2>9. m \notin lost
      BY <2>4, <2>7, <2>8
    <2>10. Len(P[m]) <= KeySize
      BY <1>3, <2>5, <2>7, <2>8
    <2>11. PICK k \in 0 .. Len(P[m]) : Entry(m) \in f[k]
      BY <2>7, <2>9, <2>10
    <2>12. k \in 0 .. KeySize /\ k + 1 \in 0 .. Len(P[n])
      BY <1>3, <2>7, <2>8, <2>10
    <2>13. Entry(n) \in f[k + 1]
      BY <1>6, <2>7, <2>11, <2>12
    <2> QED
      BY <2>5, <2>12, <2>13
  <1> HIDE DEF Entry
  <1>8. ASSUME NEW n \in DOMAIN t.mem, t.mem[n].kind = "leaf"
        PROVE  Entry(n) \in all
    <2>1. P[n] # <<>> /\ Len(P[n]) <= KeySize /\ Len(P[n]) \in Nat
      BY <1>1, <1>3, <1>4, <1>8, KeyFacts
    <2>2. n # t.root
      <3>1. ASSUME n = t.root PROVE FALSE
        <4> DEFINE r == t.root
        <4>1. Arc(t, {}, {}, NIL, Immediate) /\ Target(t, NIL, Immediate) = r
          BY <1>4, <3>1 DEF Arc, Target
        <4> HIDE DEF r
        <4>2. P[r] = <<>>
          BY <1>1, <4>1, ArcFacts
        <4> QED
          BY <2>1, <3>1, <4>2 DEF r
      <3> QED
        BY <3>1
    <2>3. PICK m \in DOMAIN t.mem, d \in Nibble \cup {Immediate} :
             /\ Has(t.mem[m], d) /\ To(t.mem[m], d) = n
             /\ t.mem[m].kind # "leaf" /\ Len(P[m]) <= Len(P[n])
      BY <1>1, <2>2, ParentFacts
    <2>4. Len(P[m]) <= KeySize /\ Len(P[m]) \in Nat
      BY <1>3, <2>1, <2>3
    <2>5. PICK k \in 0 .. Len(P[m]) : Entry(m) \in f[k]
      BY <1>7, <2>3, <2>4
    <2>6. k \in 0 .. KeySize /\ k + 1 \in 0 .. KeySize + 1
      BY <1>3, <2>4
    <2>7. Entry(n) \in f[k + 1]
      BY <1>6, <2>3, <2>5, <2>6
    <2> QED
      BY <2>6, <2>7
  <1>9. ASSUME NEW e \in all
        PROVE  \E n \in DOMAIN t.mem \cup {NIL} : e = Entry(n)
    <2>1. PICK k \in 0 .. KeySize + 1 : e \in f[k]
      OBVIOUS
    <2>2. e \in Paths(t, P)
      BY <1>2, <2>1
    <2> QED
      BY <2>2 DEF Paths, Entry
  <1>10. \A n : Entry(n).path = P[n] /\ Entry(n).node = n
    BY DEF Entry
  <1>11. Contents(t) = Leaves(t, all)
    BY <1>2
  <1> HIDE DEF all
  <1>12. ASSUME NEW k, NEW v, [key |-> k, value |-> v] \in Contents(t)
         PROVE  k \in DOMAIN M /\ M[k] = v
    <2>1. PICK e \in all : /\ Kind(t, e.node) = "leaf"
                           /\ [key |-> k, value |-> v] = [key |-> e.path, value |-> t.mem[e.node].value]
      BY <1>11, <1>12 DEF Leaves
    <2>2. PICK n \in DOMAIN t.mem \cup {NIL} : e = Entry(n)
      BY <1>9
    <2>3. n \in DOMAIN t.mem /\ t.mem[n].kind = "leaf"
      BY <1>10, <2>1, <2>2 DEF Kind
    <2>4. k = P[n] /\ v = t.mem[n].value
      <3>1. [key |-> k, value |-> v].key = k /\ [key |-> k, value |-> v].value = v
        OBVIOUS
      <3> QED
        BY <1>10, <2>1, <2>2, <3>1
    <2> QED
      BY <1>4, <2>3, <2>4
  <1>13. ASSUME NEW k \in DOMAIN M
         PROVE  [key |-> k, value |-> M[k]] \in Contents(t)
    <2>1. PICK n \in DOMAIN t.mem : t.mem[n].kind = "leaf" /\ P[n] = k
      BY <1>4
    <2> DEFINE e == Entry(n)
    <2>2. e \in all /\ e.path = k /\ e.node = n /\ M[k] = t.mem[n].value
      BY <1>4, <1>8, <1>10, <2>1
    <2>3. Kind(t, n) = "leaf"
      BY <2>1 DEF Kind
    <2> HIDE DEF e
    <2>4. [key |-> e.path, value |-> t.mem[e.node].value] \in Leaves(t, all)
      BY <2>2, <2>3 DEF Leaves
    <2> QED
      BY <1>11, <2>2, <2>4
  <1> QED
    BY <1>12, <1>13

-----------------------------------------------------------------------------
(* The tree is a map. *)

Stores(t) ==
    LET contents == Contents(t)
    IN  [key \in Keys |->
            IF \E v \in Values : [key |-> key, value |-> v] \in contents
            THEN CHOOSE v \in Values : [key |-> key, value |-> v] \in contents
            ELSE NULL]

\* A map from some of the keys, as one from all of them.
Total(M) == [key \in Keys |-> IF key \in DOMAIN M THEN M[key] ELSE NULL]

\* What the tree stores is the map of the invariant.
LEMMA StoresAre ==
    ASSUME NEW t, NEW P, NEW M, Keeps(t, P, M)
    PROVE  Stores(t) = Total(M)
  <1>1. \A k, v : [key |-> k, value |-> v] \in Contents(t) <=> k \in DOMAIN M /\ M[k] = v
    BY ContentsAre
  <1>2. \A k \in DOMAIN M : M[k] \in Values
    BY DEF Keeps
  <1> DEFINE Value(key) ==
                IF \E v \in Values : [key |-> key, value |-> v] \in Contents(t)
                THEN CHOOSE v \in Values : [key |-> key, value |-> v] \in Contents(t)
                ELSE NULL
  <1>3. ASSUME NEW key \in Keys
        PROVE  Value(key) = IF key \in DOMAIN M THEN M[key] ELSE NULL
    <2>1. CASE key \in DOMAIN M
      <3>1. M[key] \in Values /\ [key |-> key, value |-> M[key]] \in Contents(t)
        BY <1>1, <1>2, <2>1
      <3> DEFINE w == CHOOSE v \in Values : [key |-> key, value |-> v] \in Contents(t)
      <3>2. w \in Values /\ [key |-> key, value |-> w] \in Contents(t)
        BY <3>1
      <3>3. Value(key) = w
        BY <3>1
      <3> HIDE DEF w, Value
      <3>4. w = M[key]
        BY <1>1, <3>2
      <3> QED
        BY <2>1, <3>3, <3>4
    <2>2. CASE key \notin DOMAIN M
      <3>1. ~ \E v \in Values : [key |-> key, value |-> v] \in Contents(t)
        BY <1>1, <2>2
      <3> QED
        BY <2>2, <3>1
    <2> QED
      BY <2>1, <2>2
  <1>4. Stores(t) = [key \in Keys |-> Value(key)]
    BY DEF Stores
  <1> HIDE DEF Value
  <1> QED
    BY <1>3, <1>4 DEF Total

\* An insertion sets the value of its key and changes no other.
LEMMA TotalWith ==
    ASSUME NEW M, NEW key \in Keys, NEW v
    PROVE  Total(With(M, key, v)) = [Total(M) EXCEPT ![key] = v]
  BY DEF Total, With

\* The empty tree is the empty map
LEMMA MapInit == Init => Map!Init
  <1> SUFFICES ASSUME Init
               PROVE  Map!Init
    OBVIOUS
  <1> DEFINE P == [n \in Nat |-> <<>>]
             M == [k \in {} |-> NIL]
  <1>1. tree = [mem |-> <<>>, strings |-> 0, root |-> NIL, out |-> NIL] /\ last = NULL
        /\ P = [n \in Nat |-> <<>>] /\ M = [k \in {} |-> NIL] /\ DOMAIN M = {}
    BY DEF Init
  <1> HIDE DEF P, M
  <1>2. Keeps(tree, P, M)
    BY <1>1, EmptyTree
  <1>3. Stores(tree) = Total(M)
    BY <1>2, StoresAre
  <1>4. Stored = [k \in Keys |-> NULL]
    BY <1>1, <1>3 DEF Stored, Stores, Total
  <1> QED
    BY <1>1, <1>4 DEF Map!Init

\* and an insertion is a Put.
LEMMA MapStep == Inv /\ [Next]_vars => [Map!Put]_<<Stored, last>>
  <1> SUFFICES ASSUME Inv, [Next]_vars
               PROVE  [Map!Put]_<<Stored, last>>
    OBVIOUS
  <1>1. PICK P, M : Keeps(tree, P, M)
    BY DEF Inv
  <1>2. Stored = Stores(tree) /\ Stored' = Stores(tree')
    BY DEF Stored, Stores
  <1>3. Stored = Total(M)
    BY <1>1, <1>2, StoresAre
  <1>4. ASSUME NEW key \in Keys, NEW v \in Values, Insert(key, v)
        PROVE  Map!Put
    <2> DEFINE N == With(M, key, v)
               u == Inserted(tree, key, v)
    <2>1. u = Inserted(tree, key, v) /\ N = With(M, key, v)
      OBVIOUS
    <2>2. tree' = u /\ last' = <<key, v>>
      BY <1>4 DEF Insert
    <2> HIDE DEF N, u
    <2>3. PICK Q : Keeps(u, Q, N)
      BY <1>1, <2>1, TreeInsert
    <2>4. Stores(u) = Total(N)
      BY <2>3, StoresAre
    <2>5. Stored' = Total(N)
      BY <1>2, <2>2, <2>4
    <2>6. Total(N) = [Total(M) EXCEPT ![key] = v]
      BY <2>1, TotalWith
    <2>7. Stored' = [Stored EXCEPT ![key] = v]
      BY <1>3, <2>5, <2>6
    <2> QED
      BY <2>2, <2>7 DEF Map!Put
  <1>5. CASE UNCHANGED vars
    <2>1. tree' = tree /\ last' = last
      BY <1>5 DEF vars
    <2>2. Stored' = Stored
      BY <1>2, <2>1
    <2> QED
      BY <2>1, <2>2
  <1> QED
    BY <1>4, <1>5 DEF Next

\* The tree implements the map: each call to radix_tree_insert sets the value of
\* its key and changes no other, through every split, growth and replacement.
THEOREM TreeRefinesMap == Spec => RefinesMap
  <1>1. Init => Inv /\ Map!Init
    BY TreeInit, MapInit
  <1>2. Inv /\ [Next]_vars => Inv'
    BY TreeStep
  <1>3. Inv /\ [Next]_vars => [Map!Put]_<<Stored, last>>
    BY MapStep
  <1> QED
    BY <1>1, <1>2, <1>3, PTL DEF Spec, RefinesMap, Map!Spec
-----------------------------------------------------------------------------
(* Lookups. *)

Outcome(t, q) == IF Kind(t, q.node) = "leaf" THEN t.mem[q.node].value ELSE NULL

\* The places g of a lookup, all in I, and its result.
Rounds(t, key, I, first, g) ==
    /\ g[0] = first
    /\ \A k \in 0 .. KeySize + 1 : g[k] \in I
    /\ \A k \in 1 .. KeySize + 1 : Look(t, key, g[k - 1]) = {g[k]}
    /\ Get(t, key) = {Outcome(t, g[KeySize + 1])}

\* The immediate entry is a leaf.
LEMMA ImmediateLeaf ==
    ASSUME NEW t, NEW P, NEW M, Forest(t, P, {}, {}, {}, M),
           NEW n \in DOMAIN t.mem, t.mem[n].kind \in Branch,
           NEW d \in DOMAIN t.mem[n].entries, d = Immediate,
           NEW c, c = t.mem[n].entries[d]
    PROVE  t.mem[c].kind = "leaf"
  <1>1. d = Immediate => t.mem[c].kind = "leaf"
    BY BranchFacts
  <1> QED
    BY <1>1

\* A lookup whose rounds each have one result, which stays in a set I.
LEMMA GetLoop ==
    ASSUME NEW t, NEW key, NEW I, NEW first, first = [node |-> t.root, i |-> 0], first \in I,
           \A q \in I : \E r \in I : Look(t, key, q) = {r}
    PROVE  \E g : Rounds(t, key, I, first, g)
  <1> DEFINE n == KeySize + 1
             step == [q \in I |-> CHOOSE r \in I : Look(t, key, q) = {r}]
             Eq(f) == f = [k \in 0 .. KeySize + 1 |->
                              IF k = 0 THEN {[node |-> t.root, i |-> 0]}
                                       ELSE UNION {Look(t, key, q) : q \in f[k - 1]}]
             found == CHOOSE f : Eq(f)
  <1>1. n \in Nat
    BY KeyFacts
  <1>2. step \in [I -> I] /\ \A q \in I : Look(t, key, q) = {step[q]}
    <2>1. \A q \in I : step[q] \in I /\ Look(t, key, q) = {step[q]}
      OBVIOUS
    <2> QED
      BY <2>1
  <1>3. PICK g \in [0 .. n -> I] :
           g[0] = first /\ \A k \in 1 .. n : g[k] = step[g[k - 1]]
    <2> HIDE DEF step, n
    <2>1. HasRounds(I, step, first, n)
      BY <1>1, <1>2, RoundsExist
    <2> QED
      BY <2>1 DEF HasRounds
  <1> HIDE DEF step
  <1>4. \A k \in 0 .. n : g[k] \in I
    OBVIOUS
  <1>5. ASSUME NEW k \in 1 .. n
        PROVE  Look(t, key, g[k - 1]) = {g[k]}
    <2>1. k - 1 \in 0 .. n
      BY <1>1
    <2> QED
      BY <1>2, <1>3, <1>4, <2>1
  <1> DEFINE h == [k \in 0 .. n |-> {g[k]}]
  <1>6. h = [k \in 0 .. n |-> IF k = 0 THEN {first} ELSE UNION {Look(t, key, q) : q \in h[k - 1]}]
    <2>1. ASSUME NEW k \in 0 .. n
          PROVE  h[k] = IF k = 0 THEN {first} ELSE UNION {Look(t, key, q) : q \in h[k - 1]}
      <3>1. CASE k = 0
        BY <1>3, <3>1
      <3>2. CASE k # 0
        <4>1. k \in 1 .. n /\ k - 1 \in 0 .. n
          BY <1>1, <3>2
        <4> DEFINE x == g[k - 1]
                   y == g[k]
        <4>2. h[k - 1] = {x} /\ h[k] = {y} /\ Look(t, key, x) = {y}
          BY <1>5, <4>1
        <4> HIDE DEF h, x, y
        <4>3. UNION {Look(t, key, q) : q \in {x}} = {y}
          BY <4>2
        <4> QED
          BY <3>2, <4>2, <4>3
      <3> QED
        BY <3>1, <3>2
    <2>2. h = [k \in 0 .. n |-> h[k]]
      OBVIOUS
    <2> HIDE DEF h, n
    <2> QED
      BY <2>1, <2>2
  <1>7. Eq(h)
    <2> HIDE DEF h
    <2> QED
      BY <1>6
  <1>8. Eq(found)
    <2> HIDE DEF h
    <2> QED
      BY <1>7
  <1>9. Get(t, key) = {Outcome(t, q) : q \in found[n]}
    BY DEF Get, Outcome
  <1>10. \A k \in 0 .. n :
            found[k] = IF k = 0 THEN {first} ELSE UNION {Look(t, key, q) : q \in found[k - 1]}
    <2>1. Eq(found) => \A k \in 0 .. n :
            found[k] = IF k = 0 THEN {first} ELSE UNION {Look(t, key, q) : q \in found[k - 1]}
      <3> HIDE DEF found
      <3> QED
        OBVIOUS
    <2> QED
      BY <1>8, <2>1
  <1> HIDE DEF found, Eq, h
  <1> DEFINE K == {k \in 0 .. n : found[k] = {g[k]}}
  <1>11. 0 \in K
    <2>1. 0 \in 0 .. n
      BY <1>1
    <2> HIDE DEF n
    <2> QED
      BY <1>3, <1>10, <2>1
  <1>12. ASSUME NEW k \in 1 .. n, k - 1 \in K
         PROVE  k \in K
    <2> DEFINE x == g[k - 1]
               y == g[k]
    <2>1. k \in 0 .. n /\ k # 0
      BY <1>1
    <2>2. found[k - 1] = {x} /\ Look(t, key, x) = {y}
      BY <1>5, <1>12
    <2>3. found[k] = UNION {Look(t, key, q) : q \in found[k - 1]}
      <3> HIDE DEF n
      <3> QED
        BY <1>10, <2>1
    <2> HIDE DEF x, y
    <2>4. found[k] = {y}
      BY <2>2, <2>3
    <2> QED
      BY <2>1, <2>4 DEF y
  <1>13. found[n] = {g[n]}
    <2>1. n \in 0 .. n
      BY <1>1
    <2> HIDE DEF n, K
    <2>2. \A k \in 0 .. n : k \in K
      BY <1>1, <1>11, <1>12, Counting
    <2>3. n \in K
      BY <2>1, <2>2
    <2> QED
      BY <2>3 DEF K
  <1>14. Get(t, key) = {Outcome(t, g[n])}
    <2> DEFINE x == g[n]
    <2>1. found[n] = {x}
      BY <1>13
    <2> HIDE DEF x, n
    <2>2. {Outcome(t, q) : q \in {x}} = {Outcome(t, x)}
      OBVIOUS
    <2> QED
      BY <1>9, <2>1, <2>2 DEF x
  <1> QED
    BY <1>3, <1>4, <1>5, <1>14 DEF Rounds

\* A key that the tree holds is found.
LEMMA GetFinds ==
    ASSUME NEW t, NEW P, NEW M, Keeps(t, P, M), NEW key \in DOMAIN M
    PROVE  Get(t, key) = {M[key]}
  <1>1. Forest(t, P, {}, {}, {}, M) /\ key \in Keys
    BY DEF Keeps
  <1>2. key \in Label /\ Len(key) \in Nat /\ Len(key) <= KeySize /\ KeySize \in Nat
    BY <1>1, KeyFacts
  <1>3. PICK z \in DOMAIN t.mem : t.mem[z].kind = "leaf" /\ P[z] = key /\ M[key] = t.mem[z].value
    BY <1>1 DEF Forest, Leafy
  <1> DEFINE Toward(q) == /\ q.node \in DOMAIN t.mem /\ Reach(t, q.node, z)
                          /\ P[q.node] = First(key, q.i)
             I == {q \in [node : Nat, i : 0 .. Len(key)] : Toward(q)}
             first == [node |-> t.root, i |-> 0]
  <1>4. DOMAIN t.mem \subseteq Nat \ {NIL}
    BY <1>1 DEF Forest, Stock
  <1>5. first \in I
    <2> DEFINE r == t.root
    <2>1. r \in DOMAIN t.mem /\ Reach(t, r, z)
      BY <1>1, RootReaches
    <2>2. P[r] = <<>>
      <3>1. Arc(t, {}, {}, NIL, Immediate) /\ Target(t, NIL, Immediate) = r
        BY <1>4, <2>1 DEF Arc, Target
      <3> HIDE DEF r
      <3> QED
        BY <1>1, <3>1, ArcFacts
    <2>3. First(key, 0) = <<>>
      BY <1>2, Whole
    <2> QED
      BY <1>2, <1>4, <2>1, <2>2, <2>3
  <1>6. ASSUME NEW q \in I
        PROVE  \E r \in I : /\ Look(t, key, q) = {r}
                            /\ q.node = z => r = q
                            /\ q.node # z => r.i > q.i \/ r.node = z
    <2> DEFINE n == q.node
               i == q.i
    <2>1. /\ n \in DOMAIN t.mem /\ Reach(t, n, z) /\ P[n] = First(key, i)
          /\ i \in 0 .. Len(key) /\ Kind(t, n) = t.mem[n].kind /\ i \in Nat
      BY <1>2 DEF Kind
    <2>2. q = [node |-> n, i |-> i]
      OBVIOUS
    <2> HIDE DEF I
    <2>3. CASE n = z
      <3>1. Look(t, key, q) = {q}
        BY <1>3, <2>1, <2>3 DEF Look, Branch
      <3> QED
        BY <2>3, <3>1
    <2>4. CASE n # z /\ t.mem[n].kind = "edge"
      <3> DEFINE s == t.mem[n].str
                 c == t.mem[n].next
                 r == [node |-> c, i |-> i + Len(s)]
      <3>1. PICK d, y, j : Heads(t, P, key, z, n, i, d, y, j)
        <4> HIDE DEF n, i
        <4> QED
          BY <1>1, <1>2, <1>3, <2>1, <2>4, Heading
      <3>2. To(t.mem[n], d) = c /\ Over(t.mem[n], d) = s
        BY <2>4 DEF To, Over
      <3>3. s \in Label /\ s # <<>>
        <4>1. t.mem[n].kind = "edge" /\ s = t.mem[n].str
          BY <2>4
        <4> HIDE DEF n, s
        <4> QED
          BY <1>1, <2>1, <4>1, EdgeFacts
      <3> HIDE DEF n, i, s, c
      <3>4. /\ c \in DOMAIN t.mem /\ Reach(t, c, z) /\ i + Len(s) \in 0 .. Len(key)
            /\ P[c] = First(key, i + Len(s)) /\ Follows(s, key, i)
        BY <1>2, <2>1, <3>1, <3>2 DEF Heads
      <3>5. Len(s) \in Nat /\ Len(s) > 0
        <4>1. s \in Seq(Nibble)
          BY <3>3 DEF Label
        <4> QED
          BY <3>3, <4>1
      <3>6. r \in I /\ r.i > i
        BY <1>4, <2>1, <3>4, <3>5 DEF I
      <3>7. Len(s) <= Len(key) - i /\ SubSeq(key, i + 1, i + Len(s)) = s
        <4>1. Len(s) <= Len(key) - i
          BY <1>2, <2>1, <3>4, <3>5
        <4> DEFINE x == SubSeq(key, i + 1, i + Len(s))
        <4>2. key \in Seq(Nibble) /\ i + Len(s) <= Len(key) /\ i + 1 \in Nat /\ i + Len(s) \in Nat
          BY <1>2, <2>1, <3>4, <3>5 DEF Label
        <4>3. x \in Seq(Nibble) /\ Len(x) = Len(s)
          BY <1>2, <2>1, <3>5, <4>2
        <4>4. \A j0 \in 1 .. Len(s) : x[j0] = key[i + j0]
          <5> TAKE k \in 1 .. Len(s)
          <5>1. x[k] = key[(i + 1) + k - 1]
            BY <1>2, <2>1, <3>5, <4>2
          <5>2. (i + 1) + k - 1 = i + k
            BY <2>1
          <5> QED
            BY <5>1, <5>2
        <4> HIDE DEF x
        <4>5. \A j0 \in 1 .. Len(s) : x[j0] = s[j0]
          BY <3>4, <4>4 DEF Follows
        <4>6. x = s
          BY <3>3, <4>3, <4>5, SameLabel DEF Label
        <4> QED
          BY <4>1, <4>6 DEF x
      <3>8. Look(t, key, q) = {r}
        BY <2>1, <2>4, <3>7 DEF Look, Branch, n, i, s, c
      <3> QED
        BY <2>4, <3>6, <3>8 DEF n, i
    <2>5. CASE n # z /\ t.mem[n].kind \in Branch
      <3> DEFINE e == IF i < Len(key) THEN key[i + 1] ELSE Immediate
                 j == IF i < Len(key) THEN i + 1 ELSE i
                 c == GetBranch(t, n, e)
                 r == [node |-> c, i |-> j]
      <3>1. /\ e = IF i < Len(key) THEN key[i + 1] ELSE Immediate
            /\ j = IF i < Len(key) THEN i + 1 ELSE i
            /\ c = GetBranch(t, n, e) /\ t.mem[n].kind \in Branch
        BY <2>5
      <3>2. j \in 0 .. Len(key)
        BY <1>2, <2>1
      <3> HIDE DEF n, i, e, j, c
      <3>3. /\ e \in DOMAIN t.mem[n].entries
            /\ c \in DOMAIN t.mem /\ Reach(t, c, z) /\ P[c] = First(key, j)
            /\ t.mem[c].kind = "leaf" => c = z /\ j = Len(key)
        BY <1>1, <1>2, <1>3, <2>1, <3>1, BranchHeads
      <3>4. ASSUME ~(i < Len(key))
            PROVE  t.mem[n].kind # "branch16" /\ c = z
        <4> DEFINE x == Immediate
        <4>1. e = x /\ x = Immediate
          BY <3>1, <3>4
        <4> HIDE DEF x
        <4>2. x \in DOMAIN t.mem[n].entries /\ c = t.mem[n].entries[x]
          BY <3>1, <3>3, <4>1 DEF GetBranch
        <4>3. t.mem[c].kind = "leaf"
          BY <1>1, <2>1, <3>1, <4>1, <4>2, ImmediateLeaf
        <4>4. Sound(t.mem[n])
          BY <1>1, <2>1 DEF Forest, Stock
        <4>5. t.mem[n].kind # "branch16"
          BY <4>1, <4>2, <4>4 DEF Sound, Holding, Branch
        <4> QED
          BY <3>3, <4>1, <4>3, <4>5
      <3>5. r \in I
        BY <1>4, <3>2, <3>3 DEF I
      <3>6. NibblesAt(t, n, key, i) = {e}
        BY <2>1, <3>1, <3>4 DEF NibblesAt
      <3>7. j = IF i < Len(key) \/ Kind(t, n) = "branch16" THEN i + 1 ELSE i
        BY <2>1, <3>1, <3>4
      <3>8. Look(t, key, q) = {[node |-> GetBranch(t, n, d),
                                i |-> IF i < Len(key) \/ Kind(t, n) = "branch16"
                                      THEN i + 1 ELSE i] : d \in NibblesAt(t, n, key, i)}
        BY <2>1, <3>1 DEF Look, Branch, n, i
      <3>9. Look(t, key, q) = {r}
        BY <3>1, <3>6, <3>7, <3>8
      <3>10. r.i > i \/ r.node = z
        BY <2>1, <3>1, <3>4
      <3> QED
        BY <2>5, <3>5, <3>9, <3>10 DEF n, i
    <2>6. t.mem[n].kind = "leaf" => n = z
      <3> SUFFICES ASSUME t.mem[n].kind = "leaf", n # z
                   PROVE  FALSE
        OBVIOUS
      <3>1. PICK d \in Nibble \cup {Immediate} : Has(t.mem[n], d)
        <4> HIDE DEF n
        <4> QED
          BY <1>1, <2>1, ReachOn
      <3> QED
        BY <3>1 DEF Has, Branch
    <2>7. t.mem[n].kind \in Branch \cup {"edge", "leaf"}
      <3>1. Sound(t.mem[n])
        BY <1>1, <2>1 DEF Forest, Stock
      <3> QED
        BY <3>1 DEF Sound
    <2> QED
      BY <2>3, <2>4, <2>5, <2>6, <2>7
  <1>7. \A q \in I : q.i \in 0 .. Len(key)
    OBVIOUS
  <1> HIDE DEF I
  <1>8. PICK g : Rounds(t, key, I, first, g)
    <2>1. first = [node |-> t.root, i |-> 0]
      OBVIOUS
    <2>2. \A q \in I : \E r \in I : Look(t, key, q) = {r}
      BY <1>6
    <2> HIDE DEF first
    <2> QED
      BY <1>5, <2>1, <2>2, GetLoop
  <1>9. /\ g[0] = first
        /\ \A k \in 0 .. KeySize + 1 : g[k] \in I
        /\ \A k \in 1 .. KeySize + 1 : Look(t, key, g[k - 1]) = {g[k]}
        /\ Get(t, key) = {Outcome(t, g[KeySize + 1])}
    BY <1>8 DEF Rounds
  <1> DEFINE n == KeySize + 1
             K == {k \in 0 .. n : g[k].i >= k \/ g[k].node = z}
  <1>10. n \in Nat
    BY <1>2
  <1>11. 0 \in K
    BY <1>2, <1>9
  <1>12. ASSUME NEW k \in 1 .. n, k - 1 \in K
         PROVE  k \in K
    <2> DEFINE x == g[k - 1]
               y == g[k]
    <2>1. x \in I /\ y \in I /\ k \in 0 .. n
      <3>1. k - 1 \in 0 .. n /\ k \in 0 .. n
        BY <1>10
      <3> QED
        BY <1>9, <3>1
    <2>2. Look(t, key, x) = {y} /\ (x.i >= k - 1 \/ x.node = z)
      BY <1>9, <1>12
    <2> HIDE DEF x, y
    <2>3. PICK r \in I : /\ Look(t, key, x) = {r}
                         /\ x.node = z => r = x
                         /\ x.node # z => r.i > x.i \/ r.node = z
      BY <1>6, <2>1
    <2>4. r = y
      BY <2>2, <2>3
    <2>5. x.i \in Nat /\ y.i \in Nat
      BY <1>2, <1>7, <2>1
    <2>6. y.i >= k \/ y.node = z
      BY <2>2, <2>3, <2>4, <2>5
    <2> QED
      BY <2>1, <2>6 DEF y
  <1>13. g[n] \in I /\ g[n].node = z
    <2>1. n \in 0 .. n
      BY <1>10
    <2>2. n \in K
      <3> HIDE DEF n, K
      <3>1. \A k \in 0 .. n : k \in K
        BY <1>10, <1>11, <1>12, Counting
      <3> QED
        BY <2>1, <3>1
    <2>3. g[n] \in I /\ g[n].i \in 0 .. Len(key)
      BY <1>7, <1>9, <2>1
    <2> QED
      BY <1>2, <2>2, <2>3
  <1>14. Outcome(t, g[n]) = M[key]
    BY <1>3, <1>13 DEF Outcome, Kind
  <1> QED
    BY <1>9, <1>14
-----------------------------------------------------------------------------
(* Below every node there is a leaf, so no path is longer than a key. *)

\* What is below a node below n is below n.
LEMMA ReachFurther ==
    ASSUME NEW t, NEW a, NEW b, NEW c, Reach(t, a, b), Reach(t, b, c)
    PROVE  Reach(t, a, c)
  BY DEF Reach

\* What n refers to is below n.
LEMMA ReachOver ==
    ASSUME NEW t, NEW n \in DOMAIN t.mem, NEW d \in Nibble \cup {Immediate},
           Has(t.mem[n], d), NEW c, c = To(t.mem[n], d)
    PROVE  Reach(t, n, c)
  BY DEF Reach, Closed

\* A node that is not a leaf refers to another.
LEMMA HasOne ==
    ASSUME NEW node, Sound(node), node.kind # "leaf"
    PROVE  \E d \in Nibble \cup {Immediate} : Has(node, d)
  <1>1. CASE node.kind = "edge"
    BY <1>1 DEF Has
  <1>2. CASE node.kind \in Branch
    <2> DEFINE S == DOMAIN node.entries
    <2>1. Cardinality(S) >= 2
      BY <1>2 DEF Sound, Holding, Branch
    <2> HIDE DEF S
    <2>2. S # {}
      BY <2>1, FS_EmptySet
    <2>3. PICK d : d \in S
      BY <2>2
    <2>4. Has(node, d)
      BY <1>2, <2>3 DEF Has, S
    <2>5. d \in Nibble \cup {Immediate}
      BY <2>4, SoundHas
    <2> QED
      BY <2>4, <2>5
  <1> QED
    BY <1>1, <1>2 DEF Sound

\* A node from which the fewest nodes are reached is a leaf or leads to one.
LEMMA LeafBelow ==
    ASSUME NEW t, NEW P, NEW M, Forest(t, P, {}, {}, {}, M), NEW n \in DOMAIN t.mem
    PROVE  \E z \in DOMAIN t.mem : t.mem[z].kind = "leaf" /\ Reach(t, n, z)
  <1> DEFINE Below(x) == {y \in DOMAIN t.mem : Reach(t, x, y)}
             Size(x) == Cardinality(Below(x))
             sizes == {Size(x) : x \in Below(n)}
  <1>1. IsFiniteSet(DOMAIN t.mem)
    BY DEF Forest, Stock
  <1>2. \A x : IsFiniteSet(Below(x)) /\ Size(x) \in Nat
    <2>1. \A x : Below(x) \in SUBSET DOMAIN t.mem
      OBVIOUS
    <2> HIDE DEF Below
    <2> QED
      BY <1>1, <2>1, FS_Subset, FS_CardinalityType
  <1>3. n \in Below(n)
    BY ReachSelf
  <1>4. sizes \in SUBSET Nat /\ sizes # {}
    <2> HIDE DEF Size
    <2> QED
      BY <1>2, <1>3
  <1>5. PICK l \in sizes : \A k \in sizes : l <= k
    <2> HIDE DEF sizes
    <2> QED
      BY <1>4, Smallest
  <1>6. PICK x \in Below(n) : l = Size(x)
    OBVIOUS
  <1>7. x \in DOMAIN t.mem /\ Reach(t, n, x)
    OBVIOUS
  <1>8. CASE t.mem[x].kind = "leaf"
    BY <1>7, <1>8
  <1>9. CASE t.mem[x].kind # "leaf"
    <2>1. Sound(t.mem[x])
      BY <1>7 DEF Forest, Stock
    <2>2. PICK d \in Nibble \cup {Immediate} : Has(t.mem[x], d)
      BY <1>9, <2>1, HasOne
    <2> DEFINE c == To(t.mem[x], d)
    <2>3. c = To(t.mem[x], d)
      OBVIOUS
    <2> HIDE DEF c
    <2>4. c \in DOMAIN t.mem
      BY <1>7, <2>2, <2>3, PointerFacts
    <2>5. Reach(t, x, c)
      BY <1>7, <2>2, <2>3, ReachOver
    <2>6. Reach(t, n, c)
      BY <1>7, <2>5, ReachFurther
    <2>7. Deeper(t, P, x, c)
      BY <1>7, <2>2, <2>3, PointerFacts
    <2>8. CASE t.mem[c].kind = "leaf"
      BY <2>4, <2>6, <2>8
    <2>9. CASE t.mem[c].kind # "leaf"
      <3>1. Len(P[x]) < Len(P[c])
        BY <2>7, <2>9 DEF Deeper
      <3>2. x \notin Below(c)
        <4> SUFFICES ASSUME Reach(t, c, x)
                     PROVE  FALSE
          OBVIOUS
        <4>1. Len(P[c]) <= Len(P[x])
          BY <2>4, ReachLabel
        <4>2. Len(P[c]) \in Nat /\ Len(P[x]) \in Nat
          BY <1>7, <2>4, LabelFacts
        <4> QED
          BY <3>1, <4>1, <4>2
      <3>3. x \in Below(x)
        BY <1>7, ReachSelf
      <3>4. Below(c) \subseteq Below(x)
        BY <2>5, ReachFurther
      <3>5. c \in Below(n)
        BY <2>4, <2>6
      <3>6. Size(c) \in sizes
        BY <3>5
      <3>7. Size(c) < Size(x)
        <4> DEFINE B == Below(x)
                   C == Below(c)
        <4>1. IsFiniteSet(B) /\ C \in SUBSET B /\ C # B
          BY <1>2, <3>2, <3>3, <3>4
        <4> HIDE DEF B, C
        <4>2. Cardinality(C) < Cardinality(B)
          <5>1. Cardinality(C) <= Cardinality(B) /\ (Cardinality(C) = Cardinality(B) => C = B)
            BY <4>1, FS_Subset
          <5>2. Cardinality(C) \in Nat /\ Cardinality(B) \in Nat
            BY <4>1, FS_Subset, FS_CardinalityType
          <5> QED
            BY <4>1, <5>1, <5>2
        <4> QED
          BY <4>2 DEF B, C
      <3>8. Size(c) \in Nat /\ Size(x) \in Nat
        BY <1>2
      <3> HIDE DEF Size, sizes
      <3>9. Size(x) <= Size(c)
        BY <1>5, <1>6, <3>6
      <3> QED
        BY <3>7, <3>8, <3>9
    <2> QED
      BY <2>8, <2>9
  <1> QED
    BY <1>8, <1>9
-----------------------------------------------------------------------------
(* A key of full length that is not stored, nor any beginning of it. *)

Absent(M, key) ==
    /\ key \in Keys /\ key \notin DOMAIN M /\ Len(key) = KeySize
    /\ \A m \in 1 .. Len(key) - 1 : First(key, m) \notin DOMAIN M

\* No node at a beginning of the key is a leaf.
LEMMA NoLeafOnTheWay ==
    ASSUME NEW t, NEW P, NEW M, Keeps(t, P, M), NEW key, Absent(M, key),
           NEW n \in DOMAIN t.mem, NEW i \in 0 .. Len(key), P[n] = First(key, i)
    PROVE  t.mem[n].kind # "leaf"
  <1> SUFFICES ASSUME t.mem[n].kind = "leaf"
               PROVE  FALSE
    OBVIOUS
  <1>1. P[n] \in DOMAIN M /\ DOMAIN M \subseteq Keys
    BY DEF Keeps, Forest, Leafy
  <1>2. key \in Label /\ Len(key) \in Nat
    BY KeyFacts DEF Absent
  <1>3. First(key, 0) = <<>> /\ First(key, Len(key)) = key
    BY <1>2, Whole
  <1>4. i # 0
    BY <1>1, <1>3, KeyFacts
  <1>5. i # Len(key)
    BY <1>1, <1>3 DEF Absent
  <1>6. i \in 1 .. Len(key) - 1
    BY <1>2, <1>4, <1>5
  <1> QED
    BY <1>1, <1>6 DEF Absent

\* No node has the key itself as its label.
LEMMA NoNodeAtTheEnd ==
    ASSUME NEW t, NEW P, NEW M, Keeps(t, P, M), NEW key, Absent(M, key),
           NEW n \in DOMAIN t.mem
    PROVE  P[n] # key
  <1> SUFFICES ASSUME P[n] = key
               PROVE  FALSE
    OBVIOUS
  <1>1. Forest(t, P, {}, {}, {}, M)
    BY DEF Keeps
  <1>2. PICK z \in DOMAIN t.mem : t.mem[z].kind = "leaf" /\ Reach(t, n, z)
    BY <1>1, LeafBelow
  <1>3. P[z] \in DOMAIN M /\ DOMAIN M \subseteq Keys
    BY <1>2 DEF Keeps, Forest, Leafy
  <1>4. P[z] \in Label /\ Len(P[z]) \in Nat /\ Len(P[z]) <= KeySize /\ KeySize \in Nat
    BY <1>3, KeyFacts
  <1>5. Len(P[n]) <= Len(P[z])
    BY <1>1, <1>2, ReachLabel
  <1>6. P[n] = First(P[z], Len(P[n]))
    BY <1>1, <1>2, ReachLabel
  <1>7. Len(P[n]) = KeySize
    BY DEF Absent
  <1>8. Len(P[z]) = Len(P[n])
    BY <1>4, <1>5, <1>7
  <1>9. First(P[z], Len(P[z])) = P[z]
    BY <1>4, Whole
  <1>10. P[z] = key
    BY <1>6, <1>8, <1>9
  <1> QED
    BY <1>3, <1>10 DEF Absent

\* The test of radix_tree_get at an edge.
Same(s, key, i) == Len(s) <= Len(key) - i /\ SubSeq(key, i + 1, i + Len(s)) = s

\* An edge whose string the key goes on with leads to a beginning of the key.
LEMMA EdgeOnTheWay ==
    ASSUME NEW t, NEW P, NEW M, Forest(t, P, {}, {}, {}, M), NEW key \in Label,
           NEW n \in DOMAIN t.mem, t.mem[n].kind = "edge",
           NEW i \in 0 .. Len(key), P[n] = First(key, i),
           NEW s, s = t.mem[n].str, NEW c, c = t.mem[n].next,
           Same(s, key, i), NEW j, j = i + Len(s)
    PROVE  /\ Len(s) \in Nat /\ j \in 0 .. Len(key)
           /\ c \in DOMAIN t.mem /\ P[c] = First(key, j)
  <1>1. /\ s \in Label /\ P[n] \in Label /\ P[c] \in Label
        /\ c \in DOMAIN t.mem /\ Extends(P[c], P[n], s)
    BY EdgeFacts
  <1>2. Len(s) \in Nat /\ Len(key) \in Nat
    BY <1>1, Whole
  <1>0. Len(s) <= Len(key) - i /\ SubSeq(key, i + 1, i + Len(s)) = s
    BY DEF Same
  <1> DEFINE b == First(key, j)
             a == First(key, i)
  <1>3. j \in 0 .. Len(key)
    BY <1>0, <1>2
  <1>4. b \in Label /\ Len(b) = j /\ \A k \in 1 .. j : b[k] = key[k]
    BY <1>3, Parts
  <1>5. a \in Label /\ Len(a) = i /\ \A k \in 1 .. i : a[k] = key[k]
    BY Parts
  <1>6. \A k \in 1 .. Len(s) : s[k] = key[i + k]
    <2> TAKE k \in 1 .. Len(s)
    <2> DEFINE x == SubSeq(key, i + 1, i + Len(s))
    <2>1. key \in Seq(Nibble) /\ i + Len(s) <= Len(key) /\ i + 1 \in Nat /\ i + Len(s) \in Nat
      <3>1. key \in Seq(Nibble)
        BY DEF Label
      <3>2. i + Len(s) = j /\ j <= Len(key) /\ j \in Nat /\ i + 1 \in Nat
        BY <1>2, <1>3
      <3> QED
        BY <3>1, <3>2
    <2>2. x[k] = key[(i + 1) + k - 1]
      BY <1>2, <2>1
    <2>3. (i + 1) + k - 1 = i + k
      BY <1>2
    <2> QED
      BY <1>0, <2>2, <2>3
  <1>7. Extends(b, a, s)
    <2> HIDE DEF a, b
    <2>1. Len(b) = Len(a) + Len(s)
      BY <1>4, <1>5
    <2>2. \A k \in 1 .. Len(a) : b[k] = a[k]
      BY <1>2, <1>4, <1>5
    <2>3. ASSUME NEW k \in 1 .. Len(s)
          PROVE  b[Len(a) + k] = s[k]
      <3>1. i + k \in 1 .. j
        BY <1>2
      <3>2. b[i + k] = key[i + k]
        BY <1>4, <3>1
      <3> QED
        BY <1>5, <1>6, <3>2
    <2> QED
      BY <2>1, <2>2, <2>3 DEF Extends
  <1>8. P[c] = b
    <2> HIDE DEF b
    <2> QED
      BY <1>1, <1>4, <1>7, SameExtension
  <1> QED
    BY <1>1, <1>2, <1>3, <1>8

\* An entry of a branch for a nibble.
LEMMA EntryFacts ==
    ASSUME NEW t, NEW P, NEW M, Forest(t, P, {}, {}, {}, M),
           NEW n \in DOMAIN t.mem, t.mem[n].kind \in Branch,
           NEW d \in DOMAIN t.mem[n].entries, d # Immediate,
           NEW c, c = t.mem[n].entries[d]
    PROVE  /\ c \in DOMAIN t.mem /\ P[c] \in Label /\ P[n] \in Label
           /\ Extends(P[c], P[n], <<d>>)
  <1>1. Has(t.mem[n], d) /\ To(t.mem[n], d) = c /\ Over(t.mem[n], d) = <<d>>
    BY DEF Has, To, Over, Branch
  <1>2. Extends(P[c], P[n], Over(t.mem[n], d))
    BY <1>1, PointerFacts
  <1>3. c \in DOMAIN t.mem /\ P[c] \in Label /\ P[n] \in Label
    BY <1>1, PointerFacts
  <1> QED
    BY <1>1, <1>2, <1>3

\* And so does an entry of a branch for the key's next nibble.
LEMMA EntryOnTheWay ==
    ASSUME NEW t, NEW P, NEW M, Forest(t, P, {}, {}, {}, M), NEW key \in Label,
           NEW n \in DOMAIN t.mem, t.mem[n].kind \in Branch,
           NEW i \in 0 .. Len(key), i < Len(key), P[n] = First(key, i),
           NEW d, d = key[i + 1], d \in DOMAIN t.mem[n].entries,
           NEW c, c = t.mem[n].entries[d]
    PROVE  c \in DOMAIN t.mem /\ P[c] = First(key, i + 1)
  <1>1. d \in Nibble /\ <<d>> \in Label /\ Extends(First(key, i + 1), First(key, i), <<d>>)
    <2>1. d \in Nibble
      BY OneMore
    <2>2. <<d>> \in Label
      BY <2>1 DEF Label
    <2>3. Extends(First(key, i + 1), First(key, i), <<d>>)
      BY OneMore
    <2> QED
      BY <2>1, <2>2, <2>3
  <1>2. d # Immediate
    BY <1>1, KeyAssumption DEF Nibble, Immediate
  <1>3. /\ c \in DOMAIN t.mem /\ P[c] \in Label /\ P[n] \in Label
        /\ Extends(P[c], P[n], <<d>>)
    BY <1>2, EntryFacts
  <1>4. First(key, i + 1) \in Label
    <2> DEFINE j == i + 1
    <2>1. j \in 0 .. Len(key)
      BY Whole
    <2> HIDE DEF j
    <2>2. First(key, j) \in Label
      BY <2>1, Parts
    <2> QED
      BY <2>2 DEF j
  <1> QED
    BY <1>1, <1>3, <1>4, SameExtension
-----------------------------------------------------------------------------
(* Lookups that find nothing. *)

\* The place of a lookup that is on the way of the key, or off the tree.
OnTheWay(t, P, key, q) ==
    q.node \in DOMAIN t.mem => q.i \in 0 .. Len(key) /\ P[q.node] = First(key, q.i)

\* A lookup at an edge goes on or leaves the tree,
LEMMA MissAtEdge ==
    ASSUME NEW t, NEW P, NEW M, Forest(t, P, {}, {}, {}, M), NEW key \in Label,
           NEW n \in DOMAIN t.mem, t.mem[n].kind = "edge",
           NEW i \in 0 .. Len(key), P[n] = First(key, i),
           NEW q, q = [node |-> n, i |-> i]
    PROVE  \E r \in [node : Nat, i : Nat] : Look(t, key, q) = {r} /\ OnTheWay(t, P, key, r)
  <1> DEFINE s == t.mem[n].str
             c == t.mem[n].next
             j == i + Len(s)
             same == Same(s, key, i)
             r == [node |-> IF same THEN c ELSE NIL, i |-> j]
  <1>1. q.node = n /\ q.i = i /\ Kind(t, n) = "edge"
    BY DEF Kind
  <1>2. Look(t, key, q) = {r}
    BY <1>1 DEF Look, Branch, Same
  <1>3. j = i + Len(s) /\ s = t.mem[n].str /\ c = t.mem[n].next
    OBVIOUS
  <1>4. DOMAIN t.mem \subseteq Nat \ {NIL}
    BY DEF Forest, Stock
  <1>5. Len(s) \in Nat /\ c \in DOMAIN t.mem
    <2> HIDE DEF s, c
    <2>1. s \in Label /\ c \in DOMAIN t.mem
      BY <1>3, EdgeFacts
    <2> QED
      BY <2>1, Whole
  <1>6. r \in [node : Nat, i : Nat]
    <2>1. i + Len(s) \in Nat /\ c \in Nat /\ NIL \in Nat
      BY <1>4, <1>5 DEF NIL
    <2> HIDE DEF s, c, same
    <2> QED
      BY <2>1
  <1> HIDE DEF j
  <1>7. OnTheWay(t, P, key, r)
    <2>1. CASE same
      <3>1. Same(s, key, i)
        BY <2>1
      <3>2. r.node = c /\ r.i = j
        BY <2>1
      <3> HIDE DEF s, c, same, r
      <3>3. j \in 0 .. Len(key) /\ P[c] = First(key, j)
        BY <1>3, <3>1, EdgeOnTheWay
      <3> QED
        BY <3>2, <3>3 DEF OnTheWay
    <2>2. CASE ~same
      <3>1. r.node = NIL
        BY <2>2
      <3> HIDE DEF r
      <3> QED
        BY <1>4, <3>1 DEF OnTheWay
    <2> QED
      BY <2>1, <2>2
  <1> HIDE DEF r
  <1> QED
    BY <1>2, <1>6, <1>7

\* and so does one at a branch.
LEMMA MissAtBranch ==
    ASSUME NEW t, NEW P, NEW M, Forest(t, P, {}, {}, {}, M), NEW key \in Label,
           NEW n \in DOMAIN t.mem, t.mem[n].kind \in Branch,
           NEW i \in 0 .. Len(key), i < Len(key), P[n] = First(key, i),
           NEW q, q = [node |-> n, i |-> i]
    PROVE  \E r \in [node : Nat, i : Nat] : Look(t, key, q) = {r} /\ OnTheWay(t, P, key, r)
  <1> DEFINE d == key[i + 1]
             c == GetBranch(t, n, d)
             r == [node |-> c, i |-> i + 1]
  <1>1. q.node = n /\ q.i = i /\ Kind(t, n) = t.mem[n].kind
    BY DEF Kind
  <1>2. d = key[i + 1] /\ c = GetBranch(t, n, d)
    OBVIOUS
  <1>3. Look(t, key, q) = {r}
    <2>1. Look(t, key, q) = {[node |-> GetBranch(t, n, e),
                              i |-> IF i < Len(key) \/ Kind(t, n) = "branch16"
                                    THEN i + 1 ELSE i] : e \in NibblesAt(t, n, key, i)}
      BY <1>1 DEF Look, Branch
    <2>2. NibblesAt(t, n, key, i) = {d}
      BY DEF NibblesAt
    <2> HIDE DEF d
    <2> QED
      BY <2>1, <2>2
  <1>4. DOMAIN t.mem \subseteq Nat \ {NIL}
    BY DEF Forest, Stock
  <1>5. CASE d \in DOMAIN t.mem[n].entries
    <2>1. c = t.mem[n].entries[d]
      BY <1>5 DEF GetBranch
    <2> HIDE DEF c, d
    <2>2. c \in DOMAIN t.mem /\ P[c] = First(key, i + 1)
      BY <1>2, <1>5, <2>1, EntryOnTheWay
    <2>3. i + 1 \in 0 .. Len(key)
      BY Whole
    <2>4. r \in [node : Nat, i : Nat] /\ r.node = c /\ r.i = i + 1
      BY <1>4, <2>2
    <2> HIDE DEF r
    <2>5. OnTheWay(t, P, key, r)
      BY <2>2, <2>3, <2>4 DEF OnTheWay
    <2> QED
      BY <1>3, <2>4, <2>5
  <1>6. CASE d \notin DOMAIN t.mem[n].entries
    <2>1. c = NIL
      BY <1>6 DEF GetBranch
    <2> HIDE DEF c, d
    <2>2. r \in [node : Nat, i : Nat] /\ r.node = NIL
      BY <2>1 DEF NIL
    <2> HIDE DEF r
    <2>3. OnTheWay(t, P, key, r)
      BY <1>4, <2>2 DEF OnTheWay
    <2> QED
      BY <1>3, <2>2, <2>3
  <1> QED
    BY <1>5, <1>6

\* A full-length key is missed when neither it nor a beginning of it is stored.
LEMMA GetMisses ==
    ASSUME NEW t, NEW P, NEW M, Keeps(t, P, M), NEW key, Absent(M, key)
    PROVE  Get(t, key) = {NULL}
  <1>1. Forest(t, P, {}, {}, {}, M)
    BY DEF Keeps
  <1>2. key \in Label /\ Len(key) \in Nat /\ KeySize \in Nat
    BY KeyFacts DEF Absent
  <1> DEFINE I == {q \in [node : Nat, i : Nat] : OnTheWay(t, P, key, q)}
             first == [node |-> t.root, i |-> 0]
  <1>3. DOMAIN t.mem \subseteq Nat \ {NIL}
    BY <1>1 DEF Forest, Stock
  <1>4. first \in I
    <2> DEFINE r == t.root
    <2>1. CASE r \in DOMAIN t.mem
      <3>1. P[r] = <<>>
        <4>1. Arc(t, {}, {}, NIL, Immediate) /\ Target(t, NIL, Immediate) = r
          BY <1>3, <2>1 DEF Arc, Target
        <4> HIDE DEF r
        <4> QED
          BY <1>1, <4>1, ArcFacts
      <3>2. First(key, 0) = <<>>
        BY <1>2, Whole
      <3> QED
        BY <1>2, <1>3, <2>1, <3>1, <3>2 DEF OnTheWay
    <2>2. CASE r \notin DOMAIN t.mem
      <3>1. t.root \in Nat
        <4>1. t.root = NIL
          <5> SUFFICES ASSUME r # NIL
                       PROVE  FALSE
            OBVIOUS
          <5>1. Arc(t, {}, {}, NIL, Immediate) /\ Target(t, NIL, Immediate) = r
            BY <1>3 DEF Arc, Target
          <5>2. r \in DOMAIN t.mem
            <6> HIDE DEF r
            <6> QED
              BY <1>1, <5>1, ArcFacts
          <5> QED
            BY <2>2, <5>2
        <4> QED
          BY <4>1 DEF NIL
      <3> QED
        BY <2>2, <3>1 DEF OnTheWay
    <2> QED
      BY <2>1, <2>2
  <1>5. ASSUME NEW q \in I, q.node \in DOMAIN t.mem
        PROVE  /\ q = [node |-> q.node, i |-> q.i]
               /\ q.i \in 0 .. Len(key) /\ P[q.node] = First(key, q.i)
               /\ t.mem[q.node].kind # "leaf"
               /\ P[q.node] # key
    <2>1. /\ q = [node |-> q.node, i |-> q.i]
          /\ q.i \in 0 .. Len(key) /\ P[q.node] = First(key, q.i)
      BY <1>5 DEF OnTheWay
    <2> DEFINE n == q.node
               i == q.i
    <2>2. n \in DOMAIN t.mem /\ i \in 0 .. Len(key) /\ P[n] = First(key, i)
      BY <1>5, <2>1
    <2> HIDE DEF n, i, I
    <2>3. t.mem[n].kind # "leaf" /\ P[n] # key
      BY <2>2, NoLeafOnTheWay, NoNodeAtTheEnd
    <2> QED
      BY <2>1, <2>3 DEF n, i
  <1>6. ASSUME NEW q \in I
        PROVE  \E r \in I : Look(t, key, q) = {r}
    <2>1. CASE q.node \notin DOMAIN t.mem
      <3>1. Look(t, key, q) = {q}
        BY <2>1 DEF Look, Kind, Branch
      <3> QED
        BY <3>1
    <2>2. CASE q.node \in DOMAIN t.mem
      <3> DEFINE n == q.node
                 i == q.i
      <3>1. /\ q = [node |-> n, i |-> i] /\ n \in DOMAIN t.mem
            /\ i \in 0 .. Len(key) /\ P[n] = First(key, i)
            /\ t.mem[n].kind # "leaf" /\ P[n] # key
        BY <1>5, <2>2
      <3> HIDE DEF n, i
      <3>2. CASE t.mem[n].kind = "edge"
        <4>1. \E r \in [node : Nat, i : Nat] : Look(t, key, q) = {r} /\ OnTheWay(t, P, key, r)
          <5> HIDE DEF I
          <5> QED
            BY <1>1, <1>2, <3>1, <3>2, MissAtEdge
        <4> QED
          BY <4>1
      <3>3. CASE t.mem[n].kind \in Branch
        <4>1. i < Len(key)
          <5>1. First(key, Len(key)) = key
            BY <1>2, Whole
          <5>2. i # Len(key)
            BY <3>1, <5>1
          <5> QED
            BY <1>2, <3>1, <5>2
        <4>2. \E r \in [node : Nat, i : Nat] : Look(t, key, q) = {r} /\ OnTheWay(t, P, key, r)
          <5> HIDE DEF I
          <5> QED
            BY <1>1, <1>2, <3>1, <3>3, <4>1, MissAtBranch
        <4> QED
          BY <4>2
      <3>4. Sound(t.mem[n])
        BY <1>1, <3>1 DEF Forest, Stock
      <3> QED
        BY <3>1, <3>2, <3>3, <3>4 DEF Sound
    <2> QED
      BY <2>1, <2>2
  <1>7. \A q \in I : Outcome(t, q) = NULL
    BY <1>5 DEF Outcome, Kind
  <1> HIDE DEF I
  <1>8. PICK g : Rounds(t, key, I, first, g)
    <2>1. first = [node |-> t.root, i |-> 0]
      OBVIOUS
    <2>2. \A q \in I : \E r \in I : Look(t, key, q) = {r}
      BY <1>6
    <2> HIDE DEF first
    <2> QED
      BY <1>4, <2>1, <2>2, GetLoop
  <1> DEFINE n == KeySize + 1
             end == g[n]
  <1>9. Get(t, key) = {Outcome(t, end)} /\ end \in I
    <2>1. n \in 0 .. n
      BY <1>2
    <2>2. (\A k \in 0 .. n : g[k] \in I) /\ Get(t, key) = {Outcome(t, g[n])}
      BY <1>8 DEF Rounds
    <2> HIDE DEF n
    <2> QED
      BY <2>1, <2>2
  <1> HIDE DEF end
  <1> QED
    BY <1>7, <1>9
-----------------------------------------------------------------------------
\* Every lookup is right for the map of the invariant.
LEMMA LooksRight ==
    ASSUME NEW P, NEW M, Keeps(tree, P, M), NEW key \in Keys,
           NEW stored, stored = Total(M)
    PROVE  \/ Get(tree, key) = {stored[key]}
           \/ /\ stored[key] = NULL
              /\ \/ Len(key) < KeySize
                 \/ \E m \in 1 .. Len(key) - 1 :
                       \E short \in Keys :
                          short = SubSeq(key, 1, m) /\ stored[short] # NULL
  <1>1. DOMAIN M \subseteq Keys /\ \A k \in DOMAIN M : M[k] # NULL
    BY KeyAssumption DEF Keeps
  <1>2. CASE key \in DOMAIN M
    <2>1. Get(tree, key) = {M[key]}
      BY <1>2, GetFinds
    <2>2. stored[key] = M[key]
      BY <1>2 DEF Total
    <2> QED
      BY <2>1, <2>2
  <1>3. CASE key \notin DOMAIN M
    <2>1. stored[key] = NULL
      BY <1>3 DEF Total
    <2>2. Len(key) <= KeySize /\ Len(key) \in Nat /\ KeySize \in Nat
      BY KeyFacts
    <2>3. CASE Absent(M, key)
      BY <2>1, <2>3, GetMisses
    <2>4. CASE Len(key) < KeySize
      BY <2>1, <2>4
    <2>5. CASE Len(key) = KeySize /\ ~Absent(M, key)
      <3>1. PICK m \in 1 .. Len(key) - 1 : First(key, m) \in DOMAIN M
        BY <1>3, <2>5 DEF Absent
      <3> DEFINE short == First(key, m)
      <3>2. short = SubSeq(key, 1, m)
        BY DEF First
      <3> HIDE DEF short
      <3>3. short \in Keys /\ stored[short] # NULL
        <4>1. short \in DOMAIN M
          BY <3>1 DEF short
        <4> QED
          BY <1>1, <4>1 DEF Total
      <3> QED
        BY <2>1, <3>2, <3>3
    <2> QED
      BY <2>2, <2>3, <2>4, <2>5
  <1> QED
    BY <1>2, <1>3

\* The invariant makes lookups right.
LEMMA TreeLooksRight == Inv => LookupsRight
  <1> SUFFICES ASSUME Inv
               PROVE  LookupsRight
    OBVIOUS
  <1>1. PICK P, M : Keeps(tree, P, M)
    BY DEF Inv
  <1>2. Stored = Total(M)
    <2>1. Stores(tree) = Total(M)
      BY <1>1, StoresAre
    <2> QED
      BY <2>1 DEF Stored, Stores
  <1> QED
    BY <1>1, <1>2, LooksRight DEF LookupsRight

\* radix_tree_get finds every stored key, and misses every key of full length
\* that is not stored and has no stored key as a proper prefix.
THEOREM LookupsAreRight == Spec => []LookupsRight
  BY TreeInit, TreeStep, TreeLooksRight, PTL DEF Spec
=============================================================================
