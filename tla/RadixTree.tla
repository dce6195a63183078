----------------------------- MODULE RadixTree -----------------------------
(***************************************************************************)
(* The radix tree behind the answer cache, src/src/bits/radix_tree.c: a    *)
(* tree over nibbles whose edges carry compressed strings and whose        *)
(* branches grow from 4 to 8 entries and then to 16, or to 17 when one     *)
(* entry is the "immediate" one for a key that ends at the branch.         *)
(*                                                                         *)
(* Only the main thread touches the tree, so one call is one step.  Nodes  *)
(* live in freelists and refer to each other by index; the model keeps     *)
(* them in one store, `mem', from the allocated indices to nodes, so that  *)
(* a node that is leaked or used after its removal shows.  The slots of    *)
(* the small branches are filled from the left and never emptied, so a     *)
(* branch is a function from its keys to nodes.  `strings' counts the      *)
(* buffers of the strings too long for their edge.                         *)
(***************************************************************************)
EXTENDS Integers, Sequences, FiniteSets, FiniteSetsExt

CONSTANTS
    Keys,       \* the keys inserted and looked up, sequences of nibbles
    Values,
    Branches,   \* RADIX_TREE_KEY_BRANCHES, 16
    Cap4,       \* entries of RadixTreeBranch4Node, 4
    Cap8,       \* entries of RadixTreeBranch8Node, 8
    SmallStr,   \* RADIX_TREE_SMALL_STR_SIZE, 12
    KeySize,    \* nibbles of the longest key the tree is declared for
    NULL        \* what a failed lookup returns

Nibble == 0 .. Branches - 1

\* RADIX_BRANCH_IMMEDIATE
Immediate == Branches

\* A pointer of type RTT_NONE.
NIL == 0

ASSUME KeyAssumption ==
    /\ Branches \in Nat \ {0}
    /\ Keys \subseteq Seq(Nibble) \ {<<>>}
    /\ KeySize \in Nat /\ \A key \in Keys : Len(key) <= KeySize
    /\ NULL \notin Values

ASSUME CapAssumption ==
    /\ {Cap4, Cap8, SmallStr} \subseteq Nat
    /\ 2 <= Cap4 /\ Cap4 < Cap8 /\ Cap8 <= Branches

VARIABLES
    tree,   \* [mem, strings, root, out]; out is a call's result
    last    \* history: the arguments of the last insertion

vars == <<tree, last>>

Branch == {"branch4", "branch8", "branch16", "full"}

Kind(t, n) == IF n \in DOMAIN t.mem THEN t.mem[n].kind ELSE "none"

Rest(s, i) == SubSeq(s, i + 1, Len(s))

\* f with f[x] = y.
With(f, x, y) == [m \in DOMAIN f \cup {x} |-> IF m = x THEN y ELSE f[m]]

-----------------------------------------------------------------------------
(* The freelists of nodes.                                                 *)

Fresh(t) == Min((1 .. Cardinality(DOMAIN t.mem) + 1) \ DOMAIN t.mem)

Create(t, node) ==
    LET id == Fresh(t)
    IN  [t EXCEPT !.mem = With(@, id, node), !.out = id]

Remove(t, n) ==
    [t EXCEPT !.mem = [m \in DOMAIN @ \ {n} |-> @[m]]]

CreateLeaf(t, v) == Create(t, [kind |-> "leaf", value |-> v])

CreateBranch4(t, entries) ==
    Create(t, [kind |-> "branch4", entries |-> entries])

\* The entries of a new branch.
Pair(d, next, e, other) == [b \in {d, e} |-> IF b = d THEN next ELSE other]

Buffers(s) == IF Len(s) > SmallStr THEN 1 ELSE 0

CreateEdge(t, s, next) ==
    [Create(t, [kind |-> "edge", str |-> s, next |-> next])
        EXCEPT !.strings = @ + Buffers(s)]

\* Mutant: an edge also when nothing is left for it.
PrependAlways(t, s, next) == CreateEdge(t, s, next)

\* An edge in front of `next' when there is something to put on it.
Prepend(t, s, next) ==
    IF Len(s) > 0 THEN CreateEdge(t, s, next) ELSE [t EXCEPT !.out = next]

\* radix_tree_edge_maybe_remove_str and freelist_remove
RemoveEdge(t, n) ==
    [Remove(t, n) EXCEPT !.strings = @ - Buffers(t.mem[n].str)]

\* radix_tree_edge_maybe_move_str and the assignments to length and next
Shorten(t, n, length, next) ==
    LET s == t.mem[n].str
        kept == SubSeq(s, 1, length)
    IN  [t EXCEPT !.mem[n].str = kept,
                  !.mem[n].next = next,
                  !.strings = @ - (Buffers(s) - Buffers(kept))]

-----------------------------------------------------------------------------
(* Branches.                                                               *)

\* radix_tree_get_branch and its four variants
GetBranch(t, n, d) ==
    LET entries == t.mem[n].entries
    IN  IF d \in DOMAIN entries THEN entries[d] ELSE NIL

Fits(b, d) ==
    \/ d \in DOMAIN b.entries
    \/ b.kind = "branch4" /\ Cardinality(DOMAIN b.entries) < Cap4
    \/ b.kind = "branch8" /\ Cardinality(DOMAIN b.entries) < Cap8
    \/ b.kind = "branch16" /\ d # Immediate
    \/ b.kind = "full"

\* Mutant: seen_immediate is not consulted.
LargerUnseen(b, d) ==
    CASE b.kind = "branch4" -> "branch8"
      [] b.kind = "branch8" -> "branch16"
      [] OTHER -> "full"

Larger(b, d) ==
    CASE b.kind = "branch4" -> "branch8"
      [] b.kind = "branch8" /\ Immediate \notin DOMAIN b.entries \cup {d}
            -> "branch16"
      [] OTHER -> "full"

\* Mutant: the branch that was outgrown is not given back.
InsertIntoBranchOrLeak(t, n, d, next) ==
    LET b == t.mem[n]
        entries == With(b.entries, d, next)
    IN  IF Fits(b, d)
        THEN [t EXCEPT !.mem[n].entries = entries, !.out = NIL]
        ELSE Create(t, [kind |-> Larger(b, d), entries |-> entries])

\* The result is the branch that replaces n, or NIL.
InsertIntoBranchOrGrow(t, n, d, next) ==
    LET b == t.mem[n]
        entries == With(b.entries, d, next)
    IN  IF Fits(b, d)
        THEN [t EXCEPT !.mem[n].entries = entries, !.out = NIL]
        ELSE Remove(Create(t, [kind |-> Larger(b, d), entries |-> entries]), n)

-----------------------------------------------------------------------------
(* The path `prev' from the last edge, or the root, to the current node.   *)

PushPrev(t, prev, n, d) ==
    IF Kind(t, n) = "edge" THEN <<[node |-> n, val |-> d]>>
                           ELSE Append(prev, [node |-> n, val |-> d])

\* One round of the loop of radix_tree_set_prev, at the entry prev[at]; node
\* is NIL once the loop has returned.
Climb(prev, c) ==
    LET p == prev[c.at]
        grown == InsertIntoBranchOrGrow(c.tree, p.node, p.val, c.node)
    IN  CASE c.node = NIL -> c
          [] c.node # NIL /\ p.node = NIL ->
                [c EXCEPT !.tree.root = c.node, !.node = NIL]
          [] c.node # NIL /\ Kind(c.tree, p.node) = "edge" ->
                [c EXCEPT !.tree.mem[p.node].next = c.node, !.node = NIL]
          [] OTHER ->
                [tree |-> grown, at |-> c.at - 1, node |-> grown.out]

SetPrev(t, prev, n) ==
    LET climb[k \in 0 .. Len(prev)] ==
            IF k = 0 THEN [tree |-> t, at |-> Len(prev), node |-> n]
                     ELSE Climb(prev, climb[k - 1])
    IN  climb[Len(prev)].tree

-----------------------------------------------------------------------------
(* The ways in which _radix_tree_insert ends.  i nibbles of the key are    *)
(* consumed; m of those of the edge n match.                               *)

InsertHere(t, key, i, v, prev) ==
    LET leaf == CreateLeaf(t, v)
        new  == Prepend(leaf, Rest(key, i), leaf.out)
    IN  SetPrev(new, prev, new.out)

ReplaceLeaf(t, n, v) == [t EXCEPT !.mem[n].value = v]

\* The edge's first nibble differs from the key's: a branch takes its place.
SplitFirst(t, n, key, i, v, prev) ==
    LET edge == t.mem[n]
        leaf == CreateLeaf(t, v)
        old  == Prepend(leaf, Rest(edge.str, 1), edge.next)
        new  == Prepend(old, Rest(key, i + 1), leaf.out)
        both == CreateBranch4(new, Pair(edge.str[1], old.out, key[i + 1], new.out))
    IN  SetPrev(RemoveEdge(both, n), prev, both.out)

\* Mutant: the rest of the edge repeats the nibble the branch consumed.
SplitBothRepeated(t, n, m, key, i, v) ==
    LET edge == t.mem[n]
        leaf == CreateLeaf(t, v)
        old  == Prepend(leaf, Rest(edge.str, m), edge.next)
        new  == Prepend(old, Rest(key, i + 1), leaf.out)
        both == CreateBranch4(new, Pair(edge.str[m + 1], old.out, key[i + 1], new.out))
    IN  Shorten(both, n, m, both.out)

\* Both have nibbles left that differ: the edge ends in a branch.
SplitBoth(t, n, m, key, i, v) ==
    LET edge == t.mem[n]
        leaf == CreateLeaf(t, v)
        old  == Prepend(leaf, Rest(edge.str, m + 1), edge.next)
        new  == Prepend(old, Rest(key, i + 1), leaf.out)
        both == CreateBranch4(new, Pair(edge.str[m + 1], old.out, key[i + 1], new.out))
    IN  Shorten(both, n, m, both.out)

\* The key ends within the edge.
SplitOld(t, n, m, v) ==
    LET edge == t.mem[n]
        leaf == CreateLeaf(t, v)
        old  == Prepend(leaf, Rest(edge.str, m + 1), edge.next)
        both == CreateBranch4(old, Pair(Immediate, leaf.out, edge.str[m + 1], old.out))
    IN  Shorten(both, n, m, both.out)

\* The edge ends in a leaf, within the key.
SplitNew(t, n, key, i, v) ==
    LET edge == t.mem[n]
        leaf == CreateLeaf(t, v)
        new  == Prepend(leaf, Rest(key, i + 1), leaf.out)
        both == CreateBranch4(new, Pair(Immediate, edge.next, key[i + 1], new.out))
    IN  [both EXCEPT !.mem[n].next = both.out]

Put(t, n, d, next, prev) ==
    LET grown == InsertIntoBranchOrGrow(t, n, d, next)
    IN  IF grown.out = NIL THEN grown ELSE SetPrev(grown, prev, grown.out)

\* Special case 1: the key ends in front of an edge below the branch n.
BranchBeforeEdge(t, n, d, next, v, prev) ==
    LET edge == t.mem[next]
        leaf == CreateLeaf(t, v)
        old  == Prepend(leaf, Rest(edge.str, 1), edge.next)
        both == CreateBranch4(old, Pair(Immediate, leaf.out, edge.str[1], old.out))
    IN  Put(RemoveEdge(both, next), n, d, both.out, prev)

\* Special case 3: the key goes on where a leaf hangs below the branch n.
BranchAtLeaf(t, n, d, next, key, i, v, prev) ==
    LET leaf == CreateLeaf(t, v)
        new  == Prepend(leaf, Rest(key, i + 1), leaf.out)
        both == CreateBranch4(new, Pair(Immediate, next, key[i + 1], new.out))
    IN  Put(both, n, d, both.out, prev)

-----------------------------------------------------------------------------
(* _radix_tree_insert                                                      *)

Matching(s, key, i) ==
    Max({m \in 0 .. Min({Len(s), Len(key) - i}) :
            SubSeq(s, 1, m) = SubSeq(key, i + 1, i + m)})

\* The place where the loop is: the node, the nibbles consumed, the path.
\* What it does there, if anything, and where it goes otherwise.
EdgePassed(t, key, p) ==
    LET edge == t.mem[p.node]
        m == Matching(edge.str, key, p.i)
    IN  /\ m = Len(edge.str)
        /\ ~ (p.i + m < Len(key) /\ Kind(t, edge.next) = "leaf")

OverEdge(t, key, p) ==
    [node |-> t.mem[p.node].next,
     i    |-> p.i + Len(t.mem[p.node].str),
     prev |-> PushPrev(t, p.prev, p.node, Immediate)]

AtEdge(t, key, v, p) ==
    LET edge == t.mem[p.node]
        m == Matching(edge.str, key, p.i)
        old_has_remainder == m < Len(edge.str)
        new_has_remainder == p.i + m < Len(key)
    IN  CASE m = 0 -> SplitFirst(t, p.node, key, p.i, v, p.prev)
          [] m > 0 /\ old_has_remainder /\ new_has_remainder
                -> SplitBoth(t, p.node, m, key, p.i + m, v)
          [] m > 0 /\ old_has_remainder /\ ~ new_has_remainder
                -> SplitOld(t, p.node, m, v)
          [] m > 0 /\ ~ old_has_remainder
                -> SplitNew(t, p.node, key, p.i + m, v)

BranchPassed(t, key, p) ==
    p.i < Len(key) =>
        LET next == GetBranch(t, p.node, key[p.i + 1])
            key_has_remainder == p.i + 1 < Len(key)
        IN  /\ ~ (Kind(t, next) = "edge" /\ ~ key_has_remainder)
            /\ ~ (Kind(t, next) = "leaf" /\ key_has_remainder)

\* Special case 2, a key that ends at a branch below the branch, goes on to
\* the immediate entry of that one.
OverBranch(t, key, p) ==
    LET d == IF p.i < Len(key) THEN key[p.i + 1] ELSE Immediate
        next == GetBranch(t, p.node, d)
        path == PushPrev(t, p.prev, p.node, d)
    IN  IF p.i + 1 = Len(key) /\ Kind(t, next) \in Branch
        THEN [node |-> GetBranch(t, next, Immediate), i |-> p.i + 1,
              prev |-> PushPrev(t, path, next, Immediate)]
        ELSE [node |-> next, i |-> Min({p.i + 1, Len(key)}), prev |-> path]

AtBranch(t, key, v, p) ==
    LET d == key[p.i + 1]
        next == GetBranch(t, p.node, d)
    IN  IF Kind(t, next) = "edge"
        THEN BranchBeforeEdge(t, p.node, d, next, v, p.prev)
        ELSE BranchAtLeaf(t, p.node, d, next, key, p.i + 1, v, p.prev)

Onward(t, key, p) ==
    CASE Kind(t, p.node) = "edge" /\ EdgePassed(t, key, p) -> OverEdge(t, key, p)
      [] Kind(t, p.node) \in Branch /\ BranchPassed(t, key, p) -> OverBranch(t, key, p)
      [] OTHER -> p

\* Every round of the loop but the last consumes a nibble or ends in front of
\* an immediate entry.
Walk(t, key) ==
    LET walk[k \in 0 .. Len(key) + 1] ==
            IF k = 0
            THEN [node |-> t.root, i |-> 0, prev |-> PushPrev(t, <<>>, NIL, Immediate)]
            ELSE Onward(t, key, walk[k - 1])
    IN  walk[Len(key) + 1]

At(t, key, v, p) ==
    CASE Kind(t, p.node) = "edge"   -> AtEdge(t, key, v, p)
      [] Kind(t, p.node) \in Branch -> AtBranch(t, key, v, p)
      [] Kind(t, p.node) = "leaf"   -> ReplaceLeaf(t, p.node, v)
      [] Kind(t, p.node) = "none"   -> InsertHere(t, key, p.i, v, p.prev)

Inserted(t, key, v) == [At(t, key, v, Walk(t, key)) EXCEPT !.out = NIL]

Init ==
    /\ tree = [mem |-> <<>>, strings |-> 0, root |-> NIL, out |-> NIL]
    /\ last = NULL

Insert(key, v) ==
    /\ tree' = Inserted(tree, key, v)
    /\ last' = <<key, v>>

Next == \E key \in Keys, v \in Values : Insert(key, v)

Spec == Init /\ [][Next]_vars

-----------------------------------------------------------------------------
(* _radix_tree_get.  A branch of 16 reads a nibble without asking whether  *)
(* the key has one; what lies behind the key is any nibble, so a lookup    *)
(* has a set of possible results.                                          *)

NibblesAt(t, n, key, i) ==
    IF i < Len(key) THEN {key[i + 1]}
    ELSE IF Kind(t, n) = "branch16" THEN Nibble ELSE {Immediate}

\* One round of its loop; q is the node and the nibbles consumed.
Look(t, key, q) ==
    CASE Kind(t, q.node) \in {"leaf", "none"} -> {q}
      [] Kind(t, q.node) = "edge" ->
            LET s == t.mem[q.node].str
                same == /\ Len(s) <= Len(key) - q.i
                        /\ SubSeq(key, q.i + 1, q.i + Len(s)) = s
            IN  {[node |-> IF same THEN t.mem[q.node].next ELSE NIL, i |-> q.i + Len(s)]}
      [] Kind(t, q.node) \in Branch ->
            {[node |-> GetBranch(t, q.node, d),
              i |-> IF q.i < Len(key) \/ Kind(t, q.node) = "branch16"
                    THEN q.i + 1 ELSE q.i] : d \in NibblesAt(t, q.node, key, q.i)}

\* No path in the tree has more nodes than KeySize and one.
Get(t, key) ==
    LET found[k \in 0 .. KeySize + 1] ==
            IF k = 0 THEN {[node |-> t.root, i |-> 0]}
                     ELSE UNION {Look(t, key, q) : q \in found[k - 1]}
    IN  {IF Kind(t, q.node) = "leaf" THEN t.mem[q.node].value ELSE NULL :
            q \in found[KeySize + 1]}

-----------------------------------------------------------------------------
(* What the tree holds: the leaves, each by the path that leads to it.     *)

\* The nibbles that the pointer with value d in node n stands for.
Step(t, n, d) ==
    IF Kind(t, n) = "edge" THEN t.mem[n].str ELSE IF d = Immediate THEN <<>> ELSE <<d>>

Children(t, n) ==
    CASE Kind(t, n) = "edge" -> {[val |-> Immediate, node |-> t.mem[n].next]}
      [] Kind(t, n) \in Branch ->
            {[val |-> d, node |-> t.mem[n].entries[d]] : d \in DOMAIN t.mem[n].entries}
      [] OTHER -> {}

Contents(t) ==
    LET level[k \in 0 .. KeySize + 1] ==
            IF k = 0 THEN {[path |-> <<>>, node |-> t.root]}
            ELSE UNION {{[path |-> e.path \o Step(t, e.node, c.val), node |-> c.node] :
                            c \in Children(t, e.node)} : e \in level[k - 1]}
    IN  {[key |-> e.path, value |-> t.mem[e.node].value] :
            e \in {e \in UNION {level[k] : k \in 0 .. KeySize + 1} :
                      Kind(t, e.node) = "leaf"}}

Stored ==
    LET contents == Contents(tree)
    IN  [key \in Keys |->
            IF \E v \in Values : [key |-> key, value |-> v] \in contents
            THEN CHOOSE v \in Values : [key |-> key, value |-> v] \in contents
            ELSE NULL]

\* The pointers of the tree, each with the place it is in.
References ==
    (UNION {{<<n, c.val, c.node>> : c \in Children(tree, n)} : n \in DOMAIN tree.mem}) \cup
    (IF tree.root = NIL THEN {} ELSE {<<NIL, Immediate, tree.root>>})

Edges == {n \in DOMAIN tree.mem : Kind(tree, n) = "edge"}

\* TypeOK: the store holds nodes of the six kinds.
TypeOK ==
    /\ \A n \in DOMAIN tree.mem :
          LET node == tree.mem[n] IN
          \/ node \in [kind : {"leaf"}, value : Values]
          \/ node \in [kind : {"edge"}, str : Seq(Nibble), next : Nat]
          \/ /\ node.kind \in Branch
             /\ DOMAIN node.entries \subseteq Nibble \cup {Immediate}
    /\ tree.root \in DOMAIN tree.mem \cup {NIL}
    /\ tree.strings \in Nat
    /\ tree.out = NIL

\* The shape that the insertion relies on without testing it: an edge is not
\* empty and leads to a leaf or a branch (so the first nibble can be compared
\* at once, radix_tree.c:474), a branch has two entries or more and no more
\* than its kind holds, and the immediate entry is a leaf ("We only insert
\* leaves into the immediate slot", radix_tree.c:707).
Shape ==
    \A n \in DOMAIN tree.mem :
        LET node == tree.mem[n] IN
        /\ node.kind = "edge" =>
              /\ node.str # <<>>
              /\ Kind(tree, node.next) \in Branch \cup {"leaf"}
        /\ node.kind \in Branch =>
              /\ Cardinality(DOMAIN node.entries) >= 2
              /\ Immediate \in DOMAIN node.entries =>
                    Kind(tree, node.entries[Immediate]) = "leaf"
        /\ node.kind = "branch4" => Cardinality(DOMAIN node.entries) <= Cap4
        /\ node.kind = "branch8" => Cardinality(DOMAIN node.entries) <= Cap8
        /\ node.kind = "branch16" => Immediate \notin DOMAIN node.entries

\* Every allocated node is referred to from exactly one place and nothing
\* refers to a removed node; the string buffers in use are those of the long
\* edges.  Splits and growth free the node they replace, exactly once.
OwnedOnce ==
    LET references == References IN
    /\ {r[3] : r \in references} = DOMAIN tree.mem
    /\ \A q, r \in references : q[3] = r[3] => q = r
    /\ tree.strings = Cardinality({n \in Edges : Buffers(tree.mem[n].str) = 1})

\* A lookup finds what is stored: every key that is in the tree, whatever
\* other keys are; and a key of full length that is not in the tree is missed
\* unless a stored key is its prefix.  The hashes of the cache are all of full
\* length, so for them lookups are exact.
LookupsRight ==
    LET stored == Stored IN
    \A key \in Keys :
        \/ Get(tree, key) = {stored[key]}
        \/ /\ stored[key] = NULL
           /\ \/ Len(key) < KeySize
              \/ \E m \in 1 .. Len(key) - 1 :
                    \E short \in Keys :
                       short = SubSeq(key, 1, m) /\ stored[short] # NULL

\* The tree is a map: every insertion sets the value of its key and changes no
\* other, through every split, growth and replacement.
Map == INSTANCE MapSpec WITH map <- Stored
RefinesMap == Map!Spec
=============================================================================
