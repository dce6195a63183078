---------------------------- MODULE MCRadixTree ----------------------------
(***************************************************************************)
(* Nibbles are 0 .. 3, so branches of 2, 3, 4 and 5 entries stand for those *)
(* of 4, 8, 16 and 17.  The keys have one or two bytes, as sequences of    *)
(* two or four nibbles: five of them part behind <<0, 0>>, which is itself *)
(* a key, two of these share a third nibble, and two keys part from the    *)
(* others at the first and at the second nibble.                           *)
(***************************************************************************)
EXTENDS RadixTree

MCKeys ==
    { <<0, 0>>, <<0, 0, 0, 0>>, <<0, 0, 0, 1>>, <<0, 0, 1, 1>>,
      <<0, 0, 2, 2>>, <<0, 0, 3, 3>>, <<0, 1>>, <<1, 0>> }

\* Which index a node has makes no difference, nor what the last insertion
\* was: two states with the same view differ in these only.  Without it every
\* order of insertion gives a state of its own.
RECURSIVE Unnamed(_)
Unnamed(n) ==
    CASE Kind(tree, n) = "edge" ->
            <<tree.mem[n].str, Unnamed(tree.mem[n].next)>>
      [] Kind(tree, n) \in Branch ->
            <<Kind(tree, n), [d \in DOMAIN tree.mem[n].entries |->
                                 Unnamed(tree.mem[n].entries[d])]>>
      [] Kind(tree, n) = "leaf" -> tree.mem[n].value
      [] OTHER -> NULL

IndexFree ==
    <<Unnamed(tree.root), Cardinality(DOMAIN tree.mem), tree.strings>>
=============================================================================
