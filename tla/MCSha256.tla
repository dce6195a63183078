------------------------------ MODULE MCSha256 ------------------------------
(***************************************************************************)
(* Instances of Sha256Hash: eleven consecutive candidates on both sides of *)
(* 2^32, every hash function, and every search over ranges that end with a *)
(* hit, a near miss or no answer in the first or a later group, or are     *)
(* empty.                                                                  *)
(***************************************************************************)
EXTENDS Sha256Hash

\* -3, -2, -1 and 0 to 7, each plus 2^32.
MCInputs == [j \in 1..11 |->
  IF j < 4 THEN (2..31) \cup {b \in 0..1 : ((j \div 2^b) % 2) = 1}
  ELSE {32} \cup {b \in 0..2 : (((j - 4) \div 2^b) % 2) = 1}]

Hash(fn, places) == [fn |-> fn, data |-> [j \in DOMAIN places |-> MCInputs[places[j]]]]
Search(fn, start, end, of, near) ==
  [fn |-> fn, start |-> MCInputs[start], end |-> MCInputs[end], of |-> MCInputs[of], near |-> near]

MixedFour == <<3, 4, 1, 11>>
SameUpper == <<4, 5, 6, 7, 8, 9, 10, 11>>

FourLanes == {"sha256x4_optim", "sha256x4_fused", "sha256x4_fullyfused",
              "sha256x4_cyclic", "sha256x4_asm", "sha256x4_fullyfused_asm"}
Reversing == {"reverse_sha256_x4", "reverse_sha256x4_fullyfused",
              "reverse_sha256x4_fullyfused_asm", "reverse_sha256x4_fullyfused_asm_2"}

MCCalls ==
  {Hash(fn, <<p>>) : fn \in {"sha256_optim", "sha256_fused", "sha256_fullyfused"}, p \in {3, 11}}
  \cup {Hash(fn, MixedFour) : fn \in FourLanes}
  \cup {Hash(fn, SameUpper) : fn \in {"sha256x4x2_optim", "sha256x4x2_fused"}}
  \cup {Search(fn, 1, 7, of, near) : fn \in Reversing, of \in {4, 6}, near \in BOOLEAN}
  \cup {Search("reverse_sha256", 3, 4, of, FALSE) : of \in {4, 5}}
  \cup {Search("reverse_sha256", 4, 3, 4, FALSE)}
  \cup {Search("reverse_sha256_x4x2orx8", 4, 11, 10, near) : near \in BOOLEAN}
=============================================================================
