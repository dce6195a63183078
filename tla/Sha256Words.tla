---------------------------- MODULE Sha256Words ----------------------------
(***************************************************************************)
(* Machine words as sets of bit positions, at the width of the code: a     *)
(* 32-bit word is a subset of 0..31 and a 64-bit candidate a subset of     *)
(* 0..63.  Exclusive or is then symmetric difference, a shift moves the    *)
(* members, and a sum modulo 2^n is defined by its carries, so nothing     *)
(* here is recursive.  On top of them are the functions of SHA-256 and its *)
(* constants, as sha256/x1/impl_common.h declares them.  The SIMD versions *)
(* (x4, x4x2) apply the same functions to each lane.                       *)
(***************************************************************************)
EXTENDS Naturals

Bits == 0..31
Words == SUBSET Bits

\* A 32-bit constant from its two halves.
W32(hi, lo) ==
  LET half(n) == {b \in 0..15 : ((n \div 2^b) % 2) = 1}
  IN half(lo) \cup {b + 16 : b \in half(hi)}

Xor(x, y) == (x \ y) \cup (y \ x)
Not(x) == Bits \ x

\* A bit is carried into from a position where both operands have a bit,
\* through positions where at least one has.
Carries(n, x, y) ==
  {i \in 1..(n - 1) : \E j \in x \cap y :
                         j < i /\ \A m \in (j + 1)..(i - 1) : m \in x \cup y}
AddN(n, x, y) == Xor(Xor(x, y), Carries(n, x, y))
Add(x, y) == AddN(32, x, y)
Sub(x, y) == Add(Add(x, Not(y)), {0})

\* x <= y as unsigned numbers.
Leq(x, y) ==
  \/ x = y
  \/ \E b \in y \ x : \A m \in (x \ y) : m < b

Shr(x, n) == {b - n : b \in {c \in x : c >= n}}
rotr(x, n) == {(b + 32 - n) % 32 : b \in x}

s0(w) == Xor(Xor(rotr(w, 7), rotr(w, 18)), Shr(w, 3))
s1(w) == Xor(Xor(rotr(w, 17), rotr(w, 19)), Shr(w, 10))
S0(a) == Xor(Xor(rotr(a, 2), rotr(a, 13)), rotr(a, 22))
S1(e) == Xor(Xor(rotr(e, 6), rotr(e, 11)), rotr(e, 25))
ch(e, f, g) == Xor(e \cap f, Not(e) \cap g)
maj(a, b, c) == Xor(Xor(a \cap b, a \cap c), b \cap c)

\* __builtin_bswap32: byte number 3 - b takes the place of byte b.
Bswap(x) == {8 * (3 - (b \div 8)) + (b % 8) : b \in x}

\* k[i] of the code is K(i).
KTable == <<
  W32(\h428a,\h2f98), W32(\h7137,\h4491), W32(\hb5c0,\hfbcf), W32(\he9b5,\hdba5),
  W32(\h3956,\hc25b), W32(\h59f1,\h11f1), W32(\h923f,\h82a4), W32(\hab1c,\h5ed5),
  W32(\hd807,\haa98), W32(\h1283,\h5b01), W32(\h2431,\h85be), W32(\h550c,\h7dc3),
  W32(\h72be,\h5d74), W32(\h80de,\hb1fe), W32(\h9bdc,\h06a7), W32(\hc19b,\hf174),
  W32(\he49b,\h69c1), W32(\hefbe,\h4786), W32(\h0fc1,\h9dc6), W32(\h240c,\ha1cc),
  W32(\h2de9,\h2c6f), W32(\h4a74,\h84aa), W32(\h5cb0,\ha9dc), W32(\h76f9,\h88da),
  W32(\h983e,\h5152), W32(\ha831,\hc66d), W32(\hb003,\h27c8), W32(\hbf59,\h7fc7),
  W32(\hc6e0,\h0bf3), W32(\hd5a7,\h9147), W32(\h06ca,\h6351), W32(\h1429,\h2967),
  W32(\h27b7,\h0a85), W32(\h2e1b,\h2138), W32(\h4d2c,\h6dfc), W32(\h5338,\h0d13),
  W32(\h650a,\h7354), W32(\h766a,\h0abb), W32(\h81c2,\hc92e), W32(\h9272,\h2c85),
  W32(\ha2bf,\he8a1), W32(\ha81a,\h664b), W32(\hc24b,\h8b70), W32(\hc76c,\h51a3),
  W32(\hd192,\he819), W32(\hd699,\h0624), W32(\hf40e,\h3585), W32(\h106a,\ha070),
  W32(\h19a4,\hc116), W32(\h1e37,\h6c08), W32(\h2748,\h774c), W32(\h34b0,\hbcb5),
  W32(\h391c,\h0cb3), W32(\h4ed8,\haa4a), W32(\h5b9c,\hca4f), W32(\h682e,\h6ff3),
  W32(\h748f,\h82ee), W32(\h78a5,\h636f), W32(\h84c8,\h7814), W32(\h8cc7,\h0208),
  W32(\h90be,\hfffa), W32(\ha450,\h6ceb), W32(\hbef9,\ha3f7), W32(\hc671,\h78f2)>>
K(i) == KTable[i + 1]

\* H_INIT: the working variables a, b, .., h at the start.
H == << W32(\h6a09,\he667), W32(\hbb67,\hae85), W32(\h3c6e,\hf372), W32(\ha54f,\hf53a),
        W32(\h510e,\h527f), W32(\h9b05,\h688c), W32(\h1f83,\hd9ab), W32(\h5be0,\hcd19) >>

c80 == {31}   \* 0x80000000, the padding bit
c64 == {6}    \* the length of the message in bits

(***************************************************************************)
(* The rounds.  s = <<a, b, .., h>> are the working variables.             *)
(***************************************************************************)
Temp2(s) == Add(S0(s[1]), maj(s[1], s[2], s[3]))

\* What is added to d and, with Temp2, becomes the new a; kw is the sum of the
\* round's constant and its word.
Temp1(s, kw) == Add(Add(Add(s[8], S1(s[5])), ch(s[5], s[6], s[7])), kw)

Compress(s, kw) ==
  LET temp1 == Temp1(s, kw)
  IN << Add(temp1, Temp2(s)), s[1], s[2], s[3], Add(s[4], temp1), s[5], s[6], s[7] >>

(***************************************************************************)
(* What sha256_custom, the plain version, does: the others are measured    *)
(* against it.  An input is 64 bits, its two words read big-endian.        *)
(***************************************************************************)
Low(d) == {b \in d : b < 32}
High(d) == {b - 32 : b \in d \ Bits}

Block(w0, w1) ==
  [j \in 0..15 |-> CASE j = 0 -> Bswap(w0)
                     [] j = 1 -> Bswap(w1)
                     [] j = 2 -> c80
                     [] j = 15 -> c64
                     [] OTHER -> {}]

\* Word n of the schedule from the sixteen words before it.
Extended(w, n) == Add(Add(s1(w[n - 2]), w[n - 7]), Add(s0(w[n - 15]), w[n - 16]))
=============================================================================
