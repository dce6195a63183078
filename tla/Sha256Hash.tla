----------------------------- MODULE Sha256Hash -----------------------------
(***************************************************************************)
(* The SHA-256 versions under src/sha256 and the searches built on them.   *)
(* They compute the same function in different orders: some make the whole *)
(* message schedule first, some make each word in the round that uses it,  *)
(* in 64, 48 or 16 slots of memory, with the last two words in scratch     *)
(* registers; words that are the same for every input are folded into      *)
(* constants; one, four or eight inputs are hashed side by side, a lane    *)
(* each.  A search hashes consecutive candidates group by group until a    *)
(* hash is the target, and may drop a group before its last rounds.        *)
(*                                                                         *)
(* One step is one word of the schedule, one round, or both where the code *)
(* fuses them.  plain is a history variable: sha256_custom run in step     *)
(* with the version on the same inputs.                                    *)
(***************************************************************************)
EXTENDS Sha256Words, Sequences

CONSTANTS Inputs,    \* the 64-bit candidates of the run, as a sequence
          Calls      \* the calls of the run: hash functions and searches

VARIABLES pc,        \* "custom" (raw is being made), "idle", "load", "rounds",
                     \* "rest" (past the early test), "compare" or "done"
          call,      \* the call being served
          data,      \* the inputs of the group, in the order of memory
          n,         \* words of the schedule made so far
          i,         \* rounds done so far
          reg,       \* reg[l]: working variables a..h of lane l
          w,         \* w[l]: the schedule memory of lane l, by slot
          t,         \* t[l]: scratch registers of lane l (t0, t1; scra0, scra1)
          hash,      \* what was written to the output, hash by hash
          answer,    \* what the search returned
          plain,     \* history: per input of data, its schedule and variables
          raw        \* history: the hash of every input, by sha256_custom

vars == <<pc, call, data, n, i, reg, w, t, hash, answer, plain, raw>>

(***************************************************************************)
(* The versions: how many lanes, how many words are made before the first  *)
(* round (each later one in the round that uses it), the slots of memory,  *)
(* where w[i-2] is read, and whether constants are folded.  With fewer     *)
(* than 64 slots the block itself, words 0 to 15, is never stored.         *)
(***************************************************************************)
sha256_optim      == [lanes |-> 1, first |-> 64, slots |-> 64, two |-> "memory",    folded |-> "none"]
sha256_fused      == [lanes |-> 1, first |-> 32, slots |-> 64, two |-> "memory",    folded |-> "none"]
sha256_fullyfused == [lanes |-> 1, first |-> 16, slots |-> 64, two |-> "moving",    folded |-> "none"]
sha256x4_optim    == [lanes |-> 4, first |-> 64, slots |-> 64, two |-> "registers", folded |-> "none"]
sha256x4_fused    == [lanes |-> 4, first |-> 32, slots |-> 64, two |-> "registers", folded |-> "none"]
sha256x4_fullyfused ==
                     [lanes |-> 4, first |-> 16, slots |-> 48, two |-> "registers", folded |-> "none"]
sha256x4_cyclic   == [lanes |-> 4, first |-> 16, slots |-> 16, two |-> "registers", folded |-> "none"]
sha256x4_asm      == [lanes |-> 4, first |-> 64, slots |-> 64, two |-> "registers", folded |-> "none"]
sha256x4_fullyfused_asm ==
                     [lanes |-> 4, first |-> 16, slots |-> 48, two |-> "registers", folded |-> "negated"]
sha256x4x2_optim  == [lanes |-> 8, first |-> 64, slots |-> 64, two |-> "registers", folded |-> "none"]
sha256x4x2_fused  == [lanes |-> 8, first |-> 32, slots |-> 64, two |-> "registers", folded |-> "none"]

\* The three searches that hash inside their own loop.
reverse_sha256x4_fullyfused == sha256x4_fullyfused
reverse_sha256x4_fullyfused_asm == [sha256x4_fullyfused EXCEPT !.folded = "plain"]
reverse_sha256x4_fullyfused_asm_2 == [sha256x4_fullyfused EXCEPT !.folded = "plain"]

\* The ones that call a hash function for each group; config.h names it.
reverse_sha256 == sha256_fullyfused
reverse_sha256_x4 == sha256x4_fullyfused_asm
reverse_sha256_x4x2orx8 == sha256x4x2_fused

Versions == [
  sha256_optim |-> sha256_optim, sha256_fused |-> sha256_fused,
  sha256_fullyfused |-> sha256_fullyfused,
  sha256x4_optim |-> sha256x4_optim, sha256x4_fused |-> sha256x4_fused,
  sha256x4_fullyfused |-> sha256x4_fullyfused, sha256x4_cyclic |-> sha256x4_cyclic,
  sha256x4_asm |-> sha256x4_asm, sha256x4_fullyfused_asm |-> sha256x4_fullyfused_asm,
  sha256x4x2_optim |-> sha256x4x2_optim, sha256x4x2_fused |-> sha256x4x2_fused,
  reverse_sha256 |-> reverse_sha256, reverse_sha256_x4 |-> reverse_sha256_x4,
  reverse_sha256_x4x2orx8 |-> reverse_sha256_x4x2orx8,
  reverse_sha256x4_fullyfused |-> reverse_sha256x4_fullyfused,
  reverse_sha256x4_fullyfused_asm |-> reverse_sha256x4_fullyfused_asm,
  reverse_sha256x4_fullyfused_asm_2 |-> reverse_sha256x4_fullyfused_asm_2 ]

Searches == {"reverse_sha256", "reverse_sha256_x4", "reverse_sha256_x4x2orx8",
             "reverse_sha256x4_fullyfused", "reverse_sha256x4_fullyfused_asm",
             "reverse_sha256x4_fullyfused_asm_2"}
IsSearch(c) == "start" \in DOMAIN c

\* The round before which a search may drop the group, and the variable it
\* looks at: a after round 56, or e after round 60.
EarlyTest == [ reverse_sha256x4_fullyfused |-> [at |-> 57, var |-> 1],
               reverse_sha256x4_fullyfused_asm |-> [at |-> 61, var |-> 5],
               reverse_sha256x4_fullyfused_asm_2 |-> [at |-> 57, var |-> 1] ]

\* A candidate has 64 bits.  A function hashes as many inputs as it has lanes,
\* a search starts and ends with a candidate.
Candidates == SUBSET (0..63)
ASSUME CallAssumption ==
  /\ Inputs \in Seq(Candidates)
  /\ \A c \in Calls :
       /\ c.fn \in DOMAIN Versions
       /\ IsSearch(c) <=> c.fn \in Searches
       /\ IF IsSearch(c)
          THEN c.start \in Candidates /\ c.end \in Candidates
          ELSE c.data \in [1..Versions[c.fn].lanes -> {Inputs[j] : j \in DOMAIN Inputs}]

HasEarlyTest == call.fn \in DOMAIN EarlyTest

V == Versions[call.fn]
Lanes == 1..V.lanes

(***************************************************************************)
(* Loading a group.  Lane l of the x4x2 versions is given the low word of  *)
(* one input and the high word of another: the shuffles of the two halves  *)
(* of data and the two blends put the high words four inputs further on.   *)
(***************************************************************************)
LowOf(l) == IF V.lanes = 8 THEN <<1, 2, 5, 6, 3, 4, 7, 8>>[l] ELSE l
HighOf(l) == IF V.lanes = 8 THEN <<5, 6, 1, 2, 7, 8, 3, 4>>[l] ELSE l

LaneBlock(l) == Block(Low(data[LowOf(l)]), High(data[HighOf(l)]))

\* The stack array is not initialised; no version reads a slot before it has
\* written it, so which bits an unwritten slot holds makes no difference.
Unwritten == Bits

Load ==
  /\ pc = "load"
  /\ pc' = "rounds"
  /\ n' = 16
  /\ i' = 0
  /\ reg' = [l \in Lanes |-> H]
  /\ w' = [l \in Lanes |-> [j \in 0..(V.slots - 1) |->
             IF V.slots = 64 /\ j < 16 THEN LaneBlock(l)[j]
             ELSE IF l \in DOMAIN w THEN w[l][j] ELSE Unwritten]]
  /\ t' = [l \in Lanes |-> <<LaneBlock(l)[0], LaneBlock(l)[1]>>]
  /\ plain' = [j \in DOMAIN data |->
                 [w |-> Block(Low(data[j]), High(data[j])), s |-> H]]
  /\ UNCHANGED <<call, data, hash, answer, raw>>

(***************************************************************************)
(* The schedule.                                                           *)
(***************************************************************************)
Slot(j) == IF V.slots = 64 THEN j ELSE (j - 16) % V.slots
Mem(l, j) == w[l][Slot(j)]

\* w[0] and w[1] where words 16 and 17 are made.
FirstWord(l, j) == IF V.two = "memory" THEN Mem(l, j) ELSE t[l][j + 1]

\* w[n-2]: from memory, from t0 or t1 in turn, or from scra1 (scra0 for w18).
Two(l) ==
  CASE V.two = "memory" \/ (V.two = "moving" /\ n >= 32) -> Mem(l, n - 2)
    [] V.two = "moving" /\ n < 32 -> IF n = 18 THEN t[l][1] ELSE t[l][2]
    [] V.two = "registers" -> IF n < 32 THEN t[l][1 + (n % 2)] ELSE t[l][1]

\* The scratch registers once x is word n.
ScratchAfter(l, x) ==
  CASE V.two = "memory" \/ (V.two = "moving" /\ n > 30) -> t[l]
    [] V.two = "moving" /\ n <= 30 ->
         IF n = 17 THEN <<t[l][1], x>>
         ELSE <<x, IF n < 19 THEN t[l][2] ELSE t[l][1]>>
    [] V.two = "registers" ->
         IF n < 32 THEN [t[l] EXCEPT ![1 + (n % 2)] = x] ELSE <<t[l][2], x>>

\* Words 16 to 31 leave out the words of the block that are zero.
Word16To18(l) ==
  CASE n = 16 -> Add(FirstWord(l, 0), s0(FirstWord(l, 1)))
    [] n = 17 -> Add(FirstWord(l, 1), Add(s0(c80), s1(c64)))
    [] n = 18 -> Add(c80, s1(Two(l)))
Word19To22(l) == IF n = 22 THEN Add(c64, s1(Two(l))) ELSE s1(Two(l))
Word23To29(l) == Add(Mem(l, n - 7), s1(Two(l)))
Word30And31(l) ==
  LET fromBlock == IF n = 30 THEN s0(c64) ELSE Add(c64, s0(Mem(l, 16)))
  IN Add(fromBlock, Add(Mem(l, n - 7), s1(Two(l))))
LaterWord(l) ==
  Add(Add(Mem(l, n - 16), Mem(l, n - 7)), Add(s0(Mem(l, n - 15)), s1(Two(l))))

NewWord(l) ==
  CASE n \in 16..18 -> Word16To18(l)
    [] n \in 19..22 -> Word19To22(l)
    [] n \in 23..29 -> Word23To29(l)
    [] n \in 30..31 -> Word30And31(l)
    [] n >= 32 -> LaterWord(l)

(***************************************************************************)
(* Words and rounds of the assembly versions.  Sums of constants are       *)
(* folded: a round adds a partial word and a constant that holds the rest  *)
(* of the word and the round's own constant, and the word that is kept is  *)
(* the partial word with an offset.                                        *)
(***************************************************************************)
Partial(l) ==
  CASE n = 17 -> FirstWord(l, 1)
    [] n \in {18, 22} -> s1(Two(l))
    [] n = 30 -> Add(Mem(l, 23), s1(Two(l)))
    [] OTHER -> NewWord(l)

\* Mutant: 64, the length, is left out of the word 22 that is kept.
WordOffsetUnpadded ==
  CASE n = 17 -> W32(\h1128, \h2000)
    [] n = 18 -> c80
    [] n = 30 -> W32(\h8010, \h0008)
    [] OTHER -> {}

WordOffset ==
  CASE n = 17 -> W32(\h1128, \h2000)
    [] n = 18 -> c80
    [] n = 22 -> c64
    [] n = 30 -> W32(\h8010, \h0008)
    [] OTHER -> {}

FoldedConstant(j) ==
  CASE j = 15 -> W32(\hc19b, \hf1b4)
    [] j = 16 -> W32(\he49b, \h69c1)
    [] j = 17 -> W32(\h00e6, \h6786)
    [] j = 18 -> W32(\h8fc1, \h9dc6)
    [] j = 22 -> W32(\h5cb0, \haa1c)
    [] j = 30 -> W32(\h86da, \h6359)
    [] OTHER -> K(j)

\* Rounds 0, 1 and 2: H is known, so whole sums of them are constants.  The
\* hash function takes ~e & g from a subtraction, the searches from ~e itself.
FirstVariables(l) ==
  LET w0 == t[l][1]
      e1 == Add(w0, W32(\h98c7, \he2a2))
      a1 == Add(w0, W32(\hfc08, \h884d))
      not_e1 == IF V.folded = "negated" THEN Sub(W32(\h6738, \h1d5d), w0) ELSE Not(e1)
      temp1 == Add(Add(t[l][2], S1(e1)), Xor(e1 \cap H[5], not_e1 \cap H[6]))
      e2 == Add(temp1, W32(\hcd2a, \h11ae))
      a2 == Add(Add(temp1, Add(S0(a1), a1 \cap W32(\hd16e, \h48e2))), W32(\hbabc, \hc441))
      not_e2 == IF V.folded = "negated" THEN Sub(W32(\hb2d5, \hee51), temp1) ELSE Not(e2)
      temp2 == Add(S1(e2), Xor(e2 \cap e1, not_e2 \cap H[5]))
      e3 == Add(temp2, W32(\h8c2e, \h12e0))
      a3 == Add(Add(temp2, Add(S0(a2), maj(a2, a1, H[1]))), W32(\hd0c6, \h645b))
  IN <<a3, a2, a1, H[1], e3, e2, e1, H[5]>>

\* What the constants above stand for: the offsets of the words 17 and 30, the
\* sums of the rounds 15 to 30, then those of the rounds 0, 1 and 2.
\* 0xb2d5ee51 is not the complement of 0xcd2a11ae, but only the highest bit
\* differs, and H[5] does not have it.
ASSUME FoldedSums ==
  /\ W32(\h1128, \h2000) = Add(s0(c80), s1(c64))
  /\ W32(\h8010, \h0008) = s0(c64)
  /\ W32(\hc19b, \hf1b4) = Add(K(15), c64)
  /\ W32(\h00e6, \h6786) = Add(K(17), W32(\h1128, \h2000))
  /\ W32(\h8fc1, \h9dc6) = Add(K(18), c80)
  /\ W32(\h5cb0, \haa1c) = Add(K(22), c64)
  /\ W32(\h86da, \h6359) = Add(K(30), W32(\h8010, \h0008))
  /\ W32(\h98c7, \he2a2) = Add(H[4], Temp1(H, K(0)))
  /\ W32(\hfc08, \h884d) = Add(Temp1(H, K(0)), Temp2(H))
  /\ W32(\h6738, \h1d5d) = Not(W32(\h98c7, \he2a2))
  /\ W32(\hcd2a, \h11ae) = Add(H[3], Add(H[7], K(1)))
  /\ W32(\hd16e, \h48e2) = Xor(H[1], H[2])
  /\ W32(\hbabc, \hc441) = Add(Add(H[7], K(1)), H[1] \cap H[2])
  /\ W32(\hb2d5, \hee51) = Add(Not(W32(\hcd2a, \h11ae)), {31})
  /\ W32(\h8c2e, \h12e0) = Add(H[2], W32(\hd0c6, \h645b))
  /\ W32(\hd0c6, \h645b) = Add(H[6], Add(K(2), c80))
  /\ 31 \notin H[5]

(***************************************************************************)
(* The history of sha256_custom on the same inputs, word n and round j.    *)
(***************************************************************************)
PlainWord(p) == [p EXCEPT !.w = [k \in 0..n |-> IF k = n THEN Extended(@, n) ELSE @[k]]]
PlainRound(p, j) == [p EXCEPT !.s = Compress(@, Add(K(j), p.w[j]))]

(***************************************************************************)
(* The steps of a version.                                                 *)
(***************************************************************************)
Hashing == pc \in {"rounds", "rest"}
TestDue == HasEarlyTest /\ pc = "rounds" /\ i = EarlyTest[call.fn].at

KeepWord(l, x) == [w[l] EXCEPT ![Slot(n)] = x]

\* Mutant: the length of the message, word 15, is taken for zero.
RoundWordNoLength(l) ==
  CASE V.slots = 64 \/ i >= 16 -> Mem(l, i)
    [] V.slots < 64 /\ i < 2 -> t[l][i + 1]
    [] OTHER -> IF i = 2 THEN c80 ELSE {}

\* The word a round takes from memory or, where the block is not stored, from
\* the scratch registers and the constants.
RoundWord(l) ==
  CASE V.slots = 64 \/ i >= 16 -> Mem(l, i)
    [] V.slots < 64 /\ i < 2 -> t[l][i + 1]
    [] OTHER -> IF i = 2 THEN c80 ELSE IF i = 15 THEN c64 ELSE {}

RoundSum(l) ==
  IF V.folded # "none" /\ i = 15 THEN FoldedConstant(15) ELSE Add(K(i), RoundWord(l))

\* A word of the schedule made before the first round.
MakeWord ==
  /\ Hashing
  /\ n < V.first
  /\ n' = n + 1
  /\ w' = [l \in Lanes |-> KeepWord(l, NewWord(l))]
  /\ t' = [l \in Lanes |-> ScratchAfter(l, NewWord(l))]
  /\ plain' = [j \in DOMAIN plain |-> PlainWord(plain[j])]
  /\ UNCHANGED <<pc, call, data, i, reg, hash, answer, raw>>

\* A round whose word is there already.
Round ==
  /\ Hashing /\ ~TestDue
  /\ n >= V.first
  /\ i < n
  /\ V.folded # "none" => i > 0
  /\ i' = i + 1
  /\ reg' = [l \in Lanes |-> Compress(reg[l], RoundSum(l))]
  /\ plain' = [j \in DOMAIN plain |-> PlainRound(plain[j], i)]
  /\ UNCHANGED <<pc, call, data, n, w, t, hash, answer, raw>>

\* A round that makes its own word.
FusedRound ==
  /\ Hashing /\ ~TestDue
  /\ n >= V.first /\ n < 64
  /\ i = n
  /\ V.folded # "none" => n >= 32
  /\ n' = n + 1
  /\ i' = i + 1
  /\ w' = [l \in Lanes |-> KeepWord(l, NewWord(l))]
  /\ t' = [l \in Lanes |-> ScratchAfter(l, NewWord(l))]
  /\ reg' = [l \in Lanes |-> Compress(reg[l], Add(K(i), NewWord(l)))]
  /\ plain' = [j \in DOMAIN plain |-> PlainRound(PlainWord(plain[j]), i)]
  /\ UNCHANGED <<pc, call, data, hash, answer, raw>>

\* The first three rounds of an assembly version.
FirstRounds ==
  /\ Hashing
  /\ V.folded # "none"
  /\ i = 0
  /\ i' = 3
  /\ reg' = [l \in Lanes |-> FirstVariables(l)]
  /\ plain' = [j \in DOMAIN plain |->
                 PlainRound(PlainRound(PlainRound(plain[j], 0), 1), 2)]
  /\ UNCHANGED <<pc, call, data, n, w, t, hash, answer, raw>>

\* Rounds 16 to 31 of an assembly version.
FoldedRound ==
  /\ Hashing
  /\ V.folded # "none"
  /\ i = n /\ n < 32
  /\ n' = n + 1
  /\ i' = i + 1
  /\ LET word(l) == Add(Partial(l), WordOffset)
     IN /\ w' = [l \in Lanes |-> KeepWord(l, word(l))]
        /\ t' = [l \in Lanes |-> ScratchAfter(l, word(l))]
  /\ reg' = [l \in Lanes |-> Compress(reg[l], Add(Partial(l), FoldedConstant(i)))]
  /\ plain' = [j \in DOMAIN plain |-> PlainRound(PlainWord(plain[j]), i)]
  /\ UNCHANGED <<pc, call, data, hash, answer, raw>>

\* Mutant: sha256x4_asm writes the working variables as they are.
WrittenRaw(s) == s

(***************************************************************************)
(* The end of a group.  The output holds the hash of input j at place j;   *)
(* sha256x4_asm alone adds H and writes the digest's big-endian words.     *)
(***************************************************************************)
Written(s) ==
  IF call.fn = "sha256x4_asm" THEN [v \in 1..8 |-> Bswap(Add(s[v], H[v]))] ELSE s

Store ==
  /\ Hashing
  /\ i = 64
  /\ hash' = [j \in Lanes |-> Written(reg[CHOOSE l \in Lanes : LowOf(l) = j])]
  /\ pc' = IF IsSearch(call) THEN "compare" ELSE "done"
  /\ UNCHANGED <<call, data, n, i, reg, w, t, answer, plain, raw>>

\* What turns a digest into what the versions write, as protocol.c does with
\* the hash of a request.
sha256_normalize(digest) == [v \in 1..8 |-> Sub(Bswap(digest[v]), H[v])]

(***************************************************************************)
(* The searches.                                                           *)
(***************************************************************************)
Numeral(m) == {b \in 0..3 : ((m \div <<1, 2, 4, 8>>[b + 1]) % 2) = 1}
Plus(x, m) == AddN(64, x, Numeral(m))

\* A target of the run: the hash of an input, or one that agrees with it in
\* everything the early tests look at and is the hash of no input.
NearMiss(h) == [h EXCEPT ![1] = Add(@, {0}), ![5] = Add(@, {0})]
Target(c) == IF c.near THEN NearMiss(raw[c.of]) ELSE raw[c.of]

\* The value a has after round 56 if the rest of the rounds end in target.
Back(hi, lo, x, y, z) == Sub(hi, Sub(lo, Add(S0(x), maj(x, y, z))))
\* Mutant: one round is taken back too few.
PredictedLate(target) ==
  LET d63 == Back(target[5], target[1], target[2], target[3], target[4])
      d62 == Back(target[6], target[2], target[3], target[4], d63)
  IN Back(target[7], target[3], target[4], d63, d62)

Predicted(target) ==
  LET d63 == Back(target[5], target[1], target[2], target[3], target[4])
      d62 == Back(target[6], target[2], target[3], target[4], d63)
      d61 == Back(target[7], target[3], target[4], d63, d62)
  IN Back(target[8], target[4], d63, d62, d61)

\* e after round 60 is h at the end.
Expected == IF EarlyTest[call.fn].var = 1 THEN Predicted(Target(call)) ELSE Target(call)[8]

KeepGroup ==
  /\ Hashing /\ TestDue
  /\ \E l \in Lanes : reg[l][EarlyTest[call.fn].var] = Expected
  /\ pc' = "rest"
  /\ UNCHANGED <<call, data, n, i, reg, w, t, hash, answer, plain, raw>>

\* The next group of candidates, as long as its first one is in the range.
NextGroup ==
  /\ data' = [j \in Lanes |-> Plus(data[j], V.lanes)]
  /\ IF Leq(data'[1], call.end)
     THEN pc' = "load" /\ UNCHANGED answer
     ELSE pc' = "done" /\ answer' = {}

DropGroup ==
  /\ Hashing /\ TestDue
  /\ \A l \in Lanes : reg[l][EarlyTest[call.fn].var] # Expected
  /\ NextGroup
  /\ UNCHANGED <<call, n, i, reg, w, t, hash, plain, raw>>

Matches == {j \in Lanes : hash[j] = Target(call)}

Found ==
  /\ pc = "compare"
  /\ \E j \in Matches : /\ \A m \in Matches : j <= m
                        /\ answer' = data[j]
  /\ pc' = "done"
  /\ UNCHANGED <<call, data, n, i, reg, w, t, hash, plain, raw>>

NotFound ==
  /\ pc = "compare"
  /\ Matches = {}
  /\ NextGroup
  /\ UNCHANGED <<call, n, i, reg, w, t, hash, plain, raw>>

(***************************************************************************)
(* Calls and returns.  The run starts with sha256_custom on every input.   *)
(***************************************************************************)
NoCall == [fn |-> "none"]
Nothing == <<>>

Init ==
  /\ pc = "custom"
  /\ call = NoCall
  /\ data = Inputs
  /\ n = 16 /\ i = 0
  /\ reg = Nothing /\ w = Nothing /\ t = Nothing /\ hash = Nothing
  /\ answer = {}
  /\ plain = [j \in DOMAIN Inputs |->
                [w |-> Block(Low(Inputs[j]), High(Inputs[j])), s |-> H]]
  /\ raw = Nothing

CustomWord ==
  /\ pc = "custom" /\ n < 64
  /\ n' = n + 1
  /\ plain' = [j \in DOMAIN plain |-> PlainWord(plain[j])]
  /\ UNCHANGED <<pc, call, data, i, reg, w, t, hash, answer, raw>>

CustomRound ==
  /\ pc = "custom" /\ n = 64 /\ i < 64
  /\ i' = i + 1
  /\ plain' = [j \in DOMAIN plain |-> PlainRound(plain[j], i)]
  /\ UNCHANGED <<pc, call, data, n, reg, w, t, hash, answer, raw>>

Clear ==
  /\ pc' = "idle"
  /\ call' = NoCall
  /\ data' = Nothing /\ reg' = Nothing /\ w' = Nothing /\ t' = Nothing
  /\ hash' = Nothing /\ plain' = Nothing
  /\ answer' = {}
  /\ n' = 16 /\ i' = 0

CustomReturn ==
  /\ pc = "custom" /\ i = 64
  /\ raw' = [d \in {Inputs[j] : j \in DOMAIN Inputs} |->
               plain[CHOOSE j \in DOMAIN Inputs : Inputs[j] = d].s]
  /\ Clear

\* reverse_sha256 looks at its range before the first hash, the other searches
\* hash a group first.
EmptyRange(c) == c.fn = "reverse_sha256" /\ ~Leq(c.start, c.end)

Call(c) ==
  /\ pc = "idle"
  /\ call' = c
  /\ data' = IF IsSearch(c)
             THEN [j \in 1..Versions[c.fn].lanes |-> Plus(c.start, j - 1)]
             ELSE c.data
  /\ pc' = IF EmptyRange(c) THEN "done" ELSE "load"
  /\ answer' = {}
  /\ UNCHANGED <<n, i, reg, w, t, hash, plain, raw>>

Return == pc = "done" /\ Clear /\ UNCHANGED raw

Next ==
  \/ CustomWord \/ CustomRound \/ CustomReturn
  \/ \E c \in Calls : Call(c)
  \/ Load \/ MakeWord \/ Round \/ FusedRound \/ FirstRounds \/ FoldedRound
  \/ Store \/ KeepGroup \/ DropGroup \/ Found \/ NotFound \/ Return

Spec == Init /\ [][Next]_vars

(***************************************************************************)
(* Properties.                                                             *)
(***************************************************************************)
\* Every variable keeps its range.
TypeOK ==
  /\ pc \in {"custom", "idle", "load", "rounds", "rest", "compare", "done"}
  /\ n \in 16..64 /\ i \in 0..64
  /\ pc # "custom" => i <= n
  /\ call \in Calls \cup {NoCall}
  /\ \A j \in DOMAIN data : data[j] \subseteq 0..63
  /\ answer \subseteq 0..63
  /\ Hashing => /\ DOMAIN reg = Lanes /\ DOMAIN w = Lanes /\ DOMAIN t = Lanes
                /\ \A l \in Lanes :
                     /\ Len(reg[l]) = 8 /\ \A v \in 1..8 : reg[l][v] \in Words
                     /\ DOMAIN w[l] = 0..(V.slots - 1)
                     /\ \A j \in DOMAIN w[l] : w[l][j] \in Words

\* After every round, in every lane, a..h are what sha256_custom has after the
\* same round on the input whose hash the lane will write: folding constants,
\* reordering words and rotating scratch registers change nothing.
RegistersAgree ==
  Hashing => \A l \in Lanes : reg[l] = plain[LowOf(l)].s

\* The sixteen words a later one can still need are each in the slot where
\* that word will look for it, whichever of 64, 48 or 16 slots there are: no
\* word is overwritten too early or stored with part of it left out.
WindowHeld ==
  Hashing => \A l \in Lanes : \A j \in (n - 16)..(n - 1) :
                j >= 16 => Mem(l, j) = plain[LowOf(l)].w[j]

\* The output of a hash function holds the hash of input j at place j; what
\* sha256x4_asm writes is the digest, which sha256_normalize turns into it.
HashInPlace ==
  pc = "done" /\ ~IsSearch(call) =>
    \A j \in DOMAIN hash :
      raw[data[j]] = IF call.fn = "sha256x4_asm" THEN sha256_normalize(hash[j]) ELSE hash[j]

\* A search returns the first candidate of its range whose hash is the target,
\* and nothing only if there is none: no early test drops a group with an
\* answer and no near miss is taken for one.  (The last group may reach past
\* the range; a match there is returned too.)
SearchRight ==
  pc = "done" /\ IsSearch(call) =>
    LET match == {d \in DOMAIN raw : Leq(call.start, d) /\ raw[d] = Target(call)}
    IN IF answer = {}
       THEN \A d \in match : ~Leq(d, call.end)
       ELSE answer \in match /\ \A d \in match : Leq(answer, d)
=============================================================================
