------------------------------- MODULE Sha256 -------------------------------
(***************************************************************************)
(* crypto/sha256.py: message schedule, compression and digest, on words of *)
(* any width.  Rotations and constants are parameters, since the ones of   *)
(* the code only fit 32 bits.                                              *)
(***************************************************************************)
EXTENDS Padding, Bitwise

CONSTANTS
    ROUNDS,           \* 64 in the code
    K,                \* a word for every round
    INITIAL_HASH,     \* eight words
    BIG_SIGMA0, BIG_SIGMA1,      \* three rotations each
    SMALL_SIGMA0, SMALL_SIGMA1   \* two rotations and a shift each

ASSUME Sha256Assumption == Len(K) = ROUNDS /\ Len(INITIAL_HASH) = 8

DIGEST_SIZE == 8 * WORD_SIZE     \* 32 in the code

BigSigma(x, r) == (RotateRight(x, r[1]) ^^ RotateRight(x, r[2])) ^^ RotateRight(x, r[3])
SmallSigma(x, r) == (RotateRight(x, r[1]) ^^ RotateRight(x, r[2])) ^^ (x \div 2^r[3])
Choice(x, y, z) == (x & y) ^^ ((WORD - 1 - x) & z)
Majority(x, y, z) == ((x & y) ^^ (x & z)) ^^ (y & z)

(* The sixteen words of a block and the ones computed from them.           *)
BlockWords(block) == [i \in 1..16 |-> FromBytes(Pieces(block, WORD_SIZE)[i])]
Schedule(block) ==
    FoldLeft(LAMBDA w, i : Append(w, (SmallSigma(w[i - 2], SMALL_SIGMA1) + w[i - 7]
                                        + SmallSigma(w[i - 15], SMALL_SIGMA0) + w[i - 16]) % WORD),
             BlockWords(block), [j \in 1..ROUNDS - 16 |-> 16 + j])

(* What a round adds to the word that leaves the state, and to the one     *)
(* that enters it.  v is <<a, b, c, d, e, f, g, h>>.                       *)
Temp1(e, f, g, h, i, w) == (h + BigSigma(e, BIG_SIGMA1) + Choice(e, f, g) + K[i] + w) % WORD
Temp2(a, b, c) == (BigSigma(a, BIG_SIGMA0) + Majority(a, b, c)) % WORD
Round(v, i, w) ==
    LET temp1 == Temp1(v[5], v[6], v[7], v[8], i, w) IN
    <<(temp1 + Temp2(v[1], v[2], v[3])) % WORD, v[1], v[2], v[3],
      (v[4] + temp1) % WORD, v[5], v[6], v[7]>>

Rounds(v, w) == FoldLeft(LAMBDA u, i : Round(u, i, w[i]), v, [i \in 1..ROUNDS |-> i])
ProcessBlock(block, hash_values) ==
    LET v == Rounds(hash_values, Schedule(block))
    IN  [i \in 1..8 |-> (hash_values[i] + v[i]) % WORD]

Digest(message) ==
    LET h == FoldLeft(LAMBDA hash_values, block : ProcessBlock(block, hash_values),
                      INITIAL_HASH, Pieces(PadMessage(message), BLOCK_SIZE))
    IN  FlattenSeq([i \in 1..8 |-> ToBytes(h[i], WORD_SIZE)])
=============================================================================
