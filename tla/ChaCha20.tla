------------------------------ MODULE ChaCha20 ------------------------------
(***************************************************************************)
(* crypto/chacha20.py: the quarter round, the block function and the       *)
(* stream cipher, on words of any width.                                   *)
(***************************************************************************)
EXTENDS Words, Bitwise, Functions

CONSTANTS
    ROTATIONS,           \* <<16, 12, 8, 7>> in the code
    DOUBLE_ROUNDS,       \* 10 in the code
    CHACHA20_CONSTANT    \* b"expand 32-byte k": four words

STREAM_BLOCK_SIZE == 16 * WORD_SIZE     \* 64 in the code
CIPHER_KEY_SIZE == 8 * WORD_SIZE        \* 32 in the code
NONCE_SIZE == 3 * WORD_SIZE             \* 12 in the code
MASK == WORD - 1                        \* MASK_32, also the last counter

(* Two lines of quarter_round and a rotation: s[x] += s[y]; s[z] ^= s[x].  *)
MixBeforeAdding(s, x, y, z, rotation) ==
    [s EXCEPT ![x] = (@ + s[y]) % WORD, ![z] = RotateLeft(@ ^^ s[x], rotation)]
Mix(s, x, y, z, rotation) ==
    LET sum == (s[x] + s[y]) % WORD
    IN  [s EXCEPT ![x] = sum, ![z] = RotateLeft(@ ^^ sum, rotation)]

QuarterRound(s, a, b, c, d) ==
    Mix(Mix(Mix(Mix(s, a, b, d, ROTATIONS[1]),
                    c, d, b, ROTATIONS[2]),
                    a, b, d, ROTATIONS[3]),
                    c, d, b, ROTATIONS[4])

(* A column round and a diagonal round: the words each call mixes.         *)
Quarters == << <<0, 4, 8, 12>>, <<1, 5, 9, 13>>, <<2, 6, 10, 14>>, <<3, 7, 11, 15>>,
               <<0, 5, 10, 15>>, <<1, 6, 11, 12>>, <<2, 7, 8, 13>>, <<3, 4, 9, 14>> >>
DoubleRound(state) ==
    FoldLeft(LAMBDA s, q : QuarterRound(s, q[1], q[2], q[3], q[4]), state, Quarters)

InitialState(key, counter, nonce) ==
    LET WordsOf(b) == [i \in 1..Len(b) \div WORD_SIZE
                         |-> FromLittleEndian(Pieces(b, WORD_SIZE)[i])]
        words == WordsOf(CHACHA20_CONSTANT \o key) \o <<counter>> \o WordsOf(nonce)
    IN  [i \in 0..15 |-> words[i + 1]]
WorkingState(initial_state) ==
    FoldLeft(LAMBDA s, n : DoubleRound(s), initial_state, [n \in 1..DOUBLE_ROUNDS |-> n])

Chacha20Block(key, counter, nonce) ==
    LET initial_state == InitialState(key, counter, nonce)
        final_state == WorkingState(initial_state)
    IN  FlattenSeq([i \in 1..16 |-> ToLittleEndian((final_state[i - 1] + initial_state[i - 1]) % WORD,
                                                   WORD_SIZE)])

(* chacha20_encrypt: block number i of a text is combined with keystream   *)
(* block counter + i, and the call raises when that exceeds the mask.      *)
WrappedCounter(counter, i) == (counter + i - 1) % WORD
BlockCounter(counter, i) == counter + i - 1
StreamBlocks(length) == (length + STREAM_BLOCK_SIZE - 1) \div STREAM_BLOCK_SIZE
CountersOf(counter, length) == [i \in 1..StreamBlocks(length) |-> BlockCounter(counter, i)]
Encrypts(counter, length) == Range(CountersOf(counter, length)) \subseteq 0..MASK

Chacha20Encrypt(key, counter, nonce, text) ==
    FlattenSeq([i \in 1..StreamBlocks(Len(text)) |->
        LET block == Pieces(text, STREAM_BLOCK_SIZE)[i]
            keystream == Chacha20Block(key, BlockCounter(counter, i), nonce)
        IN  [j \in DOMAIN block |-> block[j] ^^ keystream[j]]])
=============================================================================
