-------------------------------- MODULE Words --------------------------------
(***************************************************************************)
(* The machine words of crypto/sha256.py and crypto/chacha20.py: additions *)
(* are modulo 2^32 there, modulo WORD here, and words are rotated.         *)
(***************************************************************************)
EXTENDS Bytes

CONSTANTS
    BITS_PER_BYTE,    \* 8 in the code
    WORD_SIZE         \* bytes in a word, 4 in the code

ASSUME WordsAssumption == Base = 2^BITS_PER_BYTE /\ WORD_SIZE \in Nat \ {0}

WORD_BITS == BITS_PER_BYTE * WORD_SIZE
WORD == 2^WORD_BITS

RotateRight(value, shift) ==
    (value \div 2^shift) + (value % 2^shift) * 2^(WORD_BITS - shift)
RotateLeft(value, shift) == RotateRight(value, WORD_BITS - shift)
=============================================================================
