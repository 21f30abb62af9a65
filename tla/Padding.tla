------------------------------ MODULE Padding ------------------------------
(***************************************************************************)
(* The bytes that SHA-256 hashes for a message (crypto/sha256.py) and that *)
(* Poly1305 authenticates for a packet (crypto/aead.py): both are filled   *)
(* up with zeros and end with lengths.                                     *)
(***************************************************************************)
EXTENDS Words

CONSTANTS
    LENGTH_SIZE,      \* bytes of the length of a hashed message, 8 in the code
    PAD_SIZE,         \* parts of a packet are filled up to its multiples, 16 in the code
    MAC_LENGTH_SIZE   \* bytes of a length that is authenticated, 8 in the code

ASSUME PaddingAssumption == LENGTH_SIZE < 16 * WORD_SIZE

BLOCK_SIZE == 16 * WORD_SIZE     \* 64 in the code

(* 0x80, zeros up to the place of the length, the length in bits.          *)
PadWithoutLength(m) ==
    m \o <<Base \div 2>> \o Zeros((2 * BLOCK_SIZE - 1 - (Len(m) % BLOCK_SIZE)) % BLOCK_SIZE)
PadMessage(m) ==
    m \o <<Base \div 2>>
      \o Zeros((2 * BLOCK_SIZE - LENGTH_SIZE - 1 - (Len(m) % BLOCK_SIZE)) % BLOCK_SIZE)
      \o ToBytes(BITS_PER_BYTE * Len(m), LENGTH_SIZE)

(* _pad16 and _build_mac_data.                                             *)
Pad16(b) == Zeros((PAD_SIZE - (Len(b) % PAD_SIZE)) % PAD_SIZE)
MacDataWithoutLengths(aad, ciphertext) == aad \o Pad16(aad) \o ciphertext \o Pad16(ciphertext)
BuildMacData(aad, ciphertext) ==
    aad \o Pad16(aad) \o ciphertext \o Pad16(ciphertext)
      \o ToLittleEndian(Len(aad), MAC_LENGTH_SIZE)
      \o ToLittleEndian(Len(ciphertext), MAC_LENGTH_SIZE)
=============================================================================
