------------------------------ MODULE Poly1305 ------------------------------
(***************************************************************************)
(* crypto/poly1305.py: the polynomial a tag is computed from, over a field *)
(* of any size.                                                            *)
(***************************************************************************)
EXTENDS Bytes

CONSTANTS
    P,             \* the field's prime, 2^130 - 5 in the code
    TAG_SIZE,      \* bytes of a tag, of a block and of r, 16 in the code
    CLAMP_HIGH,    \* bytes of r that keep their lower half: {3, 7, 11, 15}
    CLAMP_LOW,     \* bytes of r that lose two bits: {4, 8, 12} in the code
    HalfByte,      \* 16 in the code
    LowBits        \* 4 in the code

ASSUME Poly1305Assumption == 2 * Base^TAG_SIZE < P

ClampR(r) ==
    FromLittleEndian([i \in DOMAIN r |->
        CASE i - 1 \in CLAMP_HIGH -> r[i] % HalfByte
          [] i - 1 \in CLAMP_LOW -> r[i] - (r[i] % LowBits)
          [] OTHER -> r[i]])

(* The number of a block, with a 1 after its last byte.                    *)
BlockWithoutMarker(block) == FromLittleEndian(block)
BlockNumber(block) == FromLittleEndian(Append(block, 1))

Accumulate(message, r) ==
    FoldLeft(LAMBDA accumulator, block : (((accumulator + BlockNumber(block)) % P) * r) % P,
             0, Pieces(message, TAG_SIZE))

(* poly1305_mac: the key is r and s.                                       *)
Poly1305Mac(message, key) ==
    ToLittleEndian(Accumulate(message, ClampR(Slice(key, 0, TAG_SIZE)))
                     + FromLittleEndian(From(key, TAG_SIZE)), TAG_SIZE)
=============================================================================
