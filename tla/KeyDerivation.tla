--------------------------- MODULE KeyDerivation ---------------------------
(***************************************************************************)
(* crypto/hmac.py, crypto/hkdf.py and what protocol/handshake.py derives   *)
(* with them: the tag of a handshake and the keys of a session.            *)
(***************************************************************************)
EXTENDS Sha256, Transcript

CONSTANTS
    INNER_PAD, OUTER_PAD,   \* 0x36 and 0x5c in the code
    SESSION_KEY_SIZE,       \* 32 in the code
    NONCE_BASE_SIZE,        \* 12 in the code
    KEYS_LABEL              \* b"SecureChannel session keys|"

ASSUME KeyDerivationAssumption ==
    INNER_PAD \in Byte /\ OUTER_PAD \in Byte /\ SESSION_KEY_SIZE \in Nat /\ NONCE_BASE_SIZE \in Nat

(* _normalize_key: long keys are hashed, short ones padded.                *)
NormalizeKey(key) ==
    LET short == IF Len(key) > BLOCK_SIZE THEN Digest(key) ELSE key
    IN  short \o Zeros(BLOCK_SIZE - Len(short))

XorAll(b, mask) == [i \in DOMAIN b |-> b[i] ^^ mask]
HmacSha256(key, message) ==
    LET normalized_key == NormalizeKey(key)
    IN  FoldLeft(LAMBDA text, pad : Digest(XorAll(normalized_key, pad) \o text),
                 message, <<INNER_PAD, OUTER_PAD>>)

HkdfExtract(salt, input_key_material) ==
    HmacSha256(IF salt = << >> THEN Zeros(DIGEST_SIZE) ELSE salt, input_key_material)

(* hkdf_expand for a length it accepts: the counter has to be a byte.      *)
ExpandAccepts(length) == length <= (Base - 1) * DIGEST_SIZE
ExpandDataWithoutInfo(previous_block, info, counter) == previous_block \o <<counter>>
ExpandData(previous_block, info, counter) == previous_block \o info \o <<counter>>
HkdfExpand(prk, info, length) ==
    LET Extend(blocks, counter) ==
            LET previous_block == IF blocks = << >> THEN << >> ELSE Last(blocks)
            IN  Append(blocks, HmacSha256(prk, ExpandData(previous_block, info, counter)))
        blocks_needed == (length + DIGEST_SIZE - 1) \div DIGEST_SIZE
    IN  Slice(FlattenSeq(FoldLeft(Extend, << >>, [i \in 1..blocks_needed |-> i])), 0, length)

(* derive_session_keys after the checks of its arguments: where each key *)
(* is in the derived bytes.                                                *)
SessionParts ==
    LET keys == 2 * SESSION_KEY_SIZE IN
    [client_to_server_key |-> <<0, SESSION_KEY_SIZE>>,
     server_to_client_key |-> <<SESSION_KEY_SIZE, keys>>,
     client_nonce_base |-> <<keys, keys + NONCE_BASE_SIZE>>,
     server_nonce_base |-> <<keys + NONCE_BASE_SIZE, keys + 2 * NONCE_BASE_SIZE>>]
DeriveSessionKeys(secret, psk, transcript) ==
    LET material == HkdfExpand(HkdfExtract(psk, secret), KEYS_LABEL \o Digest(transcript),
                               2 * SESSION_KEY_SIZE + 2 * NONCE_BASE_SIZE)
    IN  [part \in DOMAIN SessionParts |->
            Slice(material, SessionParts[part][1], SessionParts[part][2])]
=============================================================================
