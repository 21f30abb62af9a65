------------------------------ MODULE Layouts ------------------------------
(***************************************************************************)
(* The byte strings that are hashed and authenticated: the transcript of   *)
(* the handshake, a message padded for SHA-256, and what the tag of a      *)
(* packet covers.  Two byte strings x and y get longer byte by byte, and   *)
(* what is laid out for them is compared.                                  *)
(***************************************************************************)
EXTENDS Padding, Transcript

CONSTANTS
    Values,       \* the bytes that x and y are made of
    MaxLength,    \* bound: bytes in x and in y
    MaxHashed,    \* bound: longest inputs that are hashed
    PublicKeys,   \* some public keys
    PaddedAfter   \* how many zeros are put before a message to be padded

(* Every length that is laid out fits the bytes that it is given, as the   *)
(* code requires: len(value) <= 65535 in _encode_field (handshake.py:61),  *)
(* and to_bytes raises otherwise (sha256.py:109, aead.py:51-52).           *)
LengthsFit ==
    /\ Len(VERSION_TEXT) < Base^FIELD_LENGTH_SIZE
    /\ KEY_SIZE < Base^FIELD_LENGTH_SIZE /\ MaxHashed < Base^FIELD_LENGTH_SIZE
    /\ MaxLength < Base^MAC_LENGTH_SIZE
    /\ \A n \in PaddedAfter : BITS_PER_BYTE * (n + MaxLength) < Base^LENGTH_SIZE
ASSUME LayoutsAssumption ==
    /\ {BITS_PER_BYTE, WORD_SIZE, PAD_SIZE, KEY_SIZE} \subseteq Nat \ {0}
    /\ {FIELD_LENGTH_SIZE, LENGTH_SIZE, MAC_LENGTH_SIZE} \subseteq Nat
    /\ {MaxLength, MaxHashed} \cup PaddedAfter \subseteq Nat /\ MaxHashed <= MaxLength
    /\ Values \subseteq Byte /\ PublicKeys \subseteq [1..KEY_SIZE -> Byte]
    /\ VERSION_TEXT \in Seq(Byte)
    /\ LengthsFit
    /\ \A size \in {FIELD_LENGTH_SIZE, LENGTH_SIZE, MAC_LENGTH_SIZE} : Converts(size)

VARIABLES x, y
strings == <<x, y>>

Empty == x = << >> /\ y = << >>
Grow ==
    \/ Len(x) < MaxLength /\ (\E b \in Values : x' = Append(x, b)) /\ UNCHANGED y
    \/ Len(y) < MaxLength /\ (\E b \in Values : y' = Append(y, b)) /\ UNCHANGED x
Growing == Empty /\ [][Grow]_strings

Inputs == BoundedSeq(Values, MaxHashed)
Hashed == x \in Inputs /\ y \in Inputs
-----------------------------------------------------------------------------
(* Two sides with the same transcript have the same identities in the same *)
(* roles and the same public keys: no identity can borrow bytes from the   *)
(* field next to it (handshake.py:55-91).                                  *)
Transcripts ==
    {[client_id |-> c, server_id |-> d, client_key |-> ck, server_key |-> sk,
      bytes |-> BuildTranscript(c, d, ck, sk)] :
        c \in Inputs, d \in Inputs, ck \in PublicKeys, sk \in PublicKeys}
TranscriptBindsFields ==
    \A mine \in {t \in Transcripts : t.client_id = x /\ t.server_id = y}, other \in Transcripts :
        mine.bytes = other.bytes => other = mine

(* A padded message fills whole blocks and is not the end of another, so   *)
(* that no two messages put SHA-256 through the same last blocks.  The     *)
(* prefixes bring x and y to the lengths where the length field no longer  *)
(* fits the last block (_pad_message, sha256.py:98-110).                   *)
PaddedMessagesNeverNest ==
    \A n, m \in PaddedAfter :
        LET px == PadMessage(Zeros(n) \o x)
            py == PadMessage(Zeros(m) \o y)
        IN  /\ Len(px) % BLOCK_SIZE = 0
            /\ IsSuffix(px, py) => Zeros(n) \o x = Zeros(m) \o y

(* Different pairs of additional data and ciphertext are authenticated as  *)
(* different bytes (_build_mac_data, aead.py:39-53).                       *)
TagCoversTheSplit ==
    \A aad, ciphertext \in Inputs :
        BuildMacData(aad, ciphertext) = BuildMacData(x, y) => aad = x /\ ciphertext = y
=============================================================================
