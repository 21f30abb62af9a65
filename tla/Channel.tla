------------------------------ MODULE Channel ------------------------------
(***************************************************************************)
(* The two SecureChannel objects of one connection (protocol/channel.py)   *)
(* with the header format of protocol/message.py and the AEAD they call    *)
(* (crypto/aead.py).                                                       *)
(*                                                                         *)
(* The class is given whatever bytes a transport hands to it, so the model *)
(* lets any message arrive at any time, any number of times or never, with *)
(* its header, ciphertext and tag taken from different messages or damaged.*)
(* The AEAD is symbolic: a tag is the list of what it was computed from.   *)
(***************************************************************************)
EXTENDS Naturals, Sequences

CONSTANTS
    MaxSeq,          \* MAX_SEQUENCE_NUMBER, 2^64 - 1 in the code
    NonceBits,       \* bits in a nonce, 8 * NONCE_SIZE = 96 in the code
    MaxType,         \* the largest message type one header byte can hold
    MessageTypes,    \* the message types callers pass to encrypt_message
    Texts,           \* plaintexts
    SendKey,         \* SendKey[s]: the key side s encrypts with
    NonceBase,       \* NonceBase[s]: the base of the nonces of side s
    Garbled          \* key, nonce or text of bytes no encryption produced

Side == {"client", "server"}
Peer(s) == IF s = "client" THEN "server" ELSE "client"

(***************************************************************************)
(* Nonces: to_bytes(12) of the sequence number XORed into the base.  Byte  *)
(* order and grouping permute the bits of both operands alike.             *)
(***************************************************************************)
Bit == {0, 1}
Nonce == [1..NonceBits -> Bit]
SequenceBits(n) ==
    [i \in 1..NonceBits |-> IF (n \div 2^(i - 1)) % 2 = 1 THEN 1 ELSE 0]
BuildNonce(base, n) ==
    [i \in 1..NonceBits |-> (base[i] + SequenceBits(n)[i]) % 2]

ASSUME BoundsAssumption == MaxSeq \in Nat /\ NonceBits \in Nat /\ MaxType \in Nat
(* The two directions were given different keys and any two nonce bases.   *)
ASSUME KeysAssumption == /\ SendKey["client"] # SendKey["server"]
                         /\ \A s \in Side : SendKey[s] # Garbled
                         /\ NonceBase \in [Side -> Nonce]
ASSUME TypesAssumption == MessageTypes \subseteq Nat
(* The 8-byte sequence number fits into the 12-byte nonce.                 *)
ASSUME WidthAssumption ==
    \A m, n \in 0..MaxSeq : SequenceBits(m) = SequenceBits(n) => m = n

(***************************************************************************)
(* Headers.  parses is FALSE for every byte string parse_header rejects    *)
(* (short, wrong version, wrong length, bad or empty sender).              *)
(***************************************************************************)
Header == [parses : BOOLEAN, message_type : 0..MaxType, sender_id : Side,
           sequence_number : 0..MaxSeq]
BuildHeader(t, s, n) ==
    [parses |-> TRUE, message_type |-> t, sender_id |-> s,
     sequence_number |-> n]
TypeUnchecked(t, n) == n <= MaxSeq
HeaderFits(t, n) == t <= MaxType /\ n <= MaxSeq

(***************************************************************************)
(* chacha20_poly1305_encrypt and _decrypt.                                 *)
(***************************************************************************)
Encrypted(key, nonce, text) == [key |-> key, nonce |-> nonce, text |-> text]
TagNoAad(key, nonce, aad, ciphertext) ==
    [key |-> key, nonce |-> nonce, aad |-> "none", ciphertext |-> ciphertext]
Tag(key, nonce, aad, ciphertext) ==
    [key |-> key, nonce |-> nonce, aad |-> aad, ciphertext |-> ciphertext]
Seal(key, nonce, aad, text) ==
    LET ciphertext == Encrypted(key, nonce, text) IN
    [header |-> aad, ciphertext |-> ciphertext,
     tag |-> Tag(key, nonce, aad, ciphertext)]
GarbledCiphertext == Encrypted(Garbled, Garbled, Garbled)
GarbledTag == Tag(Garbled, Garbled, Garbled, Garbled)
TagIsValid(key, nonce, m) == m.tag = Tag(key, nonce, m.header, m.ciphertext)
-----------------------------------------------------------------------------
VARIABLES
    send_sequence,      \* SecureChannel.send_sequence of each side
    receive_sequence,   \* SecureChannel.receive_sequence of each side
    sealed,             \* history: every ProtectedMessage ever returned
    sent,               \* history: what each side encrypted, in order
    received            \* history: what decrypt_message returned, in order

vars == <<send_sequence, receive_sequence, sealed, sent, received>>

Content == [type : 0..MaxType, text : Texts]

(* What a transport can hand over: pieces of what was sealed, or damage.   *)
ProtectedMessage ==
    [header     : Header,
     ciphertext : {m.ciphertext : m \in sealed} \cup {GarbledCiphertext},
     tag        : {m.tag : m \in sealed} \cup {GarbledTag}]

Init ==
    /\ send_sequence = [s \in Side |-> 0]
    /\ receive_sequence = [s \in Side |-> 0]
    /\ sealed = {}
    /\ sent = [s \in Side |-> << >>]
    /\ received = [s \in Side |-> << >>]

(***************************************************************************)
(* encrypt_message: raises without a change when the sequence numbers are  *)
(* used up or the header cannot be built.                                  *)
(***************************************************************************)
SequenceAvailable(s) == send_sequence[s] <= MaxSeq
WrappedSequence(n) == (n + 1) % (MaxSeq + 1)
NextSequence(n) == n + 1

EncryptMessage(s, t, text) ==
    \/ /\ SequenceAvailable(s) /\ HeaderFits(t, send_sequence[s])
       /\ LET n == send_sequence[s] IN
          sealed' = sealed \cup {Seal(SendKey[s], BuildNonce(NonceBase[s], n),
                                      BuildHeader(t, s, n), text)}
       /\ send_sequence' = [send_sequence EXCEPT ![s] = NextSequence(@)]
       /\ sent' = [sent EXCEPT ![s] = Append(@, [type |-> t, text |-> text])]
       /\ UNCHANGED <<receive_sequence, received>>
    \/ /\ ~(SequenceAvailable(s) /\ HeaderFits(t, send_sequence[s]))
       /\ UNCHANGED vars

(***************************************************************************)
(* decrypt_message: the checks in the order of the code, then the counter. *)
(* A rejected message changes nothing.                                     *)
(***************************************************************************)
AnySequence(s, header) == TRUE
ExpectedSequence(s, header) == header.sequence_number = receive_sequence[s]
ExpectedSender(s, header) == header.sender_id = Peer(s)

Accepts(s, m) ==
    /\ m.header.parses
    /\ ExpectedSender(s, m.header)
    /\ ExpectedSequence(s, m.header)
    /\ TagIsValid(SendKey[Peer(s)],
                  BuildNonce(NonceBase[Peer(s)], m.header.sequence_number), m)

CountEarly(s, m) ==
    /\ UNCHANGED <<send_sequence, sealed, sent, received>>
    /\ receive_sequence' = [receive_sequence EXCEPT
         ![s] = IF m.header.parses /\ m.header.sequence_number = @
                THEN @ + 1 ELSE @]
Reject(s, m) == UNCHANGED vars

DecryptMessage(s, m) ==
    \/ /\ Accepts(s, m)
       /\ receive_sequence' = [receive_sequence EXCEPT ![s] = @ + 1]
       /\ received' = [received EXCEPT
                         ![s] = Append(@, [type |-> m.header.message_type,
                                           text |-> m.ciphertext.text])]
       /\ UNCHANGED <<send_sequence, sealed, sent>>
    \/ ~Accepts(s, m) /\ Reject(s, m)

Next ==
    \E s \in Side :
        \/ \E t \in MessageTypes, text \in Texts : EncryptMessage(s, t, text)
        \/ \E m \in ProtectedMessage : DecryptMessage(s, m)

Spec == Init /\ [][Next]_vars
-----------------------------------------------------------------------------
(* Every variable has its type: counters stop one past MaxSeq, and no      *)
(* message is sealed whose type is wider than its byte.                    *)
TypeOK ==
    /\ send_sequence \in [Side -> 0..MaxSeq + 1]
    /\ receive_sequence \in [Side -> 0..MaxSeq + 1]
    /\ sent \in [Side -> Seq(Content)]
    /\ received \in [Side -> Seq(Content)]
    /\ \A m \in sealed : m.header \in Header /\ m.ciphertext.text \in Texts

(* What a side has accepted is a prefix of what its peer encrypted: no     *)
(* message is lost in the middle, repeated, reordered, altered, or taken   *)
(* from the side's own direction (decrypt_message, channel.py:153-187).    *)
ReceivedInOrder ==
    \A s \in Side :
        /\ Len(received[s]) <= Len(sent[Peer(s)])
        /\ \A i \in 1..Len(received[s]) : received[s][i] = sent[Peer(s)][i]

(* One key never encrypts two different messages under one nonce, up to    *)
(* and beyond the last sequence number (encrypt_message and build_nonce).  *)
NonceNeverReused ==
    \A m, n \in sealed :
        /\ m.ciphertext.key = n.ciphertext.key
        /\ m.ciphertext.nonce = n.ciphertext.nonce
        => m = n

(* Whatever was rejected before, the message that follows those a side has *)
(* accepted is itself accepted when it comes: a failed decrypt_message     *)
(* leaves the receiver in step with its peer (channel.py:184).             *)
NextGenuineAccepted ==
    \A s \in Side, m \in sealed :
        /\ m.header.sender_id = Peer(s)
        /\ m.header.sequence_number = Len(received[s])
        => Accepts(s, m)

(* The two channels together implement the abstract conversation.          *)
Link == INSTANCE SecureLink
ImplementsSecureLink == Link!LinkSpec
=============================================================================
