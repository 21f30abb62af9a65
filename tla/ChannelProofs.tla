--------------------------- MODULE ChannelProofs ---------------------------
(***************************************************************************)
(* Proofs about Channel, for every number of sequence numbers, every set   *)
(* of texts and message types, all nonce bases and any two different keys. *)
(*                                                                         *)
(* The properties are not inductive by themselves.  What makes them so is  *)
(* SealedInv: every message in existence is the encryption of the          *)
(* (n+1)-st thing its sender said under sequence number n.  A tag then     *)
(* identifies its sender (by the key), n (by the nonce) and the content    *)
(* (by the header and the ciphertext it covers).                           *)
(***************************************************************************)
EXTENDS Channel, TLAPS

(* The message that carries the (n+1)-st thing side s said.                *)
SealedAt(said, s, n) ==
    Seal(SendKey[s], BuildNonce(NonceBase[s], n),
         BuildHeader(said[s][n + 1].type, s, n), said[s][n + 1].text)

SealedInv ==
    \A m \in sealed : \E s \in Side : \E n \in 0..MaxSeq :
        n < send_sequence[s] /\ m = SealedAt(sent, s, n)

CountInv ==
    \A s \in Side : /\ Len(sent[s]) = send_sequence[s]
                    /\ Len(received[s]) = receive_sequence[s]

IInv == TypeOK /\ CountInv /\ SealedInv /\ ReceivedInOrder
-----------------------------------------------------------------------------
(* XOR with a fixed base keeps different sequence numbers apart.           *)
LEMMA NonceInjective ==
    ASSUME NEW base \in Nonce, NEW m \in 0..MaxSeq, NEW n \in 0..MaxSeq,
           BuildNonce(base, m) = BuildNonce(base, n)
    PROVE  m = n
<1>1. ASSUME NEW i \in 1..NonceBits
      PROVE  SequenceBits(m)[i] = SequenceBits(n)[i]
  <2> DEFINE b == base[i]  x == SequenceBits(m)[i]  y == SequenceBits(n)[i]
  <2>1. b \in {0, 1} /\ x \in {0, 1} /\ y \in {0, 1}
    BY DEF Nonce, Bit, SequenceBits
  <2>2. BuildNonce(base, m)[i] = (b + x) % 2 /\ BuildNonce(base, n)[i] = (b + y) % 2
    BY DEF BuildNonce
  <2>3. (b + x) % 2 = (b + y) % 2
    BY <2>2
  <2> HIDE DEF b, x, y
  <2>4. x = y
    BY <2>1, <2>3
  <2> QED BY <2>4 DEF x, y
<1>2. SequenceBits(m) = SequenceBits(n)
  BY <1>1 DEF SequenceBits
<1> QED BY <1>2, WidthAssumption

LEMMA PeerFacts ==
    \A s \in Side : Peer(s) \in Side /\ Peer(s) # s /\ Peer(Peer(s)) = s
BY DEF Side, Peer

(* Different sides encrypt with different keys.                            *)
LEMMA KeyIdentifiesSide ==
    \A s, r \in Side : SendKey[s] = SendKey[r] => s = r
BY KeysAssumption DEF Side

(* An accepted message is the next thing the peer said.                    *)
LEMMA AcceptedIsNext ==
    ASSUME TypeOK, SealedInv, CountInv, NEW s \in Side,
           NEW m \in ProtectedMessage, Accepts(s, m)
    PROVE  LET p == Peer(s)  n == receive_sequence[s] IN
           /\ n < send_sequence[p]
           /\ n \in 0..MaxSeq
           /\ [type |-> m.header.message_type, text |-> m.ciphertext.text]
                = sent[p][n + 1]
<1> DEFINE p == Peer(s)  n == receive_sequence[s]
<1>1. p \in Side
  BY PeerFacts
<1>2. /\ m.header \in Header
      /\ m.header.sequence_number = n
      /\ n \in 0..MaxSeq
      /\ m.tag = Tag(SendKey[p], BuildNonce(NonceBase[p], n), m.header,
                     m.ciphertext)
  <2>1. m.header \in Header
    BY DEF ProtectedMessage
  <2> QED BY <2>1 DEF Accepts, ExpectedSequence, TagIsValid, Header
<1>3. PICK k \in sealed : m.tag = k.tag
  <2>1. m.tag # GarbledTag
    BY <1>1, <1>2, KeysAssumption DEF Tag, GarbledTag
  <2> QED BY <2>1 DEF ProtectedMessage
<1>4. PICK r \in Side, j \in 0..MaxSeq :
        j < send_sequence[r] /\ k = SealedAt(sent, r, j)
  BY DEF SealedInv
<1>5. k.tag = Tag(SendKey[r], BuildNonce(NonceBase[r], j),
                  BuildHeader(sent[r][j + 1].type, r, j),
                  Encrypted(SendKey[r], BuildNonce(NonceBase[r], j),
                            sent[r][j + 1].text))
  BY <1>4 DEF SealedAt, Seal
<1>6. /\ SendKey[p] = SendKey[r]
      /\ BuildNonce(NonceBase[p], n) = BuildNonce(NonceBase[r], j)
      /\ m.header = BuildHeader(sent[r][j + 1].type, r, j)
      /\ m.ciphertext = Encrypted(SendKey[r], BuildNonce(NonceBase[r], j),
                                  sent[r][j + 1].text)
  BY <1>2, <1>3, <1>5 DEF Tag
<1>7. r = p
  BY <1>1, <1>6, KeyIdentifiesSide
<1>8. j = n
  BY <1>1, <1>2, <1>6, <1>7, NonceInjective, KeysAssumption
<1>9. /\ m.header.message_type = sent[p][n + 1].type
      /\ m.ciphertext.text = sent[p][n + 1].text
  BY <1>6, <1>7, <1>8 DEF BuildHeader, Encrypted
<1>10. sent[p][n + 1] \in Content
  <2>1. sent[p] \in Seq(Content) /\ Len(sent[p]) = send_sequence[p]
    BY <1>1 DEF TypeOK, CountInv
  <2>2. send_sequence[p] \in Nat
    BY <1>1, BoundsAssumption DEF TypeOK
  <2> QED BY <1>2, <1>4, <1>7, <1>8, <2>1, <2>2
<1> QED BY <1>2, <1>4, <1>7, <1>8, <1>9, <1>10 DEF Content
-----------------------------------------------------------------------------
(* Appending to a conversation keeps what was said at every earlier place. *)
LEMMA AppendKeeps ==
    ASSUME NEW S, NEW q \in Seq(S), NEW e \in S, NEW i \in 1..Len(q)
    PROVE  Append(q, e)[i] = q[i]
OBVIOUS

LEMMA InitIInv == Init => IInv
<1> SUFFICES ASSUME Init PROVE IInv
  OBVIOUS
<1>1. TypeOK
  BY BoundsAssumption DEF Init, TypeOK
<1>2. CountInv
  BY DEF Init, CountInv
<1>3. SealedInv
  BY DEF Init, SealedInv
<1>4. ReceivedInOrder
  BY PeerFacts DEF Init, ReceivedInOrder
<1> QED BY <1>1, <1>2, <1>3, <1>4 DEF IInv

(* A successful encrypt_message keeps the invariant.                       *)
LEMMA EncryptKeeps ==
    ASSUME IInv, NEW s \in Side, NEW t \in MessageTypes, NEW text \in Texts,
           SequenceAvailable(s), HeaderFits(t, send_sequence[s]),
           sealed' = sealed \cup {Seal(SendKey[s],
                       BuildNonce(NonceBase[s], send_sequence[s]),
                       BuildHeader(t, s, send_sequence[s]), text)},
           send_sequence' = [send_sequence EXCEPT ![s] = NextSequence(@)],
           sent' = [sent EXCEPT ![s] = Append(@, [type |-> t, text |-> text])],
           UNCHANGED <<receive_sequence, received>>
    PROVE  IInv'
<1> DEFINE n == send_sequence[s]  c == [type |-> t, text |-> text]
<1>1. n \in 0..MaxSeq /\ MaxSeq \in Nat /\ t \in 0..MaxType /\ c \in Content
  BY BoundsAssumption, TypesAssumption
     DEF IInv, TypeOK, SequenceAvailable, HeaderFits, Content
<1>2. sent \in [Side -> Seq(Content)] /\ sent' \in [Side -> Seq(Content)]
  BY <1>1 DEF IInv, TypeOK
<1>3. \A r \in Side : Len(sent[r]) = send_sequence[r] /\ send_sequence[r] \in Nat
  BY BoundsAssumption DEF IInv, TypeOK, CountInv
<1>4. sent'[s][n + 1] = c
  BY <1>1, <1>2, <1>3
<1>5. \A r \in Side : \A i \in 1..Len(sent[r]) : sent'[r][i] = sent[r][i]
  BY <1>1, <1>2, AppendKeeps
<1>6. \A r \in Side : send_sequence'[r] >= send_sequence[r]
                      /\ Len(sent'[r]) = send_sequence'[r]
                      /\ send_sequence'[r] \in 0..MaxSeq + 1
  BY <1>1, <1>2, <1>3 DEF NextSequence, IInv, TypeOK
<1>7. \A r \in Side : \A j \in 0..MaxSeq :
        j < send_sequence[r] => SealedAt(sent', r, j) = SealedAt(sent, r, j)
  BY <1>3, <1>5 DEF SealedAt
<1>8. SealedAt(sent', s, n) = Seal(SendKey[s], BuildNonce(NonceBase[s], n),
                             BuildHeader(t, s, n), text)
  <2>1. c.type = t /\ c.text = text
    OBVIOUS
  <2> HIDE DEF c
  <2>2. SealedAt(sent', s, n) = Seal(SendKey[s], BuildNonce(NonceBase[s], n),
                                     BuildHeader(c.type, s, n), c.text)
    BY <1>4 DEF SealedAt
  <2> QED BY <2>1, <2>2
<1>9. SealedInv'
  <2> SUFFICES ASSUME NEW m \in sealed'
               PROVE  \E r \in Side : \E j \in 0..MaxSeq :
                        j < send_sequence'[r] /\ m = SealedAt(sent', r, j)
    BY DEF SealedInv
  <2>1. CASE m \in sealed
    <3>1. PICK r \in Side, j \in 0..MaxSeq :
            j < send_sequence[r] /\ m = SealedAt(sent, r, j)
      BY <2>1 DEF IInv, SealedInv
    <3>2. j < send_sequence'[r]
      BY <3>1, <1>3, <1>6
    <3> QED BY <3>1, <3>2, <1>7
  <2>2. CASE m \notin sealed
    <3>1. m = SealedAt(sent', s, n)
      BY <2>2, <1>8
    <3>2. n < send_sequence'[s]
      BY <1>1 DEF NextSequence, IInv, TypeOK
    <3> QED BY <3>1, <3>2, <1>1
  <2> QED BY <2>1, <2>2
<1>10. TypeOK'
  <2>1. send_sequence' \in [Side -> 0..MaxSeq + 1]
    BY <1>6 DEF IInv, TypeOK
  <2>2. ASSUME NEW m \in sealed'
        PROVE  m.header \in Header /\ m.ciphertext.text \in Texts
    <3>1. CASE m \in sealed
      BY <3>1 DEF IInv, TypeOK
    <3>2. CASE m \notin sealed
      <4>1. m = Seal(SendKey[s], BuildNonce(NonceBase[s], n),
                     BuildHeader(t, s, n), text)
        BY <3>2
      <4>2. m.header = BuildHeader(t, s, n) /\ m.ciphertext.text = text
        BY <4>1 DEF Seal, Encrypted
      <4> QED BY <4>2, <1>1 DEF BuildHeader, Header
    <3> QED BY <3>1, <3>2
  <2> QED BY <1>2, <2>1, <2>2 DEF IInv, TypeOK
<1>11. CountInv'
  BY <1>6 DEF IInv, CountInv
<1>12. ReceivedInOrder'
  BY <1>3, <1>5, <1>6, PeerFacts DEF IInv, ReceivedInOrder, TypeOK
<1> QED BY <1>9, <1>10, <1>11, <1>12 DEF IInv

(* A successful decrypt_message keeps the invariant.                       *)
LEMMA DecryptKeeps ==
    ASSUME IInv, NEW s \in Side, NEW m \in ProtectedMessage, Accepts(s, m),
           receive_sequence' = [receive_sequence EXCEPT ![s] = @ + 1],
           received' = [received EXCEPT
                          ![s] = Append(@, [type |-> m.header.message_type,
                                            text |-> m.ciphertext.text])],
           UNCHANGED <<send_sequence, sealed, sent>>
    PROVE  IInv'
<1> DEFINE p == Peer(s)  n == receive_sequence[s]
           c == [type |-> m.header.message_type, text |-> m.ciphertext.text]
<1>1. n < send_sequence[p] /\ n \in 0..MaxSeq /\ c = sent[p][n + 1]
  BY AcceptedIsNext DEF IInv
<1>2. p \in Side /\ MaxSeq \in Nat
  BY PeerFacts, BoundsAssumption
<1>3. /\ Len(sent[p]) = send_sequence[p] /\ send_sequence[p] \in Nat
      /\ sent[p] \in Seq(Content)
  BY <1>2 DEF IInv, TypeOK, CountInv
<1>4. c \in Content
  BY <1>1, <1>3
<1>5. TypeOK'
  BY <1>1, <1>2, <1>4 DEF IInv, TypeOK
<1>6. CountInv'
  BY <1>4 DEF IInv, TypeOK, CountInv
<1>7. SealedInv'
  BY DEF IInv, SealedInv, SealedAt
<1>8. ReceivedInOrder'
  <2> SUFFICES ASSUME NEW r \in Side
               PROVE  /\ Len(received'[r]) <= Len(sent[Peer(r)])
                      /\ \A i \in 1..Len(received'[r]) :
                            received'[r][i] = sent[Peer(r)][i]
    BY DEF ReceivedInOrder
  <2>1. CASE r # s
    BY <2>1 DEF IInv, TypeOK, ReceivedInOrder
  <2>2. CASE r = s
    <3>1. /\ received[s] \in Seq(Content) /\ Len(received[s]) = n
          /\ received'[s] = Append(received[s], c)
      BY DEF IInv, TypeOK, CountInv
    <3>2. \A i \in 1..n : received[s][i] = sent[p][i]
      BY <3>1 DEF IInv, ReceivedInOrder
    <3>3. Len(received'[s]) = n + 1 /\ received'[s][n + 1] = c
      BY <1>4, <3>1
    <3>4. \A i \in 1..n : received'[s][i] = received[s][i]
      BY <1>4, <3>1, AppendKeeps
    <3> HIDE DEF c
    <3>5. ASSUME NEW i \in 1..n + 1 PROVE received'[s][i] = sent[p][i]
      <4>1. CASE i = n + 1
        BY <4>1, <3>3, <1>1
      <4>2. CASE i # n + 1
        <5>1. i \in 1..n
          BY <4>2, <1>1, <1>2
        <5> QED BY <5>1, <3>4, <3>2
      <4> QED BY <4>1, <4>2
    <3> QED BY <2>2, <3>3, <3>5, <1>1, <1>3
  <2> QED BY <2>1, <2>2
<1> QED BY <1>5, <1>6, <1>7, <1>8 DEF IInv

LEMMA NextIInv == IInv /\ [Next]_vars => IInv'
<1> SUFFICES ASSUME IInv, [Next]_vars PROVE IInv'
  OBVIOUS
<1>1. CASE UNCHANGED vars
  BY <1>1 DEF vars, IInv, TypeOK, CountInv, SealedInv, SealedAt, ReceivedInOrder
<1>2. ASSUME NEW s \in Side, NEW t \in MessageTypes, NEW text \in Texts,
             EncryptMessage(s, t, text)
      PROVE  IInv'
  BY <1>1, <1>2, EncryptKeeps DEF EncryptMessage
<1>3. ASSUME NEW s \in Side, NEW m \in ProtectedMessage, DecryptMessage(s, m)
      PROVE  IInv'
  BY <1>1, <1>3, DecryptKeeps DEF DecryptMessage, Reject
<1> QED BY <1>1, <1>2, <1>3 DEF Next

LEMMA IInvAlways == Spec => []IInv
BY InitIInv, NextIInv, PTL DEF Spec
-----------------------------------------------------------------------------
(* Every reachable state has the declared types; no counter ever passes    *)
(* MaxSeq + 1 (encrypt_message refuses, channel.py:124).                   *)
THEOREM TypesHold == Spec => []TypeOK
<1>1. IInv => TypeOK
  BY DEF IInv
<1> QED BY <1>1, IInvAlways, PTL

(* Over a transport that may lose, repeat, reorder, mix and damage         *)
(* messages, what decrypt_message has accepted is a prefix of what the     *)
(* peer's encrypt_message was given.                                       *)
THEOREM OrderHolds == Spec => []ReceivedInOrder
<1>1. IInv => ReceivedInOrder
  BY DEF IInv
<1> QED BY <1>1, IInvAlways, PTL

(* No key ever meets one nonce with two different messages.                *)
THEOREM NoncesUnique == Spec => []NonceNeverReused
<1>1. IInv => NonceNeverReused
  <2> SUFFICES ASSUME IInv, NEW m \in sealed, NEW k \in sealed,
                      m.ciphertext.key = k.ciphertext.key,
                      m.ciphertext.nonce = k.ciphertext.nonce
               PROVE  m = k
    BY DEF NonceNeverReused
  <2>1. PICK s \in Side, i \in 0..MaxSeq : m = SealedAt(sent, s, i)
    BY DEF IInv, SealedInv
  <2>2. PICK r \in Side, j \in 0..MaxSeq : k = SealedAt(sent, r, j)
    BY DEF IInv, SealedInv
  <2>3. SendKey[s] = SendKey[r]
        /\ BuildNonce(NonceBase[s], i) = BuildNonce(NonceBase[r], j)
    BY <2>1, <2>2 DEF SealedAt, Seal, Encrypted
  <2>4. s = r
    BY <2>3, KeyIdentifiesSide
  <2>5. i = j
    BY <2>3, <2>4, NonceInjective, KeysAssumption
  <2> QED BY <2>1, <2>2, <2>4, <2>5
<1> QED BY <1>1, IInvAlways, PTL

(* However many messages a receiver has rejected, it accepts the genuine   *)
(* next one: rejecting leaves it in step with its peer (channel.py:184).   *)
THEOREM RejectionIsHarmless == Spec => []NextGenuineAccepted
<1>1. IInv => NextGenuineAccepted
  <2> SUFFICES ASSUME IInv, NEW s \in Side, NEW m \in sealed,
                      m.header.sender_id = Peer(s),
                      m.header.sequence_number = Len(received[s])
               PROVE  Accepts(s, m)
    BY DEF NextGenuineAccepted
  <2>1. PICK r \in Side, j \in 0..MaxSeq : m = SealedAt(sent, r, j)
    BY DEF IInv, SealedInv
  <2>2. m.header = BuildHeader(sent[r][j + 1].type, r, j)
        /\ m.tag = Tag(SendKey[r], BuildNonce(NonceBase[r], j), m.header, m.ciphertext)
    BY <2>1 DEF SealedAt, Seal
  <2>3. m.header.parses /\ r = Peer(s) /\ j = receive_sequence[s]
    BY <2>2 DEF BuildHeader, IInv, CountInv
  <2> QED BY <2>2, <2>3
          DEF Accepts, ExpectedSender, ExpectedSequence, TagIsValid, BuildHeader
<1> QED BY <1>1, IInvAlways, PTL

(* The two channels implement the abstract conversation of SecureLink:     *)
(* a successful encrypt_message is its Send, a successful decrypt_message  *)
(* its Deliver, and every refusal a stutter.                               *)
THEOREM LinkImplemented == Spec => ImplementsSecureLink
<1>1. Init => Link!LinkInit
  BY DEF Init, Link!LinkInit, Side, Link!Side
<1>2. Side = Link!Side /\ \A s \in Side : Peer(s) = Link!Peer(s)
  BY DEF Side, Link!Side, Peer, Link!Peer
<1>3. IInv /\ [Next]_vars => [Link!LinkNext]_Link!linkVars
  <2> SUFFICES ASSUME IInv, [Next]_vars
               PROVE  [Link!LinkNext]_Link!linkVars
    OBVIOUS
  <2>1. CASE UNCHANGED vars
    BY <2>1 DEF vars, Link!linkVars
  <2>2. ASSUME NEW s \in Side, NEW t \in MessageTypes, NEW text \in Texts,
               EncryptMessage(s, t, text), ~UNCHANGED vars
        PROVE  Link!LinkNext
    <3>1. [type |-> t, text |-> text] \in Content
      BY <2>2, TypesAssumption, BoundsAssumption
         DEF EncryptMessage, HeaderFits, Content
    <3>2. Link!Send(s, [type |-> t, text |-> text])
      BY <2>2 DEF EncryptMessage, Link!Send
    <3> QED BY <3>1, <3>2, <1>2 DEF Link!LinkNext
  <2>3. ASSUME NEW s \in Side, NEW m \in ProtectedMessage,
               DecryptMessage(s, m), ~UNCHANGED vars
        PROVE  Link!LinkNext
    <3>1. /\ Accepts(s, m)
          /\ received' = [received EXCEPT
               ![s] = Append(@, [type |-> m.header.message_type,
                                 text |-> m.ciphertext.text])]
          /\ UNCHANGED sent
      BY <2>3 DEF DecryptMessage, Reject
    <3>2. /\ receive_sequence[s] < send_sequence[Peer(s)]
          /\ [type |-> m.header.message_type, text |-> m.ciphertext.text]
               = sent[Peer(s)][receive_sequence[s] + 1]
      BY <3>1, AcceptedIsNext DEF IInv
    <3>3. Len(received[s]) = receive_sequence[s]
          /\ Len(sent[Peer(s)]) = send_sequence[Peer(s)]
      BY PeerFacts DEF IInv, CountInv
    <3>4. Link!Deliver(s)
      BY <3>1, <3>2, <3>3, <1>2 DEF Link!Deliver
    <3> QED BY <3>4, <1>2 DEF Link!LinkNext
  <2> QED BY <2>1, <2>2, <2>3 DEF Next
<1> QED BY <1>1, <1>3, IInvAlways, PTL DEF Spec, ImplementsSecureLink, Link!LinkSpec
=============================================================================
