----------------------------- MODULE Primitives -----------------------------
(***************************************************************************)
(* The functions under crypto/ over all inputs up to a length: two byte    *)
(* strings x and y get longer byte by byte, as in Layouts, and what the    *)
(* functions make of them is compared.  Every function is the code's, with *)
(* smaller bytes, words, blocks and fields.                                *)
(***************************************************************************)
EXTENDS Integers, FiniteSets, Layouts, KeyDerivation, Aead

CONSTANT Repeated     \* how often x is repeated to make a long text
-----------------------------------------------------------------------------
(* The mixing of SHA-256 and of ChaCha20 loses nothing: the state before   *)
(* the rounds can be computed back from the one after them, so that only   *)
(* the final additions make the functions one-way and different counters,  *)
(* nonces and keys give different states until then (sha256.py:113-165,    *)
(* chacha20.py:46-67 and 112-137).                                         *)
UndoRound(v, i, w) ==
    LET temp1 == (v[1] - Temp2(v[2], v[3], v[4])) % WORD IN
    <<v[2], v[3], v[4], (v[5] - temp1) % WORD, v[6], v[7], v[8],
      (temp1 - Temp1(v[6], v[7], v[8], 0, i, w)) % WORD>>
UndoMix(s, a, b, c, rotation) ==
    LET before == [s EXCEPT ![c] = RotateRight(@, rotation) ^^ s[a]]
    IN  [before EXCEPT ![a] = (@ - s[b]) % WORD]
UndoQuarterRound(s, q) ==
    LET u1 == UndoMix(s,  q[3], q[4], q[2], ROTATIONS[4])
        u2 == UndoMix(u1, q[1], q[2], q[4], ROTATIONS[3])
        u3 == UndoMix(u2, q[3], q[4], q[2], ROTATIONS[2])
    IN  UndoMix(u3, q[1], q[2], q[4], ROTATIONS[1])
Downwards(n) == [i \in 1..n |-> n - i]
MixingIsReversible ==
    Hashed =>
        LET w == Schedule(SubSeq(PadMessage(x), 1, BLOCK_SIZE))
            before == BlockWords(SubSeq(PadMessage(y), 1, BLOCK_SIZE))
            hash_values == [i \in 1..8 |-> before[i]]
            key == Slice(PadMessage(y), 0, CIPHER_KEY_SIZE)
            initial == InitialState(key, Len(y), Slice(PadMessage(x), 0, NONCE_SIZE))
        IN  /\ hash_values = FoldLeft(LAMBDA v, i : UndoRound(v, i + 1, w[i + 1]),
                                      Rounds(hash_values, w), Downwards(ROUNDS))
            /\ \A s \in {initial, WorkingState(initial)} :
                  s = FoldLeft(LAMBDA t, i : UndoQuarterRound(t, Quarters[i + 1]),
                               DoubleRound(s), Downwards(8))

(* The keys and nonce bases of a session are all different, and none is a  *)
(* key of a session with another secret, pre-shared key or transcript; but *)
(* zeros at the end of a pre-shared key do not count, because HMAC pads it *)
(* with zeros (derive_session_keys, handshake.py:120-182, hmac.py:17-30).  *)
StripZeros(b) ==
    SubSeq(b, 1, CHOOSE n \in 0..Len(b) : /\ \A i \in n + 1..Len(b) : b[i] = 0
                                          /\ n > 0 => b[n] # 0)
KeysAreFresh ==
    (Hashed /\ x # << >> /\ y # << >>) =>
        LET Secret(b) == b \o Zeros(SESSION_KEY_SIZE - Len(b))
            Derived == {[secret |-> Secret(d[1]), psk |-> StripZeros(d[2]), transcript |-> d[3],
                         keys |-> DeriveSessionKeys(Secret(d[1]), d[2], d[3])] :
                            d \in {<<x, x, x>>, <<y, x, x>>, <<x, y, x>>, <<x, x, y>>}}
            SameSession(s, t) ==
                s.secret = t.secret /\ s.psk = t.psk /\ s.transcript = t.transcript
        IN  \A s, t \in Derived :
                /\ IsInjective(s.keys)
                /\ Range(s.keys) \cap Range(t.keys) # {} => SameSession(s, t)

(* Different messages have the same polynomial for at most as many keys r  *)
(* as the longer one has blocks, of all that clamping leaves, whatever     *)
(* their lengths (poly1305_mac, poly1305.py:39-65).  A short last block is *)
(* for the function on its own: the AEAD hands it whole blocks (aead.py:   *)
(* 39-53).                                                                 *)
ClampedKeys == {ClampR(r) : r \in [1..TAG_SIZE -> Byte]}
TagsRarelyCollide ==
    x # y => Cardinality({r \in ClampedKeys \ {0} : Accumulate(x, r) = Accumulate(y, r)})
                <= Len(Pieces(IF Len(x) > Len(y) THEN x ELSE y, TAG_SIZE))

(* No block of keystream is used twice in a packet, neither for the text   *)
(* nor for the key of its tag, however long the text is: the counter stops *)
(* the call before it wraps around.  And what was sealed is opened to the  *)
(* same text (chacha20.py:140-166, aead.py:29-36).                         *)
KeystreamUsedOnce ==
    LET length == Repeated * Len(x) + Len(y)
        used == <<0>> \o CountersOf(FirstBlock, length)
        key == Slice(PadMessage(x), 0, CIPHER_KEY_SIZE)
        nonce == Slice(key, 0, NONCE_SIZE)
        sealed == Seal(key, nonce, y, x)
    IN  /\ Encrypts(FirstBlock, length) => IsInjective(used) /\ Range(used) \subseteq 0..MASK
        /\ Hashed => /\ Opens(key, nonce, sealed, x)
                     /\ Open(key, nonce, sealed) = y
=============================================================================
