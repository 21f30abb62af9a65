--------------------------- MODULE EncodingProofs ---------------------------
(***************************************************************************)
(* Proofs about Encoding: for fields of any size and every byte string,    *)
(* what was encoded is parsed back, and what is accepted is the encoding   *)
(* of what is read.  And about Layouts: what is hashed and authenticated   *)
(* determines what it was made from, for sizes and lengths of any value.   *)
(***************************************************************************)
EXTENDS Encoding, Layouts, SequenceTheorems, TLAPS

Bytestrings == Seq(Byte)

LEMMA SizesFacts ==
    /\ SENDER_LENGTH_SIZE \in Nat \ {0} /\ SEQUENCE_SIZE \in Nat \ {0}
    /\ LENGTH_FIELD_SIZE \in Nat \ {0} /\ TAG_SIZE \in Nat \ {0}
    /\ SEQUENCE_START = 2 + SENDER_LENGTH_SIZE /\ SEQUENCE_START \in Nat
    /\ FIXED_HEADER_SIZE = SEQUENCE_START + SEQUENCE_SIZE /\ FIXED_HEADER_SIZE \in Nat
    /\ PACKET_PREFIX_SIZE = 2 * LENGTH_FIELD_SIZE /\ PACKET_PREFIX_SIZE \in Nat
    /\ PROTOCOL_VERSION \in Byte /\ Byte \subseteq Nat
<1>1. /\ SENDER_LENGTH_SIZE \in Nat \ {0} /\ SEQUENCE_SIZE \in Nat \ {0}
      /\ LENGTH_FIELD_SIZE \in Nat \ {0} /\ TAG_SIZE \in Nat \ {0} /\ PROTOCOL_VERSION \in Byte
  BY SizesAssumption
<1> QED BY <1>1, BaseAssumption
        DEF SEQUENCE_START, FIXED_HEADER_SIZE, PACKET_PREFIX_SIZE, Byte

(* A number that fits becomes a byte string of the right length, and the   *)
(* same number again.                                                      *)
LEMMA NumberConverts ==
    ASSUME NEW size \in Nat, Converts(size), NEW n \in 0..Base^size - 1
    PROVE  /\ ToBytes(n, size) \in Bytestrings /\ Len(ToBytes(n, size)) = size
           /\ FromBytes(ToBytes(n, size)) = n
<1> DEFINE t == ToBytes(n, size)
<1>1. t \in [1..size -> Byte] /\ FromBytes(t) = n
  BY DEF Converts
<1> HIDE DEF t
<1>2. t \in Bytestrings
  BY <1>1, SeqDef DEF Bytestrings
<1>3. Len(t) = size
  BY <1>1, <1>2, LenProperties DEF Bytestrings
<1> QED BY <1>1, <1>2, <1>3 DEF t

LEMMA NumberFacts ==
    ASSUME NEW size \in {SENDER_LENGTH_SIZE, SEQUENCE_SIZE, LENGTH_FIELD_SIZE},
           NEW n \in 0..Base^size - 1
    PROVE  /\ ToBytes(n, size) \in Bytestrings /\ Len(ToBytes(n, size)) = size
           /\ FromBytes(ToBytes(n, size)) = n
BY SizesAssumption, SizesFacts, NumberConverts

(* A byte string of the right length is the one encoding of its number.    *)
LEMMA BytesFacts ==
    ASSUME NEW size \in {SENDER_LENGTH_SIZE, SEQUENCE_SIZE, LENGTH_FIELD_SIZE},
           NEW b \in Bytestrings, Len(b) = size
    PROVE  /\ FromBytes(b) \in 0..Base^size - 1 /\ FromBytes(b) \in Nat
           /\ ToBytes(FromBytes(b), size) = b
<1>1. b \in [1..size -> Byte]
  BY LenProperties DEF Bytestrings
<1>2. Base^size \in Nat /\ FromBytes(b) \in 0..Base^size - 1 /\ ToBytes(FromBytes(b), size) = b
  BY <1>1, SizesAssumption DEF Converts
<1> DEFINE limit == Base^size
<1>3. limit \in Nat /\ FromBytes(b) \in 0..limit - 1
  BY <1>2
<1> HIDE DEF limit
<1>4. FromBytes(b) \in Nat
  BY <1>3
<1> QED BY <1>2, <1>4
-----------------------------------------------------------------------------
(* Slices of one byte string.                                              *)
LEMMA SliceFacts ==
    ASSUME NEW b \in Bytestrings, NEW i \in Nat, NEW j \in Nat, i <= j, j <= Len(b)
    PROVE  /\ Slice(b, i, j) = SubSeq(b, i + 1, j)
           /\ Slice(b, i, j) \in Bytestrings /\ Len(Slice(b, i, j)) = j - i
           /\ \A k \in 1..j - i : Slice(b, i, j)[k] = b[i + k]
<1> DEFINE s == SubSeq(b, i + 1, j)
<1>1. Len(b) \in Nat /\ \A k \in 1..Len(b) : b[k] \in Byte
  BY LenProperties, ElementOfSeq DEF Bytestrings
<1>2. (IF j < Len(b) THEN j ELSE Len(b)) = j
  BY <1>1
<1>3. Slice(b, i, j) = s
  BY <1>2 DEF Slice
<1>4. \A k \in i + 1..j : b[k] \in Byte
  BY <1>1
<1>5. /\ s \in Seq(Byte) /\ Len(s) = IF i + 1 <= j THEN j - (i + 1) + 1 ELSE 0
      /\ \A k \in 1..j - (i + 1) + 1 : s[k] = b[(i + 1) + k - 1]
  BY <1>4, SubSeqProperties
<1> HIDE DEF s
<1>6. /\ Len(s) = j - i /\ j - (i + 1) + 1 = j - i
      /\ \A k \in 1..j - i : (i + 1) + k - 1 = i + k
  BY <1>5
<1>7. \A k \in 1..j - i : s[k] = b[i + k]
  BY <1>5, <1>6
<1> QED BY <1>3, <1>5, <1>6, <1>7 DEF Bytestrings, s

LEMMA JoinSlices ==
    ASSUME NEW b \in Bytestrings, NEW i \in Nat, NEW j \in Nat, NEW k \in Nat,
           i <= j, j <= k, k <= Len(b)
    PROVE  Slice(b, i, j) \o Slice(b, j, k) = Slice(b, i, k)
<1>1. Len(b) \in Nat
  BY LenProperties DEF Bytestrings
<1>2. /\ Slice(b, i, j) = SubSeq(b, i + 1, j) /\ Slice(b, j, k) = SubSeq(b, j + 1, k)
      /\ Slice(b, i, k) = SubSeq(b, i + 1, k)
  <2>1. i <= k /\ j <= Len(b)
    BY <1>1
  <2> QED BY <2>1, SliceFacts
<1>3. i + 1 \in 1..Len(b) + 1 /\ j \in (i + 1) - 1..Len(b) /\ k \in j..Len(b)
  BY <1>1
<1> QED BY <1>2, <1>3, ConcatAdjacentSubSeq DEF Bytestrings

LEMMA WholeSlice ==
    ASSUME NEW b \in Bytestrings
    PROVE  Slice(b, 0, Len(b)) = b
<1>1. Len(b) \in Nat
  BY LenProperties DEF Bytestrings
<1>2. Slice(b, 0, Len(b)) = SubSeq(b, 1, Len(b))
  <2>1. (IF Len(b) < Len(b) THEN Len(b) ELSE Len(b)) = Len(b) /\ 0 + 1 = 1
    OBVIOUS
  <2> QED BY <2>1 DEF Slice
<1> QED BY <1>2, SubSeqFull DEF Bytestrings

(* What is behind a byte string moves none of its slices.                  *)
LEMMA SliceKept ==
    ASSUME NEW a \in Bytestrings, NEW r \in Bytestrings,
           NEW i \in Nat, NEW j \in Nat, i <= j, j <= Len(a)
    PROVE  Slice(a \o r, i, j) = Slice(a, i, j)
<1>1. /\ Len(a) \in Nat /\ Len(r) \in Nat
      /\ a \o r \in Bytestrings /\ Len(a \o r) = Len(a) + Len(r)
      /\ \A k \in 1..Len(a) + Len(r) : (a \o r)[k] = IF k <= Len(a) THEN a[k] ELSE r[k - Len(a)]
  BY LenProperties, ConcatProperties DEF Bytestrings
<1> DEFINE s == Slice(a \o r, i, j)
           t == Slice(a, i, j)
<1>2. /\ s \in Bytestrings /\ Len(s) = j - i /\ \A k \in 1..j - i : s[k] = (a \o r)[i + k]
      /\ t \in Bytestrings /\ Len(t) = j - i /\ \A k \in 1..j - i : t[k] = a[i + k]
  <2>1. j <= Len(a \o r)
    BY <1>1
  <2> QED BY <1>1, <2>1, SliceFacts
<1> HIDE DEF s, t
<1>3. \A k \in 1..j - i : (a \o r)[i + k] = a[i + k]
  <2>1. \A k \in 1..j - i : i + k \in 1..Len(a) + Len(r) /\ i + k <= Len(a)
    BY <1>1
  <2> QED BY <1>1, <2>1
<1>4. \A k \in 1..Len(s) : s[k] = t[k]
  BY <1>2, <1>3
<1>5. s = t
  BY <1>2, <1>4, SeqEqual DEF Bytestrings
<1> QED BY <1>5 DEF s, t

(* The part behind it is a slice of its own.                               *)
LEMMA SliceBehind ==
    ASSUME NEW a \in Bytestrings, NEW r \in Bytestrings
    PROVE  /\ a \o r \in Bytestrings /\ Len(a \o r) = Len(a) + Len(r)
           /\ Slice(a \o r, Len(a), Len(a) + Len(r)) = r
<1>1. /\ Len(a) \in Nat /\ Len(r) \in Nat
      /\ a \o r \in Bytestrings /\ Len(a \o r) = Len(a) + Len(r)
      /\ \A k \in 1..Len(a) + Len(r) : (a \o r)[k] = IF k <= Len(a) THEN a[k] ELSE r[k - Len(a)]
  BY LenProperties, ConcatProperties DEF Bytestrings
<1> DEFINE n == Len(a)
           m == Len(r)
           s == Slice(a \o r, n, n + m)
<1>2. /\ s \in Bytestrings /\ Len(s) = (n + m) - n
      /\ \A k \in 1..(n + m) - n : s[k] = (a \o r)[n + k]
  <2>1. n + m <= Len(a \o r) /\ n <= n + m /\ n + m \in Nat
    BY <1>1
  <2> QED BY <1>1, <2>1, SliceFacts
<1> HIDE DEF s
<1>3. ASSUME NEW k \in 1..m PROVE (a \o r)[n + k] = r[k]
  <2>1. n + k \in 1..n + m /\ ~(n + k <= n) /\ (n + k) - n = k
    BY <1>1
  <2> QED BY <1>1, <2>1
<1>4. (n + m) - n = m
  BY <1>1
<1>5. s = r
  BY <1>2, <1>3, <1>4, SeqEqual DEF Bytestrings
<1> QED BY <1>1, <1>5 DEF s
-----------------------------------------------------------------------------
(* A byte string is cut from left to right: a cut is as long as was asked  *)
(* for and continues what was cut before.                                  *)
LEMMA NextCut ==
    ASSUME NEW b \in Bytestrings, NEW i \in Nat, NEW j \in Nat, i <= j, j <= Len(b)
    PROVE  /\ Slice(b, i, j) \in Bytestrings /\ Len(Slice(b, i, j)) = j - i
           /\ Slice(b, 0, i) \o Slice(b, i, j) = Slice(b, 0, j)
<1>1. 0 \in Nat /\ 0 <= i
  OBVIOUS
<1>2. Slice(b, i, j) \in Bytestrings /\ Len(Slice(b, i, j)) = j - i
  BY SliceFacts
<1>3. Slice(b, 0, i) \o Slice(b, i, j) = Slice(b, 0, j)
  BY <1>1, JoinSlices
<1> QED BY <1>2, <1>3

LEMMA LastCut ==
    ASSUME NEW b \in Bytestrings, NEW i \in Nat, i <= Len(b)
    PROVE  /\ From(b, i) \in Bytestrings /\ Len(From(b, i)) = Len(b) - i
           /\ Slice(b, 0, i) \o From(b, i) = b
<1>1. Len(b) \in Nat /\ From(b, i) = Slice(b, i, Len(b))
  BY LenProperties DEF From, Bytestrings
<1>2. Len(b) <= Len(b)
  BY <1>1
<1>3. /\ Slice(b, i, Len(b)) \in Bytestrings /\ Len(Slice(b, i, Len(b))) = Len(b) - i
      /\ Slice(b, 0, i) \o Slice(b, i, Len(b)) = Slice(b, 0, Len(b))
  BY <1>1, <1>2, NextCut, Zenon
<1> QED BY <1>1, <1>3, WholeSlice
-----------------------------------------------------------------------------
(* What parse_packet accepts is the encoding of what it returns.           *)
LEMMA PacketsNameTheirBytes ==
    ASSUME NEW b \in Bytestrings, ParsePacket(b) # Rejected
    PROVE  LET p == ParsePacket(b) IN
           p.header \in Bytestrings /\ PacketSerializes(p) /\ SerializePacket(p) = b
<1> DEFINE L == LENGTH_FIELD_SIZE
           P == PACKET_PREFIX_SIZE
           all == Len(b)
           s1 == Slice(b, 0, L)
           s2 == Slice(b, L, P)
           end1 == HeaderEnd(b)
           end2 == CiphertextEnd(b)
           h == Slice(b, P, end1)
           c == Slice(b, end1, end2)
           t == From(b, end2)
           n1 == FromBytes(s1)
           n2 == FromBytes(s2)
           p == [header |-> h, ciphertext |-> c, tag |-> t]
<1>1. /\ L \in Nat /\ P = 2 * L /\ TAG_SIZE \in Nat /\ P \in Nat /\ all \in Nat
  BY SizesFacts, LenProperties DEF Bytestrings
<1>2. ~(all < P + TAG_SIZE) /\ PacketLengthIsCorrect(b) /\ h # << >> /\ ParsePacket(b) = p
  BY DEF ParsePacket
<1>3. end1 = P + n1 /\ end2 = end1 + n2 /\ all = end2 + TAG_SIZE
  BY <1>2 DEF HeaderEnd, CiphertextEnd, PacketLengthIsCorrect
<1>4. p.header = h /\ p.ciphertext = c /\ p.tag = t
  OBVIOUS
<1>5. L <= all /\ P <= all /\ 0 <= L /\ L <= P /\ L - 0 = L /\ P - L = L /\ 0 \in Nat
  <2> HIDE DEF L, P, all, h, p
  <2> QED BY <1>1, <1>2
<1>6. s1 \in Bytestrings /\ Len(s1) = L
  <2>1. s1 \in Bytestrings /\ Len(s1) = L - 0
    BY <1>1, <1>5, NextCut, Zenon
  <2> QED BY <1>5, <2>1
<1>7. s2 \in Bytestrings /\ Len(s2) = L /\ s1 \o s2 = Slice(b, 0, P)
  <2>1. s2 \in Bytestrings /\ Len(s2) = P - L /\ s1 \o s2 = Slice(b, 0, P)
    BY <1>1, <1>5, NextCut, Zenon
  <2> QED BY <1>5, <2>1
<1>8. /\ n1 \in 0..Base^L - 1 /\ n1 \in Nat /\ ToBytes(n1, L) = s1
      /\ n2 \in 0..Base^L - 1 /\ n2 \in Nat /\ ToBytes(n2, L) = s2
  BY <1>6, <1>7, BytesFacts
<1>9. /\ end1 \in Nat /\ P <= end1 /\ end1 <= all /\ end1 - P = n1
      /\ end2 \in Nat /\ end1 <= end2 /\ end2 <= all /\ end2 - end1 = n2
      /\ all - end2 = TAG_SIZE
  <2> HIDE DEF end1, end2, n1, n2, P, all
  <2> QED BY <1>1, <1>3, <1>8
<1>10. h \in Bytestrings /\ Len(h) = n1 /\ (s1 \o s2) \o h = Slice(b, 0, end1)
  <2> HIDE DEF s1, s2, end1, n1, P
  <2>1. /\ h \in Bytestrings /\ Len(h) = end1 - P
        /\ Slice(b, 0, P) \o h = Slice(b, 0, end1)
    BY <1>1, <1>9, NextCut, Zenon
  <2> HIDE DEF h
  <2> QED BY <1>7, <1>9, <2>1
<1>11. c \in Bytestrings /\ Len(c) = n2 /\ ((s1 \o s2) \o h) \o c = Slice(b, 0, end2)
  <2> HIDE DEF s1, s2, end1, end2, n2, h
  <2>1. /\ c \in Bytestrings /\ Len(c) = end2 - end1
        /\ Slice(b, 0, end1) \o c = Slice(b, 0, end2)
    BY <1>9, NextCut, Zenon
  <2> HIDE DEF c
  <2> QED BY <1>9, <1>10, <2>1
<1>12. t \in Bytestrings /\ Len(t) = TAG_SIZE /\ (((s1 \o s2) \o h) \o c) \o t = b
  <2> HIDE DEF s1, s2, end2, h, c
  <2>1. t \in Bytestrings /\ Len(t) = all - end2 /\ Slice(b, 0, end2) \o t = b
    BY <1>9, LastCut, Zenon
  <2> HIDE DEF t, all
  <2> QED BY <1>9, <1>11, <2>1
<1>13. SerializePacket(p) = b
  <2> HIDE DEF s1, s2, h, c, t, p
  <2>1. ToBytes(Len(p.header), L) = s1 /\ ToBytes(Len(p.ciphertext), L) = s2
    BY <1>4, <1>8, <1>10, <1>11
  <2> QED BY <1>4, <1>12, <2>1 DEF SerializePacket
<1>14. PacketSerializes(p)
  <2> HIDE DEF n1, n2, h, c, t, p
  <2> QED BY <1>2, <1>4, <1>8, <1>10, <1>11, <1>12 DEF PacketSerializes
<1> HIDE DEF p, h
<1> QED BY <1>2, <1>4, <1>10, <1>13, <1>14

(* What parse_header accepts is the encoding of the fields it returns.     *)
LEMMA HeadersNameTheirBytes ==
    ASSUME NEW h \in Bytestrings, ParseHeader(h) # Rejected
    PROVE  BuildHeader(ParseHeader(h)) = h
<1> DEFINE N == SENDER_LENGTH_SIZE
           Q == SEQUENCE_SIZE
           S == SEQUENCE_START
           F == FIXED_HEADER_SIZE
           all == Len(h)
           start == Slice(h, 0, 2)
           len == Slice(h, 2, S)
           seq == Slice(h, S, F)
           sender == From(h, F)
           n == FromBytes(len)
           m == [message_type |-> h[2], sender_id |-> sender, sequence_number |-> FromBytes(seq)]
<1>1. N \in Nat /\ Q \in Nat /\ S = 2 + N /\ F = S + Q /\ all \in Nat /\ S \in Nat /\ F \in Nat
  BY SizesFacts, LenProperties DEF Bytestrings
<1>2. HeaderParses(h) /\ ParseHeader(h) = m
  BY DEF ParseHeader
<1>3. all >= F /\ h[1] = PROTOCOL_VERSION /\ all = F + n
  BY <1>2 DEF HeaderParses, HeaderLengthIsCorrect, SenderLength
<1>4. m.message_type = h[2] /\ m.sender_id = sender /\ m.sequence_number = FromBytes(seq)
  OBVIOUS
<1>5. /\ 2 \in Nat /\ 2 <= all /\ 2 <= S /\ S <= all /\ S <= F /\ F <= all
      /\ S - 2 = N /\ F - S = Q
  <2> HIDE DEF N, Q, S, F, all, n
  <2> QED BY <1>1, <1>3
<1>6. start \in Bytestrings /\ Len(start) = 2 /\ start[1] = h[1] /\ start[2] = h[2]
  <2>1. 2 <= Len(h) /\ 0 <= 2 /\ 0 \in Nat /\ 2 \in Nat
    BY <1>5
  <2>2. /\ start \in Bytestrings /\ Len(start) = 2 - 0
        /\ \A k \in 1..2 - 0 : start[k] = h[0 + k]
    BY <2>1, SliceFacts
  <2> HIDE DEF start
  <2> QED BY <2>2
<1>7. start = <<PROTOCOL_VERSION, h[2]>>
  <2> DEFINE two == <<PROTOCOL_VERSION, h[2]>>
  <2>1. h[2] \in Byte /\ PROTOCOL_VERSION \in Byte
    <3>1. 2 \in 1..Len(h)
      BY <1>1, <1>5
    <3> QED BY <3>1, ElementOfSeq, SizesFacts DEF Bytestrings
  <2>2. two \in Seq(Byte) /\ Len(two) = 2 /\ two[1] = PROTOCOL_VERSION /\ two[2] = h[2]
    BY <2>1
  <2> HIDE DEF two, start
  <2>3. \A k \in 1..Len(start) : start[k] = two[k]
    BY <1>3, <1>6, <2>2
  <2>4. start = two
    BY <1>6, <2>2, <2>3, SeqEqual DEF Bytestrings
  <2> QED BY <2>4 DEF two
<1>8. len \in Bytestrings /\ Len(len) = N /\ start \o len = Slice(h, 0, S)
  <2>1. len \in Bytestrings /\ Len(len) = S - 2 /\ start \o len = Slice(h, 0, S)
    BY <1>1, <1>5, NextCut, Zenon
  <2> QED BY <1>5, <2>1
<1>9. seq \in Bytestrings /\ Len(seq) = Q /\ (start \o len) \o seq = Slice(h, 0, F)
  <2> HIDE DEF start, len
  <2>1. seq \in Bytestrings /\ Len(seq) = F - S /\ Slice(h, 0, S) \o seq = Slice(h, 0, F)
    BY <1>1, <1>5, NextCut, Zenon
  <2> QED BY <1>5, <1>8, <2>1
<1>10. n \in Nat /\ ToBytes(n, N) = len /\ ToBytes(FromBytes(seq), Q) = seq
  BY <1>8, <1>9, BytesFacts
<1>11. sender \in Bytestrings /\ Len(sender) = n /\ ((start \o len) \o seq) \o sender = h
  <2> HIDE DEF n, start, len, seq
  <2>1. sender \in Bytestrings /\ Len(sender) = all - F /\ Slice(h, 0, F) \o sender = h
    BY <1>1, <1>5, LastCut, Zenon
  <2>2. all - F = n
    <3> HIDE DEF all, F
    <3> QED BY <1>1, <1>3, <1>10
  <2> HIDE DEF sender
  <2> QED BY <1>9, <2>1, <2>2
<1>12. BuildHeader(m) = ((start \o len) \o seq) \o sender
  <2> HIDE DEF start, len, seq, sender, m
  <2> QED BY <1>4, <1>7, <1>10, <1>11 DEF BuildHeader
<1> HIDE DEF m
<1> QED BY <1>2, <1>11, <1>12
-----------------------------------------------------------------------------
(* Byte strings put together.                                              *)
LEMMA JoinedEitherWay ==
    /\ \A s, t \in Bytestrings : s \o t \in Bytestrings
    /\ \A s, t, u \in Bytestrings : (s \o t) \o u = s \o (t \o u)
BY ConcatAssociative, ConcatProperties DEF Bytestrings

(* Each part is the slice between where it begins and where it ends.       *)
LEMMA FirstPart ==
    ASSUME NEW s \in Bytestrings, NEW r \in Bytestrings
    PROVE  Slice(s \o r, 0, Len(s)) = s
<1>1. 0 \in Nat /\ Len(s) \in Nat /\ 0 <= Len(s) /\ Len(s) <= Len(s)
  BY LenProperties DEF Bytestrings
<1>2. Slice(s \o r, 0, Len(s)) = Slice(s, 0, Len(s))
  BY <1>1, SliceKept, Zenon
<1> QED BY <1>2, WholeSlice

LEMMA NextPart ==
    ASSUME NEW a \in Bytestrings, NEW s \in Bytestrings, NEW r \in Bytestrings
    PROVE  Slice((a \o s) \o r, Len(a), Len(a) + Len(s)) = s
<1> DEFINE i == Len(a)
           j == Len(a) + Len(s)
<1>1. a \o s \in Bytestrings /\ Len(a \o s) = j /\ Slice(a \o s, i, j) = s
  BY SliceBehind
<1>2. i \in Nat /\ j \in Nat /\ i <= j /\ j <= Len(a \o s)
  <2>1. Len(a) \in Nat /\ Len(s) \in Nat
    BY LenProperties DEF Bytestrings
  <2> QED BY <1>1, <2>1
<1> HIDE DEF i, j
<1>3. Slice((a \o s) \o r, i, j) = Slice(a \o s, i, j)
  BY <1>1, <1>2, SliceKept, Zenon
<1> QED BY <1>1, <1>3 DEF i, j

LEMMA LastPart ==
    ASSUME NEW a \in Bytestrings, NEW r \in Bytestrings
    PROVE  From(a \o r, Len(a)) = r
BY SliceBehind DEF From

(* What serialize_packet encodes is parsed back.                           *)
LEMMA PacketsComeBack ==
    ASSUME NEW h \in Bytestrings, NEW c \in Bytestrings, NEW t \in Bytestrings,
           PacketSerializes([header |-> h, ciphertext |-> c, tag |-> t])
    PROVE  LET p == [header |-> h, ciphertext |-> c, tag |-> t] IN
           ParsePacket(SerializePacket(p)) = p
<1> DEFINE L == LENGTH_FIELD_SIZE
           P == PACKET_PREFIX_SIZE
           p == [header |-> h, ciphertext |-> c, tag |-> t]
           s1 == ToBytes(Len(h), L)
           s2 == ToBytes(Len(c), L)
           two == s1 \o s2
           three == two \o h
           four == three \o c
           b == SerializePacket(p)
           nh == Len(h)
           nc == Len(c)
<1>1. p.header = h /\ p.ciphertext = c /\ p.tag = t
  OBVIOUS
<1>2. /\ L \in Nat /\ P = 2 * L /\ TAG_SIZE \in Nat /\ P \in Nat /\ nh \in Nat /\ nc \in Nat
      /\ L + L = P
  BY SizesFacts, LenProperties DEF Bytestrings
<1>3. /\ h # << >> /\ Len(t) = TAG_SIZE
      /\ nh \in 0..Base^L - 1 /\ nc \in 0..Base^L - 1
  <2> HIDE DEF p
  <2> QED BY <1>1 DEF PacketSerializes, p
<1>4. /\ s1 \in Bytestrings /\ Len(s1) = L /\ FromBytes(s1) = nh
      /\ s2 \in Bytestrings /\ Len(s2) = L /\ FromBytes(s2) = nc
  BY <1>3, NumberFacts
<1>5. b = four \o t
  BY <1>1 DEF SerializePacket
<1> HIDE DEF L, P, s1, s2, b, nh, nc
<1>6. /\ two \in Bytestrings /\ Len(two) = P
      /\ three \in Bytestrings /\ Len(three) = P + nh
      /\ four \in Bytestrings /\ Len(four) = (P + nh) + nc
  <2>1. two \in Bytestrings /\ Len(two) = Len(s1) + Len(s2)
    BY <1>4, SliceBehind, Zenon
  <2>2. three \in Bytestrings /\ Len(three) = Len(two) + nh
    <3> HIDE DEF two
    <3> QED BY <2>1, SliceBehind, Zenon DEF nh
  <2>3. four \in Bytestrings /\ Len(four) = Len(three) + nc
    <3> HIDE DEF three
    <3> QED BY <2>2, SliceBehind, Zenon DEF nc
  <2> HIDE DEF two, three, four
  <2> QED BY <1>2, <1>4, <2>1, <2>2, <2>3
<1>7. b \in Bytestrings /\ Len(b) = ((P + nh) + nc) + TAG_SIZE
  <2> HIDE DEF four
  <2>1. b \in Bytestrings /\ Len(b) = Len(four) + Len(t)
    BY <1>5, <1>6, SliceBehind, Zenon
  <2> QED BY <1>3, <1>6, <2>1
<1>8. b = three \o (c \o t) /\ c \o t \in Bytestrings
  <2>1. three \in Bytestrings
    BY <1>6
  <2> HIDE DEF three
  <2>2. c \o t \in Bytestrings /\ (three \o c) \o t = three \o (c \o t)
    BY <2>1, JoinedEitherWay
  <2> QED BY <1>5, <2>2
<1>9. b = two \o (h \o (c \o t)) /\ h \o (c \o t) \in Bytestrings
  <2> DEFINE ct == c \o t
  <2>1. two \in Bytestrings /\ ct \in Bytestrings
    BY <1>6, <1>8
  <2> HIDE DEF two, ct
  <2>2. h \o ct \in Bytestrings /\ (two \o h) \o ct = two \o (h \o ct)
    BY <2>1, JoinedEitherWay
  <2> QED BY <1>8, <2>2 DEF ct
<1>10. b = s1 \o (s2 \o (h \o (c \o t))) /\ s2 \o (h \o (c \o t)) \in Bytestrings
  <2> DEFINE hct == h \o (c \o t)
  <2>1. s1 \in Bytestrings /\ s2 \in Bytestrings /\ hct \in Bytestrings
    BY <1>4, <1>9
  <2> HIDE DEF hct
  <2>2. s2 \o hct \in Bytestrings /\ (s1 \o s2) \o hct = s1 \o (s2 \o hct)
    BY <2>1, JoinedEitherWay
  <2> QED BY <1>9, <2>2 DEF hct
<1>11. Slice(b, 0, L) = s1
  <2>1. Slice(b, 0, Len(s1)) = s1
    BY <1>4, <1>10, FirstPart, Zenon
  <2> QED BY <1>4, <2>1
<1>12. Slice(b, L, P) = s2
  <2>1. Slice(b, Len(s1), Len(s1) + Len(s2)) = s2
    BY <1>4, <1>9, NextPart, Zenon
  <2> QED BY <1>2, <1>4, <2>1
<1> HIDE DEF two, three, four
<1>13. HeaderEnd(b) = P + nh /\ CiphertextEnd(b) = (P + nh) + nc
  BY <1>4, <1>11, <1>12 DEF HeaderEnd, CiphertextEnd, L, P
<1>14. Slice(b, P, P + nh) = h
  <2>1. Slice(b, Len(two), Len(two) + Len(h)) = h
    BY <1>6, <1>8, NextPart, Zenon DEF three
  <2> QED BY <1>6, <2>1 DEF nh
<1>15. Slice(b, P + nh, (P + nh) + nc) = c
  <2>1. Slice(b, Len(three), Len(three) + Len(c)) = c
    BY <1>5, <1>6, NextPart, Zenon DEF four
  <2> QED BY <1>6, <2>1 DEF nc
<1>16. From(b, (P + nh) + nc) = t
  <2>1. From(b, Len(four)) = t
    BY <1>5, <1>6, LastPart, Zenon
  <2> QED BY <1>6, <2>1
<1>17. PacketLengthIsCorrect(b) /\ ~(Len(b) < P + TAG_SIZE)
  BY <1>2, <1>7, <1>13 DEF PacketLengthIsCorrect
<1> QED BY <1>3, <1>13, <1>14, <1>15, <1>16, <1>17 DEF ParsePacket, P, b, p

(* What build_header encodes is parsed back.                               *)
LEMMA HeadersComeBack ==
    ASSUME NEW m, HeaderBuilds(m), m.sender_id \in Bytestrings,
           Range(m.sender_id) \cap NotText = {}
    PROVE  BuildHeader(m) \in Bytestrings /\ ParseHeader(BuildHeader(m)) = Fields(m)
<1> DEFINE N == SENDER_LENGTH_SIZE
           Q == SEQUENCE_SIZE
           S == SEQUENCE_START
           F == FIXED_HEADER_SIZE
           sender == m.sender_id
           n == Len(sender)
           start == <<PROTOCOL_VERSION, m.message_type>>
           len == ToBytes(n, N)
           seq == ToBytes(m.sequence_number, Q)
           two == start \o len
           three == two \o seq
           h == BuildHeader(m)
<1>1. /\ N \in Nat /\ Q \in Nat /\ S = 2 + N /\ F = S + Q /\ S \in Nat /\ F \in Nat /\ n \in Nat
  BY SizesFacts, LenProperties DEF Bytestrings
<1>2. /\ m.message_type \in Byte /\ PROTOCOL_VERSION \in Byte /\ sender # << >>
      /\ n \in 0..Base^N - 1 /\ m.sequence_number \in 0..Base^Q - 1
  BY SizesFacts DEF HeaderBuilds
<1>3. /\ start \in Bytestrings /\ Len(start) = 2
      /\ start[1] = PROTOCOL_VERSION /\ start[2] = m.message_type
  BY <1>2 DEF Bytestrings
<1>4. /\ len \in Bytestrings /\ Len(len) = N /\ FromBytes(len) = n
      /\ seq \in Bytestrings /\ Len(seq) = Q /\ FromBytes(seq) = m.sequence_number
  BY <1>2, NumberFacts
<1>5. h = three \o sender
  BY DEF BuildHeader
<1> HIDE DEF N, Q, S, F, start, len, seq, n, h, sender
<1>6. /\ two \in Bytestrings /\ Len(two) = S
      /\ three \in Bytestrings /\ Len(three) = F
      /\ h \in Bytestrings /\ Len(h) = F + n
  <2>1. two \in Bytestrings /\ Len(two) = Len(start) + Len(len)
    BY <1>3, <1>4, SliceBehind, Zenon
  <2>2. three \in Bytestrings /\ Len(three) = Len(two) + Len(seq)
    <3> HIDE DEF two
    <3> QED BY <1>4, <2>1, SliceBehind, Zenon
  <2>3. h \in Bytestrings /\ Len(h) = Len(three) + n
    <3> HIDE DEF three
    <3> QED BY <1>5, <2>2, SliceBehind, Zenon DEF n, sender
  <2> HIDE DEF two, three
  <2> QED BY <1>1, <1>3, <1>4, <2>1, <2>2, <2>3
<1>7. h = two \o (seq \o sender) /\ seq \o sender \in Bytestrings
  <2>1. two \in Bytestrings /\ seq \in Bytestrings /\ sender \in Bytestrings
    BY <1>4, <1>6 DEF sender
  <2> HIDE DEF two
  <2>2. seq \o sender \in Bytestrings /\ (two \o seq) \o sender = two \o (seq \o sender)
    BY <2>1, JoinedEitherWay
  <2> QED BY <1>5, <2>2
<1>8. h = start \o (len \o (seq \o sender)) /\ len \o (seq \o sender) \in Bytestrings
  <2> DEFINE rest == seq \o sender
  <2>1. start \in Bytestrings /\ len \in Bytestrings /\ rest \in Bytestrings
    BY <1>3, <1>4, <1>7
  <2> HIDE DEF rest
  <2>2. len \o rest \in Bytestrings /\ (start \o len) \o rest = start \o (len \o rest)
    BY <2>1, JoinedEitherWay
  <2> QED BY <1>7, <2>2 DEF rest
<1>9. h[1] = PROTOCOL_VERSION /\ h[2] = m.message_type
  <2>1. Slice(h, 0, Len(start)) = start
    BY <1>3, <1>8, FirstPart, Zenon
  <2>2. 0 \in Nat /\ 2 \in Nat /\ 0 <= 2 /\ 2 <= Len(h)
    <3> HIDE DEF two, three
    <3> QED BY <1>1, <1>6
  <2>3. \A k \in 1..2 - 0 : Slice(h, 0, 2)[k] = h[0 + k]
    BY <1>6, <2>2, SliceFacts, Zenon
  <2>4. Slice(h, 0, 2) = start
    BY <1>3, <2>1
  <2>5. start[1] = h[0 + 1] /\ start[2] = h[0 + 2]
    BY <2>3, <2>4
  <2> QED BY <1>3, <2>5
<1>10. SenderLength(h) = n
  <2>1. Slice(h, Len(start), Len(start) + Len(len)) = len
    BY <1>3, <1>4, <1>7, NextPart, Zenon
  <2> QED BY <1>1, <1>3, <1>4, <2>1 DEF SenderLength, S
<1>11. FromBytes(Slice(h, S, F)) = m.sequence_number
  <2>1. Slice(h, Len(two), Len(two) + Len(seq)) = seq
    <3> HIDE DEF two
    <3> QED BY <1>4, <1>5, <1>6, NextPart, Zenon DEF sender
  <2> HIDE DEF two
  <2> QED BY <1>1, <1>4, <1>6, <2>1
<1>12. From(h, F) = sender
  <2>1. From(h, Len(three)) = sender
    <3> HIDE DEF three
    <3> QED BY <1>5, <1>6, LastPart, Zenon DEF sender
  <2> QED BY <1>6, <2>1
<1> HIDE DEF two, three
<1>13. HeaderParses(h)
  <2>1. Len(h) >= F /\ Len(h) = F + SenderLength(h)
    BY <1>1, <1>6, <1>10
  <2> QED BY <1>2, <1>9, <1>12, <2>1 DEF HeaderParses, HeaderLengthIsCorrect, F, sender
<1>14. ParseHeader(h) = Fields(m)
  BY <1>9, <1>11, <1>12, <1>13 DEF ParseHeader, Fields, S, F, sender
<1> QED BY <1>6, <1>14 DEF h
-----------------------------------------------------------------------------
(* The message stays one of Messages and what is on its way stays a byte   *)
(* string, whatever happens to it.                                         *)
IInv == message \in Messages /\ bytes \in Bytestrings

LEMMA MessageFacts ==
    ASSUME NEW m \in Messages
    PROVE  /\ BuildHeader(m) \in Bytestrings /\ m.ciphertext \in Bytestrings
           /\ m.tag \in Bytestrings /\ PacketSerializes(Packet(m))
           /\ ParseHeader(BuildHeader(m)) = Fields(m)
<1>1. /\ m.sender_id \in Bytestrings /\ m.ciphertext \in Bytestrings /\ m.tag \in Bytestrings
      /\ HeaderBuilds(m) /\ PacketSerializes(Packet(m)) /\ Range(m.sender_id) \cap NotText = {}
  BY MessagesAssumption DEF Bytestrings
<1> QED BY <1>1, HeadersComeBack

LEMMA InitInv == Init => IInv
<1> SUFFICES ASSUME Init PROVE IInv
  OBVIOUS
<1> DEFINE p == Packet(message)
<1>1. message \in Messages /\ bytes = SerializePacket(p)
  BY DEF Init
<1>2. /\ p.header \in Bytestrings /\ p.ciphertext \in Bytestrings /\ p.tag \in Bytestrings
      /\ Len(p.header) \in 0..Base^LENGTH_FIELD_SIZE - 1
      /\ Len(p.ciphertext) \in 0..Base^LENGTH_FIELD_SIZE - 1
  BY <1>1, MessageFacts DEF Packet, PacketSerializes
<1>3. /\ ToBytes(Len(p.header), LENGTH_FIELD_SIZE) \in Bytestrings
      /\ ToBytes(Len(p.ciphertext), LENGTH_FIELD_SIZE) \in Bytestrings
  BY <1>2, NumberFacts
<1> HIDE DEF p
<1>4. bytes \in Bytestrings
  BY <1>1, <1>2, <1>3, JoinedEitherWay DEF SerializePacket
<1> QED BY <1>1, <1>4 DEF IInv

LEMMA NextInv == IInv /\ [Next]_vars => IInv'
<1> SUFFICES ASSUME IInv, [Next]_vars PROVE IInv'
  OBVIOUS
<1>1. CASE UNCHANGED vars
  BY <1>1 DEF IInv, vars
<1>2. CASE Alter
  <2>1. message' = message /\ bytes' \in Altered(bytes) /\ bytes \in Seq(Byte)
    BY <1>2 DEF Alter, IInv, Bytestrings
  <2>2. CASE \E i \in DOMAIN bytes, d \in Byte : bytes' = [bytes EXCEPT ![i] = d]
    <3>1. DOMAIN bytes = 1..Len(bytes)
      BY <2>1, LenProperties
    <3> QED BY <2>1, <2>2, <3>1, ExceptSeq DEF IInv, Bytestrings
  <2>3. CASE \E n \in 0..Len(bytes) - 1 : bytes' = SubSeq(bytes, 1, n)
    <3>1. PICK n \in 0..Len(bytes) - 1 : bytes' = SubSeq(bytes, 1, n)
      BY <2>3
    <3>2. Len(bytes) \in Nat /\ \A k \in 1..Len(bytes) : bytes[k] \in Byte
      BY <2>1, LenProperties, ElementOfSeq
    <3>3. n \in Int /\ 1 \in Int /\ \A k \in 1..n : bytes[k] \in Byte
      BY <3>2
    <3>4. SubSeq(bytes, 1, n) \in Seq(Byte)
      BY <3>3, SubSeqProperties
    <3> QED BY <2>1, <3>1, <3>4 DEF IInv, Bytestrings
  <2>4. CASE \E d \in Byte : bytes' = Append(bytes, d)
    BY <2>1, <2>4, AppendProperties DEF IInv, Bytestrings
  <2> QED BY <2>1, <2>2, <2>3, <2>4 DEF Altered
<1> QED BY <1>1, <1>2 DEF Next

(* Every byte string is parsed as the invariant says, whatever message was *)
(* sent.                                                                   *)
LEMMA ParsedAsNamed ==
    ASSUME IInv
    PROVE  BytesNameOneMessage
<1> DEFINE p == Packet(message)
<1>1. message \in Messages /\ bytes \in Bytestrings
  BY DEF IInv
<1>2. ASSUME bytes = SerializePacket(p)
      PROVE  Parsed = p /\ ParseHeader(Parsed.header) = Fields(message)
  <2>1. ParsePacket(SerializePacket(p)) = p
    BY <1>1, MessageFacts, PacketsComeBack DEF Packet
  <2>2. p.header = BuildHeader(message)
    BY DEF Packet
  <2> HIDE DEF p
  <2> QED BY <1>1, <1>2, <2>1, <2>2, MessageFacts DEF Parsed
<1>3. ASSUME Parsed # Rejected
      PROVE  /\ PacketSerializes(Parsed) /\ SerializePacket(Parsed) = bytes
             /\ ParseHeader(Parsed.header) # Rejected =>
                   BuildHeader(ParseHeader(Parsed.header)) = Parsed.header
  <2>1. /\ Parsed.header \in Bytestrings /\ PacketSerializes(Parsed)
        /\ SerializePacket(Parsed) = bytes
    BY <1>1, <1>3, PacketsNameTheirBytes DEF Parsed
  <2> QED BY <2>1, HeadersNameTheirBytes
<1> QED BY <1>2, <1>3 DEF BytesNameOneMessage

(* Byte strings and messages correspond, for every base, field size and    *)
(* message (message.py:38-119, packet.py:18-95).                           *)
THEOREM EncodingCorrect == Spec => []BytesNameOneMessage
<1>1. IInv => BytesNameOneMessage
  BY ParsedAsNamed
<1> QED BY InitInv, NextInv, <1>1, PTL DEF Spec
-----------------------------------------------------------------------------
(* The transcript of the handshake, which joins five encoded fields.       *)
Field == {value \in Bytestrings : Len(value) < Base^FIELD_LENGTH_SIZE}

LEMMA FieldFacts ==
    ASSUME NEW value \in Field
    PROVE  LET e == EncodeField(value)
               t == ToBytes(Len(value), FIELD_LENGTH_SIZE)
           IN  /\ value \in Bytestrings /\ e \in Bytestrings /\ t \in Bytestrings
               /\ e = t \o value /\ Len(t) = FIELD_LENGTH_SIZE /\ FromBytes(t) = Len(value)
<1> DEFINE e == EncodeField(value)
           t == ToBytes(Len(value), FIELD_LENGTH_SIZE)
           n == Len(value)
           limit == Base^FIELD_LENGTH_SIZE
<1>1. /\ value \in Bytestrings /\ n \in Nat /\ limit \in Nat /\ n < limit
      /\ FIELD_LENGTH_SIZE \in Nat /\ Converts(FIELD_LENGTH_SIZE)
  BY LayoutsAssumption, LenProperties DEF Field, Bytestrings, Converts
<1>2. n \in 0..Base^FIELD_LENGTH_SIZE - 1
  <2> HIDE DEF n, limit
  <2>1. n \in 0..limit - 1
    BY <1>1
  <2> QED BY <2>1 DEF limit
<1>3. t \in Bytestrings /\ Len(t) = FIELD_LENGTH_SIZE /\ FromBytes(t) = n
  BY <1>1, <1>2, NumberConverts
<1>4. e = t \o value
  BY DEF EncodeField
<1> HIDE DEF t, e
<1>5. e \in Bytestrings
  BY <1>1, <1>3, <1>4, JoinedEitherWay
<1> QED BY <1>1, <1>3, <1>4, <1>5 DEF t, e

(* Two byte strings that begin with equally long parts are equal only if   *)
(* these parts, and what is behind them, are.                              *)
LEMMA EqualParts ==
    ASSUME NEW a \in Bytestrings, NEW b \in Bytestrings,
           NEW r \in Bytestrings, NEW s \in Bytestrings,
           Len(a) = Len(b), a \o r = b \o s
    PROVE  a = b /\ r = s
<1>1. Slice(a \o r, 0, Len(a)) = a /\ Slice(b \o s, 0, Len(b)) = b
  BY FirstPart
<1>2. From(a \o r, Len(a)) = r /\ From(b \o s, Len(b)) = s
  BY LastPart
<1> QED BY <1>1, <1>2

(* The length in front of a field tells where it ends.                     *)
LEMMA FieldIsBound ==
    ASSUME NEW v \in Field, NEW w \in Field, NEW r \in Bytestrings, NEW s \in Bytestrings,
           EncodeField(v) \o r = EncodeField(w) \o s
    PROVE  v = w /\ r = s
<1> DEFINE t == ToBytes(Len(v), FIELD_LENGTH_SIZE)
           u == ToBytes(Len(w), FIELD_LENGTH_SIZE)
<1>1. /\ v \in Bytestrings /\ t \in Bytestrings
      /\ EncodeField(v) = t \o v /\ Len(t) = FIELD_LENGTH_SIZE /\ FromBytes(t) = Len(v)
  BY FieldFacts
<1>2. /\ w \in Bytestrings /\ u \in Bytestrings
      /\ EncodeField(w) = u \o w /\ Len(u) = FIELD_LENGTH_SIZE /\ FromBytes(u) = Len(w)
  BY FieldFacts
<1> HIDE DEF t, u
<1>3. /\ (t \o v) \o r = t \o (v \o r) /\ v \o r \in Bytestrings
      /\ (u \o w) \o s = u \o (w \o s) /\ w \o s \in Bytestrings
  BY <1>1, <1>2, JoinedEitherWay
<1>4. t = u /\ v \o r = w \o s
  <2> DEFINE vr == v \o r
             ws == w \o s
  <2>1. /\ t \in Bytestrings /\ u \in Bytestrings /\ vr \in Bytestrings /\ ws \in Bytestrings
        /\ Len(t) = Len(u) /\ t \o vr = u \o ws
    BY <1>1, <1>2, <1>3
  <2> HIDE DEF vr, ws
  <2>2. t = u /\ vr = ws
    BY <2>1, EqualParts, Zenon
  <2> QED BY <2>2 DEF vr, ws
<1>5. Len(v) = Len(w)
  BY <1>1, <1>2, <1>4
<1> QED BY <1>1, <1>2, <1>4, <1>5, EqualParts, Zenon

(* What a transcript is about, and the transcript of it.                   *)
Parties == [client_id : Field, server_id : Field, client_key : Field, server_key : Field]
TranscriptOf(p) == BuildTranscript(p.client_id, p.server_id, p.client_key, p.server_key)

(* Two sides with the same transcript have the same identities in the same *)
(* roles and the same public keys, whatever bytes these consist of         *)
(* (handshake.py:55-91): the records of Handshake stand for transcripts.   *)
THEOREM TranscriptsBindFields ==
    ASSUME NEW mine \in Parties, NEW other \in Parties, TranscriptOf(mine) = TranscriptOf(other)
    PROVE  mine = other
<1>a. PICK c1 \in Field, d1 \in Field, ck1 \in Field, sk1 \in Field :
         mine = [client_id |-> c1, server_id |-> d1, client_key |-> ck1, server_key |-> sk1]
  BY DEF Parties
<1>b. PICK c2 \in Field, d2 \in Field, ck2 \in Field, sk2 \in Field :
         other = [client_id |-> c2, server_id |-> d2, client_key |-> ck2, server_key |-> sk2]
  BY DEF Parties
<1> DEFINE E(value) == EncodeField(value)
           v == VERSION_TEXT
           none == << >>
           Joins(whole, c, d, ck, sk) ==
               \E r1, r2, r3, r4 \in Bytestrings :
                   /\ r4 = E(sk) \o none /\ r3 = E(ck) \o r4 /\ r2 = E(d) \o r3 /\ r1 = E(c) \o r2
                   /\ whole = E(v) \o r1
           T(c, d, ck, sk) == (((E(v) \o E(c)) \o E(d)) \o E(ck)) \o E(sk)
<1>1. /\ \A value \in Field : E(value) \in Bytestrings
      /\ none \in Bytestrings /\ \A s \in Bytestrings : s \o none = s
  BY FieldFacts, EmptySeq, ConcatEmptySeq DEF Bytestrings
<1>2. /\ \A a, b \in Field : \A r, s \in Bytestrings : E(a) \o r = E(b) \o s => a = b
      /\ \A a, b \in Field : \A r, s \in Bytestrings : E(a) \o r = E(b) \o s => r = s
  BY FieldIsBound, Zenon
<1>3. T(c1, d1, ck1, sk1) = T(c2, d2, ck2, sk2) /\ v \in Field
  BY <1>a, <1>b, LayoutsAssumption
  DEF TranscriptOf, BuildTranscript, LengthsFit, Field, Bytestrings
<1> HIDE DEF E, v, none
<1>4. ASSUME NEW c \in Field, NEW d \in Field, NEW ck \in Field, NEW sk \in Field
      PROVE  Joins(T(c, d, ck, sk), c, d, ck, sk)
  <2> DEFINE r4 == E(sk)
             r3 == E(ck) \o r4
             r2 == E(d) \o r3
             r1 == E(c) \o r2
             vc == E(v) \o E(c)
             vcd == vc \o E(d)
  <2>1. /\ E(v) \in Bytestrings /\ E(c) \in Bytestrings /\ E(d) \in Bytestrings
        /\ E(ck) \in Bytestrings /\ r4 \in Bytestrings
    BY <1>1, <1>3
  <2>2. r3 \in Bytestrings /\ vc \in Bytestrings
    BY <2>1, JoinedEitherWay
  <2>3. r2 \in Bytestrings /\ vcd \in Bytestrings
    <3> HIDE DEF r3, vc
    <3> QED BY <2>1, <2>2, JoinedEitherWay
  <2>4. r1 \in Bytestrings
    <3> HIDE DEF r2
    <3> QED BY <2>1, <2>3, JoinedEitherWay
  <2>5. (vcd \o E(ck)) \o r4 = vcd \o r3
    <3> HIDE DEF vcd, r4
    <3> QED BY <2>1, <2>3, JoinedEitherWay
  <2>6. vcd \o r3 = vc \o r2
    <3> HIDE DEF vc, r3
    <3> QED BY <2>1, <2>2, JoinedEitherWay
  <2>7. vc \o r2 = E(v) \o r1
    <3> HIDE DEF r2
    <3> QED BY <2>1, <2>3, JoinedEitherWay
  <2>8. r4 = E(sk) \o none
    BY <1>1, <2>1
  <2>9. (((E(v) \o E(c)) \o E(d)) \o E(ck)) \o E(sk) = E(v) \o r1
    <3>1. (((E(v) \o E(c)) \o E(d)) \o E(ck)) \o E(sk) = (vcd \o E(ck)) \o r4
      OBVIOUS
    <3> HIDE DEF vcd, vc, r1, r2, r3, r4
    <3> QED BY <2>5, <2>6, <2>7, <3>1
  <2>10. r3 = E(ck) \o r4 /\ r2 = E(d) \o r3 /\ r1 = E(c) \o r2
    OBVIOUS
  <2> HIDE DEF vcd, vc, r1, r2, r3, r4
  <2> QED BY <2>1, <2>2, <2>3, <2>4, <2>8, <2>9, <2>10
<1>5. /\ Joins(T(c1, d1, ck1, sk1), c1, d1, ck1, sk1)
      /\ Joins(T(c1, d1, ck1, sk1), c2, d2, ck2, sk2)
  <2> HIDE DEF Joins, T
  <2>1. Joins(T(c1, d1, ck1, sk1), c1, d1, ck1, sk1)
    BY <1>4
  <2>2. Joins(T(c2, d2, ck2, sk2), c2, d2, ck2, sk2)
    BY <1>4
  <2> QED BY <1>3, <2>1, <2>2
<1> DEFINE whole == T(c1, d1, ck1, sk1)
<1> HIDE DEF whole
<1>6. Joins(whole, c1, d1, ck1, sk1) /\ Joins(whole, c2, d2, ck2, sk2)
  BY <1>5 DEF whole
<1>7. PICK r1, r2, r3, r4 \in Bytestrings :
         /\ r4 = E(sk1) \o none /\ r3 = E(ck1) \o r4 /\ r2 = E(d1) \o r3 /\ r1 = E(c1) \o r2
         /\ whole = E(v) \o r1
  BY <1>6
<1>8. PICK s1, s2, s3, s4 \in Bytestrings :
         /\ s4 = E(sk2) \o none /\ s3 = E(ck2) \o s4 /\ s2 = E(d2) \o s3 /\ s1 = E(c2) \o s2
         /\ whole = E(v) \o s1
  BY <1>6
<1>9. r1 = s1
  <2>1. E(v) \o r1 = E(v) \o s1
    BY <1>7, <1>8
  <2> QED BY <1>2, <1>3, <2>1, Zenon
<1>10. c1 = c2 /\ r2 = s2
  <2>1. E(c1) \o r2 = E(c2) \o s2
    BY <1>7, <1>8, <1>9
  <2>2. c1 = c2
    BY <1>2, <2>1, Zenon
  <2>3. r2 = s2
    BY <1>2, <2>1, Zenon
  <2> QED BY <2>2, <2>3
<1>11. d1 = d2 /\ r3 = s3
  <2>1. E(d1) \o r3 = E(d2) \o s3
    BY <1>7, <1>8, <1>10
  <2>2. d1 = d2
    BY <1>2, <2>1, Zenon
  <2>3. r3 = s3
    BY <1>2, <2>1, Zenon
  <2> QED BY <2>2, <2>3
<1>12. ck1 = ck2 /\ r4 = s4
  <2>1. E(ck1) \o r4 = E(ck2) \o s4
    BY <1>7, <1>8, <1>11
  <2>2. ck1 = ck2
    BY <1>2, <2>1, Zenon
  <2>3. r4 = s4
    BY <1>2, <2>1, Zenon
  <2> QED BY <2>2, <2>3
<1>13. sk1 = sk2
  <2>1. E(sk1) \o none = E(sk2) \o none
    BY <1>7, <1>8, <1>12
  <2>2. none \in Bytestrings
    BY <1>1
  <2> QED BY <1>2, <2>1, <2>2, Zenon
<1> QED BY <1>a, <1>b, <1>10, <1>11, <1>12, <1>13
-----------------------------------------------------------------------------
(* Two byte strings that end with equally long parts are equal only if     *)
(* these parts, and what is in front of them, are.                         *)
LEMMA EqualEnds ==
    ASSUME NEW a \in Bytestrings, NEW b \in Bytestrings,
           NEW r \in Bytestrings, NEW s \in Bytestrings,
           Len(r) = Len(s), a \o r = b \o s
    PROVE  a = b /\ r = s
<1>1. Len(a \o r) = Len(a) + Len(r) /\ Len(b \o s) = Len(b) + Len(s)
  BY SliceBehind
<1>2. Len(a) \in Nat /\ Len(b) \in Nat /\ Len(r) \in Nat
  BY LenProperties DEF Bytestrings
<1>3. Len(a) = Len(b)
  <2> DEFINE n == Len(a \o r)
  <2>1. n = Len(a) + Len(r) /\ n = Len(b) + Len(r)
    BY <1>1
  <2> HIDE DEF n
  <2> QED BY <1>2, <2>1
<1> QED BY <1>3, EqualParts, Zenon

(* Reading backwards loses nothing.                                        *)
LEMMA BackwardsFacts ==
    ASSUME NEW s \in Bytestrings
    PROVE  /\ Reverse(s) \in Bytestrings /\ Len(Reverse(s)) = Len(s)
           /\ \A i \in 1..Len(s) : Reverse(s)[i] = s[(Len(s) - i) + 1]
<1> DEFINE n == Len(s)
           r == Reverse(s)
<1>1. n \in Nat /\ \A k \in 1..n : s[k] \in Byte
  BY LenProperties, ElementOfSeq DEF Bytestrings
<1>2. r = [i \in 1..n |-> s[(n - i) + 1]]
  BY DEF Reverse
<1> HIDE DEF n, r
<1>3. \A i \in 1..n : (n - i) + 1 \in 1..n
  BY <1>1
<1>4. r \in [1..n -> Byte]
  BY <1>1, <1>2, <1>3
<1>5. r \in Seq(Byte)
  BY <1>1, <1>4, SeqDef
<1>6. Len(r) = n
  BY <1>1, <1>4, <1>5, LenProperties
<1> QED BY <1>2, <1>5, <1>6 DEF Bytestrings, n, r

LEMMA BackwardsIsExact ==
    ASSUME NEW s \in Bytestrings, NEW t \in Bytestrings, Reverse(s) = Reverse(t)
    PROVE  s = t
<1>1. Len(s) = Len(t) /\ Len(s) \in Nat
  BY BackwardsFacts, LenProperties DEF Bytestrings
<1>2. ASSUME NEW k \in 1..Len(s) PROVE s[k] = t[k]
  <2> DEFINE i == (Len(s) - k) + 1
  <2>1. i \in 1..Len(s) /\ (Len(s) - i) + 1 = k
    BY <1>1
  <2> HIDE DEF i
  <2>2. Reverse(s)[i] = s[(Len(s) - i) + 1] /\ Reverse(t)[i] = t[(Len(s) - i) + 1]
    BY <1>1, <2>1, BackwardsFacts
  <2> QED BY <2>1, <2>2
<1> QED BY <1>1, <1>2, SeqEqual DEF Bytestrings

(* A byte string ends with each of its suffixes.                           *)
LEMMA SuffixIsEnd ==
    ASSUME NEW s \in Bytestrings, NEW t \in Bytestrings, IsSuffix(s, t)
    PROVE  Len(s) <= Len(t) /\ \E a \in Bytestrings : t = a \o s
<1> DEFINE n == Len(s)
           m == Len(t)
           p == Reverse(s)
           q == Reverse(t)
<1>1. /\ p \in Bytestrings /\ Len(p) = n /\ \A i \in 1..n : p[i] = s[(n - i) + 1]
      /\ q \in Bytestrings /\ Len(q) = m /\ \A i \in 1..m : q[i] = t[(m - i) + 1]
  BY BackwardsFacts
<1>2. Len(p) <= Len(q) /\ SubSeq(p, 1, Len(p)) = SubSeq(q, 1, Len(p))
  BY DEF IsSuffix, IsPrefix
<1>3. n \in Nat /\ m \in Nat
  BY LenProperties DEF Bytestrings
<1> HIDE DEF p, q
<1>4. n <= m /\ SubSeq(p, 1, n) = SubSeq(q, 1, n)
  BY <1>1, <1>2
<1>5. \A i \in 1..n : SubSeq(p, 1, n)[i] = p[i] /\ SubSeq(q, 1, n)[i] = q[i]
  <2>1. n - 0 = n /\ 0 + 1 = 1 /\ \A i \in 1..n : 0 + i = i
    BY <1>3
  <2>2. ASSUME NEW b \in Bytestrings, n <= Len(b)
        PROVE  \A i \in 1..n : SubSeq(b, 1, n)[i] = b[i]
    <3> HIDE DEF n
    <3>1. 0 \in Nat /\ n \in Nat /\ 0 <= n
      BY <1>3
    <3>2. /\ Slice(b, 0, n) = SubSeq(b, 0 + 1, n)
          /\ \A i \in 1..n - 0 : Slice(b, 0, n)[i] = b[0 + i]
      BY <2>2, <3>1, SliceFacts
    <3> QED BY <2>1, <3>2
  <2>3. n <= Len(p) /\ n <= Len(q)
    BY <1>1, <1>3, <1>4
  <2> QED BY <1>1, <2>2, <2>3
<1>6. \A i \in 1..n : s[(n - i) + 1] = t[(m - i) + 1]
  <2>1. \A i \in 1..n : p[i] = q[i]
    BY <1>4, <1>5
  <2>2. \A i \in 1..n : i \in 1..m
    BY <1>3, <1>4
  <2> QED BY <1>1, <2>1, <2>2
<1> DEFINE e == From(t, m - n)
<1>7. /\ m - n \in Nat /\ m - n <= m /\ m - (m - n) = n
  BY <1>3, <1>4
<1>8. e \in Bytestrings /\ Len(e) = n /\ \A k \in 1..n : e[k] = t[(m - n) + k]
  <2>1. m <= Len(t) /\ e = Slice(t, m - n, m)
    BY <1>3 DEF From
  <2>2. /\ Slice(t, m - n, m) \in Bytestrings /\ Len(Slice(t, m - n, m)) = m - (m - n)
        /\ \A k \in 1..m - (m - n) : Slice(t, m - n, m)[k] = t[(m - n) + k]
    BY <1>3, <1>7, <2>1, SliceFacts, Zenon
  <2> QED BY <1>7, <2>1, <2>2
<1>9. Slice(t, 0, m - n) \o e = t
  BY <1>7, LastCut
<1> HIDE DEF e
<1>10. ASSUME NEW k \in 1..n PROVE e[k] = s[k]
  <2> DEFINE i == (n - k) + 1
  <2>1. i \in 1..n /\ (n - i) + 1 = k /\ (m - i) + 1 = (m - n) + k
    BY <1>3
  <2> HIDE DEF i
  <2>2. s[(n - i) + 1] = t[(m - i) + 1]
    BY <1>6, <2>1
  <2> QED BY <1>8, <2>1, <2>2
<1>11. e = s
  BY <1>8, <1>10, SeqEqual DEF Bytestrings
<1>12. Slice(t, 0, m - n) \in Bytestrings
  <2>1. 0 \in Nat /\ 0 <= m - n /\ m - n <= Len(t)
    BY <1>3, <1>7
  <2> QED BY <1>7, <2>1, SliceFacts
<1> QED BY <1>4, <1>9, <1>11, <1>12
-----------------------------------------------------------------------------
(* Remainders.                                                             *)
LEMMA RemainderFacts ==
    ASSUME NEW a \in Nat, NEW b \in Nat \ {0}
    PROVE  /\ a \div b \in Nat /\ a % b \in 0..b - 1
           /\ a = b * (a \div b) + (a % b)
OBVIOUS

LEMMA NoRemainder ==
    ASSUME NEW b \in Nat \ {0}, NEW k \in Nat
    PROVE  (b * k) % b = 0
<1> DEFINE a == b * k
           d == a \div b
           r == a % b
<1>1. a \in Nat
  OBVIOUS
<1>2. d \in Nat /\ r \in 0..b - 1 /\ a = b * d + r
  <2> HIDE DEF a
  <2> QED BY <1>1, RemainderFacts
<1>3. b * k = b * d + r
  BY <1>2
<1> HIDE DEF a, d, r
<1>4. b * (k - d) = r
  BY <1>2, <1>3
<1>5. k - d = 0
  <2> DEFINE c == k - d
  <2>1. c \in Int /\ b * c = r /\ r \in 0..b - 1
    BY <1>2, <1>4
  <2> HIDE DEF c
  <2>2. ASSUME c >= 1 PROVE FALSE
    <3>1. b * c >= b
      BY <2>1, <2>2
    <3> QED BY <2>1, <3>1
  <2>3. ASSUME c <= -1 PROVE FALSE
    <3>1. b * c <= -b
      BY <2>1, <2>3
    <3> QED BY <2>1, <3>1
  <2> QED BY <2>1, <2>2, <2>3 DEF c
<1>6. r = 0
  BY <1>4, <1>5
<1> QED BY <1>6 DEF r, a
-----------------------------------------------------------------------------
LEMMA LayoutFacts ==
    /\ Values \subseteq Byte /\ VERSION_TEXT \in Bytestrings /\ 0 \in Byte /\ Base \div 2 \in Byte
    /\ MaxLength \in Nat /\ MaxHashed \in Nat /\ MaxHashed <= MaxLength
    /\ PaddedAfter \subseteq Nat
    /\ BITS_PER_BYTE \in Nat \ {0} /\ PAD_SIZE \in Nat \ {0} /\ KEY_SIZE \in Nat
    /\ BLOCK_SIZE \in Nat \ {0} /\ LENGTH_SIZE < BLOCK_SIZE
    /\ FIELD_LENGTH_SIZE \in Nat /\ LENGTH_SIZE \in Nat /\ MAC_LENGTH_SIZE \in Nat
    /\ Converts(FIELD_LENGTH_SIZE) /\ Converts(LENGTH_SIZE)
    /\ Converts(MAC_LENGTH_SIZE)
<1>1. 0 \in Byte /\ Base \div 2 \in Byte
  BY BaseAssumption DEF Byte
<1>2. /\ Values \subseteq Byte /\ VERSION_TEXT \in Bytestrings
  BY LayoutsAssumption DEF Byte, Bytestrings
<1>3. /\ MaxLength \in Nat /\ MaxHashed \in Nat /\ MaxHashed <= MaxLength
      /\ PaddedAfter \subseteq Nat
      /\ FIELD_LENGTH_SIZE \in Nat /\ LENGTH_SIZE \in Nat /\ MAC_LENGTH_SIZE \in Nat
      /\ Converts(FIELD_LENGTH_SIZE) /\ Converts(LENGTH_SIZE)
      /\ Converts(MAC_LENGTH_SIZE)
  BY LayoutsAssumption
<1>4. /\ BITS_PER_BYTE \in Nat \ {0} /\ PAD_SIZE \in Nat \ {0} /\ KEY_SIZE \in Nat \ {0}
      /\ WORD_SIZE \in Nat \ {0} /\ LENGTH_SIZE < BLOCK_SIZE
  BY LayoutsAssumption, PaddingAssumption DEF BLOCK_SIZE
<1>5. BLOCK_SIZE \in Nat \ {0}
  BY <1>4 DEF BLOCK_SIZE
<1> QED BY <1>1, <1>2, <1>3, <1>4, <1>5

LEMMA ZerosFacts ==
    ASSUME NEW n \in Nat
    PROVE  Zeros(n) \in Bytestrings /\ Len(Zeros(n)) = n
<1> DEFINE z == Zeros(n)
<1>1. 0 \in Byte
  BY BaseAssumption DEF Byte
<1>2. z \in [1..n -> Byte]
  BY <1>1 DEF Zeros
<1> HIDE DEF z
<1>3. z \in Seq(Byte)
  BY <1>2, SeqDef
<1>4. Len(z) = n
  BY <1>2, <1>3, LenProperties
<1> QED BY <1>3, <1>4 DEF Bytestrings, z
-----------------------------------------------------------------------------
(* What is put between a message and its length depends on the length only.*)
Filling(n) ==
    LET size == BLOCK_SIZE IN
    <<Base \div 2>> \o Zeros((2 * size - LENGTH_SIZE - 1 - (n % size)) % size)

LEMMA FillingFacts ==
    ASSUME NEW n \in Nat
    PROVE  /\ Filling(n) \in Bytestrings /\ Len(Filling(n)) \in Nat
           /\ (n + Len(Filling(n)) + LENGTH_SIZE) % BLOCK_SIZE = 0
<1> DEFINE b == BLOCK_SIZE
           c == LENGTH_SIZE
           q == n % b
           k == n \div b
           a == 2 * b - c - 1 - q
           z == a % b
           j == a \div b
           mark == <<Base \div 2>>
<1>1. b \in Nat \ {0} /\ c \in Nat /\ c < b
  BY LayoutFacts
<1>2. Filling(n) = mark \o Zeros(z)
  BY DEF Filling
<1>3. mark \in Bytestrings /\ Len(mark) = 1
  BY LayoutFacts DEF Bytestrings
<1> HIDE DEF b, c, mark
<1>4. q \in 0..b - 1 /\ k \in Nat /\ n = b * k + q
  BY <1>1, RemainderFacts
<1> HIDE DEF q, k
<1>5. a \in Nat
  BY <1>1, <1>4
<1>6. z \in 0..b - 1 /\ j \in Nat /\ a = b * j + z
  <2> HIDE DEF a
  <2> QED BY <1>1, <1>5, RemainderFacts
<1> HIDE DEF z, j
<1>7. /\ Filling(n) \in Bytestrings /\ Len(Filling(n)) = 1 + z
  <2>1. z \in Nat
    BY <1>1, <1>6
  <2>2. Zeros(z) \in Bytestrings /\ Len(Zeros(z)) = z
    BY <2>1, ZerosFacts
  <2> QED BY <1>2, <1>3, <2>2, SliceBehind
<1>8. n + (1 + z) + c = b * ((k + 2) - j)
  <2>1. b * ((k + 2) - j) = b * k + 2 * b - b * j
    BY <1>1, <1>4, <1>6
  <2>2. b * k \in Int /\ b * j \in Int
    BY <1>1, <1>4, <1>6
  <2>3. 2 * b - c - 1 - q = b * j + z
    BY <1>6
  <2> QED BY <1>1, <1>4, <1>6, <2>1, <2>2, <2>3
<1>9. (k + 2) - j \in Nat
  <2> DEFINE d == (k + 2) - j
  <2>1. d \in Int
    BY <1>4, <1>6
  <2>2. b * d >= 0
    <3>1. b * d = n + (1 + z) + c
      BY <1>8
    <3> HIDE DEF d
    <3> QED BY <1>1, <1>6, <3>1
  <2> HIDE DEF d
  <2>3. ASSUME d <= -1 PROVE FALSE
    <3>1. b * d <= -b
      BY <1>1, <2>1, <2>3
    <3> QED BY <1>1, <2>1, <2>2, <3>1
  <2> QED BY <2>1, <2>3 DEF d
<1>10. (n + (1 + z) + c) % b = 0
  <2> DEFINE d == (k + 2) - j
  <2>1. d \in Nat /\ n + (1 + z) + c = b * d
    BY <1>8, <1>9
  <2> HIDE DEF d
  <2> QED BY <1>1, <2>1, NoRemainder
<1>11. 1 + z \in Nat
  BY <1>1, <1>6
<1> QED BY <1>7, <1>10, <1>11 DEF b, c

LEMMA PaddedFacts ==
    ASSUME NEW m \in Bytestrings, BITS_PER_BYTE * Len(m) < Base^LENGTH_SIZE
    PROVE  LET t == ToBytes(BITS_PER_BYTE * Len(m), LENGTH_SIZE)
           IN  /\ t \in Bytestrings /\ Len(t) = LENGTH_SIZE
               /\ FromBytes(t) = BITS_PER_BYTE * Len(m)
               /\ m \o Filling(Len(m)) \in Bytestrings
               /\ PadMessage(m) = (m \o Filling(Len(m))) \o t
               /\ PadMessage(m) \in Bytestrings
               /\ Len(PadMessage(m)) = Len(m) + Len(Filling(Len(m))) + LENGTH_SIZE
               /\ Len(PadMessage(m)) % BLOCK_SIZE = 0
<1> DEFINE n == Len(m)
           f == Filling(n)
           bits == BITS_PER_BYTE * n
           t == ToBytes(bits, LENGTH_SIZE)
           p == PadMessage(m)
           limit == Base^LENGTH_SIZE
           mark == <<Base \div 2>>
           z == Zeros((2 * BLOCK_SIZE - LENGTH_SIZE - 1 - (n % BLOCK_SIZE))
                                % BLOCK_SIZE)
<1>1. n \in Nat /\ BITS_PER_BYTE \in Nat /\ LENGTH_SIZE \in Nat /\ limit \in Nat
  BY LayoutFacts, LenProperties DEF Bytestrings, Converts
<1>2. bits \in 0..limit - 1
  <2>1. bits \in Nat /\ bits < limit
    BY <1>1
  <2> HIDE DEF bits, limit
  <2> QED BY <1>1, <2>1
<1>3. t \in Bytestrings /\ Len(t) = LENGTH_SIZE /\ FromBytes(t) = bits
  <2> HIDE DEF bits
  <2> QED BY <1>1, <1>2, LayoutFacts, NumberConverts
<1>4. f \in Bytestrings /\ Len(f) \in Nat /\ (n + Len(f) + LENGTH_SIZE) % BLOCK_SIZE = 0
  BY <1>1, FillingFacts
<1>5. p = ((m \o mark) \o z) \o t /\ f = mark \o z
  BY DEF PadMessage, Filling
<1>6. mark \in Bytestrings /\ z \in Bytestrings
  <2>1. mark \in Bytestrings
    BY LayoutFacts DEF Bytestrings
  <2> DEFINE b == BLOCK_SIZE
             a == 2 * b - LENGTH_SIZE - 1 - (n % b)
  <2>2. b \in Nat \ {0} /\ LENGTH_SIZE < b /\ n % b \in 0..b - 1
    BY <1>1, LayoutFacts, RemainderFacts
  <2> HIDE DEF b
  <2>3. a \in Nat
    BY <1>1, <2>2
  <2> HIDE DEF a
  <2>4. a % b \in Nat
    BY <2>2, <2>3, RemainderFacts
  <2>5. z = Zeros(a % b)
    BY DEF a, b
  <2> QED BY <2>1, <2>4, <2>5, ZerosFacts
<1> HIDE DEF n, t, p, mark, z, f
<1>7. (m \o mark) \o z = m \o f /\ m \o f \in Bytestrings
  BY <1>4, <1>5, <1>6, JoinedEitherWay
<1>8. p = (m \o f) \o t
  BY <1>5, <1>7
<1>9. p \in Bytestrings /\ Len(p) = (n + Len(f)) + LENGTH_SIZE
  <2>1. Len(m \o f) = n + Len(f)
    BY <1>4, SliceBehind DEF n
  <2> DEFINE mf == m \o f
  <2>2. mf \in Bytestrings /\ p = mf \o t /\ Len(mf) = n + Len(f)
    BY <1>7, <1>8, <2>1
  <2> HIDE DEF mf
  <2> QED BY <1>3, <2>2, SliceBehind
<1>10. Len(p) % BLOCK_SIZE = 0
  BY <1>4, <1>9
<1> QED BY <1>3, <1>7, <1>8, <1>9, <1>10 DEF n, t, p, f

(* A padded message is the end of another only if the two are the same.    *)
LEMMA PaddedEnds ==
    ASSUME NEW m \in Bytestrings, NEW w \in Bytestrings,
           BITS_PER_BYTE * Len(m) < Base^LENGTH_SIZE, BITS_PER_BYTE * Len(w) < Base^LENGTH_SIZE,
           IsSuffix(PadMessage(m), PadMessage(w))
    PROVE  m = w
<1> DEFINE p == PadMessage(m)
           q == PadMessage(w)
           t == ToBytes(BITS_PER_BYTE * Len(m), LENGTH_SIZE)
           u == ToBytes(BITS_PER_BYTE * Len(w), LENGTH_SIZE)
           f == Filling(Len(m))
           g == Filling(Len(w))
           mf == m \o f
           wg == w \o g
<1>1. /\ t \in Bytestrings /\ Len(t) = LENGTH_SIZE /\ FromBytes(t) = BITS_PER_BYTE * Len(m)
      /\ mf \in Bytestrings /\ p = mf \o t /\ p \in Bytestrings
      /\ Len(p) = Len(m) + Len(f) + LENGTH_SIZE
  BY PaddedFacts
<1>2. /\ u \in Bytestrings /\ Len(u) = LENGTH_SIZE /\ FromBytes(u) = BITS_PER_BYTE * Len(w)
      /\ wg \in Bytestrings /\ q = wg \o u /\ q \in Bytestrings
      /\ Len(q) = Len(w) + Len(g) + LENGTH_SIZE
  BY PaddedFacts
<1>3. IsSuffix(p, q)
  OBVIOUS
<1> HIDE DEF p, q, t, u
<1>4. PICK a \in Bytestrings : q = a \o p
  BY <1>1, <1>2, <1>3, SuffixIsEnd
<1>5. a \o p = (a \o mf) \o t /\ a \o mf \in Bytestrings
  <2>1. mf \in Bytestrings /\ t \in Bytestrings /\ p = mf \o t
    BY <1>1
  <2> HIDE DEF mf, f
  <2>2. a \o mf \in Bytestrings /\ (a \o mf) \o t = a \o (mf \o t)
    BY <2>1, JoinedEitherWay
  <2> QED BY <2>1, <2>2
<1>6. t = u
  <2>1. PICK c \in Bytestrings : c \o t = q
    BY <1>4, <1>5
  <2>2. /\ wg \in Bytestrings /\ t \in Bytestrings /\ u \in Bytestrings
        /\ Len(t) = Len(u) /\ c \o t = wg \o u
    BY <1>1, <1>2, <2>1
  <2> HIDE DEF wg
  <2>3. u = t
    BY <2>2, EqualEnds, Zenon
  <2> QED BY <2>3
<1>7. Len(m) = Len(w)
  <2>1. BITS_PER_BYTE * Len(m) = BITS_PER_BYTE * Len(w)
    BY <1>1, <1>2, <1>6
  <2>2. BITS_PER_BYTE \in Nat \ {0} /\ Len(m) \in Nat /\ Len(w) \in Nat
    BY LayoutFacts, LenProperties DEF Bytestrings
  <2> QED BY <2>1, <2>2
<1>8. Len(p) = Len(q) /\ f = g
  BY <1>1, <1>2, <1>7
<1>9. a = << >> /\ q = p
  <2>1. Len(q) = Len(a) + Len(p) /\ Len(a) \in Nat /\ Len(p) \in Nat
    BY <1>1, <1>4, SliceBehind, LenProperties DEF Bytestrings
  <2>2. Len(a) = 0
    BY <1>8, <2>1
  <2>3. a = << >>
    BY <2>2, EmptySeq DEF Bytestrings
  <2> QED BY <1>1, <1>4, <2>3, ConcatEmptySeq DEF Bytestrings
<1>10. mf = wg
  <2>1. /\ mf \in Bytestrings /\ wg \in Bytestrings
        /\ t \in Bytestrings /\ u \in Bytestrings
        /\ Len(t) = Len(u) /\ mf \o t = wg \o u
    BY <1>1, <1>2, <1>9
  <2> HIDE DEF mf, wg
  <2> QED BY <2>1, EqualEnds, Zenon
<1>11. f \in Bytestrings /\ g \in Bytestrings
  <2>1. Len(m) \in Nat /\ Len(w) \in Nat
    BY LenProperties DEF Bytestrings
  <2> QED BY <2>1, FillingFacts
<1> HIDE DEF f, g
<1> QED BY <1>7, <1>10, <1>11, EqualParts
-----------------------------------------------------------------------------
LEMMA Pad16Facts ==
    ASSUME NEW b \in Bytestrings
    PROVE  Pad16(b) \in Bytestrings
<1> DEFINE size == PAD_SIZE
           q == Len(b) % size
           a == size - q
<1>1. size \in Nat \ {0} /\ Len(b) \in Nat
  BY LayoutFacts, LenProperties DEF Bytestrings
<1> HIDE DEF size
<1>2. q \in 0..size - 1
  BY <1>1, RemainderFacts
<1>3. a \in Nat
  <2> HIDE DEF q
  <2> QED BY <1>1, <1>2
<1>4. a % size \in 0..size - 1
  <2> HIDE DEF a
  <2> QED BY <1>1, <1>3, RemainderFacts
<1>5. a % size \in Nat
  <2> DEFINE z == a % size
  <2>1. z \in 0..size - 1
    BY <1>4
  <2> HIDE DEF z
  <2>2. z \in Nat
    BY <1>1, <2>1
  <2> QED BY <2>2 DEF z
<1>6. Pad16(b) = Zeros(a % size)
  BY DEF Pad16, size
<1> HIDE DEF a
<1> QED BY <1>5, <1>6, ZerosFacts

(* A length at the end of what is authenticated.                           *)
LEMMA MacLength ==
    ASSUME NEW n \in Nat, n < Base^MAC_LENGTH_SIZE
    PROVE  /\ ToLittleEndian(n, MAC_LENGTH_SIZE) \in Bytestrings
           /\ Len(ToLittleEndian(n, MAC_LENGTH_SIZE)) = MAC_LENGTH_SIZE
           /\ \A m \in Nat :
                 (/\ m < Base^MAC_LENGTH_SIZE
                  /\ ToLittleEndian(n, MAC_LENGTH_SIZE)
                        = ToLittleEndian(m, MAC_LENGTH_SIZE)) => n = m
<1> DEFINE size == MAC_LENGTH_SIZE
           limit == Base^size
           T(m) == ToBytes(m, size)
<1>1. size \in Nat /\ Converts(size) /\ limit \in Nat
  BY LayoutFacts DEF Converts
<1>2. ASSUME NEW m \in Nat, m < limit
      PROVE  T(m) \in Bytestrings /\ Len(T(m)) = size /\ FromBytes(T(m)) = m
  <2>1. m \in 0..limit - 1
    <3> HIDE DEF limit
    <3> QED BY <1>1, <1>2
  <2> HIDE DEF size
  <2> QED BY <1>1, <2>1, NumberConverts
<1> HIDE DEF T
<1>3. ASSUME NEW m \in Nat PROVE ToLittleEndian(m, size) = Reverse(T(m))
  BY DEF ToLittleEndian, T
<1>4. T(n) \in Bytestrings /\ Len(T(n)) = size
  BY <1>2
<1>5. Reverse(T(n)) \in Bytestrings /\ Len(Reverse(T(n))) = size
  BY <1>4, BackwardsFacts
<1>6. ASSUME NEW m \in Nat, m < limit, Reverse(T(n)) = Reverse(T(m))
      PROVE  n = m
  <2>1. T(n) = T(m)
    BY <1>2, <1>6, BackwardsIsExact
  <2> QED BY <1>2, <1>6, <2>1
<1> QED BY <1>3, <1>5, <1>6

LEMMA MacDataBinds ==
    ASSUME NEW a \in Bytestrings, NEW c \in Bytestrings,
           NEW b \in Bytestrings, NEW d \in Bytestrings,
           \A s \in {a, b, c, d} : Len(s) < Base^MAC_LENGTH_SIZE,
           BuildMacData(a, c) = BuildMacData(b, d)
    PROVE  b = a /\ d = c
<1> DEFINE P(s) == Pad16(s)
           L(s) == ToLittleEndian(Len(s), MAC_LENGTH_SIZE)
           D(s, t) == ((s \o P(s)) \o t) \o P(t)
<1>1. BuildMacData(a, c) = (D(a, c) \o L(a)) \o L(c)
  BY DEF BuildMacData
<1>2. BuildMacData(b, d) = (D(b, d) \o L(b)) \o L(d)
  BY DEF BuildMacData
<1>3. /\ P(a) \in Bytestrings /\ P(b) \in Bytestrings
      /\ P(c) \in Bytestrings /\ P(d) \in Bytestrings
  BY Pad16Facts
<1>4. ASSUME NEW s \in {a, b, c, d}
      PROVE  /\ L(s) \in Bytestrings /\ Len(L(s)) = MAC_LENGTH_SIZE
             /\ \A t \in {a, b, c, d} : L(s) = L(t) => Len(s) = Len(t)
  <2>1. \A t \in {a, b, c, d} : Len(t) \in Nat /\ Len(t) < Base^MAC_LENGTH_SIZE
    BY LenProperties DEF Bytestrings
  <2> QED BY <2>1, MacLength
<1>5. ASSUME NEW s \in Bytestrings, NEW t \in Bytestrings, Len(s) = Len(t)
      PROVE  P(s) = P(t)
  BY <1>5 DEF Pad16
<1> HIDE DEF P, L
<1>6. ASSUME NEW s \in Bytestrings, NEW t \in Bytestrings,
             P(s) \in Bytestrings, P(t) \in Bytestrings
      PROVE  /\ s \o P(s) \in Bytestrings /\ (s \o P(s)) \o t \in Bytestrings
             /\ D(s, t) \in Bytestrings
  <2>1. s \o P(s) \in Bytestrings
    BY <1>6, JoinedEitherWay
  <2>2. (s \o P(s)) \o t \in Bytestrings
    <3> DEFINE sp == s \o P(s)
    <3>1. sp \in Bytestrings
      BY <2>1
    <3> HIDE DEF sp
    <3>2. sp \o t \in Bytestrings
      BY <3>1, JoinedEitherWay
    <3> QED BY <3>2 DEF sp
  <2>3. D(s, t) \in Bytestrings
    <3> DEFINE spt == (s \o P(s)) \o t
    <3>1. spt \in Bytestrings
      BY <2>2
    <3> HIDE DEF spt
    <3>2. spt \o P(t) \in Bytestrings
      BY <1>6, <3>1, JoinedEitherWay
    <3> QED BY <3>2 DEF spt
  <2> QED BY <2>1, <2>2, <2>3
<1>7. D(a, c) \o L(a) = D(b, d) \o L(b) /\ L(d) = L(c)
  <2> DEFINE v == D(a, c) \o L(a)
             w == D(b, d) \o L(b)
  <2>1. D(a, c) \in Bytestrings /\ D(b, d) \in Bytestrings
    BY <1>3, <1>6
  <2>2. v \in Bytestrings /\ w \in Bytestrings
    <3> HIDE DEF D
    <3> QED BY <1>4, <2>1, JoinedEitherWay
  <2>3. /\ L(c) \in Bytestrings /\ L(d) \in Bytestrings /\ Len(L(c)) = Len(L(d))
        /\ v \o L(c) = w \o L(d)
    BY <1>1, <1>2, <1>4
  <2> DEFINE p == L(c)
             q == L(d)
  <2>4. p \in Bytestrings /\ q \in Bytestrings /\ Len(p) = Len(q) /\ v \o p = w \o q
    BY <2>3
  <2> HIDE DEF v, w, p, q
  <2>5. v = w
    BY <2>2, <2>4, EqualEnds, Zenon
  <2>6. q = p
    BY <2>2, <2>4, EqualEnds, Zenon
  <2> QED BY <2>5, <2>6 DEF v, w, p, q
<1>8. D(a, c) = D(b, d) /\ L(b) = L(a)
  <2> DEFINE v == D(a, c)
             w == D(b, d)
  <2>1. v \in Bytestrings /\ w \in Bytestrings
    BY <1>3, <1>6
  <2>2. /\ L(a) \in Bytestrings /\ L(b) \in Bytestrings /\ Len(L(a)) = Len(L(b))
        /\ v \o L(a) = w \o L(b)
    BY <1>4, <1>7
  <2> DEFINE p == L(a)
             q == L(b)
  <2>3. p \in Bytestrings /\ q \in Bytestrings /\ Len(p) = Len(q) /\ v \o p = w \o q
    BY <2>2
  <2> HIDE DEF v, w, p, q
  <2>4. v = w
    BY <2>1, <2>3, EqualEnds, Zenon
  <2>5. q = p
    BY <2>1, <2>3, EqualEnds, Zenon
  <2> QED BY <2>4, <2>5 DEF v, w, p, q
<1>9. Len(a) = Len(b) /\ Len(c) = Len(d)
  BY <1>4, <1>7, <1>8
<1>10. P(a) = P(b) /\ P(c) = P(d)
  BY <1>5, <1>9
<1>11. (a \o P(a)) \o c = (b \o P(b)) \o d
  <2> DEFINE v == (a \o P(a)) \o c
             w == (b \o P(b)) \o d
  <2>1. v \in Bytestrings /\ w \in Bytestrings
    BY <1>3, <1>6
  <2>2. v \o P(c) = w \o P(d) /\ Len(P(c)) = Len(P(d))
    BY <1>8, <1>10
  <2> HIDE DEF v, w
  <2>3. v = w
    BY <1>3, <2>1, <2>2, EqualEnds, Zenon
  <2> QED BY <2>3 DEF v, w
<1>12. a \o P(a) = b \o P(b) /\ d = c
  <2> DEFINE v == a \o P(a)
             w == b \o P(b)
  <2>1. v \in Bytestrings /\ w \in Bytestrings
    BY <1>3, <1>6
  <2>2. v \o c = w \o d /\ Len(c) = Len(d)
    BY <1>9, <1>11
  <2> HIDE DEF v, w
  <2>3. v = w
    BY <2>1, <2>2, EqualEnds, Zenon
  <2>4. d = c
    BY <2>1, <2>2, EqualEnds, Zenon
  <2> QED BY <2>3, <2>4 DEF v, w
<1>13. b = a
  BY <1>3, <1>9, <1>12, EqualParts
<1> QED BY <1>12, <1>13
-----------------------------------------------------------------------------
(* Byte strings no longer than the bound; LayoutsAssumption says it fits.  *)
LaidOutInv ==
    /\ x \in Bytestrings /\ Len(x) <= MaxLength
    /\ y \in Bytestrings /\ Len(y) <= MaxLength

LEMMA LaidOutInit ==
    Empty => LaidOutInv
<1>1. MaxLength \in Nat /\ << >> \in Bytestrings /\ Len(<< >>) = 0
  BY LayoutFacts, EmptySeq DEF Bytestrings
<1>2. ASSUME Empty PROVE LaidOutInv
  <2>1. x = << >> /\ y = << >>
    BY <1>2 DEF Empty
  <2> QED BY <1>1, <2>1 DEF LaidOutInv
<1> QED BY <1>2

LEMMA LaidOutNext ==
    LaidOutInv /\ [Grow]_strings => LaidOutInv'
<1> SUFFICES ASSUME LaidOutInv, [Grow]_strings PROVE LaidOutInv'
  OBVIOUS
<1>1. ASSUME NEW s \in Bytestrings, NEW b \in Values, Len(s) < MaxLength
      PROVE  Append(s, b) \in Bytestrings /\ Len(Append(s, b)) <= MaxLength
  <2>1. Values \subseteq Byte /\ MaxLength \in Nat /\ Len(s) \in Nat
    BY LayoutFacts, LenProperties DEF Bytestrings
  <2>2. Append(s, b) \in Bytestrings /\ Len(Append(s, b)) = Len(s) + 1
    BY <2>1, AppendProperties DEF Bytestrings
  <2> QED BY <1>1, <2>1, <2>2
<1>2. CASE UNCHANGED strings
  BY <1>2 DEF LaidOutInv, strings
<1>3. CASE Len(x) < MaxLength /\ (\E b \in Values : x' = Append(x, b)) /\ UNCHANGED y
  BY <1>1, <1>3 DEF LaidOutInv
<1>4. CASE Len(y) < MaxLength /\ (\E b \in Values : y' = Append(y, b)) /\ UNCHANGED x
  BY <1>1, <1>4 DEF LaidOutInv
<1> QED BY <1>2, <1>3, <1>4 DEF Grow

(* Short inputs and public keys are byte strings too.                      *)
LEMMA InputFacts ==
    ASSUME NEW s \in Inputs
    PROVE  s \in Bytestrings /\ Len(s) \in Nat /\ Len(s) <= MaxHashed
<1>1. PICK n \in 0..MaxHashed : s \in [1..n -> Values]
  BY DEF Inputs, BoundedSeq, SeqOf
<1>2. MaxHashed \in Nat /\ Values \subseteq Byte
  BY LayoutFacts
<1>3. n \in Nat /\ n <= MaxHashed /\ s \in [1..n -> Byte]
  BY <1>1, <1>2
<1>4. s \in Seq(Byte)
  BY <1>3, SeqDef
<1>5. Len(s) = n
  BY <1>3, <1>4, LenProperties
<1> QED BY <1>3, <1>4, <1>5 DEF Bytestrings

LEMMA FieldsFit ==
    VERSION_TEXT \in Field /\ Inputs \subseteq Field /\ PublicKeys \subseteq Field
<1> DEFINE limit == Base^FIELD_LENGTH_SIZE
<1>1. /\ Len(VERSION_TEXT) < limit /\ KEY_SIZE < limit /\ MaxHashed < limit
      /\ PublicKeys \subseteq [1..KEY_SIZE -> Byte]
  BY LayoutsAssumption DEF LengthsFit, Byte
<1>2. limit \in Nat /\ VERSION_TEXT \in Bytestrings /\ KEY_SIZE \in Nat /\ MaxHashed \in Nat
  BY LayoutFacts DEF Converts
<1>3. Field = {value \in Bytestrings : Len(value) < limit}
  BY DEF Field
<1> HIDE DEF limit
<1>4. ASSUME NEW s \in Inputs PROVE s \in Field
  <2>1. s \in Bytestrings /\ Len(s) \in Nat /\ Len(s) <= MaxHashed
    BY InputFacts
  <2> QED BY <1>1, <1>2, <1>3, <2>1
<1>5. ASSUME NEW s \in PublicKeys PROVE s \in Field
  <2>1. s \in [1..KEY_SIZE -> Byte]
    BY <1>1
  <2>2. s \in Seq(Byte)
    BY <1>2, <2>1, SeqDef
  <2>3. Len(s) = KEY_SIZE
    BY <1>2, <2>1, <2>2, LenProperties
  <2> QED BY <1>1, <1>3, <2>2, <2>3 DEF Bytestrings
<1> QED BY <1>1, <1>2, <1>3, <1>4, <1>5
-----------------------------------------------------------------------------
(* No identity can borrow bytes from the field next to it in a transcript, *)
(* whatever the version, the identities and the keys (handshake.py:55-91). *)
THEOREM FieldsAreBound == Growing => []TranscriptBindsFields
<1>1. TranscriptBindsFields
  <2> SUFFICES ASSUME NEW mine \in Transcripts, NEW other \in Transcripts,
                      mine.bytes = other.bytes
               PROVE  other = mine
    BY DEF TranscriptBindsFields
  <2> DEFINE PartiesOf(p) == [client_id |-> p.client_id, server_id |-> p.server_id,
                            client_key |-> p.client_key, server_key |-> p.server_key]
  <2>1. ASSUME NEW p \in Transcripts
        PROVE  /\ PartiesOf(p) \in Parties /\ p.bytes = TranscriptOf(PartiesOf(p))
               /\ p = [client_id |-> PartiesOf(p).client_id,
                       server_id |-> PartiesOf(p).server_id,
                       client_key |-> PartiesOf(p).client_key,
                       server_key |-> PartiesOf(p).server_key,
                       bytes |-> p.bytes]
    <3>1. PICK c \in Inputs, d \in Inputs, ck \in PublicKeys, sk \in PublicKeys :
             p = [client_id |-> c, server_id |-> d, client_key |-> ck, server_key |-> sk,
                  bytes |-> BuildTranscript(c, d, ck, sk)]
      BY DEF Transcripts
    <3>2. c \in Field /\ d \in Field /\ ck \in Field /\ sk \in Field
      BY FieldsFit
    <3> QED BY <3>1, <3>2 DEF Parties, TranscriptOf
  <2> HIDE DEF PartiesOf
  <2>2. PartiesOf(mine) = PartiesOf(other)
    <3>1. Converts(FIELD_LENGTH_SIZE) /\ FIELD_LENGTH_SIZE \in Nat /\ VERSION_TEXT \in Field
      BY LayoutFacts, FieldsFit
    <3>2. /\ PartiesOf(mine) \in Parties /\ PartiesOf(other) \in Parties
          /\ TranscriptOf(PartiesOf(mine)) = TranscriptOf(PartiesOf(other))
      BY <2>1
    <3> QED BY <3>1, <3>2, TranscriptsBindFields
  <2> QED BY <2>1, <2>2
<1> QED BY <1>1, PTL

(* A padded message fills its blocks and is never the end of another one,  *)
(* however long the two are (_pad_message, sha256.py:98-110).              *)
THEOREM PaddingNeverNests == Growing => []PaddedMessagesNeverNest
<1>1. ASSUME LaidOutInv PROVE PaddedMessagesNeverNest
  <2>1. ASSUME NEW n \in PaddedAfter, NEW s \in Bytestrings, Len(s) <= MaxLength
        PROVE  /\ Zeros(n) \o s \in Bytestrings
               /\ BITS_PER_BYTE * Len(Zeros(n) \o s) < Base^LENGTH_SIZE
    <3> DEFINE z == Zeros(n)
               limit == Base^LENGTH_SIZE
    <3>1. /\ n \in Nat /\ MaxLength \in Nat /\ Len(s) \in Nat
          /\ BITS_PER_BYTE \in Nat /\ limit \in Nat
      BY LayoutFacts, LenProperties DEF Bytestrings, Converts
    <3>2. BITS_PER_BYTE * (n + MaxLength) < limit
      BY LayoutsAssumption DEF LengthsFit
    <3>3. z \in Bytestrings /\ Len(z) = n
      BY <3>1, ZerosFacts
    <3> HIDE DEF z, limit
    <3>4. z \o s \in Bytestrings /\ Len(z \o s) = n + Len(s)
      BY <3>3, SliceBehind
    <3>5. BITS_PER_BYTE * (n + Len(s)) <= BITS_PER_BYTE * (n + MaxLength)
      BY <2>1, <3>1
    <3>6. BITS_PER_BYTE * (n + Len(s)) \in Nat /\ BITS_PER_BYTE * (n + MaxLength) \in Nat
      BY <3>1
    <3>7. BITS_PER_BYTE * (n + Len(s)) < limit
      BY <3>1, <3>2, <3>5, <3>6
    <3> QED BY <3>4, <3>7 DEF z, limit
  <2> SUFFICES ASSUME NEW n \in PaddedAfter, NEW m \in PaddedAfter
               PROVE  LET px == PadMessage(Zeros(n) \o x)
                          py == PadMessage(Zeros(m) \o y)
                      IN  /\ Len(px) % BLOCK_SIZE = 0
                          /\ IsSuffix(px, py) => Zeros(n) \o x = Zeros(m) \o y
    BY DEF PaddedMessagesNeverNest
  <2> DEFINE v == Zeros(n) \o x
             w == Zeros(m) \o y
  <2>2. /\ v \in Bytestrings /\ BITS_PER_BYTE * Len(v) < Base^LENGTH_SIZE
        /\ w \in Bytestrings /\ BITS_PER_BYTE * Len(w) < Base^LENGTH_SIZE
    BY <1>1, <2>1 DEF LaidOutInv
  <2> HIDE DEF v, w
  <2>3. Len(PadMessage(v)) % BLOCK_SIZE = 0
    BY <2>2, PaddedFacts
  <2>4. IsSuffix(PadMessage(v), PadMessage(w)) => v = w
    BY <2>2, PaddedEnds
  <2> QED BY <2>3, <2>4 DEF v, w
<1> QED BY <1>1, LaidOutInit, LaidOutNext, PTL DEF Growing

(* What a tag is computed from tells where the additional data ends and    *)
(* the ciphertext begins (_build_mac_data, aead.py:39-53).                 *)
THEOREM SplitIsCovered == Growing => []TagCoversTheSplit
<1>1. ASSUME LaidOutInv PROVE TagCoversTheSplit
  <2> SUFFICES ASSUME NEW aad \in Inputs, NEW ciphertext \in Inputs,
                      BuildMacData(aad, ciphertext) = BuildMacData(x, y)
               PROVE  aad = x /\ ciphertext = y
    BY DEF TagCoversTheSplit
  <2>1. /\ aad \in Bytestrings /\ Len(aad) \in Nat /\ Len(aad) <= MaxHashed
        /\ ciphertext \in Bytestrings /\ Len(ciphertext) \in Nat /\ Len(ciphertext) <= MaxHashed
    BY InputFacts
  <2>2. /\ x \in Bytestrings /\ Len(x) \in Nat /\ Len(x) <= MaxLength
        /\ y \in Bytestrings /\ Len(y) \in Nat /\ Len(y) <= MaxLength
    BY <1>1, LenProperties DEF LaidOutInv, Bytestrings
  <2> DEFINE limit == Base^MAC_LENGTH_SIZE
  <2>3. MaxLength < limit /\ limit \in Nat
    BY LayoutsAssumption, LayoutFacts DEF LengthsFit, Converts
  <2>4. MaxLength \in Nat /\ MaxHashed \in Nat /\ MaxHashed <= MaxLength
    BY LayoutFacts
  <2> HIDE DEF limit
  <2>5. \A s \in {aad, ciphertext, x, y} : Len(s) < limit
    BY <2>1, <2>2, <2>3, <2>4
  <2>6. \A s \in {aad, ciphertext, x, y} : Len(s) < Base^MAC_LENGTH_SIZE
    BY <2>5 DEF limit
  <2>7. x = aad /\ y = ciphertext
    BY <2>1, <2>2, <2>6, MacDataBinds
  <2> QED BY <2>7
<1> QED BY <1>1, LaidOutInit, LaidOutNext, PTL DEF Growing
=============================================================================
