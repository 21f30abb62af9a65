--------------------------- MODULE TransportProofs ---------------------------
(***************************************************************************)
(* Proofs about Transport: nothing that was sent whole is refused, for any *)
(* number of sending threads, any sizes of packets, of the length prefix   *)
(* and of the stream.                                                      *)
(*                                                                         *)
(* All the bytes ever handed to sendall form one long string, in which the *)
(* frames stand one behind the other.  The invariant says at which place   *)
(* of that string the receiver is, that what is on its way continues it    *)
(* from there, and that a sending call will add exactly what is missing.   *)
(***************************************************************************)
EXTENDS Transport, SequenceTheorems, TLAPS

Packets == {p \in Seq(Nat) : Len(p) \in Sizes /\ Len(p) <= MaxPacketSize}

(* What sendall is given for a packet.                                     *)
Frame(p) == ToBytes(Len(p), LengthPrefixSize) \o p

(* The frame of packet i is at the places f[i - 1] + 1 .. f[i].            *)
IsLayout(f, q) ==
    /\ f \in [0..Len(q) -> Nat]
    /\ \A i \in 1..Len(q) : f[i] = f[i - 1] + Len(Frame(q[i]))
    /\ \A i, j \in 0..Len(q) : i <= j => f[i] <= f[j]

(* The bytes b are those at the places p + 1, p + 2, ... of the string.    *)
Carries(b, p, f, q) ==
    /\ p + Len(b) <= f[Len(q)]
    /\ \A i \in 1..Len(q), k \in 1..Len(b) :
          (f[i - 1] < p + k /\ p + k <= f[i]) => b[k] = Frame(q[i])[p + k - f[i - 1]]
-----------------------------------------------------------------------------
(* A frame is the prefix, then the packet.                                 *)
LEMMA FrameFacts ==
    ASSUME NEW p \in Packets
    PROVE  /\ p \in Seq(Nat) /\ Len(p) \in Nat \ {0} /\ LengthPrefixSize \in Nat \ {0}
           /\ ToBytes(Len(p), LengthPrefixSize) \in Seq(Nat)
           /\ Len(ToBytes(Len(p), LengthPrefixSize)) = LengthPrefixSize
           /\ FromBytes(ToBytes(Len(p), LengthPrefixSize)) = Len(p)
           /\ Frame(p) \in Seq(Nat) /\ Len(Frame(p)) = LengthPrefixSize + Len(p)
           /\ \A k \in 1..LengthPrefixSize :
                 Frame(p)[k] = ToBytes(Len(p), LengthPrefixSize)[k]
           /\ \A k \in 1..Len(p) : Frame(p)[LengthPrefixSize + k] = p[k]
<1> DEFINE t == ToBytes(Len(p), LengthPrefixSize)
           L == LengthPrefixSize
<1>1. /\ p \in Seq(Nat) /\ Len(p) \in Nat \ {0} /\ L \in Nat \ {0}
      /\ t \in [1..L -> Byte] /\ FromBytes(t) = Len(p)
  <2>1. /\ L \in Nat \ {0} /\ Sizes \subseteq Nat \ {0}
        /\ MaxPacketSize \in Nat /\ MaxPacketSize < Base^L
    BY TransportAssumption
  <2>2. p \in Seq(Nat) /\ Len(p) \in Nat \ {0} /\ Len(p) <= MaxPacketSize
    BY <2>1 DEF Packets
  <2>3. /\ Base^L \in Nat
        /\ \A n \in 0..Base^L - 1 : ToBytes(n, L) \in [1..L -> Byte] /\ FromBytes(ToBytes(n, L)) = n
    BY PrefixAssumption DEF Converts
  <2> DEFINE x == Base^L
  <2>4. x \in Nat /\ MaxPacketSize < x
    BY <2>1, <2>3
  <2> HIDE DEF x
  <2>5. Len(p) \in 0..x - 1
    BY <2>1, <2>2, <2>4
  <2> QED BY <2>1, <2>2, <2>3, <2>5 DEF x
<1>2. t \in Seq(Nat) /\ Len(t) = L
  <2> HIDE DEF t, L
  <2>1. Byte \subseteq Nat
    BY BaseAssumption DEF Byte
  <2>2. t \in [1..L -> Nat]
    BY <1>1, <2>1
  <2>3. t \in Seq(Nat)
    BY <1>1, <2>2, SeqDef
  <2> QED BY <1>1, <2>2, <2>3, LenProperties
<1>3. Frame(p) = t \o p
  BY DEF Frame
<1> HIDE DEF t, L
<1>4. /\ Frame(p) \in Seq(Nat) /\ Len(Frame(p)) = L + Len(p)
      /\ \A i \in 1..L + Len(p) : Frame(p)[i] = IF i <= L THEN t[i] ELSE p[i - L]
  BY <1>1, <1>2, <1>3, ConcatProperties
<1>5. \A k \in 1..L : Frame(p)[k] = t[k]
  BY <1>1, <1>4
<1>6. \A k \in 1..Len(p) : Frame(p)[L + k] = p[k]
  <2> SUFFICES ASSUME NEW k \in 1..Len(p) PROVE Frame(p)[L + k] = p[k]
    OBVIOUS
  <2>1. L + k \in 1..L + Len(p) /\ ~(L + k <= L) /\ (L + k) - L = k
    BY <1>1
  <2> QED BY <1>1, <1>4, <2>1
<1>7. /\ p \in Seq(Nat) /\ Len(p) \in Nat \ {0} /\ L \in Nat \ {0} /\ FromBytes(t) = Len(p)
  BY <1>1
<1> QED BY <1>2, <1>4, <1>5, <1>6, <1>7 DEF t, L

(* A frame of its own comes behind all the others and moves none of them.  *)
LEMMA Extended ==
    ASSUME NEW q \in Seq(Packets), NEW packet \in Packets, NEW f, IsLayout(f, q)
    PROVE  \E g : /\ IsLayout(g, Append(q, packet))
                  /\ \A i \in 0..Len(q) : g[i] = f[i]
                  /\ g[Len(q) + 1] = f[Len(q)] + Len(Frame(packet))
                  /\ \A b \in Seq(Nat), p \in Nat :
                        Carries(b, p, f, q) => Carries(b, p, g, Append(q, packet))
<1> DEFINE n == Len(q)
           r == Append(q, packet)
           g == [i \in 0..n + 1 |-> IF i = n + 1 THEN f[n] + Len(Frame(packet)) ELSE f[i]]
<1>1. /\ n \in Nat /\ r \in Seq(Packets) /\ Len(r) = n + 1
      /\ r[n + 1] = packet /\ \A i \in 1..n : r[i] = q[i]
  BY LenProperties, AppendProperties
<1>2. /\ f \in [0..n -> Nat] /\ \A i \in 1..n : f[i] = f[i - 1] + Len(Frame(q[i]))
      /\ \A i, j \in 0..n : i <= j => f[i] <= f[j]
  BY DEF IsLayout
<1>3. Len(Frame(packet)) \in Nat
  BY FrameFacts
<1>4. /\ g \in [0..n + 1 -> Nat] /\ g[n + 1] = f[n] + Len(Frame(packet))
      /\ \A i \in 0..n : g[i] = f[i]
  BY <1>1, <1>2, <1>3
<1> HIDE DEF n, r, g
<1>5. \A i \in 1..n + 1 : g[i] = g[i - 1] + Len(Frame(r[i]))
  <2> SUFFICES ASSUME NEW i \in 1..n + 1
               PROVE  g[i] = g[i - 1] + Len(Frame(r[i]))
    OBVIOUS
  <2>1. CASE i = n + 1
    BY <1>1, <1>4, <2>1
  <2>2. CASE i \in 1..n
    <3>1. i - 1 \in 0..n /\ i \in 0..n
      BY <1>1, <2>2
    <3> QED BY <1>1, <1>2, <1>4, <2>2, <3>1
  <2> QED BY <1>1, <2>1, <2>2
<1>6. \A i, j \in 0..n + 1 : i <= j => g[i] <= g[j]
  <2> SUFFICES ASSUME NEW i \in 0..n + 1, NEW j \in 0..n + 1, i <= j
               PROVE  g[i] <= g[j]
    OBVIOUS
  <2>1. CASE j = n + 1 /\ i \in 0..n
    <3>1. f[i] <= f[n] /\ f[i] \in Nat /\ f[n] \in Nat
      BY <1>1, <1>2, <2>1
    <3> QED BY <1>3, <1>4, <2>1, <3>1
  <2>2. CASE i = n + 1
    BY <1>1, <1>4, <2>2
  <2>3. CASE i \in 0..n /\ j \in 0..n
    BY <1>2, <1>4, <2>3
  <2> QED BY <1>1, <2>1, <2>2, <2>3
<1>7. IsLayout(g, r)
  BY <1>1, <1>4, <1>5, <1>6 DEF IsLayout
<1>8. ASSUME NEW b \in Seq(Nat), NEW p \in Nat, Carries(b, p, f, q)
      PROVE  Carries(b, p, g, r)
  <2>1. /\ Len(b) \in Nat /\ f[n] \in Nat /\ p + Len(b) <= f[n]
        /\ \A i \in 1..n, k \in 1..Len(b) :
              (f[i - 1] < p + k /\ p + k <= f[i]) => b[k] = Frame(q[i])[p + k - f[i - 1]]
    BY <1>1, <1>2, <1>8, LenProperties DEF Carries, n
  <2>2. p + Len(b) <= g[n + 1]
    BY <1>3, <1>4, <2>1
  <2>3. ASSUME NEW i \in 1..n + 1, NEW k \in 1..Len(b), g[i - 1] < p + k, p + k <= g[i]
        PROVE  b[k] = Frame(r[i])[p + k - g[i - 1]]
    <3>1. i # n + 1
      <4>1. CASE i = n + 1
        <5>1. n \in 0..n /\ (n + 1) - 1 = n
          BY <1>1
        <5>2. f[n] < p + k
          BY <1>4, <2>3, <4>1, <5>1
        <5> QED BY <2>1, <5>2
      <4> QED BY <4>1
    <3>2. i \in 1..n /\ i \in 0..n /\ i - 1 \in 0..n
      BY <1>1, <3>1
    <3>3. g[i] = f[i] /\ g[i - 1] = f[i - 1] /\ r[i] = q[i]
      BY <1>1, <1>4, <3>2
    <3> QED BY <2>1, <2>3, <3>2, <3>3
  <2> QED BY <1>1, <2>2, <2>3 DEF Carries
<1> QED BY <1>4, <1>7, <1>8 DEF n, r

(* sendall goes on with the last frame where it stopped.                   *)
LEMMA Continued ==
    ASSUME NEW q \in Seq(Packets), NEW f, IsLayout(f, q), Len(q) # 0,
           NEW b \in Seq(Nat), NEW e \in Seq(Nat), NEW p \in Nat, NEW sent \in Nat,
           Carries(b, p, f, q), p + Len(b) = f[Len(q) - 1] + sent,
           sent + Len(e) <= Len(Frame(q[Len(q)])),
           \A k \in 1..Len(e) : e[k] = Frame(q[Len(q)])[sent + k]
    PROVE  Carries(b \o e, p, f, q)
<1> DEFINE n == Len(q)
           frame == Frame(q[n])
<1>1. n \in Nat \ {0} /\ n - 1 \in 0..n /\ n \in 1..n /\ n \in 0..n
  BY LenProperties
<1>2. /\ f \in [0..n -> Nat] /\ f[n] = f[n - 1] + Len(frame)
      /\ \A i, j \in 0..n : i <= j => f[i] <= f[j]
  BY <1>1 DEF IsLayout
<1>3. q[n] \in Packets
  BY <1>1, ElementOfSeq
<1>4. Len(frame) \in Nat
  BY <1>3, FrameFacts
<1>5. /\ Len(b) \in Nat /\ Len(e) \in Nat /\ Len(b \o e) = Len(b) + Len(e)
      /\ \A k \in 1..Len(b) + Len(e) :
            (b \o e)[k] = IF k <= Len(b) THEN b[k] ELSE e[k - Len(b)]
  BY LenProperties, ConcatProperties
<1>6. /\ p + Len(b) <= f[n] /\ p + Len(b) = f[n - 1] + sent /\ sent + Len(e) <= Len(frame)
      /\ \A k \in 1..Len(e) : e[k] = frame[sent + k]
      /\ \A i \in 1..n, k \in 1..Len(b) :
            (f[i - 1] < p + k /\ p + k <= f[i]) => b[k] = Frame(q[i])[p + k - f[i - 1]]
  BY DEF Carries
<1> HIDE DEF n, frame
<1>7. f[n] \in Nat /\ f[n - 1] \in Nat
  BY <1>1, <1>2
<1>8. p + Len(b \o e) <= f[n]
  BY <1>2, <1>4, <1>5, <1>6, <1>7
<1>9. ASSUME NEW i \in 1..n, NEW k \in 1..Len(b \o e), f[i - 1] < p + k, p + k <= f[i]
      PROVE  (b \o e)[k] = Frame(q[i])[p + k - f[i - 1]]
  <2>1. CASE k <= Len(b)
    <3>1. k \in 1..Len(b) /\ (b \o e)[k] = b[k]
      BY <1>5, <2>1
    <3> QED BY <1>6, <1>9, <3>1
  <2>2. CASE ~(k <= Len(b))
    <3>1. /\ k \in 1..Len(b) + Len(e) /\ k - Len(b) \in 1..Len(e)
          /\ (b \o e)[k] = e[k - Len(b)]
      BY <1>5, <2>2
    <3>2. i = n
      <4>1. CASE i # n
        <5>1. i \in 0..n /\ i <= n - 1
          BY <1>1, <4>1
        <5>2. f[i] <= f[n - 1] /\ f[i] \in Nat
          BY <1>1, <1>2, <5>1
        <5>3. p + k <= f[i] /\ p + Len(b) = f[n - 1] + sent
          BY <1>6, <1>9
        <5>4. k \in Nat /\ Len(b) \in Nat /\ Len(b) < k
          BY <1>5, <3>1
        <5> QED BY <1>7, <5>2, <5>3, <5>4
      <4> QED BY <4>1
    <3>3. (b \o e)[k] = frame[sent + (k - Len(b))]
      BY <1>6, <3>1
    <3>4. sent + (k - Len(b)) = p + k - f[i - 1]
      <4>1. k \in Nat /\ Len(b) \in Nat /\ p + Len(b) = f[n - 1] + sent
        BY <1>5, <1>6, <3>1
      <4>2. f[i - 1] = f[n - 1]
        BY <3>2
      <4>3. f[i - 1] \in Nat /\ p + Len(b) = f[i - 1] + sent
        BY <1>7, <4>1, <4>2
      <4> DEFINE x == f[i - 1]
                 m == Len(b)
      <4>4. /\ k \in Nat /\ m \in Nat /\ x \in Nat /\ p \in Nat /\ sent \in Nat
            /\ p + m = x + sent
        BY <4>1, <4>3
      <4> HIDE DEF x, m
      <4>5. sent + (k - m) = p + k - x
        BY <4>4
      <4> QED BY <4>5 DEF x, m
    <3> QED BY <3>2, <3>3, <3>4 DEF frame
  <2> QED BY <2>1, <2>2
<1> QED BY <1>8, <1>9 DEF Carries, n

(* Whatever recv takes from the front, the rest is where it was.           *)
LEMMA Parted ==
    ASSUME NEW q \in Seq(Packets), NEW f, IsLayout(f, q),
           NEW b \in Seq(Nat), NEW e \in Seq(Nat), NEW p \in Nat, Carries(b \o e, p, f, q)
    PROVE  Carries(b, p, f, q) /\ Carries(e, p + Len(b), f, q)
<1> DEFINE n == Len(q)
<1>1. n \in Nat /\ n \in 0..n /\ f \in [0..n -> Nat] /\ f[n] \in Nat
  <2>1. n \in Nat /\ f \in [0..n -> Nat]
    BY LenProperties DEF IsLayout
  <2> HIDE DEF n
  <2> QED BY <2>1
<1>2. /\ Len(b) \in Nat /\ Len(e) \in Nat /\ Len(b \o e) = Len(b) + Len(e)
      /\ \A k \in 1..Len(b) + Len(e) :
            (b \o e)[k] = IF k <= Len(b) THEN b[k] ELSE e[k - Len(b)]
  BY LenProperties, ConcatProperties
<1>3. /\ p + Len(b \o e) <= f[n]
      /\ \A i \in 1..n, k \in 1..Len(b \o e) :
            (f[i - 1] < p + k /\ p + k <= f[i]) =>
                (b \o e)[k] = Frame(q[i])[p + k - f[i - 1]]
  BY DEF Carries
<1> HIDE DEF n
<1>4. p + Len(b) <= f[n] /\ (p + Len(b)) + Len(e) <= f[n]
  BY <1>1, <1>2, <1>3
<1>5. ASSUME NEW i \in 1..n, NEW k \in 1..Len(b), f[i - 1] < p + k, p + k <= f[i]
      PROVE  b[k] = Frame(q[i])[p + k - f[i - 1]]
  <2>1. k \in 1..Len(b \o e) /\ (b \o e)[k] = b[k]
    BY <1>2
  <2> QED BY <1>3, <1>5, <2>1
<1>6. ASSUME NEW i \in 1..n, NEW k \in 1..Len(e),
             f[i - 1] < p + Len(b) + k, p + Len(b) + k <= f[i]
      PROVE  e[k] = Frame(q[i])[p + Len(b) + k - f[i - 1]]
  <2> DEFINE l == Len(b) + k
  <2>1. /\ l \in 1..Len(b \o e) /\ l \in Nat /\ ~(l <= Len(b)) /\ l - Len(b) = k
        /\ p + l = p + Len(b) + k /\ l = Len(b) + k
    BY <1>2
  <2> HIDE DEF l
  <2>2. (b \o e)[l] = e[k]
    BY <1>2, <2>1
  <2>3. f[i - 1] < p + l /\ p + l <= f[i]
    BY <1>6, <2>1
  <2>4. (b \o e)[l] = Frame(q[i])[p + l - f[i - 1]]
    BY <1>3, <2>1, <2>3
  <2>5. p + l - f[i - 1] = p + Len(b) + k - f[i - 1]
    <3> DEFINE x == f[i - 1]
    <3>1. x \in Nat
      BY <1>1
    <3> HIDE DEF x
    <3>2. p + l - x = p + Len(b) + k - x
      BY <1>2, <2>1, <3>1
    <3> QED BY <3>2 DEF x
  <2> QED BY <2>2, <2>4, <2>5
<1> QED BY <1>4, <1>5, <1>6 DEF Carries, n

(* At the start of a frame, the next bytes are a length prefix.            *)
LEMMA PrefixArrives ==
    ASSUME NEW q \in Seq(Packets), NEW f, IsLayout(f, q), NEW r \in 0..Len(q),
           NEW b \in Seq(Nat), Len(b) = LengthPrefixSize, Carries(b, f[r], f, q)
    PROVE  /\ r < Len(q) /\ q[r + 1] \in Packets
           /\ b = ToBytes(Len(q[r + 1]), LengthPrefixSize)
<1> DEFINE n == Len(q)
<1>1. n \in Nat /\ r \in Nat /\ f \in [0..n -> Nat] /\ f[r] \in Nat
  <2>1. n \in Nat /\ f \in [0..n -> Nat]
    BY LenProperties DEF IsLayout
  <2> QED BY <2>1
<1>2. LengthPrefixSize \in Nat \ {0}
  BY TransportAssumption
<1>3. f[r] + LengthPrefixSize <= f[n]
  BY DEF Carries
<1>4. r < n
  <2>1. r # n
    BY <1>1, <1>2, <1>3
  <2> QED BY <1>1, <2>1
<1>5. r + 1 \in 1..n /\ (r + 1) - 1 = r /\ r + 1 \in 0..n
  BY <1>1, <1>4
<1>6. q[r + 1] \in Packets
  BY <1>5, ElementOfSeq
<1> DEFINE t == ToBytes(Len(q[r + 1]), LengthPrefixSize)
<1>7. /\ t \in Seq(Nat) /\ Len(t) = LengthPrefixSize /\ Len(q[r + 1]) \in Nat
      /\ Len(Frame(q[r + 1])) = LengthPrefixSize + Len(q[r + 1])
      /\ \A k \in 1..LengthPrefixSize : Frame(q[r + 1])[k] = t[k]
  BY <1>6, FrameFacts
<1>8. f[r + 1] = f[r] + Len(Frame(q[r + 1]))
  BY <1>5 DEF IsLayout
<1>9. \A i \in 1..n, k \in 1..Len(b) :
         (f[i - 1] < f[r] + k /\ f[r] + k <= f[i]) => b[k] = Frame(q[i])[f[r] + k - f[i - 1]]
  BY DEF Carries
<1> HIDE DEF n, t
<1>10. ASSUME NEW k \in 1..LengthPrefixSize
       PROVE  b[k] = t[k]
  <2>1. f[r] < f[r] + k /\ f[r] + k <= f[r + 1] /\ f[r] + k - f[r] = k
    <3>1. f[r + 1] = f[r] + (LengthPrefixSize + Len(q[r + 1])) /\ Len(q[r + 1]) \in Nat
      BY <1>7, <1>8
    <3> QED BY <1>1, <1>2, <3>1
  <2>2. b[k] = Frame(q[r + 1])[f[r] + k - f[r]]
    BY <1>5, <1>9, <2>1
  <2> QED BY <1>7, <2>1, <2>2
<1>11. b = t
  BY <1>7, <1>10, SeqEqual
<1> QED BY <1>4, <1>6, <1>11 DEF n, t

(* Behind the prefix, the next bytes are the packet.                       *)
LEMMA PacketArrives ==
    ASSUME NEW q \in Seq(Packets), NEW f, IsLayout(f, q), NEW r \in Nat, r < Len(q),
           NEW b \in Seq(Nat), Len(b) = Len(q[r + 1]),
           Carries(b, f[r] + LengthPrefixSize, f, q)
    PROVE  b = q[r + 1] /\ f[r + 1] = f[r] + LengthPrefixSize + Len(b)
<1> DEFINE n == Len(q)
           s == f[r] + LengthPrefixSize
<1>1. n \in Nat /\ r \in 0..n /\ f \in [0..n -> Nat] /\ f[r] \in Nat
  <2>1. n \in Nat /\ f \in [0..n -> Nat]
    BY LenProperties DEF IsLayout
  <2> QED BY <2>1
<1>2. LengthPrefixSize \in Nat \ {0}
  BY TransportAssumption
<1>3. r + 1 \in 1..n /\ (r + 1) - 1 = r
  BY <1>1
<1>4. q[r + 1] \in Packets
  BY <1>3, ElementOfSeq
<1>5. /\ q[r + 1] \in Seq(Nat) /\ Len(q[r + 1]) \in Nat
      /\ Len(Frame(q[r + 1])) = LengthPrefixSize + Len(q[r + 1])
      /\ \A k \in 1..Len(q[r + 1]) : Frame(q[r + 1])[LengthPrefixSize + k] = q[r + 1][k]
  BY <1>4, FrameFacts
<1>6. f[r + 1] = f[r] + Len(Frame(q[r + 1]))
  BY <1>3 DEF IsLayout
<1>7. \A i \in 1..n, k \in 1..Len(b) :
         (f[i - 1] < s + k /\ s + k <= f[i]) => b[k] = Frame(q[i])[s + k - f[i - 1]]
  BY DEF Carries
<1>8. s = f[r] + LengthPrefixSize
  OBVIOUS
<1> HIDE DEF n, s
<1>9. ASSUME NEW k \in 1..Len(b)
      PROVE  b[k] = q[r + 1][k]
  <2>1. f[r] < s + k /\ s + k <= f[r + 1] /\ s + k - f[r] = LengthPrefixSize + k
    <3>1. /\ f[r + 1] = f[r] + (LengthPrefixSize + Len(q[r + 1]))
          /\ Len(q[r + 1]) \in Nat /\ k \in 1..Len(q[r + 1])
      BY <1>5, <1>6
    <3> QED BY <1>1, <1>2, <1>8, <3>1
  <2>2. b[k] = Frame(q[r + 1])[s + k - f[r]]
    BY <1>3, <1>7, <2>1
  <2> QED BY <1>5, <2>1, <2>2
<1>10. b = q[r + 1]
  BY <1>5, <1>9, SeqEqual
<1> QED BY <1>1, <1>2, <1>5, <1>6, <1>10
-----------------------------------------------------------------------------
(* What TypeOK leaves open: what the sequences consist of.                 *)
SequencesOK ==
    /\ outgoing \in Seq(Packets) /\ send_sequence \in Nat
    /\ unsent \in [Senders -> Seq(Nat)]
    /\ pipe \in Seq(Nat) /\ got \in Seq(Nat)
    /\ need \in Nat /\ receive_sequence \in Nat
    /\ reading \in {"length", "packet"}

EndsInv == open.receiver <=> outcome = "receiving"

(* receive_exact was asked for the size of what comes next.                *)
ReadInv ==
    \/ reading = "length" /\ need = LengthPrefixSize
    \/ /\ reading = "packet" /\ receive_sequence < Len(outgoing)
       /\ need = Len(outgoing[receive_sequence + 1])

(* How far the receiver has come, and the bytes that it will be given.     *)
Position(f) == f[receive_sequence] + IF reading = "length" THEN 0 ELSE LengthPrefixSize
OnWay == got \o pipe
Ahead(f) == Position(f) + Len(OnWay)

(* The rest of the last frame is in the hands of call c.                   *)
Completes(c, f) ==
    LET n == Len(outgoing)
        frame == Frame(outgoing[n])
    IN /\ n # 0
       /\ \E sent \in Nat :
             /\ Ahead(f) = f[n - 1] + sent
             /\ sent + Len(unsent[c]) = Len(frame)
             /\ \A k \in 1..Len(unsent[c]) : unsent[c][k] = frame[sent + k]

(* Unless a call is sending, all the frames have been handed over.         *)
SentInv(f) ==
    /\ \A c \in Senders : pc[c] = "sending" => Completes(c, f)
    /\ (\A c \in Senders : pc[c] # "sending") => Ahead(f) = f[Len(outgoing)]

FlowInv(f) ==
    /\ IsLayout(f, outgoing)
    /\ Carries(OnWay, Position(f), f, outgoing)
    /\ open.sender => SentInv(f)

StreamInv == outcome = "receiving" => ReadInv /\ \E f : FlowInv(f)

Typed == TypeOK /\ SequencesOK /\ EndsInv
IInv == Typed /\ StreamInv /\ RefusedOnlyAfterGap
-----------------------------------------------------------------------------
LEMMA InitHolds == Init => IInv
<1> SUFFICES ASSUME Init PROVE IInv
  OBVIOUS
<1>1. LengthPrefixSize \in Nat \ {0} /\ PipeSize \in Nat /\ NoSender \notin Senders
  BY TransportAssumption
<1>2. /\ << >> \in Seq(Nat) /\ << >> \in Seq(Packets) /\ Len(<< >>) = 0
      /\ << >> \o << >> = << >>
  BY EmptySeq, ConcatEmptySeq
<1>3. Typed
  <2>1. open \in [sender : BOOLEAN, receiver : BOOLEAN] /\ open.receiver
    BY DEF Init
  <2>2. /\ pc \in [Senders -> {"idle", "waiting", "locked", "sending", "done", "failed"}]
        /\ \A c \in Senders : pc[c] \in {"locked", "sending"} <=> lock = c
    BY <1>1 DEF Init
  <2>3. Len(pipe) <= PipeSize /\ Len(got) < need /\ Len(outgoing) = 0
    BY <1>1, <1>2 DEF Init
  <2>4. TypeOK
    BY <2>1, <2>2, <2>3 DEF Init, TypeOK
  <2>5. SequencesOK
    BY <1>1, <1>2 DEF Init, SequencesOK
  <2> QED BY <2>1, <2>4, <2>5 DEF Init, Typed, EndsInv
<1>4. StreamInv
  <2> DEFINE f == [i \in 0..0 |-> 0]
  <2>1. /\ outgoing = << >> /\ Len(outgoing) = 0 /\ OnWay = << >> /\ Len(OnWay) = 0
        /\ receive_sequence = 0 /\ reading = "length" /\ need = LengthPrefixSize
        /\ \A c \in Senders : pc[c] # "sending"
    BY <1>2 DEF Init, OnWay
  <2>2. f \in [0..0 -> Nat] /\ f[0] = 0
    OBVIOUS
  <2> HIDE DEF f
  <2>3. Position(f) = 0 /\ Ahead(f) = 0
    BY <2>1, <2>2 DEF Position, Ahead
  <2>4. IsLayout(f, outgoing)
    BY <2>1, <2>2 DEF IsLayout
  <2>5. Carries(OnWay, Position(f), f, outgoing)
    BY <2>1, <2>2, <2>3 DEF Carries
  <2>6. SentInv(f)
    BY <2>1, <2>2, <2>3 DEF SentInv
  <2> QED BY <2>1, <2>4, <2>5, <2>6 DEF StreamInv, ReadInv, FlowInv
<1> QED BY <1>3, <1>4 DEF Init, IInv, RefusedOnlyAfterGap

(* A step that leaves the bytes where they are and the packet of a sending *)
(* call in its hands, unless the sender has closed.                        *)
LEMMA FlowKept ==
    ASSUME IInv, Typed', UNCHANGED <<outgoing, receiveVars, pipe>>,
           (outcome = "receiving" /\ open'.sender) =>
               /\ open.sender /\ unsent' = unsent
               /\ \A c \in Senders : pc'[c] = "sending" <=> pc[c] = "sending"
    PROVE  IInv'
<1>1. UNCHANGED <<outgoing, reading, need, got, receive_sequence, outcome, pipe>>
  BY DEF receiveVars
<1>2. RefusedOnlyAfterGap'
  BY <1>1 DEF IInv, RefusedOnlyAfterGap, OutgoingUseNextNumber
<1>3. StreamInv'
  <2> SUFFICES ASSUME outcome = "receiving"
               PROVE  (ReadInv /\ \E f : FlowInv(f))'
    BY <1>1 DEF StreamInv
  <2>1. PICK f : FlowInv(f)
    BY DEF IInv, StreamInv
  <2>2. OnWay' = OnWay /\ Position(f)' = Position(f) /\ Ahead(f)' = Ahead(f)
    BY <1>1 DEF OnWay, Position, Ahead
  <2>3. ReadInv'
    BY <1>1 DEF IInv, StreamInv, ReadInv
  <2>4. /\ IsLayout(f, outgoing)' /\ Carries(OnWay, Position(f), f, outgoing)'
    BY <1>1, <2>1, <2>2 DEF FlowInv
  <2>5. ASSUME open'.sender PROVE SentInv(f)'
    <3>1. /\ unsent' = unsent /\ SentInv(f)
          /\ \A c \in Senders : pc'[c] = "sending" <=> pc[c] = "sending"
      BY <2>1, <2>5 DEF FlowInv
    <3>2. \A c \in Senders : Completes(c, f)' <=> Completes(c, f)
      BY <1>1, <2>2, <3>1 DEF Completes
    <3> QED BY <1>1, <2>2, <3>1, <3>2 DEF SentInv
  <2>6. FlowInv(f)'
    BY <2>4, <2>5 DEF FlowInv
  <2> QED BY <2>3, <2>6
<1> QED BY <1>2, <1>3 DEF IInv

LEMMA StartSendKeeps ==
    ASSUME IInv, NEW c \in Senders, StartSend(c)
    PROVE  IInv'
<1>1. Typed'
  BY DEF IInv, Typed, TypeOK, SequencesOK, EndsInv, StartSend, receiveVars
<1>2. \A d \in Senders : pc'[d] = "sending" <=> pc[d] = "sending"
  BY DEF IInv, Typed, TypeOK, StartSend
<1> QED BY <1>1, <1>2, FlowKept DEF StartSend

LEMMA AcquireLockKeeps ==
    ASSUME IInv, NEW c \in Senders, AcquireLock(c)
    PROVE  IInv'
<1>1. Typed'
  <2>1. NoSender \notin Senders
    BY TransportAssumption
  <2> QED BY <2>1 DEF IInv, Typed, TypeOK, SequencesOK, EndsInv, AcquireLock, receiveVars
<1>2. \A d \in Senders : pc'[d] = "sending" <=> pc[d] = "sending"
  BY DEF IInv, Typed, TypeOK, AcquireLock
<1> QED BY <1>1, <1>2, FlowKept DEF AcquireLock

LEMMA SendAllFailsKeeps ==
    ASSUME IInv, NEW c \in Senders, SendAllFails(c)
    PROVE  IInv'
<1>1. Typed'
  <2>1. NoSender \notin Senders /\ << >> \in Seq(Nat)
    BY TransportAssumption, EmptySeq
  <2> QED BY <2>1 DEF IInv, Typed, TypeOK, SequencesOK, EndsInv, SendAllFails, Leave, receiveVars
<1>2. ~(outcome = "receiving" /\ open'.sender)
  BY DEF IInv, Typed, EndsInv, SendAllFails
<1> QED BY <1>1, <1>2, FlowKept DEF SendAllFails

LEMMA CloseSenderKeeps ==
    ASSUME IInv, CloseSender
    PROVE  IInv'
<1>1. /\ open' \in [sender : BOOLEAN, receiver : BOOLEAN] /\ ~open'.sender
      /\ open'.receiver <=> open.receiver
  BY DEF IInv, Typed, TypeOK, CloseSender
<1>2. Typed'
  BY <1>1 DEF IInv, Typed, TypeOK, SequencesOK, EndsInv, CloseSender, sendVars, receiveVars
<1> QED BY <1>1, <1>2, FlowKept DEF CloseSender, sendVars

LEMMA ReceiveFailsKeeps ==
    ASSUME IInv, ReceiveFails
    PROVE  IInv'
<1>1. /\ open' \in [sender : BOOLEAN, receiver : BOOLEAN] /\ ~open'.receiver
      /\ outcome' = "connection_error"
  BY DEF IInv, Typed, TypeOK, ReceiveFails, Stop
<1>2. Typed'
  BY <1>1 DEF IInv, Typed, TypeOK, SequencesOK, EndsInv, ReceiveFails, sendVars
<1> QED BY <1>1, <1>2 DEF IInv, StreamInv, RefusedOnlyAfterGap

LEMMA EncryptMessageKeeps ==
    ASSUME IInv, NEW c \in Senders, EncryptMessage(c)
    PROVE  IInv'
<1> DEFINE n == Len(outgoing)
<1>1. PICK size \in Sizes :
         LET packet == Packet(send_sequence, size) IN
         /\ send_sequence' = send_sequence + 1
         /\ \/ /\ size > MaxPacketSize
               /\ Leave(c, "failed")
               /\ UNCHANGED <<unsent, outgoing>>
            \/ /\ size <= MaxPacketSize
               /\ outgoing' = Append(outgoing, packet)
               /\ pc' = [pc EXCEPT ![c] = "sending"]
               /\ unsent' = [unsent EXCEPT
                               ![c] = ToBytes(size, LengthPrefixSize) \o packet]
               /\ UNCHANGED lock
  BY DEF EncryptMessage
<1>2. /\ pc[c] = "locked" /\ lock = c
      /\ UNCHANGED <<reading, need, got, receive_sequence, outcome, pipe, open>>
      /\ NoSender \notin Senders /\ Base \in Nat \ {0, 1}
      /\ size \in Nat \ {0} /\ n \in Nat /\ send_sequence \in Nat /\ MaxPacketSize \in Nat
  BY TransportAssumption, BaseAssumption, LenProperties
  DEF IInv, Typed, TypeOK, SequencesOK, EncryptMessage, receiveVars
<1>3. \A d \in Senders : pc[d] # "sending"
  BY <1>2 DEF IInv, Typed, TypeOK
<1>4. CASE Leave(c, "failed") /\ UNCHANGED <<unsent, outgoing>>
  <2>1. Typed'
    BY <1>1, <1>2, <1>4 DEF IInv, Typed, TypeOK, SequencesOK, EndsInv, Leave
  <2>2. \A d \in Senders : pc'[d] = "sending" <=> pc[d] = "sending"
    BY <1>2, <1>4 DEF IInv, Typed, TypeOK, Leave
  <2> QED BY <1>2, <1>4, <2>1, <2>2, FlowKept DEF receiveVars
<1>5. CASE /\ size <= MaxPacketSize
           /\ outgoing' = Append(outgoing, Packet(send_sequence, size))
           /\ pc' = [pc EXCEPT ![c] = "sending"]
           /\ unsent' = [unsent EXCEPT
                           ![c] = ToBytes(size, LengthPrefixSize) \o Packet(send_sequence, size)]
           /\ UNCHANGED lock
  <2> DEFINE packet == Packet(send_sequence, size)
  <2>1. packet \in Packets /\ Len(packet) = size
    <3>1. packet \in [1..size -> Nat]
      BY <1>2 DEF Packet
    <3>2. packet \in Seq(Nat) /\ Len(packet) = size
      <4> HIDE DEF packet
      <4>1. packet \in Seq(Nat)
        BY <1>2, <3>1, SeqDef
      <4> QED BY <1>2, <3>1, <4>1, LenProperties
    <3> QED BY <1>5, <3>2 DEF Packets
  <2> HIDE DEF packet
  <2>2. outgoing' = Append(outgoing, packet) /\ unsent' = [unsent EXCEPT ![c] = Frame(packet)]
    BY <1>5, <2>1 DEF Frame, packet
  <2>3. Frame(packet) \in Seq(Nat) /\ Len(Frame(packet)) \in Nat
    BY <2>1, FrameFacts
  <2>4. /\ outgoing \in Seq(Packets) /\ outgoing' \in Seq(Packets) /\ Len(outgoing') = n + 1
        /\ outgoing'[n + 1] = packet /\ \A i \in 1..n : outgoing'[i] = outgoing[i]
    BY <2>1, <2>2, AppendProperties DEF IInv, Typed, SequencesOK
  <2>5. /\ unsent \in [Senders -> Seq(Nat)] /\ unsent' \in [Senders -> Seq(Nat)]
        /\ unsent'[c] = Frame(packet)
    BY <2>2, <2>3 DEF IInv, Typed, SequencesOK
  <2>6. /\ pc \in [Senders -> {"idle", "waiting", "locked", "sending", "done", "failed"}]
        /\ pc'[c] = "sending" /\ \A d \in Senders \ {c} : pc'[d] = pc[d]
    BY <1>5 DEF IInv, Typed, TypeOK
  <2>7. Typed'
    <3>1. TypeOK'
      <4>1. /\ n <= send_sequence /\ receive_sequence <= n /\ receive_sequence \in Nat
        BY DEF IInv, Typed, TypeOK, SequencesOK
      <4>2. Len(outgoing') <= send_sequence' /\ receive_sequence' <= Len(outgoing')
        BY <1>1, <1>2, <2>4, <4>1
      <4> QED BY <1>2, <1>5, <2>6, <4>2 DEF IInv, Typed, TypeOK
    <3>2. SequencesOK'
      BY <1>1, <1>2, <2>4, <2>5 DEF IInv, Typed, SequencesOK
    <3> QED BY <1>2, <3>1, <3>2 DEF IInv, Typed, EndsInv
  <2>8. RefusedOnlyAfterGap'
    <3>1. OutgoingUseNextNumber' => OutgoingUseNextNumber
      BY <1>2, <2>4 DEF OutgoingUseNextNumber
    <3> QED BY <1>2, <3>1 DEF IInv, RefusedOnlyAfterGap
  <2>9. StreamInv'
    <3> SUFFICES ASSUME outcome = "receiving"
                 PROVE  (ReadInv /\ \E g : FlowInv(g))'
      BY <1>2 DEF StreamInv
    <3>1. PICK f : FlowInv(f)
      BY DEF IInv, StreamInv
    <3>2. IsLayout(f, outgoing) /\ Carries(OnWay, Position(f), f, outgoing)
      BY <3>1 DEF FlowInv
    <3>3. PICK g : /\ IsLayout(g, outgoing') /\ \A i \in 0..n : g[i] = f[i]
                   /\ g[n + 1] = f[n] + Len(Frame(packet))
                   /\ \A b \in Seq(Nat), p \in Nat :
                         Carries(b, p, f, outgoing) => Carries(b, p, g, outgoing')
      BY <2>1, <2>2, <2>4, <3>2, Extended
    <3>4. ReadInv'
      <4>1. ReadInv
        BY DEF IInv, StreamInv
      <4>2. CASE reading = "length" /\ need = LengthPrefixSize
        BY <1>2, <4>2 DEF ReadInv
      <4>3. CASE /\ reading = "packet" /\ receive_sequence < n
                 /\ need = Len(outgoing[receive_sequence + 1])
        <5>1. receive_sequence \in Nat
          BY DEF IInv, Typed, SequencesOK
        <5>2. receive_sequence + 1 \in 1..n /\ receive_sequence < n + 1
          BY <1>2, <4>3, <5>1
        <5> QED BY <1>2, <2>4, <4>3, <5>2 DEF ReadInv
      <4> QED BY <4>1, <4>2, <4>3 DEF ReadInv
    <3>5. /\ OnWay' = OnWay /\ OnWay \in Seq(Nat) /\ Len(OnWay) \in Nat
          /\ Position(g)' = Position(f) /\ Position(f) \in Nat /\ f[n] \in Nat
      <4>1. /\ got \in Seq(Nat) /\ pipe \in Seq(Nat) /\ receive_sequence \in 0..n
        BY <1>2 DEF IInv, Typed, TypeOK, SequencesOK
      <4>2. OnWay' = OnWay /\ OnWay \in Seq(Nat) /\ Len(OnWay) \in Nat
        BY <1>2, <4>1, ConcatProperties, LenProperties DEF OnWay
      <4>3. g[receive_sequence] = f[receive_sequence]
        BY <3>3, <4>1
      <4>4. f \in [0..n -> Nat] /\ LengthPrefixSize \in Nat
        BY <3>2, TransportAssumption DEF IsLayout
      <4>5. f[receive_sequence] \in Nat /\ f[n] \in Nat
        <5> HIDE DEF n
        <5> QED BY <1>2, <4>1, <4>4
      <4>6. Position(f) \in Nat
        BY <4>4, <4>5 DEF Position
      <4>7. Position(g)' = Position(f)
        BY <1>2, <4>3 DEF Position
      <4> QED BY <4>2, <4>5, <4>6, <4>7
    <3>6. Carries(OnWay, Position(g), g, outgoing)'
      BY <3>2, <3>3, <3>5
    <3>7. ASSUME open'.sender PROVE SentInv(g)'
      <4>1. Ahead(f) = f[n]
        BY <1>2, <1>3, <3>1, <3>7 DEF FlowInv, SentInv
      <4>2. Ahead(g)' = f[n]
        BY <3>5, <4>1 DEF Ahead
      <4>3. \A d \in Senders : pc'[d] = "sending" <=> d = c
        BY <1>3, <2>6
      <4>4. Completes(c, g)'
        <5>1. /\ Len(outgoing') # 0 /\ Len(outgoing') - 1 = n /\ g[n] = f[n]
              /\ outgoing'[Len(outgoing')] = packet
          BY <1>2, <2>4, <3>3
        <5>2. /\ 0 \in Nat /\ Ahead(g)' = g[n] + 0 /\ 0 + Len(unsent'[c]) = Len(Frame(packet))
              /\ \A k \in 1..Len(unsent'[c]) : unsent'[c][k] = Frame(packet)[0 + k]
          BY <2>3, <2>5, <3>5, <4>2, <5>1
        <5> QED BY <5>1, <5>2 DEF Completes
      <4> QED BY <4>3, <4>4 DEF SentInv
    <3>8. FlowInv(g)'
      BY <3>3, <3>6, <3>7 DEF FlowInv
    <3> QED BY <3>4, <3>8
  <2> QED BY <2>7, <2>8, <2>9 DEF IInv
<1> QED BY <1>1, <1>4, <1>5

LEMMA JoinedEitherWay ==
    \A s, t, u \in Seq(Nat) : (s \o t) \o u = s \o (t \o u)
BY ConcatAssociative

(* A part of the bytes that are left is moved to the stream.               *)
LEMMA SendAllKeeps ==
    ASSUME IInv, NEW c \in Senders, SendAll(c)
    PROVE  IInv'
<1> DEFINE n == Len(outgoing)
           rest == unsent[c]
<1>1. PICK k \in 1..Len(rest) :
         /\ Len(pipe) + k <= PipeSize
         /\ pipe' = pipe \o SubSeq(rest, 1, k)
         /\ unsent' = [unsent EXCEPT ![c] = SubSeq(@, k + 1, Len(@))]
         /\ IF k = Len(rest) THEN Leave(c, "done") ELSE UNCHANGED <<pc, lock>>
  BY DEF SendAll
<1>2. /\ pc[c] = "sending" /\ lock = c /\ open.sender
      /\ UNCHANGED <<send_sequence, outgoing, reading, need, got, receive_sequence, outcome, open>>
      /\ NoSender \notin Senders
  BY TransportAssumption DEF IInv, Typed, TypeOK, SendAll, receiveVars
<1>3. /\ pc \in [Senders -> {"idle", "waiting", "locked", "sending", "done", "failed"}]
      /\ \A d \in Senders : pc[d] = "sending" <=> d = c
  BY <1>2 DEF IInv, Typed, TypeOK
<1> DEFINE e == SubSeq(rest, 1, k)
           left == SubSeq(rest, k + 1, Len(rest))
<1>4. /\ rest \in Seq(Nat) /\ Len(rest) \in Nat /\ k \in Nat \ {0} /\ k <= Len(rest)
      /\ pipe \in Seq(Nat) /\ got \in Seq(Nat) /\ outgoing \in Seq(Packets) /\ n \in Nat
      /\ unsent \in [Senders -> Seq(Nat)]
  <2>1. /\ unsent \in [Senders -> Seq(Nat)] /\ pipe \in Seq(Nat) /\ got \in Seq(Nat)
        /\ outgoing \in Seq(Packets)
    BY DEF IInv, Typed, SequencesOK
  <2>2. rest \in Seq(Nat)
    BY <2>1
  <2> QED BY <2>1, <2>2, LenProperties
<1>5. /\ e \in Seq(Nat) /\ Len(e) = k /\ \A j \in 1..k : e[j] = rest[j]
  <2> HIDE DEF rest
  <2>1. \A i \in 1..k : rest[i] \in Nat
    BY <1>4, ElementOfSeq
  <2>2. /\ SubSeq(rest, 1, k) \in Seq(Nat)
        /\ Len(SubSeq(rest, 1, k)) = IF 1 <= k THEN k - 1 + 1 ELSE 0
        /\ \A i \in 1..k - 1 + 1 : SubSeq(rest, 1, k)[i] = rest[1 + i - 1]
    BY <1>4, <2>1, SubSeqProperties
  <2> HIDE DEF e
  <2>3. k - 1 + 1 = k /\ \A i \in 1..k : 1 + i - 1 = i
    BY <1>4
  <2> QED BY <1>4, <2>2, <2>3 DEF e
<1>6. /\ left \in Seq(Nat) /\ Len(left) = Len(rest) - k
      /\ \A j \in 1..Len(rest) - k : left[j] = rest[k + j]
  <2> HIDE DEF rest
  <2>1. \A i \in k + 1..Len(rest) : rest[i] \in Nat
    BY <1>4, ElementOfSeq
  <2>2. /\ left \in Seq(Nat)
        /\ Len(left) = IF k + 1 <= Len(rest) THEN Len(rest) - (k + 1) + 1 ELSE 0
        /\ \A i \in 1..Len(rest) - (k + 1) + 1 : left[i] = rest[(k + 1) + i - 1]
    BY <1>4, <2>1, SubSeqProperties
  <2> HIDE DEF left
  <2>3. /\ Len(rest) - (k + 1) + 1 = Len(rest) - k
        /\ \A i \in 1..Len(rest) - k : (k + 1) + i - 1 = k + i
    BY <1>4
  <2>4. Len(left) = Len(rest) - k
    BY <1>4, <2>2
  <2> QED BY <1>4, <2>2, <2>3, <2>4
<1>7. pipe' = pipe \o e /\ unsent' \in [Senders -> Seq(Nat)] /\ unsent'[c] = left
  BY <1>1, <1>4, <1>6
<1> HIDE DEF e, left
<1>8. pipe' \in Seq(Nat) /\ Len(pipe') = Len(pipe) + k
  BY <1>4, <1>5, <1>7, ConcatProperties
<1>9. Typed'
  <2>1. TypeOK'
    <3>1. Len(pipe') <= PipeSize
      BY <1>1, <1>8
    <3>2. /\ pc' \in [Senders -> {"idle", "waiting", "locked", "sending", "done", "failed"}]
          /\ lock' \in Senders \cup {NoSender}
          /\ \A d \in Senders : pc'[d] \in {"locked", "sending"} <=> lock' = d
      BY <1>1, <1>2, <1>3 DEF IInv, Typed, TypeOK, Leave
    <3> QED BY <1>2, <3>1, <3>2 DEF IInv, Typed, TypeOK
  <2>2. SequencesOK'
    BY <1>2, <1>7, <1>8 DEF IInv, Typed, SequencesOK
  <2> QED BY <1>2, <2>1, <2>2 DEF IInv, Typed, EndsInv
<1>10. RefusedOnlyAfterGap'
  BY <1>2 DEF IInv, RefusedOnlyAfterGap, OutgoingUseNextNumber
<1>11. StreamInv'
  <2> SUFFICES ASSUME outcome = "receiving"
               PROVE  (ReadInv /\ \E f : FlowInv(f))'
    BY <1>2 DEF StreamInv
  <2>1. PICK f : FlowInv(f)
    BY DEF IInv, StreamInv
  <2>2. ReadInv'
    BY <1>2 DEF IInv, StreamInv, ReadInv
  <2> DEFINE frame == Frame(outgoing[n])
  <2>3. Completes(c, f) /\ IsLayout(f, outgoing) /\ Carries(OnWay, Position(f), f, outgoing)
    BY <1>2, <2>1 DEF FlowInv, SentInv
  <2>4. PICK sent \in Nat : /\ n # 0 /\ Ahead(f) = f[n - 1] + sent
                            /\ sent + Len(rest) = Len(frame)
                            /\ \A j \in 1..Len(rest) : rest[j] = frame[sent + j]
    BY <2>3 DEF Completes
  <2>5. Len(frame) \in Nat /\ f[n] = f[n - 1] + Len(frame) /\ f[n - 1] \in Nat
    <3>1. n \in 1..n /\ n - 1 \in 0..n
      BY <1>4, <2>4
    <3>2. outgoing[n] \in Packets
      BY <1>4, <3>1, ElementOfSeq
    <3>3. f \in [0..n -> Nat] /\ f[n] = f[n - 1] + Len(frame)
      BY <2>3, <3>1 DEF IsLayout
    <3>4. Len(frame) \in Nat
      BY <3>2, FrameFacts
    <3> HIDE DEF n
    <3> QED BY <3>1, <3>3, <3>4
  <2>6. Position(f) \in Nat /\ OnWay \in Seq(Nat) /\ Len(OnWay) \in Nat
    <3>1. receive_sequence \in 0..n
      BY <1>4 DEF IInv, Typed, TypeOK, SequencesOK
    <3>2. f \in [0..n -> Nat] /\ LengthPrefixSize \in Nat
      BY <2>3, TransportAssumption DEF IsLayout
    <3>3. f[receive_sequence] \in Nat
      <4> HIDE DEF n
      <4> QED BY <3>1, <3>2
    <3>4. Position(f) \in Nat
      BY <3>2, <3>3 DEF Position
    <3> QED BY <1>4, <3>4, ConcatProperties, LenProperties DEF OnWay
  <2>7. OnWay' = OnWay \o e /\ Len(OnWay') = Len(OnWay) + k /\ Position(f)' = Position(f)
    <3>1. OnWay' = OnWay \o e
      <4>1. got \o (pipe \o e) = (got \o pipe) \o e
        <5>1. pipe \in Seq(Nat) /\ got \in Seq(Nat) /\ e \in Seq(Nat)
          BY <1>4, <1>5
        <5> QED BY <5>1, JoinedEitherWay
      <4>2. OnWay' = got' \o pipe' /\ OnWay = got \o pipe /\ got' = got
        BY <1>2 DEF OnWay
      <4> QED BY <1>7, <4>1, <4>2
    <3>2. Position(f)' = Position(f)
      BY <1>2 DEF Position
    <3> QED BY <1>5, <2>6, <3>1, <3>2, ConcatProperties
  <2> HIDE DEF rest, n, frame
  <2>8. Carries(OnWay, Position(f), f, outgoing)'
    <3>1. /\ sent + Len(e) <= Len(frame)
          /\ \A j \in 1..Len(e) : e[j] = frame[sent + j]
      <4>1. sent + Len(e) <= Len(frame)
        <5> DEFINE m == Len(rest)
                   l == Len(frame)
        <5>1. m \in Nat /\ k <= m /\ sent + m = l /\ Len(e) = k /\ k \in Nat /\ l \in Nat
          BY <1>4, <1>5, <2>4, <2>5
        <5> HIDE DEF m, l
        <5>2. sent + k <= l
          BY <5>1
        <5> QED BY <5>1, <5>2 DEF l
      <4>2. \A j \in 1..k : j \in 1..Len(rest)
        BY <1>4
      <4> QED BY <1>5, <2>4, <4>1, <4>2
    <3>2. Position(f) + Len(OnWay) = f[n - 1] + sent
      BY <2>4 DEF Ahead
    <3>3. Carries(OnWay \o e, Position(f), f, outgoing)
      BY <1>4, <1>5, <2>3, <2>4, <2>6, <3>1, <3>2, Continued DEF n, frame
    <3> QED BY <1>2, <2>7, <3>3
  <2>9. Ahead(f)' = f[n - 1] + (sent + k)
    <3> DEFINE x == f[n - 1]
               m == Len(OnWay)
               p == Position(f)
    <3>1. p + m = x + sent /\ Ahead(f)' = p + (m + k)
      BY <2>4, <2>7 DEF Ahead
    <3>2. p \in Nat /\ m \in Nat /\ x \in Nat /\ k \in Nat
      BY <1>4, <2>5, <2>6
    <3> HIDE DEF x, m, p
    <3>3. p + (m + k) = x + (sent + k)
      BY <3>1, <3>2
    <3> QED BY <3>1, <3>3 DEF x
  <2>10. SentInv(f)'
    <3>1. CASE k = Len(rest)
      <4>1. \A d \in Senders : pc'[d] # "sending"
        BY <1>1, <1>3, <3>1 DEF Leave, rest
      <4>2. Ahead(f)' = f[n]
        BY <2>4, <2>5, <2>9, <3>1
      <4> QED BY <1>2, <4>1, <4>2 DEF SentInv, n
    <3>2. CASE k # Len(rest)
      <4>1. pc' = pc
        BY <1>1, <3>2 DEF rest
      <4>2. /\ sent + k \in Nat /\ (sent + k) + Len(left) = Len(frame)
            /\ \A j \in 1..Len(left) : left[j] = frame[(sent + k) + j]
        <5>1. sent + k \in Nat /\ (sent + k) + Len(left) = Len(frame)
          <6> DEFINE m == Len(rest)
                     l == Len(frame)
          <6>1. /\ m \in Nat /\ k \in Nat /\ k <= m /\ sent + m = l
                /\ l \in Nat /\ Len(left) = m - k
            BY <1>4, <1>6, <2>4, <2>5
          <6> HIDE DEF m, l
          <6>2. sent + k \in Nat /\ (sent + k) + (m - k) = l
            BY <6>1
          <6> QED BY <6>1, <6>2 DEF l
        <5>2. ASSUME NEW j \in 1..Len(left) PROVE left[j] = frame[(sent + k) + j]
          <6>1. j \in 1..Len(rest) - k /\ k + j \in 1..Len(rest)
            BY <1>4, <1>6
          <6>2. left[j] = rest[k + j] /\ rest[k + j] = frame[sent + (k + j)]
            BY <1>6, <2>4, <6>1
          <6>3. sent + (k + j) = (sent + k) + j
            BY <1>4, <6>1
          <6> QED BY <6>2, <6>3
        <5> QED BY <5>1, <5>2
      <4>3. Completes(c, f)'
        BY <1>2, <1>7, <2>4, <2>9, <4>2 DEF Completes, n, frame
      <4> QED BY <1>3, <4>1, <4>3 DEF SentInv
    <3> QED BY <3>1, <3>2
  <2>11. FlowInv(f)'
    BY <1>2, <2>3, <2>8, <2>10 DEF FlowInv
  <2> QED BY <2>2, <2>11
<1> QED BY <1>9, <1>10, <1>11 DEF IInv

(* What the receiver has in its hands when receive_exact returns: the true *)
(* length of the next packet, or that very packet.                         *)
LEMMA WhatArrives ==
    ASSUME IInv, outcome = "receiving", NEW f, FlowInv(f),
           NEW bytes \in Seq(Nat), NEW ahead \in Seq(Nat),
           OnWay = bytes \o ahead, Len(bytes) = need
    PROVE  /\ receive_sequence < Len(outgoing)
           /\ LET packet == outgoing[receive_sequence + 1] IN
              /\ packet \in Packets
              /\ reading = "length" =>
                    /\ FromBytes(bytes) = Len(packet)
                    /\ f[receive_sequence] + LengthPrefixSize = Position(f) + Len(bytes)
                    /\ Carries(ahead, f[receive_sequence] + LengthPrefixSize, f, outgoing)
              /\ reading = "packet" =>
                    /\ bytes = packet
                    /\ f[receive_sequence + 1] = Position(f) + Len(bytes)
                    /\ Carries(ahead, f[receive_sequence + 1], f, outgoing)
<1> DEFINE n == Len(outgoing)
           r == receive_sequence
<1>1. /\ outgoing \in Seq(Packets) /\ n \in Nat /\ r \in 0..n /\ r \in Nat
      /\ LengthPrefixSize \in Nat \ {0}
  BY TransportAssumption, LenProperties DEF IInv, Typed, TypeOK, SequencesOK
<1>2. IsLayout(f, outgoing) /\ Carries(bytes \o ahead, Position(f), f, outgoing)
  BY DEF FlowInv
<1>3. f \in [0..n -> Nat] /\ f[r] \in Nat
  <2>1. f \in [0..n -> Nat]
    BY <1>2 DEF IsLayout
  <2> HIDE DEF n, r
  <2> QED BY <1>1, <2>1
<1>4. Position(f) \in Nat
  BY <1>1, <1>3 DEF Position
<1>5. /\ Carries(bytes, Position(f), f, outgoing)
      /\ Carries(ahead, Position(f) + Len(bytes), f, outgoing)
  BY <1>1, <1>2, <1>4, Parted
<1>6. CASE reading = "length"
  <2>1. need = LengthPrefixSize /\ Position(f) = f[r]
    BY <1>3, <1>6 DEF IInv, StreamInv, ReadInv, Position
  <2>2. /\ r < n /\ outgoing[r + 1] \in Packets
        /\ bytes = ToBytes(Len(outgoing[r + 1]), LengthPrefixSize)
    BY <1>1, <1>2, <1>5, <2>1, PrefixArrives
  <2>3. FromBytes(bytes) = Len(outgoing[r + 1])
    BY <2>2, FrameFacts
  <2> QED BY <1>5, <1>6, <2>1, <2>2, <2>3
<1>7. CASE reading = "packet"
  <2>1. /\ r < n /\ need = Len(outgoing[r + 1])
        /\ Position(f) = f[r] + LengthPrefixSize
    BY <1>7 DEF IInv, StreamInv, ReadInv, Position
  <2>2. bytes = outgoing[r + 1] /\ f[r + 1] = f[r] + LengthPrefixSize + Len(bytes)
    BY <1>1, <1>2, <1>5, <2>1, PacketArrives
  <2>3. r + 1 \in 1..n
    BY <1>1, <2>1
  <2>4. outgoing[r + 1] \in Packets
    BY <1>1, <2>3, ElementOfSeq
  <2> QED BY <1>5, <1>7, <2>1, <2>2, <2>4
<1> QED BY <1>6, <1>7 DEF IInv, Typed, SequencesOK

(* recv takes bytes from the stream; they and the rest are what was ahead. *)
LEMMA Received ==
    ASSUME NEW g \in Seq(Nat), NEW p \in Seq(Nat), NEW k \in Nat \ {0}, k <= Len(p)
    PROVE  LET bytes == g \o SubSeq(p, 1, k)
               ahead == SubSeq(p, k + 1, Len(p))
           IN /\ bytes \in Seq(Nat) /\ Len(bytes) = Len(g) + k
              /\ ahead \in Seq(Nat) /\ Len(ahead) <= Len(p)
              /\ bytes \o ahead = g \o p /\ << >> \o ahead = ahead
<1> DEFINE e == SubSeq(p, 1, k)
           ahead == SubSeq(p, k + 1, Len(p))
<1>1. Len(p) \in Nat /\ Len(g) \in Nat /\ \A i \in 1..Len(p) : p[i] \in Nat
  BY LenProperties, ElementOfSeq
<1>2. e \in Seq(Nat) /\ Len(e) = k
  <2>1. \A i \in 1..k : p[i] \in Nat
    BY <1>1
  <2>2. e \in Seq(Nat) /\ Len(e) = IF 1 <= k THEN k - 1 + 1 ELSE 0
    BY <2>1, SubSeqProperties
  <2> HIDE DEF e
  <2> QED BY <2>2
<1>3. ahead \in Seq(Nat) /\ Len(ahead) <= Len(p)
  <2>1. \A i \in k + 1..Len(p) : p[i] \in Nat
    BY <1>1
  <2>2. /\ ahead \in Seq(Nat)
        /\ Len(ahead) = IF k + 1 <= Len(p) THEN Len(p) - (k + 1) + 1 ELSE 0
    BY <1>1, <2>1, SubSeqProperties
  <2> HIDE DEF ahead
  <2> QED BY <1>1, <2>2
<1>4. e \o ahead = p
  <2>1. 1 \in 1..Len(p) + 1 /\ k \in 1 - 1..Len(p) /\ Len(p) \in k..Len(p)
    BY <1>1
  <2>2. e \o ahead = SubSeq(p, 1, Len(p))
    BY <2>1, ConcatAdjacentSubSeq
  <2> QED BY <2>2, SubSeqFull
<1> HIDE DEF e, ahead
<1>5. /\ g \o e \in Seq(Nat) /\ Len(g \o e) = Len(g) + k
  BY <1>2, ConcatProperties
<1>6. (g \o e) \o ahead = g \o p
  <2>1. g \in Seq(Nat) /\ e \in Seq(Nat) /\ ahead \in Seq(Nat)
    BY <1>2, <1>3
  <2> QED BY <1>4, <2>1, JoinedEitherWay
<1>7. << >> \o ahead = ahead
  BY <1>3, ConcatEmptySeq
<1> QED BY <1>3, <1>5, <1>6, <1>7 DEF e, ahead

LEMMA StillFlows ==
    ASSUME NEW f, FlowInv(f), Carries(OnWay, Position(f), f, outgoing)',
           Ahead(f)' = Ahead(f), UNCHANGED sendVars, open'.sender => open.sender
    PROVE  FlowInv(f)'
<1>1. UNCHANGED <<pc, unsent, outgoing>>
  BY DEF sendVars
<1>2. IsLayout(f, outgoing)'
  BY <1>1 DEF FlowInv
<1>3. \A c \in Senders : Completes(c, f)' <=> Completes(c, f)
  BY <1>1 DEF Completes
<1>4. SentInv(f) => SentInv(f)'
  BY <1>1, <1>3 DEF SentInv
<1> QED BY <1>2, <1>4 DEF FlowInv

LEMMA ReceiveKeeps ==
    ASSUME IInv, Receive
    PROVE  IInv'
<1> DEFINE n == Len(outgoing)
           r == receive_sequence
<1>1. PICK k \in 1..need - Len(got) :
         LET bytes == got \o SubSeq(pipe, 1, k) IN
         /\ k <= Len(pipe)
         /\ pipe' = SubSeq(pipe, k + 1, Len(pipe))
         /\ \/ /\ Complete(Len(bytes))
               /\ got' = << >>
               /\ LengthRead(bytes) \/ PacketRead(bytes)
            \/ /\ ~Complete(Len(bytes))
               /\ got' = bytes
               /\ UNCHANGED <<reading, need, receive_sequence, outcome, open>>
  BY DEF Receive
<1> DEFINE bytes == got \o SubSeq(pipe, 1, k)
           ahead == SubSeq(pipe, k + 1, Len(pipe))
<1>2. /\ outcome = "receiving" /\ UNCHANGED sendVars
      /\ UNCHANGED <<pc, lock, send_sequence, unsent, outgoing>>
  BY DEF Receive, sendVars
<1>3. /\ got \in Seq(Nat) /\ pipe \in Seq(Nat) /\ Len(got) \in Nat /\ Len(pipe) \in Nat
      /\ need \in Nat /\ r \in Nat /\ n \in Nat /\ Len(got) < need /\ Len(pipe) <= PipeSize
      /\ outgoing \in Seq(Packets) /\ reading \in {"length", "packet"}
      /\ open \in [sender : BOOLEAN, receiver : BOOLEAN]
      /\ PipeSize \in Nat /\ LengthPrefixSize \in Nat \ {0}
  BY TransportAssumption, LenProperties DEF IInv, Typed, TypeOK, SequencesOK
<1>4. k \in Nat \ {0} /\ k <= Len(pipe) /\ k <= need - Len(got)
  BY <1>1, <1>3
<1>5. /\ bytes \in Seq(Nat) /\ Len(bytes) = Len(got) + k
      /\ ahead \in Seq(Nat) /\ Len(ahead) <= Len(pipe)
      /\ bytes \o ahead = OnWay /\ << >> \o ahead = ahead
  BY <1>3, <1>4, Received DEF OnWay
<1>6. /\ pipe' = ahead
      /\ \/ /\ Len(bytes) = need /\ got' = << >>
            /\ LengthRead(bytes) \/ PacketRead(bytes)
         \/ /\ Len(bytes) # need /\ got' = bytes
            /\ UNCHANGED <<reading, need, receive_sequence, outcome, open>>
  BY <1>1 DEF Complete
<1> HIDE DEF bytes, ahead
<1>7. Len(bytes) \in Nat /\ Len(ahead) \in Nat /\ Len(bytes) <= need /\ Len(ahead) <= PipeSize
  <2>1. Len(bytes) \in Nat /\ Len(ahead) \in Nat
    BY <1>5, LenProperties
  <2> QED BY <1>3, <1>4, <1>5, <2>1
<1>8. PICK f : FlowInv(f)
  BY <1>2 DEF IInv, StreamInv
<1>9. /\ Position(f) \in Nat /\ Len(OnWay) = Len(bytes) + Len(ahead)
      /\ Ahead(f) = (Position(f) + Len(bytes)) + Len(ahead)
  <2>1. f \in [0..n -> Nat] /\ r \in 0..n
    BY <1>3, <1>8 DEF IInv, Typed, TypeOK, FlowInv, IsLayout
  <2>2. f[r] \in Nat
    <3> HIDE DEF n, r
    <3> QED BY <2>1
  <2>3. Position(f) \in Nat
    BY <1>3, <2>2 DEF Position
  <2>4. Len(bytes \o ahead) = Len(bytes) + Len(ahead)
    BY <1>5, ConcatProperties
  <2>5. Len(OnWay) = Len(bytes) + Len(ahead)
    BY <1>5, <2>4
  <2> DEFINE x == Position(f)
             y == Len(bytes)
             z == Len(ahead)
  <2>6. x \in Nat /\ y \in Nat /\ z \in Nat /\ Ahead(f) = x + (y + z)
    BY <1>7, <2>3, <2>5 DEF Ahead
  <2> HIDE DEF x, y, z
  <2>7. Ahead(f) = (x + y) + z
    BY <2>6
  <2> QED BY <2>3, <2>5, <2>7 DEF x, y, z
<1> DEFINE Types == /\ need' \in Nat /\ got' \in Seq(Nat) /\ Len(got') < need'
                    /\ reading' \in {"length", "packet"}
                    /\ r' \in Nat /\ r' <= n
                    /\ open' \in [sender : BOOLEAN, receiver : BOOLEAN]
                    /\ open'.receiver <=> outcome' = "receiving"
                    /\ outcome' \in {"receiving", "rejected"}
<1>10. Types => Typed'
  <2> SUFFICES ASSUME Types PROVE Typed'
    OBVIOUS
  <2>1. Len(pipe') <= PipeSize /\ pipe' \in Seq(Nat)
    BY <1>5, <1>6, <1>7
  <2>2. TypeOK'
    BY <1>2, <2>1 DEF IInv, Typed, TypeOK
  <2>3. SequencesOK'
    BY <1>2, <2>1 DEF IInv, Typed, SequencesOK
  <2> QED BY <2>2, <2>3 DEF Typed, EndsInv
<1>11. CASE /\ Len(bytes) # need /\ got' = bytes
            /\ UNCHANGED <<reading, need, receive_sequence, outcome, open>>
  <2>1. Types
    <3>1. Len(bytes) < need
      BY <1>3, <1>7, <1>11
    <3>2. r <= n /\ EndsInv
      BY DEF IInv, Typed, TypeOK
    <3> QED BY <1>2, <1>3, <1>5, <1>11, <3>1, <3>2 DEF EndsInv
  <2>2. RefusedOnlyAfterGap'
    BY <1>2, <1>11 DEF RefusedOnlyAfterGap
  <2>3. OnWay' = OnWay
    BY <1>5, <1>6, <1>11 DEF OnWay
  <2>4. Position(f)' = Position(f)
    BY <1>11 DEF Position
  <2>5. Ahead(f)' = Ahead(f)
    BY <2>3, <2>4 DEF Ahead
  <2>6. Carries(OnWay, Position(f), f, outgoing)'
    BY <1>2, <1>8, <2>3, <2>4 DEF FlowInv
  <2>7. FlowInv(f)'
    BY <1>2, <1>8, <1>11, <2>5, <2>6, StillFlows
  <2>8. ReadInv'
    BY <1>2, <1>11 DEF IInv, StreamInv, ReadInv
  <2> QED BY <1>10, <2>1, <2>2, <2>7, <2>8 DEF IInv, StreamInv
<1>12. CASE Len(bytes) = need /\ got' = << >>
  <2> DEFINE packet == outgoing[r + 1]
  <2>1. /\ r < n /\ packet \in Packets
        /\ reading = "length" =>
              /\ FromBytes(bytes) = Len(packet)
              /\ f[r] + LengthPrefixSize = Position(f) + Len(bytes)
              /\ Carries(ahead, f[r] + LengthPrefixSize, f, outgoing)
        /\ reading = "packet" =>
              /\ bytes = packet /\ f[r + 1] = Position(f) + Len(bytes)
              /\ Carries(ahead, f[r + 1], f, outgoing)
    BY <1>2, <1>5, <1>8, <1>12, WhatArrives
  <2>2. OnWay' = ahead
    BY <1>5, <1>6, <1>12 DEF OnWay
  <2>3. got' \in Seq(Nat) /\ Len(got') = 0
    BY <1>12, EmptySeq
  <2>4. /\ packet \in Seq(Nat) /\ Len(packet) \in Nat \ {0} /\ Len(packet) <= MaxPacketSize
    BY <2>1, FrameFacts DEF Packets
  <2>5. EndsInv /\ open.receiver
    BY <1>2 DEF IInv, Typed, EndsInv
  <2>6. CASE LengthRead(bytes)
    <3>1. /\ reading = "length" /\ r' = r /\ LengthAccepted(FromBytes(bytes))
      BY <2>1, <2>4, <2>6 DEF LengthRead, LengthAccepted
    <3>2. reading' = "packet" /\ need' = Len(packet) /\ outcome' = outcome /\ open' = open
      BY <2>1, <2>6, <3>1 DEF LengthRead
    <3>3. Types
      BY <1>2, <1>3, <2>1, <2>3, <2>4, <2>5, <3>1, <3>2
    <3>4. RefusedOnlyAfterGap'
      BY <1>2, <3>2 DEF RefusedOnlyAfterGap
    <3>5. Position(f)' = f[r] + LengthPrefixSize
      BY <3>1, <3>2 DEF Position
    <3>6. Ahead(f)' = Ahead(f)
      BY <1>9, <2>1, <2>2, <3>1, <3>5 DEF Ahead
    <3>7. Carries(OnWay, Position(f), f, outgoing)'
      BY <1>2, <2>1, <2>2, <3>1, <3>5
    <3>8. FlowInv(f)'
      BY <1>2, <1>8, <3>2, <3>6, <3>7, StillFlows
    <3>9. ReadInv'
      BY <1>2, <2>1, <3>1, <3>2 DEF ReadInv
    <3> QED BY <1>10, <3>3, <3>4, <3>8, <3>9 DEF IInv, StreamInv
  <2>7. CASE PacketRead(bytes)
    <3>1. /\ reading = "packet" /\ reading' = "length" /\ need' = LengthPrefixSize
          /\ bytes = packet /\ packet \in Range(outgoing)
      <4>1. r + 1 \in 1..n /\ r + 1 \in DOMAIN outgoing
        BY <1>3, <2>1, LenProperties
      <4> QED BY <2>1, <2>7, <4>1 DEF PacketRead, Range
    <3>2. CASE PacketAccepted(bytes)
      <4>1. r' = r + 1 /\ outcome' = outcome /\ open' = open
        BY <2>7, <3>2 DEF PacketRead
      <4>2. Types
        BY <1>2, <1>3, <2>1, <2>3, <2>5, <3>1, <4>1
      <4>3. RefusedOnlyAfterGap'
        BY <1>2, <4>1 DEF RefusedOnlyAfterGap
      <4>4. Position(f)' = f[r + 1] + 0 /\ f[r + 1] \in Nat
        BY <1>7, <1>9, <2>1, <3>1, <4>1 DEF Position
      <4>5. Position(f)' = f[r + 1]
        BY <4>4
      <4>6. Ahead(f)' = Ahead(f)
        BY <1>9, <2>1, <2>2, <3>1, <4>5 DEF Ahead
      <4>7. Carries(OnWay, Position(f), f, outgoing)'
        BY <1>2, <2>1, <2>2, <3>1, <4>5
      <4>8. FlowInv(f)'
        BY <1>2, <1>8, <4>1, <4>6, <4>7, StillFlows
      <4>9. ReadInv'
        BY <3>1 DEF ReadInv
      <4> QED BY <1>10, <4>2, <4>3, <4>8, <4>9 DEF IInv, StreamInv
    <3>3. CASE ~PacketAccepted(bytes)
      <4>1. r' = r /\ outcome' = "rejected" /\ open' = [open EXCEPT !.receiver = FALSE]
        BY <2>7, <3>3 DEF PacketRead, Stop
      <4>2. open' \in [sender : BOOLEAN, receiver : BOOLEAN] /\ ~open'.receiver
        BY <1>3, <4>1
      <4>3. Types
        BY <1>2, <1>3, <2>1, <2>3, <3>1, <4>1, <4>2
      <4>4. ~OutgoingUseNextNumber
        <5>1. r + 1 \in 1..n /\ (r + 1) - 1 = r
          BY <1>3, <2>1
        <5>2. packet[1] # r
          BY <3>1, <3>3 DEF PacketAccepted
        <5> QED BY <5>1, <5>2 DEF OutgoingUseNextNumber
      <4>5. RefusedOnlyAfterGap' /\ StreamInv'
        BY <1>2, <4>1, <4>4 DEF RefusedOnlyAfterGap, OutgoingUseNextNumber, StreamInv
      <4> QED BY <1>10, <4>3, <4>5 DEF IInv
    <3> QED BY <3>2, <3>3
  <2> QED BY <1>6, <1>12, <2>6, <2>7
<1> QED BY <1>6, <1>11, <1>12
-----------------------------------------------------------------------------
LEMMA StepKeeps ==
    ASSUME IInv, [Next]_vars
    PROVE  IInv'
<1>1. ASSUME NEW c \in Senders, StartSend(c) \/ SendStep(c) PROVE IInv'
  BY <1>1, StartSendKeeps, AcquireLockKeeps, EncryptMessageKeeps, SendAllKeeps,
     SendAllFailsKeeps DEF SendStep
<1>2. CASE CloseSender
  BY <1>2, CloseSenderKeeps
<1>3. CASE Receive
  BY <1>3, ReceiveKeeps
<1>4. CASE ReceiveFails
  BY <1>4, ReceiveFailsKeeps
<1>5. CASE UNCHANGED vars
  <2>1. UNCHANGED <<pc, lock, send_sequence, unsent, outgoing, receiveVars, pipe, open>>
    BY <1>5 DEF vars, sendVars
  <2>2. Typed'
    BY <2>1 DEF IInv, Typed, TypeOK, SequencesOK, EndsInv, receiveVars
  <2> QED BY <2>1, <2>2, FlowKept
<1> QED BY <1>1, <1>2, <1>3, <1>4, <1>5 DEF Next

THEOREM IInvAlways == Spec => []IInv
BY InitHolds, StepKeeps, PTL DEF Spec

(* The lock is held by the call that encrypts and sends, and by no other;  *)
(* no packet is received that was not sent; receive_exact never holds more *)
(* than it was asked for.                                                  *)
THEOREM TypesHold == Spec => []TypeOK
<1>1. IInv => TypeOK
  BY DEF IInv, Typed
<1> QED BY <1>1, IInvAlways, PTL

(* Nothing that was sent whole is refused but for a number that an         *)
(* oversized message has used up (transport.py:20-92).                     *)
THEOREM NothingRefused == Spec => []RefusedOnlyAfterGap
<1>1. IInv => RefusedOnlyAfterGap
  BY DEF IInv
<1> QED BY <1>1, IInvAlways, PTL
=============================================================================
